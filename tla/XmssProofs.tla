----------------------------- MODULE XmssProofs -----------------------------
(***************************************************************************)
(* For every digit width, digest length and tree height, any number of     *)
(* trees and any messages: no leaf signs twice, through crashes and        *)
(* restarts; a signature verifies for the digest, the tree and the leaf it *)
(* was made for and nothing else; and from all the signatures given out,   *)
(* hashing onward, only the digests that were signed can be signed.        *)
(***************************************************************************)
EXTENDS Xmss, SumProofs, SequenceTheorems

-----------------------------------------------------------------------------
(* Powers and quotients.                                                   *)

\* The recursion of Power.
PowerStep(base, n, f) ==
    [l \in 0 .. n |-> IF l = 0 THEN 1 ELSE base * f[l - 1]]

\* A recursive definition has a solution, which is built step by step; so for
\* the other recursions below.
LEMMA PowerExists ==
    ASSUME NEW n \in Nat, NEW base
    PROVE  \E f : f = PowerStep(base, n, f)
<1> DEFINE Good == {k \in 0 .. n : \E f : f = PowerStep(base, k, f)}
<1>1. 0 \in Good
    <2> DEFINE f == [l \in 0 .. 0 |-> 1]
    <2>1. f = PowerStep(base, 0, f)
        BY DEF PowerStep
    <2> QED
        BY <2>1
<1>2. ASSUME NEW k \in 1 .. n, k - 1 \in Good PROVE k \in Good
    <2>1. PICK f : f = PowerStep(base, k - 1, f)
        BY <1>2
    <2> DEFINE g == [l \in 0 .. k |-> IF l = k THEN base * f[k - 1] ELSE f[l]]
    <2>2. \A l \in 0 .. k - 1 :
             f[l] = IF l = 0 THEN 1 ELSE base * f[l - 1]
        BY <2>1 DEF PowerStep
    <2>3. ASSUME NEW l \in 0 .. k
          PROVE  g[l] = IF l = 0 THEN 1 ELSE base * g[l - 1]
        BY <2>2
    <2>4. g = [l \in 0 .. k |-> g[l]]
        OBVIOUS
    <2> HIDE DEF g
    <2>5. g = PowerStep(base, k, g)
        BY <2>3, <2>4 DEF PowerStep
    <2> QED
        BY <2>5
<1> HIDE DEF Good
<1>3. n \in Good
    BY <1>1, <1>2, Climbing
<1> QED
    BY <1>3 DEF Good

\* The powers of a number.
LEMMA PowerFacts ==
    ASSUME NEW base
    PROVE  /\ Power(base, 0) = 1
           /\ \A n \in Nat : Power(base, n + 1) = base * Power(base, n)
<1> DEFINE it(n) == CHOOSE f : f = PowerStep(base, n, f)
<1>1. ASSUME NEW n \in Nat
      PROVE  /\ Power(base, n) = it(n)[n]
             /\ \A k \in 0 .. n : it(n)[k] = IF k = 0 THEN 1 ELSE base * it(n)[k - 1]
    <2>1. Power(base, n) = it(n)[n]
        BY DEF Power, PowerStep
    <2>2. it(n) = PowerStep(base, n, it(n))
        BY PowerExists
    <2>3. PICK f : f = it(n)
        OBVIOUS
    <2>4. \A k \in 0 .. n : f[k] = IF k = 0 THEN 1 ELSE base * f[k - 1]
        BY <2>2, <2>3 DEF PowerStep
    <2> QED
        BY <2>1, <2>3, <2>4
<1> HIDE DEF it
<1>2. ASSUME NEW n \in Nat PROVE Power(base, n + 1) = base * Power(base, n)
    <2> DEFINE Good == {k \in 0 .. n : it(n)[k] = it(n + 1)[k]}
    <2>1. n + 1 \in Nat /\ n + 1 # 0 /\ (n + 1) - 1 = n
        OBVIOUS
    <2>2. 0 \in Good
        BY <1>1, <2>1
    <2>3. ASSUME NEW k \in 1 .. n, k - 1 \in Good PROVE k \in Good
        BY <1>1, <2>1, <2>3
    <2> HIDE DEF Good
    <2>4. n \in Good
        BY <2>2, <2>3, Climbing
    <2>5. it(n)[n] = it(n + 1)[n]
        BY <2>4 DEF Good
    <2>6. it(n + 1)[n + 1] = base * it(n + 1)[n]
        BY <1>1, <2>1
    <2> QED
        BY <1>1, <2>1, <2>5, <2>6
<1> QED
    BY <1>1, <1>2

\* The recursion of Quotient.
QuotientStep(x, base, n, f) ==
    [l \in 0 .. n |-> IF l = 0 THEN x ELSE f[l - 1] \div base]

\* There is such a function.
LEMMA QuotientExists ==
    ASSUME NEW n \in Nat, NEW x, NEW base
    PROVE  \E f : f = QuotientStep(x, base, n, f)
<1> DEFINE Good == {k \in 0 .. n : \E f : f = QuotientStep(x, base, k, f)}
<1>1. 0 \in Good
    <2> DEFINE f == [l \in 0 .. 0 |-> x]
    <2>1. f = QuotientStep(x, base, 0, f)
        BY DEF QuotientStep
    <2> QED
        BY <2>1
<1>2. ASSUME NEW k \in 1 .. n, k - 1 \in Good PROVE k \in Good
    <2>1. PICK f : f = QuotientStep(x, base, k - 1, f)
        BY <1>2
    <2> DEFINE g == [l \in 0 .. k |-> IF l = k THEN f[k - 1] \div base ELSE f[l]]
    <2>2. \A l \in 0 .. k - 1 :
             f[l] = IF l = 0 THEN x ELSE f[l - 1] \div base
        BY <2>1 DEF QuotientStep
    <2>3. ASSUME NEW l \in 0 .. k
          PROVE  g[l] = IF l = 0 THEN x ELSE g[l - 1] \div base
        BY <2>2
    <2>4. g = [l \in 0 .. k |-> g[l]]
        OBVIOUS
    <2> HIDE DEF g
    <2>5. g = QuotientStep(x, base, k, g)
        BY <2>3, <2>4 DEF QuotientStep
    <2> QED
        BY <2>5
<1> HIDE DEF Good
<1>3. n \in Good
    BY <1>1, <1>2, Climbing
<1> QED
    BY <1>3 DEF Good

\* A number divided again and again.
LEMMA QuotientFacts ==
    ASSUME NEW x, NEW base
    PROVE  /\ Quotient(x, base, 0) = x
           /\ \A n \in Nat : Quotient(x, base, n + 1) = Quotient(x, base, n) \div base
<1> DEFINE it(n) == CHOOSE f : f = QuotientStep(x, base, n, f)
<1>1. ASSUME NEW n \in Nat
      PROVE  /\ Quotient(x, base, n) = it(n)[n]
             /\ \A k \in 0 .. n : it(n)[k] = IF k = 0 THEN x ELSE it(n)[k - 1] \div base
    <2>1. Quotient(x, base, n) = it(n)[n]
        BY DEF Quotient, QuotientStep
    <2>2. it(n) = QuotientStep(x, base, n, it(n))
        BY QuotientExists
    <2>3. PICK f : f = it(n)
        OBVIOUS
    <2>4. \A k \in 0 .. n : f[k] = IF k = 0 THEN x ELSE f[k - 1] \div base
        BY <2>2, <2>3 DEF QuotientStep
    <2> QED
        BY <2>1, <2>3, <2>4
<1> HIDE DEF it
<1>2. ASSUME NEW n \in Nat PROVE Quotient(x, base, n + 1) = Quotient(x, base, n) \div base
    <2> DEFINE Good == {k \in 0 .. n : it(n)[k] = it(n + 1)[k]}
    <2>1. n + 1 \in Nat /\ n + 1 # 0 /\ (n + 1) - 1 = n
        OBVIOUS
    <2>2. 0 \in Good
        BY <1>1, <2>1
    <2>3. ASSUME NEW k \in 1 .. n, k - 1 \in Good PROVE k \in Good
        BY <1>1, <2>1, <2>3
    <2> HIDE DEF Good
    <2>4. n \in Good
        BY <2>2, <2>3, Climbing
    <2>5. it(n)[n] = it(n + 1)[n]
        BY <2>4 DEF Good
    <2>6. it(n + 1)[n + 1] = it(n + 1)[n] \div base
        BY <1>1, <2>1
    <2> QED
        BY <1>1, <2>1, <2>5, <2>6
<1> QED
    BY <1>1, <1>2

\* Powers are positive.
LEMMA PowerPositive ==
    ASSUME NEW base \in Nat \ {0}, NEW n \in Nat
    PROVE  Power(base, n) \in Nat \ {0}
<1> DEFINE Good == {k \in 0 .. n : Power(base, k) \in Nat \ {0}}
<1>1. 0 \in Good
    BY PowerFacts
<1>2. ASSUME NEW k \in 1 .. n, k - 1 \in Good PROVE k \in Good
    <2>1. k - 1 \in Nat /\ (k - 1) + 1 = k
        OBVIOUS
    <2>2. Power(base, k) = base * Power(base, k - 1)
        BY <2>1, PowerFacts
    <2>3. Power(base, k - 1) \in Nat \ {0}
        BY <1>2
    <2> QED
        BY <2>2, <2>3
<1> HIDE DEF Good
<1>3. n \in Good
    BY <1>1, <1>2, Climbing
<1> QED
    BY <1>3 DEF Good

\* A tree has a leaf.
LEMMA CapacityNat == Capacity \in Nat \ {0}
BY XmssAssumption, PowerPositive DEF Capacity

-----------------------------------------------------------------------------
(* One-time leaves.                                                        *)

\* No leaf of a tree has signed two messages: reserving before signing, the
\* lock and the durable counter together make every signature one-time, also
\* when the process dies between the reservation and the signature.
LeafSignsOnce ==
    \A s, t \in signed : s.tree = t.tree /\ s.leaf = t.leaf => s = t

\* The leaf in hand has been counted and has not signed.
HeldFresh ==
    held # None =>
        /\ durable
        /\ held.leaf < nextLeaf[held.tree]
        /\ \A s \in signed : s.tree = held.tree => s.leaf # held.leaf

\* The inductive invariant.
SignerInv == TypeOK /\ NextIndexUnused /\ HeldFresh /\ LeafSignsOnce

\* No leaf is reserved and none has signed.
LEMMA InitSignerInv == Init => SignerInv
BY CapacityNat
DEF Init, SignerInv, TypeOK, NextIndexUnused, HeldFresh, LeafSignsOnce

\* ReserveLeaf hands out a leaf that no signature names, by NextIndexUnused.
LEMMA ReserveLeafInv ==
    ASSUME SignerInv, NEW tree \in Trees, ReserveLeaf(tree)
    PROVE  SignerInv'
<1> USE CapacityNat DEF SignerInv, ReserveLeaf, LeafLeft, Leaves
<1>1. nextLeaf[tree] \in 0..Capacity /\ nextLeaf[tree] < Capacity
    BY DEF TypeOK
<1>2. held' = [tree |-> tree, leaf |-> nextLeaf[tree]]
    OBVIOUS
<1>3. TypeOK'
    BY <1>1, <1>2 DEF TypeOK
<1>4. /\ nextLeaf'[tree] = nextLeaf[tree] + 1
      /\ \A u \in Trees : nextLeaf[u] \in Nat /\ nextLeaf'[u] >= nextLeaf[u]
    BY <1>1 DEF TypeOK
<1>5. NextIndexUnused'
    BY <1>4 DEF NextIndexUnused, NextIndex, TypeOK
<1>6. HeldFresh'
    <2>1. \A s \in signed : s.tree = tree => s.leaf # nextLeaf[tree]
        BY <1>1 DEF NextIndexUnused, NextIndex, TypeOK
    <2> QED
        BY <1>1, <1>2, <1>4, <2>1 DEF HeldFresh
<1>7. LeafSignsOnce'
    BY DEF LeafSignsOnce
<1> QED
    BY <1>3, <1>5, <1>6, <1>7

\* SignReserved signs with the leaf in hand, which has not signed.
LEMMA SignReservedInv ==
    ASSUME SignerInv, NEW m \in Digests, SignReserved(m)
    PROVE  SignerInv'
<1> USE CapacityNat DEF SignerInv, SignReserved, Leaves
<1> DEFINE new == [tree |-> held.tree, leaf |-> held.leaf, message |-> m]
<1>1. /\ held.tree \in Trees
      /\ held.leaf \in 0..(Capacity - 1)
      /\ held' = None
      /\ signed' = signed \cup {new}
    BY DEF TypeOK
<1>2. cursor' \in [Trees -> 0..Capacity]
    BY <1>1 DEF TypeOK
<1>3. TypeOK'
    BY <1>1, <1>2 DEF TypeOK
<1>4. NextIndexUnused'
    BY <1>1 DEF NextIndexUnused, NextIndex, HeldFresh
<1>5. HeldFresh'
    BY <1>1 DEF HeldFresh
<1>6. LeafSignsOnce'
    BY <1>1 DEF LeafSignsOnce, HeldFresh
<1> QED
    BY <1>3, <1>4, <1>5, <1>6

\* The signer in memory counts with its cursor.
LEMMA SignWithIndexInv ==
    ASSUME SignerInv, NEW tree \in Trees, NEW m \in Digests,
           SignWithIndex(tree, m)
    PROVE  SignerInv'
<1> USE CapacityNat DEF SignerInv, SignWithIndex, Leaves
<1> DEFINE new == [tree |-> tree, leaf |-> cursor[tree], message |-> m]
<1>1. /\ cursor[tree] \in 0..(Capacity - 1)
      /\ signed' = signed \cup {new}
    BY DEF TypeOK
<1>2. TypeOK'
    BY <1>1 DEF TypeOK
<1>3. \A u \in Trees : /\ cursor[u] \in Nat
                       /\ cursor'[u] = IF u = tree THEN cursor[u] + 1 ELSE cursor[u]
    BY <1>1 DEF TypeOK
<1>4. NextIndexUnused'
    BY <1>1, <1>3 DEF NextIndexUnused, NextIndex, TypeOK
<1>5. HeldFresh'
    BY DEF HeldFresh
<1>6. \A s \in signed : s.tree = tree => s.leaf # cursor[tree]
    BY <1>1 DEF NextIndexUnused, NextIndex, TypeOK
<1>7. LeafSignsOnce'
    BY <1>1, <1>6 DEF LeafSignsOnce
<1> QED
    BY <1>2, <1>4, <1>5, <1>7

\* A restart forgets the cursor and the leaf in hand, not the counter.
LEMMA RestartInv == SignerInv /\ Restart => SignerInv'
BY CapacityNat
DEF SignerInv, Restart, TypeOK, NextIndexUnused, NextIndex, HeldFresh, LeafSignsOnce

\* A step that changes nothing.
LEMMA StutterSignerInv == SignerInv /\ UNCHANGED vars => SignerInv'
BY DEF SignerInv, vars, TypeOK, NextIndexUnused, NextIndex, HeldFresh, LeafSignsOnce

\* One lemma per step of the signer.
LEMMA NextSignerInv == SignerInv /\ [Next]_vars => SignerInv'
<1> SUFFICES ASSUME SignerInv, [Next]_vars PROVE SignerInv'
    OBVIOUS
<1>1. CASE \E tree \in Trees : ReserveLeaf(tree)
    BY <1>1, ReserveLeafInv
<1>2. CASE \E m \in Digests : SignReserved(m)
    BY <1>2, SignReservedInv
<1>3. CASE \E tree \in Trees, m \in Digests : SignWithIndex(tree, m)
    BY <1>3, SignWithIndexInv
<1>4. CASE Restart
    BY <1>4, RestartInv
<1>5. CASE UNCHANGED vars
    BY <1>5, StutterSignerInv
<1> QED
    BY <1>1, <1>2, <1>3, <1>4, <1>5 DEF Next

\* The inductive invariant of the signer holds throughout.
LEMMA SpecSignerInv == Spec => []SignerInv
BY InitSignerInv, NextSignerInv, PTL DEF Spec

\* The signer's state is well typed: a tree never hands out more leaves than
\* it has.
THEOREM SignerTypeOK == Spec => []TypeOK
<1>1. SignerInv => TypeOK
    BY DEF SignerInv
<1> QED
    BY <1>1, SpecSignerInv, PTL

\* The next index reported has never signed, through restarts.
THEOREM SignerNextIndexUnused == Spec => []NextIndexUnused
<1>1. SignerInv => NextIndexUnused
    BY DEF SignerInv
<1> QED
    BY <1>1, SpecSignerInv, PTL

\* No one-time leaf ever signs twice, whatever is signed and wherever the
\* process dies.
THEOREM SignerLeafSignsOnce == Spec => []LeafSignsOnce
<1>1. SignerInv => LeafSignsOnce
    BY DEF SignerInv
<1> QED
    BY <1>1, SpecSignerInv, PTL

-----------------------------------------------------------------------------
(* Digits.                                                                 *)

\* Division with remainder.
LEMMA Divide ==
    ASSUME NEW base \in Nat \ {0, 1}, NEW x \in Nat
    PROVE  /\ x \div base \in Nat
           /\ x % base \in 0 .. base - 1
           /\ x = base * (x \div base) + (x % base)
           /\ \A y \in Nat : x < base * y => x \div base < y
OBVIOUS

\* One more division.
LEMMA QuotientStepDown ==
    ASSUME NEW base, NEW x, NEW n \in Nat, NEW k \in 1 .. n
    PROVE  /\ k - 1 \in Nat
           /\ (k - 1) + 1 = k
           /\ Quotient(x, base, k) = Quotient(x, base, k - 1) \div base
<1>1. k - 1 \in Nat /\ (k - 1) + 1 = k
    OBVIOUS
<1>2. Quotient(x, base, (k - 1) + 1) = Quotient(x, base, k - 1) \div base
    BY <1>1, QuotientFacts, Zenon
<1> QED
    BY <1>1, <1>2

\* Quotients of a natural number are natural numbers.
LEMMA QuotientNat ==
    ASSUME NEW base \in Nat \ {0, 1}, NEW x \in Nat, NEW n \in Nat
    PROVE  Quotient(x, base, n) \in Nat
<1> DEFINE Good == {k \in 0 .. n : Quotient(x, base, k) \in Nat}
<1>1. 0 \in Good
    BY QuotientFacts
<1>2. ASSUME NEW k \in 1 .. n, k - 1 \in Good PROVE k \in Good
    <2>1. Quotient(x, base, k) = Quotient(x, base, k - 1) \div base
        BY QuotientStepDown
    <2>2. Quotient(x, base, k - 1) \in Nat
        BY <1>2
    <2> QED
        BY <2>1, <2>2, Divide
<1> HIDE DEF Good
<1>3. n \in Good
    BY <1>1, <1>2, Climbing
<1> QED
    BY <1>3 DEF Good

\* A number of n digits has n - k left after k divisions.
LEMMA QuotientBound ==
    ASSUME NEW base \in Nat \ {0, 1}, NEW n \in Nat, NEW x \in Nat, x < Power(base, n)
    PROVE  \A k \in 0 .. n : Quotient(x, base, k) < Power(base, n - k)
<1> DEFINE Good == {k \in 0 .. n : Quotient(x, base, k) < Power(base, n - k)}
<1>1. 0 \in Good
    BY QuotientFacts
<1>2. ASSUME NEW k \in 1 .. n, k - 1 \in Good PROVE k \in Good
    <2>1. k - 1 \in Nat /\ (k - 1) + 1 = k /\ n - k \in Nat /\ n - (k - 1) = (n - k) + 1
        OBVIOUS
    <2>2. Quotient(x, base, k) = Quotient(x, base, k - 1) \div base
        BY QuotientStepDown
    <2>3. Power(base, n - (k - 1)) = base * Power(base, n - k)
        BY <2>1, PowerFacts
    <2>4. Quotient(x, base, k - 1) \in Nat /\ Power(base, n - k) \in Nat
        BY <2>1, QuotientNat, PowerPositive
    <2>5. Quotient(x, base, k - 1) < base * Power(base, n - k)
        BY <1>2, <2>3
    <2>6. PICK y \in Nat, z \in Nat : y = Quotient(x, base, k - 1) /\ z = Power(base, n - k)
        BY <2>4
    <2>7. y \div base < z
        BY <2>5, <2>6, Divide
    <2> QED
        BY <2>2, <2>6, <2>7
<1> HIDE DEF Good
<1>3. \A k \in 0 .. n : k \in Good
    BY <1>1, <1>2, Climbing
<1> QED
    BY <1>3 DEF Good

\* A number below base ^ n has n digits.
LEMMA QuotientVanishes ==
    ASSUME NEW base \in Nat \ {0, 1}, NEW n \in Nat, NEW x \in Nat, x < Power(base, n)
    PROVE  Quotient(x, base, n) = 0
<1>1. n \in 0 .. n /\ n - n = 0 /\ Power(base, 0) = 1 /\ Quotient(x, base, n) \in Nat
    BY QuotientNat, PowerFacts
<1>2. Quotient(x, base, n) < Power(base, n - n)
    BY <1>1, QuotientBound
<1> QED
    BY <1>1, <1>2

\* Numbers are ordered as their digits are, when those are so at every place.
LEMMA DigitsOrder ==
    ASSUME NEW base \in Nat \ {0, 1}, NEW n \in Nat, NEW c \in Nat, NEW d \in Nat,
           c < Power(base, n), d < Power(base, n),
           \A k \in 0 .. n - 1 : Quotient(c, base, k) % base <= Quotient(d, base, k) % base
    PROVE  c <= d
<1> DEFINE Good == {k \in 0 .. n : Quotient(c, base, n - k) <= Quotient(d, base, n - k)}
<1>1. 0 \in Good
    <2>1. Quotient(c, base, n) = 0 /\ Quotient(d, base, n) = 0 /\ n - 0 = n
        BY QuotientVanishes
    <2> QED
        BY <2>1
<1>2. ASSUME NEW k \in 1 .. n, k - 1 \in Good PROVE k \in Good
    <2> DEFINE l == n - k
    <2>1. l \in Nat /\ n - (k - 1) = l + 1 /\ l \in 0 .. n - 1
        OBVIOUS
    <2>2. PICK c0, c1, d0, d1 :
             /\ c0 = Quotient(c, base, l) /\ c1 = Quotient(c, base, l + 1)
             /\ d0 = Quotient(d, base, l) /\ d1 = Quotient(d, base, l + 1)
        OBVIOUS
    <2>3. /\ c0 \in Nat /\ d0 \in Nat
          /\ c1 = c0 \div base /\ d1 = d0 \div base
        BY <2>1, <2>2, QuotientNat, QuotientFacts
    <2>4. /\ c0 = base * c1 + (c0 % base) /\ d0 = base * d1 + (d0 % base)
          /\ c1 \in Nat /\ d1 \in Nat /\ c0 % base \in Nat /\ d0 % base \in Nat
        <3>1. ASSUME NEW x \in Nat
              PROVE  /\ x = base * (x \div base) + (x % base)
                     /\ x \div base \in Nat /\ x % base \in Nat
            OBVIOUS
        <3> QED
            BY <2>3, <3>1, Zenon
    <2>5. c1 <= d1 /\ c0 % base <= d0 % base
        BY <1>2, <2>1, <2>2
    <2>6. base * c1 <= base * d1
        BY <2>4, <2>5
    <2>7. c0 <= d0
        BY <2>4, <2>5, <2>6
    <2> QED
        BY <2>2, <2>7
<1> HIDE DEF Good
<1>3. n \in Good
    BY <1>1, <1>2, Climbing
<1>4. Quotient(c, base, 0) = c /\ Quotient(d, base, 0) = d /\ n - n = 0
    BY QuotientFacts
<1> QED
    BY <1>3, <1>4 DEF Good

-----------------------------------------------------------------------------
(* Checksums.                                                              *)

\* A sum over the first k numbers.
SumTo(g, k) == SumFunctionOnSet(g, 0 .. k - 1)

\* Such a sum grows by its terms.
LEMMA SumToFacts ==
    ASSUME NEW n \in Nat, NEW g, \A i \in 0 .. n - 1 : g[i] \in Int
    PROVE  /\ SumTo(g, 0) = 0
           /\ \A k \in 0 .. n : SumTo(g, k) \in Int
           /\ \A k \in 1 .. n : SumTo(g, k) = SumTo(g, k - 1) + g[k - 1]
<1>1. SumTo(g, 0) = 0
    <2>1. 0 .. 0 - 1 = {}
        OBVIOUS
    <2> QED
        BY <2>1, SumEmpty DEF SumTo
<1>2. \A k \in 0 .. n : IsFiniteSet(0 .. k - 1)
    BY FS_Interval
<1>3. ASSUME NEW k \in 0 .. n PROVE SumTo(g, k) \in Int
    <2>1. \A i \in 0 .. k - 1 : g[i] \in Int
        OBVIOUS
    <2> QED
        BY <1>2, <2>1, SumInt DEF SumTo
<1>4. ASSUME NEW k \in 1 .. n
      PROVE  SumTo(g, k) = SumTo(g, k - 1) + g[k - 1]
    <2>1. /\ 0 .. k - 1 = (0 .. (k - 1) - 1) \cup {k - 1}
          /\ k - 1 \notin 0 .. (k - 1) - 1
          /\ k - 1 \in 0 .. n
          /\ \A i \in (0 .. (k - 1) - 1) \cup {k - 1} : g[i] \in Int
        OBVIOUS
    <2>2. PICK S, x : S = 0 .. (k - 1) - 1 /\ x = k - 1
        OBVIOUS
    <2>3. IsFiniteSet(S)
        BY <1>2, <2>1, <2>2
    <2>4. SumFunctionOnSet(g, S \cup {x}) = SumFunctionOnSet(g, S) + g[x]
        BY <2>1, <2>2, <2>3, SumAdd
    <2> QED
        BY <2>1, <2>2, <2>4 DEF SumTo
<1> QED
    BY <1>1, <1>3, <1>4

\* The term of a digit in the checksum.
Gap(m) == [i \in 0 .. (Len1 - 1) |-> W - 1 - MessageDigit(m, i)]

\* The digits of a digest and their terms lie below W.
LEMMA MessageDigitTyped ==
    ASSUME NEW m \in Messages, NEW i \in 0 .. Len1 - 1
    PROVE  MessageDigit(m, i) \in 0 .. W - 1 /\ Gap(m)[i] \in 0 .. W - 1
<1>1. m \in Nat /\ Len1 - 1 - i \in Nat
    BY XmssAssumption DEF Messages
<1>2. Quotient(m, W, Len1 - 1 - i) \in Nat
    BY <1>1, QuotientNat, XmssAssumption
<1>3. MessageDigit(m, i) \in 0 .. W - 1
    BY <1>2, Divide, XmssAssumption DEF MessageDigit
<1> QED
    BY <1>3, XmssAssumption DEF Gap

\* Every checksum fits its digits.
LEMMA ChecksumFits ==
    ASSUME NEW m \in Messages
    PROVE  Checksum(m) \in Nat /\ Checksum(m) < Power(W, Len2)
<1> DEFINE g == Gap(m)
           Good == {k \in 0 .. Len1 : SumTo(g, k) \in 0 .. k * (W - 1)}
<1>1. Len1 \in Nat /\ \A i \in 0 .. Len1 - 1 : g[i] \in 0 .. W - 1 /\ g[i] \in Int
    BY MessageDigitTyped, XmssAssumption
<1> HIDE DEF g
<1>2. 0 \in Good
    <2>1. SumTo(g, 0) = 0 /\ 0 * (W - 1) = 0
        BY <1>1, SumToFacts, XmssAssumption
    <2> QED
        BY <1>1, <2>1
<1>3. ASSUME NEW k \in 1 .. Len1, k - 1 \in Good PROVE k \in Good
    <2>1. SumTo(g, k) = SumTo(g, k - 1) + g[k - 1] /\ g[k - 1] \in 0 .. W - 1
        BY <1>1, SumToFacts
    <2>2. SumTo(g, k - 1) \in 0 .. (k - 1) * (W - 1)
        BY <1>3
    <2>3. (k - 1) * (W - 1) + (W - 1) = k * (W - 1) /\ k * (W - 1) \in Nat
          /\ (k - 1) * (W - 1) \in Nat
        BY XmssAssumption
    <2>4. SumTo(g, k) \in 0 .. k * (W - 1)
        BY <2>1, <2>2, <2>3, XmssAssumption
    <2> QED
        BY <2>4
<1> HIDE DEF Good
<1>4. Len1 \in Good
    BY <1>1, <1>2, <1>3, Climbing
<1>5. Checksum(m) = SumTo(g, Len1)
    BY DEF Checksum, SumTo, g, Gap
<1>6. Checksum(m) \in 0 .. Len1 * (W - 1)
    BY <1>4, <1>5 DEF Good
<1> QED
    BY <1>6, XmssAssumption, PowerPositive

\* The checksum falls when a digit rises: digests with digits in order, and
\* checksums in the same order, have the same digits.
LEMMA ChecksumOpposes ==
    ASSUME NEW m \in Messages, NEW o \in Messages,
           \A i \in 0 .. Len1 - 1 : MessageDigit(m, i) <= MessageDigit(o, i),
           Checksum(m) <= Checksum(o)
    PROVE  \A i \in 0 .. Len1 - 1 : MessageDigit(m, i) = MessageDigit(o, i)
<1> DEFINE g == Gap(m)
           h == Gap(o)
           Behind(k) == /\ SumTo(h, k) <= SumTo(g, k)
                        /\ SumTo(h, k) = SumTo(g, k) =>
                             \A i \in 0 .. k - 1 : g[i] = h[i]
           Good == {k \in 0 .. Len1 : Behind(k)}
<1>1. /\ Len1 \in Nat
      /\ \A i \in 0 .. Len1 - 1 : g[i] \in Int /\ h[i] \in Int /\ h[i] <= g[i]
    <2>1. ASSUME NEW i \in 0 .. Len1 - 1
          PROVE  g[i] \in Int /\ h[i] \in Int /\ h[i] <= g[i]
        BY MessageDigitTyped, XmssAssumption DEF Gap
    <2> QED
        BY <2>1, XmssAssumption
<1>2. /\ SumTo(g, 0) = 0 /\ SumTo(h, 0) = 0
      /\ \A k \in 0 .. Len1 : SumTo(g, k) \in Int /\ SumTo(h, k) \in Int
      /\ \A k \in 1 .. Len1 : /\ SumTo(g, k) = SumTo(g, k - 1) + g[k - 1]
                              /\ SumTo(h, k) = SumTo(h, k - 1) + h[k - 1]
    <2> HIDE DEF g, h
    <2> QED
        BY <1>1, SumToFacts
<1>3. Checksum(m) = SumTo(g, Len1) /\ Checksum(o) = SumTo(h, Len1)
    BY DEF Checksum, SumTo, Gap
<1>4. \A i \in 0 .. Len1 - 1 : g[i] = h[i] => MessageDigit(m, i) = MessageDigit(o, i)
    <2>1. ASSUME NEW i \in 0 .. Len1 - 1, g[i] = h[i]
          PROVE  MessageDigit(m, i) = MessageDigit(o, i)
        <3>1. MessageDigit(m, i) \in Int /\ MessageDigit(o, i) \in Int
            BY MessageDigitTyped, XmssAssumption
        <3>2. W - 1 - MessageDigit(m, i) = W - 1 - MessageDigit(o, i)
            BY <2>1 DEF Gap
        <3> QED
            BY <3>1, <3>2, XmssAssumption
    <2> QED
        BY <2>1
<1> HIDE DEF g, h
<1>5. 0 \in Good
    BY <1>1, <1>2
<1>6. ASSUME NEW k \in 1 .. Len1, k - 1 \in Good PROVE k \in Good
    <2>1. /\ SumTo(h, k - 1) <= SumTo(g, k - 1)
          /\ SumTo(h, k - 1) = SumTo(g, k - 1) =>
               \A i \in 0 .. (k - 1) - 1 : g[i] = h[i]
          /\ k - 1 \in 0 .. Len1 /\ k - 1 \in 0 .. Len1 - 1
        BY <1>1, <1>6
    <2>2. /\ SumTo(g, k) = SumTo(g, k - 1) + g[k - 1]
          /\ SumTo(h, k) = SumTo(h, k - 1) + h[k - 1]
          /\ SumTo(g, k - 1) \in Int /\ SumTo(h, k - 1) \in Int
          /\ g[k - 1] \in Int /\ h[k - 1] \in Int /\ h[k - 1] <= g[k - 1]
        BY <1>1, <1>2, <2>1
    <2>3. SumTo(h, k) <= SumTo(g, k)
        BY <2>1, <2>2
    <2>4. ASSUME SumTo(h, k) = SumTo(g, k)
          PROVE  SumTo(h, k - 1) = SumTo(g, k - 1) /\ h[k - 1] = g[k - 1]
        BY <2>1, <2>2, <2>4
    <2>5. SumTo(h, k) = SumTo(g, k) => \A i \in 0 .. k - 1 : g[i] = h[i]
        <3>1. \A i \in 0 .. k - 1 : i \in 0 .. (k - 1) - 1 \/ i = k - 1
            OBVIOUS
        <3> QED
            BY <2>1, <2>4, <3>1
    <2> QED
        BY <2>3, <2>5
<1> HIDE DEF Good
<1>7. Len1 \in Good
    BY <1>1, <1>5, <1>6, Climbing
<1>8. /\ SumTo(h, Len1) <= SumTo(g, Len1)
      /\ SumTo(h, Len1) = SumTo(g, Len1) => \A i \in 0 .. Len1 - 1 : g[i] = h[i]
    BY <1>7 DEF Good
<1>9. SumTo(h, Len1) = SumTo(g, Len1)
    <2>1. SumTo(h, Len1) \in Int /\ SumTo(g, Len1) \in Int
        BY <1>1, <1>2
    <2> QED
        BY <1>3, <1>8, <2>1
<1> QED
    BY <1>4, <1>8, <1>9

-----------------------------------------------------------------------------
(* What follows from the signatures given out.                             *)

\* The digests that have no more than Len1 digits.
LEMMA ShortMessages ==
    \A m \in 0 .. (Power(W, Len1) - 1) : m \in Messages
<1>1. /\ Power(W, Len1 + 1) = W * Power(W, Len1)
      /\ Power(W, Len1) \in Nat \ {0}
    BY PowerFacts, PowerPositive, XmssAssumption
<1>2. PICK p \in Nat \ {0} : p = Power(W, Len1)
    BY <1>1
<1>3. W * p >= p
    BY <1>2, XmssAssumption
<1> QED
    BY <1>1, <1>2, <1>3, XmssAssumption DEF Messages

\* Every digit is one.
LEMMA DigitsTyped ==
    ASSUME NEW m \in Messages, NEW j \in Chains
    PROVE  Digits[m][j] \in 0 .. W - 1
<1>1. Digits[m][j] = IF j < Len1 THEN MessageDigit(m, j)
                     ELSE Quotient(Checksum(m), W, Len1 + Len2 - 1 - j) % W
    BY DEF Digits
<1>2. CASE j < Len1
    <2>1. j \in 0 .. Len1 - 1
        BY <1>2, XmssAssumption DEF Chains
    <2> QED
        BY <1>1, <1>2, <2>1, MessageDigitTyped
<1>3. CASE ~(j < Len1)
    <2>1. Len1 + Len2 - 1 - j \in Nat
        BY XmssAssumption DEF Chains
    <2>2. Quotient(Checksum(m), W, Len1 + Len2 - 1 - j) \in Nat
        BY <2>1, ChecksumFits, QuotientNat, XmssAssumption
    <2> QED
        BY <1>1, <1>3, <2>2, Divide, XmssAssumption
<1> QED
    BY <1>2, <1>3

\* No digest dominates another.
LEMMA DigitsDominate ==
    ASSUME NEW m \in Messages, NEW o \in Messages,
           \A j \in Chains : Digits[m][j] <= Digits[o][j]
    PROVE  Digits[m] = Digits[o]
<1>1. ASSUME NEW x \in Messages
      PROVE  /\ \A i \in 0 .. Len1 - 1 : i \in Chains /\ Digits[x][i] = MessageDigit(x, i)
             /\ \A k \in 0 .. Len2 - 1 :
                  /\ Len1 + Len2 - 1 - k \in Chains
                  /\ Digits[x][Len1 + Len2 - 1 - k] = Quotient(Checksum(x), W, k) % W
    <2>1. ASSUME NEW i \in 0 .. Len1 - 1
          PROVE  i \in Chains /\ Digits[x][i] = MessageDigit(x, i)
        BY XmssAssumption DEF Chains, Digits
    <2>2. ASSUME NEW k \in 0 .. Len2 - 1
          PROVE  /\ Len1 + Len2 - 1 - k \in Chains
                 /\ Digits[x][Len1 + Len2 - 1 - k] = Quotient(Checksum(x), W, k) % W
        <3>1. PICK j : j = Len1 + Len2 - 1 - k
            OBVIOUS
        <3>2. j \in Chains /\ ~(j < Len1) /\ Len1 + Len2 - 1 - j = k
            BY <3>1, XmssAssumption DEF Chains
        <3> QED
            BY <3>1, <3>2 DEF Digits
    <2> QED
        BY <2>1, <2>2
<1>2. \A i \in 0 .. Len1 - 1 : MessageDigit(m, i) <= MessageDigit(o, i)
    BY <1>1
<1>3. Checksum(m) <= Checksum(o)
    <2>1. PICK c \in Nat, d \in Nat : c = Checksum(m) /\ d = Checksum(o)
        BY ChecksumFits
    <2>2. c < Power(W, Len2) /\ d < Power(W, Len2) /\ Len2 \in Nat
        BY <2>1, ChecksumFits, XmssAssumption
    <2>3. ASSUME NEW k \in 0 .. Len2 - 1
          PROVE  Quotient(c, W, k) % W <= Quotient(d, W, k) % W
        BY <1>1, <2>1, Zenon
    <2> QED
        BY <2>1, <2>2, <2>3, DigitsOrder, XmssAssumption
<1>4. \A i \in 0 .. Len1 - 1 : MessageDigit(m, i) = MessageDigit(o, i)
    BY <1>2, <1>3, ChecksumOpposes
<1>5. Checksum(m) = Checksum(o)
    <2>1. Gap(m) = Gap(o)
        BY <1>4 DEF Gap
    <2> QED
        BY <2>1 DEF Checksum, Gap
<1>6. \A j \in Chains : j < Len1 => j \in 0 .. Len1 - 1
    BY XmssAssumption DEF Chains
<1> QED
    BY <1>4, <1>5, <1>6 DEF Digits

\* The step indices that chain hashes with.
Taken(start, n) == [k \in 1 .. n |-> start + k - 1]

\* As many as steps are taken, from the first on.
LEMMA TakenFacts ==
    ASSUME NEW start \in Int, NEW n \in Nat
    PROVE  /\ Taken(start, n) \in Seq(Int)
           /\ Len(Taken(start, n)) = n
           /\ \A k \in 1 .. n : Taken(start, n)[k] = start + k - 1
BY DEF Taken

\* A value of a chain: the secret key it starts from and the steps so far.
Value(a, q) == [key |-> a, steps |-> q]

\* A value is its key and its steps.
LEMMA ValueFacts ==
    ASSUME NEW a, NEW q
    PROVE  /\ Value(a, q).steps = q
           /\ \A r : [Value(a, q) EXCEPT !.steps = r] = Value(a, r)
           /\ \A b, r : Value(a, q) = Value(b, r) => a = b /\ q = r
BY DEF Value

\* A chain keeps its key and grows by the steps taken.
LEMMA ChainValue ==
    ASSUME NEW a, NEW q, NEW start, NEW n
    PROVE  Chain(Value(a, q), start, n) = Value(a, q \o Taken(start, n))
<1>1. PICK v, t, u : v = Value(a, q) /\ t = Taken(start, n) /\ u = q \o t
    OBVIOUS
<1>2. Chain(v, start, n) = [v EXCEPT !.steps = v.steps \o t]
    BY <1>1 DEF Chain, Taken
<1>3. v.steps = q
    BY <1>1, ValueFacts
<1>4. [v EXCEPT !.steps = u] = Value(a, u)
    <2>1. v = Value(a, q)
        BY <1>1
    <2> QED
        BY <2>1 DEF Value
<1>5. Chain(v, start, n) = [v EXCEPT !.steps = u]
    BY <1>1, <1>2, <1>3
<1> QED
    BY <1>1, <1>4, <1>5

\* The steps of a chain are numbers, as many as were taken.
LEMMA ChainSteps ==
    ASSUME NEW a, NEW q \in Seq(Int), NEW start \in Int, NEW n \in Nat
    PROVE  \E r \in Seq(Int) :
             /\ Chain(Value(a, q), start, n) = Value(a, r)
             /\ Len(r) = Len(q) + n
<1>1. PICK t \in Seq(Int) : t = Taken(start, n) /\ Len(t) = n
    BY TakenFacts
<1>2. q \o t \in Seq(Int) /\ Len(q \o t) = Len(q) + n
    BY <1>1
<1>3. Chain(Value(a, q), start, n) = Value(a, q \o t)
    BY <1>1, ChainValue
<1> QED
    BY <1>2, <1>3, Zenon

\* The chains of a key and of a signature, as values.
LEMMA WotsValues ==
    ASSUME NEW tree, NEW leaf, NEW j \in Chains
    PROVE  /\ WotsKeygen(tree, leaf)[j] = Chain(Value(<<tree, leaf, j>>, <<>>), 0, W - 1)
           /\ \A m : WotsSign(tree, leaf, m)[j]
                       = Chain(Value(<<tree, leaf, j>>, <<>>), 0, Digits[m][j])
BY DEF WotsSign, WotsKeygen, SecretKey, Value

\* Chains that end alike have taken as many steps.
LEMMA ChainLengths ==
    ASSUME NEW a, NEW d \in Nat, NEW k \in Nat, NEW e \in Nat, NEW x \in Nat, NEW w \in Nat,
           Chain(Chain(Chain(Value(a, <<>>), 0, d), d, k), e, x) = Chain(Value(a, <<>>), 0, w)
    PROVE  d + k + x = w
<1>1. <<>> \in Seq(Int) /\ Len(<<>>) = 0 /\ 0 \in Int /\ d \in Int /\ e \in Int
    OBVIOUS
<1>2. PICK o \in Seq(Int) : o = <<>> /\ Len(o) = 0
    BY <1>1
<1>3. PICK r1 \in Seq(Int) : Chain(Value(a, o), 0, d) = Value(a, r1) /\ Len(r1) = Len(o) + d
    BY <1>1, ChainSteps
<1>4. PICK r2 \in Seq(Int) : Chain(Value(a, r1), d, k) = Value(a, r2) /\ Len(r2) = Len(r1) + k
    BY <1>1, ChainSteps
<1>5. PICK r3 \in Seq(Int) : Chain(Value(a, r2), e, x) = Value(a, r3) /\ Len(r3) = Len(r2) + x
    BY <1>1, ChainSteps
<1>6. PICK r4 \in Seq(Int) : Chain(Value(a, o), 0, w) = Value(a, r4) /\ Len(r4) = Len(o) + w
    BY <1>1, ChainSteps
<1>7. Value(a, r3) = Value(a, r4)
    BY <1>2, <1>3, <1>4, <1>5, <1>6
<1>8. r3 = r4
    BY <1>7, ValueFacts
<1> QED
    BY <1>2, <1>3, <1>4, <1>5, <1>6, <1>8

\* A chain leads to the public key only when hashed on from a digit that is
\* not above the digest's own.
LEMMA RecoverOnlyUpwards ==
    ASSUME NEW tree, NEW leaf, NEW j \in Chains,
           NEW s \in Messages, NEW m \in Messages, NEW k \in 0 .. (W - 1),
           Recover(Chain(WotsSign(tree, leaf, s)[j], Digits[s][j], k), m, j)
             = WotsKeygen(tree, leaf)[j]
    PROVE  Digits[s][j] <= Digits[m][j]
<1>1. PICK a, d, e, x, w :
         /\ a = <<tree, leaf, j>> /\ d = Digits[s][j] /\ e = Digits[m][j]
         /\ w = W - 1 /\ x = W - 1 - e
    OBVIOUS
<1>2. /\ d \in Nat /\ e \in Nat /\ x \in Nat /\ w \in Nat /\ k \in Nat
      /\ x = w - e
    BY <1>1, DigitsTyped, XmssAssumption
<1>3. /\ WotsSign(tree, leaf, s)[j] = Chain(Value(a, <<>>), 0, d)
      /\ WotsKeygen(tree, leaf)[j] = Chain(Value(a, <<>>), 0, w)
    BY <1>1, WotsValues
<1>4. \A v : Recover(v, m, j) = Chain(v, e, x)
    BY <1>1 DEF Recover
<1>5. Chain(Chain(Chain(Value(a, <<>>), 0, d), d, k), e, x) = Chain(Value(a, <<>>), 0, w)
    BY <1>1, <1>3, <1>4
<1>6. d + k + x = w
    <2>1. d \in Nat /\ e \in Nat /\ x \in Nat /\ w \in Nat /\ k \in Nat
        BY <1>2
    <2> QED
        BY <1>5, <2>1, ChainLengths
<1>7. d <= e
    BY <1>2, <1>6
<1> QED
    BY <1>1, <1>7

\* The signer's invariant is enough.
LEMMA SignerInvOnlySigned == SignerInv => OnlySignedFollows
<1> SUFFICES ASSUME SignerInv, NEW tree \in Trees, NEW leaf \in Leaves,
                    NEW m \in 0 .. (Power(W, Len1) - 1), Follows(tree, leaf, m)
             PROVE  \E s \in signed :
                      /\ s.tree = tree
                      /\ s.leaf = leaf
                      /\ Digits[s.message] = Digits[m]
    BY DEF OnlySignedFollows
<1>1. m \in Messages
    BY ShortMessages
<1>2. \A s \in signed : s.message \in Messages
    BY XmssAssumption DEF SignerInv, TypeOK
<1>3. 0 \in Chains
    BY XmssAssumption DEF Chains
<1>4. PICK s \in signed : s.tree = tree /\ s.leaf = leaf
    BY <1>3 DEF Follows
<1>5. ASSUME NEW j \in Chains
      PROVE  Digits[s.message][j] <= Digits[m][j]
    <2>1. PICK t \in signed :
             /\ t.tree = tree
             /\ t.leaf = leaf
             /\ \E k \in 0 .. (W - 1) :
                  Recover(Chain(WotsSign(tree, leaf, t.message)[j],
                                Digits[t.message][j], k), m, j)
                  = WotsKeygen(tree, leaf)[j]
        BY DEF Follows
    <2>2. t = s
        BY <1>4, <2>1 DEF SignerInv, LeafSignsOnce
    <2>3. Digits[t.message][j] <= Digits[m][j]
        BY <1>1, <1>2, <2>1, RecoverOnlyUpwards
    <2> QED
        BY <2>2, <2>3
<1>6. Digits[s.message] = Digits[m]
    BY <1>1, <1>2, <1>5, DigitsDominate
<1> QED
    BY <1>4, <1>6

\* What verifies was signed, for every Winternitz parameter, digest length and
\* tree height: whatever can be put together from all signatures ever given
\* out is for digits the signer signed with that leaf.
THEOREM SignerOnlySignedFollows == Spec => []OnlySignedFollows
BY SignerInvOnlySigned, SpecSignerInv, PTL

-----------------------------------------------------------------------------
(* The trees.                                                              *)

\* Hashes with their domain tags are injective.
LEMMA HashFacts ==
    /\ \A a, b, c, d : NodeHash(a, b) = NodeHash(c, d) => a = c /\ b = d
    /\ \A p, q : WotsPkToLeaf(p) = WotsPkToLeaf(q) => p = q
    /\ \A a, b, p : NodeHash(a, b) # WotsPkToLeaf(p)
BY DEF NodeHash, WotsPkToLeaf

\* The recursion over the levels of a tree.
LevelStep(tree, f) ==
    [l \in 0 .. Height |->
        IF l = 0
        THEN [i \in Leaves |-> WotsPkToLeaf(WotsKeygen(tree, i))]
        ELSE [i \in 0 .. (Power(2, Height - l) - 1) |->
                NodeHash(f[l - 1][2 * i], f[l - 1][2 * i + 1])]]

\* One level from the one below it.
LevelOver(l, below) ==
    [i \in 0 .. (Power(2, Height - l) - 1) |-> NodeHash(below[2 * i], below[2 * i + 1])]

\* There is such a function.
LEMMA LevelsExist ==
    ASSUME NEW tree
    PROVE  \E f : f = LevelStep(tree, f)
<1> DEFINE base == [i \in Leaves |-> WotsPkToLeaf(WotsKeygen(tree, i))]
           Step(n, f) == [l \in 0 .. n |-> IF l = 0 THEN base ELSE LevelOver(l, f[l - 1])]
           Good == {k \in 0 .. Height : \E f : f = Step(k, f)}
<1>0. \A f : Step(Height, f) = LevelStep(tree, f)
    BY DEF LevelStep, LevelOver
<1> HIDE DEF base
<1>1. 0 \in Good
    <2> DEFINE f == [l \in 0 .. 0 |-> base]
    <2>1. f = Step(0, f)
        OBVIOUS
    <2>2. 0 \in 0 .. Height
        BY XmssAssumption
    <2> HIDE DEF f
    <2> QED
        BY <2>1, <2>2
<1>2. ASSUME NEW k \in 1 .. Height, k - 1 \in Good PROVE k \in Good
    <2>1. PICK f : f = Step(k - 1, f)
        BY <1>2
    <2> DEFINE g == [l \in 0 .. k |-> IF l = k THEN LevelOver(k, f[k - 1]) ELSE f[l]]
    <2>2. \A l \in 0 .. k - 1 : f[l] = IF l = 0 THEN base ELSE LevelOver(l, f[l - 1])
        BY <2>1
    <2>3. ASSUME NEW l \in 0 .. k
          PROVE  g[l] = IF l = 0 THEN base ELSE LevelOver(l, g[l - 1])
        BY <2>2
    <2>4. g = [l \in 0 .. k |-> g[l]]
        OBVIOUS
    <2> HIDE DEF g
    <2>5. g = Step(k, g)
        BY <2>3, <2>4
    <2> QED
        BY <2>5
<1> HIDE DEF Good
<1>3. Height \in Good
    BY <1>1, <1>2, Climbing, XmssAssumption
<1>4. PICK f : f = Step(Height, f)
    BY <1>3 DEF Good
<1> HIDE DEF Step
<1> QED
    BY <1>0, <1>4, Zenon

\* The nodes of the levels.
LEMMA TreeFacts ==
    ASSUME NEW tree \in Trees
    PROVE  /\ \A i \in Leaves : TreeNodes[tree][0][i] = WotsPkToLeaf(WotsKeygen(tree, i))
           /\ \A l \in 1 .. Height : \A i \in 0 .. (Power(2, Height - l) - 1) :
                TreeNodes[tree][l][i]
                  = NodeHash(TreeNodes[tree][l - 1][2 * i], TreeNodes[tree][l - 1][2 * i + 1])
<1>1. TreeNodes[tree] = CHOOSE f : f = LevelStep(tree, f)
    BY DEF TreeNodes, LevelStep
<1>2. PICK f : f = TreeNodes[tree]
    OBVIOUS
<1>3. f = LevelStep(tree, f)
    BY <1>1, <1>2, LevelsExist
<1>4. \A l \in 0 .. Height :
         f[l] = IF l = 0
                THEN [i \in Leaves |-> WotsPkToLeaf(WotsKeygen(tree, i))]
                ELSE [i \in 0 .. (Power(2, Height - l) - 1) |->
                        NodeHash(f[l - 1][2 * i], f[l - 1][2 * i + 1])]
    BY <1>3 DEF LevelStep
<1>5. 0 \in 0 .. Height /\ \A l \in 1 .. Height : l \in 0 .. Height /\ l # 0
    BY XmssAssumption
<1>6. \A i \in Leaves : f[0][i] = WotsPkToLeaf(WotsKeygen(tree, i))
    <2>1. f[0] = [i \in Leaves |-> WotsPkToLeaf(WotsKeygen(tree, i))]
        BY <1>4, <1>5
    <2> QED
        BY <2>1
<1>7. ASSUME NEW l \in 1 .. Height, NEW i \in 0 .. (Power(2, Height - l) - 1)
      PROVE  f[l][i] = NodeHash(f[l - 1][2 * i], f[l - 1][2 * i + 1])
    <2>1. f[l] = [k \in 0 .. (Power(2, Height - l) - 1) |->
                    NodeHash(f[l - 1][2 * k], f[l - 1][2 * k + 1])]
        BY <1>4, <1>5
    <2> QED
        BY <2>1
<1> QED
    BY <1>2, <1>6, <1>7

\* The recursion of Climb.
Turn(index, path, l, below) ==
    IF Quotient(index, 2, l - 1) % 2 = 0 THEN NodeHash(below, path[l])
    ELSE NodeHash(path[l], below)
ClimbStep(leaf, index, path, n, f) ==
    [l \in 0 .. n |-> IF l = 0 THEN leaf ELSE Turn(index, path, l, f[l - 1])]

\* There is such a function.
LEMMA ClimbExists ==
    ASSUME NEW leaf, NEW index, NEW path, NEW n \in Nat
    PROVE  \E f : f = ClimbStep(leaf, index, path, n, f)
<1> DEFINE Good == {k \in 0 .. n : \E f : f = ClimbStep(leaf, index, path, k, f)}
<1>1. 0 \in Good
    <2> DEFINE f == [l \in 0 .. 0 |-> leaf]
    <2>1. f = ClimbStep(leaf, index, path, 0, f)
        BY DEF ClimbStep
    <2> QED
        BY <2>1
<1>2. ASSUME NEW k \in 1 .. n, k - 1 \in Good PROVE k \in Good
    <2>1. PICK f : f = ClimbStep(leaf, index, path, k - 1, f)
        BY <1>2
    <2> DEFINE g == [l \in 0 .. k |-> IF l = k THEN Turn(index, path, k, f[k - 1]) ELSE f[l]]
    <2>2. \A l \in 0 .. k - 1 :
             f[l] = IF l = 0 THEN leaf ELSE Turn(index, path, l, f[l - 1])
        BY <2>1 DEF ClimbStep
    <2>3. ASSUME NEW l \in 0 .. k
          PROVE  g[l] = IF l = 0 THEN leaf ELSE Turn(index, path, l, g[l - 1])
        BY <2>2
    <2>4. g = [l \in 0 .. k |-> g[l]]
        OBVIOUS
    <2> HIDE DEF g
    <2>5. g = ClimbStep(leaf, index, path, k, g)
        BY <2>3, <2>4 DEF ClimbStep
    <2> QED
        BY <2>5
<1> HIDE DEF Good
<1>3. n \in Good
    BY <1>1, <1>2, Climbing
<1> QED
    BY <1>3 DEF Good

\* A climb is a sequence of nodes, each hashed with the next of the path.
Climbs(f, leaf, index, path, n) ==
    /\ f[0] = leaf
    /\ \A l \in 1 .. n : f[l] = Turn(index, path, l, f[l - 1])

\* What Climb returns is the last node of a climb.
LEMMA ClimbFacts ==
    ASSUME NEW leaf, NEW index, NEW path, Len(path) \in Nat
    PROVE  \E f : /\ Climbs(f, leaf, index, path, Len(path))
                  /\ Climb(leaf, index, path) = f[Len(path)]
<1>1. PICK n \in Nat : n = Len(path)
    OBVIOUS
<1>2. PICK f : f = CHOOSE g : g = ClimbStep(leaf, index, path, n, g)
    OBVIOUS
<1>3. f = ClimbStep(leaf, index, path, n, f)
    BY <1>2, ClimbExists
<1>4. \A l \in 0 .. n : f[l] = IF l = 0 THEN leaf ELSE Turn(index, path, l, f[l - 1])
    BY <1>3 DEF ClimbStep
<1>5. Climbs(f, leaf, index, path, n)
    BY <1>4 DEF Climbs
<1>6. Climb(leaf, index, path) = f[n]
    BY <1>1, <1>2 DEF Climb, ClimbStep, Turn
<1> QED
    BY <1>1, <1>5, <1>6

\* The indices of a level, and those of two siblings under one of them.
LevelIndices(l) == 0 .. (Power(2, Height - l) - 1)

\* Both lie in the tree.
LEMMA ChildrenInTree ==
    ASSUME NEW l \in 1 .. Height, NEW i \in LevelIndices(l)
    PROVE  2 * i \in LevelIndices(l - 1) /\ 2 * i + 1 \in LevelIndices(l - 1)
<1>1. Height - l \in Nat /\ Height - (l - 1) = (Height - l) + 1
    BY XmssAssumption
<1>2. PICK p \in Nat : p = Power(2, Height - l)
    BY <1>1, PowerPositive
<1>3. Power(2, Height - (l - 1)) = 2 * p
    BY <1>1, <1>2, PowerFacts
<1>4. i \in 0 .. p - 1
    BY <1>2 DEF LevelIndices
<1>5. 2 * i \in 0 .. (2 * p) - 1 /\ 2 * i + 1 \in 0 .. (2 * p) - 1
    BY <1>4
<1> QED
    BY <1>3, <1>5 DEF LevelIndices

\* The ancestor of a leaf at a level is in the tree.
LEMMA AncestorInLevel ==
    ASSUME NEW leaf \in Leaves, NEW l \in 0 .. Height
    PROVE  Quotient(leaf, 2, l) \in LevelIndices(l)
<1>1. leaf \in Nat /\ leaf < Power(2, Height) /\ Height \in Nat /\ 2 \in Nat \ {0, 1}
    BY CapacityNat, XmssAssumption DEF Leaves, Capacity
<1>2. Quotient(leaf, 2, l) < Power(2, Height - l)
    BY <1>1, QuotientBound
<1>3. Quotient(leaf, 2, l) \in Nat
    <2>1. l \in Nat
        BY <1>1
    <2> QED
        BY <1>1, <2>1, QuotientNat
<1>4. Power(2, Height - l) \in Nat
    BY <1>1, PowerPositive
<1> QED
    BY <1>2, <1>3, <1>4 DEF LevelIndices

\* A node and its sibling are the children of its ancestor.
LEMMA Siblings ==
    ASSUME NEW x \in Nat, NEW l \in Nat \ {0}
    PROVE  /\ Quotient(x, 2, l - 1) % 2 = 0 =>
                /\ Quotient(x, 2, l - 1) = 2 * Quotient(x, 2, l)
                /\ SiblingIndex(Quotient(x, 2, l - 1)) = 2 * Quotient(x, 2, l) + 1
           /\ Quotient(x, 2, l - 1) % 2 # 0 =>
                /\ Quotient(x, 2, l - 1) = 2 * Quotient(x, 2, l) + 1
                /\ SiblingIndex(Quotient(x, 2, l - 1)) = 2 * Quotient(x, 2, l)
<1>1. Quotient(x, 2, l) = Quotient(x, 2, l - 1) \div 2
    <2>1. l \in Nat /\ l \in 1 .. l
        OBVIOUS
    <2> QED
        BY <2>1, QuotientStepDown
<1>2. PICK q \in Nat : q = Quotient(x, 2, l - 1)
    BY QuotientNat
<1>3. /\ q % 2 = 0 => q = 2 * (q \div 2) /\ q + 1 = 2 * (q \div 2) + 1
      /\ q % 2 # 0 => q = 2 * (q \div 2) + 1 /\ q - 1 = 2 * (q \div 2)
    OBVIOUS
<1> QED
    BY <1>1, <1>2, <1>3 DEF SiblingIndex

\* An authentication path has a node for every level.
LEMMA AuthPathFacts ==
    ASSUME NEW tree, NEW leaf
    PROVE  /\ \E S : AuthPath(tree, leaf) \in Seq(S)
           /\ Len(AuthPath(tree, leaf)) = Height
           /\ \A l \in 1 .. Height :
                AuthPath(tree, leaf)[l]
                  = TreeNodes[tree][l - 1][SiblingIndex(Quotient(leaf, 2, l - 1))]
<1> DEFINE node(l) == TreeNodes[tree][l - 1][SiblingIndex(Quotient(leaf, 2, l - 1))]
           path == [l \in 1 .. Height |-> node(l)]
           S == {node(l) : l \in 1 .. Height}
<1>1. AuthPath(tree, leaf) = path
    BY DEF AuthPath
<1> HIDE DEF node
<1>2. path \in Seq(S) /\ Len(path) = Height
    BY XmssAssumption
<1>3. \A l \in 1 .. Height : path[l] = node(l)
    OBVIOUS
<1> HIDE DEF path, S
<1> QED
    BY <1>1, <1>2, <1>3 DEF node

\* No two nodes of a level are the same, in one tree or in two.
LEMMA NodesDistinct ==
    ASSUME NEW t \in Trees, NEW u \in Trees
    PROVE  \A l \in 0 .. Height : \A i, k \in LevelIndices(l) :
             TreeNodes[t][l][i] = TreeNodes[u][l][k] => t = u /\ i = k
<1> DEFINE Apart(l) == \A i, k \in LevelIndices(l) :
                         TreeNodes[t][l][i] = TreeNodes[u][l][k] => t = u /\ i = k
           Good == {l \in 0 .. Height : Apart(l)}
<1>1. 0 \in Good
    <2>1. ASSUME NEW i \in Leaves, NEW k \in Leaves,
                 WotsKeygen(t, i) = WotsKeygen(u, k)
          PROVE  t = u /\ i = k
        <3>1. 0 \in Chains
            BY XmssAssumption DEF Chains
        <3>2. PICK w, s : w = W - 1 /\ s = Taken(0, w)
            OBVIOUS
        <3>3. ASSUME NEW v, NEW leaf
              PROVE  WotsKeygen(v, leaf)[0] = Value(<<v, leaf, 0>>, <<>> \o s)
            <4>1. PICK a : a = <<v, leaf, 0>>
                OBVIOUS
            <4>2. WotsKeygen(v, leaf)[0] = Chain(Value(a, <<>>), 0, w)
                BY <3>1, <3>2, <4>1, WotsValues
            <4>3. Chain(Value(a, <<>>), 0, w) = Value(a, <<>> \o s)
                <5>1. \A q, start, n : Chain(Value(a, q), start, n)
                                        = Value(a, q \o Taken(start, n))
                    BY ChainValue
                <5> QED
                    BY <3>2, <5>1, Zenon
            <4> QED
                BY <4>1, <4>2, <4>3
        <3>4. <<t, i, 0>> = <<u, k, 0>>
            <4>1. PICK a, b, q : a = <<t, i, 0>> /\ b = <<u, k, 0>> /\ q = <<>> \o s
                OBVIOUS
            <4>2. Value(a, q) = Value(b, q)
                BY <2>1, <3>3, <4>1
            <4>3. a = b
                BY <4>2, ValueFacts
            <4> QED
                BY <4>1, <4>3
        <3> QED
            BY <3>4
    <2>2. LevelIndices(0) = Leaves /\ 0 \in 0 .. Height
        BY XmssAssumption DEF LevelIndices, Leaves, Capacity
    <2>3. Apart(0)
        BY <2>1, <2>2, TreeFacts, HashFacts
    <2> QED
        BY <2>2, <2>3
<1>2. ASSUME NEW l \in 1 .. Height, l - 1 \in Good PROVE l \in Good
    <2>1. ASSUME NEW i \in LevelIndices(l), NEW k \in LevelIndices(l),
                 TreeNodes[t][l][i] = TreeNodes[u][l][k]
          PROVE  t = u /\ i = k
        <3>1. NodeHash(TreeNodes[t][l - 1][2 * i], TreeNodes[t][l - 1][2 * i + 1])
                = NodeHash(TreeNodes[u][l - 1][2 * k], TreeNodes[u][l - 1][2 * k + 1])
            BY <2>1, TreeFacts DEF LevelIndices
        <3>2. TreeNodes[t][l - 1][2 * i] = TreeNodes[u][l - 1][2 * k]
            <4>1. PICK a, b, c, d :
                     /\ a = TreeNodes[t][l - 1][2 * i] /\ b = TreeNodes[t][l - 1][2 * i + 1]
                     /\ c = TreeNodes[u][l - 1][2 * k] /\ d = TreeNodes[u][l - 1][2 * k + 1]
                OBVIOUS
            <4>2. NodeHash(a, b) = NodeHash(c, d)
                BY <3>1, <4>1
            <4> QED
                BY <4>1, <4>2, HashFacts
        <3>3. 2 * i \in LevelIndices(l - 1) /\ 2 * k \in LevelIndices(l - 1)
            BY ChildrenInTree
        <3>4. t = u /\ 2 * i = 2 * k
            BY <1>2, <3>2, <3>3
        <3>5. i \in Int /\ k \in Int
            BY DEF LevelIndices
        <3> QED
            BY <3>4, <3>5
    <2>2. l \in 0 .. Height
        OBVIOUS
    <2> QED
        BY <2>1, <2>2
<1> HIDE DEF Good
<1>3. \A l \in 0 .. Height : l \in Good
    BY <1>1, <1>2, Climbing, XmssAssumption
<1> QED
    BY <1>3 DEF Good

\* Up the authentication path the leaf's ancestors follow one another.
LEMMA ClimbAncestors ==
    ASSUME NEW tree \in Trees, NEW leaf \in Leaves, NEW path, NEW n \in 0 .. Height, NEW f,
           \A l \in 1 .. n : path[l] = AuthPath(tree, leaf)[l],
           Climbs(f, WotsPkToLeaf(WotsKeygen(tree, leaf)), leaf, path, n)
    PROVE  \A l \in 0 .. n : f[l] = TreeNodes[tree][l][Quotient(leaf, 2, l)]
<1> DEFINE Good == {l \in 0 .. n : f[l] = TreeNodes[tree][l][Quotient(leaf, 2, l)]}
<1>1. n \in Nat /\ leaf \in Nat /\ \A l \in 1 .. n : l \in 1 .. Height
    BY CapacityNat, XmssAssumption DEF Leaves
<1>2. 0 \in Good
    BY <1>1, QuotientFacts, TreeFacts DEF Climbs
<1>3. ASSUME NEW l \in 1 .. n, l - 1 \in Good PROVE l \in Good
    <2>1. PICK q, p : q = Quotient(leaf, 2, l - 1) /\ p = Quotient(leaf, 2, l)
        OBVIOUS
    <2>2. f[l - 1] = TreeNodes[tree][l - 1][q]
        BY <1>3, <2>1
    <2>3. path[l] = TreeNodes[tree][l - 1][SiblingIndex(q)]
        BY <1>1, <2>1, AuthPathFacts
    <2>4. p \in LevelIndices(l)
        BY <1>1, <2>1, AncestorInLevel
    <2>5. TreeNodes[tree][l][p]
            = NodeHash(TreeNodes[tree][l - 1][2 * p], TreeNodes[tree][l - 1][2 * p + 1])
        BY <1>1, <2>4, TreeFacts DEF LevelIndices
    <2>6. f[l] = IF q % 2 = 0 THEN NodeHash(f[l - 1], path[l]) ELSE NodeHash(path[l], f[l - 1])
        BY <2>1 DEF Climbs, Turn
    <2>7. /\ q % 2 = 0 => q = 2 * p /\ SiblingIndex(q) = 2 * p + 1
          /\ q % 2 # 0 => q = 2 * p + 1 /\ SiblingIndex(q) = 2 * p
        BY <1>1, <2>1, Siblings
    <2>8. f[l] = TreeNodes[tree][l][p]
        BY <2>2, <2>3, <2>5, <2>6, <2>7
    <2> QED
        BY <2>1, <2>8
<1> HIDE DEF Good
<1>4. \A l \in 0 .. n : l \in Good
    BY <1>1, <1>2, <1>3, Climbing
<1> QED
    BY <1>4 DEF Good

\* A climb can be walked back: what leads to the same node by the same path
\* started from the same leaf.
LEMMA ClimbBack ==
    ASSUME NEW x, NEW y, NEW index, NEW path, NEW n \in Nat, NEW f, NEW g,
           Climbs(f, x, index, path, n), Climbs(g, y, index, path, n), f[n] = g[n]
    PROVE  x = y
<1> DEFINE Good == {k \in 0 .. n : f[n - k] = g[n - k]}
<1>1. 0 \in Good
    OBVIOUS
<1>2. ASSUME NEW k \in 1 .. n, k - 1 \in Good PROVE k \in Good
    <2>1. PICK l \in 1 .. n : l = n - (k - 1) /\ l - 1 = n - k
        OBVIOUS
    <2>2. f[l] = g[l]
        BY <1>2, <2>1
    <2>3. Turn(index, path, l, f[l - 1]) = Turn(index, path, l, g[l - 1])
        BY <2>2 DEF Climbs
    <2>4. f[l - 1] = g[l - 1]
        BY <2>3, HashFacts DEF Turn
    <2> QED
        BY <2>1, <2>4
<1> HIDE DEF Good
<1>3. n \in Good
    BY <1>1, <1>2, Climbing
<1>4. n - n = 0
    OBVIOUS
<1> QED
    BY <1>3, <1>4 DEF Good, Climbs

-----------------------------------------------------------------------------
(* Signatures.                                                             *)

\* One sequence after another.
Joins(j, p, q) ==
    /\ Len(j) = Len(p) + Len(q)
    /\ \A i \in 1 .. Len(p) + Len(q) :
         j[i] = IF i <= Len(p) THEN p[i] ELSE q[i - Len(p)]

\* That is what \o does.
LEMMA JoinFacts ==
    ASSUME NEW S, NEW p \in Seq(S), NEW q \in Seq(S)
    PROVE  \E j \in Seq(S) : j = p \o q /\ Joins(j, p, q)
<1>1. p \o q \in Seq(S)
    BY ConcatProperties
<1>2. Joins(p \o q, p, q)
    BY ConcatProperties DEF Joins
<1> QED
    BY <1>1, <1>2, Zenon

\* The steps of a signature and those of the verifier make up the chain.
LEMMA TakenJoin ==
    ASSUME NEW d \in Nat, NEW w \in Nat, d <= w
    PROVE  (<<>> \o Taken(0, d)) \o Taken(d, w - d) = <<>> \o Taken(0, w)
<1>1. PICK x \in Nat : x = w - d
    OBVIOUS
<1>2. PICK p \in Seq(Int) :
         p = Taken(0, d) /\ Len(p) = d /\ \A k \in 1 .. d : p[k] = 0 + k - 1
    BY TakenFacts
<1>3. PICK q \in Seq(Int) :
         q = Taken(d, x) /\ Len(q) = x /\ \A k \in 1 .. x : q[k] = d + k - 1
    BY TakenFacts
<1>4. PICK r \in Seq(Int) :
         r = Taken(0, w) /\ Len(r) = w /\ \A k \in 1 .. w : r[k] = 0 + k - 1
    BY TakenFacts
<1>5. <<>> \o p = p /\ <<>> \o r = r
    BY ConcatEmptySeq
<1>6. PICK j \in Seq(Int) : j = p \o q /\ Joins(j, p, q)
    BY JoinFacts
<1>7. Len(j) = Len(r)
    BY <1>1, <1>2, <1>3, <1>4, <1>6 DEF Joins
<1>8. \A k \in 1 .. w : j[k] = IF k <= d THEN p[k] ELSE q[k - d]
    BY <1>1, <1>2, <1>3, <1>6 DEF Joins
<1>9. ASSUME NEW k \in 1 .. w PROVE j[k] = r[k]
    <2>1. k <= d => k \in 1 .. d
        OBVIOUS
    <2>2. ~(k <= d) => k - d \in 1 .. x /\ d + (k - d) - 1 = k - 1
        BY <1>1
    <2>3. r[k] = k - 1
        BY <1>4
    <2>4. j[k] = k - 1
        <3>1. CASE k <= d
            BY <1>2, <1>8, <2>1, <3>1
        <3>2. CASE ~(k <= d)
            BY <1>3, <1>8, <2>2, <3>2
        <3> QED
            BY <3>1, <3>2
    <2> QED
        BY <2>3, <2>4
<1>10. j = r
    BY <1>4, <1>7, <1>9, SeqEqual
<1> QED
    BY <1>1, <1>2, <1>3, <1>4, <1>5, <1>6, <1>10

\* A signature leads to the public key of its leaf.
LEMMA WotsRoundTrip ==
    ASSUME NEW tree, NEW leaf, NEW m \in Messages
    PROVE  WotsVerify(WotsSign(tree, leaf, m), m) = WotsKeygen(tree, leaf)
<1>1. ASSUME NEW j \in Chains
      PROVE  Recover(WotsSign(tree, leaf, m)[j], m, j) = WotsKeygen(tree, leaf)[j]
    <2>1. PICK a, d, w : a = <<tree, leaf, j>> /\ d = Digits[m][j] /\ w = W - 1
        OBVIOUS
    <2>2. d \in Nat /\ w \in Nat /\ d <= w
        BY <2>1, DigitsTyped, XmssAssumption
    <2>3. \A q, start, n : Chain(Value(a, q), start, n) = Value(a, q \o Taken(start, n))
        BY ChainValue
    <2>4. PICK p : p = <<>> \o Taken(0, d)
        OBVIOUS
    <2>5. WotsSign(tree, leaf, m)[j] = Value(a, p)
        <3>1. WotsSign(tree, leaf, m)[j] = Chain(Value(a, <<>>), 0, d)
            BY <2>1, WotsValues
        <3> QED
            BY <2>3, <2>4, <3>1, Zenon
    <2>6. Recover(Value(a, p), m, j) = Value(a, p \o Taken(d, w - d))
        BY <2>1, <2>3 DEF Recover
    <2>7. p \o Taken(d, w - d) = <<>> \o Taken(0, w)
        BY <2>2, <2>4, TakenJoin
    <2>8. WotsKeygen(tree, leaf)[j] = Value(a, <<>> \o Taken(0, w))
        <3>1. WotsKeygen(tree, leaf)[j] = Chain(Value(a, <<>>), 0, w)
            BY <2>1, WotsValues
        <3> QED
            BY <2>3, <3>1, Zenon
    <2> QED
        BY <2>5, <2>6, <2>7, <2>8
<1>2. DOMAIN WotsSign(tree, leaf, m) = Chains
    BY DEF WotsSign
<1>3. WotsKeygen(tree, leaf) = [j \in Chains |-> WotsKeygen(tree, leaf)[j]]
    BY DEF WotsKeygen
<1>4. WotsVerify(WotsSign(tree, leaf, m), m)
        = [j \in Chains |-> Recover(WotsSign(tree, leaf, m)[j], m, j)]
    BY <1>2 DEF WotsVerify
<1> QED
    BY <1>1, <1>3, <1>4

\* ... and for other digits it does not.
LEMMA WotsExact ==
    ASSUME NEW tree, NEW leaf, NEW s \in Messages, NEW m \in Messages,
           WotsVerify(WotsSign(tree, leaf, s), m) = WotsKeygen(tree, leaf)
    PROVE  Digits[s] = Digits[m]
<1>1. ASSUME NEW j \in Chains PROVE Digits[s][j] <= Digits[m][j]
    <2>1. PICK a, d : a = <<tree, leaf, j>> /\ d = Digits[s][j]
        OBVIOUS
    <2>2. d \in Nat /\ d \in Int /\ 0 \in Int /\ 0 \in Nat /\ 0 \in 0 .. (W - 1)
        BY <2>1, DigitsTyped, XmssAssumption
    <2>3. PICK p \in Seq(Int) : WotsSign(tree, leaf, s)[j] = Value(a, p)
        <3>1. WotsSign(tree, leaf, s)[j] = Chain(Value(a, <<>>), 0, d)
            BY <2>1, WotsValues
        <3>2. PICK o \in Seq(Int) : o = <<>>
            <4>1. <<>> \in Seq(Int)
                OBVIOUS
            <4> QED
                BY <4>1, Zenon
        <3>3. \E p \in Seq(Int) : Chain(Value(a, o), 0, d) = Value(a, p)
            BY <2>2, ChainSteps
        <3> QED
            BY <3>1, <3>2, <3>3
    <2>4. PICK e \in Seq(Int) : e = Taken(d, 0) /\ Len(e) = 0
        BY <2>2, TakenFacts
    <2>5. p \o e = p
        BY <2>4
    <2>6. Chain(Value(a, p), d, 0) = Value(a, p)
        <3>1. Chain(Value(a, p), d, 0) = Value(a, p \o Taken(d, 0))
            BY ChainValue
        <3> QED
            BY <2>4, <2>5, <3>1
    <2>7. Recover(WotsSign(tree, leaf, s)[j], m, j) = WotsKeygen(tree, leaf)[j]
        <3>1. DOMAIN WotsSign(tree, leaf, s) = Chains
            BY DEF WotsSign
        <3> QED
            BY <3>1 DEF WotsVerify
    <2>8. Recover(Chain(WotsSign(tree, leaf, s)[j], Digits[s][j], 0), m, j)
            = WotsKeygen(tree, leaf)[j]
        BY <2>1, <2>3, <2>6, <2>7
    <2> QED
        BY <2>2, <2>8, RecoverOnlyUpwards
<1> QED
    BY <1>1, DigitsDominate

\* A signature by its parts.
Signature(i, w, p) == [leafIndex |-> i, wots |-> w, authPath |-> p]

\* A signature is its parts.
LEMMA SignatureFacts ==
    ASSUME NEW i, NEW w, NEW p
    PROVE  /\ Signature(i, w, p).leafIndex = i
           /\ Signature(i, w, p).wots = w
           /\ Signature(i, w, p).authPath = p
           /\ \A k : [Signature(i, w, p) EXCEPT !.leafIndex = k] = Signature(k, w, p)
           /\ \A v : [Signature(i, w, p) EXCEPT !.wots = v] = Signature(i, v, p)
           /\ \A q : [Signature(i, w, p) EXCEPT !.authPath = q] = Signature(i, w, q)
BY DEF Signature

\* What the verifier looks at.
LEMMA VerifyFacts ==
    ASSUME NEW root, NEW m, NEW i, NEW w, NEW p
    PROVE  Verify(root, m, Signature(i, w, p)) <=>
             /\ DOMAIN w = Chains
             /\ Len(p) < IndexBits
             /\ i < Power(2, Len(p))
             /\ Climb(WotsPkToLeaf(WotsVerify(w, m)), i, p) = root
BY SignatureFacts DEF Verify, ValidateForHeight

\* The leaf a key is hashed to.
LeafNode(tree, leaf) == WotsPkToLeaf(WotsKeygen(tree, leaf))

\* The authentication path leads from the leaf to the root.
LEMMA ClimbOwn ==
    ASSUME NEW tree \in Trees, NEW leaf \in Leaves
    PROVE  /\ leaf \in Nat /\ leaf < Power(2, Height) /\ Height \in Nat
           /\ Quotient(leaf, 2, Height) = 0
           /\ Climb(LeafNode(tree, leaf), leaf, AuthPath(tree, leaf)) = Root(tree)
<1>1. leaf \in Nat /\ leaf < Power(2, Height) /\ Height \in Nat
    BY CapacityNat, XmssAssumption DEF Leaves, Capacity
<1>2. Quotient(leaf, 2, Height) = 0
    BY <1>1, QuotientVanishes
<1>3. PICK p : p = AuthPath(tree, leaf) /\ Len(p) = Height
    BY AuthPathFacts
<1>4. PICK f : /\ Climbs(f, LeafNode(tree, leaf), leaf, p, Height)
               /\ Climb(LeafNode(tree, leaf), leaf, p) = f[Height]
    BY <1>1, <1>3, ClimbFacts
<1>5. f[Height] = TreeNodes[tree][Height][Quotient(leaf, 2, Height)]
    BY <1>1, <1>3, <1>4, ClimbAncestors DEF LeafNode
<1> QED
    BY <1>1, <1>2, <1>3, <1>4, <1>5 DEF Root

\* Roots are as different as their trees.
LEMMA RootsDistinct ==
    ASSUME NEW t \in Trees, NEW u \in Trees, Root(t) = Root(u)
    PROVE  t = u
<1>1. 0 \in LevelIndices(Height) /\ Height \in 0 .. Height
    <2>1. Height - Height = 0 /\ Height \in Nat
        BY XmssAssumption
    <2>2. Power(2, Height - Height) = 1
        BY <2>1, PowerFacts
    <2> QED
        BY <2>1, <2>2 DEF LevelIndices
<1> QED
    BY <1>1, NodesDistinct DEF Root

\* A signature is good for its own digits only.
LEMMA ClimbNeedsKey ==
    ASSUME NEW tree \in Trees, NEW leaf \in Leaves, NEW pk,
           Climb(WotsPkToLeaf(pk), leaf, AuthPath(tree, leaf)) = Root(tree)
    PROVE  pk = WotsKeygen(tree, leaf)
<1>1. PICK p : p = AuthPath(tree, leaf) /\ Len(p) = Height
    BY AuthPathFacts
<1>2. Height \in Nat /\ Climb(LeafNode(tree, leaf), leaf, p) = Root(tree)
    BY <1>1, ClimbOwn
<1>3. PICK f : /\ Climbs(f, LeafNode(tree, leaf), leaf, p, Height)
               /\ Climb(LeafNode(tree, leaf), leaf, p) = f[Height]
    BY <1>1, <1>2, ClimbFacts
<1>4. PICK g : /\ Climbs(g, WotsPkToLeaf(pk), leaf, p, Height)
               /\ Climb(WotsPkToLeaf(pk), leaf, p) = g[Height]
    BY <1>1, <1>2, ClimbFacts
<1>5. f[Height] = g[Height]
    BY <1>1, <1>2, <1>3, <1>4
<1>6. LeafNode(tree, leaf) = WotsPkToLeaf(pk)
    BY <1>2, <1>3, <1>4, <1>5, ClimbBack
<1> QED
    BY <1>6, HashFacts DEF LeafNode

\* A node is not its own sibling.
LEMMA SiblingDiffers ==
    ASSUME NEW tree \in Trees, NEW leaf \in Leaves, NEW l \in 1 .. Height
    PROVE  TreeNodes[tree][l - 1][Quotient(leaf, 2, l - 1)] # AuthPath(tree, leaf)[l]
<1>1. PICK q, p, s : /\ q = Quotient(leaf, 2, l - 1) /\ p = Quotient(leaf, 2, l)
                     /\ s = SiblingIndex(q)
    OBVIOUS
<1>2. leaf \in Nat /\ Height \in Nat
    BY ClimbOwn
<1>3. l \in Nat \ {0} /\ l \in 0 .. Height /\ l - 1 \in 0 .. Height
    BY <1>2
<1>4. /\ q % 2 = 0 => q = 2 * p /\ s = 2 * p + 1
      /\ q % 2 # 0 => q = 2 * p + 1 /\ s = 2 * p
    BY <1>1, <1>2, <1>3, Siblings
<1>5. p \in LevelIndices(l)
    BY <1>1, <1>3, AncestorInLevel
<1>6. 2 * p \in LevelIndices(l - 1) /\ 2 * p + 1 \in LevelIndices(l - 1)
    BY <1>5, ChildrenInTree
<1>7. q \in LevelIndices(l - 1) /\ s \in LevelIndices(l - 1)
    BY <1>4, <1>6
<1>8. q # s
    BY <1>4, <1>5 DEF LevelIndices
<1>9. TreeNodes[tree][l - 1][q] # TreeNodes[tree][l - 1][s]
    BY <1>3, <1>7, <1>8, NodesDistinct
<1>10. AuthPath(tree, leaf)[l] = TreeNodes[tree][l - 1][s]
    BY <1>1, AuthPathFacts
<1> QED
    BY <1>1, <1>9, <1>10

\* The path is good for its own leaf only.
LEMMA ClimbNeedsIndex ==
    ASSUME NEW tree \in Trees, NEW leaf \in Leaves, NEW i \in Nat, i < Power(2, Height),
           Climb(LeafNode(tree, leaf), i, AuthPath(tree, leaf)) = Root(tree)
    PROVE  i = leaf
<1>1. PICK p : p = AuthPath(tree, leaf) /\ Len(p) = Height
    BY AuthPathFacts
<1>2. /\ leaf \in Nat /\ leaf < Power(2, Height) /\ Height \in Nat
      /\ Climb(LeafNode(tree, leaf), leaf, p) = Root(tree)
    BY <1>1, ClimbOwn
<1>3. PICK f : /\ Climbs(f, LeafNode(tree, leaf), leaf, p, Height)
               /\ Climb(LeafNode(tree, leaf), leaf, p) = f[Height]
    BY <1>1, <1>2, ClimbFacts
<1>4. PICK g : /\ Climbs(g, LeafNode(tree, leaf), i, p, Height)
               /\ Climb(LeafNode(tree, leaf), i, p) = g[Height]
    BY <1>1, <1>2, ClimbFacts
<1>5. f[Height] = g[Height]
    BY <1>1, <1>2, <1>3, <1>4
<1>6. \A l \in 0 .. Height : f[l] = TreeNodes[tree][l][Quotient(leaf, 2, l)]
    <2>1. Height \in 0 .. Height
        BY <1>2
    <2> QED
        BY <1>1, <1>3, <2>1, ClimbAncestors DEF LeafNode
<1>7. ASSUME NEW l \in 1 .. Height, f[l] = g[l]
      PROVE  /\ f[l - 1] = g[l - 1]
             /\ Quotient(leaf, 2, l - 1) % 2 = 0 <=> Quotient(i, 2, l - 1) % 2 = 0
    <2>1. f[l - 1] # p[l]
        <3>1. l - 1 \in 0 .. Height
            BY <1>2
        <3> QED
            BY <1>1, <1>6, <3>1, SiblingDiffers
    <2>2. Turn(leaf, p, l, f[l - 1]) = Turn(i, p, l, g[l - 1])
        BY <1>3, <1>4, <1>7 DEF Climbs
    <2> QED
        BY <2>1, <2>2, HashFacts DEF Turn
<1> DEFINE Good == {k \in 0 .. Height : f[Height - k] = g[Height - k]}
<1>8. 0 \in Good
    BY <1>2, <1>5
<1>9. ASSUME NEW k \in 1 .. Height, k - 1 \in Good PROVE k \in Good
    <2>1. PICK l \in 1 .. Height : l = Height - (k - 1) /\ l - 1 = Height - k
        BY <1>2
    <2>2. f[l] = g[l]
        BY <1>9, <2>1
    <2> QED
        BY <1>7, <2>1, <2>2
<1> HIDE DEF Good
<1>10. \A k \in 0 .. Height : k \in Good
    BY <1>2, <1>8, <1>9, Climbing
<1>11. ASSUME NEW k \in 0 .. Height - 1
       PROVE  Quotient(leaf, 2, k) % 2 = Quotient(i, 2, k) % 2
    <2>1. PICK l \in 1 .. Height : l - 1 = k /\ Height - l \in 0 .. Height
                                   /\ Height - (Height - l) = l
        BY <1>2
    <2>2. f[l] = g[l]
        BY <1>10, <2>1 DEF Good
    <2>3. Quotient(leaf, 2, k) % 2 = 0 <=> Quotient(i, 2, k) % 2 = 0
        BY <1>7, <2>1, <2>2
    <2>4. k \in Nat
        BY <1>2
    <2>5. PICK a \in Nat, b \in Nat : a = Quotient(leaf, 2, k) /\ b = Quotient(i, 2, k)
        <3>1. Quotient(leaf, 2, k) \in Nat
            <4>1. leaf \in Nat
                BY <1>2
            <4> QED
                BY <2>4, <4>1, QuotientNat
        <3>2. Quotient(i, 2, k) \in Nat
            BY <2>4, QuotientNat
        <3> QED
            BY <3>1, <3>2
    <2>6. a % 2 \in 0 .. 1 /\ b % 2 \in 0 .. 1
        OBVIOUS
    <2> QED
        BY <2>3, <2>5, <2>6
<1>12. \A k \in 0 .. Height - 1 : /\ Quotient(leaf, 2, k) % 2 <= Quotient(i, 2, k) % 2
                                  /\ Quotient(i, 2, k) % 2 <= Quotient(leaf, 2, k) % 2
    <2>1. ASSUME NEW k \in 0 .. Height - 1 PROVE Quotient(i, 2, k) % 2 \in Int
        <3>1. k \in Nat
            BY <1>2
        <3>2. Quotient(i, 2, k) \in Nat
            BY <3>1, QuotientNat
        <3> QED
            BY <3>2
    <2> QED
        BY <1>11, <2>1
<1>13. leaf <= i /\ i <= leaf
    <2>1. 2 \in Nat \ {0, 1}
        OBVIOUS
    <2> QED
        BY <1>2, <1>12, <2>1, DigitsOrder
<1> QED
    BY <1>2, <1>13

\* A root is no node of a lower level.
LEMMA RootIsHighest ==
    ASSUME NEW tree \in Trees, NEW l \in 0 .. Height, l # Height
    PROVE  TreeNodes[tree][l][0] # Root(tree)
<1> SUFFICES ASSUME TreeNodes[tree][l][0] = TreeNodes[tree][Height][0] PROVE FALSE
    BY DEF Root
<1>1. Height \in Nat /\ l \in Nat
    BY XmssAssumption
<1>2. ASSUME NEW k \in 1 .. Height
      PROVE  \E b : TreeNodes[tree][k][0] = NodeHash(TreeNodes[tree][k - 1][0], b)
    <2>1. Power(2, Height - k) \in Nat \ {0}
        <3>1. Height - k \in Nat
            BY <1>1
        <3> QED
            BY <3>1, PowerPositive
    <2>2. 0 \in 0 .. (Power(2, Height - k) - 1) /\ 2 * 0 = 0
        BY <2>1
    <2> QED
        BY <2>2, TreeFacts
<1> DEFINE Good == {k \in 0 .. l : TreeNodes[tree][l - k][0] = TreeNodes[tree][Height - k][0]}
<1>3. 0 \in Good
    BY <1>1
<1>4. ASSUME NEW k \in 1 .. l, k - 1 \in Good PROVE k \in Good
    <2>1. PICK a \in 1 .. Height, b \in 1 .. Height :
             /\ a = l - (k - 1) /\ a - 1 = l - k
             /\ b = Height - (k - 1) /\ b - 1 = Height - k
        BY <1>1
    <2>2. TreeNodes[tree][a][0] = TreeNodes[tree][b][0]
        BY <1>4, <2>1
    <2>3. TreeNodes[tree][a - 1][0] = TreeNodes[tree][b - 1][0]
        BY <1>2, <2>2, HashFacts
    <2> QED
        BY <2>1, <2>3
<1> HIDE DEF Good
<1>5. l \in Good
    BY <1>1, <1>3, <1>4, Climbing
<1>6. PICK h \in 1 .. Height : h = Height - l
    BY <1>1
<1>7. TreeNodes[tree][0][0] = TreeNodes[tree][h][0]
    BY <1>1, <1>5, <1>6 DEF Good
<1>8. 0 \in Leaves
    BY CapacityNat DEF Leaves
<1> QED
    BY <1>2, <1>7, <1>8, TreeFacts, HashFacts

\* A path that is cut ends below the root.
LEMMA ClimbNeedsLength ==
    ASSUME NEW tree \in Trees, NEW leaf \in Leaves, NEW l \in 0 .. Height, l # Height,
           NEW p, Len(p) = l, \A k \in 1 .. l : p[k] = AuthPath(tree, leaf)[k],
           leaf < Power(2, l)
    PROVE  Climb(LeafNode(tree, leaf), leaf, p) # Root(tree)
<1>1. leaf \in Nat /\ l \in Nat
    BY ClimbOwn
<1>2. PICK f : /\ Climbs(f, LeafNode(tree, leaf), leaf, p, l)
               /\ Climb(LeafNode(tree, leaf), leaf, p) = f[l]
    BY <1>1, ClimbFacts
<1>3. f[l] = TreeNodes[tree][l][Quotient(leaf, 2, l)]
    BY <1>1, <1>2, ClimbAncestors DEF LeafNode
<1>4. Quotient(leaf, 2, l) = 0
    BY <1>1, QuotientVanishes
<1> QED
    BY <1>2, <1>3, <1>4, RootIsHighest

\* Once nothing is left there is nothing left.
LEMMA QuotientStaysZero ==
    ASSUME NEW base \in Nat \ {0, 1}, NEW x \in Nat, NEW n \in Nat, NEW d \in Nat,
           Quotient(x, base, n) = 0
    PROVE  \A k \in 0 .. d : Quotient(x, base, n + k) = 0
<1> DEFINE Good == {k \in 0 .. d : Quotient(x, base, n + k) = 0}
<1>1. 0 \in Good
    OBVIOUS
<1>2. ASSUME NEW k \in 1 .. d, k - 1 \in Good PROVE k \in Good
    <2>1. PICK a \in Nat : a = n + (k - 1) /\ a + 1 = n + k
        OBVIOUS
    <2>2. Quotient(x, base, a) = 0
        BY <1>2, <2>1
    <2>3. Quotient(x, base, a + 1) = Quotient(x, base, a) \div base
        <3> HIDE DEF Good
        <3>1. \A b \in Nat : Quotient(x, base, b + 1) = Quotient(x, base, b) \div base
            BY QuotientFacts
        <3> QED
            BY <3>1
    <2>4. 0 \div base = 0
        OBVIOUS
    <2> QED
        BY <2>1, <2>2, <2>3, <2>4
<1> HIDE DEF Good
<1>3. \A k \in 0 .. d : k \in Good
    BY <1>1, <1>2, Climbing
<1> QED
    BY <1>3 DEF Good

\* A path that is repeated ends above the root.
LEMMA ClimbNeedsOnce ==
    ASSUME NEW tree \in Trees, NEW leaf \in Leaves, Height # 0,
           NEW p, Len(p) = Height + Height,
           \A k \in 1 .. Height : p[k] = AuthPath(tree, leaf)[k]
    PROVE  Climb(LeafNode(tree, leaf), leaf, p) # Root(tree)
<1> SUFFICES ASSUME Climb(LeafNode(tree, leaf), leaf, p) = Root(tree) PROVE FALSE
    OBVIOUS
<1>1. leaf \in Nat /\ Height \in Nat /\ Height + Height \in Nat /\ Quotient(leaf, 2, Height) = 0
    BY ClimbOwn
<1>2. PICK f : /\ Climbs(f, LeafNode(tree, leaf), leaf, p, Height + Height)
               /\ Climb(LeafNode(tree, leaf), leaf, p) = f[Height + Height]
    BY <1>1, ClimbFacts
<1>3. f[Height] = TreeNodes[tree][Height][0]
    <2>1. Climbs(f, LeafNode(tree, leaf), leaf, p, Height)
        BY <1>1, <1>2 DEF Climbs
    <2>2. Height \in 0 .. Height
        BY <1>1
    <2>3. f[Height] = TreeNodes[tree][Height][Quotient(leaf, 2, Height)]
        BY <2>1, <2>2, ClimbAncestors DEF LeafNode
    <2> QED
        BY <1>1, <2>3
<1>4. ASSUME NEW k \in 1 .. Height
      PROVE  f[Height + k] = NodeHash(f[Height + (k - 1)], p[Height + k])
    <2>1. PICK l \in 1 .. (Height + Height) : l = Height + k /\ l - 1 = Height + (k - 1)
        BY <1>1
    <2>2. k - 1 \in 0 .. Height
        BY <1>1
    <2>3. Quotient(leaf, 2, Height + (k - 1)) = 0
        <3>1. \A j \in 0 .. Height : Quotient(leaf, 2, Height + j) = 0
            <4>1. 2 \in Nat \ {0, 1} /\ Height \in Nat /\ Quotient(leaf, 2, Height) = 0
                BY <1>1
            <4> QED
                BY <1>1, <4>1, QuotientStaysZero, Zenon
        <3> QED
            BY <2>2, <3>1
    <2>4. f[l] = Turn(leaf, p, l, f[l - 1])
        BY <1>2 DEF Climbs
    <2>5. Quotient(leaf, 2, l - 1) % 2 = 0
        BY <2>1, <2>3
    <2> QED
        BY <2>1, <2>4, <2>5 DEF Turn
<1>5. ASSUME NEW k \in 1 .. Height
      PROVE  \E b : TreeNodes[tree][k][0] = NodeHash(TreeNodes[tree][k - 1][0], b)
    <2>1. Height - k \in Nat
        BY <1>1
    <2>2. Power(2, Height - k) \in Nat \ {0}
        BY <2>1, PowerPositive
    <2>3. 0 \in 0 .. (Power(2, Height - k) - 1) /\ 2 * 0 = 0
        BY <2>2
    <2> QED
        BY <2>3, TreeFacts
<1> DEFINE Good == {k \in 0 .. Height :
                      f[Height + (Height - k)] = TreeNodes[tree][Height - k][0]}
<1>6. 0 \in Good
    <2>1. 0 \in 0 .. Height /\ Height - 0 = Height
        BY <1>1
    <2>2. f[Height + Height] = TreeNodes[tree][Height][0]
        BY <1>2 DEF Root
    <2> QED
        BY <2>1, <2>2
<1>7. ASSUME NEW k \in 1 .. Height, k - 1 \in Good PROVE k \in Good
    <2>1. PICK a \in 1 .. Height : a = Height - (k - 1) /\ a - 1 = Height - k
        BY <1>1
    <2>2. f[Height + a] = TreeNodes[tree][a][0]
        BY <1>7, <2>1
    <2>3. f[Height + (a - 1)] = TreeNodes[tree][a - 1][0]
        BY <1>4, <1>5, <2>2, HashFacts
    <2> QED
        BY <2>1, <2>3
<1> HIDE DEF Good
<1>8. Height \in Good
    BY <1>1, <1>6, <1>7, Climbing
<1>9. f[Height] = TreeNodes[tree][0][0]
    BY <1>1, <1>8 DEF Good
<1>10. 0 \in 0 .. Height
    BY <1>1
<1> QED
    BY <1>3, <1>9, <1>10, RootIsHighest DEF Root

\* A signature verifies under its own root, and under no other.
LEMMA ExactTree ==
    ASSUME NEW tree \in Trees, NEW leaf \in Leaves, NEW m \in Messages, NEW t \in Trees
    PROVE  Verify(Root(t), m, Signature(leaf, WotsSign(tree, leaf, m), AuthPath(tree, leaf)))
             <=> t = tree
<1>1. PICK w, p : w = WotsSign(tree, leaf, m) /\ p = AuthPath(tree, leaf)
    OBVIOUS
<1>2. DOMAIN w = Chains /\ WotsVerify(w, m) = WotsKeygen(tree, leaf)
    BY <1>1, WotsRoundTrip DEF WotsSign
<1>3. Len(p) = Height
    BY <1>1, AuthPathFacts
<1>4. /\ leaf < Power(2, Height)
      /\ Climb(WotsPkToLeaf(WotsVerify(w, m)), leaf, p) = Root(tree)
    BY <1>1, <1>2, ClimbOwn DEF LeafNode
<1>5. Verify(Root(t), m, Signature(leaf, w, p)) <=> Root(tree) = Root(t)
    BY <1>2, <1>3, <1>4, VerifyFacts, XmssAssumption
<1> QED
    BY <1>1, <1>5, RootsDistinct

\* ... for its own digits only.
LEMMA ExactDigits ==
    ASSUME NEW tree \in Trees, NEW leaf \in Leaves, NEW s \in Messages, NEW m \in Messages,
           Verify(Root(tree), m, Signature(leaf, WotsSign(tree, leaf, s), AuthPath(tree, leaf)))
    PROVE  Digits[s] = Digits[m]
<1>1. Climb(WotsPkToLeaf(WotsVerify(WotsSign(tree, leaf, s), m)), leaf, AuthPath(tree, leaf))
        = Root(tree)
    BY VerifyFacts
<1>2. WotsVerify(WotsSign(tree, leaf, s), m) = WotsKeygen(tree, leaf)
    BY <1>1, ClimbNeedsKey
<1> QED
    BY <1>2, WotsExact

\* ... and in no other shape.
LEMMA ExactShape ==
    ASSUME NEW tree \in Trees, NEW leaf \in Leaves, NEW m \in Messages, NEW sig, NEW other,
           sig = Signature(leaf, WotsSign(tree, leaf, m), AuthPath(tree, leaf)),
           other \in Reshaped(sig) \ {sig}
    PROVE  ~Verify(Root(tree), m, other)
<1>1. PICK w, p : w = WotsSign(tree, leaf, m) /\ p = AuthPath(tree, leaf)
    OBVIOUS
<1>2. /\ DOMAIN w = Chains
      /\ WotsPkToLeaf(WotsVerify(w, m)) = LeafNode(tree, leaf)
    BY <1>1, WotsRoundTrip DEF WotsSign, LeafNode
<1>3. PICK S : p \in Seq(S)
    BY <1>1, AuthPathFacts
<1>4. Len(p) = Height /\ Height \in Nat
    BY <1>1, AuthPathFacts, XmssAssumption
<1>5. sig = Signature(leaf, w, p)
    BY <1>1
<1>6. /\ sig.wots = w
      /\ sig.authPath = p
      /\ \A k : [sig EXCEPT !.leafIndex = k] = Signature(k, w, p)
      /\ \A v : [sig EXCEPT !.wots = v] = Signature(leaf, v, p)
      /\ \A q : [sig EXCEPT !.authPath = q] = Signature(leaf, w, q)
    BY <1>5, SignatureFacts
<1>7. \/ \E i \in 0 .. (2 * Capacity - 1) : other = Signature(i, w, p)
      \/ \E l \in 0 .. Height : other = Signature(leaf, w, SubSeq(p, 1, l))
      \/ other = Signature(leaf, w, p \o p)
      \/ other = Signature(leaf, [j \in Chains \ {0} |-> w[j]], p)
    <2>1. \/ \E i \in 0 .. (2 * Capacity - 1) : other = [sig EXCEPT !.leafIndex = i]
          \/ \E l \in 0 .. Height : other = [sig EXCEPT !.authPath = SubSeq(sig.authPath, 1, l)]
          \/ other = [sig EXCEPT !.authPath = sig.authPath \o sig.authPath]
          \/ other = [sig EXCEPT !.wots = [j \in Chains \ {0} |-> sig.wots[j]]]
        BY Zenon DEF Reshaped
    <2>2. CASE \E i \in 0 .. (2 * Capacity - 1) : other = [sig EXCEPT !.leafIndex = i]
        BY <1>6, <2>2, Zenon
    <2>3. CASE \E l \in 0 .. Height : other = [sig EXCEPT !.authPath = SubSeq(sig.authPath, 1, l)]
        <3>1. PICK l, q :
                 /\ l \in 0 .. Height
                 /\ q = SubSeq(sig.authPath, 1, l)
                 /\ other = [sig EXCEPT !.authPath = q]
            BY <2>3
        <3>2. q = SubSeq(p, 1, l)
            BY <1>6, <3>1
        <3>3. other = Signature(leaf, w, q)
            BY <1>6, <3>1
        <3> QED
            BY <3>1, <3>2, <3>3, Zenon
    <2>4. CASE other = [sig EXCEPT !.authPath = sig.authPath \o sig.authPath]
        BY <1>6, <2>4, Zenon
    <2>5. CASE other = [sig EXCEPT !.wots = [j \in Chains \ {0} |-> sig.wots[j]]]
        <3>1. PICK v : v = [j \in Chains \ {0} |-> sig.wots[j]]
            OBVIOUS
        <3>2. v = [j \in Chains \ {0} |-> w[j]]
            BY <1>6, <3>1
        <3>3. other = Signature(leaf, v, p)
            BY <1>6, <2>5, <3>1
        <3> QED
            BY <3>2, <3>3
    <2> QED
        BY <2>1, <2>2, <2>3, <2>4, <2>5, Zenon
<1>8. CASE \E i \in 0 .. (2 * Capacity - 1) : other = Signature(i, w, p)
    <2>1. PICK i \in 0 .. (2 * Capacity - 1) : other = Signature(i, w, p)
        BY <1>8
    <2>2. i # leaf
        BY <1>5, <2>1
    <2>3. i \in Nat
        BY CapacityNat
    <2>4. i < Power(2, Height) => Climb(LeafNode(tree, leaf), i, p) # Root(tree)
        BY <1>1, <2>2, <2>3, ClimbNeedsIndex
    <2> QED
        BY <1>2, <1>4, <2>1, <2>4, VerifyFacts
<1>9. CASE \E l \in 0 .. Height : other = Signature(leaf, w, SubSeq(p, 1, l))
    <2>1. PICK l, q : /\ l \in 0 .. Height
                      /\ other = Signature(leaf, w, q)
                      /\ q = SubSeq(p, 1, l)
        BY <1>9
    <2>2. q \in Seq(S) /\ Len(q) = l /\ \A k \in 1 .. l : q[k] = p[k]
        <3>1. \A k \in 1 .. l : p[k] \in S
            BY <1>3, <1>4, <2>1
        <3>2. 1 \in Int /\ l \in Int /\ 0 <= l
            BY <1>4, <2>1
        <3>3. /\ q \in Seq(S)
              /\ Len(q) = IF 1 <= l THEN l - 1 + 1 ELSE 0
              /\ \A k \in 1 .. l - 1 + 1 : q[k] = p[1 + k - 1]
            BY <2>1, <3>1, <3>2, SubSeqProperties
        <3> QED
            BY <3>2, <3>3
    <2>3. l # Height
        <3>1. ASSUME l = Height PROVE q = p
            BY <1>3, <1>4, <2>2, <3>1, SeqEqual
        <3> QED
            BY <1>5, <2>1, <3>1
    <2>4. leaf < Power(2, l) => Climb(LeafNode(tree, leaf), leaf, q) # Root(tree)
        BY <1>1, <2>1, <2>2, <2>3, ClimbNeedsLength
    <2>5. Len(q) = l /\ other = Signature(leaf, w, q)
        BY <2>1, <2>2
    <2>6. Verify(Root(tree), m, other) =>
             leaf < Power(2, l) /\ Climb(LeafNode(tree, leaf), leaf, q) = Root(tree)
        BY <1>2, <2>5, VerifyFacts
    <2> QED
        BY <2>4, <2>6
<1>10. CASE other = Signature(leaf, w, p \o p)
    <2>1. PICK q \in Seq(S) : q = p \o p /\ Joins(q, p, p)
        BY <1>3, JoinFacts
    <2>2. Len(q) = Height + Height /\ \A k \in 1 .. Height : q[k] = p[k]
        BY <1>4, <2>1 DEF Joins
    <2>3. Height # 0
        <3>1. ASSUME Height = 0 PROVE q = p
            BY <1>3, <1>4, <2>2, <3>1, SeqEqual
        <3> QED
            BY <1>5, <1>10, <2>1, <3>1
    <2>4. Climb(LeafNode(tree, leaf), leaf, q) # Root(tree)
        BY <1>1, <2>2, <2>3, ClimbNeedsOnce
    <2> QED
        BY <1>2, <1>10, <2>1, <2>4, VerifyFacts
<1>11. CASE other = Signature(leaf, [j \in Chains \ {0} |-> w[j]], p)
    <2>1. PICK v : v = [j \in Chains \ {0} |-> w[j]]
        OBVIOUS
    <2>2. DOMAIN v = Chains \ {0} /\ 0 \in Chains
        BY <2>1, XmssAssumption DEF Chains
    <2> QED
        BY <1>11, <2>1, <2>2, VerifyFacts
<1> QED
    BY <1>7, <1>8, <1>9, <1>10, <1>11

\* The signer's type invariant is enough.
LEMMA SignerInvExact == SignerInv => SignatureExact
<1> SUFFICES ASSUME SignerInv, NEW s \in signed
             PROVE  LET sig == SignatureOf(s)
                    IN  /\ \A tree \in Trees :
                              Verify(Root(tree), s.message, sig) <=> tree = s.tree
                        /\ \A m \in Digests :
                              Digits[m] # Digits[s.message] => ~Verify(Root(s.tree), m, sig)
                        /\ \A other \in Reshaped(sig) \ {sig} :
                              ~Verify(Root(s.tree), s.message, other)
    BY DEF SignatureExact
<1>1. PICK t, l, d : t = s.tree /\ l = s.leaf /\ d = s.message
    OBVIOUS
<1>2. t \in Trees /\ l \in Leaves /\ d \in Messages /\ \A m \in Digests : m \in Messages
    BY <1>1, XmssAssumption DEF SignerInv, TypeOK
<1>3. PICK sig : sig = SignatureOf(s)
    OBVIOUS
<1>4. sig = Signature(l, WotsSign(t, l, d), AuthPath(t, l))
    BY <1>1, <1>3 DEF SignatureOf, XmssSignature, Signature
<1>5. \A tree \in Trees : Verify(Root(tree), d, sig) <=> tree = t
    BY <1>2, <1>4, ExactTree
<1>6. \A m \in Digests : Digits[m] # Digits[d] => ~Verify(Root(t), m, sig)
    BY <1>2, <1>4, ExactDigits
<1>7. \A other \in Reshaped(sig) \ {sig} : ~Verify(Root(t), d, other)
    BY <1>2, <1>4, ExactShape
<1> QED
    BY <1>1, <1>3, <1>5, <1>6, <1>7

\* A signature given out verifies under the root of its own tree, for its own
\* digits and as it is, and in no other way, whatever the parameters.
THEOREM SignerSignatureExact == Spec => []SignatureExact
BY SignerInvExact, SpecSignerInv, PTL
=============================================================================

-------------------------------- MODULE Xmss --------------------------------
(***************************************************************************)
(* XMSS over WOTS+ (rust/crates/zkapi-crypto/src/xmss.rs, wots.rs), its    *)
(* stateless verifier, and the two-tree signer that hands out the one-time *)
(* leaves (rust/crates/zkapi-server/src/signer.rs) from a durable counter  *)
(* or, in tests, from memory.                                              *)
(*                                                                         *)
(* Hashes are injective constructors with their domain tag: a chain value  *)
(* is its secret key with the step indices it was hashed with.  A message  *)
(* is its digest, a number; message_to_base_w reads its Len1 low digits in *)
(* base W.  W, Len1, Len2 and Height are 16, 62, 3 and 20 in the code.     *)
(*                                                                         *)
(* The trees stand for different seeds.  The code takes the two seeds from *)
(* its configuration and does not compare them.  Database errors are left  *)
(* out; NextIndex says where the code hides one.                           *)
(***************************************************************************)
EXTENDS Integers, Sequences, Functions

CONSTANTS
    W,          \* Winternitz parameter
    Len1,       \* digits of a digest
    Len2,       \* digits of its checksum
    Height,     \* height of a tree
    Trees,      \* the signer's trees, one seed each, no two alike
    Digests,    \* digests the signer may be asked to sign
    None

\* base ^ n, and x divided n times by base.
Power(base, n) ==
    LET power[k \in 0..n] == IF k = 0 THEN 1 ELSE base * power[k - 1]
    IN  power[n]
Quotient(x, base, n) ==
    LET quotient[k \in 0..n] == IF k = 0 THEN x ELSE quotient[k - 1] \div base
    IN  quotient[n]

\* Digests: a digest may be longer than Len1 digits.
Messages == 0..(Power(W, Len1 + 1) - 1)

\* A leaf index is a u32.
IndexBits == 32

ASSUME XmssAssumption ==
    /\ W \in Nat \ {0, 1}
    /\ Len1 \in Nat \ {0}
    /\ Len2 \in Nat \ {0}
    /\ Height \in Nat /\ Height < IndexBits
    /\ Digests \subseteq Messages
    /\ Len1 * (W - 1) < Power(W, Len2)   \* every checksum fits its digits

Chains == 0..(Len1 + Len2 - 1)
Capacity == Power(2, Height)
Leaves == 0..(Capacity - 1)

-----------------------------------------------------------------------------
(* WOTS+.                                                                  *)

MessageDigit(m, i) == Quotient(m, W, Len1 - 1 - i) % W

\* Mutant: no checksum.
ChecksumZero(m) == 0

\* Grows when a digit falls, so that no digest dominates another.
Checksum(m) ==
    SumFunctionOnSet([i \in 0..(Len1 - 1) |-> W - 1 - MessageDigit(m, i)],
                     0..(Len1 - 1))

\* message_to_base_w: the digits of the digest, then those of its checksum.
\* What a digest has above its Len1 digits is not signed.
Digits ==
    [m \in Messages |->
        [j \in Chains |->
            IF j < Len1 THEN MessageDigit(m, j)
            ELSE Quotient(Checksum(m), W, Len1 + Len2 - 1 - j) % W]]

\* chain: n steps, hashed with their indices from start on.
Chain(value, start, n) ==
    [value EXCEPT !.steps = @ \o [k \in 1..n |-> start + k - 1]]

\* The secret keys are derived from the tree's seed, the leaf and the chain.
SecretKey(tree, leaf, j) == [key |-> <<tree, leaf, j>>, steps |-> <<>>]

WotsKeygen(tree, leaf) ==
    [j \in Chains |-> Chain(SecretKey(tree, leaf, j), 0, W - 1)]

WotsSign(tree, leaf, m) ==
    [j \in Chains |-> Chain(SecretKey(tree, leaf, j), 0, Digits[m][j])]

Recover(value, m, j) == Chain(value, Digits[m][j], W - 1 - Digits[m][j])

\* wots_verify: the public key the signature leads to.
WotsVerify(wots, m) == [j \in DOMAIN wots |-> Recover(wots[j], m, j)]

-----------------------------------------------------------------------------
(* The tree.                                                               *)

WotsPkToLeaf(pk) == <<"leaf", pk>>
NodeHash(left, right) == <<"node", left, right>>

\* generate_with_height: all levels of all trees.
TreeNodes ==
    [tree \in Trees |->
        LET level[l \in 0..Height] ==
                IF l = 0
                THEN [i \in Leaves |-> WotsPkToLeaf(WotsKeygen(tree, i))]
                ELSE [i \in 0..(Power(2, Height - l) - 1) |->
                        NodeHash(level[l - 1][2 * i], level[l - 1][2 * i + 1])]
        IN  level]

Root(tree) == TreeNodes[tree][Height][0]

SiblingIndex(i) == IF i % 2 = 0 THEN i + 1 ELSE i - 1

AuthPath(tree, leaf) ==
    [l \in 1..Height |->
        TreeNodes[tree][l - 1][SiblingIndex(Quotient(leaf, 2, l - 1))]]

XmssSignature(tree, leaf, m) ==
    [leafIndex |-> leaf, wots |-> WotsSign(tree, leaf, m),
     authPath |-> AuthPath(tree, leaf)]

\* Mutant: the leaf index is not compared with the capacity.
ValidateLengthsOnly(sig, height) ==
    /\ DOMAIN sig.wots = Chains
    /\ Len(sig.authPath) = height
    /\ height < IndexBits

ValidateForHeight(sig, height) ==
    /\ DOMAIN sig.wots = Chains
    /\ Len(sig.authPath) = height
    /\ height < IndexBits
    /\ sig.leafIndex < Power(2, height)

\* verify_inner's walk up the authentication path.
Climb(leaf, index, path) ==
    LET node[l \in 0..Len(path)] ==
            IF l = 0 THEN leaf
            ELSE IF Quotient(index, 2, l - 1) % 2 = 0
                 THEN NodeHash(node[l - 1], path[l])
                 ELSE NodeHash(path[l], node[l - 1])
    IN  node[Len(path)]

\* XmssVerifier::verify: the height is the signature's own.
Verify(root, m, sig) ==
    /\ ValidateForHeight(sig, Len(sig.authPath))
    /\ Climb(WotsPkToLeaf(WotsVerify(sig.wots, m)), sig.leafIndex,
             sig.authPath)
       = root

-----------------------------------------------------------------------------
(* ServerSigner.                                                           *)

VARIABLES
    durable,    \* with_height_durable, or with_height
    nextLeaf,   \* durable: signer_state.next_leaf of each tree
    cursor,     \* memory: XmssKeypair.next_index of each tree
    held,       \* the leaf reserved under operation_lock
    signed      \* history: what was signed with which leaf

vars == <<durable, nextLeaf, cursor, held, signed>>

Init ==
    /\ durable \in BOOLEAN
    /\ nextLeaf = [tree \in Trees |-> 0]
    /\ cursor = [tree \in Trees |-> 0]
    /\ held = None
    /\ signed = {}

\* Mutant: one leaf too many.
LeafLeftOffByOne(tree) == nextLeaf[tree] <= Capacity

LeafLeft(tree) == nextLeaf[tree] < Capacity

\* reserve_leaf: the counter is committed before anything is signed.
ReserveLeaf(tree) ==
    /\ durable
    /\ held = None
    /\ LeafLeft(tree)
    /\ held' = [tree |-> tree, leaf |-> nextLeaf[tree]]
    /\ nextLeaf' = [nextLeaf EXCEPT ![tree] = @ + 1]
    /\ UNCHANGED <<durable, cursor, signed>>

\* sign_reserved; the cursor never falls behind.
SignReserved(m) ==
    /\ held # None
    /\ signed' = signed \cup
            {[tree |-> held.tree, leaf |-> held.leaf, message |-> m]}
    /\ cursor' = [cursor EXCEPT ![held.tree] =
                    IF @ < held.leaf + 1 THEN held.leaf + 1 ELSE @]
    /\ held' = None
    /\ UNCHANGED <<durable, nextLeaf>>

\* sign_with_index of a signer without a store.
SignWithIndex(tree, m) ==
    /\ ~durable
    /\ cursor[tree] < Capacity
    /\ signed' = signed \cup
            {[tree |-> tree, leaf |-> cursor[tree], message |-> m]}
    /\ cursor' = [cursor EXCEPT ![tree] = @ + 1]
    /\ UNCHANGED <<durable, nextLeaf, held>>

\* The process dies and starts again on the same store and seeds, which
\* ensure_tree compares; a leaf that was held is burned.
Restart ==
    /\ durable
    /\ cursor' = [tree \in Trees |-> 0]
    /\ held' = None
    /\ UNCHANGED <<durable, nextLeaf, signed>>

Next ==
    \/ \E tree \in Trees : ReserveLeaf(tree)
    \/ \E m \in Digests : SignReserved(m)
    \/ \E tree \in Trees, m \in Digests : SignWithIndex(tree, m)
    \/ Restart

Spec == Init /\ [][Next]_vars

\* Mutant: the memory of the keypair is asked although there is a store.
NextIndexInMemory(tree) == cursor[tree]

\* state_next_index and clear_next_index, hence the remaining capacity, when
\* the store answers.  If its lookup fails, the code reports index 0
\* (unwrap_or), which may have signed, and no capacity.
NextIndex(tree) == IF durable THEN nextLeaf[tree] ELSE cursor[tree]

-----------------------------------------------------------------------------
(* Properties.                                                             *)

\* Type invariant.
TypeOK ==
    /\ durable \in BOOLEAN
    /\ nextLeaf \in [Trees -> 0..Capacity]
    /\ cursor \in [Trees -> 0..Capacity]
    /\ held \in [tree : Trees, leaf : Leaves] \cup {None}
    /\ signed \subseteq [tree : Trees, leaf : Leaves, message : Digests]

SignatureOf(s) == XmssSignature(s.tree, s.leaf, s.message)

\* Ways to give a signature another shape: another leaf index, also one beyond
\* the tree, a path that is cut or repeated, one chain less.
Reshaped(sig) ==
    {[sig EXCEPT !.leafIndex = i] : i \in 0..(2 * Capacity - 1)}
    \cup {[sig EXCEPT !.authPath = SubSeq(@, 1, l)] : l \in 0..Height}
    \cup {[sig EXCEPT !.authPath = @ \o @],
          [sig EXCEPT !.wots = [j \in Chains \ {0} |-> @[j]]]}

\* A signature is good for exactly one thing: it verifies under the root of its
\* own tree (chains, checksum digits, authentication path and sides fit at
\* every leaf) and, although the verifier takes the height from the signature
\* itself, not for the other tree, not for other digits, and in no other shape.
SignatureExact ==
    \A s \in signed :
        LET sig == SignatureOf(s)
        IN  /\ \A tree \in Trees :
                  Verify(Root(tree), s.message, sig) <=> tree = s.tree
            /\ \A m \in Digests :
                  Digits[m] # Digits[s.message] => ~Verify(Root(s.tree), m, sig)
            /\ \A other \in Reshaped(sig) \ {sig} :
                  ~Verify(Root(s.tree), s.message, other)

\* A full set of chain values for m at this leaf follows from the signatures
\* given out with the leaf: each is one of theirs, hashed on.
Follows(tree, leaf, m) ==
    \A j \in Chains : \E s \in signed :
        /\ s.tree = tree
        /\ s.leaf = leaf
        /\ \E k \in 0..(W - 1) :
              Recover(Chain(WotsSign(tree, leaf, s.message)[j],
                            Digits[s.message][j], k), m, j)
              = WotsKeygen(tree, leaf)[j]

\* What verifies was signed: whatever can be put together from all signatures
\* ever given out is for digits the signer signed with that leaf.  It takes
\* both the checksum and that no leaf signs twice, through crashes between
\* the reservation and the signature and through restarts.
OnlySignedFollows ==
    \A tree \in Trees, leaf \in Leaves, m \in 0..(Power(W, Len1) - 1) :
        Follows(tree, leaf, m) =>
            \E s \in signed :
                /\ s.tree = tree
                /\ s.leaf = leaf
                /\ Digits[s.message] = Digits[m]

\* The index the signer reports as next has never signed, also after a
\* restart has put the cursor in memory back to zero.
NextIndexUnused ==
    \A s \in signed : s.leaf < NextIndex(s.tree)

=============================================================================

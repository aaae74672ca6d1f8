--------------------------- MODULE WalletV1Proofs ---------------------------
(***************************************************************************)
(* The v1 wallet for any number of notes, request ids, anchors and charges *)
(* and for every group, as long as no two blindings collide by accident    *)
(* (NoCollision): although a response is compared with nothing but the     *)
(* commitment and the signature, no other answer is taken for the          *)
(* journaled request's.                                                    *)
(***************************************************************************)
EXTENDS WalletV1, ServiceProofs

-----------------------------------------------------------------------------
(* The group.                                                              *)

\* Reduction modulo the order of the group.
LEMMA Reduced ==
    ASSUME NEW x \in Int
    PROVE  /\ x % CurveOrder \in 0 .. CurveOrder - 1
           /\ \E q \in Int : x = q * CurveOrder + (x % CurveOrder)
<1>1. PICK n \in Nat \ {0, 1} : n = CurveOrder
    BY WalletV1Assumption
<1>2. /\ x % n \in 0 .. n - 1
      /\ x \div n \in Int
      /\ x = n * (x \div n) + (x % n)
    OBVIOUS
<1>3. n * (x \div n) = (x \div n) * n
    BY <1>2
<1>4. x = (x \div n) * n + (x % n)
    BY <1>2, <1>3
<1> QED
    BY <1>1, <1>2, <1>4

\* The remainder is the one number in the range.
LEMMA RemainderUnique ==
    ASSUME NEW x \in 0 .. CurveOrder - 1, NEW y \in 0 .. CurveOrder - 1,
           NEW p \in Int, NEW q \in Int,
           p * CurveOrder + x = q * CurveOrder + y
    PROVE  x = y
<1>1. PICK n \in Nat \ {0, 1} : n = CurveOrder
    BY WalletV1Assumption
<1>2. PICK d \in Int : d = p - q
    OBVIOUS
<1>3. d * n = y - x
    BY <1>1, <1>2
<1>4. d * n < n /\ d * n > -n
    BY <1>1, <1>3
<1>5. d = 0
    <2>1. CASE d >= 1
        <3>1. d * n >= n
            BY <1>1, <2>1
        <3> QED
            BY <1>1, <1>4, <3>1
    <2>2. CASE d <= -1
        <3>1. d * n <= -n
            BY <1>1, <2>2
        <3> QED
            BY <1>1, <1>4, <3>1
    <2> QED
        BY <2>1, <2>2
<1> QED
    BY <1>1, <1>3, <1>5

\* Numbers that differ by a multiple of the order have one remainder.
LEMMA SameRemainder ==
    ASSUME NEW x \in Int, NEW y \in Int, NEW d \in Int,
           x = d * CurveOrder + y
    PROVE  x % CurveOrder = y % CurveOrder
<1>1. PICK p \in Int : x = p * CurveOrder + (x % CurveOrder)
    BY Reduced
<1>2. PICK q \in Int : y = q * CurveOrder + (y % CurveOrder)
    BY Reduced
<1>3. PICK n \in Nat \ {0, 1} : n = CurveOrder
    BY WalletV1Assumption
<1>4. p * n + (x % n) = d * n + (q * n + (y % n))
    BY <1>1, <1>2, <1>3
<1>5. x % n \in 0 .. n - 1 /\ y % n \in 0 .. n - 1
    BY <1>3, Reduced
<1>6. d * n + q * n = (d + q) * n
    BY <1>3
<1>7. d + q \in Int /\ p * n \in Int /\ d * n \in Int /\ q * n \in Int
    BY <1>3
<1>8. p * n + (x % n) = (d + q) * n + (y % n)
    <2>1. PICK u \in Int, v \in Int, w \in Int, a \in Int, b \in Int, z \in Int :
             /\ u = p * n /\ v = d * n /\ w = q * n
             /\ a = x % n /\ b = y % n /\ z = (d + q) * n
        BY <1>5, <1>6, <1>7
    <2>2. u + a = v + (w + b) /\ v + w = z
        BY <1>4, <1>6, <2>1
    <2>3. u + a = z + b
        BY <2>2
    <2> QED
        BY <2>1, <2>3
<1> QED
    <2>1. PICK a, b, e : a = x % n /\ b = y % n /\ e = d + q
        OBVIOUS
    <2>2. /\ a \in 0 .. CurveOrder - 1 /\ b \in 0 .. CurveOrder - 1 /\ e \in Int
          /\ p * CurveOrder + a = e * CurveOrder + b
        BY <1>3, <1>5, <1>7, <1>8, <2>1
    <2>3. a = b
        BY <2>2, RemainderUnique
    <2> QED
        BY <1>3, <2>1, <2>3

\* Numbers with one remainder may stand for each other in sums and differences.
LEMMA Shifted ==
    ASSUME NEW x \in Int, NEW y \in Int, NEW u \in Int, NEW v \in Int,
           x % CurveOrder = y % CurveOrder,
           u - x = v - y \/ u + x = v + y
    PROVE  u % CurveOrder = v % CurveOrder
<1>1. PICK n \in Nat \ {0, 1} : n = CurveOrder
    BY WalletV1Assumption
<1>2. PICK m \in Int : m = x % n
    BY <1>1, Reduced
<1>3. PICK p \in Int : x = p * n + m
    BY <1>1, <1>2, Reduced
<1>4. PICK q \in Int : y = q * n + m
    BY <1>1, <1>2, Reduced
<1>5. CASE u - x = v - y
    <2>1. PICK d \in Int : d = p - q
        OBVIOUS
    <2>2. x - y = d * n
        BY <1>3, <1>4, <2>1
    <2>3. u = d * CurveOrder + v
        BY <1>1, <1>5, <2>2
    <2> QED
        BY <2>3, SameRemainder
<1>6. CASE u + x = v + y
    <2>1. PICK d \in Int : d = q - p
        OBVIOUS
    <2>2. y - x = d * n
        BY <1>3, <1>4, <2>1
    <2>3. u = d * CurveOrder + v
        BY <1>1, <1>6, <2>2
    <2> QED
        BY <2>3, SameRemainder
<1> QED
    BY <1>5, <1>6

\* What is added on both sides can be taken away.
LEMMA Cancel ==
    ASSUME NEW x \in 0 .. CurveOrder - 1, NEW y \in 0 .. CurveOrder - 1,
           NEW z \in Int, (x + z) % CurveOrder = (y + z) % CurveOrder
    PROVE  x = y
<1>1. PICK n \in Nat \ {0, 1} : n = CurveOrder
    BY WalletV1Assumption
<1>2. x \in Int /\ y \in Int /\ x + z \in Int /\ y + z \in Int
    BY <1>1
<1>3. PICK p \in Int : x + z = p * n + ((x + z) % n)
    BY <1>1, <1>2, Reduced
<1>4. PICK q \in Int : y + z = q * n + ((y + z) % n)
    BY <1>1, <1>2, Reduced
<1>5. (x + z) % n \in Int /\ (x + z) % n = (y + z) % n
    BY <1>1, <1>2, Reduced
<1>6. p * n \in Int /\ q * n \in Int
    BY <1>1
<1>7. q * n + x = p * n + y
    BY <1>2, <1>3, <1>4, <1>5, <1>6
<1> QED
    BY <1>1, <1>7, RemainderUnique

\* Zero, and a number that is reduced already.
LEMMA AlreadyReduced ==
    ASSUME NEW x \in 0 .. CurveOrder - 1
    PROVE  x % CurveOrder = x /\ 0 % CurveOrder = 0
<1>1. PICK n \in Nat \ {0, 1} : n = CurveOrder
    BY WalletV1Assumption
<1>2. x \in Nat /\ x < n
    BY <1>1
<1>3. x % n = x /\ 0 % n = 0
    BY <1>2
<1> QED
    BY <1>1, <1>3

\* Reducing twice.
LEMMA ReducedTwice ==
    ASSUME NEW x \in Int
    PROVE  (x % CurveOrder) % CurveOrder = x % CurveOrder
<1>1. PICK y \in 0 .. CurveOrder - 1 : y = x % CurveOrder
    BY Reduced
<1>2. y % CurveOrder = y
    BY AlreadyReduced
<1> QED
    BY <1>1, <1>2

\* What commit computes.
LEMMA CommitIs ==
    ASSUME NEW b \in Int, NEW r \in Int
    PROVE  /\ Pedersen!Commit(b, r)
                 = [balance |-> b % CurveOrder, blinding |-> r % CurveOrder]
           /\ Pedersen!Commit(b, r) \in Points
<1>1. PICK n \in Nat \ {0, 1} : n = CurveOrder
    BY WalletV1Assumption
<1>2. b * 1 = b /\ b * 0 = 0 /\ r * 1 = r /\ r * 0 = 0
    OBVIOUS
<1>3. /\ b % n \in 0 .. n - 1 /\ r % n \in 0 .. n - 1
      /\ (b % n) % n = b % n /\ (r % n) % n = r % n
      /\ 0 % n = 0
    <2>1. 0 \in 0 .. CurveOrder - 1
        BY <1>1
    <2> QED
        BY <1>1, <2>1, Reduced, ReducedTwice, AlreadyReduced
<1>4. (b % n) + 0 = b % n /\ 0 + (r % n) = r % n
    BY <1>3
<1>5. Pedersen!Commit(b, r)
         = [balance |-> ((b % n) + 0) % n, blinding |-> (0 + (r % n)) % n]
    BY <1>1, <1>2, <1>3
    DEF Pedersen!Commit, Pedersen!Plus, Pedersen!ScalarMul, Pedersen!Point,
        Pedersen!GBalance, Pedersen!HBlind
<1> QED
    BY <1>1, <1>3, <1>4, <1>5 DEF Points

\* What server_update computes.
LEMMA UpdateIs ==
    ASSUME NEW p \in Points, NEW x \in Int, NEW t \in Scalar
    PROVE  /\ Felt[t] \in Nat
           /\ Update(p, x, t)
                 = [balance |-> (p.balance - x) % CurveOrder,
                    blinding |-> (p.blinding + Felt[t]) % CurveOrder]
           /\ Update(p, x, t) \in Points
<1>1. PICK f \in Int : f = Felt[t] /\ f \in Nat
    BY WalletV1Assumption
<1>2. PICK b \in Int, r \in Int :
         /\ b = p.balance /\ r = p.blinding
         /\ b % CurveOrder = b /\ r % CurveOrder = r
    <2>1. /\ p.balance \in 0 .. CurveOrder - 1
          /\ p.blinding \in 0 .. CurveOrder - 1
        BY DEF Points
    <2> QED
        BY <2>1, AlreadyReduced, WalletV1Assumption
<1>3. x * 1 = x /\ x * 0 = 0 /\ f * 1 = f /\ f * 0 = 0
    OBVIOUS
<1>4. 0 % CurveOrder = 0
    <2>1. 0 \in 0 .. CurveOrder - 1
        BY WalletV1Assumption
    <2> QED
        BY <2>1, AlreadyReduced
<1>5. PICK y \in Int : y = x % CurveOrder
    BY Reduced
<1>6. PICK k \in Int : k = -y
    OBVIOUS
<1>7. PICK z \in Int : z = k % CurveOrder
    BY Reduced
<1>8. PICK e \in Int, o \in Int : e = 0 % CurveOrder /\ o = -e
    BY <1>4
<1>9. o = 0
    <2>1. o + e = 0
        BY <1>8
    <2> QED
        BY <1>4, <1>8, <2>1
<1>10. PICK g \in Int : g = f % CurveOrder
    BY Reduced
<1>11. Update(p, x, t)
         = [balance |-> (((b + z) % CurveOrder) + 0) % CurveOrder,
            blinding |-> (((r + (o % CurveOrder)) % CurveOrder) + g)
                            % CurveOrder]
    <2>1. (0 % CurveOrder) = 0 /\ (-(0 % CurveOrder)) = o
        BY <1>4, <1>8
    <2> QED
        BY <1>1, <1>2, <1>3, <1>5, <1>6, <1>7, <1>10, <2>1
        DEF Update, Pedersen!ServerUpdate, Pedersen!Plus, Pedersen!Neg,
            Pedersen!ScalarMul, Pedersen!Point, Pedersen!GBalance,
            Pedersen!HBlind
<1>12. (((b + z) % CurveOrder) + 0) % CurveOrder = (b - x) % CurveOrder
    <2>1. PICK u \in Int, v \in Int, w \in Int :
             u = b + z /\ v = b - y /\ w = b - x
        OBVIOUS
    <2>2. z % CurveOrder = k % CurveOrder
        BY <1>7, ReducedTwice
    <2>3. u - z = v - k
        BY <1>6, <2>1
    <2>4. u % CurveOrder = v % CurveOrder
        BY <2>2, <2>3, Shifted
    <2>5. y % CurveOrder = x % CurveOrder
        BY <1>5, ReducedTwice
    <2>6. v + y = w + x
        BY <2>1
    <2>7. v % CurveOrder = w % CurveOrder
        BY <2>5, <2>6, Shifted
    <2>8. PICK m \in Int : m = u % CurveOrder
        BY Reduced
    <2>9. m + 0 = m /\ m % CurveOrder = u % CurveOrder
        BY <2>8, ReducedTwice
    <2> QED
        BY <2>1, <2>4, <2>7, <2>8, <2>9
<1>13. (((r + (o % CurveOrder)) % CurveOrder) + g) % CurveOrder
          = (r + f) % CurveOrder
    <2>1. r + (o % CurveOrder) = r
        BY <1>4, <1>9
    <2>2. PICK u \in Int, v \in Int : u = r + g /\ v = r + f
        OBVIOUS
    <2>3. g % CurveOrder = f % CurveOrder
        BY <1>10, ReducedTwice
    <2>4. u - g = v - f
        BY <2>2
    <2>5. u % CurveOrder = v % CurveOrder
        BY <2>3, <2>4, Shifted
    <2> QED
        BY <1>2, <2>1, <2>2, <2>5
<1>14. /\ (b - x) % CurveOrder \in 0 .. CurveOrder - 1
       /\ (r + f) % CurveOrder \in 0 .. CurveOrder - 1
    <2>1. PICK u \in Int, v \in Int : u = b - x /\ v = r + f
        OBVIOUS
    <2>2. /\ u % CurveOrder \in 0 .. CurveOrder - 1
          /\ v % CurveOrder \in 0 .. CurveOrder - 1
        BY Reduced
    <2> QED
        BY <2>1, <2>2
<1> QED
    BY <1>1, <1>2, <1>11, <1>12, <1>13, <1>14 DEF Points

-----------------------------------------------------------------------------
(* Sums of scalars.                                                        *)

\* The image of a finite set under a function is finite.
LEMMA ImageFinite ==
    ASSUME NEW S, IsFiniteSet(S), NEW f, DOMAIN f = S
    PROVE  IsFiniteSet({f[x] : x \in S})
<1> DEFINE T == {f[x] : x \in S}
           g == [x \in S |-> f[x]]
<1>1. g \in Surjection(S, T)
    BY DEF Surjection
<1> QED
    BY <1>1, FS_Surjection

\* The scalars are finitely many, so every set of them has a sum.
LEMMA ScalarFinite == \A terms \in SUBSET Scalar : IsFiniteSet(terms)
<1>1. IsFiniteSet({DepositTerm(x) : x \in Notes})
    <2> DEFINE f == [x \in Notes |-> DepositTerm(x)]
    <2>1. IsFiniteSet({f[x] : x \in Notes})
        BY ServiceAssumption, ImageFinite
    <2>2. {f[x] : x \in Notes} = {DepositTerm(x) : x \in Notes}
        OBVIOUS
    <2> QED
        BY <2>1, <2>2
<1>2. IsFiniteSet({UserTerm(id) : id \in Ids})
    <2> DEFINE f == [id \in Ids |-> UserTerm(id)]
    <2>1. IsFiniteSet({f[id] : id \in Ids})
        BY WalletV1Assumption, ImageFinite
    <2>2. {f[id] : id \in Ids} = {UserTerm(id) : id \in Ids}
        OBVIOUS
    <2> QED
        BY <2>1, <2>2
<1>3. IsFiniteSet({ServerTerm(n) : n \in Nullifiers})
    <2> DEFINE f == [n \in Nullifiers |-> ServerTerm(n)]
    <2>1. IsFiniteSet({f[n] : n \in Nullifiers})
        BY NullifiersFinite, ImageFinite
    <2>2. {f[n] : n \in Nullifiers} = {ServerTerm(n) : n \in Nullifiers}
        OBVIOUS
    <2> QED
        BY <2>1, <2>2
<1>4. IsFiniteSet(Scalar)
    BY <1>1, <1>2, <1>3, FS_Union DEF Scalar
<1> QED
    BY <1>4, FS_Subset

\* A term more.
LEMMA SumOfAdd ==
    ASSUME NEW terms \in SUBSET Scalar
    PROVE  /\ SumOf(terms) \in 0 .. CurveOrder - 1
           /\ \A t \in Scalar :
                 /\ Felt[t] \in Nat
                 /\ t \notin terms =>
                       SumOf(terms \cup {t})
                          = (SumOf(terms) + Felt[t]) % CurveOrder
<1>1. \A t \in Scalar : Felt[t] \in Nat
    BY WalletV1Assumption
<1>2. IsFiniteSet(terms)
    BY ScalarFinite
<1>3. PICK x \in Int : x = SumFunctionOnSet(Felt, terms)
    BY <1>1, <1>2, SumInt
<1>4. ASSUME NEW t \in Scalar, t \notin terms
      PROVE  SumOf(terms \cup {t}) = (SumOf(terms) + Felt[t]) % CurveOrder
    <2>1. \A y \in terms \cup {t} : Felt[y] \in Int
        BY <1>1
    <2>2. SumFunctionOnSet(Felt, terms \cup {t}) = x + Felt[t]
        BY <1>2, <1>3, <1>4, <2>1, SumAdd
    <2>3. PICK f \in Int, y \in Int :
             f = Felt[t] /\ y = x % CurveOrder
        BY <1>1, Reduced
    <2>4. PICK u \in Int, v \in Int : u = y + f /\ v = x + f
        OBVIOUS
    <2>5. y % CurveOrder = x % CurveOrder
        BY <2>3, ReducedTwice
    <2>6. u - y = v - x
        BY <2>4
    <2>7. u % CurveOrder = v % CurveOrder
        BY <2>5, <2>6, Shifted
    <2> QED
        BY <1>3, <2>2, <2>3, <2>4, <2>7 DEF SumOf
<1> QED
    BY <1>1, <1>3, <1>4, Reduced DEF SumOf

\* General position, spelled out.
LEMMA Position ==
    ASSUME GeneralPosition
    PROVE  /\ \A A, B \in SUBSET Scalar : SumOf(A) = SumOf(B) => A = B
           /\ \A A, B \in SUBSET Scalar : \A t \in A :
                 (SumOf(A) + Felt[t]) % CurveOrder # SumOf(B)
<1> DEFINE sum == [terms \in SUBSET Scalar |-> SumOf(terms)]
           sums == {sum[terms] : terms \in SUBSET Scalar}
<1>1. /\ \A A, B \in SUBSET Scalar : sum[A] = sum[B] => A = B
      /\ \A A \in SUBSET Scalar : \A t \in A :
            (sum[A] + Felt[t]) % CurveOrder \notin sums
    BY Zenon DEF GeneralPosition
<1>2. \A A \in SUBSET Scalar : sum[A] = SumOf(A)
    OBVIOUS
<1>3. \A B \in SUBSET Scalar : sum[B] \in sums
    OBVIOUS
<1> HIDE DEF sum, sums
<1> QED
    BY <1>1, <1>2, <1>3

\* In general position, two sums of a set and a term are of the same terms,
\* and the term is a new one.
LEMMA SameTerms ==
    ASSUME GeneralPosition,
           NEW A \in SUBSET Scalar, NEW B \in SUBSET Scalar, NEW t \in Scalar,
           (SumOf(A) + Felt[t]) % CurveOrder = SumOf(B)
    PROVE  t \notin A /\ B = A \cup {t}
<1>1. t \notin A
    BY Position
<1>2. SumOf(A \cup {t}) = SumOf(B)
    BY <1>1, SumOfAdd
<1>3. A \cup {t} \in SUBSET Scalar
    OBVIOUS
<1> QED
    BY <1>1, <1>2, <1>3, Position

-----------------------------------------------------------------------------
(* The inductive invariant.                                                *)

\* The request that spent k led to the state with nullifier n, at once or by
\* way of a state that is itself spent.
Passed(k, n) ==
    /\ Finalized(k)
    /\ k[1] = n[1]
    /\ Successor(k) = n \/ Finalized(Successor(k))

\* What the blinding of the state with nullifier n may be the sum of: the term
\* of its own deposit and terms of requests that led to it.
TermsSound(n, terms) ==
    /\ terms \in SUBSET Scalar
    /\ \A x \in Notes : DepositTerm(x) \in terms <=> x = n[1]
    /\ \A id \in Ids :
          UserTerm(id) \in terms =>
              \E k \in Nullifiers : Passed(k, n) /\ ledger[k].id = id
    /\ \A k \in Nullifiers : ServerTerm(k) \in terms => k # n /\ Finalized(k)

\* The anchor is a deposit's, or the server gave it to the note.
Linked(n) ==
    \/ n[2] = Genesis
    \/ \E k \in Nullifiers : Finalized(k) /\ Successor(k) = n

\* A posted request spends a state of a note, rerandomized with its own term.
RequestBacked(r) ==
    /\ r.id \in used
    /\ r.nullifier[1] \in used
    /\ Linked(r.nullifier)
    /\ \E terms :
          /\ terms = Summed(r.nullifier)
          /\ TermsSound(r.nullifier, terms)
          /\ UserTerm(r.id) \notin terms
          /\ r.commitment.blinding = SumOf(terms \cup {UserTerm(r.id)})

PostedSound ==
    /\ \A r \in posted : RequestBacked(r)
    /\ \A r, q \in posted : r.id = q.id => r = q

\* What the ledger says of a reserved or finalized nullifier is about the
\* request r.
AnswerOf(n, r) ==
    /\ r.id = ledger[n].id
    /\ r.nullifier = n
    /\ ledger[n].status = "Reserved" => ledger[n].commitment = r.commitment
    /\ ledger[n].status = "Finalized" =>
          /\ ledger[n].term = ServerTerm(n)
          /\ ledger[n].nextCommitment =
                Update(r.commitment, ledger[n].charge, ServerTerm(n))
          /\ ledger[n].signature =
                <<ledger[n].nextCommitment, ledger[n].nextAnchor>>

EntryBacked(n) ==
    /\ n[1] \in used
    /\ Linked(n)
    /\ ~Cleared(n) =>
          /\ ledger[n].id \notin rejected
          /\ \E r \in posted : AnswerOf(n, r)

LedgerBacked ==
    /\ \A n \in Nullifiers : ledger[n] # None => EntryBacked(n)
    /\ \A m, n \in Nullifiers :
          Finalized(m) /\ Finalized(n) /\ ledger[m].nextAnchor = ledger[n].nextAnchor
          => m = n

\* The nullifiers of the requests that are, or may still get, on the wire.
Underway ==
    {r.nullifier : r \in posted}
    \cup IF pc = "post" THEN {journalFile.nullifier} ELSE {}

\* Nobody has heard of the nullifier.
Unheard(n) == ledger[n] = None /\ n \notin Underway

\* The nullifier may still get a charge.
MayCharge(n) ==
    \/ ledger[n] # None /\ ledger[n].status = "Reserved"
    \/ ledger[n] = None /\ n \in Underway

\* A cleared note is charged no more.
ClearedClosed ==
    \A n, m \in Nullifiers : Cleared(n) /\ MayCharge(m) => m[1] # n[1]

\* A journal names its request; if it is of the note on disk, it is of the
\* state on disk or of one that came before.
JournalSound ==
    journalFile # None =>
        /\ journalFile.id \in used
        /\ journalFile.nullifier[1] \in used
        /\ Linked(journalFile.nullifier)
        /\ journalFile.rerandomization
              = SampleFieldElement(UserTerm(journalFile.id))
        /\ \A r \in posted :
              r.id = journalFile.id => r.nullifier = journalFile.nullifier
        /\ stateFile # None /\ journalFile.nullifier[1] = stateFile.note =>
              \/ journalFile.nullifier = Nullifier(stateFile)
              \/ \A n \in {Nullifier(stateFile)} :
                    UserTerm(journalFile.id) \in Summed(n)

Journaled(n, id) ==
    /\ journalFile # None
    /\ journalFile.id = id
    /\ journalFile.nullifier = n

\* The state with nullifier n and commitment c is a deposit's or signed by the
\* server, and its blinding is the sum of the terms.
KnownState(n, c, terms) ==
    /\ n[1] \in used
    /\ terms = Summed(n)
    /\ TermsSound(n, terms)
    /\ c.blinding = SumOf(terms)
    /\ \/ n[2] = Genesis
       \/ \E k \in Nullifiers :
             /\ Finalized(k)
             /\ Successor(k) = n
             /\ ledger[k].nextCommitment = c

\* Such a state is the last of its note: the requests that spend it are of its
\* own commitment, the one that may succeed is journaled, its successor is not
\* known to anybody yet, and no other state of the note may get a charge or is
\* cleared.
LastOfNote(n, c, terms) ==
    /\ KnownState(n, c, terms)
    /\ \A r \in posted :
          r.nullifier = n =>
              r.commitment = [balance |-> c.balance,
                              blinding |-> SumOf(terms \cup {UserTerm(r.id)})]
    /\ \A r \in posted :
          r.nullifier = n /\ ledger[n] = None /\ r.id \notin rejected =>
              Journaled(n, r.id)
    /\ ledger[n] # None /\ ~Cleared(n) => Journaled(n, ledger[n].id)
    /\ Finalized(n) => Unheard(Successor(n))
    /\ \A m \in Nullifiers : MayCharge(m) /\ m[1] = n[1] => m = n
    /\ \A m \in Nullifiers : Cleared(m) /\ m[1] = n[1] => m = n

LastOnDisk ==
    stateFile # None =>
        \A n \in {Nullifier(stateFile)}, c \in {stateFile.commitment} :
              /\ \E terms : LastOfNote(n, c, terms)
              /\ pc = "clearJournal" => Unheard(n)

\* The state on disk opens its commitment, and every charge is paid once.
DiskSound ==
    stateFile # None =>
        /\ OpeningOf(stateFile) = stateFile.commitment
        /\ stateFile.anchor = Genesis => stateFile.balance = stateFile.deposit
        /\ \A n \in {Nullifier(stateFile)} :
              stateFile.balance =
                 stateFile.deposit - Charged(n[1], Nullifiers \ {n})

\* The process works on the state it has on disk, or has given it up.
ProcessSound ==
    /\ state # None => running /\ state = stateFile
    /\ pc # "idle" => running
    /\ pc \in {"post", "await", "clearJournal", "clearance"} => state # None
    /\ pc \in {"post", "await"} =>
          /\ journalFile # None
          /\ journalFile.nullifier = Nullifier(stateFile)
    /\ pc = "post" => \A r \in posted : r.id # journalFile.id
    /\ pc = "clearance" => Cleared(Nullifier(stateFile))
    /\ pc = "removeState" => state = None

WithdrawalsSound ==
    \A w \in withdrawals : w.clearance =>
        /\ w.nullifier \in Nullifiers
        /\ Cleared(w.nullifier)
        /\ w.balance = w.deposit - Charged(w.nullifier[1], Nullifiers)

TypeOK ==
    /\ stateFile \in NoteState \cup {None}
    /\ state \in NoteState \cup {None}
    /\ journalFile \in Journal \cup {None}
    /\ running \in BOOLEAN
    /\ pc \in {"idle", "post", "await", "clearJournal", "clearance",
               "removeState"}
    /\ ServiceTypeOK(Points)

\* The server's side.
ServerSound ==
    /\ ServiceTypeOK(Points)
    /\ PostedSound
    /\ LedgerBacked
    /\ ClearedClosed

IInv ==
    /\ TypeOK
    /\ ServerSound
    /\ JournalSound
    /\ LastOnDisk
    /\ DiskSound
    /\ ProcessSound
    /\ WithdrawalsSound

\* The blinding of a known state stays the sum of the same scalars.
SummedStay ==
    \A n \in Nullifiers : Linked(n) => Summed(n)' = Summed(n)

\* What holds of a state holds of it after a step of the server.
LastsStay ==
    /\ \A n \in Nullifiers : \A c, terms :
          LastOfNote(n, c, terms) => LastOfNote(n, c, terms)'
    /\ \A n \in Nullifiers : Unheard(n) => Unheard(n)'
    /\ SummedStay

-----------------------------------------------------------------------------
(* Data.                                                                   *)

\* The state on disk and its nullifier.
LEMMA StateTyped ==
    ASSUME NEW s \in NoteState
    PROVE  /\ Nullifier(s) \in Nullifiers
           /\ Nullifier(s) = <<s.note, s.anchor>>
           /\ Nullifier(s)[1] = s.note /\ Nullifier(s)[2] = s.anchor
           /\ s.note \in Notes /\ s.commitment \in Points
           /\ s.balance \in Nat /\ s.deposit \in Nat
           /\ s.blinding \in 0 .. CurveOrder - 1
           /\ s # None
BY ServiceAssumption, WalletV1NoneAssumption
DEF NoteState, Nullifier, Nullifiers

\* The ledger's entries by status.
LEMMA EntryKinds ==
    ASSUME ServiceTypeOK(Points), NEW n \in Nullifiers, ledger[n] # None
    PROVE  /\ ledger[n].status \in {"Reserved", "Finalized", "Cleared"}
           /\ ledger[n].status # "Cleared" => ledger[n].id \in Ids
           /\ ledger[n].status = "Reserved" =>
                 /\ ledger[n].commitment \in Points
                 /\ ledger[n].bound \in Nat
           /\ ledger[n].status = "Finalized" =>
                 /\ ledger[n].charge \in Nat
                 /\ ledger[n].nextCommitment \in Points
                 /\ ledger[n].nextAnchor \in Anchors
<1>1. ledger[n] \in Entry(Points)
    BY DEF ServiceTypeOK
<1> QED
    BY <1>1, ServiceAssumption DEF Entry

\* A successor is a state of the same note.
LEMMA SuccessorTyped ==
    ASSUME ServiceTypeOK(Points), NEW k \in Nullifiers, Finalized(k)
    PROVE  /\ Successor(k) \in Nullifiers
           /\ Successor(k)[1] = k[1]
           /\ Successor(k)[2] = ledger[k].nextAnchor
           /\ ledger[k].nextAnchor \in Anchors
           /\ ledger[k].charge \in Nat
<1>1. ledger[k].nextAnchor \in Anchors /\ ledger[k].charge \in Nat
    BY EntryKinds DEF Finalized
<1>2. k[1] \in Notes
    BY NullifierParts
<1> QED
    BY <1>1, <1>2, NullifierPair DEF Successor

\* A posted request.
LEMMA PostedTyped ==
    ASSUME ServiceTypeOK(Points), NEW r \in posted
    PROVE  /\ r.id \in Ids /\ r.nullifier \in Nullifiers
           /\ r.commitment \in Points /\ r.bound \in Nat
           /\ UserTerm(r.id) \in Scalar
BY Terms DEF ServiceTypeOK

\* A finalized nullifier and its successor.
LEMMA FinalizedStays ==
    ASSUME ServiceTypeOK(Points), LedgerGrows, NEW k \in Nullifiers,
           Finalized(k)
    PROVE  /\ Finalized(k)'
           /\ Successor(k)' = Successor(k)
           /\ ledger'[k] = ledger[k]
BY DEF LedgerGrows, Finalized, Successor

\* What is known of a nullifier stays known.
LEMMA KnowledgeStays ==
    ASSUME ServiceTypeOK(Points), LedgerGrows
    PROVE  /\ \A k, n \in Nullifiers : Passed(k, n) => Passed(k, n)'
           /\ \A n \in Nullifiers : Linked(n) => Linked(n)'
           /\ \A n \in Nullifiers : \A terms :
                 TermsSound(n, terms) => TermsSound(n, terms)'
<1>1. ASSUME NEW k \in Nullifiers, NEW n \in Nullifiers, Passed(k, n)
      PROVE  Passed(k, n)' /\ ledger'[k] = ledger[k]
    <2>1. Finalized(k) /\ k[1] = n[1]
        BY <1>1 DEF Passed
    <2>2. /\ Finalized(k)' /\ Successor(k)' = Successor(k)
          /\ ledger'[k] = ledger[k]
          /\ Successor(k) \in Nullifiers
        BY <2>1, FinalizedStays, SuccessorTyped
    <2>3. PICK s \in Nullifiers : s = Successor(k)
        BY <2>2
    <2>4. s = n \/ Finalized(s)
        BY <1>1, <2>3 DEF Passed
    <2>5. s = n \/ Finalized(s)'
        BY <2>4, FinalizedStays
    <2>6. Finalized(Successor(k))' <=> Finalized(s)'
        BY <2>2, <2>3 DEF Finalized
    <2> QED
        BY <2>1, <2>2, <2>3, <2>5, <2>6 DEF Passed
<1>2. ASSUME NEW n \in Nullifiers, Linked(n)
      PROVE  Linked(n)'
    BY <1>2, FinalizedStays DEF Linked
<1>3. ASSUME NEW n \in Nullifiers, NEW terms, TermsSound(n, terms)
      PROVE  TermsSound(n, terms)'
    <2>1. ASSUME NEW id \in Ids, UserTerm(id) \in terms
          PROVE  \E k \in Nullifiers : Passed(k, n)' /\ ledger'[k].id = id
        <3>1. PICK k \in Nullifiers : Passed(k, n) /\ ledger[k].id = id
            BY <1>3, <2>1 DEF TermsSound
        <3> QED
            BY <1>1, <3>1
    <2>2. \A k \in Nullifiers :
             ServerTerm(k) \in terms => k # n /\ Finalized(k)'
        BY <1>3, FinalizedStays DEF TermsSound
    <2>3. /\ terms \in SUBSET Scalar
          /\ \A x \in Notes : DepositTerm(x) \in terms <=> x = n[1]
        BY <1>3 DEF TermsSound
    <2> QED
        BY <2>1, <2>2, <2>3 DEF TermsSound
<1> QED
    BY <1>1, <1>2, <1>3

\* The states before n are spent, they inherit, and they are in every set
\* that inherits.
LEMMA BeforeIs ==
    ASSUME ServiceTypeOK(Points), NEW n
    PROVE  /\ Before(n) \subseteq Nullifiers
           /\ \A k \in Before(n) : Finalized(k)
           /\ Inherits(n, Before(n))
           /\ \A ks \in SUBSET Nullifiers :
                 Inherits(n, ks) => Before(n) \subseteq ks
<1>1. /\ Before(n) \subseteq Nullifiers
      /\ \A ks \in SUBSET Nullifiers :
            Inherits(n, ks) => Before(n) \subseteq ks
    BY DEF Before
<1>2. \A k \in Before(n) : Finalized(k)
    <2> DEFINE spent == {k \in Nullifiers : Finalized(k)}
    <2>1. Inherits(n, spent)
        BY DEF Inherits
    <2>2. Before(n) \subseteq spent
        BY <1>1, <2>1
    <2> QED
        BY <2>2
<1>3. Inherits(n, Before(n))
    <2> SUFFICES ASSUME NEW k \in Nullifiers, Finalized(k),
                        Successor(k) \in Before(n) \cup {n},
                        NEW ks \in SUBSET Nullifiers, Inherits(n, ks)
                 PROVE  k \in ks
        BY DEF Inherits, Before
    <2>1. Successor(k) \in ks \cup {n}
        BY <1>1
    <2> QED
        BY <2>1 DEF Inherits
<1> QED
    BY <1>1, <1>2, <1>3

\* The successor of a spent state comes from it and from what it comes from.
LEMMA SummedNext ==
    ASSUME ServerSound, NEW n \in Nullifiers, Finalized(n),
           NEW s, s = Successor(n)
    PROVE  Summed(s) = Summed(n) \cup {UserTerm(ledger[n].id), ServerTerm(n)}
<1>1. ServiceTypeOK(Points) /\ s[1] = n[1]
    BY SuccessorTyped DEF ServerSound
<1>2. \A k \in Nullifiers : Finalized(k) /\ Successor(k) = s => k = n
    <2>1. \A k \in Nullifiers :
             Finalized(k) /\ Successor(k) = s =>
                ledger[k].nextAnchor = ledger[n].nextAnchor
        BY <1>1, SuccessorTyped
    <2> QED
        BY <2>1 DEF ServerSound, LedgerBacked
<1>3. Before(n) \cup {n} \subseteq Before(s)
    <2>1. Inherits(s, Before(s)) /\ Before(s) \in SUBSET Nullifiers
        BY <1>1, BeforeIs
    <2>2. n \in Before(s)
        BY <2>1 DEF Inherits
    <2>3. Inherits(n, Before(s))
        BY <2>1, <2>2 DEF Inherits
    <2> QED
        BY <1>1, <2>1, <2>2, <2>3, BeforeIs
<1>4. Before(s) \subseteq Before(n) \cup {n}
    <2>1. PICK ks \in SUBSET Nullifiers : ks = Before(n) \cup {n}
        BY <1>1, BeforeIs
    <2>2. Inherits(n, Before(n))
        BY <1>1, BeforeIs
    <2>3. Inherits(s, ks)
        <3> SUFFICES ASSUME NEW k \in Nullifiers, Finalized(k),
                            Successor(k) \in ks \cup {s}
                     PROVE  k \in ks
            BY DEF Inherits
        <3>1. Successor(k) \in Before(n) \cup {n} => k \in Before(n)
            BY <2>2 DEF Inherits
        <3> QED
            BY <1>2, <2>1, <3>1
    <2> QED
        BY <1>1, <2>1, <2>3, BeforeIs
<1>5. Before(s) = Before(n) \cup {n}
    BY <1>3, <1>4
<1> QED
    BY <1>1, <1>5 DEF Summed

\* Nothing comes before a deposit.
LEMMA SummedGenesis ==
    ASSUME ServiceTypeOK(Points), NEW n \in Nullifiers, n[2] = Genesis
    PROVE  Summed(n) = {DepositTerm(n[1])}
<1>1. \A k \in Nullifiers : Finalized(k) => Successor(k) # n
    BY SuccessorTyped, ServiceAssumption
<1>2. Inherits(n, {})
    BY <1>1 DEF Inherits
<1>3. Before(n) = {}
    BY <1>2, BeforeIs
<1> QED
    BY <1>3 DEF Summed

\* An answer with an anchor nobody knows is before no known state.
LEMMA SummedKept ==
    ASSUME ServerSound, ServiceTypeOK(Points)', LedgerGrows,
           \A k, s \in Nullifiers :
              Finalized(k)' /\ ~Finalized(k) /\ Successor(k)' = s => ~Linked(s)
    PROVE  SummedStay
<1> SUFFICES ASSUME NEW n \in Nullifiers, Linked(n)
             PROVE  Summed(n)' = Summed(n)
    BY DEF SummedStay
<1>1. ServiceTypeOK(Points)
    BY DEF ServerSound
<1>2. \A k \in Before(n) : Finalized(k) /\ k \in Nullifiers /\ Linked(k)
    <2>1. \A k \in Nullifiers : Finalized(k) => Linked(k)
        BY DEF Finalized, ServerSound, LedgerBacked, EntryBacked
    <2> QED
        BY <1>1, <2>1, BeforeIs
<1>3. \A ks \in SUBSET Nullifiers : Inherits(n, ks)' => Inherits(n, ks)
    BY <1>1, FinalizedStays DEF Inherits
<1>4. PICK bs \in SUBSET Nullifiers : bs = Before(n)
    BY <1>1, BeforeIs
<1>5. Inherits(n, bs)'
    <2> SUFFICES ASSUME NEW k \in Nullifiers, Finalized(k)',
                        NEW s, s = Successor(k)', s \in bs \cup {n}
                 PROVE  k \in bs
        BY DEF Inherits
    <2>1. s \in Nullifiers /\ Linked(s)
        BY <1>2, <1>4
    <2>2. Finalized(k) /\ Successor(k) = s
        BY <1>1, <2>1, FinalizedStays
    <2> QED
        BY <1>1, <1>4, <2>2, BeforeIs DEF Inherits
<1>6. Before(n)' = bs
    <2>1. \A k \in Nullifiers :
             k \in bs <=>
                \A ks \in SUBSET Nullifiers : Inherits(n, ks)' => k \in ks
        <3>1. \A ks \in SUBSET Nullifiers : Inherits(n, ks)' => bs \subseteq ks
            BY <1>1, <1>3, <1>4, BeforeIs
        <3> QED
            BY <1>5, <3>1
    <2>2. bs = {k \in Nullifiers :
                  \A ks \in SUBSET Nullifiers : Inherits(n, ks)' => k \in ks}
        BY <2>1
    <2> QED
        BY <2>2 DEF Before
<1>7. \A k \in bs : ledger'[k] = ledger[k]
    BY <1>1, <1>2, <1>4, FinalizedStays
<1>8. {UserTerm(ledger'[k].id) : k \in bs} = {UserTerm(ledger[k].id) : k \in bs}
    BY <1>7
<1> QED
    BY <1>4, <1>6, <1>8 DEF Summed, UserTerm, DepositTerm, ServerTerm

\* Without a new answer, nothing changes.
LEMMA SummedSame ==
    ASSUME ledger' = ledger
    PROVE  \A n : Summed(n)' = Summed(n)
<1>1. \A n, ks : Inherits(n, ks)' <=> Inherits(n, ks)
    BY DEF Inherits, Finalized, Successor
<1>2. ASSUME NEW n PROVE Before(n)' = Before(n)
    BY <1>1 DEF Before
<1> QED
    BY <1>2 DEF Summed, UserTerm, DepositTerm, ServerTerm

\* A state stays known.
LEMMA KnownStateStays ==
    ASSUME ServiceTypeOK(Points), LedgerGrows, used \subseteq used',
           SummedStay,
           NEW n \in Nullifiers, NEW c, NEW terms, KnownState(n, c, terms)
    PROVE  KnownState(n, c, terms)'
<1>1. TermsSound(n, terms)'
    BY KnowledgeStays DEF KnownState
<1>2. \/ n[2] = Genesis
      \/ \E k \in Nullifiers :
            /\ Finalized(k)'
            /\ Successor(k)' = n
            /\ ledger'[k].nextCommitment = c
    BY FinalizedStays DEF KnownState
<1>3. terms = Summed(n)'
    BY DEF KnownState, SummedStay, Linked
<1> QED
    BY <1>1, <1>2, <1>3 DEF KnownState

\* A successor that nobody knows.
LEMMA SuccessorUnheard ==
    ASSUME ServiceTypeOK(Points), LedgerGrows, NEW n \in Nullifiers,
           Finalized(n), Unheard(Successor(n)),
           \A k \in Nullifiers : Unheard(k) => Unheard(k)'
    PROVE  (Finalized(n) => Unheard(Successor(n)))'
<1>1. Successor(n) \in Nullifiers /\ Successor(n)' = Successor(n)
    BY SuccessorTyped, FinalizedStays
<1>2. PICK s \in Nullifiers : s = Successor(n)
    BY <1>1
<1>3. Unheard(s)'
    BY <1>2
<1> QED
    BY <1>1, <1>2, <1>3 DEF Unheard

\* A request stays what it is.
LEMMA RequestsStay ==
    ASSUME ServerSound, LedgerGrows, posted' = posted,
           used \subseteq used', SummedStay
    PROVE  PostedSound'
<1>1. ASSUME NEW r \in posted PROVE RequestBacked(r)'
    <2>1. RequestBacked(r) /\ r.nullifier \in Nullifiers
        BY PostedTyped DEF ServerSound, PostedSound
    <2>2. PICK terms :
             /\ terms = Summed(r.nullifier)
             /\ TermsSound(r.nullifier, terms)
             /\ UserTerm(r.id) \notin terms
             /\ r.commitment.blinding = SumOf(terms \cup {UserTerm(r.id)})
        BY <2>1 DEF RequestBacked
    <2>3. TermsSound(r.nullifier, terms)' /\ Linked(r.nullifier)'
        BY <2>1, <2>2, KnowledgeStays DEF ServerSound, RequestBacked
    <2>4. terms = Summed(r.nullifier)'
        BY <2>1, <2>2 DEF SummedStay, RequestBacked
    <2> QED
        BY <2>1, <2>2, <2>3, <2>4 DEF RequestBacked
<1> QED
    BY <1>1 DEF ServerSound, PostedSound

\* Whose answer the ledger holds.
LEMMA AnsweredIs ==
    ASSUME ServerSound, NEW k \in Nullifiers, ledger[k] # None, ~Cleared(k)
    PROVE  /\ ledger[k].id \notin rejected
           /\ \E r \in posted :
                 /\ AnswerOf(k, r)
                 /\ r.id = ledger[k].id
                 /\ r.nullifier = k
BY DEF ServerSound, LedgerBacked, EntryBacked, AnswerOf

-----------------------------------------------------------------------------
(* Steps of the server.                                                    *)

\* A request gets its nullifier: its charge may come as before, and it is
\* journaled if it spends the last state of the note.
LEMMA ReserveSound ==
    ASSUME ServerSound, NEW r \in posted, ServerReserve(r),
           UNCHANGED <<used, journalFile, pc>>
    PROVE  /\ ServerSound' /\ LastsStay /\ LedgerGrows
           /\ \A k \in Nullifiers : Finalized(k)' => Finalized(k)
           /\ \A k \in Nullifiers : Cleared(k)' <=> Cleared(k)
<1> DEFINE q == r.nullifier
           e == [status |-> "Reserved", id |-> r.id,
                 commitment |-> r.commitment, bound |-> r.bound]
<1>1. /\ r.id \notin rejected /\ ledger[q] = None
      /\ ledger' = [ledger EXCEPT ![q] = e]
      /\ UNCHANGED <<posted, rejected>>
    BY DEF ServerReserve
<1>2. /\ q \in Nullifiers /\ r.id \in Ids
      /\ r.commitment \in Points /\ r.bound \in Nat
    BY PostedTyped DEF ServerSound
<1>3. e \in Entry(Points) /\ e # None
    BY <1>2, WalletV1NoneAssumption DEF Entry
<1>4. /\ DOMAIN ledger = Nullifiers
      /\ ledger'[q] = e
      /\ \A k \in Nullifiers : k # q => ledger'[k] = ledger[k]
    BY <1>1, <1>2 DEF ServerSound, ServiceTypeOK
<1>5. ServiceTypeOK(Points)'
    BY <1>1, <1>2, <1>3 DEF ServerSound, ServiceTypeOK
<1>6. /\ e.status = "Reserved" /\ e.id = r.id /\ e.commitment = r.commitment
    OBVIOUS
<1> HIDE DEF e
<1>7. /\ ledger'[q] # None /\ ledger'[q].status = "Reserved"
      /\ ledger'[q].id = r.id /\ ledger'[q].commitment = r.commitment
    BY <1>3, <1>4, <1>6
<1>8. /\ \A k \in Nullifiers : Finalized(k)' <=> Finalized(k)
      /\ \A k \in Nullifiers : Cleared(k)' <=> Cleared(k)
    BY <1>1, <1>4, <1>7 DEF Finalized, Cleared
<1>9. LedgerGrows
    BY <1>1, <1>4 DEF LedgerGrows, Finalized
<1>9a. SummedStay
    BY <1>5, <1>8, <1>9, SummedKept
<1>10. PostedSound'
    BY <1>1, <1>9, <1>9a, RequestsStay
<1>11. Underway' = Underway /\ q \in Underway
    BY <1>1 DEF Underway
<1>12. \A k \in Nullifiers : MayCharge(k)' <=> MayCharge(k)
    <2>1. MayCharge(q)' /\ MayCharge(q)
        BY <1>1, <1>7, <1>11 DEF MayCharge
    <2>2. ASSUME NEW k \in Nullifiers, k # q
          PROVE  MayCharge(k)' <=> MayCharge(k)
        BY <1>4, <1>11, <2>2 DEF MayCharge
    <2> QED
        BY <2>1, <2>2
<1>13. ClearedClosed'
    BY <1>8, <1>12 DEF ServerSound, ClearedClosed
<1>14. LedgerBacked'
    <2>1. ASSUME NEW n \in Nullifiers, ledger'[n] # None
          PROVE  EntryBacked(n)'
        <3>1. CASE n = q
            <4>1. RequestBacked(r)'
                BY <1>1, <1>10 DEF PostedSound
            <4>2. AnswerOf(n, r)'
                BY <1>7, <3>1 DEF AnswerOf
            <4> QED
                BY <1>1, <1>7, <3>1, <4>1, <4>2 DEF RequestBacked, EntryBacked
        <3>2. CASE n # q
            <4>1. EntryBacked(n) /\ ledger'[n] = ledger[n]
                BY <1>4, <2>1, <3>2 DEF ServerSound, LedgerBacked
            <4>2. Linked(n)'
                BY <1>9, <4>1, KnowledgeStays DEF ServerSound, EntryBacked
            <4>3. \A p : AnswerOf(n, p) => AnswerOf(n, p)'
                BY <4>1 DEF AnswerOf
            <4> QED
                BY <1>1, <1>8, <4>1, <4>2, <4>3 DEF EntryBacked
        <3> QED
            BY <3>1, <3>2
    <2>2. ASSUME NEW m \in Nullifiers, NEW n \in Nullifiers,
                 Finalized(m)', Finalized(n)',
                 ledger'[m].nextAnchor = ledger'[n].nextAnchor
          PROVE  m = n
        <3>1. /\ Finalized(m) /\ Finalized(n)
              /\ ledger'[m] = ledger[m] /\ ledger'[n] = ledger[n]
            BY <1>8, <1>9, <2>2 DEF LedgerGrows
        <3> QED
            BY <2>2, <3>1 DEF ServerSound, LedgerBacked
    <2> QED
        BY <2>1, <2>2 DEF LedgerBacked
<1>15. \A n \in Nullifiers : Unheard(n) => Unheard(n)'
    BY <1>4, <1>11 DEF Unheard
<1>16. ASSUME NEW n \in Nullifiers, NEW c, NEW terms, LastOfNote(n, c, terms)
       PROVE  LastOfNote(n, c, terms)'
    <2>1. KnownState(n, c, terms)'
        BY <1>9, <1>9a, <1>16, KnownStateStays DEF ServerSound, LastOfNote
    <2>2. \A p \in posted' :
             p.nullifier = n =>
                 p.commitment = [balance |-> c.balance,
                                 blinding |-> SumOf(terms \cup {UserTerm(p.id)})]
        BY <1>1, <1>16 DEF LastOfNote
    <2>3. \A m, id : Journaled(m, id)' <=> Journaled(m, id)
        BY DEF Journaled
    <2>4. \A p \in posted' :
             p.nullifier = n /\ ledger'[n] = None /\ p.id \notin rejected' =>
                 Journaled(n, p.id)'
        BY <1>1, <1>4, <1>7, <1>16, <2>3 DEF LastOfNote
    <2>5. (ledger[n] # None /\ ~Cleared(n) => Journaled(n, ledger[n].id))'
        <3>1. CASE n = q
            <4>1. Journaled(n, r.id)
                BY <1>1, <1>16, <3>1 DEF LastOfNote
            <4> QED
                BY <1>7, <3>1, <4>1 DEF Journaled
        <3>2. CASE n # q
            BY <1>4, <1>8, <1>16, <3>2 DEF LastOfNote, Journaled
        <3> QED
            BY <3>1, <3>2
    <2>6. (Finalized(n) => Unheard(Successor(n)))'
        <3>1. CASE Finalized(n)
            BY <1>9, <1>15, <1>16, <3>1, SuccessorUnheard
            DEF LastOfNote, ServerSound
        <3>2. CASE ~Finalized(n)
            BY <1>8, <3>2
        <3> QED
            BY <3>1, <3>2
    <2>7. /\ \A m \in Nullifiers : MayCharge(m)' /\ m[1] = n[1] => m = n
          /\ \A m \in Nullifiers : Cleared(m)' /\ m[1] = n[1] => m = n
        BY <1>8, <1>12, <1>16 DEF LastOfNote
    <2> QED
        BY <2>1, <2>2, <2>4, <2>5, <2>6, <2>7 DEF LastOfNote
<1> QED
    BY <1>5, <1>8, <1>9, <1>9a, <1>10, <1>13, <1>14, <1>15, <1>16
    DEF ServerSound, LastsStay

\* A request that is refused for its root has no nullifier.
LEMMA RejectSound ==
    ASSUME ServerSound, NEW r \in posted, ServerRejectStale(r),
           UNCHANGED <<used, journalFile, pc>>
    PROVE  ServerSound' /\ LastsStay /\ ledger' = ledger
<1>1. /\ ~ReservedFor(r.nullifier, r.id)
      /\ rejected' = rejected \cup {r.id}
      /\ UNCHANGED <<posted, ledger>>
    BY DEF ServerRejectStale
<1>2. /\ \A k : Finalized(k)' <=> Finalized(k)
      /\ \A k : Cleared(k)' <=> Cleared(k)
      /\ \A k : Linked(k)' <=> Linked(k)
      /\ \A k, p : AnswerOf(k, p)' <=> AnswerOf(k, p)
      /\ Underway' = Underway
      /\ \A k : MayCharge(k)' <=> MayCharge(k)
      /\ \A k : Unheard(k)' <=> Unheard(k)
      /\ \A k, id : Journaled(k, id)' <=> Journaled(k, id)
      /\ \A k : Successor(k)' = Successor(k)
    BY <1>1 DEF Finalized, Cleared, Linked, Successor, AnswerOf, Underway,
                MayCharge, Unheard, Journaled
<1>3. LedgerGrows
    BY <1>1 DEF LedgerGrows
<1>3a. SummedStay
    BY <1>1, SummedSame DEF SummedStay
<1>4. PostedSound'
    BY <1>1, <1>3, <1>3a, RequestsStay
<1>5. ServiceTypeOK(Points)'
    BY <1>1, PostedTyped DEF ServerSound, ServiceTypeOK
<1>6. LedgerBacked'
    <2>1. ASSUME NEW n \in Nullifiers, ledger[n] # None
          PROVE  EntryBacked(n)'
        <3>1. EntryBacked(n)
            BY <2>1 DEF ServerSound, LedgerBacked
        <3>2. ASSUME ~Cleared(n)
              PROVE  ledger[n].id # r.id
            <4>1. PICK p \in posted : p.id = ledger[n].id /\ p.nullifier = n
                BY <2>1, <3>2, AnsweredIs
            <4>2. p.id = r.id => p = r
                BY DEF ServerSound, PostedSound
            <4> QED
                BY <1>1, <2>1, <4>1, <4>2 DEF ReservedFor
        <3> QED
            BY <1>1, <1>2, <3>1, <3>2 DEF EntryBacked
    <2> QED
        BY <1>1, <1>2, <2>1 DEF ServerSound, LedgerBacked
<1>7. ClearedClosed'
    BY <1>2 DEF ServerSound, ClearedClosed
<1>8. ASSUME NEW n \in Nullifiers, NEW c, NEW terms, LastOfNote(n, c, terms)
      PROVE  LastOfNote(n, c, terms)'
    <2>1. KnownState(n, c, terms)'
        BY <1>3, <1>3a, <1>8, KnownStateStays DEF ServerSound, LastOfNote
    <2>2. (Finalized(n) => Unheard(Successor(n)))'
        BY <1>1, <1>2, <1>8 DEF LastOfNote, Unheard
    <2>3. (ledger[n] # None /\ ~Cleared(n) => Journaled(n, ledger[n].id))'
        BY <1>1, <1>2, <1>8 DEF LastOfNote, Journaled
    <2> QED
        BY <1>1, <1>2, <1>8, <2>1, <2>2, <2>3 DEF LastOfNote
<1> QED
    BY <1>1, <1>2, <1>3a, <1>4, <1>5, <1>6, <1>7, <1>8 DEF ServerSound, LastsStay

\* The answer to a request: it goes to the last state of the note, with an
\* anchor nobody knows.
LEMMA FinalizeSound ==
    ASSUME ServerSound, JournalSound,
           pc = "post" => journalFile # None,
           NEW q \in Nullifiers, NEW charge \in Charges, NEW anchor \in Anchors,
           ServerFinalize(q, charge, anchor,
               Update(ledger[q].commitment, charge, ServerTerm(q))),
           UNCHANGED <<used, journalFile, pc>>
    PROVE  /\ ServerSound' /\ LastsStay /\ LedgerGrows
           /\ MayCharge(q)
           /\ \A k \in Nullifiers \ {q} : Finalized(k)' => Finalized(k)
           /\ \A k \in Nullifiers : Cleared(k)' <=> Cleared(k)
<1> DEFINE next == Update(ledger[q].commitment, charge, ServerTerm(q))
           e == [status |-> "Finalized", id |-> ledger[q].id,
                 nullifier |-> q, charge |-> charge, term |-> ServerTerm(q),
                 nextCommitment |-> next, nextAnchor |-> anchor,
                 signature |-> <<next, anchor>>, hash |-> "matches"]
           s == <<q[1], anchor>>
<1>1. /\ ledger[q] # None /\ ledger[q].status = "Reserved"
      /\ \A m \in Nullifiers : Finalized(m) => ledger[m].nextAnchor # anchor
      /\ ledger' = [ledger EXCEPT ![q] = e]
      /\ UNCHANGED <<posted, rejected>>
    BY DEF ServerFinalize
<1>2. /\ ledger[q].id \in Ids /\ ledger[q].commitment \in Points
      /\ charge \in Int /\ ServerTerm(q) \in Scalar
      /\ ~Cleared(q) /\ ~Finalized(q)
    BY <1>1, EntryKinds, Terms, ServiceAssumption
    DEF ServerSound, Cleared, Finalized
<1>3. next \in Points
    BY <1>2, UpdateIs
<1>4. e.status = "Finalized" /\ e.id = ledger[q].id /\ e.nextAnchor = anchor
      /\ e.term = ServerTerm(q) /\ e.nextCommitment = next
      /\ e.signature = <<next, anchor>> /\ e.charge = charge
    OBVIOUS
<1> HIDE DEF next
<1>5. e \in Entry(Points) /\ e # None
    BY <1>2, <1>3, WalletV1NoneAssumption DEF Entry
<1>6. /\ DOMAIN ledger = Nullifiers
      /\ ledger'[q] = e
      /\ \A k \in Nullifiers : k # q => ledger'[k] = ledger[k]
    BY <1>1 DEF ServerSound, ServiceTypeOK
<1>7. ServiceTypeOK(Points)'
    BY <1>1, <1>5 DEF ServerSound, ServiceTypeOK
<1> HIDE DEF e
<1>8. /\ Finalized(q)' /\ ~Cleared(q)'
      /\ \A k \in Nullifiers \ {q} : Finalized(k)' <=> Finalized(k)
      /\ \A k \in Nullifiers : Cleared(k)' <=> Cleared(k)
    BY <1>2, <1>4, <1>5, <1>6 DEF Finalized, Cleared
<1>9. LedgerGrows
    BY <1>2, <1>6 DEF LedgerGrows
\* The anchor is new.
<1>15. s \in Nullifiers /\ s[1] = q[1] /\ s[2] = anchor /\ anchor # Genesis
    BY NullifierParts, NullifierPair, ServiceAssumption
<1>16. ~Linked(s)
    <2>1. \A k \in Nullifiers : Finalized(k) => Successor(k)[2] # anchor
        BY <1>1, SuccessorTyped DEF ServerSound
    <2> QED
        BY <1>15, <2>1 DEF Linked
<1>16a. Successor(q)' = s
    BY <1>4, <1>6 DEF Successor
<1> HIDE DEF s
<1>9a. SummedStay
    BY <1>7, <1>8, <1>9, <1>16, <1>16a, SummedKept
<1>10. PostedSound'
    BY <1>1, <1>9, <1>9a, RequestsStay
<1>11. Underway' = Underway
    BY <1>1 DEF Underway
<1>12. MayCharge(q) /\ \A k \in Nullifiers : MayCharge(k)' => MayCharge(k)
    <2>1. MayCharge(q)
        BY <1>1 DEF MayCharge
    <2>2. ASSUME NEW k \in Nullifiers, k # q
          PROVE  MayCharge(k)' => MayCharge(k)
        BY <1>6, <1>11, <2>2 DEF MayCharge
    <2> QED
        BY <2>1, <2>2
<1>13. ClearedClosed'
    BY <1>8, <1>12 DEF ServerSound, ClearedClosed
<1>14. LedgerBacked'
    <2>1. ASSUME NEW n \in Nullifiers, ledger'[n] # None
          PROVE  EntryBacked(n)'
        <3>1. ledger[n] # None
            BY <1>1, <1>6, <2>1
        <3>2. EntryBacked(n)
            BY <3>1 DEF ServerSound, LedgerBacked
        <3>3. Linked(n)'
            BY <1>9, <3>2, KnowledgeStays DEF ServerSound, EntryBacked
        <3>4. CASE n = q
            <4>1. PICK p \in posted : AnswerOf(q, p)
                BY <1>1, <1>2, AnsweredIs
            <4>2. /\ p.id = ledger[q].id /\ p.nullifier = q
                  /\ p.commitment = ledger[q].commitment
                BY <1>1, <4>1 DEF AnswerOf
            <4>3. ledger'[q].nextCommitment
                     = Update(p.commitment, ledger'[q].charge, ServerTerm(q))
                BY <1>4, <1>6, <4>2 DEF next
            <4>4. AnswerOf(q, p)'
                <5>1. /\ ledger'[q].id = ledger[q].id
                      /\ ledger'[q].status = "Finalized"
                      /\ ledger'[q].term = ServerTerm(q)
                      /\ ledger'[q].signature = <<ledger'[q].nextCommitment,
                                                  ledger'[q].nextAnchor>>
                    BY <1>4, <1>6
                <5> QED
                    BY <4>2, <4>3, <5>1 DEF AnswerOf, Update
            <4>5. ledger'[q].id \notin rejected'
                BY <1>1, <1>2, <1>4, <1>6, AnsweredIs
            <4> QED
                BY <1>1, <3>2, <3>3, <3>4, <4>1, <4>4, <4>5 DEF EntryBacked
        <3>5. CASE n # q
            <4>1. ledger'[n] = ledger[n]
                BY <1>6, <3>5
            <4>2. \A p : AnswerOf(n, p) => AnswerOf(n, p)'
                BY <4>1 DEF AnswerOf
            <4> QED
                BY <1>1, <1>8, <3>2, <3>3, <4>1, <4>2 DEF EntryBacked
        <3> QED
            BY <3>4, <3>5
    <2>2. \A m \in Nullifiers :
             m # q /\ Finalized(m)' => ledger'[m].nextAnchor # anchor
        BY <1>1, <1>6, <1>8
    <2>3. ASSUME NEW m \in Nullifiers, NEW n \in Nullifiers,
                 Finalized(m)', Finalized(n)',
                 ledger'[m].nextAnchor = ledger'[n].nextAnchor
          PROVE  m = n
        <3>1. ledger'[q].nextAnchor = anchor
            BY <1>4, <1>6
        <3>2. CASE m = q \/ n = q
            BY <2>2, <2>3, <3>1, <3>2
        <3>3. CASE m # q /\ n # q
            BY <1>6, <1>8, <2>3, <3>3 DEF ServerSound, LedgerBacked
        <3> QED
            BY <3>2, <3>3
    <2> QED
        BY <2>1, <2>3 DEF LedgerBacked
\* Nobody knows the successor.
<1>17. Unheard(s)
    <2>1. ledger[s] = None
        BY <1>15, <1>16 DEF ServerSound, LedgerBacked, EntryBacked
    <2>2. s \notin Underway
        BY <1>16
        DEF Underway, ServerSound, PostedSound, RequestBacked, JournalSound
    <2> QED
        BY <2>1, <2>2 DEF Unheard
<1>18. \A n \in Nullifiers : Unheard(n) => Unheard(n)'
    BY <1>1, <1>6, <1>11 DEF Unheard
<1>19. Unheard(s)' /\ Successor(q)' = s
    <2>1. Unheard(s)'
        BY <1>15, <1>17, <1>18
    <2> QED
        BY <1>16a, <2>1
<1>20. ASSUME NEW n \in Nullifiers, NEW c, NEW terms, LastOfNote(n, c, terms)
       PROVE  LastOfNote(n, c, terms)'
    <2>1. KnownState(n, c, terms)'
        BY <1>9, <1>9a, <1>20, KnownStateStays DEF ServerSound, LastOfNote
    <2>2. \A p \in posted' :
             p.nullifier = n =>
                 p.commitment = [balance |-> c.balance,
                                 blinding |-> SumOf(terms \cup {UserTerm(p.id)})]
        BY <1>1, <1>20 DEF LastOfNote
    <2>3. \A m, id : Journaled(m, id)' <=> Journaled(m, id)
        BY DEF Journaled
    <2>4. \A p \in posted' :
             p.nullifier = n /\ ledger'[n] = None /\ p.id \notin rejected' =>
                 Journaled(n, p.id)'
        <3>1. ledger'[n] = None => ledger[n] = None
            BY <1>5, <1>6
        <3> QED
            BY <1>1, <1>20, <2>3, <3>1 DEF LastOfNote
    <2>5. (ledger[n] # None /\ ~Cleared(n) => Journaled(n, ledger[n].id))'
        <3>1. /\ ledger'[n] # None => ledger[n] # None
              /\ ledger[n] # None => ledger'[n].id = ledger[n].id
            BY <1>1, <1>4, <1>6
        <3> QED
            BY <1>8, <1>20, <3>1 DEF LastOfNote, Journaled
    <2>6. (Finalized(n) => Unheard(Successor(n)))'
        <3>1. CASE n = q
            BY <1>19, <3>1 DEF Unheard
        <3>2. CASE n # q /\ Finalized(n)
            BY <1>9, <1>18, <1>20, <3>2, SuccessorUnheard
            DEF LastOfNote, ServerSound
        <3>3. CASE n # q /\ ~Finalized(n)
            BY <1>8, <3>3
        <3> QED
            BY <3>1, <3>2, <3>3
    <2>7. /\ \A m \in Nullifiers : MayCharge(m)' /\ m[1] = n[1] => m = n
          /\ \A m \in Nullifiers : Cleared(m)' /\ m[1] = n[1] => m = n
        BY <1>8, <1>12, <1>20 DEF LastOfNote
    <2> QED
        BY <2>1, <2>2, <2>4, <2>5, <2>6, <2>7 DEF LastOfNote
<1> QED
    BY <1>7, <1>8, <1>9, <1>9a, <1>10, <1>12, <1>13, <1>14, <1>18, <1>20
    DEF ServerSound, LastsStay

\* The nullifier of the last state is cleared: no request may spend it, and the
\* note is charged no more.
LEMMA ClearSound ==
    ASSUME ServerSound, NEW q \in Nullifiers, ServerClear(q),
           UNCHANGED <<used, journalFile>>, pc # "post", pc' # "post",
           NEW d, NEW ts, LastOfNote(q, d, ts)
    PROVE  /\ ServerSound' /\ LastOfNote(q, d, ts)' /\ LedgerGrows
           /\ \A k \in Nullifiers : Finalized(k)' => Finalized(k)
           /\ \A k \in Nullifiers : Cleared(k)' <=> (k = q \/ Cleared(k))
           /\ UNCHANGED <<posted, rejected>>
           /\ SummedStay
<1> DEFINE e == [status |-> "Cleared", id |-> None]
<1>1. /\ ledger[q] = None
      /\ ledger' = [ledger EXCEPT ![q] = e]
      /\ UNCHANGED <<posted, rejected>>
    BY DEF ServerClear
<1>2. e \in Entry(Points) /\ e # None /\ e.status = "Cleared"
    BY WalletV1NoneAssumption DEF Entry
<1>3. /\ ledger'[q] = e
      /\ \A k \in Nullifiers : k # q => ledger'[k] = ledger[k]
    BY <1>1 DEF ServerSound, ServiceTypeOK
<1>4. ServiceTypeOK(Points)'
    BY <1>1, <1>2 DEF ServerSound, ServiceTypeOK
<1> HIDE DEF e
<1>5. /\ \A k \in Nullifiers : Finalized(k)' <=> Finalized(k)
      /\ \A k \in Nullifiers : Cleared(k)' <=> (k = q \/ Cleared(k))
    BY <1>1, <1>2, <1>3 DEF Finalized, Cleared
<1>6. LedgerGrows
    BY <1>1, <1>3 DEF LedgerGrows, Finalized
<1>6a. SummedStay
    BY <1>4, <1>5, <1>6, SummedKept
<1>7. PostedSound'
    BY <1>1, <1>6, <1>6a, RequestsStay
<1>8. Underway' = Underway
    BY <1>1 DEF Underway
<1>9. \A k \in Nullifiers : MayCharge(k)' => MayCharge(k) /\ k # q
    <2>1. ~MayCharge(q)'
        BY <1>2, <1>3 DEF MayCharge
    <2>2. ASSUME NEW k \in Nullifiers, k # q
          PROVE  MayCharge(k)' => MayCharge(k)
        BY <1>3, <1>8, <2>2 DEF MayCharge
    <2> QED
        BY <2>1, <2>2
<1>10. KnownState(q, d, ts) /\ KnownState(q, d, ts)'
    BY <1>6, <1>6a, KnownStateStays DEF ServerSound, LastOfNote
<1>11. LedgerBacked'
    <2>1. ASSUME NEW n \in Nullifiers, ledger'[n] # None
          PROVE  EntryBacked(n)'
        <3>1. CASE n = q
            <4>1. n[1] \in used' /\ Linked(n)'
                BY <1>10, <3>1 DEF KnownState, Linked
            <4> QED
                BY <1>5, <3>1, <4>1 DEF EntryBacked
        <3>2. CASE n # q
            <4>1. EntryBacked(n) /\ ledger'[n] = ledger[n]
                BY <1>3, <2>1, <3>2 DEF ServerSound, LedgerBacked
            <4>2. Linked(n)'
                BY <1>6, <4>1, KnowledgeStays DEF ServerSound, EntryBacked
            <4>3. \A p : AnswerOf(n, p) => AnswerOf(n, p)'
                BY <4>1 DEF AnswerOf
            <4> QED
                BY <1>1, <1>5, <3>2, <4>1, <4>2, <4>3 DEF EntryBacked
        <3> QED
            BY <3>1, <3>2
    <2>2. ASSUME NEW m \in Nullifiers, NEW n \in Nullifiers,
                 Finalized(m)', Finalized(n)',
                 ledger'[m].nextAnchor = ledger'[n].nextAnchor
          PROVE  m = n
        <3>1. /\ Finalized(m) /\ Finalized(n)
              /\ ledger'[m] = ledger[m] /\ ledger'[n] = ledger[n]
            BY <1>5, <1>6, <2>2 DEF LedgerGrows
        <3> QED
            BY <2>2, <3>1 DEF ServerSound, LedgerBacked
    <2> QED
        BY <2>1, <2>2 DEF LedgerBacked
<1>12. ClearedClosed'
    BY <1>5, <1>9 DEF ServerSound, ClearedClosed, LastOfNote
<1>13. LastOfNote(q, d, ts)'
    <2>1. /\ Cleared(q)' /\ ~Finalized(q)' /\ ledger'[q] # None
        BY <1>2, <1>3, <1>5 DEF Finalized, Cleared
    <2>2. /\ \A m \in Nullifiers : MayCharge(m)' /\ m[1] = q[1] => m = q
          /\ \A m \in Nullifiers : Cleared(m)' /\ m[1] = q[1] => m = q
        BY <1>5, <1>9 DEF LastOfNote
    <2>3. \A p \in posted' :
             p.nullifier = q =>
                 p.commitment = [balance |-> d.balance,
                                 blinding |-> SumOf(ts \cup {UserTerm(p.id)})]
        BY <1>1 DEF LastOfNote
    <2> QED
        BY <1>10, <2>1, <2>2, <2>3 DEF LastOfNote
<1> QED
    BY <1>1, <1>4, <1>5, <1>6, <1>6a, <1>7, <1>11, <1>12, <1>13 DEF ServerSound

-----------------------------------------------------------------------------
(* Steps of the wallet that the server does not notice.                    *)

\* What is read off the ledger.
LEMMA SameLedger ==
    ASSUME ledger' = ledger
    PROVE  /\ \A k : Finalized(k)' <=> Finalized(k)
           /\ \A k : Cleared(k)' <=> Cleared(k)
           /\ \A k : Successor(k)' = Successor(k)
           /\ \A k : Linked(k)' <=> Linked(k)
           /\ \A k, r : AnswerOf(k, r)' <=> AnswerOf(k, r)
           /\ \A k, terms : TermsSound(k, terms)' <=> TermsSound(k, terms)
           /\ \A x, ns : Charged(x, ns)' = Charged(x, ns)
           /\ LedgerGrows
           /\ \A k : Summed(k)' = Summed(k)
           /\ SummedStay
<1>1. /\ \A k : Finalized(k)' <=> Finalized(k)
      /\ \A k : Cleared(k)' <=> Cleared(k)
      /\ \A k : Successor(k)' = Successor(k)
    BY DEF Finalized, Cleared, Successor
<1>2. \A k, r : AnswerOf(k, r)' <=> AnswerOf(k, r)
    BY DEF AnswerOf
<1>3. \A k : Linked(k)' <=> Linked(k)
    BY <1>1 DEF Linked
<1>4. \A k, n : Passed(k, n)' <=> Passed(k, n)
    BY DEF Passed, Finalized, Successor
<1>5. \A k, terms : TermsSound(k, terms)' <=> TermsSound(k, terms)
    BY <1>1, <1>4 DEF TermsSound
<1>6. \A x, ns : Charged(x, ns)' = Charged(x, ns)
    BY DEF Charged, Finalized
<1> QED
    BY <1>1, <1>2, <1>3, <1>5, <1>6, SummedSame DEF LedgerGrows, SummedStay

\* The request that may still spend the last state is journaled.
JournalKept(n) ==
    /\ \A r \in posted :
          r.nullifier = n /\ ledger[n] = None /\ r.id \notin rejected =>
              Journaled(n, r.id)
    /\ ledger[n] # None /\ ~Cleared(n) => Journaled(n, ledger[n].id)

\* Nothing new is under way.
LEMMA QuietSound ==
    ASSUME ServerSound, UNCHANGED <<posted, rejected, ledger>>,
           used \subseteq used', Underway' \subseteq Underway
    PROVE  /\ ServerSound'
           /\ \A n \in Nullifiers : Unheard(n) => Unheard(n)'
           /\ \A n \in Nullifiers : \A c, terms :
                 LastOfNote(n, c, terms) /\ JournalKept(n)' =>
                    LastOfNote(n, c, terms)'
<1>1. PostedSound'
    BY SameLedger, RequestsStay
<1>2. LedgerBacked'
    <2>1. ASSUME NEW n \in Nullifiers, ledger[n] # None PROVE EntryBacked(n)'
        <3>1. EntryBacked(n)
            BY <2>1 DEF ServerSound, LedgerBacked
        <3> QED
            BY <3>1, SameLedger DEF EntryBacked
    <2> QED
        BY <2>1, SameLedger DEF ServerSound, LedgerBacked
<1>3. \A n : MayCharge(n)' => MayCharge(n)
    BY DEF MayCharge
<1>4. \A n : Unheard(n) => Unheard(n)'
    BY DEF Unheard
<1>5. ClearedClosed'
    BY <1>3, SameLedger DEF ServerSound, ClearedClosed
<1>6. ASSUME NEW n \in Nullifiers, NEW c, NEW terms, LastOfNote(n, c, terms),
             JournalKept(n)'
      PROVE  LastOfNote(n, c, terms)'
    <2>1. KnownState(n, c, terms)'
        BY <1>6, SameLedger, KnownStateStays DEF ServerSound, LastOfNote
    <2>2. (Finalized(n) => Unheard(Successor(n)))'
        <3>1. PICK s : s = Successor(n)
            OBVIOUS
        <3>2. Finalized(n) => Unheard(s)'
            BY <1>4, <1>6, <3>1 DEF LastOfNote
        <3> QED
            BY <3>1, <3>2, SameLedger DEF Unheard
    <2>3. /\ \A m \in Nullifiers : MayCharge(m)' /\ m[1] = n[1] => m = n
          /\ \A m \in Nullifiers : Cleared(m)' /\ m[1] = n[1] => m = n
        BY <1>3, <1>6, SameLedger DEF LastOfNote
    <2>4. \A p \in posted' :
             p.nullifier = n =>
                 p.commitment = [balance |-> c.balance,
                                 blinding |-> SumOf(terms \cup {UserTerm(p.id)})]
        BY <1>6 DEF LastOfNote
    <2> QED
        BY <1>6, <2>1, <2>2, <2>3, <2>4 DEF LastOfNote, JournalKept
<1>7. ServiceTypeOK(Points)'
    BY DEF ServerSound, ServiceTypeOK
<1> QED
    BY <1>1, <1>2, <1>4, <1>5, <1>6, <1>7 DEF ServerSound

\* The steps that neither write to the disk nor talk to the server.
LEMMA DiskUntouched ==
    ASSUME IInv,
           UNCHANGED <<stateFile, journalFile, used, posted, rejected,
                       ledger>>,
           pc' = "clearJournal" => pc = "clearJournal",
           pc' = "post" => pc = "post"
    PROVE  /\ ServerSound' /\ JournalSound' /\ LastOnDisk' /\ DiskSound'
           /\ \A n : Cleared(n)' <=> Cleared(n)
           /\ \A x, ns : Charged(x, ns)' = Charged(x, ns)
           /\ Nullifier(stateFile)' = Nullifier(stateFile)
<1>1. Underway' \subseteq Underway
    BY DEF Underway
<1>2. /\ ServerSound'
      /\ \A n \in Nullifiers : Unheard(n) => Unheard(n)'
      /\ \A n \in Nullifiers : \A c, terms :
            LastOfNote(n, c, terms) /\ JournalKept(n)' =>
               LastOfNote(n, c, terms)'
    BY <1>1, QuietSound DEF IInv
<1>3. JournalSound'
    <2>1. /\ SampleFieldElement(UserTerm(journalFile.id))'
                = SampleFieldElement(UserTerm(journalFile.id))
          /\ Nullifier(stateFile)' = Nullifier(stateFile)
          /\ UserTerm(journalFile.id)' = UserTerm(journalFile.id)
          /\ Linked(journalFile.nullifier)' <=> Linked(journalFile.nullifier)
        BY DEF SampleFieldElement, Nullifier, UserTerm, Linked,
               Finalized, Successor
    <2> QED
        BY <2>1, SummedSame DEF IInv, JournalSound
<1>4. \A n : JournalKept(n)' <=> JournalKept(n)
    BY DEF JournalKept, Journaled, Cleared
<1>5. LastOnDisk'
    <2> SUFFICES ASSUME stateFile # None,
                        NEW n \in {Nullifier(stateFile)},
                        NEW c \in {stateFile.commitment}
                 PROVE  /\ \E terms : LastOfNote(n, c, terms)'
                        /\ pc' = "clearJournal" => Unheard(n)'
        BY DEF LastOnDisk, Nullifier
    <2>1. n \in Nullifiers
        BY StateTyped DEF IInv, TypeOK
    <2>2. PICK terms :
             /\ LastOfNote(n, c, terms)
             /\ pc' = "clearJournal" => Unheard(n)
        BY DEF IInv, LastOnDisk
    <2>3. JournalKept(n)'
        BY <1>4, <2>2 DEF LastOfNote, JournalKept
    <2> QED
        BY <1>2, <2>1, <2>2, <2>3
<1>6. /\ \A n : Cleared(n)' <=> Cleared(n)
      /\ \A x, ns : Charged(x, ns)' = Charged(x, ns)
    BY SameLedger
<1>7. DiskSound'
    BY <1>6 DEF IInv, DiskSound, Nullifier, OpeningOf
<1> QED
    BY <1>2, <1>3, <1>5, <1>6, <1>7 DEF Nullifier

\* No file, nothing posted.
LEMMA InitIInv == Init => IInv
<1> SUFFICES ASSUME Init PROVE IInv
    OBVIOUS
<1>1. /\ posted = {} /\ rejected = {} /\ pc = "idle"
      /\ ledger = [n \in Nullifiers |-> None]
      /\ stateFile = None /\ journalFile = None /\ state = None
      /\ running = TRUE /\ withdrawals = {}
    BY DEF Init, ServiceInit
<1>2. \A n \in Nullifiers : ~Finalized(n) /\ ~Cleared(n) /\ ledger[n] = None
    BY <1>1 DEF Finalized, Cleared
<1>3. ServiceTypeOK(Points)
    BY <1>1 DEF ServiceTypeOK
<1>4. ServerSound
    BY <1>1, <1>2, <1>3
    DEF ServerSound, PostedSound, LedgerBacked, ClearedClosed
<1>5. TypeOK
    BY <1>1, <1>3 DEF TypeOK
<1> QED
    BY <1>1, <1>4, <1>5
    DEF IInv, JournalSound, LastOnDisk, DiskSound, ProcessSound,
        WithdrawalsSound

\* A start reads what is on disk.
LEMMA StartIInv == IInv /\ Start => IInv'
<1> SUFFICES ASSUME IInv, Start PROVE IInv'
    OBVIOUS
<1>1. /\ ~running /\ running' = TRUE /\ state' = stateFile
      /\ UNCHANGED <<stateFile, journalFile, pc, used, posted, rejected,
                     ledger, withdrawals>>
    BY DEF Start, diskVars, serverVars
<1>2. pc = "idle"
    BY <1>1 DEF IInv, ProcessSound
<1>3. /\ ServerSound' /\ JournalSound' /\ LastOnDisk' /\ DiskSound'
      /\ \A n : Cleared(n)' <=> Cleared(n)
      /\ \A x, ns : Charged(x, ns)' = Charged(x, ns)
    BY <1>1, <1>2, DiskUntouched
<1>4. TypeOK'
    BY <1>1, <1>3 DEF IInv, TypeOK, ServerSound
<1>5. ProcessSound'
    BY <1>1, <1>2 DEF ProcessSound
<1>6. WithdrawalsSound'
    BY <1>1, <1>3 DEF IInv, WithdrawalsSound
<1> QED
    BY <1>3, <1>4, <1>5, <1>6 DEF IInv

\* A crash takes the memory; the invariant of the disk speaks of the disk alone.
LEMMA CrashIInv == IInv /\ Crash => IInv'
<1> SUFFICES ASSUME IInv, Crash PROVE IInv'
    OBVIOUS
<1>1. /\ running' = FALSE /\ state' = None /\ pc' = "idle"
      /\ UNCHANGED <<stateFile, journalFile, used, posted, rejected, ledger,
                     withdrawals>>
    BY DEF Crash, diskVars, serverVars
<1>2. /\ ServerSound' /\ JournalSound' /\ LastOnDisk' /\ DiskSound'
      /\ \A n : Cleared(n)' <=> Cleared(n)
      /\ \A x, ns : Charged(x, ns)' = Charged(x, ns)
    BY <1>1, DiskUntouched
<1>3. TypeOK'
    BY <1>1, <1>2 DEF IInv, TypeOK, ServerSound
<1>4. ProcessSound'
    BY <1>1 DEF ProcessSound
<1>5. WithdrawalsSound'
    BY <1>1, <1>2 DEF IInv, WithdrawalsSound
<1> QED
    BY <1>2, <1>3, <1>4, <1>5 DEF IInv

\* No answer, or none that is taken: the journal stays.
LEMMA RequestFailsIInv == IInv /\ RequestFails => IInv'
<1> SUFFICES ASSUME IInv, RequestFails PROVE IInv'
    OBVIOUS
<1>1. /\ pc' = "idle"
      /\ UNCHANGED <<stateFile, journalFile, state, running, used, posted,
                     rejected, ledger, withdrawals>>
    BY DEF RequestFails, diskVars, serverVars
<1>2. /\ ServerSound' /\ JournalSound' /\ LastOnDisk' /\ DiskSound'
      /\ \A n : Cleared(n)' <=> Cleared(n)
      /\ \A x, ns : Charged(x, ns)' = Charged(x, ns)
    BY <1>1, DiskUntouched
<1>3. TypeOK'
    BY <1>1, <1>2 DEF IInv, TypeOK, ServerSound
<1>4. ProcessSound'
    BY <1>1 DEF IInv, ProcessSound
<1>5. WithdrawalsSound'
    BY <1>1, <1>2 DEF IInv, WithdrawalsSound
<1> QED
    BY <1>2, <1>3, <1>4, <1>5 DEF IInv

\* withdrawal_escape_hatch.
LEMMA WithdrawalEscapeHatchIInv == IInv /\ WithdrawalEscapeHatch => IInv'
<1> SUFFICES ASSUME IInv, WithdrawalEscapeHatch PROVE IInv'
    OBVIOUS
<1>1. /\ pc = "idle"
      /\ withdrawals' = withdrawals \cup
            {[nullifier |-> Nullifier(state), deposit |-> state.deposit,
              balance |-> state.balance, clearance |-> FALSE]}
      /\ UNCHANGED <<stateFile, journalFile, state, running, pc, used, posted,
                     rejected, ledger>>
    BY DEF WithdrawalEscapeHatch, BuildWithdrawal, Idle, diskVars,
           processVars, serverVars
<1>2. /\ ServerSound' /\ JournalSound' /\ LastOnDisk' /\ DiskSound'
      /\ \A n : Cleared(n)' <=> Cleared(n)
      /\ \A x, ns : Charged(x, ns)' = Charged(x, ns)
    BY <1>1, DiskUntouched
<1>3. TypeOK'
    BY <1>1, <1>2 DEF IInv, TypeOK, ServerSound
<1>4. ProcessSound'
    BY <1>1 DEF IInv, ProcessSound
<1>5. WithdrawalsSound'
    BY <1>1, <1>2 DEF IInv, WithdrawalsSound
<1> QED
    BY <1>2, <1>3, <1>4, <1>5 DEF IInv

\* withdrawal_mutual_close: the server consumed the nullifier of the state on
\* disk, so the note is charged no more.
LEMMA WithdrawalMutualCloseIInv == IInv /\ WithdrawalMutualClose => IInv'
<1> SUFFICES ASSUME IInv, WithdrawalMutualClose PROVE IInv'
    OBVIOUS
<1> DEFINE w == [nullifier |-> Nullifier(state), deposit |-> state.deposit,
                 balance |-> state.balance, clearance |-> TRUE]
<1>1. /\ running /\ pc = "clearance" /\ pc' = "idle"
      /\ withdrawals' = withdrawals \cup {w} \/ withdrawals' = withdrawals
      /\ UNCHANGED <<stateFile, journalFile, state, running, used, posted,
                     rejected, ledger>>
    BY DEF WithdrawalMutualClose, BuildWithdrawal, diskVars, serverVars
<1>2. /\ ServerSound' /\ JournalSound' /\ LastOnDisk' /\ DiskSound'
      /\ \A n : Cleared(n)' <=> Cleared(n)
      /\ \A x, ns : Charged(x, ns)' = Charged(x, ns)
    BY <1>1, DiskUntouched
<1>3. state # None /\ state = stateFile /\ Cleared(Nullifier(state))
    BY <1>1 DEF IInv, ProcessSound
<1>4. PICK n \in Nullifiers : n = Nullifier(state)
    BY <1>3, StateTyped DEF IInv, TypeOK
<1>5. state.balance = state.deposit - Charged(n[1], Nullifiers)
    <2>1. ~Finalized(n)
        BY <1>3, <1>4 DEF Finalized, Cleared
    <2>2. Charged(n[1], Nullifiers \ {n}) = Charged(n[1], Nullifiers)
        BY <2>1, ChargedWithout
    <2> QED
        BY <1>3, <1>4, <2>2 DEF IInv, DiskSound
<1>6. /\ w.nullifier = n /\ w.deposit = state.deposit
      /\ w.balance = state.balance
    BY <1>4
<1> HIDE DEF w
<1>7. WithdrawalsSound'
    BY <1>1, <1>2, <1>3, <1>4, <1>5, <1>6 DEF IInv, WithdrawalsSound
<1>8. TypeOK'
    BY <1>1, <1>2 DEF IInv, TypeOK, ServerSound
<1>9. ProcessSound'
    BY <1>1 DEF IInv, ProcessSound
<1> QED
    BY <1>2, <1>7, <1>8, <1>9 DEF IInv

\* archive_note: memory forgets the note.
LEMMA ArchiveNoteIInv == IInv /\ ArchiveNote => IInv'
<1> SUFFICES ASSUME IInv, ArchiveNote PROVE IInv'
    OBVIOUS
<1>1. /\ running /\ state' = None /\ pc' \in {"removeState", "idle"}
      /\ UNCHANGED <<stateFile, journalFile, running, used, posted, rejected,
                     ledger, withdrawals>>
    BY DEF ArchiveNote, Idle, diskVars, serverVars
<1>2. /\ ServerSound' /\ JournalSound' /\ LastOnDisk' /\ DiskSound'
      /\ \A n : Cleared(n)' <=> Cleared(n)
      /\ \A x, ns : Charged(x, ns)' = Charged(x, ns)
    BY <1>1, DiskUntouched
<1>3. TypeOK'
    BY <1>1, <1>2 DEF IInv, TypeOK, ServerSound
<1>4. ProcessSound'
    BY <1>1 DEF ProcessSound
<1>5. WithdrawalsSound'
    BY <1>1, <1>2 DEF IInv, WithdrawalsSound
<1> QED
    BY <1>2, <1>3, <1>4, <1>5 DEF IInv

\* archive_note: the journal may stay; without a state file it matches nothing.
LEMMA RemoveStateFileIInv == IInv /\ RemoveStateFile => IInv'
<1> SUFFICES ASSUME IInv, RemoveStateFile PROVE IInv'
    OBVIOUS
<1>1. /\ running /\ pc = "removeState" /\ pc' = "idle" /\ stateFile' = None
      /\ UNCHANGED <<journalFile, state, running, used, posted, rejected,
                     ledger, withdrawals>>
    BY DEF RemoveStateFile, serverVars
<1>2. state = None
    BY <1>1 DEF IInv, ProcessSound
<1>3. Underway' \subseteq Underway
    BY <1>1 DEF Underway
<1>4. ServerSound'
    BY <1>1, <1>3, QuietSound DEF IInv
<1>5. JournalSound'
    <2>1. /\ SampleFieldElement(UserTerm(journalFile.id))'
                = SampleFieldElement(UserTerm(journalFile.id))
          /\ Linked(journalFile.nullifier)' <=> Linked(journalFile.nullifier)
        BY <1>1 DEF SampleFieldElement, UserTerm, Linked, Finalized, Successor
    <2> QED
        BY <1>1, <2>1 DEF IInv, JournalSound
<1>6. LastOnDisk' /\ DiskSound' /\ ProcessSound'
    BY <1>1, <1>2 DEF LastOnDisk, DiskSound, ProcessSound
<1>7. TypeOK'
    BY <1>1, <1>4 DEF IInv, TypeOK, ServerSound
<1>8. WithdrawalsSound'
    BY <1>1, SameLedger DEF IInv, WithdrawalsSound
<1> QED
    BY <1>4, <1>5, <1>6, <1>7, <1>8 DEF IInv

\* A step that changes nothing.
LEMMA StutterIInv == IInv /\ UNCHANGED vars => IInv'
<1> SUFFICES ASSUME IInv, UNCHANGED vars PROVE IInv'
    OBVIOUS
<1>1. UNCHANGED <<stateFile, journalFile, state, running, pc, used, posted,
                  rejected, ledger, withdrawals>>
    BY DEF vars, walletVars, diskVars, processVars, serverVars
<1>2. /\ ServerSound' /\ JournalSound' /\ LastOnDisk' /\ DiskSound'
      /\ \A n : Cleared(n)' <=> Cleared(n)
      /\ \A x, ns : Charged(x, ns)' = Charged(x, ns)
      /\ Nullifier(stateFile)' = Nullifier(stateFile)
    BY <1>1, DiskUntouched
<1>3. TypeOK'
    BY <1>1, <1>2 DEF IInv, TypeOK, ServerSound
<1>4. ProcessSound'
    BY <1>1, <1>2 DEF IInv, ProcessSound, Cleared, Nullifier
<1>5. WithdrawalsSound'
    BY <1>1, <1>2 DEF IInv, WithdrawalsSound
<1> QED
    BY <1>2, <1>3, <1>4, <1>5 DEF IInv

-----------------------------------------------------------------------------
(* Deposits and requests.                                                  *)

\* A state that opens its commitment.
LEMMA OpeningIs ==
    ASSUME NEW s \in NoteState, OpeningOf(s) = s.commitment
    PROVE  /\ s.commitment = [balance |-> s.balance % CurveOrder,
                              blinding |-> s.blinding]
           /\ s.commitment.blinding = s.blinding
           /\ s.commitment.balance = s.balance % CurveOrder
<1>1. /\ s.balance \in Int /\ s.blinding \in Int
      /\ s.blinding % CurveOrder = s.blinding
    BY StateTyped, AlreadyReduced, WalletV1Assumption
<1> QED
    BY <1>1, CommitIs DEF OpeningOf

\* The terms of the state on disk.
LEMMA DiskTerms ==
    ASSUME IInv, stateFile # None
    PROVE  /\ stateFile \in NoteState
           /\ \E n \in Nullifiers, c \in Points, terms \in SUBSET Scalar :
                 /\ n = Nullifier(stateFile)
                 /\ n[1] = stateFile.note
                 /\ c = stateFile.commitment
                 /\ terms = Summed(n)
                 /\ stateFile.blinding = SumOf(terms)
                 /\ c = [balance |-> stateFile.balance % CurveOrder,
                         blinding |-> stateFile.blinding]
                 /\ LastOfNote(n, c, terms)
                 /\ JournalKept(n)
                 /\ pc = "clearJournal" => Unheard(n)
                 /\ n[1] \in used /\ Linked(n)
                 /\ TermsSound(n, terms)
<1>1. stateFile \in NoteState
    BY DEF IInv, TypeOK
<1>2. PICK n \in Nullifiers, c \in Points :
         /\ n = Nullifier(stateFile) /\ c = stateFile.commitment
         /\ n[1] = stateFile.note
    BY <1>1, StateTyped
<1>3. PICK terms :
         LastOfNote(n, c, terms) /\ (pc = "clearJournal" => Unheard(n))
    BY <1>2 DEF IInv, LastOnDisk
<1>4. /\ n[1] \in used /\ TermsSound(n, terms) /\ Linked(n)
      /\ c.blinding = SumOf(terms) /\ terms = Summed(n)
    BY <1>3 DEF LastOfNote, KnownState, Linked
<1>5. terms \in SUBSET Scalar
    BY <1>4 DEF TermsSound
<1>6. /\ c = [balance |-> stateFile.balance % CurveOrder,
              blinding |-> stateFile.blinding]
      /\ c.blinding = stateFile.blinding
    BY <1>1, <1>2, OpeningIs DEF IInv, DiskSound
<1>7. JournalKept(n)
    BY <1>3 DEF LastOfNote, JournalKept
<1> QED
    BY <1>1, <1>2, <1>3, <1>4, <1>5, <1>6, <1>7

\* A deposit's blinding is its own term.
LEMMA DepositSum ==
    ASSUME NEW x \in Notes
    PROVE  /\ {DepositTerm(x)} \in SUBSET Scalar
           /\ SampleFieldElement(DepositTerm(x)) = SumOf({DepositTerm(x)})
           /\ SumOf({DepositTerm(x)}) \in 0 .. CurveOrder - 1
<1>1. DepositTerm(x) \in Scalar
    BY Terms
<1>2. SumOf({}) = 0
    <2>1. 0 \in 0 .. CurveOrder - 1
        BY WalletV1Assumption
    <2> QED
        BY <2>1, SumEmpty, AlreadyReduced DEF SumOf
<1>3. PICK f \in Nat : f = Felt[DepositTerm(x)]
    BY <1>1, SumOfAdd
<1>4. {} \cup {DepositTerm(x)} = {DepositTerm(x)} /\ 0 + f = f
    OBVIOUS
<1>5. SumOf({DepositTerm(x)}) = f % CurveOrder
    BY <1>1, <1>2, <1>3, <1>4, SumOfAdd
<1> QED
    BY <1>1, <1>3, <1>5, SumOfAdd
    DEF SampleFieldElement, Pedersen!ReduceBlinding

\* confirm_deposit: the wallet had no note, and nobody knew this one.
LEMMA ConfirmDepositIInv ==
    ASSUME IInv, NEW note \in Notes, NEW amount \in Deposits,
           ConfirmDeposit(note, amount)
    PROVE  IInv'
<1> DEFINE s == GenesisState(note, amount)
<1>1. /\ running /\ pc = "idle" /\ state = None
      /\ note \notin used /\ used' = used \cup {note}
      /\ stateFile' = s /\ state' = s
      /\ UNCHANGED <<journalFile, running, pc, posted, rejected, ledger,
                     withdrawals>>
    BY DEF ConfirmDeposit, FreshNote, Idle, serverVars
<1>2. PICK ts \in SUBSET Scalar :
         /\ ts = {DepositTerm(note)}
         /\ SampleFieldElement(DepositTerm(note)) = SumOf(ts)
         /\ SumOf(ts) \in 0 .. CurveOrder - 1
    BY DepositSum
<1>3. PICK r0 \in Int :
         r0 = SumOf(ts) /\ r0 \in 0 .. CurveOrder - 1 /\ r0 % CurveOrder = r0
    BY <1>2, AlreadyReduced, WalletV1Assumption
<1>4. amount \in Nat
    BY ServiceAssumption
<1>5. PICK d \in Points :
         /\ d = Pedersen!Commit(amount, r0)
         /\ d.blinding = r0
    BY <1>3, <1>4, CommitIs
<1>6. s = [note |-> note, deposit |-> amount, balance |-> amount,
           blinding |-> r0, commitment |-> d, anchor |-> Genesis,
           signature |-> None]
    BY <1>2, <1>3, <1>5 DEF GenesisState
<1> HIDE DEF s
<1>7. /\ s \in NoteState
      /\ s.note = note /\ s.anchor = Genesis
      /\ s.balance = amount /\ s.deposit = amount
      /\ s.blinding = r0 /\ s.commitment = d
    BY <1>3, <1>4, <1>6 DEF NoteState
<1>8. PICK n \in Nullifiers : n = <<note, Genesis>> /\ n[1] = note
                              /\ n[2] = Genesis
    BY NullifierPair
<1>9. Nullifier(stateFile)' = n
    BY <1>1, <1>7, <1>8 DEF Nullifier
<1>10. Summed(n)' = ts
    <2>1. Summed(n) = ts
        BY <1>2, <1>8, SummedGenesis DEF IInv, ServerSound
    <2> QED
        BY <1>1, <2>1, SummedSame
<1>11. Underway' \subseteq Underway /\ \A k \in Underway : k[1] \in used
    <2>1. \A r \in posted : r.nullifier[1] \in used
        BY DEF IInv, ServerSound, PostedSound, RequestBacked
    <2> QED
        BY <1>1, <2>1 DEF Underway
<1>12. ServerSound'
    BY <1>1, <1>11, QuietSound DEF IInv
<1>13. \A k \in Nullifiers : ledger[k] # None => k[1] # note
    BY <1>1 DEF IInv, ServerSound, LedgerBacked, EntryBacked
<1>14. LastOfNote(n, d, ts)'
    <2>1. TermsSound(n, ts)'
        <3>1. /\ \A x \in Notes : DepositTerm(x) \in ts <=> x = n[1]
              /\ \A id \in Ids : UserTerm(id) \notin ts
              /\ \A k \in Nullifiers : ServerTerm(k) \notin ts
            BY <1>2, <1>8 DEF DepositTerm, UserTerm, ServerTerm
        <3> QED
            BY <3>1 DEF TermsSound
    <2>2. KnownState(n, d, ts)'
        BY <1>1, <1>3, <1>5, <1>8, <1>10, <2>1 DEF KnownState
    <2>3. \A r \in posted' : r.nullifier # n
        BY <1>1, <1>8, <1>11 DEF Underway
    <2>4. \A m \in Nullifiers : m[1] = n[1] =>
             ~MayCharge(m)' /\ ~Cleared(m)' /\ ~Finalized(m)'
             /\ ledger'[m] = None
        BY <1>1, <1>8, <1>11, <1>13 DEF MayCharge, Cleared, Finalized
    <2> QED
        BY <2>2, <2>3, <2>4 DEF LastOfNote
<1>15. LastOnDisk'
    BY <1>1, <1>7, <1>9, <1>14 DEF LastOnDisk
<1>16. DiskSound'
    <2>1. OpeningOf(stateFile)' = stateFile'.commitment
        BY <1>1, <1>5, <1>7 DEF OpeningOf
    <2>2. Charged(n[1], Nullifiers \ {n})' = 0
        <3>1. \A k \in Nullifiers \ {n} : Finalized(k) => k[1] # n[1]
            BY <1>8, <1>13 DEF Finalized
        <3> QED
            BY <1>1, <3>1, ChargedNothing, SameLedger
    <2> QED
        BY <1>1, <1>4, <1>7, <1>9, <2>1, <2>2 DEF DiskSound
<1>17. JournalSound'
    <2> SUFFICES ASSUME journalFile # None PROVE JournalSound'
        BY <1>1 DEF JournalSound
    <2>1. /\ SampleFieldElement(UserTerm(journalFile.id))'
                = SampleFieldElement(UserTerm(journalFile.id))
          /\ Linked(journalFile.nullifier)' <=> Linked(journalFile.nullifier)
        BY <1>1 DEF SampleFieldElement, UserTerm, Linked, Finalized, Successor
    <2>2. journalFile.nullifier[1] # note
        BY <1>1 DEF IInv, JournalSound
    <2> QED
        BY <1>1, <1>7, <2>1, <2>2 DEF IInv, JournalSound
<1>18. TypeOK'
    BY <1>1, <1>7, <1>12 DEF IInv, TypeOK, ServerSound
<1>19. ProcessSound'
    BY <1>1 DEF ProcessSound
<1>20. WithdrawalsSound'
    BY <1>1, SameLedger DEF IInv, WithdrawalsSound
<1> QED
    BY <1>12, <1>15, <1>16, <1>17, <1>18, <1>19, <1>20 DEF IInv

\* request_flow, up to the journal: the last state has no request under way.
LEMMA RequestFlowIInv ==
    ASSUME IInv, NEW id \in Ids, RequestFlow(id)
    PROVE  IInv'
<1> DEFINE j == [id |-> id, nullifier |-> Nullifier(stateFile),
                 rerandomization |-> SampleFieldElement(UserTerm(id))]
<1>1. /\ running /\ pc = "idle" /\ state # None /\ state = stateFile
      /\ journalFile = None
      /\ id \notin used /\ used' = used \cup {id}
      /\ journalFile' = j /\ pc' = "post"
      /\ UNCHANGED <<stateFile, state, running, posted, rejected, ledger,
                     withdrawals>>
    BY DEF RequestFlow, Idle, serverVars, IInv, ProcessSound
<1>2. PICK n \in Nullifiers, c \in Points, terms \in SUBSET Scalar :
         /\ n = Nullifier(stateFile)
         /\ n[1] = stateFile.note
         /\ c = stateFile.commitment
         /\ LastOfNote(n, c, terms)
         /\ JournalKept(n)
         /\ n[1] \in used /\ Linked(n)
    BY <1>1, DiskTerms
<1>3. SampleFieldElement(UserTerm(id)) \in 0 .. CurveOrder - 1
    <2>1. Felt[UserTerm(id)] \in Int
        BY Terms, WalletV1Assumption
    <2> QED
        BY <2>1, Reduced DEF SampleFieldElement, Pedersen!ReduceBlinding
<1>4. /\ j \in Journal /\ j # None
      /\ j.id = id /\ j.nullifier = n
      /\ j.rerandomization = SampleFieldElement(UserTerm(id))
    BY <1>2, <1>3, WalletV1NoneAssumption DEF Journal
<1> HIDE DEF j
<1>5. /\ ledger[n] = None \/ Cleared(n)
      /\ \A r \in posted :
            r.nullifier = n /\ ledger[n] = None => r.id \in rejected
    BY <1>1, <1>2 DEF JournalKept, Journaled
<1>6. Underway' = Underway \cup {n}
    BY <1>1, <1>4 DEF Underway
<1>7. \A m \in Nullifiers : MayCharge(m)' => MayCharge(m) \/ m = n
    BY <1>1, <1>6 DEF MayCharge
<1>8. ServerSound'
    <2>1. PostedSound'
        BY <1>1, SameLedger, RequestsStay DEF IInv
    <2>2. LedgerBacked'
        <3>1. ASSUME NEW k \in Nullifiers, ledger[k] # None
              PROVE  EntryBacked(k)'
            <4>1. EntryBacked(k)
                BY <3>1 DEF IInv, ServerSound, LedgerBacked
            <4> QED
                BY <1>1, <4>1, SameLedger DEF EntryBacked
        <3> QED
            BY <1>1, <3>1, SameLedger DEF IInv, ServerSound, LedgerBacked
    <2>3. ClearedClosed'
        <3> SUFFICES ASSUME NEW k \in Nullifiers, NEW m \in Nullifiers,
                            Cleared(k)', MayCharge(m)', m[1] = k[1]
                     PROVE  FALSE
            BY DEF ClearedClosed
        <3>1. Cleared(k)
            BY <1>1, SameLedger
        <3>2. CASE MayCharge(m)
            BY <3>1, <3>2 DEF IInv, ServerSound, ClearedClosed
        <3>3. CASE m = n
            <4>1. k = n
                BY <1>2, <3>1, <3>3 DEF LastOfNote
            <4>2. ~MayCharge(n)'
                BY <1>1, <3>1, <4>1 DEF MayCharge, Cleared
            <4> QED
                BY <3>3, <4>2
        <3> QED
            BY <1>7, <3>2, <3>3
    <2>4. ServiceTypeOK(Points)'
        BY <1>1 DEF IInv, ServerSound, ServiceTypeOK
    <2> QED
        BY <2>1, <2>2, <2>3, <2>4 DEF ServerSound
<1>9. LastOfNote(n, c, terms)'
    <2>1. KnownState(n, c, terms)'
        BY <1>1, <1>2, SameLedger, KnownStateStays
        DEF IInv, ServerSound, LastOfNote
    <2>2. /\ ~Finalized(n)'
          /\ ledger'[n] # None => Cleared(n)'
        BY <1>1, <1>5 DEF Finalized, Cleared
    <2>3. /\ \A m \in Nullifiers : MayCharge(m)' /\ m[1] = n[1] => m = n
          /\ \A m \in Nullifiers : Cleared(m)' /\ m[1] = n[1] => m = n
        BY <1>1, <1>2, <1>7, SameLedger DEF LastOfNote
    <2>4. \A r \in posted' :
             /\ r.nullifier = n =>
                   r.commitment = [balance |-> c.balance,
                                   blinding |-> SumOf(terms \cup {UserTerm(r.id)})]
             /\ r.nullifier = n /\ ledger'[n] = None => r.id \in rejected'
        BY <1>1, <1>2, <1>5 DEF LastOfNote
    <2> QED
        BY <2>1, <2>2, <2>3, <2>4 DEF LastOfNote
<1>10. Nullifier(stateFile)' = n
    BY <1>1, <1>2 DEF Nullifier
<1>11. LastOnDisk'
    BY <1>1, <1>2, <1>9, <1>10 DEF LastOnDisk
<1>12. DiskSound'
    BY <1>1, SameLedger DEF IInv, DiskSound, Nullifier, OpeningOf
<1>13. \A r \in posted : r.id # id
    BY <1>1 DEF IInv, ServerSound, PostedSound, RequestBacked
<1>14. JournalSound'
    <2>1. /\ SampleFieldElement(UserTerm(journalFile.id))'
                = SampleFieldElement(UserTerm(id))
          /\ Linked(journalFile.nullifier)' <=> Linked(n)
        BY <1>1, <1>4
        DEF SampleFieldElement, UserTerm, Linked, Finalized, Successor
    <2> QED
        BY <1>1, <1>2, <1>4, <1>10, <1>13, <2>1 DEF JournalSound
<1>15. TypeOK'
    BY <1>1, <1>4, <1>8 DEF IInv, TypeOK, ServerSound
<1>16. ProcessSound'
    BY <1>1, <1>4, <1>10, <1>13 DEF IInv, ProcessSound
<1>17. WithdrawalsSound'
    BY <1>1, SameLedger DEF IInv, WithdrawalsSound
<1> QED
    BY <1>8, <1>11, <1>12, <1>14, <1>15, <1>16, <1>17 DEF IInv

\* Rerandomizing adds the request's term.
LEMMA AnonIs ==
    ASSUME NEW s \in NoteState, NEW terms \in SUBSET Scalar,
           s.blinding = SumOf(terms), NEW id \in Ids,
           NEW rr, rr = SampleFieldElement(UserTerm(id))
    PROVE  /\ AnonCommitment(s, rr)
                 = [balance |-> s.balance % CurveOrder,
                    blinding |-> (SumOf(terms) + Felt[UserTerm(id)])
                                    % CurveOrder]
           /\ AnonCommitment(s, rr) \in Points
           /\ (s.blinding + rr) % CurveOrder
                 = (SumOf(terms) + Felt[UserTerm(id)]) % CurveOrder
<1>1. PICK b \in Int, x \in Int, f \in Int :
         b = s.balance /\ x = SumOf(terms) /\ f = Felt[UserTerm(id)]
    <2>1. s.balance \in Int
        BY StateTyped
    <2>2. SumOf(terms) \in Int
        BY SumOfAdd
    <2>3. Felt[UserTerm(id)] \in Int
        BY Terms, SumOfAdd
    <2> QED
        BY <2>1, <2>2, <2>3
<1>2. PICK g \in Int : g = f % CurveOrder /\ g = rr
    BY <1>1, Reduced DEF SampleFieldElement, Pedersen!ReduceBlinding
<1>3. PICK u \in Int, v \in Int : u = x + g /\ v = x + f
    OBVIOUS
<1>4. g % CurveOrder = f % CurveOrder
    BY <1>2, ReducedTwice
<1>5. u - g = v - f
    BY <1>3
<1>6. u % CurveOrder = v % CurveOrder
    BY <1>4, <1>5, Shifted
<1>7. PICK w \in Int : w = u % CurveOrder /\ w % CurveOrder = u % CurveOrder
    BY Reduced, ReducedTwice
<1>8. AnonCommitment(s, rr) = Pedersen!Commit(b, w)
    BY <1>1, <1>2, <1>3, <1>7 DEF AnonCommitment, Pedersen!AddBlinding
<1>9. /\ Pedersen!Commit(b, w) = [balance |-> b % CurveOrder,
                                  blinding |-> w % CurveOrder]
      /\ Pedersen!Commit(b, w) \in Points
    BY CommitIs
<1> QED
    BY <1>1, <1>2, <1>3, <1>6, <1>7, <1>8, <1>9

\* A request of the state with nullifier n whose id is new on the wire has a
\* term that the state's blinding does not have.
LEMMA NewTerm ==
    ASSUME ServerSound, NEW n \in Nullifiers, NEW terms, TermsSound(n, terms),
           NEW id \in Ids, \A r \in posted : r.id # id
    PROVE  UserTerm(id) \notin terms
<1> SUFFICES ASSUME UserTerm(id) \in terms PROVE FALSE
    OBVIOUS
<1>1. PICK k \in Nullifiers : Passed(k, n) /\ ledger[k].id = id
    BY DEF TermsSound
<1>2. ledger[k] # None /\ ~Cleared(k)
    BY <1>1 DEF Passed, Finalized, Cleared
<1> QED
    BY <1>1, <1>2, AnsweredIs

\* The POST: the request spends the state on disk.
LEMMA PostIInv == IInv /\ Post => IInv'
<1> SUFFICES ASSUME IInv, Post PROVE IInv'
    OBVIOUS
<1> DEFINE anon == AnonCommitment(state, journalFile.rerandomization)
<1>0. PICK id, q : /\ id = journalFile.id
                   /\ q = Request(id, journalFile.nullifier, anon, ChargeCap)
    OBVIOUS
<1>1. /\ running /\ pc = "post" /\ pc' = "await"
      /\ posted' = posted \cup {q}
      /\ UNCHANGED <<stateFile, journalFile, state, running, used, rejected,
                     ledger, withdrawals>>
    BY <1>0 DEF Post, diskVars
<1>2. /\ state # None /\ state = stateFile /\ journalFile # None
      /\ journalFile.nullifier = Nullifier(stateFile)
      /\ \A r \in posted : r.id # id
    BY <1>0, <1>1 DEF IInv, ProcessSound
<1>3. PICK n \in Nullifiers, c \in Points, terms \in SUBSET Scalar :
         /\ n = Nullifier(stateFile)
         /\ c = stateFile.commitment
         /\ stateFile.blinding = SumOf(terms)
         /\ c = [balance |-> stateFile.balance % CurveOrder,
                 blinding |-> stateFile.blinding]
         /\ LastOfNote(n, c, terms)
         /\ JournalKept(n)
         /\ n[1] \in used /\ Linked(n)
         /\ TermsSound(n, terms)
    BY <1>2, DiskTerms
<1>4. /\ stateFile \in NoteState /\ journalFile \in Journal /\ id \in Ids
      /\ id \in used
      /\ journalFile.rerandomization = SampleFieldElement(UserTerm(id))
    BY <1>0, <1>2 DEF IInv, TypeOK, JournalSound, Journal
<1>5. UserTerm(id) \notin terms /\ UserTerm(id) \in Scalar
    BY <1>2, <1>3, <1>4, NewTerm, Terms DEF IInv
<1>6. /\ anon \in Points
      /\ anon = [balance |-> c.balance,
                 blinding |-> SumOf(terms \cup {UserTerm(id)})]
    <2>1. /\ anon = [balance |-> stateFile.balance % CurveOrder,
                     blinding |-> (SumOf(terms) + Felt[UserTerm(id)])
                                     % CurveOrder]
          /\ anon \in Points
        BY <1>2, <1>3, <1>4, AnonIs
    <2>2. SumOf(terms \cup {UserTerm(id)})
             = (SumOf(terms) + Felt[UserTerm(id)]) % CurveOrder
        BY <1>5, SumOfAdd
    <2> QED
        BY <1>3, <2>1, <2>2
<1> HIDE DEF anon
<1>7. /\ q.id = id /\ q.nullifier = n /\ q.commitment = anon
      /\ q \in [id : Ids, nullifier : Nullifiers, commitment : Points,
                bound : Nat]
    BY <1>0, <1>2, <1>3, <1>4, <1>6, WalletV1Assumption DEF Request
<1>8. Underway' \subseteq Underway
    BY <1>1, <1>2, <1>3, <1>7 DEF Underway
<1>9. /\ \A k : MayCharge(k)' => MayCharge(k)
      /\ \A k : Unheard(k) => Unheard(k)'
    BY <1>1, <1>8 DEF MayCharge, Unheard
<1>10. PostedSound'
    <2>1. ASSUME NEW r \in posted PROVE RequestBacked(r)'
        <3>1. RequestBacked(r)
            BY DEF IInv, ServerSound, PostedSound
        <3> QED
            BY <1>1, <3>1, SameLedger DEF RequestBacked
    <2>2. RequestBacked(q)'
        <3>1. TermsSound(n, terms)' /\ Linked(n)' /\ terms = Summed(n)'
            BY <1>1, <1>3, SameLedger DEF LastOfNote, KnownState
        <3>2. q.commitment.blinding = SumOf(terms \cup {UserTerm(q.id)})
            BY <1>6, <1>7
        <3> QED
            BY <1>1, <1>3, <1>4, <1>5, <1>7, <3>1, <3>2 DEF RequestBacked
    <2> QED
        BY <1>1, <1>2, <1>7, <2>1, <2>2 DEF IInv, ServerSound, PostedSound
<1>11. LedgerBacked'
    <2>1. ASSUME NEW k \in Nullifiers, ledger[k] # None
          PROVE  EntryBacked(k)'
        <3>1. EntryBacked(k)
            BY <2>1 DEF IInv, ServerSound, LedgerBacked
        <3> QED
            BY <1>1, <3>1, SameLedger DEF EntryBacked
    <2> QED
        BY <1>1, <2>1, SameLedger DEF IInv, ServerSound, LedgerBacked
<1>12. ServerSound'
    <2>1. ClearedClosed'
        BY <1>1, <1>9, SameLedger DEF IInv, ServerSound, ClearedClosed
    <2>2. ServiceTypeOK(Points)'
        BY <1>1, <1>7 DEF IInv, ServerSound, ServiceTypeOK
    <2> QED
        BY <1>10, <1>11, <2>1, <2>2 DEF ServerSound
<1>13. LastOfNote(n, c, terms)'
    <2>1. KnownState(n, c, terms)'
        BY <1>1, <1>3, SameLedger, KnownStateStays
        DEF IInv, ServerSound, LastOfNote
    <2>2. (Finalized(n) => Unheard(Successor(n)))'
        <3>1. PICK s : s = Successor(n)
            OBVIOUS
        <3>2. Finalized(n) => Unheard(s)'
            BY <1>3, <1>9, <3>1 DEF LastOfNote
        <3> QED
            BY <1>1, <3>1, <3>2, SameLedger DEF Unheard
    <2>3. /\ \A m \in Nullifiers : MayCharge(m)' /\ m[1] = n[1] => m = n
          /\ \A m \in Nullifiers : Cleared(m)' /\ m[1] = n[1] => m = n
        BY <1>1, <1>3, <1>9, SameLedger DEF LastOfNote
    <2>4. \A r \in posted' :
             r.nullifier = n =>
                r.commitment = [balance |-> c.balance,
                                blinding |-> SumOf(terms \cup {UserTerm(r.id)})]
        BY <1>1, <1>3, <1>6, <1>7 DEF LastOfNote
    <2>5. Journaled(n, id)'
        BY <1>0, <1>1, <1>2, <1>3 DEF Journaled
    <2>6. /\ \A r \in posted' :
                r.nullifier = n /\ ledger'[n] = None /\ r.id \notin rejected' =>
                   Journaled(n, r.id)'
          /\ (ledger[n] # None /\ ~Cleared(n) => Journaled(n, ledger[n].id))'
        BY <1>1, <1>3, <1>7, <2>5 DEF JournalKept, Journaled, Cleared
    <2> QED
        BY <2>1, <2>2, <2>3, <2>4, <2>6 DEF LastOfNote
<1>14. Nullifier(stateFile)' = n
    BY <1>1, <1>3 DEF Nullifier
<1>15. LastOnDisk'
    BY <1>1, <1>3, <1>13, <1>14 DEF LastOnDisk
<1>16. DiskSound'
    BY <1>1, SameLedger DEF IInv, DiskSound, Nullifier, OpeningOf
<1>17. JournalSound'
    <2>1. /\ SampleFieldElement(UserTerm(journalFile.id))'
                = SampleFieldElement(UserTerm(id))
          /\ Linked(journalFile.nullifier)' <=> Linked(n)
          /\ journalFile'.id = id /\ journalFile'.nullifier = n
        BY <1>0, <1>1, <1>2, <1>3
        DEF SampleFieldElement, UserTerm, Linked, Finalized, Successor
    <2>2. \A r \in posted' : r.id = id => r.nullifier = n
        BY <1>1, <1>2, <1>7
    <2> QED
        BY <1>1, <1>2, <1>3, <1>4, <1>14, <2>1, <2>2 DEF JournalSound
<1>18. TypeOK'
    BY <1>1, <1>12 DEF IInv, TypeOK, ServerSound
<1>19. ProcessSound'
    BY <1>1, <1>2, <1>3, <1>14 DEF IInv, ProcessSound
<1>20. WithdrawalsSound'
    BY <1>1, SameLedger DEF IInv, WithdrawalsSound
<1> QED
    BY <1>12, <1>15, <1>16, <1>17, <1>18, <1>19, <1>20 DEF IInv

\* What is left when the journal goes.
LEMMA JournalGone ==
    ASSUME IInv, journalFile' = None, pc' = "idle",
           UNCHANGED <<stateFile, state, running, used, posted, rejected,
                       ledger, withdrawals>>,
           stateFile # None =>
              \A n \in {Nullifier(stateFile)} :
                 /\ \A r \in posted :
                       r.nullifier = n /\ ledger[n] = None =>
                          r.id \in rejected
                 /\ ledger[n] = None \/ Cleared(n)
    PROVE  IInv'
<1>1. Underway' \subseteq Underway
    BY DEF Underway
<1>2. /\ ServerSound'
      /\ \A n \in Nullifiers : \A c, terms :
            LastOfNote(n, c, terms) /\ JournalKept(n)' =>
               LastOfNote(n, c, terms)'
    BY <1>1, QuietSound DEF IInv
<1>3. LastOnDisk'
    <2> SUFFICES ASSUME stateFile # None,
                        NEW n \in {Nullifier(stateFile)},
                        NEW c \in {stateFile.commitment}
                 PROVE  \E terms : LastOfNote(n, c, terms)'
        BY DEF LastOnDisk, Nullifier
    <2>1. n \in Nullifiers
        BY StateTyped DEF IInv, TypeOK
    <2>2. PICK terms : LastOfNote(n, c, terms)
        BY DEF IInv, LastOnDisk
    <2>3. JournalKept(n)'
        BY DEF JournalKept, Cleared
    <2> QED
        BY <1>2, <2>1, <2>2, <2>3
<1>4. DiskSound'
    BY SameLedger DEF IInv, DiskSound, Nullifier, OpeningOf
<1>5. JournalSound' /\ ProcessSound'
    BY DEF IInv, JournalSound, ProcessSound
<1>6. TypeOK'
    BY <1>2 DEF IInv, TypeOK, ServerSound
<1>7. WithdrawalsSound'
    BY SameLedger DEF IInv, WithdrawalsSound
<1> QED
    BY <1>2, <1>3, <1>4, <1>5, <1>6, <1>7 DEF IInv

\* A rejected request is not and will not be reserved.
LEMMA StaleRootIInv == \A code : IInv /\ StaleRoot(code) => IInv'
<1> SUFFICES ASSUME NEW code, IInv, StaleRoot(code) PROVE IInv'
    OBVIOUS
<1>1. /\ journalFile.id \in rejected
      /\ journalFile' = None /\ pc' = "idle"
      /\ UNCHANGED <<stateFile, state, running, used, posted, rejected,
                     ledger, withdrawals>>
    BY DEF StaleRoot, serverVars
<1>2. ASSUME stateFile # None, NEW n \in {Nullifier(stateFile)}
      PROVE  /\ \A r \in posted :
                   r.nullifier = n /\ ledger[n] = None => r.id \in rejected
             /\ ledger[n] = None \/ Cleared(n)
    <2>1. n \in Nullifiers /\ JournalKept(n)
        BY <1>2, DiskTerms
    <2>2. ledger[n] # None /\ ~Cleared(n) => ledger[n].id \notin rejected
        BY <2>1, AnsweredIs DEF IInv
    <2> QED
        BY <1>1, <2>1, <2>2 DEF JournalKept, Journaled
<1> QED
    BY <1>1, <1>2, JournalGone

\* The clear after an answer is installed: nobody knows the state on disk, so
\* nothing is lost with the journal.
LEMMA ClearJournalIInv == IInv /\ ClearJournal => IInv'
<1> SUFFICES ASSUME IInv, ClearJournal PROVE IInv'
    OBVIOUS
<1>1. /\ pc = "clearJournal" /\ journalFile' = None /\ pc' = "idle"
      /\ UNCHANGED <<stateFile, state, running, used, posted, rejected,
                     ledger, withdrawals>>
    BY DEF ClearJournal, serverVars
<1>2. ASSUME stateFile # None, NEW n \in {Nullifier(stateFile)}
      PROVE  /\ \A r \in posted :
                   r.nullifier = n /\ ledger[n] = None => r.id \in rejected
             /\ ledger[n] = None \/ Cleared(n)
    <2>1. Unheard(n)
        BY <1>1, <1>2, DiskTerms
    <2> QED
        BY <2>1 DEF Unheard, Underway
<1> QED
    BY <1>1, <1>2, JournalGone

\* What a step of the server has to leave as it is, for a wallet that does not
\* move.
LEMMA ServerMoved ==
    ASSUME IInv, ServerSound', LedgerGrows, SummedStay,
           UNCHANGED <<stateFile, journalFile, used, posted>>,
           stateFile # None =>
              \A n \in {Nullifier(stateFile)}, c \in {stateFile.commitment} :
                    /\ \E terms : LastOfNote(n, c, terms)'
                    /\ pc' = "clearJournal" => Unheard(n)'
                    /\ \A k \in Nullifiers \ {n} :
                          k[1] = n[1] /\ Finalized(k)' => Finalized(k)
    PROVE  JournalSound' /\ LastOnDisk' /\ DiskSound'
<1>1. LastOnDisk'
    BY DEF LastOnDisk, Nullifier
<1>2. DiskSound'
    <2> SUFFICES ASSUME stateFile # None, NEW n \in {Nullifier(stateFile)}
                 PROVE  Charged(n[1], Nullifiers \ {n})'
                           = Charged(n[1], Nullifiers \ {n})
        BY DEF IInv, DiskSound, Nullifier, OpeningOf
    <2>1. PICK x, ns : x = n[1] /\ ns = Nullifiers \ {n}
        OBVIOUS
    <2>2. Charged(x, ns)' = Charged(x, ns)
        BY <2>1, ChargedSame
    <2> QED
        BY <2>1, <2>2
<1>3. JournalSound'
    <2>1. CASE journalFile = None
        BY <2>1 DEF JournalSound
    <2>2. CASE journalFile # None
        <3>1. PICK j \in Nullifiers : j = journalFile.nullifier
            BY <2>2 DEF IInv, TypeOK, Journal
        <3>2. Linked(j)
            BY <2>2, <3>1 DEF IInv, JournalSound
        <3>3. Linked(j)'
            BY <3>2, KnowledgeStays DEF IInv, ServerSound
        <3>4. /\ SampleFieldElement(UserTerm(journalFile.id))'
                    = SampleFieldElement(UserTerm(journalFile.id))
              /\ Nullifier(stateFile)' = Nullifier(stateFile)
              /\ UserTerm(journalFile.id)' = UserTerm(journalFile.id)
              /\ Linked(journalFile.nullifier)' <=> Linked(j)'
            BY <3>1
            DEF SampleFieldElement, Nullifier, UserTerm, Linked,
                Finalized, Successor
        <3>5. ASSUME stateFile # None, NEW m \in {Nullifier(stateFile)}
              PROVE  Summed(m)' = Summed(m)
            <4>1. m \in Nullifiers /\ Linked(m)
                BY <3>5, DiskTerms
            <4> QED
                BY <4>1 DEF SummedStay
        <3> QED
            BY <3>3, <3>4, <3>5 DEF IInv, JournalSound
    <2> QED
        BY <2>1, <2>2
<1> QED
    BY <1>1, <1>2, <1>3

\* request_clearance: the server consumes the last nullifier of the note.
LEMMA RequestClearanceIInv == IInv /\ RequestClearance => IInv'
<1> SUFFICES ASSUME IInv, RequestClearance PROVE IInv'
    OBVIOUS
<1>1. /\ running /\ pc = "idle" /\ pc' = "clearance"
      /\ state # None /\ state = stateFile
      /\ ServerClear(Nullifier(stateFile))
      /\ UNCHANGED <<stateFile, journalFile, state, running, used,
                     withdrawals>>
    BY DEF RequestClearance, Idle, diskVars, IInv, ProcessSound
<1>2. PICK n \in Nullifiers, c \in Points, terms \in SUBSET Scalar :
         /\ n = Nullifier(stateFile)
         /\ c = stateFile.commitment
         /\ LastOfNote(n, c, terms)
    BY <1>1, DiskTerms
<1>3. ServerClear(n) /\ ServerSound
    BY <1>1, <1>2 DEF IInv
<1>4. /\ ServerSound' /\ LastOfNote(n, c, terms)' /\ LedgerGrows
      /\ \A k \in Nullifiers : Finalized(k)' => Finalized(k)
      /\ \A k \in Nullifiers : Cleared(k)' <=> (k = n \/ Cleared(k))
      /\ UNCHANGED <<posted, rejected>>
      /\ SummedStay
    BY <1>1, <1>2, <1>3, ClearSound
<1>5. JournalSound' /\ LastOnDisk' /\ DiskSound'
    BY <1>1, <1>2, <1>4, ServerMoved
<1>6. \A x, ns : ns \subseteq Nullifiers => Charged(x, ns)' = Charged(x, ns)
    BY <1>4, ChargedSame
<1>7. ProcessSound'
    <2>1. Cleared(n)' /\ Nullifier(stateFile)' = n
        BY <1>1, <1>2, <1>4 DEF Nullifier
    <2>2. Cleared(Nullifier(stateFile))'
        BY <1>1, <1>2, <2>1 DEF Cleared, Nullifier
    <2> QED
        BY <1>1, <2>2 DEF ProcessSound
<1>8. TypeOK'
    BY <1>1, <1>4 DEF IInv, TypeOK, ServerSound
<1>9. WithdrawalsSound'
    BY <1>1, <1>4, <1>6 DEF IInv, WithdrawalsSound
<1> QED
    BY <1>4, <1>5, <1>7, <1>8, <1>9 DEF IInv

\* What the server does of its own: only a nullifier that may be charged is
\* finalized.
LEMMA ServerActs ==
    ASSUME IInv, ServiceStep(Update), UNCHANGED <<used, journalFile, pc>>
    PROVE  /\ ServerSound' /\ LastsStay /\ LedgerGrows
           /\ posted' = posted
           /\ \A k \in Nullifiers :
                 Finalized(k)' => Finalized(k) \/ MayCharge(k)
           /\ \A k \in Nullifiers : Cleared(k)' <=> Cleared(k)
<1>0. ServerSound /\ JournalSound /\ (pc = "post" => journalFile # None)
    BY DEF IInv, ProcessSound
<1>1. CASE \E r \in posted : ServerReserve(r)
    <2>1. PICK r \in posted : ServerReserve(r)
        BY <1>1
    <2>2. /\ ServerSound' /\ LastsStay /\ LedgerGrows
          /\ \A k \in Nullifiers : Finalized(k)' => Finalized(k)
          /\ \A k \in Nullifiers : Cleared(k)' <=> Cleared(k)
        BY <1>0, <2>1, ReserveSound
    <2>3. posted' = posted
        BY <2>1 DEF ServerReserve
    <2> QED
        BY <2>2, <2>3
<1>2. CASE \E r \in posted : ServerRejectStale(r)
    <2>1. PICK r \in posted : ServerRejectStale(r)
        BY <1>2
    <2>2. ServerSound' /\ LastsStay /\ ledger' = ledger
        BY <1>0, <2>1, RejectSound
    <2>3. posted' = posted
        BY <2>1 DEF ServerRejectStale
    <2> QED
        BY <2>2, <2>3, SameLedger
<1>3. CASE \E n \in Nullifiers, charge \in Charges, anchor \in Anchors :
              ServerFinalize(n, charge, anchor,
                  Update(ledger[n].commitment, charge, ServerTerm(n)))
    <2>1. PICK q \in Nullifiers, charge \in Charges, anchor \in Anchors :
              ServerFinalize(q, charge, anchor,
                  Update(ledger[q].commitment, charge, ServerTerm(q)))
        BY <1>3
    <2>2. /\ ServerSound' /\ LastsStay /\ LedgerGrows
          /\ MayCharge(q)
          /\ \A k \in Nullifiers \ {q} : Finalized(k)' => Finalized(k)
          /\ \A k \in Nullifiers : Cleared(k)' <=> Cleared(k)
        BY <1>0, <2>1, FinalizeSound
    <2>3. posted' = posted
        BY <2>1 DEF ServerFinalize
    <2> QED
        BY <2>2, <2>3
<1> QED
    BY <1>1, <1>2, <1>3 DEF ServiceStep

\* The server reserves, refuses or answers.
LEMMA ServerStepIInv == IInv /\ ServerStep => IInv'
<1> SUFFICES ASSUME IInv, ServerStep PROVE IInv'
    OBVIOUS
<1>1. /\ ServiceStep(Update)
      /\ UNCHANGED <<stateFile, journalFile, state, running, pc, used,
                     withdrawals>>
    BY DEF ServerStep, walletVars, diskVars, processVars
<1>2. /\ ServerSound' /\ LastsStay /\ LedgerGrows
      /\ posted' = posted
      /\ \A k \in Nullifiers : Finalized(k)' => Finalized(k) \/ MayCharge(k)
      /\ \A k \in Nullifiers : Cleared(k)' <=> Cleared(k)
    BY <1>1, ServerActs
<1>3. ASSUME stateFile # None
      PROVE  \A n \in {Nullifier(stateFile)}, c \in {stateFile.commitment} :
                   /\ \E terms : LastOfNote(n, c, terms)'
                   /\ pc' = "clearJournal" => Unheard(n)'
                   /\ \A k \in Nullifiers \ {n} :
                         k[1] = n[1] /\ Finalized(k)' => Finalized(k)
    <2>1. PICK n \in Nullifiers, c \in Points, terms \in SUBSET Scalar :
             /\ n = Nullifier(stateFile)
             /\ c = stateFile.commitment
                 /\ LastOfNote(n, c, terms)
             /\ pc = "clearJournal" => Unheard(n)
        BY <1>3, DiskTerms
    <2>2. LastOfNote(n, c, terms)' /\ (pc' = "clearJournal" => Unheard(n)')
        BY <1>1, <1>2, <2>1 DEF LastsStay
    <2>3. \A k \in Nullifiers \ {n} :
             k[1] = n[1] /\ Finalized(k)' => Finalized(k)
        BY <1>2, <2>1 DEF LastOfNote
    <2> QED
        BY <2>1, <2>2, <2>3
<1>4. JournalSound' /\ LastOnDisk' /\ DiskSound'
    BY <1>1, <1>2, <1>3, ServerMoved DEF LastsStay
<1>5. ProcessSound'
    <2>1. ASSUME pc = "clearance"
          PROVE  Cleared(Nullifier(stateFile))'
        <3>1. state # None /\ state = stateFile
            BY <2>1 DEF IInv, ProcessSound
        <3>2. PICK n \in Nullifiers : n = Nullifier(stateFile)
            BY <3>1, StateTyped DEF IInv, TypeOK
        <3>3. Cleared(n)'
            BY <1>2, <2>1, <3>2 DEF IInv, ProcessSound
        <3> QED
            BY <1>1, <3>2, <3>3 DEF Cleared, Nullifier
    <2>2. Nullifier(stateFile)' = Nullifier(stateFile)
        BY <1>1 DEF Nullifier
    <2> QED
        BY <1>1, <1>2, <2>1, <2>2 DEF IInv, ProcessSound
<1>6. TypeOK'
    BY <1>1, <1>2 DEF IInv, TypeOK, ServerSound
<1>7. WithdrawalsSound'
    <2> SUFFICES ASSUME NEW w \in withdrawals, w.clearance
                 PROVE  /\ Cleared(w.nullifier)'
                        /\ Charged(w.nullifier[1], Nullifiers)'
                              = Charged(w.nullifier[1], Nullifiers)
        BY <1>1 DEF IInv, WithdrawalsSound
    <2>1. PICK n \in Nullifiers, x \in Notes :
             n = w.nullifier /\ x = n[1] /\ Cleared(n)
        BY NullifierParts DEF IInv, WithdrawalsSound
    <2>2. \A k \in Nullifiers : k[1] = x /\ Finalized(k)' => Finalized(k)
        BY <1>2, <2>1 DEF IInv, ServerSound, ClearedClosed
    <2>3. Charged(x, Nullifiers)' = Charged(x, Nullifiers)
        BY <1>2, <2>2, ChargedSame
    <2> QED
        BY <1>2, <2>1, <2>3
<1> QED
    BY <1>2, <1>4, <1>5, <1>6, <1>7 DEF IInv

-----------------------------------------------------------------------------
(* Responses.                                                              *)

\* What arrives is a stored answer with at most one field changed.
LEMMA ArrivedIs ==
    ASSUME ServiceTypeOK(Points), NEW response \in Arriving
    PROVE  \E k \in Nullifiers :
              /\ Finalized(k)
              /\ response.term = ledger[k].term
              /\ \/ /\ response.charge = ledger[k].charge
                    /\ response.nextCommitment = ledger[k].nextCommitment
                    /\ response.signature = ledger[k].signature
                 \/ /\ response.charge = ledger[k].charge + 1
                    /\ response.nextCommitment = ledger[k].nextCommitment
                 \/ /\ response.charge = ledger[k].charge
                    /\ response.nextCommitment.balance
                          = ledger[k].nextCommitment.balance + 1
                    /\ response.nextCommitment.blinding
                          = ledger[k].nextCommitment.blinding
<1>1. PICK answer \in Responses :
         response = answer \/ response \in Altered(answer)
    BY DEF Arriving
<1>2. PICK k \in Nullifiers : Finalized(k) /\ answer = ledger[k]
    BY DEF Responses
<1>3. answer \in [status : {"Finalized"}, id : Ids, nullifier : Nullifiers,
                  charge : Charges, term : Scalar,
                  nextCommitment : Points, nextAnchor : Anchors,
                  signature : Points \X Anchors, hash : {"matches"}]
    BY <1>2 DEF ServiceTypeOK, Entry, Finalized
<1> DEFINE richer == [answer.nextCommitment EXCEPT !.balance = @ + 1]
<1>4. \/ response = answer
      \/ response = [answer EXCEPT !.charge = @ + 1]
      \/ response = [answer EXCEPT !.nextAnchor = None]
      \/ response = [answer EXCEPT !.hash = "differs"]
      \/ response = [answer EXCEPT !.nextAnchor = Genesis]
      \/ response = [answer EXCEPT !.nextCommitment = richer,
                          !.signature = <<richer, answer.nextAnchor>>]
      \/ \E id \in Ids : response = [answer EXCEPT !.id = id]
    BY <1>1 DEF Altered
<1>5. /\ richer.balance = answer.nextCommitment.balance + 1
      /\ richer.blinding = answer.nextCommitment.blinding
    BY <1>3 DEF Points
<1> HIDE DEF richer
<1>6. /\ response.term = answer.term
      /\ \/ /\ response.charge = answer.charge
            /\ response.nextCommitment = answer.nextCommitment
            /\ response.signature = answer.signature
         \/ /\ response.charge = answer.charge + 1
            /\ response.nextCommitment = answer.nextCommitment
         \/ /\ response.charge = answer.charge
            /\ response.nextCommitment = richer
    BY <1>3, <1>4
<1> QED
    BY <1>2, <1>5, <1>6

\* The blinding tells the requests apart.  If a finalized request has the
\* blinding the wallet computes from its last state and its journal, it is the
\* journal's request and spends that state: an earlier request of the note
\* would have the journal's term twice, or a successor known to the server.
LEMMA SameRequest ==
    ASSUME ServerSound,
           NEW n \in Nullifiers, NEW c, NEW terms \in SUBSET Scalar,
           LastOfNote(n, c, terms),
           NEW id \in Ids, NEW j \in Nullifiers,
           \A r \in posted : r.id = id => r.nullifier = j,
           j[1] = n[1] => j = n \/ UserTerm(id) \in terms,
           NEW k \in Nullifiers, Finalized(k),
           NEW q \in posted, AnswerOf(k, q),
           UserTerm(id) \notin terms,
           terms \cup {UserTerm(id)} = Summed(k) \cup {UserTerm(q.id)}
    PROVE  k = n /\ q.id = id /\ UserTerm(id) \notin terms
<1>1. q.nullifier = k /\ q.id \in Ids /\ UserTerm(id) \in Scalar
      /\ UserTerm(q.id) \in Scalar
    BY PostedTyped, Terms DEF ServerSound, AnswerOf
<1>2. RequestBacked(q)
    BY DEF ServerSound, PostedSound
<1>3. PICK ts : /\ ts = Summed(k)
                /\ TermsSound(k, ts)
                /\ UserTerm(q.id) \notin ts
    BY <1>1, <1>2 DEF RequestBacked
<1>5. /\ UserTerm(id) \notin terms
      /\ ts \cup {UserTerm(q.id)} = terms \cup {UserTerm(id)}
    BY <1>3
<1>6. TermsSound(n, terms)
    BY DEF LastOfNote, KnownState
\* Both are of one note, by the term of its deposit.
<1>7. k[1] = n[1]
    <2>1. k[1] \in Notes
        BY NullifierParts
    <2>2. DepositTerm(k[1]) \in ts
        BY <1>3, <2>1 DEF TermsSound
    <2>3. DepositTerm(k[1]) # UserTerm(id)
        BY DEF DepositTerm, UserTerm
    <2> QED
        BY <1>5, <1>6, <2>1, <2>2, <2>3 DEF TermsSound
<1>8. q.id = id
    <2> SUFFICES ASSUME q.id # id PROVE FALSE
        OBVIOUS
    <2>1. UserTerm(id) \in ts
        BY <1>5, TermsDiffer
    <2>2. PICK p \in Nullifiers : Passed(p, k) /\ ledger[p].id = id
        BY <1>3, <2>1 DEF TermsSound
    <2>3. Finalized(p) /\ p[1] = n[1]
        BY <1>7, <2>2 DEF Passed
    <2>4. p = j
        <3>1. ledger[p] # None /\ ~Cleared(p)
            BY <2>3 DEF Finalized, Cleared
        <3> QED
            BY <2>2, <3>1, AnsweredIs
    <2>5. p = n
        BY <1>5, <2>3, <2>4
    <2>6. Unheard(Successor(n))
        BY <2>3, <2>5 DEF LastOfNote
    <2> QED
        BY <2>2, <2>5, <2>6 DEF Passed, Unheard, Finalized
<1>9. k = n
    BY <1>1, <1>5, <1>7, <1>8
<1> QED
    BY <1>5, <1>8, <1>9

\* One more is another remainder.
LEMMA OneMore ==
    ASSUME NEW w \in Int, NEW v \in Int, v = w + 1
    PROVE  w % CurveOrder # v % CurveOrder
<1> SUFFICES ASSUME w % CurveOrder = v % CurveOrder PROVE FALSE
    OBVIOUS
<1>1. 0 \in 0 .. CurveOrder - 1 /\ 1 \in 0 .. CurveOrder - 1
    BY WalletV1Assumption
<1>2. 0 + w = w /\ 1 + w = v
    OBVIOUS
<1>3. (0 + w) % CurveOrder = (1 + w) % CurveOrder
    BY <1>2
<1>4. 0 = 1
    BY <1>1, <1>3, Cancel
<1> QED
    BY <1>4

\* verify_request_response compares neither id nor nullifier, and yet what it
\* accepts is the answer to the journal's request, unaltered.
LEMMA AcceptedIs ==
    ASSUME NoCollision, IInv, NEW response \in Arriving,
           stateFile # None, journalFile # None, state = stateFile,
           VerifyRequestResponse(response),
           NEW n \in Nullifiers, NEW c \in Points, NEW terms \in SUBSET Scalar,
           n = Nullifier(stateFile), n[1] = stateFile.note,
           c.balance = stateFile.balance % CurveOrder,
           stateFile.blinding = SumOf(terms),
           LastOfNote(n, c, terms)
    PROVE  /\ Finalized(n)
           /\ ledger[n].id = journalFile.id
           /\ UserTerm(journalFile.id) \notin terms
           /\ response.term = ServerTerm(n)
           /\ response.charge = ledger[n].charge
           /\ response.nextCommitment = ledger[n].nextCommitment
           /\ response.nextAnchor = ledger[n].nextAnchor
           /\ response.signature
                 = <<ledger[n].nextCommitment, ledger[n].nextAnchor>>
           /\ ledger[n].nextCommitment =
                 Update([balance |-> c.balance,
                         blinding |-> SumOf(terms \cup {UserTerm(journalFile.id)})],
                        ledger[n].charge, ServerTerm(n))
<1>1. PICK k \in Nullifiers :
              /\ Finalized(k)
              /\ response.term = ledger[k].term
              /\ \/ /\ response.charge = ledger[k].charge
                    /\ response.nextCommitment = ledger[k].nextCommitment
                    /\ response.signature = ledger[k].signature
                 \/ /\ response.charge = ledger[k].charge + 1
                    /\ response.nextCommitment = ledger[k].nextCommitment
                 \/ /\ response.charge = ledger[k].charge
                    /\ response.nextCommitment.balance
                          = ledger[k].nextCommitment.balance + 1
                    /\ response.nextCommitment.blinding
                          = ledger[k].nextCommitment.blinding
    BY ArrivedIs DEF IInv, ServerSound
<1>2. PICK q \in posted : AnswerOf(k, q) /\ q.id = ledger[k].id
    <2>1. ledger[k] # None /\ ~Cleared(k)
        BY <1>1 DEF Finalized, Cleared
    <2> QED
        BY <2>1, AnsweredIs DEF IInv
<1>3. /\ response.term = ServerTerm(k)
      /\ ledger[k].nextCommitment
            = Update(q.commitment, ledger[k].charge, ServerTerm(k))
      /\ ledger[k].signature
            = <<ledger[k].nextCommitment, ledger[k].nextAnchor>>
    BY <1>1, <1>2 DEF AnswerOf, Finalized
<1>4. PICK id \in Ids, j \in Nullifiers :
         /\ id = journalFile.id /\ j = journalFile.nullifier
         /\ journalFile.rerandomization = SampleFieldElement(UserTerm(id))
         /\ \A r \in posted : r.id = id => r.nullifier = j
         /\ j[1] = n[1] => j = n \/ UserTerm(id) \in terms
    <2>1. terms = Summed(n)
        BY DEF LastOfNote, KnownState
    <2> QED
        BY <2>1 DEF IInv, TypeOK, Journal, JournalSound
<1>5. PICK t \in Scalar, f \in Int, charge \in Int, paid \in Int :
         /\ t = ServerTerm(k) /\ f = Felt[t]
         /\ charge = ledger[k].charge /\ paid = response.charge
    <2>1. ledger[k].charge \in Nat
        BY <1>1, SuccessorTyped DEF IInv, ServerSound
    <2>2. ServerTerm(k) \in Scalar /\ Felt[ServerTerm(k)] \in Nat
        BY Terms, WalletV1Assumption
    <2> QED
        BY <1>1, <2>1, <2>2
<1>6. PICK x \in 0 .. CurveOrder - 1, anon \in Points :
         /\ x = (SumOf(terms) + Felt[UserTerm(id)]) % CurveOrder
         /\ anon = AnonCommitment(state, journalFile.rerandomization)
         /\ anon.balance = c.balance /\ anon.blinding = x
    <2>1. stateFile \in NoteState
        BY DEF IInv, TypeOK
    <2>2. /\ AnonCommitment(stateFile, journalFile.rerandomization)
                = [balance |-> stateFile.balance % CurveOrder,
                   blinding |-> (SumOf(terms) + Felt[UserTerm(id)])
                                   % CurveOrder]
          /\ AnonCommitment(stateFile, journalFile.rerandomization) \in Points
        BY <1>4, <2>1, AnonIs
    <2> QED
        BY <2>2 DEF Points
<1>7. PICK p \in Points : p = q.commitment
    BY PostedTyped DEF IInv, ServerSound
<1>8. /\ p.balance \in 0 .. CurveOrder - 1 /\ p.blinding \in 0 .. CurveOrder - 1
      /\ c.balance \in 0 .. CurveOrder - 1
    BY DEF Points
<1>9. /\ Update(p, charge, t)
            = [balance |-> (p.balance - charge) % CurveOrder,
               blinding |-> (p.blinding + f) % CurveOrder]
      /\ Update(anon, paid, t)
            = [balance |-> (c.balance - paid) % CurveOrder,
               blinding |-> (x + f) % CurveOrder]
    BY <1>5, <1>6, UpdateIs
<1>10. /\ response.nextCommitment.balance = (c.balance - paid) % CurveOrder
       /\ response.nextCommitment.blinding = (x + f) % CurveOrder
       /\ ledger[k].nextCommitment.balance = (p.balance - charge) % CurveOrder
       /\ ledger[k].nextCommitment.blinding = (p.blinding + f) % CurveOrder
    <2>1. response.nextCommitment = Update(anon, paid, t)
        BY <1>3, <1>5, <1>6 DEF VerifyRequestResponse, AlgebraHolds
    <2>2. ledger[k].nextCommitment = Update(p, charge, t)
        BY <1>3, <1>5, <1>7
    <2> QED
        BY <1>9, <2>1, <2>2
<1>11. x = p.blinding
    <2>1. PICK y \in 0 .. CurveOrder - 1 : y = p.blinding
        BY <1>8
    <2>2. (x + f) % CurveOrder = (y + f) % CurveOrder
        BY <1>1, <1>10, <2>1
    <2>3. x = y
        BY <2>2, Cancel
    <2> QED
        BY <2>1, <2>3
<1>12. k = n /\ q.id = id /\ UserTerm(id) \notin terms
    <2>1. Pedersen!AddBlinding(stateFile.blinding, journalFile.rerandomization)
             = q.commitment.blinding
        <3>1. (stateFile.blinding + journalFile.rerandomization) % CurveOrder = x
            BY <1>4, <1>6, AnonIs DEF IInv, TypeOK
        <3> QED
            BY <1>7, <1>11, <3>1 DEF Pedersen!AddBlinding
    <2>2. terms = Summed(n) /\ q.nullifier = k
        BY <1>2 DEF LastOfNote, KnownState, AnswerOf
    <2>3. /\ UserTerm(id) \notin terms
          /\ terms \cup {UserTerm(id)} = Summed(k) \cup {UserTerm(q.id)}
        BY <1>4, <2>1, <2>2 DEF NoCollision
    <2> QED
        BY <1>1, <1>2, <1>4, <2>3, SameRequest DEF IInv
<1>13. p = [balance |-> c.balance,
            blinding |-> SumOf(terms \cup {UserTerm(id)})]
    BY <1>2, <1>7, <1>12 DEF LastOfNote, AnswerOf
<1>14. /\ response.charge = ledger[k].charge
       /\ response.nextCommitment = ledger[k].nextCommitment
       /\ response.signature = ledger[k].signature
    <2>1. p.balance = c.balance
        BY <1>13
    <2>2. PICK u \in Int, v \in Int, w \in Int :
             u = c.balance - charge /\ v = c.balance - paid
             /\ w = u % CurveOrder
        <3>1. c.balance \in Int
            BY <1>8, WalletV1Assumption
        <3>2. PICK u \in Int, v \in Int :
                 u = c.balance - charge /\ v = c.balance - paid
            BY <3>1
        <3>3. u % CurveOrder \in Int
            BY Reduced
        <3> QED
            BY <3>2, <3>3
    <2>3. /\ ledger[k].nextCommitment.balance = w
          /\ response.nextCommitment.balance = v % CurveOrder
        BY <1>10, <2>1, <2>2
    <2>4. ~(paid = charge + 1 /\ v % CurveOrder = u % CurveOrder)
        <3>1. c.balance \in Int
            BY <1>8, WalletV1Assumption
        <3>2. paid = charge + 1 => u = v + 1
            BY <2>2, <3>1
        <3> QED
            BY <3>2, OneMore
    <2>5. ~(paid = charge /\ v % CurveOrder = w + 1)
        BY <2>2
    <2> QED
        BY <1>1, <1>5, <2>2, <2>3, <2>4, <2>5
<1>15. response.nextAnchor = ledger[k].nextAnchor
    BY <1>3, <1>14 DEF VerifyRequestResponse, SignatureTrusted
<1> QED
    BY <1>1, <1>2, <1>3, <1>4, <1>7, <1>12, <1>13, <1>14, <1>15

\* The successor of a spent last state is the last state then: nobody knows it
\* yet, and its blinding has the request's two terms more.
LEMMA SuccessorLast ==
    ASSUME ServerSound, NEW n \in Nullifiers, NEW c, NEW terms,
           LastOfNote(n, c, terms), Finalized(n),
           NEW id \in Ids, id = ledger[n].id,
           NEW s, s = Successor(n), NEW d, d = ledger[n].nextCommitment,
           NEW ts, ts = terms \cup {UserTerm(id), ServerTerm(n)},
           d.blinding = SumOf(ts)
    PROVE  /\ s \in Nullifiers /\ s[1] = n[1] /\ s[2] \in Anchors /\ s # n
           /\ Unheard(s)
           /\ LastOfNote(s, d, ts)
<1>1. /\ s \in Nullifiers /\ s[1] = n[1] /\ s[2] \in Anchors
    BY SuccessorTyped DEF ServerSound
<1>2. Unheard(s)
    BY DEF LastOfNote
<1>3. s # n /\ ~Finalized(s) /\ ~Cleared(s) /\ ledger[s] = None
    BY <1>2 DEF Unheard, Finalized, Cleared
<1>4. TermsSound(n, terms) /\ n[1] \in used
    BY DEF LastOfNote, KnownState
<1>5. TermsSound(s, ts)
    <2>1. ts \in SUBSET Scalar
        BY <1>4, Terms DEF TermsSound
    <2>2. \A x \in Notes : DepositTerm(x) \in ts <=> x = s[1]
        <3>1. \A x \in Notes : DepositTerm(x) # UserTerm(id)
                               /\ DepositTerm(x) # ServerTerm(n)
            BY DEF DepositTerm, UserTerm, ServerTerm
        <3> QED
            BY <1>1, <1>4, <3>1 DEF TermsSound
    <2>3. ASSUME NEW i \in Ids, UserTerm(i) \in ts
          PROVE  \E k \in Nullifiers : Passed(k, s) /\ ledger[k].id = i
        <3>1. CASE i = id
            <4>1. Passed(n, s)
                BY <1>1 DEF Passed
            <4> QED
                BY <3>1, <4>1
        <3>2. CASE i # id
            <4>1. UserTerm(i) # UserTerm(id) /\ UserTerm(i) # ServerTerm(n)
                BY <3>2 DEF UserTerm, ServerTerm
            <4>2. PICK k \in Nullifiers : Passed(k, n) /\ ledger[k].id = i
                BY <1>4, <2>3, <4>1 DEF TermsSound
            <4>3. Finalized(k) /\ k[1] = n[1] /\ Finalized(Successor(k))
                BY <4>2 DEF Passed
            <4>4. Passed(k, s)
                BY <1>1, <4>3 DEF Passed
            <4> QED
                BY <4>2, <4>4
        <3> QED
            BY <3>1, <3>2
    <2>4. ASSUME NEW k \in Nullifiers, ServerTerm(k) \in ts
          PROVE  k # s /\ Finalized(k)
        <3>1. ServerTerm(k) # UserTerm(id)
            BY DEF UserTerm, ServerTerm
        <3>2. ServerTerm(k) \in terms \/ k = n
            BY <2>4, <3>1, TermsDiffer
        <3>3. Finalized(k)
            BY <1>4, <3>2 DEF TermsSound
        <3> QED
            BY <1>3, <3>3
    <2> QED
        BY <2>1, <2>2, <2>3, <2>4 DEF TermsSound
<1>6. KnownState(s, d, ts)
    <2>1. ts = Summed(s)
        BY SummedNext DEF LastOfNote, KnownState
    <2> QED
        BY <1>1, <1>4, <1>5, <2>1 DEF KnownState
<1>7. \A r \in posted : r.nullifier # s
    BY <1>2 DEF Unheard, Underway
<1>8. ~MayCharge(n) /\ ~Cleared(n)
    BY DEF MayCharge, Cleared, Finalized
<1>9. \A m \in Nullifiers : m[1] = s[1] => ~MayCharge(m) /\ ~Cleared(m)
    BY <1>1, <1>8 DEF LastOfNote
<1>10. LastOfNote(s, d, ts)
    BY <1>3, <1>6, <1>7, <1>9 DEF LastOfNote
<1> QED
    BY <1>1, <1>2, <1>3, <1>10

\* The commitment the server computes is the one that the wallet opens with
\* its new balance and blinding.
LEMMA NextCommitmentIs ==
    ASSUME NEW b \in Nat, NEW charge \in Nat, charge <= b,
           NEW x \in 0 .. CurveOrder - 1, NEW z \in 0 .. CurveOrder - 1,
           NEW t \in Scalar, z = (x + Felt[t]) % CurveOrder,
           NEW p, p = [balance |-> b % CurveOrder, blinding |-> x],
           NEW v, v = b - charge
    PROVE  /\ v \in Nat
           /\ Update(p, charge, t) \in Points
           /\ Update(p, charge, t).blinding = z
           /\ Pedersen!Commit(v, z) = Update(p, charge, t)
<1>1. PICK ch \in Int, a \in Int : ch = charge /\ a = b
    OBVIOUS
<1>2. PICK m \in 0 .. CurveOrder - 1, k \in Int :
         m = a % CurveOrder /\ k = m
    <2>1. PICK m \in 0 .. CurveOrder - 1 : m = a % CurveOrder
        BY Reduced
    <2> QED
        BY <2>1, WalletV1Assumption
<1>3. PICK w \in Int, u \in Int : w = k - ch /\ u = v /\ u = a - ch
    BY <1>1
<1>4. u % CurveOrder = w % CurveOrder
    <2>1. k % CurveOrder = a % CurveOrder
        BY <1>2, ReducedTwice
    <2>2. w - k = u - a
        BY <1>3
    <2> QED
        BY <2>1, <2>2, Shifted
<1>5. p \in Points /\ p.balance = k /\ p.blinding = x
    BY <1>1, <1>2 DEF Points
<1>6. /\ Update(p, ch, t) = [balance |-> (p.balance - ch) % CurveOrder,
                             blinding |-> (p.blinding + Felt[t]) % CurveOrder]
      /\ Update(p, ch, t) \in Points
    BY <1>5, UpdateIs
<1>7. Update(p, ch, t) = [balance |-> w % CurveOrder, blinding |-> z]
    BY <1>3, <1>5, <1>6
<1>8. PICK y \in Int : y = z /\ y % CurveOrder = z
    BY AlreadyReduced, WalletV1Assumption
<1>9. Pedersen!Commit(u, y)
         = [balance |-> u % CurveOrder, blinding |-> y % CurveOrder]
    BY CommitIs
<1>10. v \in Nat
    OBVIOUS
<1> QED
    BY <1>1, <1>3, <1>4, <1>6, <1>7, <1>8, <1>9, <1>10

\* The answer is on disk: the successor's file replaces the spent one, and the
\* journal is still there.
LEMMA InstallIInv ==
    ASSUME NoCollision, IInv, NEW response \in Arriving,
           running, journalFile # None, Install(response)
    PROVE  IInv'
<1>1. /\ state # None /\ stateFile # None /\ state = stateFile
      /\ VerifyRequestResponse(response)
      /\ response.charge <= stateFile.balance
      /\ stateFile' = NextState(response) /\ state' = stateFile'
      /\ pc' = "clearJournal"
      /\ UNCHANGED <<journalFile, running, used, posted, rejected, ledger,
                     withdrawals>>
    BY DEF Install, serverVars, IInv, ProcessSound
<1>2. PICK n \in Nullifiers, c \in Points, terms \in SUBSET Scalar :
         /\ n = Nullifier(stateFile)
         /\ n[1] = stateFile.note
         /\ stateFile.blinding = SumOf(terms)
         /\ c.balance = stateFile.balance % CurveOrder
         /\ LastOfNote(n, c, terms)
         /\ TermsSound(n, terms)
    BY <1>1, DiskTerms
<1>3. PICK id \in Ids :
         /\ id = journalFile.id
         /\ journalFile.rerandomization = SampleFieldElement(UserTerm(id))
    BY DEF IInv, TypeOK, Journal, JournalSound
<1>4. stateFile \in NoteState
    BY <1>1 DEF IInv, TypeOK
<1>5. PICK s, d : s = Successor(n) /\ d = ledger[n].nextCommitment
    OBVIOUS
<1>6. /\ Finalized(n)
      /\ ledger[n].id = id
      /\ UserTerm(id) \notin terms
      /\ response.term = ServerTerm(n)
      /\ response.charge = ledger[n].charge
      /\ response.nextCommitment = d
      /\ response.nextAnchor = ledger[n].nextAnchor
      /\ response.signature = <<d, ledger[n].nextAnchor>>
      /\ d = Update([balance |-> stateFile.balance % CurveOrder,
                     blinding |-> SumOf(terms \cup {UserTerm(id)})],
                    ledger[n].charge, ServerTerm(n))
    BY <1>1, <1>2, <1>3, <1>5, AcceptedIs
<1>7. PICK charge \in Nat : charge = ledger[n].charge
    BY <1>6, SuccessorTyped DEF IInv, ServerSound
<1>8. ServerTerm(n) \notin terms
    BY <1>2 DEF TermsSound
<1>9. PICK ts, next :
         /\ ts = terms \cup {UserTerm(id), ServerTerm(n)}
         /\ next = Pedersen!AddBlinding(
                      Pedersen!AddBlinding(stateFile.blinding,
                                           journalFile.rerandomization),
                      Felt[ServerTerm(n)])
    OBVIOUS
<1>10. /\ ts \in SUBSET Scalar
       /\ next = SumOf(ts) /\ next \in 0 .. CurveOrder - 1
       /\ d \in Points /\ d.blinding = next
       /\ stateFile.balance - charge \in Nat
       /\ Pedersen!Commit(stateFile.balance - charge, next) = d
    <2>1. PICK x, us, p, v :
             /\ x = Pedersen!AddBlinding(stateFile.blinding,
                                         journalFile.rerandomization)
             /\ us = terms \cup {UserTerm(id)}
             /\ p = [balance |-> stateFile.balance % CurveOrder, blinding |-> x]
             /\ v = stateFile.balance - charge
        OBVIOUS
    <2>2. /\ ts = us \cup {ServerTerm(n)}
          /\ next = Pedersen!AddBlinding(x, Felt[ServerTerm(n)])
        BY <1>9, <2>1
    <2>3. /\ ts \in SUBSET Scalar
          /\ x = SumOf(us) /\ x \in 0 .. CurveOrder - 1
          /\ SumOf(ts) = (x + Felt[ServerTerm(n)]) % CurveOrder
          /\ SumOf(ts) \in 0 .. CurveOrder - 1
          /\ Pedersen!AddBlinding(x, Felt[ServerTerm(n)]) = SumOf(ts)
        <3>1. us \in SUBSET Scalar /\ ts \in SUBSET Scalar
            BY <2>1, <2>2, Terms
        <3>2. PICK t \in Scalar : t = ServerTerm(n) /\ t \notin us
            BY <1>8, <2>1, Terms DEF UserTerm, ServerTerm
        <3>3. x = SumOf(us)
            <4>1. (stateFile.blinding + journalFile.rerandomization)
                     % CurveOrder
                     = (SumOf(terms) + Felt[UserTerm(id)]) % CurveOrder
                BY <1>2, <1>3, <1>4, AnonIs
            <4>2. SumOf(terms \cup {UserTerm(id)})
                     = (SumOf(terms) + Felt[UserTerm(id)]) % CurveOrder
                BY <1>6, Terms, SumOfAdd
            <4> QED
                BY <2>1, <4>1, <4>2 DEF Pedersen!AddBlinding
        <3>4. SumOf(ts) = (SumOf(us) + Felt[t]) % CurveOrder
            BY <2>2, <3>1, <3>2, SumOfAdd
        <3>5. /\ SumOf(us) \in 0 .. CurveOrder - 1
              /\ SumOf(ts) \in 0 .. CurveOrder - 1
            BY <3>1, SumOfAdd
        <3> QED
            BY <3>1, <3>2, <3>3, <3>4, <3>5 DEF Pedersen!AddBlinding
    <2>4. PICK b \in Nat, t \in Scalar, y \in 0 .. CurveOrder - 1 :
             /\ b = stateFile.balance /\ t = ServerTerm(n) /\ y = SumOf(ts)
             /\ charge <= b
        BY <1>1, <1>4, <1>6, <1>7, <2>3, StateTyped, Terms
    <2>5. /\ y = (x + Felt[t]) % CurveOrder
          /\ p = [balance |-> b % CurveOrder, blinding |-> x]
          /\ v = b - charge
        BY <2>1, <2>3, <2>4
    <2>6. /\ v \in Nat
          /\ Update(p, charge, t) \in Points
          /\ Update(p, charge, t).blinding = y
          /\ Pedersen!Commit(v, y) = Update(p, charge, t)
        BY <2>3, <2>4, <2>5, NextCommitmentIs
    <2>7. d = Update(p, charge, t)
        BY <1>6, <1>7, <2>1, <2>3, <2>4
    <2> QED
        BY <2>1, <2>2, <2>3, <2>4, <2>6, <2>7
<1>11. /\ s \in Nullifiers /\ s[1] = n[1] /\ s[2] \in Anchors /\ s # n
       /\ Unheard(s)
       /\ LastOfNote(s, d, ts)
    <2>1. d.blinding = SumOf(ts) /\ id = ledger[n].id /\ ServerSound
        BY <1>6, <1>10 DEF IInv
    <2>2. LastOfNote(n, c, terms) /\ Finalized(n)
        BY <1>2, <1>6
    <2> QED
        BY <1>5, <1>9, <2>1, <2>2, SuccessorLast
<1>12. s[2] = ledger[n].nextAnchor
    BY <1>5, <1>6, SuccessorTyped DEF IInv, ServerSound
\* The file that is written.
<1>13. /\ stateFile'.note = stateFile.note
       /\ stateFile'.deposit = stateFile.deposit
       /\ stateFile'.balance = stateFile.balance - charge
       /\ stateFile'.blinding = next
       /\ stateFile'.commitment = d
       /\ stateFile'.anchor = s[2]
       /\ stateFile' \in NoteState
    <2> DEFINE x == stateFile.balance - charge
    <2>1. NextBlinding(response) = next
        BY <1>1, <1>6, <1>9 DEF NextBlinding
    <2>2. stateFile' = [stateFile EXCEPT
                          !.balance = x, !.blinding = next,
                          !.commitment = d, !.anchor = s[2],
                          !.signature = response.signature]
        BY <1>1, <1>6, <1>7, <1>12, <2>1 DEF NextState
    <2>3. response.signature \in Points \X Anchors
        BY <1>6, <1>10, <1>11, <1>12
    <2>4. x \in Nat
        BY <1>10
    <2> HIDE DEF x
    <2>5. stateFile' = [note |-> stateFile.note, deposit |-> stateFile.deposit,
                        balance |-> x, blinding |-> next,
                        commitment |-> d, anchor |-> s[2],
                        signature |-> response.signature]
        BY <1>4, <2>2 DEF NoteState
    <2>6. stateFile' \in NoteState
        BY <1>4, <1>10, <1>11, <2>3, <2>4, <2>5 DEF NoteState
    <2> QED
        BY <2>5, <2>6 DEF x
<1>14. stateFile' # None
    BY <1>13, StateTyped
<1>15. Nullifier(stateFile)' = s
    BY <1>2, <1>11, <1>13, NullifierParts DEF Nullifier
<1>16. Summed(s)' = ts
    BY <1>1, <1>11, SummedSame DEF LastOfNote, KnownState
<1>17. /\ ServerSound' /\ Unheard(s)' /\ LastOfNote(s, d, ts)'
    <2>1. Underway' \subseteq Underway
        BY <1>1 DEF Underway
    <2>2. /\ ServerSound'
          /\ \A k \in Nullifiers : Unheard(k) => Unheard(k)'
          /\ \A k \in Nullifiers : \A e, us :
                LastOfNote(k, e, us) /\ JournalKept(k)' =>
                   LastOfNote(k, e, us)'
        BY <1>1, <2>1, QuietSound DEF IInv
    <2>3. Unheard(s)'
        BY <1>11, <2>2
    <2>4. JournalKept(s)'
        BY <2>3 DEF JournalKept, Unheard, Underway
    <2> QED
        BY <1>11, <2>2, <2>3, <2>4
<1>18. LastOnDisk'
    BY <1>13, <1>15, <1>17 DEF LastOnDisk
<1>19. DiskSound'
    <2>1. OpeningOf(stateFile)' = stateFile'.commitment
        BY <1>10, <1>13 DEF OpeningOf
    <2>2. stateFile'.anchor # Genesis
        BY <1>11, <1>13, ServiceAssumption
    <2>3. stateFile.balance
             = stateFile.deposit - Charged(n[1], Nullifiers \ {n})
        BY <1>1, <1>2 DEF IInv, DiskSound
    <2>4. /\ Charged(n[1], Nullifiers)
                = Charged(n[1], Nullifiers \ {n}) + ledger[n].charge
          /\ Charged(n[1], Nullifiers \ {n}) \in Int
        <3>1. \A k \in Nullifiers : Finalized(k) => ledger[k].charge \in Nat
            BY SuccessorTyped DEF IInv, ServerSound
        <3> QED
            BY <1>6, <3>1, ChargedWith
    <2>5. Charged(n[1], Nullifiers \ {s}) = Charged(n[1], Nullifiers)
        <3>1. ~Finalized(s)
            BY <1>11 DEF Unheard, Finalized
        <3> QED
            BY <3>1, ChargedWithout
    <2>6. Charged(s[1], Nullifiers \ {s})' = Charged(n[1], Nullifiers \ {s})
        BY <1>1, <1>11, SameLedger
    <2>7. stateFile'.balance
             = stateFile'.deposit - Charged(s[1], Nullifiers \ {s})'
        <3>1. stateFile.balance \in Int /\ stateFile.deposit \in Int
            BY <1>4, StateTyped
        <3> QED
            BY <1>7, <1>13, <2>3, <2>4, <2>5, <2>6, <3>1
    <2> QED
        BY <1>13, <1>15, <2>1, <2>2, <2>7 DEF DiskSound
<1>20. JournalSound'
    <2>1. /\ SampleFieldElement(UserTerm(journalFile.id))'
                = SampleFieldElement(UserTerm(id))
          /\ UserTerm(journalFile.id)' = UserTerm(id)
          /\ Linked(journalFile.nullifier)' <=> Linked(journalFile.nullifier)
        BY <1>1, <1>3
        DEF SampleFieldElement, UserTerm, Linked, Finalized, Successor
    <2>2. UserTerm(id) \in ts
        BY <1>9
    <2> QED
        BY <1>1, <1>3, <1>15, <1>16, <2>1, <2>2 DEF IInv, JournalSound
<1>21. TypeOK'
    BY <1>1, <1>13, <1>17 DEF IInv, TypeOK, ServerSound
<1>22. ProcessSound'
    BY <1>1, <1>14 DEF ProcessSound
<1>23. WithdrawalsSound'
    BY <1>1, SameLedger DEF IInv, WithdrawalsSound
<1> QED
    BY <1>17, <1>18, <1>19, <1>20, <1>21, <1>22, <1>23 DEF IInv

\* One lemma per action of the wallet and the server.
LEMMA NextIInv == IInv /\ NoCollision /\ [Next]_vars => IInv'
<1> SUFFICES ASSUME IInv, NoCollision, [Next]_vars PROVE IInv'
    OBVIOUS
<1>1. CASE \E note \in Notes, amount \in Deposits : ConfirmDeposit(note, amount)
    BY <1>1, ConfirmDepositIInv
<1>2. CASE \E id \in Ids : RequestFlow(id)
    BY <1>2, RequestFlowIInv
<1>3. CASE \E response \in Arriving :
              RequestAnswered(response) \/ Recover(response)
    <2>1. PICK response \in Arriving :
              RequestAnswered(response) \/ Recover(response)
        BY <1>3
    <2>2. running /\ journalFile # None /\ Install(response)
        BY <2>1 DEF RequestAnswered, Awaiting, Recover, Idle, IInv, ProcessSound
    <2> QED
        BY <2>2, InstallIInv
<1> QED
    BY <1>1, <1>2, <1>3, StartIInv, CrashIInv, PostIInv, RequestFailsIInv,
       StaleRootIInv, ClearJournalIInv, WithdrawalEscapeHatchIInv,
       RequestClearanceIInv, WithdrawalMutualCloseIInv, ArchiveNoteIInv,
       RemoveStateFileIInv, ServerStepIInv, StutterIInv
    DEF Next, WalletStep

-----------------------------------------------------------------------------
(* What is proved.                                                         *)

\* The invariant holds in every reachable state of a wallet whose blindings
\* do not collide, however many scalars it draws.
THEOREM SpecIInv == Spec /\ []NoCollision => []IInv
BY InitIInv, NextIInv, PTL DEF Spec

\* Scalars in general position do not collide, so that the hypothesis holds of
\* instances with such scalars.
THEOREM SpecNoCollision ==
    ASSUME GeneralPosition
    PROVE  Spec => []NoCollision
<1>1. IInv => NoCollision
    <2> SUFFICES ASSUME IInv, stateFile # None, journalFile # None,
                        NEW r \in posted,
                        Pedersen!AddBlinding(stateFile.blinding,
                                             journalFile.rerandomization)
                           = r.commitment.blinding
                 PROVE  /\ UserTerm(journalFile.id)
                              \notin Summed(Nullifier(stateFile))
                        /\ Summed(Nullifier(stateFile))
                                 \cup {UserTerm(journalFile.id)}
                              = Summed(r.nullifier) \cup {UserTerm(r.id)}
        BY DEF NoCollision
    <2>1. PICK n \in Nullifiers, terms \in SUBSET Scalar :
             /\ n = Nullifier(stateFile)
             /\ terms = Summed(n)
             /\ stateFile.blinding = SumOf(terms)
        BY DiskTerms
    <2>2. PICK id \in Ids :
             /\ id = journalFile.id
             /\ journalFile.rerandomization = SampleFieldElement(UserTerm(id))
        BY DEF IInv, TypeOK, Journal, JournalSound
    <2>3. PICK ts : /\ ts = Summed(r.nullifier)
                    /\ TermsSound(r.nullifier, ts)
                    /\ r.commitment.blinding = SumOf(ts \cup {UserTerm(r.id)})
        BY DEF IInv, ServerSound, PostedSound, RequestBacked
    <2>4. PICK B \in SUBSET Scalar : B = ts \cup {UserTerm(r.id)}
        BY <2>3, PostedTyped DEF IInv, ServerSound, TermsSound
    <2>5. (SumOf(terms) + Felt[UserTerm(id)]) % CurveOrder = SumOf(B)
        <3>1. (stateFile.blinding + journalFile.rerandomization) % CurveOrder
                 = (SumOf(terms) + Felt[UserTerm(id)]) % CurveOrder
            BY <2>1, <2>2, AnonIs DEF IInv, TypeOK
        <3> QED
            BY <2>3, <2>4, <3>1 DEF Pedersen!AddBlinding
    <2>6. UserTerm(id) \in Scalar
        BY Terms
    <2>7. UserTerm(id) \notin terms /\ B = terms \cup {UserTerm(id)}
        BY <2>5, <2>6, SameTerms
    <2> QED
        BY <2>1, <2>2, <2>3, <2>4, <2>7
<1>2. IInv /\ [Next]_vars => IInv'
    BY <1>1, NextIInv
<1> QED
    BY <1>1, <1>2, InitIInv, PTL DEF Spec

\* The state file is always spendable and has paid every charge once, although
\* verify_request_response compares neither the id nor the nullifier of a
\* response: the sum of the blindings tells every request from every other.
THEOREM SpecStateBacked ==
    Spec /\ []NoCollision => []StateBacked
<1>1. ASSUME IInv PROVE StateBacked
    <2> SUFFICES ASSUME stateFile # None PROVE StateBacked
        BY DEF StateBacked
    <2>1. PICK n \in Nullifiers, c \in Points, terms \in SUBSET Scalar :
             /\ n = Nullifier(stateFile)
             /\ c = stateFile.commitment
             /\ LastOfNote(n, c, terms)
        BY <1>1, DiskTerms
    <2>2. n[1] = stateFile.note /\ n[2] = stateFile.anchor
        BY <1>1, <2>1, StateTyped DEF IInv, TypeOK
    <2>3. ASSUME NEW k \in Nullifiers, Finalized(k)
          PROVE  ledger[k].signature
                    = <<ledger[k].nextCommitment, ledger[k].nextAnchor>>
        <3>1. ledger[k] # None /\ ~Cleared(k)
            BY <2>3 DEF Finalized, Cleared
        <3> QED
            BY <1>1, <2>3, <3>1, AnsweredIs DEF IInv, AnswerOf, Finalized
    <2>4. ASSUME n[2] # Genesis
          PROVE  \E k \in Nullifiers :
                    /\ Finalized(k)
                    /\ k[1] = stateFile.note
                    /\ ledger[k].signature
                          = <<stateFile.commitment, stateFile.anchor>>
        <3>1. PICK k \in Nullifiers :
                 /\ Finalized(k)
                 /\ Successor(k) = n
                 /\ ledger[k].nextCommitment = c
            BY <2>1, <2>4 DEF LastOfNote, KnownState
        <3>2. k[1] = n[1] /\ ledger[k].nextAnchor = n[2]
            BY <1>1, <3>1, SuccessorTyped DEF IInv, ServerSound
        <3> QED
            BY <2>1, <2>2, <2>3, <3>1, <3>2
    <2>5. /\ OpeningOf(stateFile) = stateFile.commitment
          /\ stateFile.anchor = Genesis =>
                stateFile.balance = stateFile.deposit
          /\ stateFile.balance =
                stateFile.deposit
                - Charged(stateFile.note, Nullifiers \ {Nullifier(stateFile)})
        BY <1>1, <2>1, <2>2 DEF IInv, DiskSound
    <2> QED
        BY <2>2, <2>4, <2>5 DEF StateBacked
<1> QED
    BY <1>1, SpecIInv, PTL

\* The request is posted once and never repeated, but its journal is there for
\* as long as the server may know it: what recover needs is never lost.
THEOREM SpecSpentStateRecoverable ==
    Spec /\ []NoCollision => []SpentStateRecoverable
<1>1. ASSUME IInv PROVE SpentStateRecoverable
    <2> SUFFICES ASSUME stateFile # None,
                        NEW n, n = Nullifier(stateFile),
                        ledger[n] # None, ~Cleared(n)
                 PROVE  Journaled(n, ledger[n].id)
        BY DEF SpentStateRecoverable, Journaled
    <2>1. JournalKept(n)
        BY <1>1, DiskTerms
    <2> QED
        BY <2>1 DEF JournalKept
<1> QED
    BY <1>1, SpecIInv, PTL

\* What withdrawal_mutual_close claims with the server's clearance stays what
\* is left of the note, although neither looks at the journal.
THEOREM SpecClearedWithdrawalFinal ==
    Spec /\ []NoCollision => []ClearedWithdrawalFinal
<1>1. IInv => ClearedWithdrawalFinal
    BY DEF IInv, WithdrawalsSound, ClearedWithdrawalFinal
<1> QED
    BY <1>1, SpecIInv, PTL

=============================================================================

--------------------------- MODULE ServiceProofs ---------------------------
(***************************************************************************)
(* What a wallet may rely on, for any number of notes, request ids,        *)
(* anchors and charges: the ledger of the server, the requests on the wire *)
(* and the wallet's last state of a note.  The proofs about the wallets    *)
(* (WalletProofs, BrowserWalletProofs) are built from these lemmas.        *)
(*                                                                         *)
(* J is the set of the requests the wallet has journaled (one or none):    *)
(* they may get on the wire at any time.                                   *)
(***************************************************************************)
EXTENDS Service, SumProofs, SequenceTheorems

ServiceTyped == ServiceTypeOK(BoundCommitment)

\* The requests of the wallet: an ApiRequest each.
ApiRequest ==
    [id : Ids, nullifier : Nullifiers, commitment : BoundCommitment,
     bound : Nat]

\* The requests that are, or may still get, on the wire.
Issued(J) == posted \cup J

\* c is the commitment of the state whose nullifier is n: a deposit's, or the
\* successor the server signed together with n's anchor.
Opens(n, c) ==
    /\ c.note = n[1]
    /\ \/ /\ n[2] = Genesis
          /\ c.blinding = <<DepositTerm(n[1])>>
       \/ \E k \in Nullifiers :
             /\ Finalized(k)
             /\ k[1] = n[1]
             /\ ledger[k].nextAnchor = n[2]
             /\ ledger[k].nextCommitment = c

\* A request spends a state that opens, and its bound is covered.
RequestSound(r) ==
    /\ r \in ApiRequest
    /\ r.id \in used
    /\ r.nullifier[1] \in used
    /\ \E c \in BoundCommitment :
          /\ Opens(r.nullifier, c)
          /\ r.commitment = Rerandomize(c, UserTerm(r.id))
          /\ r.bound <= c.balance

\* An id is drawn once, so it names one request.
IssuedSound(J) ==
    /\ \A r \in Issued(J) : RequestSound(r)
    /\ \A r, q \in Issued(J) : r.id = q.id => r = q

\* What the ledger says of a reserved or finalized nullifier is about the
\* request r.
EntryOf(n, r) ==
    /\ r.id = ledger[n].id
    /\ r.nullifier = n
    /\ ledger[n].status = "Reserved" =>
          /\ ledger[n].commitment = r.commitment
          /\ ledger[n].bound = r.bound
    /\ ledger[n].status = "Finalized" =>
          /\ ledger[n].nullifier = n
          /\ ledger[n].term = ServerTerm(n)
          /\ ledger[n].charge <= r.bound
          /\ ledger[n].nextCommitment =
                ServerUpdate(r.commitment, ledger[n].charge, ServerTerm(n))
          /\ ledger[n].signature =
                <<ledger[n].nextCommitment, ledger[n].nextAnchor>>

\* The anchor is a deposit's, or the server gave it to somebody.
Known(anchor) ==
    \/ anchor = Genesis
    \/ \E k \in Nullifiers : Finalized(k) /\ ledger[k].nextAnchor = anchor

\* What the ledger holds was posted, and is not rejected.
EntrySound(n) ==
    /\ n[1] \in used
    /\ Known(n[2])
    /\ ~Cleared(n) =>
          /\ ledger[n].id \notin rejected
          /\ \E r \in posted : EntryOf(n, r)

LedgerSound ==
    /\ \A n \in Nullifiers : ledger[n] # None => EntrySound(n)
    /\ \A m, n \in Nullifiers :
          /\ Finalized(m)
          /\ Finalized(n)
          /\ ledger[m].nextAnchor = ledger[n].nextAnchor
          => m = n

\* Nobody has heard of the nullifier.
Fresh(n, J) == ledger[n] = None /\ \A r \in Issued(J) : r.nullifier # n

\* The nullifier may still get a charge.
Chargeable(n, J) ==
    \/ ledger[n] # None /\ ledger[n].status = "Reserved"
    \/ ledger[n] = None /\ \E r \in Issued(J) : r.nullifier = n

\* A cleared note is charged no more.
ClearedSound(J) ==
    \A n, m \in Nullifiers : Cleared(n) /\ Chargeable(m, J) => m[1] # n[1]

ServiceInv(J) ==
    /\ ServiceTyped
    /\ IssuedSound(J)
    /\ LedgerSound
    /\ ClearedSound(J)

\* The only request that may still be reserved under n is journaled.
OnlyJournaled(n, J) ==
    \A r \in posted :
        r.nullifier = n /\ ledger[n] = None /\ r.id \notin rejected => r \in J

\* What the server has of n is journaled.
Recoverable(n, J) ==
    ledger[n] # None /\ ~Cleared(n) =>
        \E r \in J : r.id = ledger[n].id /\ r.nullifier = n

\* The state with nullifier n and commitment c is the last of its note: it
\* opens, the requests that spend it are of its own commitment, the one that
\* may succeed is journaled, its successor is not known to anybody yet, and no
\* other state of the note may get a charge or is cleared.
LastState(n, c, J) ==
    /\ n[1] \in used
    /\ Opens(n, c)
    /\ \A r \in Issued(J) :
          r.nullifier = n => r.commitment = Rerandomize(c, UserTerm(r.id))
    /\ OnlyJournaled(n, J)
    /\ Recoverable(n, J)
    /\ \A a \in Anchors :
          Finalized(n) /\ ledger[n].nextAnchor = a => Fresh(<<n[1], a>>, J)
    /\ \A m \in Nullifiers : Chargeable(m, J) /\ m[1] = n[1] => m = n
    /\ \A m \in Nullifiers : Cleared(m) /\ m[1] = n[1] => m = n

-----------------------------------------------------------------------------
(* Data.                                                                   *)

\* A nullifier is a note and an anchor.
LEMMA NullifierParts ==
    ASSUME NEW n \in Nullifiers
    PROVE  /\ n[1] \in Notes
           /\ n[2] \in Anchors \cup {Genesis}
           /\ n = <<n[1], n[2]>>
BY DEF Nullifiers

\* A note and an anchor are a nullifier.
LEMMA NullifierPair ==
    ASSUME NEW x \in Notes, NEW a \in Anchors \cup {Genesis}
    PROVE  /\ <<x, a>> \in Nullifiers
           /\ <<x, a>>[1] = x
           /\ <<x, a>>[2] = a
BY DEF Nullifiers

\* The three kinds of blinding terms are scalars.
LEMMA Terms ==
    /\ \A x \in Notes : DepositTerm(x) \in Scalar
    /\ \A id \in Ids : UserTerm(id) \in Scalar
    /\ \A n \in Nullifiers : ServerTerm(n) \in Scalar
BY DEF Scalar

\* Terms of different kinds or arguments differ.
LEMMA TermsDiffer ==
    /\ \A x, n : DepositTerm(x) # ServerTerm(n)
    /\ \A m, n : ServerTerm(m) = ServerTerm(n) => m = n
    /\ \A m, n : UserTerm(m) = UserTerm(n) => m = n
BY DEF DepositTerm, ServerTerm, UserTerm

\* The two updates of a commitment.
LEMMA RerandomizeIs ==
    ASSUME NEW c \in BoundCommitment, NEW t \in Scalar
    PROVE  /\ Rerandomize(c, t) \in BoundCommitment
           /\ Rerandomize(c, t).note = c.note
           /\ Rerandomize(c, t).balance = c.balance
           /\ Rerandomize(c, t).blinding = Append(c.blinding, t)
BY DEF Rerandomize, BoundCommitment

\* The server subtracts the charge and adds its term.
LEMMA ServerUpdateIs ==
    ASSUME NEW c \in BoundCommitment, NEW t \in Scalar, NEW x \in Int
    PROVE  /\ ServerUpdate(c, x, t).note = c.note
           /\ ServerUpdate(c, x, t).balance = c.balance - x
           /\ ServerUpdate(c, x, t).blinding = Append(c.blinding, t)
           /\ x \in Nat /\ x <= c.balance =>
                 ServerUpdate(c, x, t) \in BoundCommitment
<1> DEFINE d == [c EXCEPT !.balance = @ - x]
<1>1. /\ c.note \in Notes /\ c.balance \in Nat /\ c.blinding \in Seq(Scalar)
      /\ d = [note |-> c.note, balance |-> c.balance - x,
              blinding |-> c.blinding]
    BY DEF BoundCommitment
<1>2. ServerUpdate(c, x, t) = [d EXCEPT !.blinding = Append(c.blinding, t)]
    BY <1>1 DEF ServerUpdate
<1>3. ServerUpdate(c, x, t) = [note |-> c.note, balance |-> c.balance - x,
                               blinding |-> Append(c.blinding, t)]
    BY <1>1, <1>2
<1>4. Append(c.blinding, t) \in Seq(Scalar)
    BY <1>1
<1> QED
    BY <1>1, <1>3, <1>4 DEF BoundCommitment

\* A commitment is its three parts.
LEMMA SameCommitment ==
    ASSUME NEW c \in BoundCommitment, NEW d \in BoundCommitment,
           c.note = d.note, c.balance = d.balance, c.blinding = d.blinding
    PROVE  c = d
BY DEF BoundCommitment

\* The ledger's entries by status.
LEMMA EntryTyped ==
    ASSUME ServiceTyped, NEW n \in Nullifiers, ledger[n] # None
    PROVE  /\ ledger[n] \in Entry(BoundCommitment)
           /\ ledger[n].status \in {"Reserved", "Finalized", "Cleared"}
           /\ ledger[n].status # "Cleared" => ledger[n].id \in Ids
           /\ ledger[n].status = "Reserved" =>
                 /\ ledger[n].commitment \in BoundCommitment
                 /\ ledger[n].bound \in Nat
           /\ ledger[n].status = "Finalized" =>
                 /\ ledger[n].charge \in Charges
                 /\ ledger[n].charge \in Nat
                 /\ ledger[n].nextCommitment \in BoundCommitment
                 /\ ledger[n].nextAnchor \in Anchors
<1>1. ledger[n] \in Entry(BoundCommitment)
    BY DEF ServiceTyped, ServiceTypeOK
<1> QED
    BY <1>1, ServiceAssumption DEF Entry

-----------------------------------------------------------------------------
(* What a successor tells.                                                 *)

\* Behind a finalized nullifier is a posted request, and behind the request a
\* state that it spends; the successor is computed from both.
LEMMA SuccessorIs ==
    ASSUME NEW J, ServiceInv(J), NEW k \in Nullifiers, Finalized(k)
    PROVE  \E r \in posted, c \in BoundCommitment :
              /\ r \in ApiRequest
              /\ r.id = ledger[k].id
              /\ r.nullifier = k
              /\ r.commitment = Rerandomize(c, UserTerm(r.id))
              /\ Opens(k, c)
              /\ ledger[k].nullifier = k
              /\ ledger[k].term = ServerTerm(k)
              /\ ledger[k].nextCommitment.note = k[1]
              /\ ledger[k].nextCommitment.balance
                    = c.balance - ledger[k].charge
              /\ ledger[k].nextCommitment.blinding
                    = Append(Append(c.blinding, UserTerm(r.id)), ServerTerm(k))
              /\ ledger[k].signature
                    = <<ledger[k].nextCommitment, ledger[k].nextAnchor>>
<1>1. EntrySound(k) /\ ~Cleared(k) /\ ledger[k].status = "Finalized"
    BY DEF ServiceInv, LedgerSound, Finalized, Cleared
<1>2. PICK r \in posted : EntryOf(k, r)
    BY <1>1 DEF EntrySound
<1>3. RequestSound(r)
    BY DEF ServiceInv, IssuedSound, Issued
<1>4. PICK c \in BoundCommitment :
         /\ Opens(r.nullifier, c)
         /\ r.commitment = Rerandomize(c, UserTerm(r.id))
    BY <1>3 DEF RequestSound
<1>5. /\ UserTerm(r.id) \in Scalar
      /\ ServerTerm(k) \in Scalar
      /\ ledger[k].charge \in Int
    BY <1>1, <1>3, Terms, EntryTyped
    DEF RequestSound, ApiRequest, ServiceInv, Finalized
<1>6. /\ ledger[k].nullifier = k
      /\ ledger[k].term = ServerTerm(k)
      /\ ledger[k].nextCommitment
            = ServerUpdate(r.commitment, ledger[k].charge, ServerTerm(k))
      /\ ledger[k].signature
            = <<ledger[k].nextCommitment, ledger[k].nextAnchor>>
      /\ r.id = ledger[k].id
      /\ r.nullifier = k
    BY <1>1, <1>2 DEF EntryOf
<1>7. /\ r.commitment \in BoundCommitment
      /\ r.commitment.note = c.note
      /\ r.commitment.balance = c.balance
      /\ r.commitment.blinding = Append(c.blinding, UserTerm(r.id))
    BY <1>4, <1>5, RerandomizeIs
<1>8. c.note = k[1]
    BY <1>4, <1>6 DEF Opens
<1>9. /\ ledger[k].nextCommitment.note = k[1]
      /\ ledger[k].nextCommitment.balance = c.balance - ledger[k].charge
      /\ ledger[k].nextCommitment.blinding
            = Append(Append(c.blinding, UserTerm(r.id)), ServerTerm(k))
    <2>0. r.commitment \in BoundCommitment
        BY <1>7
    <2>1. /\ ledger[k].nextCommitment.note = r.commitment.note
          /\ ledger[k].nextCommitment.balance
                = r.commitment.balance - ledger[k].charge
          /\ ledger[k].nextCommitment.blinding
                = Append(r.commitment.blinding, ServerTerm(k))
        BY <1>5, <1>6, <2>0, ServerUpdateIs
    <2> QED
        BY <1>7, <1>8, <2>1, Zenon
<1> QED
    BY <1>3, <1>4, <1>6, <1>9 DEF RequestSound

\* Blindings with one more term are equal part by part.
LEMMA AppendTwice ==
    ASSUME NEW s \in Seq(Scalar), NEW t \in Seq(Scalar), NEW a \in Scalar,
           NEW b \in Scalar, Append(s, a) = Append(t, b)
    PROVE  s = t /\ a = b
BY AppendInjective

\* Blindings do not repeat: two states with the same note and blinding have
\* the same nullifier.
LEMMA OpensUnique ==
    ASSUME NEW J, ServiceInv(J),
           NEW m \in Nullifiers, NEW n \in Nullifiers,
           NEW c \in BoundCommitment, NEW d \in BoundCommitment,
           Opens(m, c), Opens(n, d),
           c.note = d.note, c.blinding = d.blinding
    PROVE  m = n
<1>1. m[1] = n[1]
    BY DEF Opens
<1>2. /\ m[1] \in Notes /\ m = <<m[1], m[2]>>
      /\ n = <<n[1], n[2]>>
    BY NullifierParts
\* A successor's blinding ends in a scalar of the server.
<1>3. ASSUME NEW k \in Nullifiers, Finalized(k)
      PROVE  \E s \in Seq(Scalar) : ledger[k].nextCommitment.blinding
                                       = Append(s, ServerTerm(k))
    <2>1. PICK r \in posted, e \in BoundCommitment :
             /\ r \in ApiRequest
             /\ ledger[k].nextCommitment.blinding
                   = Append(Append(e.blinding, UserTerm(r.id)), ServerTerm(k))
        BY <1>3, SuccessorIs
    <2>2. /\ e.blinding \in Seq(Scalar)
          /\ UserTerm(r.id) \in Scalar
        BY <2>1, Terms DEF BoundCommitment, ApiRequest
    <2>3. Append(e.blinding, UserTerm(r.id)) \in Seq(Scalar)
        BY <2>2, AppendProperties
    <2> QED
        BY <2>1, <2>3, Zenon
\* A deposit's does not.
<1>4. ASSUME NEW k \in Nullifiers, Finalized(k), NEW x \in Notes,
             ledger[k].nextCommitment.blinding = <<DepositTerm(x)>>
      PROVE  FALSE
    <2>1. PICK s \in Seq(Scalar) :
             ledger[k].nextCommitment.blinding = Append(s, ServerTerm(k))
        BY <1>3, <1>4
    <2>2. DepositTerm(x) \in Scalar /\ ServerTerm(k) \in Scalar
        BY Terms
    <2>3. <<DepositTerm(x)>> = Append(<<>>, DepositTerm(x))
          /\ <<>> \in Seq(Scalar)
        OBVIOUS
    <2>4. DepositTerm(x) = ServerTerm(k)
        BY <1>4, <2>1, <2>2, <2>3, AppendTwice
    <2> QED
        BY <2>4, TermsDiffer
<1>5. CASE m[2] = Genesis /\ c.blinding = <<DepositTerm(m[1])>>
    <2>1. ~ \E k \in Nullifiers : Finalized(k) /\ ledger[k].nextCommitment = d
        BY <1>2, <1>4, <1>5
    <2>2. n[2] = Genesis
        BY <2>1 DEF Opens
    <2> QED
        BY <1>1, <1>2, <1>5, <2>2
<1>6. CASE n[2] = Genesis /\ d.blinding = <<DepositTerm(n[1])>>
    <2>1. ~ \E k \in Nullifiers : Finalized(k) /\ ledger[k].nextCommitment = c
        BY <1>1, <1>2, <1>4, <1>6
    <2>2. m[2] = Genesis
        BY <2>1 DEF Opens
    <2> QED
        BY <1>1, <1>2, <1>6, <2>2
<1>7. CASE /\ ~(m[2] = Genesis /\ c.blinding = <<DepositTerm(m[1])>>)
           /\ ~(n[2] = Genesis /\ d.blinding = <<DepositTerm(n[1])>>)
    <2>1. PICK k \in Nullifiers :
             /\ Finalized(k)
             /\ ledger[k].nextAnchor = m[2]
             /\ ledger[k].nextCommitment = c
        BY <1>7 DEF Opens
    <2>2. PICK l \in Nullifiers :
             /\ Finalized(l)
             /\ ledger[l].nextAnchor = n[2]
             /\ ledger[l].nextCommitment = d
        BY <1>7 DEF Opens
    <2>3. PICK s \in Seq(Scalar) : c.blinding = Append(s, ServerTerm(k))
        BY <1>3, <2>1
    <2>4. PICK t \in Seq(Scalar) : d.blinding = Append(t, ServerTerm(l))
        BY <1>3, <2>2
    <2>5. ServerTerm(k) \in Scalar /\ ServerTerm(l) \in Scalar
        BY Terms
    <2>6. ServerTerm(k) = ServerTerm(l)
        <3>1. Append(s, ServerTerm(k)) = Append(t, ServerTerm(l))
            BY <2>3, <2>4, Zenon
        <3> QED
            BY <2>5, <3>1, AppendTwice
    <2>7. k = l
        BY <2>6, TermsDiffer
    <2> QED
        BY <1>1, <1>2, <2>1, <2>2, <2>7
<1> QED
    BY <1>5, <1>6, <1>7

-----------------------------------------------------------------------------
(* The steps of the server.                                                *)

\* An answer is never taken back.
LedgerGrows ==
    \A k \in Nullifiers : Finalized(k) => ledger'[k] = ledger[k]

\* What holds of a state holds of it after a step of the server.
LastStatesStay(J) ==
    /\ \A n \in Nullifiers, c \in BoundCommitment :
          LastState(n, c, J) => LastState(n, c, J)'
    /\ \A n \in Nullifiers : Fresh(n, J) => Fresh(n, J)'

\* What opens a state goes on opening it as the ledger grows.
LEMMA OpensStays ==
    ASSUME LedgerGrows, NEW n, NEW c, Opens(n, c)
    PROVE  Opens(n, c)'
BY DEF LedgerGrows, Opens, Finalized

\* A known anchor stays known.
LEMMA KnownStays ==
    ASSUME LedgerGrows, NEW a, Known(a)
    PROVE  Known(a)'
BY DEF LedgerGrows, Known, Finalized

\* A sound request stays sound.
LEMMA RequestStays ==
    ASSUME LedgerGrows, used \subseteq used', NEW r, RequestSound(r)
    PROVE  RequestSound(r)'
BY OpensStays DEF RequestSound

\* So do all that were issued.
LEMMA IssuedStays ==
    ASSUME LedgerGrows, used \subseteq used', NEW J, IssuedSound(J),
           posted' = posted
    PROVE  IssuedSound(J)'
BY RequestStays DEF IssuedSound, Issued

\* A request opens a state with an anchor that is known.
LEMMA RequestKnown ==
    ASSUME NEW r, RequestSound(r)
    PROVE  r.nullifier \in Nullifiers /\ Known(r.nullifier[2])
BY DEF RequestSound, ApiRequest, Opens, Known

\* The server reserves the nullifier of a request on the wire.
LEMMA ReserveKeeps ==
    ASSUME NEW J, ServiceInv(J), NEW r \in posted, ServerReserve(r),
           UNCHANGED used
    PROVE  /\ ServiceInv(J)'
           /\ LastStatesStay(J)
           /\ LedgerGrows
           /\ \A k \in Nullifiers : Finalized(k)' => Finalized(k)
           /\ \A k \in Nullifiers : Cleared(k) => Cleared(k)'
<1> DEFINE q == r.nullifier
           e == [status |-> "Reserved", id |-> r.id,
                 commitment |-> r.commitment, bound |-> r.bound]
<1>1. /\ RequestSound(r) /\ r \in ApiRequest /\ q \in Nullifiers
      /\ q[1] \in used /\ Known(q[2])
    BY RequestKnown DEF ServiceInv, IssuedSound, Issued, RequestSound
<1>2. /\ ledger[q] = None
      /\ ledger' = [ledger EXCEPT ![q] = e]
      /\ UNCHANGED <<posted, rejected>>
      /\ r.id \notin rejected
    BY DEF ServerReserve
<1>3. ledger \in [Nullifiers -> Entry(BoundCommitment) \cup {None}]
    BY DEF ServiceInv, ServiceTyped, ServiceTypeOK
<1>4. e \in Entry(BoundCommitment) /\ e # None
    BY <1>1, NoneAssumption DEF Entry, ApiRequest
<1>5. /\ ledger'[q] = e
      /\ \A k \in Nullifiers \ {q} : ledger'[k] = ledger[k]
      /\ ledger' \in [Nullifiers -> Entry(BoundCommitment) \cup {None}]
    BY <1>1, <1>2, <1>3, <1>4
<1>6. /\ e.status = "Reserved" /\ e.id = r.id
      /\ e.commitment = r.commitment /\ e.bound = r.bound
    OBVIOUS
<1> HIDE DEF e
<1>7. /\ \A k \in Nullifiers : Finalized(k)' <=> Finalized(k)
      /\ \A k \in Nullifiers : Cleared(k)' <=> Cleared(k)
    BY <1>2, <1>5, <1>6 DEF Finalized, Cleared
<1>8. LedgerGrows
    BY <1>2, <1>5 DEF LedgerGrows, Finalized
<1>9. Issued(J)' = Issued(J) /\ r \in Issued(J)
    BY <1>2 DEF Issued
<1>10. ServiceTyped'
    BY <1>2, <1>5 DEF ServiceInv, ServiceTyped, ServiceTypeOK
<1>11. IssuedSound(J)'
    BY <1>2, <1>8, IssuedStays DEF ServiceInv
<1>12. LedgerSound'
    <2>1. ASSUME NEW n \in Nullifiers, ledger'[n] # None
          PROVE  EntrySound(n)'
        <3>1. CASE n = q
            <4>1. Known(n[2])'
                BY <1>1, <1>8, <3>1, KnownStays
            <4>2. EntryOf(n, r)'
                BY <1>5, <1>6, <3>1 DEF EntryOf
            <4> QED
                BY <1>1, <1>2, <1>5, <1>6, <3>1, <4>1, <4>2 DEF EntrySound
        <3>2. CASE n # q
            <4>1. ledger'[n] = ledger[n] /\ EntrySound(n)
                BY <1>5, <2>1, <3>2 DEF ServiceInv, LedgerSound
            <4>2. Known(n[2])'
                BY <1>8, <4>1, KnownStays DEF EntrySound
            <4>3. \A s : EntryOf(n, s)' <=> EntryOf(n, s)
                BY <4>1 DEF EntryOf
            <4> QED
                BY <1>2, <1>7, <4>1, <4>2, <4>3 DEF EntrySound
        <3> QED
            BY <3>1, <3>2
    <2>2. ASSUME NEW m \in Nullifiers, NEW n \in Nullifiers, Finalized(m)',
                 Finalized(n)', ledger'[m].nextAnchor = ledger'[n].nextAnchor
          PROVE  m = n
        BY <1>7, <1>8, <2>2 DEF LedgerGrows, ServiceInv, LedgerSound
    <2> QED
        BY <2>1, <2>2 DEF LedgerSound
<1>13. \A m \in Nullifiers : Chargeable(m, J)' => Chargeable(m, J)
    BY <1>2, <1>5, <1>9 DEF Chargeable
<1>14. ClearedSound(J)'
    BY <1>7, <1>13 DEF ServiceInv, ClearedSound
<1>15. \A n \in Nullifiers : Fresh(n, J) => Fresh(n, J)'
    BY <1>5, <1>9 DEF Fresh
<1>16. ASSUME NEW n \in Nullifiers, NEW c \in BoundCommitment,
              LastState(n, c, J)
       PROVE  LastState(n, c, J)'
    <2>1. Opens(n, c)'
        BY <1>8, <1>16, OpensStays DEF LastState
    <2>2. OnlyJournaled(n, J)'
        BY <1>2, <1>5, <1>16 DEF LastState, OnlyJournaled
    <2>3. Recoverable(n, J)'
        <3>1. CASE n = q
            <4>1. r \in J
                BY <1>2, <1>16, <3>1 DEF LastState, OnlyJournaled
            <4> QED
                BY <1>5, <1>6, <3>1, <4>1 DEF Recoverable
        <3>2. CASE n # q
            BY <1>5, <1>7, <1>16, <3>2 DEF LastState, Recoverable
        <3> QED
            BY <3>1, <3>2
    <2>4. ASSUME NEW a \in Anchors, Finalized(n)', ledger'[n].nextAnchor = a
          PROVE  Fresh(<<n[1], a>>, J)'
        <3>1. Finalized(n) /\ ledger[n].nextAnchor = a
            BY <1>7, <1>8, <2>4 DEF LedgerGrows
        <3>2. <<n[1], a>> \in Nullifiers
            BY NullifierParts, NullifierPair
        <3> QED
            BY <1>15, <1>16, <3>1, <3>2 DEF LastState
    <2> QED
        BY <1>7, <1>9, <1>13, <1>16, <2>1, <2>2, <2>3, <2>4 DEF LastState
<1> QED
    BY <1>7, <1>8, <1>10, <1>11, <1>12, <1>14, <1>15, <1>16
    DEF ServiceInv, LastStatesStay

\* It refuses a request that has no reservation.
LEMMA RejectKeeps ==
    ASSUME NEW J, ServiceInv(J), NEW r \in posted, ServerRejectStale(r),
           UNCHANGED used
    PROVE  ServiceInv(J)' /\ LastStatesStay(J)
<1>1. /\ rejected' = rejected \cup {r.id}
      /\ UNCHANGED <<posted, ledger>>
      /\ ~ReservedFor(r.nullifier, r.id)
    BY DEF ServerRejectStale
<1>2. RequestSound(r) /\ r.id \in Ids /\ r.nullifier \in Nullifiers
    BY DEF ServiceInv, IssuedSound, Issued, RequestSound, ApiRequest
<1>3. LedgerGrows
    BY <1>1 DEF LedgerGrows
<1>4. /\ \A k : Finalized(k)' <=> Finalized(k)
      /\ \A k : Cleared(k)' <=> Cleared(k)
      /\ Issued(J)' = Issued(J)
    BY <1>1 DEF Finalized, Cleared, Issued
<1>5. ServiceTyped'
    BY <1>1, <1>2 DEF ServiceInv, ServiceTyped, ServiceTypeOK
<1>6. IssuedSound(J)'
    BY <1>1, <1>3, IssuedStays DEF ServiceInv
<1>7. LedgerSound'
    <2>1. ASSUME NEW n \in Nullifiers, ledger'[n] # None
          PROVE  EntrySound(n)'
        <3>1. EntrySound(n)
            BY <1>1, <2>1 DEF ServiceInv, LedgerSound
        <3>2. Known(n[2])'
            BY <1>3, <3>1, KnownStays DEF EntrySound
        <3>3. \A q : EntryOf(n, q)' <=> EntryOf(n, q)
            BY <1>1 DEF EntryOf
        <3>4. ASSUME ~Cleared(n) PROVE ledger[n].id # r.id
            <4>1. PICK q \in posted : EntryOf(n, q)
                BY <3>1, <3>4 DEF EntrySound
            <4> QED
                BY <1>1, <2>1, <4>1
                DEF EntryOf, ServiceInv, IssuedSound, Issued, ReservedFor
        <3> QED
            BY <1>1, <1>4, <3>1, <3>2, <3>3, <3>4 DEF EntrySound
    <2> QED
        BY <1>1, <1>4, <2>1 DEF LedgerSound, ServiceInv
<1>8. \A m : /\ Chargeable(m, J)' <=> Chargeable(m, J)
             /\ Fresh(m, J)' <=> Fresh(m, J)
    BY <1>1, <1>4 DEF Chargeable, Fresh
<1>9. ClearedSound(J)'
    BY <1>4, <1>8 DEF ServiceInv, ClearedSound
<1>10. ASSUME NEW n \in Nullifiers, NEW c \in BoundCommitment,
              LastState(n, c, J)
       PROVE  LastState(n, c, J)'
    <2>1. Opens(n, c)'
        BY <1>3, <1>10, OpensStays DEF LastState
    <2>2. OnlyJournaled(n, J)' /\ Recoverable(n, J)'
        BY <1>1, <1>4, <1>10 DEF LastState, OnlyJournaled, Recoverable
    <2> QED
        BY <1>1, <1>4, <1>8, <1>10, <2>1, <2>2 DEF LastState
<1> QED
    BY <1>5, <1>6, <1>7, <1>8, <1>9, <1>10 DEF ServiceInv, LastStatesStay

\* It answers a reserved request.
LEMMA FinalizeKeeps ==
    ASSUME NEW J, ServiceInv(J), NEW q \in Nullifiers, NEW charge \in Charges,
           NEW anchor \in Anchors,
           ServerFinalize(q, charge, anchor,
               ServerUpdate(ledger[q].commitment, charge, ServerTerm(q))),
           UNCHANGED used
    PROVE  /\ ServiceInv(J)'
           /\ LastStatesStay(J)
           /\ LedgerGrows
           /\ ledger[q] # None /\ ledger[q].status = "Reserved"
           /\ \A k \in Nullifiers \ {q} : ledger'[k] = ledger[k]
<1> DEFINE next == ServerUpdate(ledger[q].commitment, charge, ServerTerm(q))
           e == [status |-> "Finalized", id |-> ledger[q].id,
                 nullifier |-> q, charge |-> charge, term |-> ServerTerm(q),
                 nextCommitment |-> next, nextAnchor |-> anchor,
                 signature |-> <<next, anchor>>, hash |-> "matches"]
<1>1. /\ ledger[q] # None
      /\ ledger[q].status = "Reserved"
      /\ charge <= ledger[q].bound
      /\ \A m \in Nullifiers : Finalized(m) => ledger[m].nextAnchor # anchor
      /\ ledger' = [ledger EXCEPT ![q] = e]
      /\ UNCHANGED <<posted, rejected>>
    BY DEF ServerFinalize
<1>2. /\ EntrySound(q)
      /\ ~Cleared(q) /\ ~Finalized(q)
      /\ ledger[q].id \in Ids
      /\ ledger[q].commitment \in BoundCommitment
      /\ ledger[q].bound \in Nat
      /\ charge \in Nat
    BY <1>1, EntryTyped, ServiceAssumption
    DEF ServiceInv, LedgerSound, Cleared, Finalized
<1>3. PICK r \in posted : EntryOf(q, r)
    BY <1>2 DEF EntrySound
<1>4. /\ r.id = ledger[q].id
      /\ r.nullifier = q
      /\ r.commitment = ledger[q].commitment
      /\ r.bound = ledger[q].bound
    BY <1>1, <1>3 DEF EntryOf
<1>5. charge <= ledger[q].commitment.balance
    <2>1. PICK c \in BoundCommitment :
             /\ r.commitment = Rerandomize(c, UserTerm(r.id))
             /\ r.bound <= c.balance
        BY DEF ServiceInv, IssuedSound, Issued, RequestSound
    <2>2. UserTerm(r.id) \in Scalar
        BY <1>2, <1>4, Terms
    <2>3. r.commitment.balance = c.balance
        BY <2>1, <2>2, RerandomizeIs
    <2>4. c.balance \in Nat
        BY DEF BoundCommitment
    <2> QED
        BY <1>1, <1>2, <1>4, <2>1, <2>3, <2>4
<1>6. next \in BoundCommitment /\ ServerTerm(q) \in Scalar
    BY <1>2, <1>5, ServerUpdateIs, Terms
<1> HIDE DEF next
<1>7. e \in Entry(BoundCommitment) /\ e # None
    BY <1>2, <1>6, NoneAssumption DEF Entry
<1>8. ledger \in [Nullifiers -> Entry(BoundCommitment) \cup {None}]
    BY DEF ServiceInv, ServiceTyped, ServiceTypeOK
<1>9. /\ ledger'[q] = e
      /\ \A k \in Nullifiers \ {q} : ledger'[k] = ledger[k]
      /\ ledger' \in [Nullifiers -> Entry(BoundCommitment) \cup {None}]
    BY <1>1, <1>7, <1>8
<1>10. /\ e.status = "Finalized" /\ e.id = ledger[q].id /\ e.nullifier = q
       /\ e.charge = charge /\ e.term = ServerTerm(q)
       /\ e.nextCommitment = next /\ e.nextAnchor = anchor
       /\ e.signature = <<next, anchor>>
    OBVIOUS
<1> HIDE DEF e
<1>11. /\ \A k \in Nullifiers : Finalized(k)' <=> (k = q \/ Finalized(k))
       /\ \A k \in Nullifiers : Cleared(k)' <=> Cleared(k)
    BY <1>2, <1>7, <1>9, <1>10 DEF Finalized, Cleared
<1>12. LedgerGrows
    BY <1>2, <1>9 DEF LedgerGrows
<1>13. Issued(J)' = Issued(J)
    BY <1>1 DEF Issued
<1>14. ServiceTyped'
    BY <1>1, <1>9 DEF ServiceInv, ServiceTyped, ServiceTypeOK
<1>15. IssuedSound(J)'
    BY <1>1, <1>12, IssuedStays DEF ServiceInv
<1>16. LedgerSound'
    <2>1. ASSUME NEW n \in Nullifiers, ledger'[n] # None
          PROVE  EntrySound(n)'
        <3>1. CASE n = q
            <4>1. Known(n[2])'
                BY <1>2, <1>12, <3>1, KnownStays DEF EntrySound
            <4>2. EntryOf(n, r)'
                BY <1>1, <1>4, <1>9, <1>10, <3>1 DEF EntryOf, next
            <4> QED
                BY <1>1, <1>2, <1>9, <1>10, <3>1, <4>1, <4>2 DEF EntrySound
        <3>2. CASE n # q
            <4>1. ledger'[n] = ledger[n] /\ EntrySound(n)
                BY <1>9, <2>1, <3>2 DEF ServiceInv, LedgerSound
            <4>2. Known(n[2])'
                BY <1>12, <4>1, KnownStays DEF EntrySound
            <4>3. \A s : EntryOf(n, s)' <=> EntryOf(n, s)
                BY <4>1 DEF EntryOf
            <4> QED
                BY <1>1, <1>11, <4>1, <4>2, <4>3 DEF EntrySound
        <3> QED
            BY <3>1, <3>2
    <2>2. ASSUME NEW m \in Nullifiers, NEW n \in Nullifiers, Finalized(m)',
                 Finalized(n)', ledger'[m].nextAnchor = ledger'[n].nextAnchor
          PROVE  m = n
        <3>1. \A k \in Nullifiers \ {q} :
                 Finalized(k)' => /\ Finalized(k)
                                  /\ ledger'[k].nextAnchor # anchor
                                  /\ ledger'[k] = ledger[k]
            BY <1>1, <1>9, <1>11
        <3> QED
            BY <1>9, <1>10, <2>2, <3>1 DEF ServiceInv, LedgerSound
    <2> QED
        BY <2>1, <2>2 DEF LedgerSound
<1>17. \A m \in Nullifiers : Chargeable(m, J)' => Chargeable(m, J)
    BY <1>1, <1>7, <1>9, <1>10, <1>13 DEF Chargeable
<1>18. ClearedSound(J)'
    BY <1>11, <1>17 DEF ServiceInv, ClearedSound
<1>19. \A n \in Nullifiers : Fresh(n, J) => Fresh(n, J)'
    BY <1>1, <1>9, <1>13 DEF Fresh
\* The anchor was not known, so nobody has heard of the successor.
<1>20. Fresh(<<q[1], anchor>>, J)
    <2> DEFINE s == <<q[1], anchor>>
    <2>1. s \in Nullifiers /\ s[2] = anchor
        BY NullifierParts, NullifierPair
    <2>2. ~Known(anchor)
        BY <1>1, ServiceAssumption DEF Known
    <2> HIDE DEF s
    <2>3. ledger[s] = None
        BY <2>1, <2>2 DEF ServiceInv, LedgerSound, EntrySound
    <2>4. \A p \in Issued(J) : p.nullifier # s
        BY <2>1, <2>2, RequestKnown DEF ServiceInv, IssuedSound
    <2> QED
        BY <2>3, <2>4 DEF Fresh, s
<1>21. ASSUME NEW n \in Nullifiers, NEW c \in BoundCommitment,
              LastState(n, c, J)
       PROVE  LastState(n, c, J)'
    <2>1. Opens(n, c)'
        BY <1>12, <1>21, OpensStays DEF LastState
    <2>2. OnlyJournaled(n, J)'
        BY <1>1, <1>9, <1>7, <1>21 DEF LastState, OnlyJournaled
    <2>3. Recoverable(n, J)'
        BY <1>1, <1>2, <1>9, <1>10, <1>11, <1>21 DEF LastState, Recoverable
    <2>4. ASSUME NEW a \in Anchors, Finalized(n)', ledger'[n].nextAnchor = a
          PROVE  Fresh(<<n[1], a>>, J)'
        <3>1. <<n[1], a>> \in Nullifiers
            BY NullifierParts, NullifierPair
        <3>2. CASE n = q
            BY <1>9, <1>10, <1>19, <1>20, <2>4, <3>1, <3>2
        <3>3. CASE n # q
            BY <1>9, <1>11, <1>19, <1>21, <2>4, <3>1, <3>3 DEF LastState
        <3> QED
            BY <3>2, <3>3
    <2> QED
        BY <1>11, <1>13, <1>17, <1>21, <2>1, <2>2, <2>3, <2>4 DEF LastState
<1> QED
    BY <1>1, <1>9, <1>12, <1>14, <1>15, <1>16, <1>18, <1>19, <1>21
    DEF ServiceInv, LastStatesStay

\* It clears the last state of a note.
LEMMA ClearKeeps ==
    ASSUME NEW J, ServiceInv(J),
           NEW n \in Nullifiers, NEW c \in BoundCommitment, LastState(n, c, J),
           ServerClear(n), UNCHANGED used
    PROVE  /\ ServiceInv(J)'
           /\ LastState(n, c, J)'
           /\ LedgerGrows
           /\ \A k \in Nullifiers : Finalized(k)' => Finalized(k)
           /\ \A k \in Nullifiers : Cleared(k)' <=> (k = n \/ Cleared(k))
<1> DEFINE e == [status |-> "Cleared", id |-> None]
<1>1. /\ ledger[n] = None
      /\ ledger' = [ledger EXCEPT ![n] = e]
      /\ UNCHANGED <<posted, rejected>>
    BY DEF ServerClear
<1>2. ledger \in [Nullifiers -> Entry(BoundCommitment) \cup {None}]
    BY DEF ServiceInv, ServiceTyped, ServiceTypeOK
<1>3. e \in Entry(BoundCommitment) /\ e # None
    BY NoneAssumption DEF Entry
<1>4. /\ ledger'[n] = e
      /\ \A k \in Nullifiers \ {n} : ledger'[k] = ledger[k]
      /\ ledger' \in [Nullifiers -> Entry(BoundCommitment) \cup {None}]
    BY <1>1, <1>2, <1>3
<1>5. e.status = "Cleared"
    OBVIOUS
<1> HIDE DEF e
<1>6. /\ \A k \in Nullifiers : Finalized(k)' <=> Finalized(k)
      /\ \A k \in Nullifiers : Cleared(k)' <=> (k = n \/ Cleared(k))
    BY <1>1, <1>3, <1>4, <1>5 DEF Finalized, Cleared
<1>7. LedgerGrows
    BY <1>1, <1>4 DEF LedgerGrows, Finalized
<1>8. Issued(J)' = Issued(J)
    BY <1>1 DEF Issued
<1>9. ServiceTyped'
    BY <1>1, <1>4 DEF ServiceInv, ServiceTyped, ServiceTypeOK
<1>10. IssuedSound(J)'
    BY <1>1, <1>7, IssuedStays DEF ServiceInv
<1>11. LedgerSound'
    <2>1. ASSUME NEW m \in Nullifiers, ledger'[m] # None
          PROVE  EntrySound(m)'
        <3>1. CASE m = n
            <4>1. Known(m[2])
                BY <3>1 DEF LastState, Opens, Known
            <4>2. Known(m[2])'
                BY <1>7, <4>1, KnownStays
            <4> QED
                BY <1>6, <3>1, <4>2 DEF LastState, EntrySound
        <3>2. CASE m # n
            <4>1. ledger'[m] = ledger[m] /\ EntrySound(m)
                BY <1>4, <2>1, <3>2 DEF ServiceInv, LedgerSound
            <4>2. Known(m[2])'
                BY <1>7, <4>1, KnownStays DEF EntrySound
            <4>3. \A s : EntryOf(m, s)' <=> EntryOf(m, s)
                BY <4>1 DEF EntryOf
            <4> QED
                BY <1>1, <1>6, <3>2, <4>1, <4>2, <4>3 DEF EntrySound
        <3> QED
            BY <3>1, <3>2
    <2>2. ASSUME NEW k \in Nullifiers, NEW m \in Nullifiers, Finalized(k)',
                 Finalized(m)', ledger'[k].nextAnchor = ledger'[m].nextAnchor
          PROVE  k = m
        BY <1>6, <1>7, <2>2 DEF LedgerGrows, ServiceInv, LedgerSound
    <2> QED
        BY <2>1, <2>2 DEF LedgerSound
<1>12. \A m \in Nullifiers : Chargeable(m, J)' => Chargeable(m, J) /\ m # n
    BY <1>1, <1>3, <1>4, <1>5, <1>8 DEF Chargeable
<1>13. ClearedSound(J)'
    BY <1>6, <1>12 DEF ServiceInv, ClearedSound, LastState
<1>14. LastState(n, c, J)'
    <2>1. Opens(n, c)'
        BY <1>7, OpensStays DEF LastState
    <2>2. OnlyJournaled(n, J)' /\ Recoverable(n, J)' /\ ~Finalized(n)'
        BY <1>1, <1>3, <1>4, <1>5, <1>6
        DEF OnlyJournaled, Recoverable, Finalized
    <2> QED
        BY <1>6, <1>8, <1>12, <2>1, <2>2 DEF LastState
<1> QED
    BY <1>6, <1>7, <1>9, <1>10, <1>11, <1>13, <1>14 DEF ServiceInv

-----------------------------------------------------------------------------
(* The steps of a wallet.                                                  *)

\* Requests go on the wire or are forgotten; nothing is new.
LEMMA QuietKeeps ==
    ASSUME NEW J, ServiceInv(J), NEW K,
           UNCHANGED <<ledger, rejected>>,
           posted \subseteq posted', posted' \cup K \subseteq posted \cup J,
           used \subseteq used'
    PROVE  /\ ServiceInv(K)'
           /\ \A n \in Nullifiers : Fresh(n, J) => Fresh(n, K)'
           /\ \A n \in Nullifiers, c \in BoundCommitment :
                 /\ LastState(n, c, J)
                 /\ OnlyJournaled(n, K)'
                 /\ Recoverable(n, K)'
                 => LastState(n, c, K)'
<1>1. LedgerGrows
    BY DEF LedgerGrows
<1>2. /\ \A k : Finalized(k)' <=> Finalized(k)
      /\ \A k : Cleared(k)' <=> Cleared(k)
      /\ Issued(K)' \subseteq Issued(J)
    BY DEF Finalized, Cleared, Issued
<1>3. IssuedSound(K)'
    <2>1. \A r \in Issued(J) : RequestSound(r)'
        BY <1>1, RequestStays DEF ServiceInv, IssuedSound
    <2> QED
        BY <1>2, <2>1 DEF IssuedSound, ServiceInv
<1>4. ServiceTyped'
    <2>1. \A r \in posted' : r \in ApiRequest
        BY <1>2 DEF ServiceInv, IssuedSound, RequestSound, Issued
    <2> QED
        BY <2>1 DEF ServiceInv, ServiceTyped, ServiceTypeOK, ApiRequest
<1>5. LedgerSound'
    <2>1. ASSUME NEW n \in Nullifiers, ledger'[n] # None
          PROVE  EntrySound(n)'
        <3>1. EntrySound(n)
            BY <2>1 DEF ServiceInv, LedgerSound
        <3>2. Known(n[2])'
            BY <1>1, <3>1, KnownStays DEF EntrySound
        <3>3. \A q : EntryOf(n, q)' <=> EntryOf(n, q)
            BY DEF EntryOf
        <3> QED
            BY <1>2, <3>1, <3>2, <3>3 DEF EntrySound
    <2> QED
        BY <1>2, <2>1 DEF LedgerSound, ServiceInv
<1>6. \A m : /\ Chargeable(m, K)' => Chargeable(m, J)
             /\ Fresh(m, J) => Fresh(m, K)'
    BY <1>2 DEF Chargeable, Fresh
<1>7. ClearedSound(K)'
    BY <1>2, <1>6 DEF ServiceInv, ClearedSound
<1>8. ASSUME NEW n \in Nullifiers, NEW c \in BoundCommitment,
             LastState(n, c, J), OnlyJournaled(n, K)', Recoverable(n, K)'
      PROVE  LastState(n, c, K)'
    <2>1. Opens(n, c)'
        BY <1>1, <1>8, OpensStays DEF LastState
    <2> QED
        BY <1>2, <1>6, <1>8, <2>1 DEF LastState
<1> QED
    BY <1>3, <1>4, <1>5, <1>6, <1>7, <1>8 DEF ServiceInv

\* A step that concerns none of this.
LEMMA SameKeeps ==
    ASSUME NEW J, ServiceInv(J), UNCHANGED <<ledger, rejected, posted>>,
           used \subseteq used'
    PROVE  ServiceInv(J)' /\ LastStatesStay(J)
<1>1. \A n : /\ OnlyJournaled(n, J) => OnlyJournaled(n, J)'
             /\ Recoverable(n, J) => Recoverable(n, J)'
    BY DEF OnlyJournaled, Recoverable, Cleared
<1>2. posted \subseteq posted' /\ posted' \cup J \subseteq posted \cup J
    OBVIOUS
<1> QED
    BY <1>1, <1>2, QuietKeeps DEF LastStatesStay, LastState

\* The journal is written: a request of a new id that spends the last state.
LEMMA PrepareKeeps ==
    ASSUME ServiceInv({}),
           NEW n \in Nullifiers, NEW c \in BoundCommitment,
           LastState(n, c, {}),
           NEW id \in Ids, id \in used', \A q \in posted : q.id # id,
           used \subseteq used',
           NEW bound \in Nat, bound <= c.balance,
           UNCHANGED <<ledger, rejected, posted>>,
           NEW r, r = Request(id, n, Rerandomize(c, UserTerm(id)), bound)
    PROVE  ServiceInv({r})' /\ LastState(n, c, {r})'
<1>1. LedgerGrows
    BY DEF LedgerGrows
<1>2. /\ \A k : Finalized(k)' <=> Finalized(k)
      /\ \A k : Cleared(k)' <=> Cleared(k)
      /\ Issued({r})' = posted \cup {r}
      /\ Issued({}) = posted
    BY DEF Finalized, Cleared, Issued
<1>3. /\ r.id = id /\ r.nullifier = n /\ r.bound = bound
      /\ r.commitment = Rerandomize(c, UserTerm(id))
      /\ r \in ApiRequest
    <2>1. Rerandomize(c, UserTerm(id)) \in BoundCommitment
        BY Terms, RerandomizeIs
    <2> QED
        BY <2>1 DEF Request, ApiRequest
<1>4. IssuedSound({r})'
    <2>1. \A q \in posted : RequestSound(q)' /\ q.id # id
        BY <1>1, <1>2, RequestStays DEF ServiceInv, IssuedSound
    <2>2. RequestSound(r)'
        <3>1. Opens(n, c)'
            BY <1>1, OpensStays DEF LastState
        <3> QED
            BY <1>3, <3>1 DEF RequestSound, LastState
    <2> QED
        BY <1>2, <1>3, <2>1, <2>2 DEF IssuedSound, ServiceInv
<1>5. ServiceTyped'
    BY DEF ServiceInv, ServiceTyped, ServiceTypeOK
<1>6. LedgerSound'
    <2>1. ASSUME NEW m \in Nullifiers, ledger'[m] # None
          PROVE  EntrySound(m)'
        <3>1. EntrySound(m)
            BY <2>1 DEF ServiceInv, LedgerSound
        <3>2. Known(m[2])'
            BY <1>1, <3>1, KnownStays DEF EntrySound
        <3>3. \A q : EntryOf(m, q)' <=> EntryOf(m, q)
            BY DEF EntryOf
        <3> QED
            BY <1>2, <3>1, <3>2, <3>3 DEF EntrySound
    <2> QED
        BY <1>2, <2>1 DEF LedgerSound, ServiceInv
<1>7. \A m : Chargeable(m, {r})' =>
                Chargeable(m, {}) \/ (m = n /\ ledger[m] = None)
    BY <1>2, <1>3 DEF Chargeable
<1>8. ClearedSound({r})'
    BY <1>2, <1>7 DEF ServiceInv, ClearedSound, LastState, Cleared
<1>9. ~Finalized(n)
    BY DEF LastState, Recoverable, Finalized, Cleared
<1>10. LastState(n, c, {r})'
    <2>1. Opens(n, c)'
        BY <1>1, OpensStays DEF LastState
    <2>2. OnlyJournaled(n, {r})' /\ Recoverable(n, {r})'
        BY <1>2 DEF LastState, OnlyJournaled, Recoverable
    <2> QED
        BY <1>2, <1>3, <1>7, <1>9, <2>1, <2>2 DEF LastState
<1> QED
    BY <1>4, <1>5, <1>6, <1>8, <1>10 DEF ServiceInv

\* A deposit is the last state of a note nobody knew.
LEMMA DepositKeeps ==
    ASSUME NEW J, ServiceInv(J), NEW x \in Notes, x \notin used,
           used' = used \cup {x}, UNCHANGED <<ledger, rejected, posted>>,
           NEW c \in BoundCommitment, c.note = x,
           c.blinding = <<DepositTerm(x)>>
    PROVE  /\ ServiceInv(J)'
           /\ LastState(<<x, Genesis>>, c, J)'
           /\ Fresh(<<x, Genesis>>, J)'
           /\ \A k \in Nullifiers : Finalized(k)' => k[1] # x
<1> DEFINE n == <<x, Genesis>>
<1>1. n \in Nullifiers /\ n[1] = x /\ n[2] = Genesis
    BY NullifierPair
<1> HIDE DEF n
<1>2. /\ \A m \in Nullifiers : m[1] = x => ledger[m] = None
      /\ \A r \in Issued(J) : r.nullifier[1] # x
    BY DEF ServiceInv, LedgerSound, EntrySound, IssuedSound, RequestSound
<1>3. Issued(J)' = Issued(J)
    BY DEF Issued
<1>4. ServiceInv(J)'
    BY SameKeeps
<1>5. Fresh(n, J)'
    BY <1>1, <1>2, <1>3 DEF Fresh
<1>6. \A m \in Nullifiers : m[1] = x => ~Chargeable(m, J)' /\ ~Cleared(m)'
    BY <1>2, <1>3 DEF Chargeable, Cleared
<1>7. \A k \in Nullifiers : Finalized(k)' => k[1] # x
    BY <1>2 DEF Finalized
<1>8. Opens(n, c)'
    BY <1>1 DEF Opens
<1>9. OnlyJournaled(n, J)' /\ Recoverable(n, J)' /\ ~Finalized(n)'
    BY <1>1, <1>2, <1>3 DEF OnlyJournaled, Recoverable, Finalized, Issued
<1>10. LastState(n, c, J)'
    BY <1>1, <1>2, <1>3, <1>6, <1>8, <1>9 DEF LastState
<1> QED
    BY <1>4, <1>5, <1>7, <1>10 DEF n

\* The successor of the last state is the last state, and nobody knows it.
LEMMA SuccessorIsLast ==
    ASSUME NEW J, ServiceInv(J), NEW n \in Nullifiers,
           NEW c \in BoundCommitment, LastState(n, c, J), Finalized(n),
           NEW s, s = <<n[1], ledger[n].nextAnchor>>
    PROVE  /\ s \in Nullifiers
           /\ s[1] = n[1] /\ s[2] = ledger[n].nextAnchor
           /\ s # n
           /\ Fresh(s, J)
           /\ LastState(s, ledger[n].nextCommitment, J)
<1>1. /\ ledger[n].nextAnchor \in Anchors
      /\ ledger[n].nextCommitment \in BoundCommitment
    BY EntryTyped DEF ServiceInv, Finalized
<1>2. s \in Nullifiers /\ s[1] = n[1] /\ s[2] = ledger[n].nextAnchor
    BY <1>1, NullifierParts, NullifierPair
<1>3. Fresh(s, J)
    BY <1>1 DEF LastState
<1>4. s # n /\ ledger[s] = None /\ ~Finalized(s)
    BY <1>3 DEF Fresh, Finalized
<1>5. Opens(s, ledger[n].nextCommitment)
    <2>1. ledger[n].nextCommitment.note = n[1]
        BY SuccessorIs
    <2> QED
        BY <1>2, <2>1 DEF Opens
<1>6. /\ \A r \in Issued(J) : r.nullifier # s
      /\ OnlyJournaled(s, J)
      /\ Recoverable(s, J)
    BY <1>3 DEF Fresh, OnlyJournaled, Recoverable, Issued
<1>7. ~Chargeable(n, J) /\ ~Cleared(n)
    BY DEF Chargeable, Cleared, Finalized
<1>8. \A m \in Nullifiers : m[1] = n[1] => ~Chargeable(m, J) /\ ~Cleared(m)
    BY <1>7 DEF LastState
<1> QED
    BY <1>2, <1>3, <1>4, <1>5, <1>6, <1>8 DEF LastState

-----------------------------------------------------------------------------
(* What a wallet accepts.                                                  *)

\* An arriving response stems from a finalized nullifier; what may be altered
\* of it is one of these.
LEMMA ArrivingIs ==
    ASSUME ServiceTyped, NEW response \in Arriving
    PROVE  \E k \in Nullifiers :
              /\ Finalized(k)
              /\ response.nullifier = ledger[k].nullifier
              /\ response.term = ledger[k].term
              /\ \/ /\ response.charge = ledger[k].charge
                    /\ response.nextCommitment = ledger[k].nextCommitment
                    /\ response.signature = ledger[k].signature
                 \/ /\ response.charge = ledger[k].charge + 1
                    /\ response.nextCommitment = ledger[k].nextCommitment
                 \/ /\ response.charge = ledger[k].charge
                    /\ response.nextCommitment =
                          [ledger[k].nextCommitment EXCEPT !.balance = @ + 1]
<1>1. PICK answer \in Responses :
         response = answer \/ response \in Altered(answer)
    BY DEF Arriving
<1>2. PICK k \in Nullifiers : Finalized(k) /\ answer = ledger[k]
    BY DEF Responses
<1>3. answer \in [status : {"Finalized"}, id : Ids, nullifier : Nullifiers,
                  charge : Charges, term : Scalar,
                  nextCommitment : BoundCommitment, nextAnchor : Anchors,
                  signature : BoundCommitment \X Anchors, hash : {"matches"}]
    BY <1>2 DEF ServiceTyped, ServiceTypeOK, Entry, Finalized
<1> DEFINE richer == [answer.nextCommitment EXCEPT !.balance = @ + 1]
<1>4. \/ response = answer
      \/ response = [answer EXCEPT !.charge = @ + 1]
      \/ response = [answer EXCEPT !.nextAnchor = None]
      \/ response = [answer EXCEPT !.hash = "differs"]
      \/ response = [answer EXCEPT !.nextAnchor = Genesis]
      \/ response = [answer EXCEPT !.nextCommitment = richer,
                          !.signature = <<richer, answer.nextAnchor>>]
      \/ \E id \in Ids : response = [answer EXCEPT !.id = id]
    BY <1>1 DEF Altered
<1> HIDE DEF richer
<1>5. /\ response.nullifier = answer.nullifier
      /\ response.term = answer.term
      /\ \/ /\ response.charge = answer.charge
            /\ response.nextCommitment = answer.nextCommitment
            /\ response.signature = answer.signature
         \/ /\ response.charge = answer.charge + 1
            /\ response.nextCommitment = answer.nextCommitment
         \/ /\ response.charge = answer.charge
            /\ response.nextCommitment = richer
    BY <1>3, <1>4
<1> QED
    BY <1>2, <1>5 DEF richer

\* A response that passes the wallet's algebra and signature checks on its
\* last state is the server's answer to the request that spends this state:
\* neither a late nor an altered one does.
LEMMA AcceptedIsAnswer ==
    ASSUME NEW J, ServiceInv(J), NEW n \in Nullifiers,
           NEW c \in BoundCommitment, LastState(n, c, J),
           NEW response \in Arriving, NEW id \in Ids,
           ServerUpdate(Rerandomize(c, UserTerm(id)),
                        response.charge, response.term)
               = response.nextCommitment,
           response.signature
               = <<response.nextCommitment, response.nextAnchor>>
    PROVE  /\ Finalized(n)
           /\ response.nullifier = n
           /\ ledger[n].id = id
           /\ response.term = ServerTerm(n)
           /\ response.charge = ledger[n].charge
           /\ response.nextCommitment = ledger[n].nextCommitment
           /\ response.nextAnchor = ledger[n].nextAnchor
           /\ response.signature = ledger[n].signature
           /\ response.nextCommitment.balance = c.balance - response.charge
           /\ response.nextCommitment.note = c.note
           /\ response.nextCommitment.blinding
                 = Append(Append(c.blinding, UserTerm(id)), response.term)
<1> DEFINE next == response.nextCommitment
<1>1. PICK k \in Nullifiers :
              /\ Finalized(k)
              /\ response.nullifier = ledger[k].nullifier
              /\ response.term = ledger[k].term
              /\ \/ /\ response.charge = ledger[k].charge
                    /\ next = ledger[k].nextCommitment
                    /\ response.signature = ledger[k].signature
                 \/ /\ response.charge = ledger[k].charge + 1
                    /\ next = ledger[k].nextCommitment
                 \/ /\ response.charge = ledger[k].charge
                    /\ next =
                          [ledger[k].nextCommitment EXCEPT !.balance = @ + 1]
    BY ArrivingIs DEF ServiceInv
<1>2. /\ ledger[k].nextCommitment \in BoundCommitment
      /\ ledger[k].charge \in Nat
      /\ ledger[k].nextCommitment.balance \in Nat
      /\ c.balance \in Nat
      /\ c.blinding \in Seq(Scalar)
      /\ response.charge \in Int
    BY <1>1, EntryTyped DEF ServiceInv, Finalized, BoundCommitment
<1>3. /\ next.note = ledger[k].nextCommitment.note
      /\ next.blinding = ledger[k].nextCommitment.blinding
      /\ \/ /\ next.balance = ledger[k].nextCommitment.balance
            /\ response.charge = ledger[k].charge
            /\ next = ledger[k].nextCommitment
            /\ response.signature = ledger[k].signature
         \/ /\ next.balance = ledger[k].nextCommitment.balance
            /\ response.charge = ledger[k].charge + 1
         \/ /\ next.balance = ledger[k].nextCommitment.balance + 1
            /\ response.charge = ledger[k].charge
    BY <1>1, <1>2 DEF BoundCommitment
<1>4. PICK r \in posted, d \in BoundCommitment :
              /\ r \in ApiRequest
              /\ r.id = ledger[k].id
              /\ r.nullifier = k
              /\ r.commitment = Rerandomize(d, UserTerm(r.id))
              /\ Opens(k, d)
              /\ ledger[k].nullifier = k
              /\ ledger[k].term = ServerTerm(k)
              /\ ledger[k].nextCommitment.note = k[1]
              /\ ledger[k].nextCommitment.balance
                    = d.balance - ledger[k].charge
              /\ ledger[k].nextCommitment.blinding
                    = Append(Append(d.blinding, UserTerm(r.id)), ServerTerm(k))
              /\ ledger[k].signature
                    = <<ledger[k].nextCommitment, ledger[k].nextAnchor>>
    BY <1>1, SuccessorIs
<1>5. /\ UserTerm(id) \in Scalar /\ UserTerm(r.id) \in Scalar
      /\ ServerTerm(k) \in Scalar
      /\ d.blinding \in Seq(Scalar) /\ d.balance \in Nat
    BY <1>4, Terms DEF ApiRequest, BoundCommitment
\* What the wallet computes.
<1>6. /\ next.note = c.note
      /\ next.balance = c.balance - response.charge
      /\ next.blinding = Append(Append(c.blinding, UserTerm(id)), ServerTerm(k))
    <2> DEFINE u == Rerandomize(c, UserTerm(id))
    <2>1. /\ u \in BoundCommitment
          /\ u.note = c.note
          /\ u.balance = c.balance
          /\ u.blinding = Append(c.blinding, UserTerm(id))
        BY <1>5, RerandomizeIs
    <2>2. next = ServerUpdate(u, response.charge, ServerTerm(k))
        BY <1>1, <1>4
    <2>3. u \in BoundCommitment
        BY <2>1
    <2> HIDE DEF u, next
    <2>4. /\ next.note = u.note
          /\ next.balance = u.balance - response.charge
          /\ next.blinding = Append(u.blinding, ServerTerm(k))
        BY <1>2, <1>5, <2>2, <2>3, ServerUpdateIs
    <2> QED
        BY <2>1, <2>4, Zenon
\* It is the same request.
<1>7. c.blinding = d.blinding /\ id = r.id
    <2> DEFINE s == Append(c.blinding, UserTerm(id))
               t == Append(d.blinding, UserTerm(r.id))
    <2>1. s \in Seq(Scalar) /\ t \in Seq(Scalar)
        BY <1>2, <1>5, AppendProperties
    <2>2. Append(s, ServerTerm(k)) = Append(t, ServerTerm(k))
        BY <1>3, <1>4, <1>6, Zenon
    <2>3. s = t
        <3> HIDE DEF s, t
        <3> QED
            BY <1>5, <2>1, <2>2, AppendTwice
    <2>4. c.blinding = d.blinding /\ UserTerm(id) = UserTerm(r.id)
        <3>1. Append(c.blinding, UserTerm(id))
                 = Append(d.blinding, UserTerm(r.id))
            BY <2>3
        <3>2. c.blinding \in Seq(Scalar) /\ d.blinding \in Seq(Scalar)
            BY <1>2, <1>5
        <3> HIDE DEF s, t
        <3> QED
            BY <1>5, <3>1, <3>2, AppendTwice
    <2> QED
        BY <2>4, TermsDiffer
<1>8. n = k
    <2>1. c.note = d.note
        BY <1>3, <1>4, <1>6 DEF Opens
    <2>2. Opens(n, c)
        BY DEF LastState
    <2> QED
        BY <1>4, <1>7, <2>1, <2>2, OpensUnique
<1>9. c.balance = d.balance
    <2>1. /\ r.commitment = Rerandomize(c, UserTerm(r.id))
          /\ r.commitment = Rerandomize(d, UserTerm(r.id))
        BY <1>4, <1>8 DEF LastState, Issued
    <2>2. /\ r.commitment.balance = c.balance
          /\ r.commitment.balance = d.balance
        BY <1>5, <2>1, RerandomizeIs
    <2> QED
        BY <2>2
<1>10. ledger[k].nextCommitment.balance = c.balance - ledger[k].charge
    BY <1>4, <1>9
<1>11. /\ response.charge = ledger[k].charge
       /\ next = ledger[k].nextCommitment
       /\ response.signature = ledger[k].signature
    <2> HIDE DEF next
    <2>1. next.balance = c.balance - response.charge
        BY <1>6
    <2> QED
        BY <1>2, <1>3, <1>10, <2>1
<1>12. response.nextAnchor = ledger[k].nextAnchor
    BY <1>4, <1>11
<1> QED
    BY <1>1, <1>4, <1>6, <1>7, <1>8, <1>11, <1>12, Zenon

-----------------------------------------------------------------------------
(* What a note was charged.                                                *)

\* The finalized nullifiers of a note.
Spent(x, ns) == {n \in ns : Finalized(n) /\ n[1] = x}
ChargeOf(x, ns) == [n \in Spent(x, ns) |-> ledger[n].charge]

\* What a note was charged, as a sum over its finalized nullifiers.
LEMMA ChargedIs ==
    ASSUME NEW x, NEW ns
    PROVE  /\ Charged(x, ns) = SumFunctionOnSet(ChargeOf(x, ns), Spent(x, ns))
           /\ Charged(x, ns)'
                 = SumFunctionOnSet(ChargeOf(x, ns)', Spent(x, ns)')
BY DEF Charged, SumFunction, ChargeOf, Spent

\* The charges of a note change with its finalized nullifiers only.
LEMMA ChargedSame ==
    ASSUME LedgerGrows, NEW x, NEW ns, ns \subseteq Nullifiers,
           \A k \in ns : k[1] = x /\ Finalized(k)' => Finalized(k)
    PROVE  Charged(x, ns)' = Charged(x, ns)
<1>1. Spent(x, ns)' = Spent(x, ns)
    BY DEF Spent, LedgerGrows, Finalized
<1>2. ChargeOf(x, ns)' = ChargeOf(x, ns)
    BY <1>1 DEF ChargeOf, Spent, LedgerGrows
<1> QED
    BY <1>1, <1>2, ChargedIs

\* A nullifier that is not finalized charges nothing.
LEMMA ChargedWithout ==
    ASSUME NEW x, NEW ns, NEW n, ~Finalized(n)
    PROVE  Charged(x, ns \ {n}) = Charged(x, ns)
<1>1. Spent(x, ns \ {n}) = Spent(x, ns)
    BY DEF Spent
<1>2. ChargeOf(x, ns \ {n}) = ChargeOf(x, ns)
    BY <1>1 DEF ChargeOf
<1> QED
    BY <1>1, <1>2, ChargedIs

\* A note without finalized nullifiers is charged nothing.
LEMMA ChargedNothing ==
    ASSUME NEW x, NEW ns, \A n \in ns : Finalized(n) => n[1] # x
    PROVE  Charged(x, ns) = 0
<1>1. Spent(x, ns) = {}
    BY DEF Spent
<1> QED
    BY <1>1, ChargedIs, SumEmpty

\* There are finitely many nullifiers, so the charges have a sum.
LEMMA NullifiersFinite == IsFiniteSet(Nullifiers)
<1>1. IsFiniteSet(Anchors \cup {Genesis})
    BY ServiceAssumption, FS_AddElement
<1> QED
    BY <1>1, ServiceAssumption, FS_Product DEF Nullifiers

\* A finalized nullifier adds its charge to those of the others.
LEMMA ChargedWith ==
    ASSUME NEW n \in Nullifiers, Finalized(n),
           \A k \in Nullifiers : Finalized(k) => ledger[k].charge \in Nat
    PROVE  /\ Charged(n[1], Nullifiers)
                 = Charged(n[1], Nullifiers \ {n}) + ledger[n].charge
           /\ Charged(n[1], Nullifiers \ {n}) \in Int
<1> DEFINE x == n[1]
           S == Spent(x, Nullifiers)
           g == ChargeOf(x, Nullifiers)
           h == ChargeOf(x, Nullifiers \ {n})
<1>1. IsFiniteSet(S)
    BY NullifiersFinite, FS_Subset DEF Spent
<1>2. n \in S /\ S \ {n} = Spent(x, Nullifiers \ {n})
    BY DEF Spent
<1>3. \A m \in S : g[m] = ledger[m].charge /\ g[m] \in Int
    BY DEF Spent, ChargeOf
<1>4. \A m \in S \ {n} : h[m] = g[m] /\ h[m] \in Int
    BY <1>2, <1>3 DEF ChargeOf
<1>5. IsFiniteSet(S \ {n})
    BY <1>1, FS_RemoveElement
<1> HIDE DEF S, g, h
<1>6. /\ SumFunctionOnSet(g, S) = SumFunctionOnSet(g, S \ {n}) + g[n]
      /\ SumFunctionOnSet(g, S \ {n}) \in Int
    BY <1>1, <1>2, <1>3, SumSplit
<1>7. SumFunctionOnSet(h, S \ {n}) = SumFunctionOnSet(g, S \ {n})
    BY <1>4, <1>5, SumSame
<1>8. /\ Charged(x, Nullifiers) = SumFunctionOnSet(g, S)
      /\ Charged(x, Nullifiers \ {n}) = SumFunctionOnSet(h, S \ {n})
    BY <1>2, ChargedIs DEF S, g, h
<1> QED
    BY <1>2, <1>3, <1>6, <1>7, <1>8

\* The sum of a note whose last state is n moves with n: the charge under n
\* counts once its successor is the last state.
LEMMA ChargedMovesOn ==
    ASSUME NEW J, ServiceInv(J), NEW n \in Nullifiers,
           NEW c \in BoundCommitment, LastState(n, c, J), Finalized(n),
           NEW s, s = <<n[1], ledger[n].nextAnchor>>
    PROVE  /\ Charged(n[1], Nullifiers \ {s})
                 = Charged(n[1], Nullifiers \ {n}) + ledger[n].charge
           /\ Charged(n[1], Nullifiers \ {n}) \in Int
           /\ ledger[n].charge \in Nat
<1>1. ~Finalized(s)
    BY SuccessorIsLast DEF Fresh, Finalized
<1>2. Charged(n[1], Nullifiers \ {s}) = Charged(n[1], Nullifiers)
    BY <1>1, ChargedWithout
<1>3. \A k \in Nullifiers : Finalized(k) => ledger[k].charge \in Nat
    BY EntryTyped DEF ServiceInv, Finalized
<1> QED
    BY <1>2, <1>3, ChargedWith

\* A step of the server: everything stays, and a charge goes to no state but
\* the last one and to no note that is cleared.
LEMMA ServerKeeps ==
    ASSUME NEW J, ServiceInv(J), ServiceStep(ServerUpdate), UNCHANGED used
    PROVE  /\ ServiceInv(J)'
           /\ LastStatesStay(J)
           /\ LedgerGrows
           /\ \A n \in Nullifiers, c \in BoundCommitment :
                 LastState(n, c, J) =>
                    Charged(n[1], Nullifiers \ {n})'
                       = Charged(n[1], Nullifiers \ {n})
           /\ \A n \in Nullifiers : Cleared(n) =>
                 /\ Cleared(n)'
                 /\ Charged(n[1], Nullifiers)' = Charged(n[1], Nullifiers)
<1>1. ASSUME NEW r \in posted, ServerReserve(r)
      PROVE  /\ ServiceInv(J)' /\ LastStatesStay(J) /\ LedgerGrows
             /\ \A k \in Nullifiers : Finalized(k)' => Finalized(k)
             /\ \A k \in Nullifiers : Cleared(k) => Cleared(k)'
    BY <1>1, ReserveKeeps
<1>2. ASSUME NEW r \in posted, ServerRejectStale(r)
      PROVE  /\ ServiceInv(J)' /\ LastStatesStay(J) /\ LedgerGrows
             /\ \A k \in Nullifiers : Finalized(k)' => Finalized(k)
             /\ \A k \in Nullifiers : Cleared(k) => Cleared(k)'
    <2>1. ServiceInv(J)' /\ LastStatesStay(J)
        BY <1>2, RejectKeeps
    <2>2. ledger' = ledger
        BY <1>2 DEF ServerRejectStale
    <2> QED
        BY <2>1, <2>2 DEF LedgerGrows, Finalized, Cleared
<1>3. ASSUME NEW q \in Nullifiers, NEW charge \in Charges,
             NEW anchor \in Anchors,
             ServerFinalize(q, charge, anchor,
                 ServerUpdate(ledger[q].commitment, charge, ServerTerm(q)))
      PROVE  /\ ServiceInv(J)' /\ LastStatesStay(J) /\ LedgerGrows
             /\ Chargeable(q, J)
             /\ \A k \in Nullifiers \ {q} : Finalized(k)' => Finalized(k)
             /\ \A k \in Nullifiers : Cleared(k) => Cleared(k)'
    <2>1. /\ ServiceInv(J)' /\ LastStatesStay(J) /\ LedgerGrows
          /\ ledger[q] # None /\ ledger[q].status = "Reserved"
          /\ \A k \in Nullifiers \ {q} : ledger'[k] = ledger[k]
        BY <1>3, FinalizeKeeps
    <2> QED
        BY <2>1 DEF Chargeable, Finalized, Cleared
<1>4. ASSUME LedgerGrows,
             \A k \in Nullifiers : Finalized(k)' => Finalized(k)
      PROVE  \A x, ns : ns \subseteq Nullifiers =>
                Charged(x, ns)' = Charged(x, ns)
    BY <1>4, ChargedSame
<1>5. ASSUME NEW q \in Nullifiers, LedgerGrows, Chargeable(q, J),
             \A k \in Nullifiers \ {q} : Finalized(k)' => Finalized(k)
      PROVE  /\ \A n \in Nullifiers, c \in BoundCommitment :
                   LastState(n, c, J) =>
                      Charged(n[1], Nullifiers \ {n})'
                         = Charged(n[1], Nullifiers \ {n})
             /\ \A n \in Nullifiers : Cleared(n) =>
                   Charged(n[1], Nullifiers)' = Charged(n[1], Nullifiers)
    <2>1. ASSUME NEW n \in Nullifiers, NEW c \in BoundCommitment,
                 LastState(n, c, J)
          PROVE  Charged(n[1], Nullifiers \ {n})'
                    = Charged(n[1], Nullifiers \ {n})
        <3>1. \A k \in Nullifiers \ {n} :
                 k[1] = n[1] /\ Finalized(k)' => Finalized(k)
            BY <1>5, <2>1 DEF LastState
        <3> QED
            BY <1>5, <3>1, ChargedSame
    <2>2. ASSUME NEW n \in Nullifiers, Cleared(n)
          PROVE  Charged(n[1], Nullifiers)' = Charged(n[1], Nullifiers)
        <3>1. \A k \in Nullifiers :
                 k[1] = n[1] /\ Finalized(k)' => Finalized(k)
            BY <1>5, <2>2 DEF ServiceInv, ClearedSound
        <3> QED
            BY <1>5, <3>1, ChargedSame
    <2> QED
        BY <2>1, <2>2
<1>6. CASE \E r \in posted : ServerReserve(r)
    BY <1>1, <1>4, <1>6
<1>7. CASE \E r \in posted : ServerRejectStale(r)
    BY <1>2, <1>4, <1>7
<1>8. CASE \E q \in Nullifiers, charge \in Charges, anchor \in Anchors :
             ServerFinalize(q, charge, anchor,
                 ServerUpdate(ledger[q].commitment, charge, ServerTerm(q)))
    BY <1>3, <1>5, <1>8
<1> QED
    BY <1>6, <1>7, <1>8 DEF ServiceStep

=============================================================================

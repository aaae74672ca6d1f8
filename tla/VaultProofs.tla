----------------------------- MODULE VaultProofs -----------------------------
(***************************************************************************)
(* The vault, and the two compositions around it.                          *)
(*                                                                         *)
(* Alone: for every number of notes, every clock range, every set of       *)
(* amounts, nullifiers and accounts, and every proof adapter, the vault's  *)
(* safety invariants hold in all reachable states.                         *)
(*                                                                         *)
(* With circuits, server and watcher (Settlement): for every number of     *)
(* notes, deposits, charges and anchors, whatever states users prove and   *)
(* however they order their exits, a note is settled at its deposit less   *)
(* what was charged.                                                       *)
(*                                                                         *)
(* With the indexer that replays its events (TreeMirror): for trees of     *)
(* every depth, the mirror that has read all events holds the vault's      *)
(* tree, however far it lags a path is accepted only if it leads to the    *)
(* right new root, and the vault in the composition is still the vault, so *)
(* that whatever is proved of the vault holds there.                       *)
(***************************************************************************)
EXTENDS Settlement, TreeMirror, SumProofs

-----------------------------------------------------------------------------
(* The vault.                                                              *)

\* A nullifier that was paid or challenged is burned.
OutcomesBurned == paidNullifiers \cup challenged \subseteq usedNullifiers

\* The inductive invariant.  TypeOK alone is not inductive: the operator's
\* share is a natural number only because a pending record promises at most
\* the deposit (PendingSound).  PaidExactlyOnce needs PendingSound for the
\* same reason, PendingSound needs OutcomesBurned to know that a nullifier
\* consumed now has no outcome yet, and ChallengedNeverPaid needs that the
\* nullifier of a pending record has none (PendingSound again).
IInv ==
    /\ TypeOK
    /\ TreeMatchesNotes
    /\ IdsInOrder
    /\ PendingSound
    /\ OutcomesBurned
    /\ ChallengedNeverPaid
    /\ PaidExactlyOnce

\* Shares are natural numbers.
LEMMA ShareNat == ASSUME NEW x \in Amounts \cup {0} PROVE x \in Nat
  <1>1. CASE x = 0
    BY <1>1
  <1>2. CASE x \in Amounts
    BY <1>2, DataAssumption
  <1>3. QED
    BY <1>1, <1>2

\* A path that proves a leaf is a view of the current tree outside its slot:
\* updating through it changes that slot and nothing else.
LEMMA UpdateThroughPath ==
    ASSUME NEW id \in NoteIds, NEW old, NEW new, NEW s \in Trees,
           currentRoot \in Trees,
           VerifyAndUpdate(id, old, new, s)
    PROVE  /\ currentRoot[id] = old
           /\ currentRoot' = [currentRoot EXCEPT ![id] = new]
  BY DEF VerifyAndUpdate, ComputeRoot, Trees

\* The trees callers take paths from are trees.
LEMMA ViewsAreTrees ==
    ASSUME TypeOK, NEW s \in TreeViews
    PROVE  s \in Trees
  BY DEF TypeOK, TreeViews, EmptyTreeRoot, Trees

\* The bucketed expiry is a natural number.
LEMMA ExpiryNat ==
    ASSUME TypeOK
    PROVE  BucketedExpiry \in Nat
  BY BoundsAssumption DEF TypeOK, BucketedExpiry

\* The constructor establishes the invariant.
LEMMA InitIInv == Init => IInv
  <1> SUFFICES ASSUME Init PROVE IInv
    OBVIOUS
  <1> USE BoundsAssumption, DataAssumption DEF Init
  <1>1. 0 \in NoteIds
    BY DEF NoteIds
  <1>2. EmptyTreeRoot \in Trees
    BY DEF EmptyTreeRoot, Trees
  <1>3. NoPending \in PendingData
    BY <1>2 DEF NoPending, PendingData
  <1>4. NoNote \in Note
    BY DEF NoNote, Note, NoteStatus
  <1>5. TypeOK
    <2>1. paused \in BOOLEAN
      OBVIOUS
    <2>2. now \in 0 .. MaxTimestamp
      OBVIOUS
    <2>3. paidOut \in [NoteIds -> [user : Nat, operator : Nat]]
      OBVIOUS
    <2>4. notes \in [NoteIds -> Note]
      BY <1>4
    <2>5. pendingWithdrawals \in [NoteIds -> PendingData]
      BY <1>3
    <2>6. QED
      BY <1>1, <1>2, <2>1, <2>2, <2>3, <2>4, <2>5 DEF TypeOK
  <1>6. TreeMatchesNotes
    BY DEF TreeMatchesNotes, EmptyTreeRoot, NoNote
  <1>7. IdsInOrder
    BY DEF IdsInOrder, NoteIds
  <1>8. PendingSound
    BY DEF PendingSound, NoNote
  <1>9. PaidExactlyOnce
    BY DEF PaidExactlyOnce, NoNote
  <1>10. QED
    BY <1>5, <1>6, <1>7, <1>8, <1>9 DEF IInv, OutcomesBurned, ChallengedNeverPaid

\* deposit: the new leaf goes into the slot of an id never used before.
LEMMA DepositIInv ==
    ASSUME IInv, NEW c \in Commitments, NEW a \in Amounts, NEW v \in Values,
           NEW s \in TreeViews, Deposit(c, a, v, s)
    PROVE  IInv'
  <1> USE BoundsAssumption, DataAssumption
  <1> DEFINE leaf == ComputeLeaf(nextNoteId, c, a, BucketedExpiry)
             note == [commitment |-> c, depositAmount |-> a,
                      expiryTs |-> BucketedExpiry, status |-> "Active"]
  <1>1. /\ TypeOK /\ TreeMatchesNotes /\ IdsInOrder /\ PendingSound
        /\ OutcomesBurned /\ ChallengedNeverPaid /\ PaidExactlyOnce
    BY DEF IInv
  <1>2. s \in Trees
    BY <1>1, ViewsAreTrees
  <1>3. /\ nextNoteId \in NoteIds /\ nextNoteId + 1 \in NoteIds
        /\ notes[nextNoteId] = NoNote
        /\ BucketedExpiry \in Nat
        /\ a \in Nat /\ a # 0 /\ c \in Nat
        /\ BucketedExpiry <= MaxTimestamp
    BY <1>1, ExpiryNat DEF Deposit, NoteIdLeft, TypeOK, NoteIds, IdsInOrder, FitsTimestamp
  <1>4. currentRoot' = [currentRoot EXCEPT ![nextNoteId] = leaf]
    BY <1>1, <1>2, <1>3, UpdateThroughPath DEF Deposit, TypeOK
  <1>5. notes' = [notes EXCEPT ![nextNoteId] = note]
    BY DEF Deposit
  <1>6. note \in Note
    BY <1>3 DEF Note, NoteStatus
  <1>7. leaf \in NoteIds \X Nat \X Nat \X Nat
    BY <1>3 DEF ComputeLeaf
  <1>8. v \in Nat
    BY DEF Values, UnitValue
  <1>9. TypeOK'
    <2>1. currentRoot' \in Trees
      BY <1>1, <1>3, <1>4, <1>7 DEF TypeOK, Trees
    <2>2. notes' \in [NoteIds -> Note]
      BY <1>1, <1>5, <1>6 DEF TypeOK
    <2>3. vaultBalance' \in Nat
      BY <1>1, <1>3, <1>8 DEF Deposit, TypeOK
    <2>4. QED
      BY <1>1, <1>3, <2>1, <2>2, <2>3 DEF TypeOK, Deposit, historyVars
  <1>10. TreeMatchesNotes'
    BY <1>1, <1>3, <1>4, <1>5 DEF TreeMatchesNotes, TypeOK, Trees, Leaf, ComputeLeaf
  <1>11. IdsInOrder'
    BY <1>1, <1>3, <1>5 DEF IdsInOrder, TypeOK, NoteIds, Deposit
  <1>12. PendingSound'
    BY <1>1, <1>3, <1>5 DEF PendingSound, TypeOK, Deposit, historyVars, NoNote
  <1>13. PaidExactlyOnce'
    BY <1>1, <1>3, <1>5 DEF PaidExactlyOnce, TypeOK, Deposit, historyVars, NoNote
  <1>14. QED
    BY <1>1, <1>9, <1>10, <1>11, <1>12, <1>13
       DEF IInv, OutcomesBurned, ChallengedNeverPaid, Deposit, historyVars

\* A payment of two natural shares keeps the money variables well typed and
\* adds exactly these shares to one note.
LEMMA PayTyped ==
    ASSUME TypeOK, NEW id \in NoteIds, NEW to, NEW x \in Nat, NEW y \in Nat,
           Pay(id, to, x, y)
    PROVE  /\ vaultBalance' \in Nat
           /\ paidOut' \in [NoteIds -> [user : Nat, operator : Nat]]
           /\ paidOut'[id].user = paidOut[id].user + x
           /\ paidOut'[id].operator = paidOut[id].operator + y
           /\ \A other \in NoteIds \ {id} : paidOut'[other] = paidOut[other]
  <1> USE BoundsAssumption
  <1>1. /\ UnitValue \in Nat
        /\ (x + y) * UnitValue \in Nat
    BY DEF UnitValue
  <1>2. vaultBalance' \in Nat
    BY <1>1 DEF Pay, TypeOK
  <1>3. paidOut[id] \in [user : Nat, operator : Nat]
    BY DEF TypeOK
  <1>4. DEFINE q == [paidOut[id] EXCEPT !.user = paidOut[id].user + x]
               r == [q EXCEPT !.operator = q.operator + y]
  <1>4a. /\ q \in [user : Nat, operator : Nat]
        /\ q.user = paidOut[id].user + x
        /\ q.operator = paidOut[id].operator
    BY <1>3
  <1> HIDE DEF q
  <1>5. /\ r \in [user : Nat, operator : Nat]
        /\ r.user = paidOut[id].user + x
        /\ r.operator = paidOut[id].operator + y
    BY <1>4a
  <1> USE DEF q
  <1>6. /\ paidOut'[id] = r
        /\ DOMAIN paidOut' = NoteIds
        /\ \A other \in NoteIds \ {id} : paidOut'[other] = paidOut[other]
    BY DEF Pay, TypeOK
  <1>7. paidOut' \in [NoteIds -> [user : Nat, operator : Nat]]
    BY <1>5, <1>6 DEF Pay, TypeOK
  <1>8. QED
    BY <1>2, <1>5, <1>6, <1>7

\* A status change touches one field of one note.
LEMMA StatusTyped ==
    ASSUME TypeOK, NEW id \in NoteIds, NEW st \in NoteStatus, SetStatus(id, st)
    PROVE  /\ notes' \in [NoteIds -> Note]
           /\ notes'[id].status = st
           /\ notes'[id].commitment = notes[id].commitment
           /\ notes'[id].depositAmount = notes[id].depositAmount
           /\ notes'[id].expiryTs = notes[id].expiryTs
           /\ \A other \in NoteIds \ {id} : notes'[other] = notes[other]
  <1>1. notes[id] \in Note
    BY DEF TypeOK
  <1>2. DEFINE r == [notes[id] EXCEPT !.status = st]
  <1>3. /\ r \in Note
        /\ r.status = st
        /\ r.commitment = notes[id].commitment
        /\ r.depositAmount = notes[id].depositAmount
        /\ r.expiryTs = notes[id].expiryTs
    BY <1>1 DEF Note
  <1>4. notes' = [notes EXCEPT ![id] = r]
    BY DEF SetStatus
  <1>5. QED
    BY <1>3, <1>4 DEF TypeOK

\* Removing the leaf of an Active note while its status leaves Active keeps
\* the tree and the notes in step.
LEMMA RemoveKeepsTree ==
    ASSUME TypeOK, TreeMatchesNotes, NEW id \in NoteIds,
           NEW st \in NoteStatus \ {"Active"}, NEW s \in TreeViews,
           RemoveLeaf(id, s), SetStatus(id, st)
    PROVE  TreeMatchesNotes' /\ currentRoot' \in Trees
  <1>1. s \in Trees
    BY ViewsAreTrees
  <1>2. currentRoot' = [currentRoot EXCEPT ![id] = ZeroLeaf]
    BY <1>1, UpdateThroughPath DEF RemoveLeaf, TypeOK
  <1>3. QED
    BY <1>2, StatusTyped DEF TreeMatchesNotes, TypeOK, Trees, Leaf

\* Ids stay in order under a status change of a deposited note.
LEMMA StatusKeepsIds ==
    ASSUME TypeOK, IdsInOrder, NEW id \in NoteIds,
           NEW st \in NoteStatus \ {"Uninitialized"}, SetStatus(id, st),
           notes[id].status # "Uninitialized", UNCHANGED nextNoteId
    PROVE  IdsInOrder'
  <1>1. id < nextNoteId
    BY DEF IdsInOrder, NoNote
  <1>2. QED
    BY <1>1, StatusTyped DEF IdsInOrder

\* What an accepted withdrawal proof tells about the note it closes.
LEMMA AcceptFacts ==
    ASSUME TypeOK, NEW w \in WithdrawalInputs(TreeViews), AcceptWithdrawal(w)
    PROVE  /\ w.noteId \in NoteIds
           /\ w.finalBalance \in Amounts
           /\ w.finalBalance \in Nat
           /\ w.withdrawalNullifier \in Nullifiers \ usedNullifiers
           /\ w.destination \in Addresses
           /\ notes[w.noteId].status = "Active"
           /\ OperatorShare(w.noteId, w.finalBalance) \in Nat
           /\ w.finalBalance <= notes[w.noteId].depositAmount
           /\ usedNullifiers' = usedNullifiers \cup {w.withdrawalNullifier}
  <1>1. /\ w.noteId \in NoteIds
        /\ w.finalBalance \in Amounts
        /\ w.finalBalance \in Nat
        /\ w.withdrawalNullifier \in Nullifiers
        /\ w.destination \in Addresses
    BY DataAssumption DEF WithdrawalInputs
  <1>2. notes[w.noteId].depositAmount \in Nat
    BY <1>1 DEF TypeOK, Note
  <1>3. QED
    BY <1>1, <1>2 DEF AcceptWithdrawal, ConsumeNullifier, OperatorShare

\* mutualClose: the note leaves the tree and pays both shares at once.
LEMMA MutualCloseIInv ==
    ASSUME IInv, NEW w \in WithdrawalInputs(TreeViews), NEW s \in TreeViews,
           MutualClose(w, s)
    PROVE  IInv'
  <1> DEFINE id == w.noteId
             share == OperatorShare(id, w.finalBalance)
             n == w.withdrawalNullifier
  <1>1. /\ TypeOK /\ TreeMatchesNotes /\ IdsInOrder /\ PendingSound
        /\ OutcomesBurned /\ ChallengedNeverPaid /\ PaidExactlyOnce
    BY DEF IInv
  <1>2. /\ id \in NoteIds /\ n \in Nullifiers \ usedNullifiers
        /\ w.finalBalance \in Nat /\ share \in Nat
        /\ notes[id].status = "Active"
        /\ usedNullifiers' = usedNullifiers \cup {n}
    BY <1>1, AcceptFacts DEF MutualClose
  <1>3. /\ SetStatus(id, "Closed") /\ RemoveLeaf(id, s)
        /\ Pay(id, w.destination, w.finalBalance, share)
        /\ paidNullifiers' = paidNullifiers \cup {n}
        /\ UNCHANGED <<treasury, paused, nextNoteId, pendingWithdrawals, now,
                       challenged>>
    BY DEF MutualClose
  <1>4. "Closed" \in NoteStatus \ {"Active", "Uninitialized"}
    BY DEF NoteStatus
  <1>5. TreeMatchesNotes' /\ currentRoot' \in Trees
    BY <1>1, <1>2, <1>3, <1>4, RemoveKeepsTree
  <1>6. /\ notes' \in [NoteIds -> Note]
        /\ notes'[id].status = "Closed"
        /\ notes'[id].depositAmount = notes[id].depositAmount
        /\ \A other \in NoteIds \ {id} : notes'[other] = notes[other]
    BY <1>1, <1>2, <1>3, <1>4, StatusTyped
  <1>7. /\ vaultBalance' \in Nat
        /\ paidOut' \in [NoteIds -> [user : Nat, operator : Nat]]
        /\ paidOut'[id].user = paidOut[id].user + w.finalBalance
        /\ paidOut'[id].operator = paidOut[id].operator + share
        /\ \A other \in NoteIds \ {id} : paidOut'[other] = paidOut[other]
    BY <1>1, <1>2, <1>3, PayTyped
  <1>8. TypeOK'
    BY <1>1, <1>2, <1>3, <1>5, <1>6, <1>7 DEF TypeOK
  <1>9. IdsInOrder'
    BY <1>1, <1>2, <1>3, <1>4, StatusKeepsIds
  <1>10. PendingSound'
    BY <1>1, <1>2, <1>3, <1>6 DEF PendingSound, TypeOK
  <1>11. OutcomesBurned' /\ ChallengedNeverPaid'
    BY <1>1, <1>2, <1>3 DEF OutcomesBurned, ChallengedNeverPaid
  <1>12. PaidExactlyOnce'
    <2>1. /\ paidOut[id].user \in Nat /\ paidOut[id].operator \in Nat
          /\ paidOut[id].user + paidOut[id].operator = 0
          /\ notes[id].depositAmount \in Nat
      BY <1>1, <1>2 DEF TypeOK, PaidExactlyOnce, Note
    <2>2. paidOut'[id].user + paidOut'[id].operator = notes[id].depositAmount
      BY <1>2, <1>7, <2>1 DEF OperatorShare
    <2>3. QED
      BY <1>1, <1>2, <1>6, <1>7, <2>2 DEF PaidExactlyOnce
  <1>13. QED
    BY <1>5, <1>8, <1>9, <1>10, <1>11, <1>12 DEF IInv

\* initiateEscapeWithdrawal: the note is frozen under a fresh nullifier.
LEMMA InitiateIInv ==
    ASSUME IInv, NEW w \in WithdrawalInputs(TreeViews), NEW s \in TreeViews,
           InitiateEscapeWithdrawal(w, s)
    PROVE  IInv'
  <1> USE BoundsAssumption, PeriodAssumption
  <1> DEFINE id == w.noteId
             n == w.withdrawalNullifier
             p == [exists |-> TRUE, activeRoot |-> currentRoot,
                   withdrawalNullifier |-> n,
                   finalBalance |-> w.finalBalance,
                   destination |-> w.destination,
                   challengeDeadline |-> now + ChallengePeriod]
  <1>1. /\ TypeOK /\ TreeMatchesNotes /\ IdsInOrder /\ PendingSound
        /\ OutcomesBurned /\ ChallengedNeverPaid /\ PaidExactlyOnce
    BY DEF IInv
  <1>2. /\ id \in NoteIds /\ n \in Nullifiers \ usedNullifiers
        /\ w.finalBalance \in Amounts /\ w.destination \in Addresses
        /\ w.finalBalance <= notes[id].depositAmount
        /\ notes[id].status = "Active"
        /\ usedNullifiers' = usedNullifiers \cup {n}
    BY <1>1, AcceptFacts DEF InitiateEscapeWithdrawal
  <1>3. /\ SetStatus(id, "PendingWithdrawal") /\ RemoveLeaf(id, s)
        /\ pendingWithdrawals' = [pendingWithdrawals EXCEPT ![id] = p]
        /\ now + ChallengePeriod <= MaxTimestamp
        /\ UNCHANGED <<treasury, paused, nextNoteId, vaultBalance, now,
                       paidOut, paidNullifiers, challenged>>
    BY DEF InitiateEscapeWithdrawal, historyVars, FitsTimestamp
  <1>4. "PendingWithdrawal" \in NoteStatus \ {"Active", "Uninitialized"}
    BY DEF NoteStatus
  <1>5. TreeMatchesNotes' /\ currentRoot' \in Trees
    BY <1>1, <1>2, <1>3, <1>4, RemoveKeepsTree
  <1>6. /\ notes' \in [NoteIds -> Note]
        /\ notes'[id].status = "PendingWithdrawal"
        /\ notes'[id].depositAmount = notes[id].depositAmount
        /\ \A other \in NoteIds \ {id} : notes'[other] = notes[other]
    BY <1>1, <1>2, <1>3, <1>4, StatusTyped
  <1>7. p \in PendingData
    BY <1>1, <1>2 DEF PendingData, TypeOK
  <1>8. TypeOK'
    <2>1. pendingWithdrawals' \in [NoteIds -> PendingData]
      BY <1>1, <1>3, <1>7 DEF TypeOK
    <2>2. QED
      BY <1>1, <1>2, <1>3, <1>5, <1>6, <2>1 DEF TypeOK
  <1>9. IdsInOrder'
    BY <1>1, <1>2, <1>3, <1>4, StatusKeepsIds
  <1>10. PendingSound'
    <2>1. \A other \in NoteIds \ {id} :
             /\ pendingWithdrawals'[other] = pendingWithdrawals[other]
             /\ pendingWithdrawals[other].withdrawalNullifier # n
      BY <1>1, <1>2, <1>3, NullifierAssumption DEF TypeOK, PendingSound, NoPending
    <2>2. pendingWithdrawals'[id] = p
      BY <1>1, <1>2, <1>3 DEF TypeOK
    <2>3. n \in usedNullifiers' \ (paidNullifiers' \cup challenged')
      BY <1>1, <1>2, <1>3 DEF OutcomesBurned
    <2>4. QED
      BY <1>1, <1>2, <1>3, <1>6, <2>1, <2>2, <2>3 DEF PendingSound, TypeOK
  <1>11. OutcomesBurned' /\ ChallengedNeverPaid'
    BY <1>1, <1>2, <1>3 DEF OutcomesBurned, ChallengedNeverPaid
  <1>12. PaidExactlyOnce'
    BY <1>1, <1>2, <1>3, <1>6 DEF PaidExactlyOnce
  <1>13. QED
    BY <1>5, <1>8, <1>9, <1>10, <1>11, <1>12 DEF IInv

\* Deleting a pending record leaves the others alone.
LEMMA DeleteTyped ==
    ASSUME TypeOK, NEW id \in NoteIds, DeletePending(id)
    PROVE  /\ pendingWithdrawals' \in [NoteIds -> PendingData]
           /\ pendingWithdrawals'[id] = NoPending
           /\ \A other \in NoteIds \ {id} :
                pendingWithdrawals'[other] = pendingWithdrawals[other]
  <1>1. EmptyTreeRoot \in Trees
    BY DEF EmptyTreeRoot, Trees
  <1>2. NoPending \in PendingData
    BY <1>1, DataAssumption DEF NoPending, PendingData
  <1>3. QED
    BY <1>2 DEF DeletePending, TypeOK

\* challengeEscapeWithdrawal: the original leaf comes back, the nullifier
\* stays burned.
LEMMA ChallengeIInv ==
    ASSUME IInv, NEW id \in NoteIds, NEW r,
           NEW s \in TreeViews, ChallengeEscapeWithdrawal(id, r, s)
    PROVE  IInv'
  <1> DEFINE n == pendingWithdrawals[id].withdrawalNullifier
  <1>1. /\ TypeOK /\ TreeMatchesNotes /\ IdsInOrder /\ PendingSound
        /\ OutcomesBurned /\ ChallengedNeverPaid /\ PaidExactlyOnce
    BY DEF IInv
  <1>2. /\ notes[id].status = "PendingWithdrawal"
        /\ SetStatus(id, "Active") /\ DeletePending(id) /\ RestoreLeaf(id, s)
        /\ challenged' = challenged \cup {n}
        /\ UNCHANGED <<treasury, paused, nextNoteId, usedNullifiers,
                       vaultBalance, now, paidOut, paidNullifiers>>
    BY DEF ChallengeEscapeWithdrawal, IsPending
  <1>3. /\ n \in usedNullifiers \ (paidNullifiers \cup challenged)
        /\ \A other \in NoteIds \ {id} :
             pendingWithdrawals[other].withdrawalNullifier # n
    BY <1>1, <1>2 DEF PendingSound
  <1>4. "Active" \in NoteStatus \ {"Uninitialized"}
    BY DEF NoteStatus
  <1>5. /\ notes' \in [NoteIds -> Note]
        /\ notes'[id].status = "Active"
        /\ notes'[id].commitment = notes[id].commitment
        /\ notes'[id].depositAmount = notes[id].depositAmount
        /\ notes'[id].expiryTs = notes[id].expiryTs
        /\ \A other \in NoteIds \ {id} : notes'[other] = notes[other]
    BY <1>1, <1>2, <1>4, StatusTyped
  <1>6. /\ pendingWithdrawals' \in [NoteIds -> PendingData]
        /\ pendingWithdrawals'[id] = NoPending
        /\ \A other \in NoteIds \ {id} :
             pendingWithdrawals'[other] = pendingWithdrawals[other]
    BY <1>1, <1>2, DeleteTyped
  <1>7. currentRoot' = [currentRoot EXCEPT ![id] = Leaf(id, notes[id])]
    BY <1>1, <1>2, ViewsAreTrees, UpdateThroughPath DEF RestoreLeaf, TypeOK
  <1>8. Leaf(id, notes[id]) \in NoteIds \X Nat \X Nat \X Nat
    BY <1>1 DEF TypeOK, Note, Leaf, ComputeLeaf
  <1>9. currentRoot' \in Trees
    BY <1>1, <1>7, <1>8 DEF TypeOK, Trees
  <1>10. TypeOK'
    BY <1>1, <1>2, <1>3, <1>5, <1>6, <1>9 DEF TypeOK
  <1>11. TreeMatchesNotes'
    <2>1. Leaf(id, notes[id]) = Leaf(id, notes'[id])
      BY <1>5 DEF Leaf
    <2>2. QED
      BY <1>1, <1>5, <1>7, <2>1 DEF TreeMatchesNotes, TypeOK, Trees
  <1>12. IdsInOrder'
    BY <1>1, <1>2, <1>4, StatusKeepsIds
  <1>13. PendingSound'
    <2>1. NoPending.withdrawalNullifier \notin Nullifiers
      BY NullifierAssumption DEF NoPending
    <2>2. QED
      BY <1>1, <1>2, <1>3, <1>5, <1>6, <2>1 DEF PendingSound, TypeOK
  <1>14. OutcomesBurned' /\ ChallengedNeverPaid'
    BY <1>1, <1>2, <1>3 DEF OutcomesBurned, ChallengedNeverPaid
  <1>15. PaidExactlyOnce'
    BY <1>1, <1>2, <1>5 DEF PaidExactlyOnce
  <1>16. QED
    BY <1>10, <1>11, <1>12, <1>13, <1>14, <1>15 DEF IInv

\* finalizeEscapeWithdrawal: the leaf is already gone; the announced shares
\* are paid and the record is deleted.
LEMMA FinalizeIInv ==
    ASSUME IInv, NEW id \in NoteIds, FinalizeEscapeWithdrawal(id)
    PROVE  IInv'
  <1> DEFINE n == pendingWithdrawals[id].withdrawalNullifier
             final == pendingWithdrawals[id].finalBalance
             share == OperatorShare(id, final)
  <1>1. /\ TypeOK /\ TreeMatchesNotes /\ IdsInOrder /\ PendingSound
        /\ OutcomesBurned /\ ChallengedNeverPaid /\ PaidExactlyOnce
    BY DEF IInv
  <1>2. /\ notes[id].status = "PendingWithdrawal"
        /\ SetStatus(id, "Closed") /\ DeletePending(id)
        /\ Pay(id, pendingWithdrawals[id].destination, final, share)
        /\ paidNullifiers' = paidNullifiers \cup {n}
        /\ UNCHANGED <<treasury, paused, currentRoot, nextNoteId,
                       usedNullifiers, now, challenged>>
    BY DEF FinalizeEscapeWithdrawal, IsPending
  <1>3. /\ n \in usedNullifiers \ (paidNullifiers \cup challenged)
        /\ final <= notes[id].depositAmount
        /\ \A other \in NoteIds \ {id} :
             pendingWithdrawals[other].withdrawalNullifier # n
    BY <1>1, <1>2 DEF PendingSound
  <1>4. /\ final \in Nat /\ notes[id].depositAmount \in Nat
    <2>1. final \in Amounts \cup {0}
      BY <1>1 DEF TypeOK, PendingData
    <2>2. final \in Nat
      BY <2>1, ShareNat
    <2>3. QED
      BY <1>1, <2>2 DEF TypeOK, Note
  <1>5. share \in Nat
    BY <1>3, <1>4 DEF OperatorShare
  <1>6. "Closed" \in NoteStatus \ {"Active", "Uninitialized"}
    BY DEF NoteStatus
  <1>7. /\ notes' \in [NoteIds -> Note]
        /\ notes'[id].status = "Closed"
        /\ notes'[id].depositAmount = notes[id].depositAmount
        /\ \A other \in NoteIds \ {id} : notes'[other] = notes[other]
    BY <1>1, <1>2, <1>6, StatusTyped
  <1>8. /\ pendingWithdrawals' \in [NoteIds -> PendingData]
        /\ pendingWithdrawals'[id] = NoPending
        /\ \A other \in NoteIds \ {id} :
             pendingWithdrawals'[other] = pendingWithdrawals[other]
    BY <1>1, <1>2, DeleteTyped
  <1>9. /\ vaultBalance' \in Nat
        /\ paidOut' \in [NoteIds -> [user : Nat, operator : Nat]]
        /\ paidOut'[id].user = paidOut[id].user + final
        /\ paidOut'[id].operator = paidOut[id].operator + share
        /\ \A other \in NoteIds \ {id} : paidOut'[other] = paidOut[other]
    BY <1>1, <1>2, <1>4, <1>5, PayTyped
  <1>10. TypeOK'
    BY <1>1, <1>2, <1>3, <1>7, <1>8, <1>9 DEF TypeOK
  <1>11. TreeMatchesNotes'
    BY <1>1, <1>2, <1>7 DEF TreeMatchesNotes
  <1>12. IdsInOrder'
    BY <1>1, <1>2, <1>6, StatusKeepsIds
  <1>13. PendingSound'
    <2>1. NoPending.withdrawalNullifier \notin Nullifiers
      BY NullifierAssumption DEF NoPending
    <2>2. QED
      BY <1>1, <1>2, <1>3, <1>7, <1>8, <2>1 DEF PendingSound, TypeOK
  <1>14. OutcomesBurned' /\ ChallengedNeverPaid'
    BY <1>1, <1>2, <1>3 DEF OutcomesBurned, ChallengedNeverPaid
  <1>15. PaidExactlyOnce'
    <2>1. /\ paidOut[id].user \in Nat /\ paidOut[id].operator \in Nat
          /\ paidOut[id].user + paidOut[id].operator = 0
      BY <1>1, <1>2 DEF TypeOK, PaidExactlyOnce
    <2>2. paidOut'[id].user + paidOut'[id].operator = notes[id].depositAmount
      BY <1>4, <1>9, <2>1 DEF OperatorShare
    <2>3. QED
      BY <1>1, <1>7, <1>9, <2>2 DEF PaidExactlyOnce
  <1>16. QED
    BY <1>10, <1>11, <1>12, <1>13, <1>14, <1>15 DEF IInv

\* claimExpired: an Active note past its expiry pays its whole deposit to the
\* treasury.
LEMMA ClaimExpiredIInv ==
    ASSUME IInv, NEW id \in NoteIds, NEW s \in TreeViews, ClaimExpired(id, s)
    PROVE  IInv'
  <1> DEFINE amount == notes[id].depositAmount
  <1>1. /\ TypeOK /\ TreeMatchesNotes /\ IdsInOrder /\ PendingSound
        /\ OutcomesBurned /\ ChallengedNeverPaid /\ PaidExactlyOnce
    BY DEF IInv
  <1>2. /\ notes[id].status = "Active"
        /\ SetStatus(id, "Closed") /\ RemoveLeaf(id, s)
        /\ Pay(id, treasury, 0, amount)
        /\ UNCHANGED <<treasury, paused, nextNoteId, pendingWithdrawals,
                       usedNullifiers, now, paidNullifiers, challenged>>
    BY DEF ClaimExpired
  <1>3. amount \in Nat
    BY <1>1 DEF TypeOK, Note
  <1>4. "Closed" \in NoteStatus \ {"Active", "Uninitialized"}
    BY DEF NoteStatus
  <1>5. TreeMatchesNotes' /\ currentRoot' \in Trees
    BY <1>1, <1>2, <1>4, RemoveKeepsTree
  <1>6. /\ notes' \in [NoteIds -> Note]
        /\ notes'[id].status = "Closed"
        /\ notes'[id].depositAmount = notes[id].depositAmount
        /\ \A other \in NoteIds \ {id} : notes'[other] = notes[other]
    BY <1>1, <1>2, <1>4, StatusTyped
  <1>7. /\ vaultBalance' \in Nat
        /\ paidOut' \in [NoteIds -> [user : Nat, operator : Nat]]
        /\ paidOut'[id].user = paidOut[id].user + 0
        /\ paidOut'[id].operator = paidOut[id].operator + amount
        /\ \A other \in NoteIds \ {id} : paidOut'[other] = paidOut[other]
    BY <1>1, <1>2, <1>3, PayTyped
  <1>8. TypeOK'
    BY <1>1, <1>2, <1>5, <1>6, <1>7 DEF TypeOK
  <1>9. IdsInOrder'
    BY <1>1, <1>2, <1>4, StatusKeepsIds
  <1>10. PendingSound'
    BY <1>1, <1>2, <1>6 DEF PendingSound, TypeOK
  <1>11. OutcomesBurned' /\ ChallengedNeverPaid'
    BY <1>1, <1>2 DEF OutcomesBurned, ChallengedNeverPaid
  <1>12. PaidExactlyOnce'
    <2>1. /\ paidOut[id].user \in Nat /\ paidOut[id].operator \in Nat
          /\ paidOut[id].user + paidOut[id].operator = 0
      BY <1>1, <1>2 DEF TypeOK, PaidExactlyOnce
    <2>2. paidOut'[id].user + paidOut'[id].operator = amount
      BY <1>3, <1>7, <2>1
    <2>3. QED
      BY <1>1, <1>6, <1>7, <2>2 DEF PaidExactlyOnce
  <1>13. QED
    BY <1>5, <1>8, <1>9, <1>10, <1>11, <1>12 DEF IInv

\* The owner's actions and the clock touch nothing the invariant relates,
\* except that time only moves a deadline closer.
LEMMA OwnerAndTickIInv ==
    ASSUME IInv,
           \/ \E caller \in Addresses, t \in Addresses : SetTreasury(caller, t)
           \/ \E caller \in Addresses : Pause(caller) \/ Unpause(caller)
           \/ Tick
    PROVE  IInv'
  <1> USE BoundsAssumption, PeriodAssumption
  <1>1. /\ TypeOK /\ TreeMatchesNotes /\ IdsInOrder /\ PendingSound
        /\ OutcomesBurned /\ ChallengedNeverPaid /\ PaidExactlyOnce
    BY DEF IInv
  <1>2. /\ UNCHANGED <<currentRoot, nextNoteId, notes, pendingWithdrawals,
                       usedNullifiers, vaultBalance, paidOut, paidNullifiers,
                       challenged>>
    BY DEF SetTreasury, Pause, Unpause, SetPaused, Tick, contractVars, historyVars
  <1>3. /\ treasury' \in Addresses \ {ZeroAddress}
        /\ paused' \in BOOLEAN
        /\ now' \in 0 .. MaxTimestamp
        /\ now <= now'
    <2>1. now \in Nat
      BY <1>1 DEF TypeOK
    <2>2. CASE \E caller \in Addresses, t \in Addresses : SetTreasury(caller, t)
      BY <1>1, <2>1, <2>2 DEF SetTreasury, TypeOK
    <2>3. CASE \E caller \in Addresses : Pause(caller) \/ Unpause(caller)
      <3>1. paused' = TRUE \/ paused' = FALSE
        BY <2>3 DEF Pause, Unpause, SetPaused
      <3>2. paused' \in BOOLEAN
        BY <3>1
      <3>3. UNCHANGED <<treasury, now>>
        BY <2>3 DEF Pause, Unpause, SetPaused
      <3>4. QED
        BY <1>1, <2>1, <3>2, <3>3 DEF TypeOK
    <2>4. CASE Tick
      <3>1. UNCHANGED <<treasury, paused>>
        BY <2>4 DEF Tick, contractVars
      <3>2. QED
        BY <1>1, <2>1, <2>4, <3>1 DEF Tick, TypeOK
    <2>5. QED
      BY <2>2, <2>3, <2>4
  <1>4. TypeOK'
    BY <1>1, <1>2, <1>3 DEF TypeOK
  <1>5. TreeMatchesNotes' /\ IdsInOrder' /\ OutcomesBurned'
        /\ ChallengedNeverPaid' /\ PaidExactlyOnce'
    BY <1>1, <1>2 DEF TreeMatchesNotes, IdsInOrder, OutcomesBurned,
                      ChallengedNeverPaid, PaidExactlyOnce
  <1>6. PendingSound'
    <2>1. \A id \in NoteIds :
             pendingWithdrawals[id].challengeDeadline \in Nat
      BY <1>1 DEF TypeOK, PendingData
    <2>2. QED
      BY <1>1, <1>2, <1>3, <2>1 DEF PendingSound, TypeOK
  <1>7. QED
    BY <1>4, <1>5, <1>6 DEF IInv

\* Every step preserves the invariant.
LEMMA NextIInv == IInv /\ [Next]_vars => IInv'
  <1> SUFFICES ASSUME IInv, [Next]_vars PROVE IInv'
    OBVIOUS
  <1>1. CASE UNCHANGED vars
    BY <1>1 DEF vars, contractVars, historyVars, IInv, TypeOK,
         TreeMatchesNotes, IdsInOrder, PendingSound, OutcomesBurned,
         ChallengedNeverPaid, PaidExactlyOnce
  <1>2. CASE Next
    BY <1>2, DepositIInv, MutualCloseIInv, InitiateIInv, ChallengeIInv,
       FinalizeIInv, ClaimExpiredIInv, OwnerAndTickIInv DEF Next
  <1>3. QED
    BY <1>1, <1>2

\* The inductive invariant holds throughout.
THEOREM VaultInvariant == Spec => []IInv
  <1>1. QED
    BY InitIInv, NextIInv, PTL DEF Spec

\* Storage stays within its Solidity types: ids within uint32, times within
\* uint64, shares never negative.
THEOREM VaultTypeOK == Spec => []TypeOK
  <1>1. IInv => TypeOK
    BY DEF IInv
  <1>2. QED
    BY <1>1, VaultInvariant, PTL

\* The Merkle root commits to exactly the Active notes and original leaves.
THEOREM VaultTreeMatchesNotes == Spec => []TreeMatchesNotes
  <1>1. IInv => TreeMatchesNotes
    BY DEF IInv
  <1>2. QED
    BY <1>1, VaultInvariant, PTL

\* nextNoteId never runs over a live note: the ids below it were deposited,
\* with expiries that fit a uint64, and the ids from it on are untouched.
THEOREM VaultIdsInOrder == Spec => []IdsInOrder
  <1>1. IInv => IdsInOrder
    BY DEF IInv
  <1>2. QED
    BY <1>1, VaultInvariant, PTL

\* Pending records and note statuses agree, and a pending nullifier is burned
\* and unsettled.
THEOREM VaultPendingSound == Spec => []PendingSound
  <1>1. IInv => PendingSound
    BY DEF IInv
  <1>2. QED
    BY <1>1, VaultInvariant, PTL

\* A challenged withdrawal is never paid, also not later.
THEOREM VaultChallengedNeverPaid == Spec => []ChallengedNeverPaid
  <1>1. IInv => ChallengedNeverPaid
    BY DEF IInv
  <1>2. QED
    BY <1>1, VaultInvariant, PTL

\* Every note pays out exactly its deposit, once, and nothing before.
THEOREM VaultPaidExactlyOnce == Spec => []PaidExactlyOnce
  <1>1. IInv => PaidExactlyOnce
    BY DEF IInv
  <1>2. QED
    BY <1>1, VaultInvariant, PTL

-----------------------------------------------------------------------------
(* The window of an escape, and the refinement.                            *)

\* How a step changes one note, with the two histories of it: the case
\* analysis shared by the action property and by the refinement.
Opened(id) ==
    /\ notes[id] = NoNote
    /\ notes'[id].status = "Active"
    /\ notes'[id].depositAmount \in Amounts \ {0}
    /\ pendingWithdrawals'[id] = pendingWithdrawals[id]
    /\ paidOut'[id] = paidOut[id]
Frozen(id) ==
    /\ notes[id].status = "Active"
    /\ notes'[id].status = "PendingWithdrawal"
    /\ notes'[id].depositAmount = notes[id].depositAmount
    /\ pendingWithdrawals'[id].finalBalance \in Amounts
    /\ pendingWithdrawals'[id].finalBalance <= notes[id].depositAmount
    /\ paidOut'[id] = paidOut[id]
Restored(id) ==
    /\ notes[id].status = "PendingWithdrawal"
    /\ now < pendingWithdrawals[id].challengeDeadline
    /\ pendingWithdrawals[id].withdrawalNullifier \in challenged'
    /\ notes'[id].status = "Active"
    /\ notes'[id].depositAmount = notes[id].depositAmount
    /\ pendingWithdrawals'[id].finalBalance = 0
    /\ paidOut'[id] = paidOut[id]
Settled(id) ==
    /\ notes'[id].status = "Closed"
    /\ notes'[id].depositAmount = notes[id].depositAmount
    /\ pendingWithdrawals'[id].finalBalance = 0
    /\ \E share \in Amounts \cup {0} :
         /\ share <= notes[id].depositAmount
         /\ \/ notes[id].status = "Active"
            \/ /\ notes[id].status = "PendingWithdrawal"
               /\ now >= pendingWithdrawals[id].challengeDeadline
               /\ share = pendingWithdrawals[id].finalBalance
         /\ paidOut'[id].user = share
         /\ paidOut'[id].operator = notes[id].depositAmount - share
Untouched(id) ==
    /\ notes'[id] = notes[id]
    /\ pendingWithdrawals'[id] = pendingWithdrawals[id]
    /\ paidOut'[id] = paidOut[id]

\* A step concerns at most one note, and takes it one edge along its life.
LEMMA StepShape ==
    ASSUME IInv, [Next]_vars
    PROVE  \/ \A id \in NoteIds : Untouched(id)
           \/ \E id \in NoteIds :
                /\ Opened(id) \/ Frozen(id) \/ Restored(id) \/ Settled(id)
                /\ \A other \in NoteIds \ {id} : Untouched(other)
  <1>1. /\ TypeOK /\ IdsInOrder /\ PendingSound /\ PaidExactlyOnce
    BY DEF IInv
  <1>2. ASSUME NEW id \in NoteIds, notes[id].status # "Closed"
        PROVE  /\ paidOut[id].user = 0 /\ paidOut[id].operator = 0
               /\ notes[id].depositAmount \in Nat
    <2>1. /\ paidOut[id].user \in Nat /\ paidOut[id].operator \in Nat
          /\ paidOut[id].user + paidOut[id].operator = 0
      BY <1>1, <1>2 DEF TypeOK, PaidExactlyOnce
    <2>2. QED
      BY <1>1, <2>1 DEF TypeOK, Note
  <1>3. ASSUME NEW id \in NoteIds, notes[id].status # "PendingWithdrawal"
        PROVE  pendingWithdrawals[id].finalBalance = 0
    BY <1>1, <1>3 DEF PendingSound, NoPending
  <1>4. ASSUME NEW c \in Commitments, NEW a \in Amounts, NEW v \in Values,
               NEW s \in TreeViews, Deposit(c, a, v, s)
        PROVE  /\ Opened(nextNoteId)
               /\ \A other \in NoteIds \ {nextNoteId} : Untouched(other)
    <2>1. nextNoteId \in NoteIds /\ notes[nextNoteId] = NoNote
      BY <1>1 DEF TypeOK, IdsInOrder, NoteIds
    <2>2. /\ notes'[nextNoteId].status = "Active"
          /\ notes'[nextNoteId].depositAmount = a
          /\ \A other \in NoteIds \ {nextNoteId} : notes'[other] = notes[other]
      BY <1>1, <1>4, <2>1 DEF Deposit, TypeOK
    <2>3. /\ a # 0 /\ pendingWithdrawals' = pendingWithdrawals
          /\ paidOut' = paidOut
      BY <1>4 DEF Deposit, historyVars
    <2>4. QED
      BY <2>1, <2>2, <2>3 DEF Opened, Untouched
  <1>5. ASSUME NEW w \in WithdrawalInputs(TreeViews), NEW s \in TreeViews,
               MutualClose(w, s)
        PROVE  /\ Settled(w.noteId)
               /\ \A other \in NoteIds \ {w.noteId} : Untouched(other)
    <2>1. /\ w.noteId \in NoteIds
          /\ w.finalBalance \in Amounts /\ w.finalBalance \in Nat
          /\ OperatorShare(w.noteId, w.finalBalance) \in Nat
          /\ notes[w.noteId].status = "Active"
          /\ w.finalBalance <= notes[w.noteId].depositAmount
      BY <1>1, <1>5, AcceptFacts DEF MutualClose
    <2>2. "Closed" \in NoteStatus
      BY DEF NoteStatus
    <2>3. /\ notes'[w.noteId].status = "Closed"
          /\ notes'[w.noteId].depositAmount = notes[w.noteId].depositAmount
          /\ \A other \in NoteIds \ {w.noteId} : notes'[other] = notes[other]
      BY <1>1, <1>5, <2>1, <2>2, StatusTyped DEF MutualClose
    <2>4. /\ paidOut'[w.noteId].user = paidOut[w.noteId].user + w.finalBalance
          /\ paidOut'[w.noteId].operator = paidOut[w.noteId].operator
                 + OperatorShare(w.noteId, w.finalBalance)
          /\ \A other \in NoteIds \ {w.noteId} : paidOut'[other] = paidOut[other]
      <3>1. Pay(w.noteId, w.destination, w.finalBalance,
                OperatorShare(w.noteId, w.finalBalance))
        BY <1>5 DEF MutualClose
      <3>2. QED
        BY <1>1, <2>1, <3>1, PayTyped
    <2>5. /\ paidOut'[w.noteId].user = w.finalBalance
          /\ paidOut'[w.noteId].operator
               = notes[w.noteId].depositAmount - w.finalBalance
      BY <1>2, <2>1, <2>4 DEF OperatorShare
    <2>6. pendingWithdrawals' = pendingWithdrawals
      BY <1>5 DEF MutualClose
    <2>7. QED
      BY <1>3, <2>1, <2>3, <2>4, <2>5, <2>6 DEF Settled, Untouched
  <1>6. ASSUME NEW w \in WithdrawalInputs(TreeViews), NEW s \in TreeViews,
               InitiateEscapeWithdrawal(w, s)
        PROVE  /\ Frozen(w.noteId)
               /\ \A other \in NoteIds \ {w.noteId} : Untouched(other)
    <2>1. /\ w.noteId \in NoteIds /\ w.finalBalance \in Amounts
          /\ notes[w.noteId].status = "Active"
          /\ w.finalBalance <= notes[w.noteId].depositAmount
      BY <1>1, <1>6, AcceptFacts DEF InitiateEscapeWithdrawal
    <2>2. "PendingWithdrawal" \in NoteStatus
      BY DEF NoteStatus
    <2>3. /\ notes'[w.noteId].status = "PendingWithdrawal"
          /\ notes'[w.noteId].depositAmount = notes[w.noteId].depositAmount
          /\ \A other \in NoteIds \ {w.noteId} : notes'[other] = notes[other]
      BY <1>1, <1>6, <2>1, <2>2, StatusTyped DEF InitiateEscapeWithdrawal
    <2>4. /\ pendingWithdrawals'[w.noteId].finalBalance = w.finalBalance
          /\ \A other \in NoteIds \ {w.noteId} :
                pendingWithdrawals'[other] = pendingWithdrawals[other]
      BY <1>1, <1>6, <2>1 DEF InitiateEscapeWithdrawal, TypeOK
    <2>5. paidOut' = paidOut
      BY <1>6 DEF InitiateEscapeWithdrawal, historyVars
    <2>6. QED
      BY <2>1, <2>3, <2>4, <2>5 DEF Frozen, Untouched
  <1>7. ASSUME NEW id \in NoteIds, NEW r \in RequestInputs,
               NEW s \in TreeViews, ChallengeEscapeWithdrawal(id, r, s)
        PROVE  /\ Restored(id)
               /\ \A other \in NoteIds \ {id} : Untouched(other)
    <2>1. "Active" \in NoteStatus
      BY DEF NoteStatus
    <2>2. /\ notes'[id].status = "Active"
          /\ notes'[id].depositAmount = notes[id].depositAmount
          /\ \A other \in NoteIds \ {id} : notes'[other] = notes[other]
      BY <1>1, <1>7, <2>1, StatusTyped DEF ChallengeEscapeWithdrawal
    <2>3. /\ pendingWithdrawals'[id] = NoPending
          /\ \A other \in NoteIds \ {id} :
               pendingWithdrawals'[other] = pendingWithdrawals[other]
      BY <1>1, <1>7, DeleteTyped DEF ChallengeEscapeWithdrawal
    <2>4. NoPending.finalBalance = 0
      BY DEF NoPending
    <2>5. QED
      BY <1>7, <2>2, <2>3, <2>4
         DEF Restored, Untouched, ChallengeEscapeWithdrawal, IsPending, ChallengeOpen
  <1>8. ASSUME NEW id \in NoteIds, FinalizeEscapeWithdrawal(id)
        PROVE  /\ Settled(id)
               /\ \A other \in NoteIds \ {id} : Untouched(other)
    <2> DEFINE final == pendingWithdrawals[id].finalBalance
    <2>1. /\ notes[id].status = "PendingWithdrawal"
          /\ now >= pendingWithdrawals[id].challengeDeadline
          /\ final <= notes[id].depositAmount
          /\ final \in Amounts \cup {0} /\ final \in Nat
          /\ notes[id].depositAmount \in Nat
      <3>1. final \in Amounts \cup {0} /\ notes[id].depositAmount \in Nat
        BY <1>1 DEF TypeOK, PendingData, Note
      <3>2. final \in Nat
        BY <3>1, ShareNat
      <3>3. /\ notes[id].status = "PendingWithdrawal"
            /\ now >= pendingWithdrawals[id].challengeDeadline
        BY <1>8 DEF FinalizeEscapeWithdrawal, IsPending, ChallengeOver
      <3>4. QED
        BY <1>1, <3>1, <3>2, <3>3 DEF PendingSound
    <2>2. OperatorShare(id, final) \in Nat /\ "Closed" \in NoteStatus
      BY <2>1 DEF OperatorShare, NoteStatus
    <2>3. /\ notes'[id].status = "Closed"
          /\ notes'[id].depositAmount = notes[id].depositAmount
          /\ \A other \in NoteIds \ {id} : notes'[other] = notes[other]
      BY <1>1, <1>8, <2>2, StatusTyped DEF FinalizeEscapeWithdrawal
    <2>4. /\ pendingWithdrawals'[id] = NoPending
          /\ \A other \in NoteIds \ {id} :
               pendingWithdrawals'[other] = pendingWithdrawals[other]
      BY <1>1, <1>8, DeleteTyped DEF FinalizeEscapeWithdrawal
    <2>5. /\ paidOut'[id].user = paidOut[id].user + final
          /\ paidOut'[id].operator = paidOut[id].operator + OperatorShare(id, final)
          /\ \A other \in NoteIds \ {id} : paidOut'[other] = paidOut[other]
      BY <1>1, <1>8, <2>1, <2>2, PayTyped DEF FinalizeEscapeWithdrawal
    <2>6. /\ paidOut'[id].user = final
          /\ paidOut'[id].operator = notes[id].depositAmount - final
      BY <1>2, <2>1, <2>5 DEF OperatorShare
    <2>7. NoPending.finalBalance = 0
      BY DEF NoPending
    <2>8. QED
      BY <2>1, <2>3, <2>4, <2>5, <2>6, <2>7 DEF Settled, Untouched
  <1>9. ASSUME NEW id \in NoteIds, NEW s \in TreeViews, ClaimExpired(id, s)
        PROVE  /\ Settled(id)
               /\ \A other \in NoteIds \ {id} : Untouched(other)
    <2>1. /\ notes[id].status = "Active"
          /\ notes[id].depositAmount \in Nat
          /\ "Closed" \in NoteStatus
      BY <1>1, <1>9 DEF ClaimExpired, TypeOK, Note, NoteStatus
    <2>2. /\ notes'[id].status = "Closed"
          /\ notes'[id].depositAmount = notes[id].depositAmount
          /\ \A other \in NoteIds \ {id} : notes'[other] = notes[other]
      BY <1>1, <1>9, <2>1, StatusTyped DEF ClaimExpired
    <2>3. /\ paidOut'[id].user = paidOut[id].user + 0
          /\ paidOut'[id].operator = paidOut[id].operator + notes[id].depositAmount
          /\ \A other \in NoteIds \ {id} : paidOut'[other] = paidOut[other]
      BY <1>1, <1>9, <2>1, PayTyped DEF ClaimExpired
    <2>4. /\ paidOut'[id].user = 0
          /\ paidOut'[id].operator = notes[id].depositAmount - 0
      BY <1>2, <2>1, <2>3
    <2>5. pendingWithdrawals' = pendingWithdrawals
      BY <1>9 DEF ClaimExpired
    <2>6. 0 <= notes[id].depositAmount
      BY <2>1
    <2>7. QED
      BY <1>3, <2>1, <2>2, <2>3, <2>4, <2>5, <2>6 DEF Settled, Untouched
  <1>10. ASSUME \/ \E caller \in Addresses, t \in Addresses : SetTreasury(caller, t)
                \/ \E caller \in Addresses : Pause(caller) \/ Unpause(caller)
                \/ Tick
                \/ UNCHANGED vars
         PROVE  \A id \in NoteIds : Untouched(id)
    BY <1>10 DEF SetTreasury, Pause, Unpause, SetPaused, Tick, vars,
                 contractVars, historyVars, Untouched
  <1>11. nextNoteId \in NoteIds
    BY <1>1 DEF TypeOK
  <1>12. \A w \in WithdrawalInputs(TreeViews) : w.noteId \in NoteIds
    BY DEF WithdrawalInputs
  <1>13. QED
    BY <1>4, <1>5, <1>6, <1>7, <1>8, <1>9, <1>10, <1>11, <1>12 DEF Next

\* An escape settles only after its deadline and for the announced balance,
\* and is undone only before it, by a challenge.
THEOREM VaultEscapeRespectsWindow == Spec => EscapeRespectsWindow
  <1> DEFINE Step ==
        \A id \in NoteIds :
          notes[id].status = "PendingWithdrawal" =>
            LET p == pendingWithdrawals[id] IN
            /\ notes'[id].status = "Closed" =>
                 /\ now >= p.challengeDeadline
                 /\ paidOut'[id].user = p.finalBalance
            /\ notes'[id].status = "Active" =>
                 /\ now < p.challengeDeadline
                 /\ p.withdrawalNullifier \in challenged'
            /\ notes'[id].status # "Uninitialized"
  <1>1. IInv /\ [Next]_vars => Step
    <2> SUFFICES ASSUME IInv, [Next]_vars PROVE Step
      OBVIOUS
    <2>1. CASE \A id \in NoteIds : Untouched(id)
      BY <2>1 DEF Untouched
    <2>2. CASE \E id \in NoteIds :
                 /\ Opened(id) \/ Frozen(id) \/ Restored(id) \/ Settled(id)
                 /\ \A other \in NoteIds \ {id} : Untouched(other)
      BY <2>2 DEF Untouched, Opened, Frozen, Restored, Settled, NoNote
    <2>3. QED
      BY <2>1, <2>2, StepShape
  <1>2. QED
    BY <1>1, VaultInvariant, PTL DEF Spec, EscapeRespectsWindow

\* The abstract account of a note, step by step.
account == [id \in NoteIds |-> AccountOf(id)]

\* The constructor's state is the empty escrow.
LEMMA InitRefines == Init => E!Init
  BY DEF Init, E!Init, E!Empty, AccountOf, Phase, NoNote, NoPending

\* Every step of the vault is a step of the escrow on one account, or none.
LEMMA StepRefines ==
    ASSUME IInv, [Next]_vars
    PROVE  [E!Next]_account
  <1>1. /\ TypeOK /\ IdsInOrder /\ PendingSound /\ PaidExactlyOnce
    BY DEF IInv
  <1>2. \A id \in NoteIds : account[id] = AccountOf(id)
    BY DEF account
  <1>3. ASSUME NEW id \in NoteIds, Untouched(id)
        PROVE  account'[id] = account[id]
    BY <1>3 DEF account, AccountOf, Untouched
  <1>4. CASE \A id \in NoteIds : Untouched(id)
    <2>1. account' = account
      BY <1>4 DEF account, AccountOf, Untouched
    <2>2. QED
      BY <2>1
  <1>5. CASE \E id \in NoteIds :
               /\ Opened(id) \/ Frozen(id) \/ Restored(id) \/ Settled(id)
               /\ \A other \in NoteIds \ {id} : Untouched(other)
    <2>1. PICK id \in NoteIds :
               /\ Opened(id) \/ Frozen(id) \/ Restored(id) \/ Settled(id)
               /\ \A other \in NoteIds \ {id} : Untouched(other)
      BY <1>5
    <2>2. account' = [account EXCEPT ![id] = account'[id]]
      BY <1>3, <2>1 DEF account
    <2>3. ASSUME notes[id].status # "Closed"
          PROVE  paidOut[id].user = 0 /\ paidOut[id].operator = 0
      <3>1. /\ paidOut[id].user \in Nat /\ paidOut[id].operator \in Nat
            /\ paidOut[id].user + paidOut[id].operator = 0
        BY <1>1, <2>3 DEF TypeOK, PaidExactlyOnce
      <3>2. QED
        BY <3>1
    <2>4. ASSUME notes[id].status # "PendingWithdrawal"
          PROVE  pendingWithdrawals[id].finalBalance = 0
      BY <1>1, <2>4 DEF PendingSound, NoPending
    <2>5. CASE Opened(id)
      <3>1. E!Open(id, notes'[id].depositAmount)
        <4> DEFINE d == notes'[id].depositAmount
        <4>1. notes[id].status = "Uninitialized"
          BY <2>5 DEF Opened, NoNote
        <4>2. account[id].phase = "empty"
          BY <4>1 DEF account, AccountOf, Phase
        <4>3. account'[id] = [phase |-> "held", deposit |-> d, claim |-> 0,
                              user |-> 0, operator |-> 0]
          BY <2>3, <2>4, <2>5, <4>1 DEF account, AccountOf, Phase, Opened
        <4>4. QED
          BY <2>2, <2>5, <4>2, <4>3 DEF E!Open, E!Become, Opened, account
      <3>2. notes'[id].depositAmount \in Amounts \cup {0}
        BY <2>5 DEF Opened
      <3>3. QED
        BY <3>1, <3>2 DEF E!Next
    <2>6. CASE Frozen(id)
      <3>1. E!BeginExit(id, pendingWithdrawals'[id].finalBalance)
        BY <1>2, <2>2, <2>3, <2>4, <2>6
           DEF E!BeginExit, E!Become, Frozen, AccountOf, Phase, account
      <3>2. pendingWithdrawals'[id].finalBalance \in Amounts \cup {0}
        BY <2>6 DEF Frozen
      <3>3. QED
        BY <3>1, <3>2 DEF E!Next
    <2>7. CASE Restored(id)
      <3>1. E!CancelExit(id)
        BY <1>2, <2>2, <2>3, <2>7
           DEF E!CancelExit, E!Become, Restored, AccountOf, Phase, account
      <3>2. 0 \in Amounts \cup {0}
        OBVIOUS
      <3>3. QED
        BY <3>1, <3>2 DEF E!Next
    <2>8. CASE Settled(id)
      <3>1. PICK share \in Amounts \cup {0} :
              /\ share <= notes[id].depositAmount
              /\ \/ notes[id].status = "Active"
                 \/ /\ notes[id].status = "PendingWithdrawal"
                    /\ share = pendingWithdrawals[id].finalBalance
              /\ paidOut'[id].user = share
              /\ paidOut'[id].operator = notes[id].depositAmount - share
        BY <2>8 DEF Settled
      <3>2. E!Settle(id, share)
        BY <1>2, <2>2, <2>8, <3>1
           DEF E!Settle, E!Become, Settled, AccountOf, Phase, account
      <3>3. QED
        BY <3>2 DEF E!Next
    <2>9. QED
      BY <2>1, <2>5, <2>6, <2>7, <2>8
  <1>6. QED
    BY <1>4, <1>5, StepShape

\* The vault implements the escrow: every deposit is settled at most once,
\* for shares that add up to it, whatever the interleaving of calls.
THEOREM VaultImplementsEscrow == Spec => ImplementsEscrow
  <1>1. IInv /\ [Next]_vars => [E!Next]_account
    BY StepRefines
  <1>2. QED
    BY <1>1, InitRefines, VaultInvariant, PTL DEF Spec, ImplementsEscrow, E!Spec, account

-----------------------------------------------------------------------------
(* Solvency: the sum of the open deposits, one step at a time.             *)

DepositOf == [id \in NoteIds |-> notes[id].depositAmount]
Open == {id \in NoteIds : Live(id)}

\* The deposits are natural numbers, and finitely many.
LEMMA OpenSums ==
    ASSUME TypeOK
    PROVE  /\ IsFiniteSet(NoteIds)
           /\ Open \subseteq NoteIds
           /\ \A S \in SUBSET NoteIds : IsFiniteSet(S)
           /\ \A id \in NoteIds : DepositOf[id] \in Nat
           /\ SumFunctionOnSet(DepositOf, Open) \in Int
  <1>1. IsFiniteSet(NoteIds)
    BY FS_Interval, BoundsAssumption DEF NoteIds
  <1>2. \A S \in SUBSET NoteIds : IsFiniteSet(S)
    BY <1>1, FS_Subset
  <1>3. \A id \in NoteIds : DepositOf[id] \in Nat
    BY DEF TypeOK, Note, DepositOf
  <1>4. Open \subseteq NoteIds
    BY DEF Open
  <1>5. SumFunctionOnSet(DepositOf, Open) \in Int
    BY <1>2, <1>3, <1>4, SumInt
  <1>6. QED
    BY <1>1, <1>2, <1>3, <1>4, <1>5

\* Freezing and restoring a note leave the sum alone.
LEMMA SumKept ==
    ASSUME \A id \in NoteIds : /\ Live(id)' <=> Live(id)
                               /\ notes'[id].depositAmount
                                    = notes[id].depositAmount
    PROVE  SumFunctionOnSet(DepositOf, Open)'
             = SumFunctionOnSet(DepositOf, Open)
  <1>1. DepositOf' = DepositOf
    BY DEF DepositOf
  <1>2. Open' = Open
    BY DEF Open
  <1>3. QED
    BY <1>1, <1>2

\* A deposit adds its amount.
LEMMA SumGrows ==
    ASSUME TypeOK, TypeOK', NEW id \in NoteIds, ~Live(id), Live(id)',
           \A other \in NoteIds \ {id} : notes'[other] = notes[other]
    PROVE  SumFunctionOnSet(DepositOf, Open)'
             = SumFunctionOnSet(DepositOf, Open) + notes'[id].depositAmount
  <1>1. Open' = Open \cup {id} /\ id \notin Open
    BY DEF Open, Live
  <1>2. /\ IsFiniteSet(Open) /\ Open \subseteq NoteIds
        /\ \A x \in NoteIds : DepositOf'[x] \in Int
        /\ DepositOf'[id] = notes'[id].depositAmount
        /\ \A x \in Open : DepositOf'[x] = DepositOf[x]
    <2>1. \A x \in NoteIds : DepositOf'[x] = notes'[x].depositAmount
      BY DEF DepositOf
    <2>2. \A x \in NoteIds : notes'[x].depositAmount \in Int
      BY DEF TypeOK, Note
    <2>3. \A x \in NoteIds : DepositOf[x] = notes[x].depositAmount
      BY DEF DepositOf
    <2>4. QED
      BY <1>1, <2>1, <2>2, <2>3, OpenSums
  <1>3. SumFunctionOnSet(DepositOf', Open \cup {id})
          = SumFunctionOnSet(DepositOf', Open) + DepositOf'[id]
    BY <1>1, <1>2, SumAdd
  <1>4. SumFunctionOnSet(DepositOf', Open) = SumFunctionOnSet(DepositOf, Open)
    BY <1>2, SumSame
  <1>5. QED
    BY <1>1, <1>2, <1>3, <1>4

\* A settlement takes its deposit off.
LEMMA SumShrinks ==
    ASSUME TypeOK, NEW id \in NoteIds, Live(id), ~Live(id)',
           notes'[id].depositAmount = notes[id].depositAmount,
           \A other \in NoteIds \ {id} : notes'[other] = notes[other]
    PROVE  /\ SumFunctionOnSet(DepositOf, Open)
                = SumFunctionOnSet(DepositOf, Open)' + notes[id].depositAmount
           /\ SumFunctionOnSet(DepositOf, Open)' \in Int
  <1>1. Open' = Open \ {id} /\ id \in Open
    BY DEF Open, Live
  <1>2. DepositOf' = DepositOf
    BY DEF DepositOf
  <1>3. DepositOf[id] = notes[id].depositAmount
    BY DEF DepositOf
  <1>4. /\ SumFunctionOnSet(DepositOf, Open)
             = SumFunctionOnSet(DepositOf, Open \ {id}) + DepositOf[id]
        /\ SumFunctionOnSet(DepositOf, Open \ {id}) \in Int
    <2>1. IsFiniteSet(Open) /\ \A x \in Open : DepositOf[x] \in Int
      BY OpenSums
    <2>2. QED
      BY <1>1, <2>1, SumSplit
  <1>5. QED
    BY <1>1, <1>2, <1>3, <1>4

\* A note closes and pays: the balance falls by the deposit, in wei.
LEMMA CloseKeepsSolvency ==
    ASSUME TypeOK, Solvency, NEW id \in NoteIds, Live(id),
           SetStatus(id, "Closed"), NEW to, NEW x \in Nat,
           x <= notes[id].depositAmount,
           Pay(id, to, x, OperatorShare(id, x))
    PROVE  Solvency'
  <1> DEFINE d == notes[id].depositAmount
             sum == SumFunctionOnSet(DepositOf, Open)
  <1>1. "Closed" \in NoteStatus
    BY DEF NoteStatus
  <1>2. /\ notes'[id].status = "Closed"
        /\ notes'[id].depositAmount = d
        /\ \A other \in NoteIds \ {id} : notes'[other] = notes[other]
    BY <1>1, StatusTyped
  <1>3. ~Live(id)'
    BY <1>2 DEF Live
  <1>4. sum = sum' + d /\ sum' \in Int
    BY <1>2, <1>3, SumShrinks
  <1>5. d \in Nat /\ UnitValue \in Nat
    BY BoundsAssumption DEF TypeOK, Note, UnitValue
  <1>6. vaultBalance' = vaultBalance - d * UnitValue
    BY <1>5 DEF Pay, OperatorShare
  <1>7. vaultBalance = UnitValue * sum
    BY DEF Solvency, DepositOf, Open
  <1> HIDE DEF d, sum
  <1>8. vaultBalance' = UnitValue * sum'
    <2>1. UnitValue * (sum' + d) = UnitValue * sum' + d * UnitValue
      BY <1>4, <1>5
    <2>2. UnitValue * sum' \in Int /\ d * UnitValue \in Int
      BY <1>4, <1>5
    <2>3. QED
      BY <1>4, <1>6, <1>7, <2>1, <2>2
  <1>9. QED
    BY <1>8 DEF Solvency, DepositOf, Open, sum

\* Every step keeps the balance equal to the sum.
LEMMA SolvencyStep ==
    ASSUME IInv, IInv', Solvency, [Next]_vars
    PROVE  Solvency'
  <1> DEFINE sum == SumFunctionOnSet(DepositOf, Open)
  <1>1. TypeOK /\ TypeOK' /\ IdsInOrder /\ PendingSound
    BY DEF IInv
  <1>2. sum \in Int /\ UnitValue \in Nat /\ vaultBalance = UnitValue * sum
    BY <1>1, OpenSums, BoundsAssumption DEF UnitValue, Solvency, DepositOf, Open
  <1>3. ASSUME NEW c \in Commitments, NEW a \in Amounts, NEW v \in Values,
               NEW s \in TreeViews, Deposit(c, a, v, s)
        PROVE  Solvency'
    <2>1. PICK id \in NoteIds : id = nextNoteId
      BY <1>1 DEF TypeOK
    <2>2. /\ ~Live(id)
          /\ notes'[id].status = "Active"
          /\ notes'[id].depositAmount = a
          /\ \A other \in NoteIds \ {id} : notes'[other] = notes[other]
      BY <1>1, <1>3, <2>1 DEF Deposit, TypeOK, IdsInOrder, NoteIds, NoNote, Live
    <2>3. Live(id)'
      BY <2>2 DEF Live
    <2>4. sum' = sum + a
      BY <1>1, <2>2, <2>3, SumGrows
    <2>5. a \in Nat
      BY DataAssumption
    <2>6. vaultBalance' = vaultBalance + UnitValue * a
      <3>1. CASE NativeAssetWeiPerUnit = 0
        BY <1>3, <2>5, <3>1 DEF Deposit, UnitValue
      <3>2. CASE NativeAssetWeiPerUnit # 0
        BY <1>3, <2>5, <3>2, BoundsAssumption DEF Deposit, ValueMatches, UnitValue
      <3>3. QED
        BY <3>1, <3>2
    <2> HIDE DEF sum
    <2>7. UnitValue * (sum + a) = UnitValue * sum + UnitValue * a
      BY <1>2, <2>5
    <2>8. vaultBalance' = UnitValue * sum'
      BY <1>2, <2>4, <2>6, <2>7
    <2>9. QED
      BY <2>8 DEF Solvency, DepositOf, Open, sum
  <1>4. ASSUME NEW w \in WithdrawalInputs(TreeViews), NEW s \in TreeViews,
               MutualClose(w, s)
        PROVE  Solvency'
    <2>1. /\ w.noteId \in NoteIds /\ w.finalBalance \in Nat
          /\ w.finalBalance <= notes[w.noteId].depositAmount
          /\ notes[w.noteId].status = "Active"
      BY <1>1, <1>4, AcceptFacts DEF MutualClose
    <2>2. QED
      BY <1>1, <1>4, <2>1, CloseKeepsSolvency DEF MutualClose, Live
  <1>5. ASSUME NEW id \in NoteIds, FinalizeEscapeWithdrawal(id)
        PROVE  Solvency'
    <2> DEFINE final == pendingWithdrawals[id].finalBalance
    <2>1. /\ notes[id].status = "PendingWithdrawal"
          /\ final <= notes[id].depositAmount
      BY <1>1, <1>5 DEF FinalizeEscapeWithdrawal, IsPending, PendingSound
    <2>2. final \in Nat
      <3>1. final \in Amounts \cup {0}
        BY <1>1 DEF TypeOK, PendingData
      <3>2. QED
        BY <3>1, ShareNat
    <2>3. QED
      BY <1>1, <1>5, <2>1, <2>2, CloseKeepsSolvency
         DEF FinalizeEscapeWithdrawal, Live
  <1>6. ASSUME NEW id \in NoteIds, NEW s \in TreeViews, ClaimExpired(id, s)
        PROVE  Solvency'
    <2>1. /\ notes[id].status = "Active"
          /\ notes[id].depositAmount \in Nat
      BY <1>1, <1>6 DEF ClaimExpired, TypeOK, Note
    <2>2. /\ OperatorShare(id, 0) = notes[id].depositAmount
          /\ 0 <= notes[id].depositAmount
      BY <2>1 DEF OperatorShare
    <2>3. QED
      BY <1>1, <1>6, <2>1, <2>2, CloseKeepsSolvency DEF ClaimExpired, Live
  <1>7. ASSUME vaultBalance' = vaultBalance,
               \A id \in NoteIds : /\ Live(id)' <=> Live(id)
                                   /\ notes'[id].depositAmount
                                        = notes[id].depositAmount
        PROVE  Solvency'
    <2>1. sum' = sum
      BY <1>7, SumKept
    <2> HIDE DEF sum
    <2>2. vaultBalance' = UnitValue * sum'
      BY <1>2, <1>7, <2>1
    <2>3. QED
      BY <2>2 DEF Solvency, DepositOf, Open, sum
  <1>8. ASSUME NEW w \in WithdrawalInputs(TreeViews), NEW s \in TreeViews,
               InitiateEscapeWithdrawal(w, s)
        PROVE  Solvency'
    <2>1. PICK id \in NoteIds : id = w.noteId
      BY DEF WithdrawalInputs
    <2>2. "PendingWithdrawal" \in NoteStatus
      BY DEF NoteStatus
    <2>3. /\ notes'[id].status = "PendingWithdrawal"
          /\ notes'[id].depositAmount = notes[id].depositAmount
          /\ \A other \in NoteIds \ {id} : notes'[other] = notes[other]
          /\ notes[id].status = "Active"
          /\ vaultBalance' = vaultBalance
      BY <1>1, <1>8, <2>1, <2>2, StatusTyped
         DEF InitiateEscapeWithdrawal, AcceptWithdrawal
    <2>4. QED
      BY <1>7, <2>3 DEF Live
  <1>9. ASSUME NEW id \in NoteIds, NEW r \in RequestInputs,
               NEW s \in TreeViews, ChallengeEscapeWithdrawal(id, r, s)
        PROVE  Solvency'
    <2>1. "Active" \in NoteStatus
      BY DEF NoteStatus
    <2>2. /\ notes'[id].status = "Active"
          /\ notes'[id].depositAmount = notes[id].depositAmount
          /\ \A other \in NoteIds \ {id} : notes'[other] = notes[other]
          /\ notes[id].status = "PendingWithdrawal"
          /\ vaultBalance' = vaultBalance
      BY <1>1, <1>9, <2>1, StatusTyped DEF ChallengeEscapeWithdrawal, IsPending
    <2>3. QED
      BY <1>7, <2>2 DEF Live
  <1>10. CASE \/ \E caller \in Addresses, t \in Addresses : SetTreasury(caller, t)
              \/ \E caller \in Addresses : Pause(caller) \/ Unpause(caller)
              \/ Tick
              \/ UNCHANGED vars
    BY <1>7, <1>10 DEF SetTreasury, Pause, Unpause, SetPaused, Tick, vars,
                       contractVars, historyVars, Live
  <1>11. QED
    BY <1>3, <1>4, <1>5, <1>6, <1>8, <1>9, <1>10 DEF Next

\* The vault owns exactly the deposits that are not closed, in wei for a
\* native vault: for any number of notes and whatever is deposited, closed,
\* challenged, finalized and claimed in between.
THEOREM VaultSolvency == Spec => []Solvency
  <1>1. Init => Solvency
    <2> SUFFICES ASSUME Init PROVE Solvency
      OBVIOUS
    <2>1. Open = {}
      BY DEF Init, Open, Live, NoNote
    <2>2. SumFunctionOnSet(DepositOf, Open) = 0
      BY <2>1, SumEmpty
    <2>3. vaultBalance = UnitValue * SumFunctionOnSet(DepositOf, Open)
      BY <2>2, BoundsAssumption DEF Init, UnitValue
    <2>4. QED
      BY <2>3 DEF Solvency, DepositOf, Open
  <1>2. IInv /\ IInv' /\ Solvency /\ [Next]_vars => Solvency'
    BY SolvencyStep
  <1>3. QED
    BY <1>1, <1>2, VaultInvariant, PTL DEF Spec

-----------------------------------------------------------------------------
(* Settlement: the inductive invariant.                                    *)

Deposited(id) == notes[id].status # "Uninitialized"

\* Nullifiers of a note, under the anchors given out so far.
LastAnchor == GenesisAnchor + Cardinality(archive)
GivenOut == {a \in Anchors : a <= LastAnchor}
OwnNullifiers(id) == {NullifierOf(SecretOf(id), a) : a \in Anchors}

\* Secrets tell notes apart.
SecretsDistinct ==
    \A id \in NoteIds :
        Deposited(id) =>
            /\ SecretOf(id) \in Commitments
            /\ \A other \in NoteIds :
                 Deposited(other) /\ SecretOf(other) = SecretOf(id) => other = id

\* An archived request spent a state of a note, at an anchor given out.
ArchiveSound ==
    /\ IsFiniteSet(archive)
    /\ \A n \in archive :
         \E id \in NoteIds, a \in GivenOut :
             Deposited(id) /\ n = NullifierOf(SecretOf(id), a)

\* The server signs clearances it has recorded, and states of notes.
SignaturesSound ==
    \A m \in signatures :
        \/ \E n \in clearances : m = ClearanceMessage(ThisDeployment, n)
        \/ \E id \in NoteIds, b \in Nat, a \in GivenOut :
             /\ Deposited(id)
             /\ m = StateMessage(ThisDeployment, Commitment(b, Leaf(id, notes[id])), a)

\* A tree holds leaves of deposited notes in their slots, and nothing else.
HoldsNotes(root) ==
    /\ root \in Trees
    /\ \A id \in NoteIds :
         root[id] # ZeroLeaf => Deposited(id) /\ root[id] = Leaf(id, notes[id])

\* One state of a note is unspent, and it holds what was not charged.
Balanced(id) ==
    \E s : /\ UnspentStates(id) = {s}
           /\ s.balance \in Nat
           /\ s.balance + charged[id] = notes[id].depositAmount
LedgerSound ==
    /\ charged \in [NoteIds -> Nat]
    /\ \A id \in NoteIds :
         IF Deposited(id) THEN Balanced(id) ELSE charged[id] = 0

\* Nullifiers that a challenge can burn: of spent states, and of states whose
\* owner has sent a request proof and was challenged with it.
Answered == archive \cup (sent \cap challenged)

\* Any other nullifier is burned on chain by the one exit under which its
\* note is frozen or closed.
BurnedSound ==
    \A n \in usedNullifiers \ Answered :
        \E id \in NoteIds :
            /\ n \in OwnNullifiers(id)
            /\ \/ notes[id].status = "Closed"
               \/ /\ notes[id].status = "PendingWithdrawal"
                  /\ n = pendingWithdrawals[id].withdrawalNullifier

\* A pending withdrawal claims a state of its note; past the deadline that
\* state is unspent and the server no longer serves the note.
ExitSound(id) ==
    LET p == pendingWithdrawals[id] IN
    /\ \E s \in StatesOf(id) :
         /\ s.balance = p.finalBalance
         /\ p.withdrawalNullifier = NullifierOf(SecretOf(id), s.anchor)
    /\ ChallengeOver(id) =>
         p.withdrawalNullifier \notin archive /\ serverRoot[id] = ZeroLeaf
PendingExits ==
    \A id \in NoteIds : notes[id].status = "PendingWithdrawal" => ExitSound(id)

\* A note settled at its balance is charged no more: the server has dropped
\* its leaf, or has cleared its last state.  Otherwise it had expired.
FinalCharge(id) ==
    /\ paidOut[id].operator = charged[id]
    /\ \/ serverRoot[id] = ZeroLeaf
       \/ \A s \in UnspentStates(id) :
            NullifierOf(SecretOf(id), s.anchor) \in clearances
ClaimedWhole(id) == paidOut[id].user = 0 /\ now >= notes[id].expiryTs
SettledSound ==
    \A id \in NoteIds :
        notes[id].status = "Closed" => FinalCharge(id) \/ ClaimedWhole(id)

\* The server's side, then what ties it to the vault.
ServerSound ==
    /\ SecretsDistinct
    /\ ArchiveSound
    /\ SignaturesSound
    /\ HoldsNotes(serverRoot)
    /\ clearances \cap archive = {}
    /\ LedgerSound

SInv ==
    /\ IInv
    /\ ServerSound
    /\ BurnedSound
    /\ PendingExits
    /\ SettledSound
-----------------------------------------------------------------------------
(* Nullifiers and states.                                                  *)

\* The nullifier hash is injective.
LEMMA NullifierInjective ==
    ASSUME NEW s \in Nat, NEW t \in Nat, NEW a \in Anchors, NEW b \in Anchors,
           NullifierOf(s, a) = NullifierOf(t, b)
    PROVE  s = t /\ a = b
<1>1. ASSUME NEW x \in Nat, NEW y \in Nat, NEW c \in Anchors, NEW d \in Anchors,
             x < y
      PROVE  NullifierOf(x, c) < NullifierOf(y, d)
    <2>1. PICK k \in Nat : k = MaxAnchor + 1
        BY AnchorAssumption
    <2>2. PICK e \in Nat : y = x + 1 + e
        <3>1. y - x - 1 \in Nat /\ y = x + 1 + (y - x - 1)
            BY <1>1
        <3> QED
            BY <3>1
    <2>3. y * k = x * k + k + e * k
        BY <2>2
    <2>4. e * k \in Nat /\ x * k \in Nat
        OBVIOUS
    <2>5. c < k /\ c \in Nat /\ d \in Nat
        BY <2>1, AnchorAssumption DEF Anchors, GenesisAnchor
    <2>6. NullifierOf(x, c) = x * k + c /\ NullifierOf(y, d) = y * k + d
        BY <2>1 DEF NullifierOf
    <2> QED
        BY <2>3, <2>4, <2>5, <2>6
<1>2. /\ NullifierOf(s, a) \in Nat /\ NullifierOf(t, b) \in Nat
      /\ a \in Nat /\ b \in Nat /\ s * (MaxAnchor + 1) \in Nat
    BY AnchorAssumption DEF NullifierOf, Anchors, GenesisAnchor
<1>3. ~(s < t) /\ ~(t < s)
    BY <1>1, <1>2
<1>4. s = t
    BY <1>3
<1> QED
    BY <1>2, <1>4 DEF NullifierOf

\* A nullifier belongs to one note.
LEMMA OwnerUnique ==
    ASSUME SecretsDistinct, NEW i \in NoteIds, NEW j \in NoteIds,
           Deposited(i), Deposited(j), NEW a \in Anchors, NEW b \in Anchors,
           NullifierOf(SecretOf(i), a) = NullifierOf(SecretOf(j), b)
    PROVE  i = j /\ a = b
<1>1. SecretOf(i) \in Nat /\ SecretOf(j) \in Nat
    BY DataAssumption DEF SecretsDistinct
<1>2. SecretOf(i) = SecretOf(j) /\ a = b
    BY <1>1, NullifierInjective
<1> QED
    BY <1>2 DEF SecretsDistinct

\* Anchors given out start at the genesis anchor.
LEMMA GenesisGivenOut ==
    ASSUME ArchiveSound
    PROVE  /\ Cardinality(archive) \in Nat /\ LastAnchor \in Nat
           /\ GenesisAnchor \in GivenOut /\ GivenOut \subseteq Anchors
           /\ Anchors \subseteq Nat
<1>1. Cardinality(archive) \in Nat
    BY FS_CardinalityType DEF ArchiveSound
<1> QED
    BY <1>1, AnchorAssumption DEF LastAnchor, GivenOut, Anchors, GenesisAnchor

\* The signed states of a note.
LEMMA SignedState ==
    ASSUME SignaturesSound, NEW m \in signatures, m.kind = "state"
    PROVE  \E id \in NoteIds, b \in Nat, a \in GivenOut :
              /\ Deposited(id)
              /\ m = StateMessage(ThisDeployment, Commitment(b, Leaf(id, notes[id])), a)
<1>1. ASSUME NEW n, m = ClearanceMessage(ThisDeployment, n) PROVE FALSE
    BY <1>1 DEF ClearanceMessage
<1> QED
    BY <1>1 DEF SignaturesSound

\* A clearance that the server has signed is recorded.
LEMMA SignedClearance ==
    ASSUME SignaturesSound, NEW n,
           ClearanceMessage(ThisDeployment, n) \in signatures
    PROVE  n \in clearances
<1>1. ASSUME NEW k, ClearanceMessage(ThisDeployment, n)
                      = ClearanceMessage(ThisDeployment, k)
      PROVE  n = k
    BY <1>1 DEF ClearanceMessage
<1>2. ASSUME NEW c, NEW a, ClearanceMessage(ThisDeployment, n)
                             = StateMessage(ThisDeployment, c, a)
      PROVE  FALSE
    BY <1>2 DEF ClearanceMessage, StateMessage
<1> QED
    BY <1>1, <1>2 DEF SignaturesSound

\* A state of a note is a balance with an anchor given out.
LEMMA StateTyped ==
    ASSUME IInv, ArchiveSound, SignaturesSound, NEW id \in NoteIds,
           NEW s \in StatesOf(id)
    PROVE  /\ s = [balance |-> s.balance, anchor |-> s.anchor]
           /\ s.balance \in Nat /\ s.anchor \in GivenOut
<1>1. CASE s = [balance |-> notes[id].depositAmount, anchor |-> GenesisAnchor]
    <2>1. notes[id].depositAmount \in Nat
        BY DEF IInv, TypeOK, Note
    <2> QED
        BY <1>1, <2>1, GenesisGivenOut
<1>2. ASSUME NEW m \in signatures, m.kind = "state",
             s = [balance |-> m.commitment[1], anchor |-> m.anchor]
      PROVE  s.balance \in Nat /\ s.anchor \in GivenOut
    <2>1. PICK i \in NoteIds, b \in Nat, a \in GivenOut :
             m = StateMessage(ThisDeployment, Commitment(b, Leaf(i, notes[i])), a)
        BY <1>2, SignedState
    <2> QED
        BY <1>2, <2>1 DEF StateMessage, Commitment
<1> QED
    BY <1>1, <1>2 DEF StatesOf

\* A witness that the tree contains names a deposited note by its own data.
LEMMA WitnessIs ==
    ASSUME NEW root, HoldsNotes(root), NEW wit \in Witnesses(root)
    PROVE  /\ wit.noteId \in NoteIds /\ Deposited(wit.noteId)
           /\ root[wit.noteId] # ZeroLeaf
           /\ LeafOf(wit) = Leaf(wit.noteId, notes[wit.noteId])
           /\ wit.secret = SecretOf(wit.noteId)
           /\ wit.deposit = notes[wit.noteId].depositAmount
           /\ wit.balance \in Amounts /\ wit.anchor \in Anchors
           /\ wit.genesis \in BOOLEAN
<1>1. PICK n \in NotesIn(root), b \in Amounts, a \in Anchors, g \in BOOLEAN :
         wit = [noteId |-> n.noteId, secret |-> n.secret, deposit |-> n.deposit,
                expiry |-> n.expiry, siblings |-> root, balance |-> b,
                anchor |-> a, genesis |-> g]
    BY DEF Witnesses
<1>2. PICK id \in NoteIds :
         /\ root[id] # ZeroLeaf
         /\ n = [noteId |-> id, secret |-> root[id][2], deposit |-> root[id][3],
                 expiry |-> root[id][4]]
    BY DEF NotesIn
<1>3. /\ Deposited(id)
      /\ root[id] = <<id, notes[id].commitment, notes[id].depositAmount,
                      notes[id].expiryTs>>
    BY <1>2 DEF HoldsNotes, Leaf, ComputeLeaf
<1>4. /\ n.noteId = id /\ n.secret = notes[id].commitment
      /\ n.deposit = notes[id].depositAmount /\ n.expiry = notes[id].expiryTs
    BY <1>2, <1>3
<1>5. /\ wit.noteId = id /\ wit.secret = notes[id].commitment
      /\ wit.deposit = notes[id].depositAmount /\ wit.expiry = notes[id].expiryTs
      /\ wit.balance = b /\ wit.anchor = a /\ wit.genesis = g
    BY <1>1, <1>4
<1>6. LeafOf(wit) = root[id]
    BY <1>3, <1>5 DEF LeafOf, NoteLeaf, RegistrationCommitment
<1> QED
    BY <1>2, <1>3, <1>5, <1>6 DEF SecretOf, Leaf, ComputeLeaf

\* What the circuits accept is a state of the note.
LEMMA ProvedState ==
    ASSUME NEW root, HoldsNotes(root), NEW wit \in Witnesses(root),
           StateHolds(wit, ThisDeployment, signatures)
    PROVE  [balance |-> wit.balance, anchor |-> wit.anchor] \in StatesOf(wit.noteId)
<1> DEFINE id == wit.noteId
           m == StateMessage(ThisDeployment, Commitment(wit.balance, LeafOf(wit)),
                             wit.anchor)
<1>1. /\ LeafOf(wit) = Leaf(id, notes[id]) /\ wit.genesis \in BOOLEAN
      /\ wit.deposit = notes[id].depositAmount
    BY WitnessIs
<1>2. CASE wit.genesis
    BY <1>1, <1>2 DEF StateHolds, StatesOf
<1>3. CASE ~wit.genesis
    <2>1. /\ m \in signatures /\ m.kind = "state"
          /\ m.commitment[1] = wit.balance /\ m.commitment[2] = Leaf(id, notes[id])
          /\ m.anchor = wit.anchor
        BY <1>1, <1>3 DEF StateHolds, StateMessage, Commitment
    <2> QED
        BY <2>1 DEF StatesOf
<1> QED
    BY <1>1, <1>2, <1>3

\* The vault's own tree holds notes.
LEMMA RootHoldsNotes == ASSUME IInv PROVE HoldsNotes(currentRoot)
BY DEF IInv, TypeOK, TreeMatchesNotes, HoldsNotes, Deposited

-----------------------------------------------------------------------------
(* The vault's steps leave the server's side alone.                        *)

\* A note's own data does not change.
NoteKept(id) ==
    /\ Deposited(id)' <=> Deposited(id)
    /\ notes'[id].commitment = notes[id].commitment
    /\ notes'[id].depositAmount = notes[id].depositAmount
    /\ notes'[id].expiryTs = notes[id].expiryTs
NotesKept == \A id \in NoteIds : NoteKept(id)

\* States, leaves and secrets are functions of what is kept.
LEMMA StatesKept ==
    ASSUME NEW id \in NoteIds, NoteKept(id), UNCHANGED serverVars
    PROVE  /\ Leaf(id, notes[id])' = Leaf(id, notes[id])
           /\ SecretOf(id)' = SecretOf(id)
           /\ StatesOf(id)' = StatesOf(id)
           /\ UnspentStates(id)' = UnspentStates(id)
           /\ OwnNullifiers(id)' = OwnNullifiers(id)
<1>1. Leaf(id, notes[id])' = Leaf(id, notes[id]) /\ SecretOf(id)' = SecretOf(id)
    BY DEF NoteKept, Leaf, SecretOf
<1>2. StatesOf(id)' = StatesOf(id)
    BY <1>1 DEF NoteKept, StatesOf, serverVars
<1> QED
    BY <1>1, <1>2 DEF UnspentStates, OwnNullifiers, serverVars

\* So the server's side stays sound.
LEMMA ServerKept ==
    ASSUME NotesKept, UNCHANGED serverVars, ServerSound
    PROVE  ServerSound'
<1>1. ASSUME NEW id \in NoteIds
      PROVE  /\ Leaf(id, notes[id])' = Leaf(id, notes[id])
             /\ SecretOf(id)' = SecretOf(id)
             /\ UnspentStates(id)' = UnspentStates(id)
             /\ Deposited(id)' <=> Deposited(id)
             /\ notes'[id].depositAmount = notes[id].depositAmount
    BY StatesKept DEF NotesKept, NoteKept
<1>2. archive' = archive /\ GivenOut' = GivenOut
    BY DEF serverVars, GivenOut, LastAnchor
<1>3. SecretsDistinct'
    BY <1>1 DEF ServerSound, SecretsDistinct
<1>4. ArchiveSound'
    BY <1>1, <1>2 DEF ServerSound, ArchiveSound, serverVars
<1>5. SignaturesSound'
    BY <1>1, <1>2 DEF ServerSound, SignaturesSound, serverVars
<1>6. HoldsNotes(serverRoot)'
    BY <1>1 DEF ServerSound, HoldsNotes, serverVars
<1>7. LedgerSound'
    BY <1>1 DEF ServerSound, LedgerSound, Balanced, serverVars
<1> QED
    BY <1>2, <1>3, <1>4, <1>5, <1>6, <1>7 DEF ServerSound, serverVars

\* The two promises about a note that is on its way out, or out.
ExitKept(id) ==
    /\ notes[id].status = "PendingWithdrawal" => ExitSound(id)
    /\ notes[id].status = "Closed" => FinalCharge(id) \/ ClaimedWhole(id)

\* They stay true of a note that a step does not touch.
LEMMA UntouchedNote ==
    ASSUME UNCHANGED serverVars, UNCHANGED now, NEW id \in NoteIds,
           ExitKept(id), notes'[id] = notes[id],
           pendingWithdrawals'[id] = pendingWithdrawals[id],
           paidOut'[id] = paidOut[id]
    PROVE  ExitKept(id)'
<1>1. /\ SecretOf(id)' = SecretOf(id) /\ StatesOf(id)' = StatesOf(id)
      /\ UnspentStates(id)' = UnspentStates(id) /\ archive' = archive
    BY StatesKept DEF NoteKept, Deposited, serverVars
<1>2. (notes[id].status = "PendingWithdrawal" => ExitSound(id))'
    BY <1>1 DEF ExitKept, ExitSound, ChallengeOver, serverVars
<1>3. (notes[id].status = "Closed" => FinalCharge(id) \/ ClaimedWhole(id))'
    BY <1>1 DEF ExitKept, FinalCharge, ClaimedWhole, serverVars
<1> QED
    BY <1>2, <1>3 DEF ExitKept

\* A step of the vault that moves one note to another status keeps the
\* invariant when its nullifiers and the note itself are accounted for.
LEMMA OneNoteStep ==
    ASSUME SInv, IInv', UNCHANGED serverVars, UNCHANGED now,
           NEW id \in NoteIds, Deposited(id),
           NEW st \in NoteStatus \ {"Uninitialized"}, SetStatus(id, st),
           \A other \in NoteIds \ {id} :
               /\ pendingWithdrawals'[other] = pendingWithdrawals[other]
               /\ paidOut'[other] = paidOut[other],
           challenged \subseteq challenged',
           \A n \in usedNullifiers' \ Answered' :
               \/ /\ n \in usedNullifiers
                  /\ \/ notes[id].status = "Active" \/ st = "Closed"
                     \/ n # pendingWithdrawals[id].withdrawalNullifier
               \/ /\ n \in OwnNullifiers(id)
                  /\ \/ st = "Closed"
                     \/ /\ st = "PendingWithdrawal"
                        /\ n = pendingWithdrawals'[id].withdrawalNullifier,
           NotesKept => ExitKept(id)',
           notes[id].status # "Closed"
    PROVE  SInv'
<1>1. /\ notes'[id].status = st
      /\ notes'[id].commitment = notes[id].commitment
      /\ notes'[id].depositAmount = notes[id].depositAmount
      /\ notes'[id].expiryTs = notes[id].expiryTs
      /\ \A other \in NoteIds \ {id} : notes'[other] = notes[other]
    BY StatusTyped DEF SInv, IInv
<1>2. NotesKept
    BY <1>1 DEF NotesKept, NoteKept, Deposited
<1>3. ServerSound'
    BY <1>2, ServerKept DEF SInv
<1>4. ASSUME NEW other \in NoteIds PROVE ExitKept(other)'
    <2>1. CASE other = id
        BY <1>2, <2>1
    <2>2. CASE other # id
        <3>1. ExitKept(other)
            BY DEF SInv, PendingExits, SettledSound, ExitKept
        <3>2. /\ notes'[other] = notes[other]
              /\ pendingWithdrawals'[other] = pendingWithdrawals[other]
              /\ paidOut'[other] = paidOut[other]
            BY <1>1, <2>2
        <3> QED
            BY <3>1, <3>2, UntouchedNote
    <2> QED
        BY <2>1, <2>2
<1>5. PendingExits' /\ SettledSound'
    BY <1>4 DEF PendingExits, SettledSound, ExitKept
<1>6. BurnedSound'
    <2>1. /\ Answered \subseteq Answered'
          /\ \A i \in NoteIds : OwnNullifiers(i)' = OwnNullifiers(i)
        BY <1>2, StatesKept DEF NotesKept, serverVars, Answered
    <2>2. ASSUME NEW n \in usedNullifiers' \ Answered'
          PROVE  \E i \in NoteIds :
                    /\ n \in OwnNullifiers(i)
                    /\ \/ notes'[i].status = "Closed"
                       \/ /\ notes'[i].status = "PendingWithdrawal"
                          /\ n = pendingWithdrawals'[i].withdrawalNullifier
        <3>1. CASE /\ n \in OwnNullifiers(id)
                   /\ \/ st = "Closed"
                      \/ /\ st = "PendingWithdrawal"
                         /\ n = pendingWithdrawals'[id].withdrawalNullifier
            BY <1>1, <3>1
        <3>2. CASE /\ n \in usedNullifiers
                   /\ \/ notes[id].status = "Active" \/ st = "Closed"
                      \/ n # pendingWithdrawals[id].withdrawalNullifier
            <4>1. PICK i \in NoteIds :
                    /\ n \in OwnNullifiers(i)
                    /\ \/ notes[i].status = "Closed"
                       \/ /\ notes[i].status = "PendingWithdrawal"
                          /\ n = pendingWithdrawals[i].withdrawalNullifier
                BY <2>1, <2>2, <3>2 DEF SInv, BurnedSound
            <4>2. CASE i = id
                BY <1>1, <3>2, <4>1, <4>2
            <4>3. CASE i # id
                BY <1>1, <4>1, <4>3
            <4> QED
                BY <4>2, <4>3
        <3> QED
            BY <2>2, <3>1, <3>2
    <2> QED
        BY <2>1, <2>2 DEF BurnedSound
<1> QED
    BY <1>3, <1>5, <1>6 DEF SInv

-----------------------------------------------------------------------------
(* The vault's steps.                                                      *)

\* A state that is not spent is the one that holds what was not charged.
LEMMA UnspentHoldsRest ==
    ASSUME ServerSound, NEW id \in NoteIds, Deposited(id), NEW s \in StatesOf(id),
           NullifierOf(SecretOf(id), s.anchor) \notin archive
    PROVE  /\ UnspentStates(id) = {s}
           /\ s.balance \in Nat /\ charged[id] \in Nat
           /\ s.balance + charged[id] = notes[id].depositAmount
<1>1. s \in UnspentStates(id)
    BY DEF UnspentStates
<1>2. Balanced(id) /\ charged[id] \in Nat
    BY DEF ServerSound, LedgerSound
<1> QED
    BY <1>1, <1>2 DEF Balanced

\* An Active or frozen note has paid nothing yet.
LEMMA NothingPaid ==
    ASSUME IInv, NEW id \in NoteIds, notes[id].status # "Closed"
    PROVE  paidOut[id].user = 0 /\ paidOut[id].operator = 0
<1>1. paidOut[id].user \in Nat /\ paidOut[id].operator \in Nat
    BY DEF IInv, TypeOK
<1> QED
    BY <1>1 DEF IInv, PaidExactlyOnce

\* The inputs of an exit are inputs of the vault, for a state of the note.
LEMMA ExitIs ==
    ASSUME SInv, NEW wit \in Witnesses(currentRoot), NEW cleared \in BOOLEAN,
           NEW pub, pub = WithdrawalOf(wit, currentRoot, cleared),
           WithdrawalHolds(pub, wit, signatures)
    PROVE  \E s \in StatesOf(pub.noteId) :
             /\ pub \in WithdrawalInputs(TreeViews)
             /\ pub.noteId \in NoteIds /\ Deposited(pub.noteId)
             /\ s.balance = pub.finalBalance
             /\ s.anchor \in Anchors
             /\ pub.withdrawalNullifier = NullifierOf(SecretOf(pub.noteId), s.anchor)
             /\ cleared => pub.withdrawalNullifier \in clearances
<1>1. HoldsNotes(currentRoot)
    BY RootHoldsNotes DEF SInv
<1>2. /\ wit.noteId \in NoteIds /\ Deposited(wit.noteId)
      /\ wit.secret = SecretOf(wit.noteId)
      /\ wit.balance \in Amounts /\ wit.anchor \in Anchors
    BY <1>1, WitnessIs
<1>3. /\ pub.deployment = ThisDeployment /\ pub.noteId = wit.noteId
      /\ pub.finalBalance = wit.balance /\ pub.hasClearance = cleared
      /\ pub.withdrawalNullifier = NullifierOf(wit.secret, wit.anchor)
    BY DEF WithdrawalOf
<1>4. StateHolds(wit, ThisDeployment, signatures)
    BY <1>3 DEF WithdrawalHolds
<1>5. PICK s : s = [balance |-> wit.balance, anchor |-> wit.anchor]
    OBVIOUS
<1>6. s \in StatesOf(pub.noteId)
    BY <1>1, <1>3, <1>4, <1>5, ProvedState
<1>7. pub.withdrawalNullifier \in Nullifiers
    BY <1>2, <1>3, HashAssumption DEF SInv, ServerSound, SecretsDistinct
<1>8. pub \in WithdrawalInputs(TreeViews)
    <2>1. NullifierOf(wit.secret, wit.anchor) \in Nullifiers
        BY <1>3, <1>7
    <2> QED
        BY <1>2, <2>1, DataAssumption, ChargeAssumption
           DEF WithdrawalOf, WithdrawalInputs, TreeViews
<1>9. cleared => pub.withdrawalNullifier \in clearances
    BY <1>3, SignedClearance DEF WithdrawalHolds, SInv, ServerSound
<1> QED
    BY <1>2, <1>3, <1>5, <1>6, <1>8, <1>9

\* mutualClose: the cleared state is unspent and stays so.
LEMMA CooperativeExit ==
    ASSUME SInv, NEW wit \in Witnesses(currentRoot), Exit(wit, TRUE)
    PROVE  SInv'
<1>1. PICK pub : pub = WithdrawalOf(wit, currentRoot, TRUE)
    OBVIOUS
<1>2. /\ WithdrawalHolds(pub, wit, signatures)
      /\ MutualClose(pub, currentRoot) /\ UNCHANGED serverVars
    BY <1>1 DEF Exit
<1>3. PICK id, share, n :
         id = pub.noteId /\ share = OperatorShare(id, pub.finalBalance)
         /\ n = pub.withdrawalNullifier
    OBVIOUS
<1>4. PICK s \in StatesOf(id) :
         /\ pub \in WithdrawalInputs(TreeViews) /\ id \in NoteIds /\ Deposited(id)
         /\ s.balance = pub.finalBalance /\ s.anchor \in Anchors
         /\ n = NullifierOf(SecretOf(id), s.anchor)
         /\ n \in clearances
    BY <1>1, <1>2, <1>3, ExitIs
<1>5. IInv /\ TypeOK /\ ServerSound
    BY DEF SInv, IInv
<1>6. currentRoot \in TreeViews
    BY DEF TreeViews
<1>7. IInv'
    BY <1>2, <1>4, <1>5, <1>6, MutualCloseIInv
<1>8. /\ notes[id].status = "Active" /\ share \in Nat /\ pub.finalBalance \in Nat
      /\ usedNullifiers' = usedNullifiers \cup {n}
    BY <1>2, <1>3, <1>4, <1>5, AcceptFacts DEF MutualClose
<1>9. /\ SetStatus(id, "Closed") /\ Pay(id, pub.destination, pub.finalBalance, share)
      /\ UNCHANGED <<pendingWithdrawals, now, challenged>>
    BY <1>2, <1>3 DEF MutualClose
<1>10. /\ paidOut'[id].operator = paidOut[id].operator + share
       /\ \A other \in NoteIds \ {id} : paidOut'[other] = paidOut[other]
    BY <1>4, <1>5, <1>8, <1>9, PayTyped
<1>11. n \notin archive
    BY <1>4, <1>5 DEF ServerSound
<1>12. /\ UnspentStates(id) = {s} /\ charged[id] \in Nat
       /\ s.balance + charged[id] = notes[id].depositAmount
    BY <1>4, <1>5, <1>11, UnspentHoldsRest
<1>13. paidOut'[id].operator = charged[id]
    <2>1. paidOut[id].operator = 0
        BY <1>4, <1>5, <1>8, NothingPaid
    <2> QED
        BY <1>3, <1>4, <1>8, <1>10, <1>12, <2>1 DEF OperatorShare
<1>14. "Closed" \in NoteStatus \ {"Uninitialized"}
    BY DEF NoteStatus
<1>15. ASSUME NotesKept PROVE ExitKept(id)'
    <2>1. UnspentStates(id)' = {s} /\ SecretOf(id)' = SecretOf(id)
        BY <1>2, <1>4, <1>12, <1>15, StatesKept DEF NotesKept
    <2>2. notes'[id].status = "Closed"
        BY <1>4, <1>5, <1>9, <1>14, StatusTyped
    <2>3. FinalCharge(id)'
        BY <1>2, <1>4, <1>13, <2>1 DEF FinalCharge, serverVars
    <2> QED
        BY <2>2, <2>3 DEF ExitKept
<1>16. n \in OwnNullifiers(id)
    BY <1>4 DEF OwnNullifiers
<1>17. \A k \in usedNullifiers' \ Answered' :
         \/ k \in usedNullifiers /\ notes[id].status = "Active"
         \/ k \in OwnNullifiers(id)
    BY <1>8, <1>16
<1> QED
    BY <1>2, <1>4, <1>7, <1>8, <1>9, <1>10, <1>14, <1>15, <1>17, OneNoteStep

\* initiateEscapeWithdrawal: any state, spent or not; the deadline is ahead.
LEMMA EscapeExit ==
    ASSUME SInv, NEW wit \in Witnesses(currentRoot), Exit(wit, FALSE)
    PROVE  SInv'
<1>1. PICK pub : pub = WithdrawalOf(wit, currentRoot, FALSE)
    OBVIOUS
<1>2. /\ WithdrawalHolds(pub, wit, signatures)
      /\ InitiateEscapeWithdrawal(pub, currentRoot) /\ UNCHANGED serverVars
    BY <1>1 DEF Exit
<1>3. PICK id, n : id = pub.noteId /\ n = pub.withdrawalNullifier
    OBVIOUS
<1>4. PICK s \in StatesOf(id) :
         /\ pub \in WithdrawalInputs(TreeViews) /\ id \in NoteIds /\ Deposited(id)
         /\ s.balance = pub.finalBalance /\ s.anchor \in Anchors
         /\ n = NullifierOf(SecretOf(id), s.anchor)
    BY <1>1, <1>2, <1>3, ExitIs
<1>5. IInv /\ TypeOK
    BY DEF SInv, IInv
<1>6. currentRoot \in TreeViews
    BY DEF TreeViews
<1>7. IInv'
    BY <1>2, <1>4, <1>5, <1>6, InitiateIInv
<1>8. /\ notes[id].status = "Active"
      /\ usedNullifiers' = usedNullifiers \cup {n}
    BY <1>2, <1>3, <1>4, <1>5, AcceptFacts DEF InitiateEscapeWithdrawal
<1>9. /\ SetStatus(id, "PendingWithdrawal") /\ UNCHANGED <<now, paidOut, challenged>>
      /\ pendingWithdrawals' = [pendingWithdrawals EXCEPT ![id] =
           [exists |-> TRUE, activeRoot |-> currentRoot,
            withdrawalNullifier |-> n, finalBalance |-> pub.finalBalance,
            destination |-> pub.destination,
            challengeDeadline |-> now + ChallengePeriod]]
    BY <1>2, <1>3 DEF InitiateEscapeWithdrawal, historyVars
<1>10. /\ pendingWithdrawals'[id].withdrawalNullifier = n
       /\ pendingWithdrawals'[id].finalBalance = pub.finalBalance
       /\ pendingWithdrawals'[id].challengeDeadline = now + ChallengePeriod
       /\ \A other \in NoteIds \ {id} :
            pendingWithdrawals'[other] = pendingWithdrawals[other]
    BY <1>4, <1>5, <1>9 DEF TypeOK
<1>11. "PendingWithdrawal" \in NoteStatus \ {"Uninitialized"}
    BY DEF NoteStatus
<1>12. ASSUME NotesKept PROVE ExitKept(id)'
    <2>1. StatesOf(id)' = StatesOf(id) /\ SecretOf(id)' = SecretOf(id)
        BY <1>2, <1>4, <1>12, StatesKept DEF NotesKept
    <2>2. notes'[id].status = "PendingWithdrawal"
        BY <1>4, <1>5, <1>9, <1>11, StatusTyped
    <2>3. ~ChallengeOver(id)'
        <3>1. now \in Nat
            BY <1>5, BoundsAssumption DEF TypeOK
        <3> QED
            BY <1>9, <1>10, <3>1, PeriodAssumption DEF ChallengeOver
    <2>4. ExitSound(id)'
        BY <1>4, <1>10, <2>1, <2>3 DEF ExitSound
    <2> QED
        BY <2>2, <2>4 DEF ExitKept
<1>13. n \in OwnNullifiers(id)
    BY <1>4 DEF OwnNullifiers
<1>14. \A k \in usedNullifiers' \ Answered' :
         \/ k \in usedNullifiers /\ notes[id].status = "Active"
         \/ k \in OwnNullifiers(id)
            /\ k = pendingWithdrawals'[id].withdrawalNullifier
    BY <1>8, <1>10, <1>13
<1> QED
    BY <1>2, <1>4, <1>7, <1>8, <1>9, <1>10, <1>11, <1>12, <1>14, OneNoteStep

\* challengeEscapeWithdrawal: the nullifier that stays burned is one of a
\* request proof its owner has sent.
LEMMA ChallengeKeeps ==
    ASSUME SInv, NEW id \in NoteIds, NEW n \in sent, Challenge(id, n)
    PROVE  SInv'
<1>0. PICK r : r = [deployment |-> ThisDeployment, requestNullifier |-> n]
    OBVIOUS
<1>1. IInv /\ TypeOK /\ currentRoot \in TreeViews
    BY DEF SInv, IInv, TreeViews
<1>2. /\ ChallengeEscapeWithdrawal(id, r, currentRoot) /\ UNCHANGED serverVars
      /\ notes[id].status = "PendingWithdrawal" /\ Deposited(id)
      /\ SetStatus(id, "Active") /\ DeletePending(id)
      /\ UNCHANGED <<usedNullifiers, now, paidOut>>
      /\ n = pendingWithdrawals[id].withdrawalNullifier
      /\ challenged' = challenged \cup {n}
    BY <1>0 DEF Challenge, ChallengeEscapeWithdrawal, IsPending, Contradicts, Deposited
<1>3. IInv'
    BY <1>1, <1>2, ChallengeIInv
<1>4. \A other \in NoteIds \ {id} :
         pendingWithdrawals'[other] = pendingWithdrawals[other]
    BY <1>1, <1>2, DeleteTyped
<1>5. "Active" \in NoteStatus \ {"Uninitialized"}
    BY DEF NoteStatus
<1>6. ExitKept(id)'
    <2>1. notes'[id].status = "Active"
        BY <1>1, <1>2, <1>5, StatusTyped
    <2> QED
        BY <2>1 DEF ExitKept
<1>7. pendingWithdrawals[id].withdrawalNullifier \in Answered'
    BY <1>2 DEF Answered, serverVars
<1> QED
    BY <1>2, <1>3, <1>4, <1>5, <1>6, <1>7, OneNoteStep

\* finalizeEscapeWithdrawal: what survived the challenge period is unspent.
LEMMA FinalizeKeeps ==
    ASSUME SInv, NEW id \in NoteIds, Finalize(id)
    PROVE  SInv'
<1>1. IInv /\ TypeOK /\ ServerSound
    BY DEF SInv, IInv
<1>2. PICK p, share : p = pendingWithdrawals[id]
                      /\ share = OperatorShare(id, p.finalBalance)
    OBVIOUS
<1>3. /\ FinalizeEscapeWithdrawal(id) /\ UNCHANGED serverVars
      /\ notes[id].status = "PendingWithdrawal" /\ Deposited(id)
      /\ ChallengeOver(id) /\ SetStatus(id, "Closed") /\ DeletePending(id)
      /\ Pay(id, p.destination, p.finalBalance, share)
      /\ UNCHANGED <<usedNullifiers, now, challenged>>
    BY <1>2 DEF Finalize, FinalizeEscapeWithdrawal, IsPending, Deposited
<1>4. IInv'
    BY <1>1, <1>3, FinalizeIInv
<1>5. /\ serverRoot[id] = ZeroLeaf /\ p.withdrawalNullifier \notin archive
      /\ \E s \in StatesOf(id) :
           /\ s.balance = p.finalBalance
           /\ p.withdrawalNullifier = NullifierOf(SecretOf(id), s.anchor)
    BY <1>2, <1>3 DEF SInv, PendingExits, ExitSound
<1>6. /\ p.finalBalance \in Nat /\ charged[id] \in Nat
      /\ p.finalBalance + charged[id] = notes[id].depositAmount
    BY <1>1, <1>3, <1>5, UnspentHoldsRest
<1>7. share = charged[id]
    BY <1>2, <1>6 DEF OperatorShare
<1>8. /\ paidOut'[id].operator = paidOut[id].operator + share
      /\ \A other \in NoteIds \ {id} : paidOut'[other] = paidOut[other]
    BY <1>1, <1>3, <1>6, <1>7, PayTyped
<1>9. \A other \in NoteIds \ {id} :
         pendingWithdrawals'[other] = pendingWithdrawals[other]
    BY <1>1, <1>3, DeleteTyped
<1>10. "Closed" \in NoteStatus \ {"Uninitialized"}
    BY DEF NoteStatus
<1>11. ExitKept(id)'
    <2>1. notes'[id].status = "Closed"
        BY <1>1, <1>3, <1>10, StatusTyped
    <2>2. paidOut'[id].operator = charged[id]
        BY <1>1, <1>3, <1>6, <1>7, <1>8, NothingPaid
    <2>3. FinalCharge(id)'
        BY <1>3, <1>5, <2>2 DEF FinalCharge, serverVars
    <2> QED
        BY <2>1, <2>3 DEF ExitKept
<1> QED
    BY <1>3, <1>4, <1>8, <1>9, <1>10, <1>11, OneNoteStep

\* claimExpired: the user gets nothing, after the expiry.
LEMMA ClaimKeeps ==
    ASSUME SInv, NEW id \in NoteIds, Claim(id)
    PROVE  SInv'
<1>1. IInv /\ TypeOK /\ currentRoot \in TreeViews
    BY DEF SInv, IInv, TreeViews
<1>2. /\ ClaimExpired(id, currentRoot) /\ UNCHANGED serverVars
      /\ notes[id].status = "Active" /\ Deposited(id)
      /\ now >= notes[id].expiryTs /\ SetStatus(id, "Closed")
      /\ Pay(id, treasury, 0, notes[id].depositAmount)
      /\ UNCHANGED <<pendingWithdrawals, usedNullifiers, now, challenged>>
    BY DEF Claim, ClaimExpired, Expired, Deposited
<1>3. IInv'
    BY <1>1, <1>2, ClaimExpiredIInv
<1>4. /\ paidOut'[id].user = paidOut[id].user + 0
      /\ \A other \in NoteIds \ {id} : paidOut'[other] = paidOut[other]
    <2>1. notes[id].depositAmount \in Nat
        BY <1>1 DEF TypeOK, Note
    <2> QED
        BY <1>1, <1>2, <2>1, PayTyped
<1>5. "Closed" \in NoteStatus \ {"Uninitialized"}
    BY DEF NoteStatus
<1>6. ExitKept(id)'
    <2>1. notes'[id].status = "Closed" /\ notes'[id].expiryTs = notes[id].expiryTs
        BY <1>1, <1>2, <1>5, StatusTyped
    <2>2. paidOut'[id].user = 0
        BY <1>1, <1>2, <1>4, NothingPaid
    <2>3. ClaimedWhole(id)'
        BY <1>2, <2>1, <2>2 DEF ClaimedWhole
    <2> QED
        BY <2>1, <2>3 DEF ExitKept
<1> QED
    BY <1>2, <1>3, <1>4, <1>5, <1>6, OneNoteStep

\* The owner and the clock: time passes a deadline only when the server has
\* seen the exit and holds nothing against it.
LEMMA OwnerAndTickKeep ==
    ASSUME SInv, OwnerStep \/ TimelyTick
    PROVE  SInv'
<1>1. IInv /\ TypeOK /\ ServerSound
    BY DEF SInv, IInv
<1>2. /\ UNCHANGED serverVars
      /\ UNCHANGED <<currentRoot, notes, pendingWithdrawals, usedNullifiers, paidOut,
                     challenged>>
    BY DEF OwnerStep, TimelyTick, SetTreasury, Pause, Unpause, SetPaused, Tick,
           contractVars, historyVars
<1>3. IInv'
    BY <1>1, OwnerAndTickIInv DEF OwnerStep, TimelyTick
<1>4. NotesKept
    BY <1>2 DEF NotesKept, NoteKept, Deposited
<1>5. ServerSound'
    BY <1>1, <1>2, <1>4, ServerKept
<1>6. \A id \in NoteIds :
         /\ SecretOf(id)' = SecretOf(id) /\ StatesOf(id)' = StatesOf(id)
         /\ UnspentStates(id)' = UnspentStates(id)
         /\ OwnNullifiers(id)' = OwnNullifiers(id)
    BY <1>2, <1>4, StatesKept DEF NotesKept
<1>7. archive' = archive /\ Answered' = Answered
    BY <1>2 DEF serverVars, Answered
<1>8. BurnedSound'
    BY <1>2, <1>6, <1>7 DEF SInv, BurnedSound
<1>9. CASE OwnerStep
    <2>1. now' = now
        BY <1>9 DEF OwnerStep, SetTreasury, Pause, Unpause, SetPaused
    <2>2. ASSUME NEW id \in NoteIds PROVE ExitKept(id)'
        <3>1. ExitKept(id)
            BY DEF SInv, PendingExits, SettledSound, ExitKept
        <3> QED
            BY <1>2, <2>1, <3>1, UntouchedNote
    <2>3. PendingExits' /\ SettledSound'
        BY <2>2 DEF PendingExits, SettledSound, ExitKept
    <2> QED
        BY <1>3, <1>5, <1>8, <2>3 DEF SInv
<1>10. CASE TimelyTick
    <2>1. /\ now' = now + 1 /\ now \in Nat /\ serverRoot = currentRoot
        BY <1>1, <1>10, BoundsAssumption DEF TimelyTick, Timely, Tick, TypeOK
    <2>2. ASSUME NEW id \in NoteIds, notes[id].status = "PendingWithdrawal"
          PROVE  ExitSound(id)'
        <3>1. ExitSound(id) /\ pendingWithdrawals[id].exists
            BY <1>1, <2>2 DEF SInv, PendingExits, IInv, PendingSound
        <3>2. currentRoot[id] = ZeroLeaf
            BY <1>1, <2>2 DEF IInv, TreeMatchesNotes
        <3>3. ASSUME ChallengeOver(id)'
              PROVE  pendingWithdrawals[id].withdrawalNullifier \notin archive
            <4>1. now + 1 >= pendingWithdrawals[id].challengeDeadline
                BY <1>2, <2>1, <3>3 DEF ChallengeOver
            <4>2. pendingWithdrawals[id].challengeDeadline \in Nat
                BY <1>1 DEF TypeOK, PendingData
            <4>3. ~Evidence(id)
                BY <1>10, <2>1, <2>2, <3>1, <4>1, <4>2 DEF TimelyTick, Timely, IsPending
            <4> QED
                BY <4>3 DEF Evidence
        <3> QED
            BY <1>2, <1>6, <1>7, <2>1, <3>1, <3>2, <3>3 DEF ExitSound, serverVars
    <2>3. PendingExits'
        BY <1>2, <2>2 DEF PendingExits
    <2>4. SettledSound'
        <3>1. ASSUME NEW id \in NoteIds, ClaimedWhole(id) PROVE ClaimedWhole(id)'
            <4>1. notes[id].expiryTs \in Nat
                BY <1>1 DEF TypeOK, Note
            <4> QED
                BY <1>2, <2>1, <3>1, <4>1 DEF ClaimedWhole
        <3>2. ASSUME NEW id \in NoteIds, FinalCharge(id) PROVE FinalCharge(id)'
            BY <1>2, <1>6, <3>2 DEF FinalCharge, serverVars
        <3> QED
            BY <1>2, <3>1, <3>2 DEF SInv, SettledSound
    <2> QED
        BY <1>3, <1>5, <1>8, <2>3, <2>4 DEF SInv
<1> QED
    BY <1>9, <1>10

\* deposit: the new note's only state is its deposit, which no nullifier of
\* the archive and no signature is about.
LEMMA DepositKeeps ==
    ASSUME SInv, NEW secret \in Commitments, NEW amount \in DepositAmounts,
           FreshDeposit(secret, amount)
    PROVE  SInv'
<1>1. IInv /\ TypeOK /\ ServerSound /\ currentRoot \in TreeViews
    BY DEF SInv, IInv, TreeViews
<1>2. PICK value, new : value = amount * NativeAssetWeiPerUnit /\ new = nextNoteId
    OBVIOUS
<1>3. /\ Deposit(secret, amount, value, currentRoot) /\ UNCHANGED serverVars
      /\ \A id \in NoteIds : SecretOf(id) # secret
    BY <1>2 DEF FreshDeposit, RegistrationCommitment, SecretOf
<1>4. amount \in Amounts /\ amount \in Nat /\ secret \in Nat
    BY ChargeAssumption, DataAssumption
<1>5. IInv'
    <2>1. value \in Values
        BY <1>2, <1>4, BoundsAssumption DEF Values, UnitValue
    <2> QED
        BY <1>1, <1>3, <1>4, <2>1, DepositIInv
<1>6. /\ new \in NoteIds /\ ~Deposited(new)
      /\ notes[new].status = "Uninitialized"
      /\ notes'[new].commitment = secret /\ notes'[new].depositAmount = amount
      /\ notes'[new].status = "Active"
      /\ \A id \in NoteIds \ {new} : notes'[id] = notes[id]
      /\ UNCHANGED <<pendingWithdrawals, usedNullifiers, now, paidOut, challenged>>
    <2>1. new \in NoteIds /\ notes[new] = NoNote
        BY <1>1, <1>2 DEF IInv, IdsInOrder, TypeOK, NoteIds
    <2> QED
        BY <1>1, <1>2, <1>3, <2>1 DEF Deposit, TypeOK, NoNote, Deposited, historyVars
<1>7. ASSUME NEW id \in NoteIds \ {new}
      PROVE  /\ Leaf(id, notes[id])' = Leaf(id, notes[id])
             /\ SecretOf(id)' = SecretOf(id)
             /\ UnspentStates(id)' = UnspentStates(id)
             /\ OwnNullifiers(id)' = OwnNullifiers(id)
             /\ Deposited(id)' <=> Deposited(id)
             /\ notes'[id] = notes[id]
    BY <1>3, <1>6, StatesKept DEF NoteKept, Deposited
<1>8. SecretOf(new)' = secret /\ Deposited(new)'
    BY <1>6 DEF SecretOf, Deposited
<1>9. archive' = archive /\ GivenOut' = GivenOut
    BY <1>3 DEF serverVars, GivenOut, LastAnchor
<1>10. SecretsDistinct'
    BY <1>1, <1>3, <1>6, <1>7, <1>8 DEF ServerSound, SecretsDistinct
<1>11. ArchiveSound'
    <2>1. ASSUME NEW n \in archive
          PROVE  \E id \in NoteIds, a \in GivenOut :
                    Deposited(id)' /\ n = NullifierOf(SecretOf(id)', a)
        <3>1. PICK id \in NoteIds, a \in GivenOut :
                 Deposited(id) /\ n = NullifierOf(SecretOf(id), a)
            BY <1>1 DEF ServerSound, ArchiveSound
        <3> QED
            BY <1>6, <1>7, <3>1
    <2> QED
        BY <1>1, <1>3, <1>9, <2>1 DEF ServerSound, ArchiveSound, serverVars
<1>12. SignaturesSound'
    <2>1. ASSUME NEW id \in NoteIds, Deposited(id)
          PROVE  Deposited(id)' /\ Leaf(id, notes[id])' = Leaf(id, notes[id])
        BY <1>6, <1>7, <2>1
    <2> QED
        BY <1>1, <1>3, <1>9, <2>1 DEF ServerSound, SignaturesSound, serverVars
<1>13. HoldsNotes(serverRoot)'
    <2>1. \A id \in NoteIds : serverRoot[id] # ZeroLeaf => id # new
        BY <1>1, <1>6 DEF ServerSound, HoldsNotes
    <2> QED
        BY <1>1, <1>3, <1>7, <2>1 DEF ServerSound, HoldsNotes, serverVars
<1>14. Balanced(new)' /\ charged'[new] \in Nat
    <2>1. ASSUME NEW m \in signatures, m.kind = "state"
          PROVE  m.commitment[2] # Leaf(new, notes[new])'
        <3>1. PICK id \in NoteIds, b \in Nat, a \in GivenOut :
                 /\ Deposited(id)
                 /\ m = StateMessage(ThisDeployment, Commitment(b, Leaf(id, notes[id])), a)
            BY <1>1, <2>1, SignedState DEF ServerSound
        <3>2. m.commitment[2] = Leaf(id, notes[id]) /\ id # new
            BY <1>6, <3>1 DEF StateMessage, Commitment
        <3> QED
            BY <3>2 DEF Leaf, ComputeLeaf
    <2>2. PICK s : s = [balance |-> amount, anchor |-> GenesisAnchor]
        OBVIOUS
    <2>3. StatesOf(new)' = {s}
        BY <1>3, <1>6, <2>1, <2>2 DEF StatesOf, serverVars
    <2>4. NullifierOf(secret, GenesisAnchor) \notin archive
        <3>1. SUFFICES ASSUME NullifierOf(secret, GenesisAnchor) \in archive PROVE FALSE
            OBVIOUS
        <3>2. PICK id \in NoteIds, a \in GivenOut :
                 /\ Deposited(id)
                 /\ NullifierOf(secret, GenesisAnchor) = NullifierOf(SecretOf(id), a)
            BY <1>1, <3>1 DEF ServerSound, ArchiveSound
        <3>3. SecretOf(id) \in Nat /\ a \in Anchors /\ GenesisAnchor \in Anchors
            BY <1>1, <3>2, DataAssumption, GenesisGivenOut
               DEF ServerSound, SecretsDistinct
        <3> QED
            BY <1>3, <1>4, <3>2, <3>3, NullifierInjective
    <2>5. UnspentStates(new)' = {s}
        BY <1>8, <1>9, <2>2, <2>3, <2>4 DEF UnspentStates
    <2>6. charged'[new] = 0
        BY <1>1, <1>3, <1>6 DEF ServerSound, LedgerSound, serverVars
    <2> QED
        BY <1>4, <1>6, <2>2, <2>5, <2>6 DEF Balanced
<1>15. LedgerSound'
    <2>1. charged' = charged /\ charged \in [NoteIds -> Nat]
        BY <1>1, <1>3 DEF ServerSound, LedgerSound, serverVars
    <2>2. ASSUME NEW id \in NoteIds \ {new}
          PROVE  IF Deposited(id)' THEN Balanced(id)' ELSE charged'[id] = 0
        BY <1>1, <1>7, <2>1, <2>2 DEF ServerSound, LedgerSound, Balanced
    <2> QED
        BY <1>8, <1>14, <2>1, <2>2 DEF LedgerSound
<1>16. ServerSound'
    BY <1>1, <1>3, <1>9, <1>10, <1>11, <1>12, <1>13, <1>15 DEF ServerSound, serverVars
<1>17. BurnedSound'
    <2>1. \A id \in NoteIds :
             notes[id].status \in {"Closed", "PendingWithdrawal"} => id # new
        BY <1>6
    <2> QED
        BY <1>3, <1>6, <1>7, <2>1 DEF SInv, BurnedSound, Answered, serverVars
<1>18. ASSUME NEW id \in NoteIds PROVE ExitKept(id)'
    <2>1. CASE id = new
        BY <1>6, <2>1 DEF ExitKept
    <2>2. CASE id # new
        <3>1. ExitKept(id)
            BY DEF SInv, PendingExits, SettledSound, ExitKept
        <3>2. UNCHANGED now /\ pendingWithdrawals'[id] = pendingWithdrawals[id]
              /\ paidOut'[id] = paidOut[id] /\ notes'[id] = notes[id]
            BY <1>6, <2>2
        <3> QED
            BY <1>3, <3>1, <3>2, UntouchedNote
    <2> QED
        BY <2>1, <2>2
<1>19. PendingExits' /\ SettledSound'
    BY <1>18 DEF PendingExits, SettledSound, ExitKept
<1> QED
    BY <1>5, <1>16, <1>17, <1>19 DEF SInv

-----------------------------------------------------------------------------
(* The server's steps.                                                     *)

\* They leave the vault, and with it every note's own data, alone.
LEMMA VaultUntouched ==
    ASSUME SInv, UNCHANGED vars
    PROVE  /\ IInv' /\ SecretsDistinct'
           /\ UNCHANGED <<currentRoot, notes, pendingWithdrawals, usedNullifiers,
                          now, paidOut, challenged>>
           /\ \A id \in NoteIds :
                /\ Leaf(id, notes[id])' = Leaf(id, notes[id])
                /\ SecretOf(id)' = SecretOf(id)
                /\ OwnNullifiers(id)' = OwnNullifiers(id)
                /\ Deposited(id)' <=> Deposited(id)
                /\ ChallengeOver(id)' <=> ChallengeOver(id)
                /\ ClaimedWhole(id)' <=> ClaimedWhole(id)
<1>1. UNCHANGED <<treasury, paused, currentRoot, nextNoteId, notes,
                  pendingWithdrawals, usedNullifiers, vaultBalance, now, paidOut,
                  paidNullifiers, challenged>>
    BY DEF vars, contractVars, historyVars
<1>2. IInv'
    <2>1. TypeOK'
        BY <1>1 DEF SInv, IInv, TypeOK
    <2>2. TreeMatchesNotes' /\ IdsInOrder'
        BY <1>1 DEF SInv, IInv, TreeMatchesNotes, IdsInOrder
    <2>3. PendingSound' /\ OutcomesBurned'
        BY <1>1 DEF SInv, IInv, PendingSound, OutcomesBurned
    <2>4. ChallengedNeverPaid' /\ PaidExactlyOnce'
        BY <1>1 DEF SInv, IInv, ChallengedNeverPaid, PaidExactlyOnce
    <2> QED
        BY <2>1, <2>2, <2>3, <2>4 DEF IInv
<1>3. \A id \in NoteIds : SecretOf(id)' = SecretOf(id)
                          /\ (Deposited(id)' <=> Deposited(id))
    BY <1>1 DEF SecretOf, Deposited
<1>4. SecretsDistinct'
    BY <1>3 DEF SInv, ServerSound, SecretsDistinct
<1> QED
    BY <1>1, <1>2, <1>3, <1>4
       DEF Leaf, OwnNullifiers, ChallengeOver, ClaimedWhole

\* What a served request spends and what it leaves: the note's one unspent
\* state gives way to a successor at an anchor that nothing has used.
LEMMA RequestIs ==
    ASSUME SInv, NEW wit \in Witnesses(serverRoot), NEW charge \in Charges,
           ServeRequest(wit, charge), NEW id, id = wit.noteId
    PROVE  \E s, t, n :
             /\ id \in NoteIds /\ Deposited(id) /\ serverRoot[id] # ZeroLeaf
             /\ s.anchor \in GivenOut /\ n = NullifierOf(SecretOf(id), s.anchor)
             /\ n \notin archive \cup clearances
             /\ UnspentStates(id) = {s}
             /\ t.anchor \in Anchors /\ t.anchor \notin GivenOut
             /\ t = [balance |-> t.balance, anchor |-> t.anchor]
             /\ t.balance \in Nat
             /\ t.balance + charge + charged[id] = notes[id].depositAmount
             /\ signatures' = signatures \cup
                  {StateMessage(ThisDeployment,
                     Commitment(t.balance, Leaf(id, notes[id])), t.anchor)}
             /\ IsFiniteSet(archive') /\ archive' = archive \cup {n}
             /\ GivenOut \subseteq GivenOut' /\ t.anchor \in GivenOut'
<1>1. IInv /\ ServerSound /\ HoldsNotes(serverRoot)
    BY DEF SInv, ServerSound
<1>2. PICK pub, n : pub = RequestOf(wit, serverRoot) /\ n = pub.requestNullifier
    OBVIOUS
<1>3. /\ RequestHolds(pub, wit, signatures) /\ n \notin archive \cup clearances
      /\ charge <= ChargeCap /\ NextAnchor \in Anchors
      /\ archive' = archive \cup {n}
      /\ signatures' = signatures \cup
           {StateMessage(ThisDeployment,
              Commitment(wit.balance - charge, LeafOf(wit)), NextAnchor)}
    BY <1>2 DEF ServeRequest, UnusedByServer
<1>4. /\ id \in NoteIds /\ Deposited(id) /\ serverRoot[id] # ZeroLeaf
      /\ LeafOf(wit) = Leaf(id, notes[id]) /\ wit.secret = SecretOf(id)
      /\ wit.balance \in Amounts /\ wit.anchor \in Anchors
    BY <1>1, WitnessIs
<1>5. /\ n = NullifierOf(wit.secret, wit.anchor)
      /\ pub.deployment = ThisDeployment /\ pub.solvencyBound = ChargeCap
    BY <1>2 DEF RequestOf
<1>6. PICK s : s = [balance |-> wit.balance, anchor |-> wit.anchor]
    OBVIOUS
<1>7. s \in StatesOf(id)
    BY <1>1, <1>3, <1>5, <1>6, ProvedState DEF RequestHolds
<1>8. s.anchor \in GivenOut
    BY <1>1, <1>4, <1>7, StateTyped DEF ServerSound
<1>9. /\ UnspentStates(id) = {s} /\ charged[id] \in Nat
      /\ s.balance + charged[id] = notes[id].depositAmount
    BY <1>1, <1>3, <1>4, <1>5, <1>6, <1>7, UnspentHoldsRest
<1>10. PICK t : t = [balance |-> wit.balance - charge, anchor |-> NextAnchor]
    OBVIOUS
<1>11. /\ t.balance \in Nat
       /\ t.balance + charge + charged[id] = notes[id].depositAmount
    <2>1. wit.balance \in Nat /\ charge \in Nat /\ ChargeCap \in Nat
        BY <1>4, DataAssumption, ChargeAssumption
    <2>2. wit.balance >= ChargeCap
        BY <1>3, <1>5 DEF RequestHolds
    <2>3. s.balance = wit.balance /\ t.balance = wit.balance - charge
        BY <1>6, <1>10
    <2> QED
        BY <1>3, <1>9, <2>1, <2>2, <2>3
<1>12. /\ IsFiniteSet(archive') /\ Cardinality(archive') = Cardinality(archive) + 1
       /\ Cardinality(archive) \in Nat
    <2>1. n \notin archive
        BY <1>3
    <2> QED
        BY <1>1, <1>3, <2>1, FS_AddElement, GenesisGivenOut DEF ServerSound, ArchiveSound
<1>13. /\ NextAnchor \notin GivenOut /\ GivenOut \subseteq GivenOut'
       /\ NextAnchor \in GivenOut'
    <2>1. Anchors \subseteq Nat
        BY <1>1, GenesisGivenOut DEF ServerSound
    <2>2. PICK k \in Nat : k = LastAnchor
        BY <1>12 DEF LastAnchor, GenesisAnchor
    <2>3. LastAnchor' = k + 1 /\ NextAnchor = k + 1
        BY <1>12, <2>2 DEF LastAnchor, NextAnchor, GenesisAnchor
    <2>4. GivenOut = {a \in Anchors : a <= k}
        BY <2>2 DEF GivenOut
    <2>5. GivenOut' = {a \in Anchors : a <= k + 1}
        BY <2>3 DEF GivenOut, Anchors, GenesisAnchor
    <2>6. \A a \in GivenOut : a \in Nat /\ a <= k /\ a \in Anchors
        BY <2>1, <2>4
    <2>7. GivenOut \subseteq GivenOut'
        <3>1. \A a \in GivenOut : a <= k + 1
            BY <2>6
        <3> QED
            BY <2>5, <2>6, <3>1
    <2>8. k + 1 \notin GivenOut
        BY <2>6
    <2>9. k + 1 \in GivenOut'
        BY <1>3, <2>3, <2>5
    <2> QED
        BY <2>3, <2>7, <2>8, <2>9
<1>14. archive' = archive \cup {n}
    BY <1>3
<1>15. t.anchor = NextAnchor /\ t.balance = wit.balance - charge
       /\ t = [balance |-> t.balance, anchor |-> t.anchor] /\ s.anchor = wit.anchor
    BY <1>6, <1>10
<1>16. n = NullifierOf(SecretOf(id), s.anchor)
    BY <1>4, <1>5, <1>15
<1>17. signatures' = signatures \cup
         {StateMessage(ThisDeployment,
            Commitment(t.balance, Leaf(id, notes[id])), t.anchor)}
    BY <1>3, <1>4, <1>15
<1> QED
    BY <1>3, <1>4, <1>8, <1>9, <1>11, <1>12, <1>13, <1>14, <1>15, <1>16, <1>17

\* process_request: the successor takes the place of the spent state, and no
\* other note is concerned.
LEMMA RequestKeeps ==
    ASSUME SInv, NEW wit \in Witnesses(serverRoot), NEW charge \in Charges,
           ServeRequest(wit, charge)
    PROVE  SInv'
<1>1. IInv /\ ServerSound
    BY DEF SInv
<1>2. PICK id : id = wit.noteId
    OBVIOUS
<1>3. /\ UNCHANGED vars /\ UNCHANGED <<clearances, serverRoot>>
      /\ charged' = [charged EXCEPT ![id] = @ + charge] /\ sent \subseteq sent'
    BY <1>2 DEF ServeRequest
<1>4. PICK s, t, n :
         /\ id \in NoteIds /\ Deposited(id) /\ serverRoot[id] # ZeroLeaf
         /\ s.anchor \in GivenOut /\ n = NullifierOf(SecretOf(id), s.anchor)
         /\ n \notin archive \cup clearances
         /\ UnspentStates(id) = {s}
         /\ t.anchor \in Anchors /\ t.anchor \notin GivenOut
         /\ t = [balance |-> t.balance, anchor |-> t.anchor]
         /\ t.balance \in Nat
         /\ t.balance + charge + charged[id] = notes[id].depositAmount
         /\ signatures' = signatures \cup
              {StateMessage(ThisDeployment,
                 Commitment(t.balance, Leaf(id, notes[id])), t.anchor)}
         /\ IsFiniteSet(archive') /\ archive' = archive \cup {n}
         /\ GivenOut \subseteq GivenOut' /\ t.anchor \in GivenOut'
    BY <1>2, RequestIs
<1>5. /\ IInv' /\ SecretsDistinct'
      /\ UNCHANGED <<currentRoot, notes, pendingWithdrawals, usedNullifiers, now,
                     paidOut, challenged>>
      /\ \A i \in NoteIds :
           /\ Leaf(i, notes[i])' = Leaf(i, notes[i])
           /\ SecretOf(i)' = SecretOf(i)
           /\ OwnNullifiers(i)' = OwnNullifiers(i)
           /\ Deposited(i)' <=> Deposited(i)
           /\ ChallengeOver(i)' <=> ChallengeOver(i)
           /\ ClaimedWhole(i)' <=> ClaimedWhole(i)
    BY <1>3, VaultUntouched
<1>6. /\ GivenOut \subseteq Anchors /\ SecretsDistinct
    BY <1>1, GenesisGivenOut DEF ServerSound
<1>7. ASSUME NEW i \in NoteIds, Deposited(i), NEW a \in Anchors,
             NullifierOf(SecretOf(i), a) = n
      PROVE  i = id
    BY <1>4, <1>6, <1>7, OwnerUnique
<1>8. StatesOf(id)' = StatesOf(id) \cup {t}
    <2>1. PICK m : m = StateMessage(ThisDeployment,
                          Commitment(t.balance, Leaf(id, notes[id])), t.anchor)
        OBVIOUS
    <2>2. /\ m.kind = "state" /\ m.commitment[1] = t.balance
          /\ m.commitment[2] = Leaf(id, notes[id]) /\ m.anchor = t.anchor
        BY <2>1 DEF StateMessage, Commitment
    <2>3. {k \in signatures' : k.kind = "state" /\ k.commitment[2] = Leaf(id, notes[id])}
            = {k \in signatures : k.kind = "state"
                                  /\ k.commitment[2] = Leaf(id, notes[id])} \cup {m}
        BY <1>4, <2>1, <2>2
    <2> QED
        BY <1>4, <1>5, <2>2, <2>3 DEF StatesOf
<1>9. ASSUME NEW i \in NoteIds \ {id} PROVE StatesOf(i)' = StatesOf(i)
    <2>1. PICK m : m = StateMessage(ThisDeployment,
                          Commitment(t.balance, Leaf(id, notes[id])), t.anchor)
        OBVIOUS
    <2>2. m.commitment[2] # Leaf(i, notes[i])
        BY <2>1 DEF StateMessage, Commitment, Leaf, ComputeLeaf
    <2>3. {k \in signatures' : k.kind = "state" /\ k.commitment[2] = Leaf(i, notes[i])}
            = {k \in signatures : k.kind = "state" /\ k.commitment[2] = Leaf(i, notes[i])}
        BY <1>4, <2>1, <2>2
    <2> QED
        BY <1>5, <2>3 DEF StatesOf
<1>10. ASSUME NEW i \in NoteIds, Deposited(i), NEW k \in StatesOf(i)
       PROVE  k.anchor \in Anchors
    BY <1>1, <1>6, StateTyped DEF ServerSound
<1>11. UnspentStates(id)' = {t}
    <2>1. NullifierOf(SecretOf(id), t.anchor) \notin archive'
        <3>1. NullifierOf(SecretOf(id), t.anchor) # n
            BY <1>4, <1>6, OwnerUnique
        <3>2. ASSUME NullifierOf(SecretOf(id), t.anchor) \in archive PROVE FALSE
            <4>1. PICK i \in NoteIds, a \in GivenOut :
                     /\ Deposited(i)
                     /\ NullifierOf(SecretOf(id), t.anchor)
                          = NullifierOf(SecretOf(i), a)
                BY <1>1, <3>2 DEF ServerSound, ArchiveSound
            <4>2. t.anchor = a
                BY <1>4, <1>6, <4>1, OwnerUnique
            <4> QED
                BY <1>4, <4>2
        <3> QED
            BY <1>4, <3>1, <3>2
    <2>2. ASSUME NEW k \in StatesOf(id) PROVE NullifierOf(SecretOf(id), k.anchor) \in archive'
        <3>1. CASE k = s
            BY <1>4, <3>1
        <3>2. CASE k # s
            BY <1>4, <3>2 DEF UnspentStates
        <3> QED
            BY <3>1, <3>2
    <2> QED
        BY <1>4, <1>5, <1>8, <2>1, <2>2 DEF UnspentStates
<1>12. ASSUME NEW i \in NoteIds \ {id}, Deposited(i)
       PROVE  UnspentStates(i)' = UnspentStates(i)
    <2>1. \A k \in StatesOf(i) : NullifierOf(SecretOf(i), k.anchor) # n
        BY <1>7, <1>10, <1>12
    <2> QED
        BY <1>4, <1>5, <1>9, <1>12, <2>1 DEF UnspentStates
<1>13. ArchiveSound'
    <2>1. ASSUME NEW k \in archive'
          PROVE  \E i \in NoteIds, a \in GivenOut' :
                    Deposited(i) /\ k = NullifierOf(SecretOf(i), a)
        <3>1. CASE k = n
            BY <1>4, <3>1
        <3>2. CASE k \in archive
            BY <1>1, <1>4, <3>2 DEF ServerSound, ArchiveSound
        <3> QED
            BY <1>4, <3>1, <3>2
    <2> QED
        BY <1>4, <1>5, <2>1 DEF ArchiveSound
<1>14. SignaturesSound'
    <2>1. ASSUME NEW m \in signatures'
          PROVE  \/ \E k \in clearances : m = ClearanceMessage(ThisDeployment, k)
                 \/ \E i \in NoteIds, b \in Nat, a \in GivenOut' :
                      /\ Deposited(i)
                      /\ m = StateMessage(ThisDeployment,
                               Commitment(b, Leaf(i, notes[i])), a)
        BY <1>1, <1>4 DEF ServerSound, SignaturesSound
    <2> QED
        BY <1>3, <1>5, <2>1 DEF SignaturesSound
<1>15. HoldsNotes(serverRoot)' /\ (clearances \cap archive)' = {}
    BY <1>1, <1>3, <1>4, <1>5 DEF ServerSound, HoldsNotes
<1>16. /\ charged \in [NoteIds -> Nat] /\ charged' \in [NoteIds -> Nat]
       /\ charged'[id] = charged[id] + charge
       /\ \A i \in NoteIds \ {id} : charged'[i] = charged[i]
    <2>1. charged \in [NoteIds -> Nat] /\ charge \in Nat
        BY <1>1, ChargeAssumption DEF ServerSound, LedgerSound
    <2> QED
        BY <1>3, <1>4, <2>1
<1>17. LedgerSound'
    <2>1. Balanced(id)'
        <3>1. charge \in Nat /\ charged[id] \in Nat
            BY <1>4, <1>16, ChargeAssumption
        <3>2. t.balance + charged'[id] = notes[id].depositAmount
            BY <1>4, <1>16, <3>1
        <3> QED
            BY <1>4, <1>5, <1>11, <3>2 DEF Balanced
    <2>2. ASSUME NEW i \in NoteIds \ {id}
          PROVE  IF Deposited(i)' THEN Balanced(i)' ELSE charged'[i] = 0
        BY <1>1, <1>5, <1>12, <1>16, <2>2 DEF ServerSound, LedgerSound, Balanced
    <2> QED
        BY <1>4, <1>5, <1>16, <2>1, <2>2 DEF LedgerSound
<1>18. ServerSound'
    BY <1>5, <1>13, <1>14, <1>15, <1>17 DEF ServerSound
<1>19. BurnedSound'
    <2>1. Answered \subseteq Answered'
        BY <1>3, <1>4, <1>5 DEF Answered
    <2> QED
        BY <1>5, <2>1 DEF SInv, BurnedSound
<1>20. PendingExits'
    <2>1. ASSUME NEW i \in NoteIds, notes[i].status = "PendingWithdrawal"
          PROVE  ExitSound(i)'
        <3>1. PICK p : p = pendingWithdrawals[i]
            OBVIOUS
        <3>2. PICK k \in StatesOf(i) :
                 /\ k.balance = p.finalBalance
                 /\ p.withdrawalNullifier = NullifierOf(SecretOf(i), k.anchor)
            BY <2>1, <3>1 DEF SInv, PendingExits, ExitSound
        <3>3. k \in StatesOf(i)'
            BY <1>8, <1>9
        <3>4. ASSUME ChallengeOver(i)
              PROVE  p.withdrawalNullifier \notin archive' /\ serverRoot[i] = ZeroLeaf
            <4>1. p.withdrawalNullifier \notin archive /\ serverRoot[i] = ZeroLeaf
                BY <2>1, <3>1, <3>4 DEF SInv, PendingExits, ExitSound
            <4>2. Deposited(i) /\ i # id
                BY <1>4, <2>1, <4>1 DEF Deposited
            <4>3. p.withdrawalNullifier # n
                BY <1>7, <1>10, <3>2, <4>2
            <4> QED
                BY <1>4, <4>1, <4>3
        <3> QED
            BY <1>3, <1>5, <3>1, <3>2, <3>3, <3>4 DEF ExitSound
    <2> QED
        BY <1>5, <2>1 DEF PendingExits
<1>21. SettledSound'
    <2>1. ASSUME NEW i \in NoteIds, notes[i].status = "Closed", ~ClaimedWhole(i)
          PROVE  FinalCharge(i)'
        <3>1. FinalCharge(i) /\ Deposited(i)
            BY <2>1 DEF SInv, SettledSound, Deposited
        <3>2. i # id
            BY <1>4, <3>1 DEF FinalCharge
        <3> QED
            BY <1>3, <1>5, <1>12, <1>16, <3>1, <3>2 DEF FinalCharge
    <2> QED
        BY <1>5, <2>1 DEF SettledSound
<1> QED
    BY <1>5, <1>18, <1>19, <1>20, <1>21 DEF SInv

\* process_clearance: no state is signed, and what it closes was unspent.
LEMMA ClearanceKeeps ==
    ASSUME SInv, NEW n \in Nullifiers, ServeClearance(n)
    PROVE  SInv'
<1>1. IInv /\ ServerSound
    BY DEF SInv
<1>2. PICK c : c = ClearanceMessage(ThisDeployment, n)
    OBVIOUS
<1>3. /\ UNCHANGED vars /\ UNCHANGED <<sent, archive, serverRoot, charged>>
      /\ clearances' = clearances \cup {n} /\ n \notin archive
      /\ signatures' = signatures \cup {c}
    BY <1>2 DEF ServeClearance, UnusedByServer
<1>4. c.kind # "state"
    BY <1>2 DEF ClearanceMessage
<1>5. /\ IInv' /\ SecretsDistinct'
      /\ UNCHANGED <<currentRoot, notes, pendingWithdrawals, usedNullifiers, now,
                     paidOut, challenged>>
      /\ \A i \in NoteIds :
           /\ Leaf(i, notes[i])' = Leaf(i, notes[i])
           /\ SecretOf(i)' = SecretOf(i)
           /\ OwnNullifiers(i)' = OwnNullifiers(i)
           /\ Deposited(i)' <=> Deposited(i)
           /\ ChallengeOver(i)' <=> ChallengeOver(i)
           /\ ClaimedWhole(i)' <=> ClaimedWhole(i)
    BY <1>3, VaultUntouched
<1>6. archive' = archive /\ GivenOut' = GivenOut
    BY <1>3 DEF GivenOut, LastAnchor
<1>7. ASSUME NEW i \in NoteIds
      PROVE  /\ StatesOf(i)' = StatesOf(i)
             /\ UnspentStates(i)' = UnspentStates(i)
    <2>1. {m \in signatures' : m.kind = "state" /\ m.commitment[2] = Leaf(i, notes[i])}
            = {m \in signatures : m.kind = "state" /\ m.commitment[2] = Leaf(i, notes[i])}
        BY <1>3, <1>4
    <2>2. StatesOf(i)' = StatesOf(i)
        BY <1>5, <2>1 DEF StatesOf
    <2> QED
        BY <1>5, <1>6, <2>2 DEF UnspentStates
<1>8. ArchiveSound'
    BY <1>1, <1>3, <1>5, <1>6 DEF ServerSound, ArchiveSound
<1>9. SignaturesSound'
    BY <1>1, <1>2, <1>3, <1>5, <1>6 DEF ServerSound, SignaturesSound
<1>10. HoldsNotes(serverRoot)' /\ (clearances \cap archive)' = {}
    BY <1>1, <1>3, <1>5, <1>6 DEF ServerSound, HoldsNotes
<1>11. LedgerSound'
    BY <1>1, <1>3, <1>5, <1>7 DEF ServerSound, LedgerSound, Balanced
<1>12. ServerSound'
    BY <1>5, <1>8, <1>9, <1>10, <1>11 DEF ServerSound
<1>13. BurnedSound'
    BY <1>3, <1>5 DEF SInv, BurnedSound, Answered
<1>14. PendingExits'
    BY <1>3, <1>5, <1>6, <1>7 DEF SInv, PendingExits, ExitSound
<1>15. SettledSound'
    BY <1>3, <1>5, <1>7 DEF SInv, SettledSound, FinalCharge
<1> QED
    BY <1>5, <1>12, <1>13, <1>14, <1>15 DEF SInv

\* update_root: a note on its way out, or out, has no leaf in the new root.
LEMMA UpdateRootKeeps ==
    ASSUME SInv, UpdateRoot
    PROVE  SInv'
<1>1. IInv /\ ServerSound
    BY DEF SInv
<1>2. /\ UNCHANGED vars /\ UNCHANGED <<signatures, sent, archive, clearances, charged>>
      /\ serverRoot' = currentRoot
    BY DEF UpdateRoot
<1>3. /\ IInv' /\ SecretsDistinct'
      /\ UNCHANGED <<currentRoot, notes, pendingWithdrawals, usedNullifiers, now,
                     paidOut, challenged>>
      /\ \A i \in NoteIds :
           /\ Leaf(i, notes[i])' = Leaf(i, notes[i])
           /\ SecretOf(i)' = SecretOf(i)
           /\ OwnNullifiers(i)' = OwnNullifiers(i)
           /\ Deposited(i)' <=> Deposited(i)
           /\ ChallengeOver(i)' <=> ChallengeOver(i)
           /\ ClaimedWhole(i)' <=> ClaimedWhole(i)
    BY <1>2, VaultUntouched
<1>4. archive' = archive /\ GivenOut' = GivenOut
    BY <1>2 DEF GivenOut, LastAnchor
<1>5. \A i \in NoteIds :
         StatesOf(i)' = StatesOf(i) /\ UnspentStates(i)' = UnspentStates(i)
    BY <1>2, <1>3, <1>4 DEF UnspentStates, StatesOf
<1>6. ArchiveSound' /\ SignaturesSound'
    BY <1>1, <1>2, <1>3, <1>4 DEF ServerSound, ArchiveSound, SignaturesSound
<1>7. HoldsNotes(serverRoot)' /\ (clearances \cap archive)' = {}
    <2>1. HoldsNotes(currentRoot)
        BY <1>1, RootHoldsNotes
    <2> QED
        BY <1>1, <1>2, <1>3, <1>4, <2>1 DEF ServerSound, HoldsNotes
<1>8. LedgerSound'
    BY <1>1, <1>2, <1>3, <1>5 DEF ServerSound, LedgerSound, Balanced
<1>9. ServerSound'
    BY <1>3, <1>6, <1>7, <1>8 DEF ServerSound
<1>10. BurnedSound'
    BY <1>2, <1>3 DEF SInv, BurnedSound, Answered
<1>11. \A i \in NoteIds :
          notes[i].status # "Active" => serverRoot'[i] = ZeroLeaf
    BY <1>1, <1>2 DEF IInv, TreeMatchesNotes
<1>12. PendingExits'
    BY <1>3, <1>4, <1>5, <1>11 DEF SInv, PendingExits, ExitSound
<1>13. SettledSound'
    BY <1>2, <1>3, <1>11 DEF SInv, SettledSound, FinalCharge
<1> QED
    BY <1>3, <1>9, <1>10, <1>12, <1>13 DEF SInv

\* process_request that ends early: only a proof more has left its user.
LEMMA LoseRequestKeeps ==
    ASSUME SInv, NEW wit, NEW root, LoseRequest(wit, root)
    PROVE  SInv'
<1>1. /\ UNCHANGED vars /\ sent \subseteq sent'
      /\ UNCHANGED <<signatures, archive, clearances, serverRoot, charged>>
    BY DEF LoseRequest
<1>2. /\ IInv' /\ SecretsDistinct'
      /\ UNCHANGED <<currentRoot, notes, pendingWithdrawals, usedNullifiers, now,
                     paidOut, challenged>>
      /\ \A i \in NoteIds :
           /\ Leaf(i, notes[i])' = Leaf(i, notes[i])
           /\ SecretOf(i)' = SecretOf(i)
           /\ OwnNullifiers(i)' = OwnNullifiers(i)
           /\ Deposited(i)' <=> Deposited(i)
           /\ ChallengeOver(i)' <=> ChallengeOver(i)
           /\ ClaimedWhole(i)' <=> ClaimedWhole(i)
    BY <1>1, VaultUntouched
<1>3. GivenOut' = GivenOut
    BY <1>1 DEF GivenOut, LastAnchor
<1>4. \A i \in NoteIds :
         StatesOf(i)' = StatesOf(i) /\ UnspentStates(i)' = UnspentStates(i)
    BY <1>1, <1>2 DEF UnspentStates, StatesOf
<1>5. ArchiveSound' /\ SignaturesSound' /\ HoldsNotes(serverRoot)'
    BY <1>1, <1>2, <1>3 DEF SInv, ServerSound, ArchiveSound, SignaturesSound, HoldsNotes
<1>6. LedgerSound'
    BY <1>1, <1>2, <1>4 DEF SInv, ServerSound, LedgerSound, Balanced
<1>7. ServerSound'
    BY <1>1, <1>2, <1>5, <1>6 DEF SInv, ServerSound
<1>8. BurnedSound'
    <2>1. Answered \subseteq Answered'
        BY <1>1, <1>2 DEF Answered
    <2> QED
        BY <1>2, <2>1 DEF SInv, BurnedSound
<1>9. PendingExits' /\ SettledSound'
    BY <1>1, <1>2, <1>4
       DEF SInv, PendingExits, ExitSound, SettledSound, FinalCharge
<1> QED
    BY <1>2, <1>7, <1>8, <1>9 DEF SInv

-----------------------------------------------------------------------------
(* The theorems.                                                           *)

\* Nothing is deposited, signed, spent or paid at first.
LEMMA InitSInv == ASSUME SettlementInit PROVE SInv
<1>1. IInv
    BY InitIInv DEF SettlementInit
<1>2. \A id \in NoteIds : notes[id] = NoNote /\ notes[id].status = "Uninitialized"
    BY DEF SettlementInit, Init, NoNote
<1>3. archive = {}
    BY DEF SettlementInit
<1>4. SecretsDistinct
    BY <1>2 DEF SecretsDistinct, Deposited
<1>5. ArchiveSound
    BY <1>3, FS_EmptySet DEF ArchiveSound, SettlementInit
<1>6. SignaturesSound /\ LedgerSound
    BY <1>2 DEF SignaturesSound, LedgerSound, Deposited, SettlementInit
<1>7. HoldsNotes(serverRoot)
    BY DEF HoldsNotes, SettlementInit, EmptyTreeRoot, Trees
<1>8. BurnedSound /\ PendingExits /\ SettledSound
    BY <1>2 DEF BurnedSound, PendingExits, SettledSound, SettlementInit, Init
<1> QED
    BY <1>1, <1>3, <1>4, <1>5, <1>6, <1>7, <1>8 DEF SInv, ServerSound

\* One case per action, and one for the steps that change nothing.
LEMMA NextSInv ==
    ASSUME SInv, [SettlementNext]_settlementVars
    PROVE  SInv'
<1>1. CASE SettlementNext
    <2>1. ASSUME NEW wit \in Witnesses(currentRoot), NEW cleared \in BOOLEAN,
                 Exit(wit, cleared)
          PROVE  SInv'
        <3>1. CASE cleared = TRUE
            BY <2>1, <3>1, CooperativeExit
        <3>2. CASE cleared = FALSE
            BY <2>1, <3>2, EscapeExit
        <3> QED
            BY <3>1, <3>2
    <2> QED
        BY <1>1, <2>1, DepositKeeps, RequestKeeps, LoseRequestKeeps, ClearanceKeeps, UpdateRootKeeps,
           ChallengeKeeps, FinalizeKeeps, ClaimKeeps, OwnerAndTickKeep
           DEF SettlementNext
<1>2. CASE UNCHANGED settlementVars
    <2>1. UNCHANGED vars /\ UNCHANGED serverVars
        BY <1>2 DEF settlementVars
    <2>2. /\ IInv'
          /\ UNCHANGED <<notes, pendingWithdrawals, usedNullifiers, now, paidOut,
                         challenged>>
        BY <2>1, VaultUntouched
    <2>3. NotesKept
        BY <2>2 DEF NotesKept, NoteKept, Deposited
    <2>4. ServerSound'
        BY <2>1, <2>3, ServerKept DEF SInv
    <2>5. ASSUME NEW id \in NoteIds PROVE ExitKept(id)'
        <3>1. ExitKept(id)
            BY DEF SInv, PendingExits, SettledSound, ExitKept
        <3> QED
            BY <2>1, <2>2, <3>1, UntouchedNote
    <2>6. PendingExits' /\ SettledSound'
        BY <2>5 DEF PendingExits, SettledSound, ExitKept
    <2>7. BurnedSound'
        <3>1. /\ Answered' = Answered
              /\ \A i \in NoteIds : OwnNullifiers(i)' = OwnNullifiers(i)
            BY <2>1, <2>2, <2>3, StatesKept DEF NotesKept, serverVars, Answered
        <3> QED
            BY <2>2, <3>1 DEF SInv, BurnedSound
    <2> QED
        BY <2>2, <2>4, <2>6, <2>7 DEF SInv
<1> QED
    BY <1>1, <1>2

\* The invariant above holds in every reachable state of the composition.
THEOREM SettlementInvariant == SettlementSpec => []SInv
<1>1. SettlementInit => SInv
    BY InitSInv
<1>2. SInv /\ [SettlementNext]_settlementVars => SInv'
    BY NextSInv
<1> QED
    BY <1>1, <1>2, PTL DEF SettlementSpec

\* A closed note has paid its operator exactly what the server charged, or
\* was claimed whole after its expiry: stale and spent states, exits that
\* race requests and exits that race the watcher included.
THEOREM NotesSettleAtBalance == SettlementSpec => []SettlesAtBalance
<1>1. SInv => SettlesAtBalance
    BY DEF SInv, SettledSound, FinalCharge, ClaimedWhole, SettlesAtBalance
<1> QED
    BY <1>1, SettlementInvariant, PTL

\* A note that is not closed has exactly one unspent state, which holds its
\* deposit less the charges.
THEOREM NotesHaveOneUnspentState == SettlementSpec => []OneUnspentState
<1>1. SInv => OneUnspentState
    <2> SUFFICES ASSUME SInv, NEW id \in NoteIds, Live(id)
                 PROVE  /\ Cardinality(UnspentStates(id)) = 1
                        /\ \A s \in UnspentStates(id) :
                             s.balance + charged[id] = notes[id].depositAmount
        BY DEF OneUnspentState
    <2>1. Balanced(id)
        BY DEF SInv, ServerSound, LedgerSound, Deposited, Live
    <2>2. PICK s : UnspentStates(id) = {s}
                   /\ s.balance + charged[id] = notes[id].depositAmount
        BY <2>1 DEF Balanced
    <2> QED
        BY <2>2, FS_Singleton
<1> QED
    BY <1>1, SettlementInvariant, PTL

\* The unspent state of an Active note is burned on chain only by a challenge
\* with a request proof of that very state, which its owner has sent and the
\* server has not finalized: after any number of challenged exits from other
\* states he can exit with it.
THEOREM ExitsStayOpen == SettlementSpec => []ExitStaysOpen
<1>1. SInv => ExitStaysOpen
    <2> SUFFICES ASSUME SInv, NEW id \in NoteIds, notes[id].status = "Active",
                        NEW s \in UnspentStates(id),
                        NullifierOf(SecretOf(id), s.anchor) \in usedNullifiers,
                        NullifierOf(SecretOf(id), s.anchor) \notin sent \cap challenged
                 PROVE  FALSE
        BY DEF ExitStaysOpen
    <2>1. /\ s \in StatesOf(id)
          /\ NullifierOf(SecretOf(id), s.anchor) \in usedNullifiers \ Answered
        BY DEF UnspentStates, Answered
    <2>2. s.anchor \in Anchors
        BY <2>1, StateTyped, GenesisGivenOut DEF SInv, ServerSound
    <2>3. PICK i \in NoteIds :
             /\ NullifierOf(SecretOf(id), s.anchor) \in OwnNullifiers(i)
             /\ notes[i].status \in {"Closed", "PendingWithdrawal"}
        BY <2>1 DEF SInv, BurnedSound
    <2>4. PICK a \in Anchors :
             NullifierOf(SecretOf(id), s.anchor) = NullifierOf(SecretOf(i), a)
        BY <2>3 DEF OwnNullifiers
    <2>5. Deposited(i) /\ Deposited(id) /\ SecretsDistinct
        BY <2>3 DEF Deposited, SInv, ServerSound
    <2>6. i = id
        BY <2>2, <2>4, <2>5, OwnerUnique
    <2> QED
        BY <2>3, <2>6
<1> QED
    BY <1>1, SettlementInvariant, PTL

-----------------------------------------------------------------------------
(* The mirror: the widths of the levels.                                   *)

\* The recursion of WidthOfHeight.
WidthStep(n, f) == [h \in 0 .. n |-> IF h = 0 THEN 1 ELSE 2 * f[h - 1]]

\* A recursive definition has a solution, which is built level by level; so
\* for the other recursions below.
LEMMA WidthExists ==
    ASSUME NEW n \in Nat
    PROVE  \E f : f = WidthStep(n, f)
<1> DEFINE Good == {k \in 0 .. n : \E f : f = WidthStep(k, f)}
<1>1. 0 \in Good
    <2> DEFINE f == [h \in 0 .. 0 |-> 1]
    <2>1. f = WidthStep(0, f)
        BY DEF WidthStep
    <2> QED
        BY <2>1
<1>2. ASSUME NEW k \in 1 .. n, k - 1 \in Good PROVE k \in Good
    <2>1. PICK f : f = WidthStep(k - 1, f)
        BY <1>2
    <2> DEFINE g == [h \in 0 .. k |-> IF h = k THEN 2 * f[k - 1] ELSE f[h]]
    <2>2. \A h \in 0 .. k - 1 : f[h] = IF h = 0 THEN 1 ELSE 2 * f[h - 1]
        BY <2>1 DEF WidthStep
    <2>3. ASSUME NEW h \in 0 .. k
          PROVE  g[h] = IF h = 0 THEN 1 ELSE 2 * g[h - 1]
        BY <2>2
    <2> HIDE DEF g
    <2>4. g = WidthStep(k, g)
        <3>1. g = [h \in 0 .. k |-> g[h]]
            BY DEF g
        <3> QED
            BY <2>3, <3>1 DEF WidthStep
    <2> QED
        BY <2>4
<1> HIDE DEF Good
<1>3. n \in Good
    BY <1>1, <1>2, Climbing
<1> QED
    BY <1>3 DEF Good

\* One node at the top, twice as many on every level below.
LEMMA WidthFacts ==
    /\ Tree!Width(Depth) = 1
    /\ \A l \in 1 .. Depth : Tree!Width(l - 1) = 2 * Tree!Width(l)
<1> DEFINE w == Tree!WidthOfHeight
<1>1. w = CHOOSE f : f = WidthStep(Depth, f)
    BY DEF Tree!WidthOfHeight, Tree!Levels, WidthStep
<1>2. w = WidthStep(Depth, w)
    BY <1>1, WidthExists, DepthAssumption
<1> HIDE DEF w
<1>3. \A h \in 0 .. Depth : w[h] = IF h = 0 THEN 1 ELSE 2 * w[h - 1]
    BY <1>2 DEF WidthStep
<1> QED
    BY <1>3, DepthAssumption DEF Tree!Width, w

\* No level is empty.
LEMMA WidthPositive == \A l \in 0 .. Depth : Tree!Width(l) \in Nat \ {0}
<1> DEFINE Good == {k \in 0 .. Depth : Tree!Width(Depth - k) \in Nat \ {0}}
<1>1. 0 \in Good
    BY WidthFacts, DepthAssumption
<1>2. ASSUME NEW k \in 1 .. Depth, k - 1 \in Good PROVE k \in Good
    <2>1. Depth - k + 1 \in 1 .. Depth /\ (Depth - k + 1) - 1 = Depth - k
          /\ Depth - (k - 1) = Depth - k + 1
        BY DepthAssumption
    <2>2. Tree!Width(Depth - k) = 2 * Tree!Width(Depth - k + 1)
        BY <2>1, WidthFacts
    <2>3. Tree!Width(Depth - k + 1) \in Nat \ {0}
        BY <1>2, <2>1
    <2> QED
        BY <2>2, <2>3
<1> HIDE DEF Good
<1>3. \A k \in 0 .. Depth : k \in Good
    BY <1>1, <1>2, Climbing, DepthAssumption
<1>4. ASSUME NEW l \in 0 .. Depth PROVE Tree!Width(l) \in Nat \ {0}
    <2>1. Depth - l \in 0 .. Depth /\ Depth - (Depth - l) = l
        BY DepthAssumption
    <2>2. Depth - l \in Good
        BY <1>3, <2>1
    <2> QED
        BY <2>1, <2>2 DEF Good
<1> QED
    BY <1>4

\* The node above a node of the path and its sibling.
PathNode(index, level, node, sibling) ==
    IF Tree!IsLeft(index, level - 1) THEN Tree!Node(node, sibling)
                                     ELSE Tree!Node(sibling, node)

\* A level of the complete tree over the one below it.
LayerAbove(level, below) ==
    [i \in 0 .. Tree!Width(level) - 1 |-> Tree!Node(below[2 * i], below[2 * i + 1])]

\* One halving per level.
AncestorStep(index, n, f) ==
    [l \in 0 .. n |-> IF l = 0 THEN index ELSE f[l - 1] \div 2]

\* There is such a function.
LEMMA AncestorExists ==
    ASSUME NEW n \in Nat, NEW index
    PROVE  \E f : f = AncestorStep(index, n, f)
<1> DEFINE Good == {k \in 0 .. n : \E f : f = AncestorStep(index, k, f)}
<1>1. 0 \in Good
    <2> DEFINE f == [l \in 0 .. 0 |-> index]
    <2>1. f = AncestorStep(index, 0, f)
        BY DEF AncestorStep
    <2> QED
        BY <2>1
<1>2. ASSUME NEW k \in 1 .. n, k - 1 \in Good PROVE k \in Good
    <2>1. PICK f : f = AncestorStep(index, k - 1, f)
        BY <1>2
    <2> DEFINE g == [l \in 0 .. k |-> IF l = k THEN f[k - 1] \div 2 ELSE f[l]]
    <2>2. \A l \in 0 .. k - 1 :
             f[l] = IF l = 0 THEN index ELSE f[l - 1] \div 2
        BY <2>1 DEF AncestorStep
    <2>3. ASSUME NEW l \in 0 .. k
          PROVE  g[l] = IF l = 0 THEN index ELSE g[l - 1] \div 2
        BY <2>2
    <2>4. g = [l \in 0 .. k |-> g[l]]
        OBVIOUS
    <2> HIDE DEF g
    <2>5. g = AncestorStep(index, k, g)
        BY <2>3, <2>4 DEF AncestorStep
    <2> QED
        BY <2>5
<1> HIDE DEF Good
<1>3. n \in Good
    BY <1>1, <1>2, Climbing
<1> QED
    BY <1>3 DEF Good

\* The ancestors of a leaf, level by level.
LEMMA AncestorFacts ==
    ASSUME NEW index
    PROVE  /\ Tree!Ancestor(index, 0) = index
           /\ \A l \in 1 .. Depth :
                Tree!Ancestor(index, l) = Tree!Ancestor(index, l - 1) \div 2
<1> DEFINE a == CHOOSE f : f = AncestorStep(index, Depth, f)
<1>1. \A l : Tree!Ancestor(index, l) = a[l]
    BY DEF Tree!Ancestor, Tree!Levels, AncestorStep
<1>2. a = AncestorStep(index, Depth, a)
    BY AncestorExists, DepthAssumption
<1> HIDE DEF a
<1>3. \A l \in 0 .. Depth : a[l] = IF l = 0 THEN index ELSE a[l - 1] \div 2
    BY <1>2 DEF AncestorStep
<1> QED
    BY <1>1, <1>3, DepthAssumption

\* The hashes of the empty subtrees.
ZeroStep(n, f) ==
    [l \in 0 .. n |-> IF l = 0 THEN ZeroLeaf ELSE Tree!Node(f[l - 1], f[l - 1])]

\* There is such a function.
LEMMA ZeroExists ==
    ASSUME NEW n \in Nat
    PROVE  \E f : f = ZeroStep(n, f)
<1> DEFINE Good == {k \in 0 .. n : \E f : f = ZeroStep(k, f)}
<1>1. 0 \in Good
    <2> DEFINE f == [l \in 0 .. 0 |-> ZeroLeaf]
    <2>1. f = ZeroStep(0, f)
        BY DEF ZeroStep
    <2> QED
        BY <2>1
<1>2. ASSUME NEW k \in 1 .. n, k - 1 \in Good PROVE k \in Good
    <2>1. PICK f : f = ZeroStep(k - 1, f)
        BY <1>2
    <2> DEFINE g == [l \in 0 .. k |-> IF l = k THEN Tree!Node(f[k - 1], f[k - 1]) ELSE f[l]]
    <2>2. \A l \in 0 .. k - 1 :
             f[l] = IF l = 0 THEN ZeroLeaf ELSE Tree!Node(f[l - 1], f[l - 1])
        BY <2>1 DEF ZeroStep
    <2>3. ASSUME NEW l \in 0 .. k
          PROVE  g[l] = IF l = 0 THEN ZeroLeaf ELSE Tree!Node(g[l - 1], g[l - 1])
        BY <2>2
    <2>4. g = [l \in 0 .. k |-> g[l]]
        OBVIOUS
    <2> HIDE DEF g
    <2>5. g = ZeroStep(k, g)
        BY <2>3, <2>4 DEF ZeroStep
    <2> QED
        BY <2>5
<1> HIDE DEF Good
<1>3. n \in Good
    BY <1>1, <1>2, Climbing
<1> QED
    BY <1>3 DEF Good

\* compute_zero_hashes, level by level.
LEMMA ZeroFacts ==
    /\ Tree!ZeroHashes[0] = ZeroLeaf
    /\ \A l \in 1 .. Depth :
         Tree!ZeroHashes[l] = Tree!Node(Tree!ZeroHashes[l - 1], Tree!ZeroHashes[l - 1])
<1> DEFINE z == Tree!ZeroHashes
<1>1. z = CHOOSE f : f = ZeroStep(Depth, f)
    BY DEF Tree!ZeroHashes, Tree!Levels, ZeroStep
<1>2. z = ZeroStep(Depth, z)
    BY <1>1, ZeroExists, DepthAssumption
<1> HIDE DEF z
<1>3. \A l \in 0 .. Depth : z[l] = IF l = 0 THEN ZeroLeaf ELSE Tree!Node(z[l - 1], z[l - 1])
    BY <1>2 DEF ZeroStep
<1> QED
    BY <1>3, DepthAssumption DEF z

\* The hashes along a path.
PathStep(index, leaf, siblings, n, f) ==
    [l \in 0 .. n |-> IF l = 0 THEN leaf ELSE PathNode(index, l, f[l - 1], siblings[l - 1])]

\* There is such a function.
LEMMA PathExists ==
    ASSUME NEW n \in Nat, NEW index, NEW leaf, NEW siblings
    PROVE  \E f : f = PathStep(index, leaf, siblings, n, f)
<1> DEFINE Good == {k \in 0 .. n : \E f : f = PathStep(index, leaf, siblings, k, f)}
<1>1. 0 \in Good
    <2> DEFINE f == [l \in 0 .. 0 |-> leaf]
    <2>1. f = PathStep(index, leaf, siblings, 0, f)
        BY DEF PathStep
    <2> QED
        BY <2>1
<1>2. ASSUME NEW k \in 1 .. n, k - 1 \in Good PROVE k \in Good
    <2>1. PICK f : f = PathStep(index, leaf, siblings, k - 1, f)
        BY <1>2
    <2> DEFINE g == [l \in 0 .. k |-> IF l = k THEN PathNode(index, k, f[k - 1], siblings[k - 1]) ELSE f[l]]
    <2>2. \A l \in 0 .. k - 1 :
             f[l] = IF l = 0 THEN leaf ELSE PathNode(index, l, f[l - 1], siblings[l - 1])
        BY <2>1 DEF PathStep
    <2>3. ASSUME NEW l \in 0 .. k
          PROVE  g[l] = IF l = 0 THEN leaf ELSE PathNode(index, l, g[l - 1], siblings[l - 1])
        BY <2>2
    <2>4. g = [l \in 0 .. k |-> g[l]]
        OBVIOUS
    <2> HIDE DEF g
    <2>5. g = PathStep(index, leaf, siblings, k, g)
        BY <2>3, <2>4 DEF PathStep
    <2> QED
        BY <2>5
<1> HIDE DEF Good
<1>3. n \in Good
    BY <1>1, <1>2, Climbing
<1> QED
    BY <1>3 DEF Good

\* The hashes along a path, level by level.
LEMMA PathFacts ==
    ASSUME NEW index, NEW leaf, NEW siblings
    PROVE  LET path == Tree!FoldPath(index, leaf, siblings) IN
           /\ path[0] = leaf
           /\ \A l \in 1 .. Depth :
                path[l] = PathNode(index, l, path[l - 1], siblings[l - 1])
<1> DEFINE p == Tree!FoldPath(index, leaf, siblings)
<1>1. p = CHOOSE f : f = PathStep(index, leaf, siblings, Depth, f)
    BY DEF Tree!FoldPath, Tree!Levels, PathStep, PathNode
<1>2. p = PathStep(index, leaf, siblings, Depth, p)
    BY <1>1, PathExists, DepthAssumption
<1> HIDE DEF p
<1>3. \A l \in 0 .. Depth :
         p[l] = IF l = 0 THEN leaf ELSE PathNode(index, l, p[l - 1], siblings[l - 1])
    BY <1>2 DEF PathStep
<1> QED
    BY <1>3, DepthAssumption DEF p

\* The levels of the complete tree.
LayerStep(leaves, n, f) ==
    [l \in 0 .. n |-> IF l = 0 THEN leaves ELSE LayerAbove(l, f[l - 1])]

\* There is such a function.
LEMMA LayersExist ==
    ASSUME NEW n \in Nat, NEW leaves
    PROVE  \E f : f = LayerStep(leaves, n, f)
<1> DEFINE Good == {k \in 0 .. n : \E f : f = LayerStep(leaves, k, f)}
<1>1. 0 \in Good
    <2> DEFINE f == [l \in 0 .. 0 |-> leaves]
    <2>1. f = LayerStep(leaves, 0, f)
        BY DEF LayerStep
    <2> QED
        BY <2>1
<1>2. ASSUME NEW k \in 1 .. n, k - 1 \in Good PROVE k \in Good
    <2>1. PICK f : f = LayerStep(leaves, k - 1, f)
        BY <1>2
    <2> DEFINE g == [l \in 0 .. k |-> IF l = k THEN LayerAbove(k, f[k - 1]) ELSE f[l]]
    <2>2. \A l \in 0 .. k - 1 :
             f[l] = IF l = 0 THEN leaves ELSE LayerAbove(l, f[l - 1])
        BY <2>1 DEF LayerStep
    <2>3. ASSUME NEW l \in 0 .. k
          PROVE  g[l] = IF l = 0 THEN leaves ELSE LayerAbove(l, g[l - 1])
        BY <2>2
    <2>4. g = [l \in 0 .. k |-> g[l]]
        OBVIOUS
    <2> HIDE DEF g
    <2>5. g = LayerStep(leaves, k, g)
        BY <2>3, <2>4 DEF LayerStep
    <2> QED
        BY <2>5
<1> HIDE DEF Good
<1>3. n \in Good
    BY <1>1, <1>2, Climbing
<1> QED
    BY <1>3 DEF Good

\* The complete tree, level by level.
LEMMA LayersFacts ==
    ASSUME NEW leaves
    PROVE  /\ Tree!Layers(leaves)[0] = leaves
           /\ \A l \in 1 .. Depth : \A i \in 0 .. Tree!Width(l) - 1 :
                Tree!Layers(leaves)[l][i] =
                    Tree!Node(Tree!Layers(leaves)[l - 1][2 * i],
                              Tree!Layers(leaves)[l - 1][2 * i + 1])
<1> DEFINE y == Tree!Layers(leaves)
<1>1. y = CHOOSE f : f = LayerStep(leaves, Depth, f)
    BY DEF Tree!Layers, Tree!Levels, LayerStep, LayerAbove
<1>2. y = LayerStep(leaves, Depth, y)
    BY <1>1, LayersExist, DepthAssumption
<1> HIDE DEF y
<1>3. \A l \in 0 .. Depth :
         y[l] = IF l = 0 THEN leaves ELSE LayerAbove(l, y[l - 1])
    BY <1>2 DEF LayerStep
<1>4. y[0] = leaves /\ \A l \in 1 .. Depth : y[l] = LayerAbove(l, y[l - 1])
    BY <1>3, DepthAssumption
<1>5. ASSUME NEW l \in 1 .. Depth, NEW i \in 0 .. Tree!Width(l) - 1
      PROVE  y[l][i] = Tree!Node(y[l - 1][2 * i], y[l - 1][2 * i + 1])
    BY <1>4 DEF LayerAbove
<1> QED
    BY <1>4, <1>5 DEF y

-----------------------------------------------------------------------------
(* Positions.                                                              *)

\* The positions of a level.
Places(l) == 0 .. Tree!Width(l) - 1

\* Every note id is a leaf.
LEMMA NoteIdsAreLeaves == NoteIds = Places(0)
BY DepthAssumption DEF NoteIds, Places

\* The two children of a position lie one level below.
LEMMA ChildrenInTree ==
    ASSUME NEW l \in 1 .. Depth, NEW i \in Places(l)
    PROVE  /\ i \in Nat
           /\ 2 * i \in Places(l - 1)
           /\ 2 * i + 1 \in Places(l - 1)
<1>1. Tree!Width(l) \in Nat /\ Tree!Width(l - 1) = 2 * Tree!Width(l)
    BY WidthPositive, WidthFacts, DepthAssumption
<1> QED
    BY <1>1 DEF Places

\* The ancestors of a leaf lie in the tree.
LEMMA AncestorInTree ==
    ASSUME NEW index \in NoteIds
    PROVE  \A l \in 0 .. Depth : Tree!Ancestor(index, l) \in Places(l)
<1> DEFINE Good == {l \in 0 .. Depth : Tree!Ancestor(index, l) \in Places(l)}
<1>1. 0 \in Good
    BY AncestorFacts, NoteIdsAreLeaves, DepthAssumption
<1>2. ASSUME NEW k \in 1 .. Depth, k - 1 \in Good PROVE k \in Good
    <2>1. Tree!Width(k) \in Nat /\ Tree!Width(k - 1) = 2 * Tree!Width(k)
        BY WidthPositive, WidthFacts, DepthAssumption
    <2>2. Tree!Ancestor(index, k) = Tree!Ancestor(index, k - 1) \div 2
        BY AncestorFacts
    <2>3. Tree!Ancestor(index, k - 1) \in 0 .. 2 * Tree!Width(k) - 1
        BY <1>2, <2>1 DEF Places
    <2>4. Tree!Ancestor(index, k) \in 0 .. Tree!Width(k) - 1
        BY <2>1, <2>2, <2>3
    <2> QED
        BY <2>4 DEF Places
<1> HIDE DEF Good
<1>3. \A k \in 0 .. Depth : k \in Good
    BY <1>1, <1>2, Climbing, DepthAssumption
<1> QED
    BY <1>3 DEF Good

\* An ancestor and its sibling are the children of the next ancestor, on the
\* sides IsLeft tells.
LEMMA SidesOfAncestor ==
    ASSUME NEW index \in NoteIds, NEW l \in 1 .. Depth
    PROVE  LET up == Tree!Ancestor(index, l)
               own == Tree!Ancestor(index, l - 1)
               sibling == Tree!SiblingIndex(index, l - 1)
           IN  /\ own \in Places(l - 1) /\ sibling \in Places(l - 1)
               /\ up \in Places(l)
               /\ IF Tree!IsLeft(index, l - 1)
                    THEN own = 2 * up /\ sibling = 2 * up + 1
                    ELSE own = 2 * up + 1 /\ sibling = 2 * up
<1> DEFINE up == Tree!Ancestor(index, l)
           own == Tree!Ancestor(index, l - 1)
<1>1. own \in Places(l - 1) /\ up \in Places(l)
    BY AncestorInTree, DepthAssumption
<1>2. up = own \div 2
    BY AncestorFacts
<1>3. own \in Nat
    <2>1. Tree!Width(l - 1) \in Nat
        BY WidthPositive, DepthAssumption
    <2> QED
        BY <1>1, <2>1 DEF Places
<1>4. /\ Tree!IsLeft(index, l - 1) <=> own % 2 = 0
      /\ Tree!SiblingIndex(index, l - 1) =
             IF Tree!IsLeft(index, l - 1) THEN own + 1 ELSE own - 1
    BY DEF Tree!IsLeft, Tree!SiblingIndex
<1>5. 2 * up \in Places(l - 1) /\ 2 * up + 1 \in Places(l - 1)
    BY <1>1, ChildrenInTree
<1> HIDE DEF up, own
<1>6. IF Tree!IsLeft(index, l - 1)
        THEN own = 2 * up /\ Tree!SiblingIndex(index, l - 1) = 2 * up + 1
        ELSE own = 2 * up + 1 /\ Tree!SiblingIndex(index, l - 1) = 2 * up
    BY <1>2, <1>3, <1>4
<1> QED
    BY <1>1, <1>5, <1>6 DEF up, own

-----------------------------------------------------------------------------
(* What a path computes.                                                   *)

\* The siblings of a leaf in the tree over `leaves`.
SiblingsOf(leaves, index, siblings) ==
    \A l \in 0 .. Depth - 1 :
        siblings[l] = Tree!Layers(leaves)[l][Tree!SiblingIndex(index, l)]

\* Folding a leaf into its siblings gives, level by level, the nodes of the
\* tree with this leaf in place; all others are as before.
LEMMA FoldWrites ==
    ASSUME NEW leaves, leaves = [i \in NoteIds |-> leaves[i]],
           NEW index \in NoteIds, NEW leaf, NEW siblings,
           SiblingsOf(leaves, index, siblings)
    PROVE  \A l \in 0 .. Depth : \A i \in Places(l) :
             Tree!Layers([leaves EXCEPT ![index] = leaf])[l][i] =
                 IF i = Tree!Ancestor(index, l)
                   THEN Tree!FoldPath(index, leaf, siblings)[l]
                   ELSE Tree!Layers(leaves)[l][i]
<1> DEFINE path == Tree!FoldPath(index, leaf, siblings)
           old == Tree!Layers(leaves)
           new == Tree!Layers([leaves EXCEPT ![index] = leaf])
           Agree(l) == \A i \in Places(l) :
                          new[l][i] = IF i = Tree!Ancestor(index, l)
                                        THEN path[l] ELSE old[l][i]
           Good == {l \in 0 .. Depth : Agree(l)}
<1>1. 0 \in Good
    <2>1. old[0] = leaves /\ new[0] = [leaves EXCEPT ![index] = leaf]
        BY LayersFacts
    <2>2. path[0] = leaf /\ Tree!Ancestor(index, 0) = index
        BY PathFacts, AncestorFacts
    <2>3. \A i \in NoteIds :
             [leaves EXCEPT ![index] = leaf][i] = IF i = index THEN leaf ELSE leaves[i]
        OBVIOUS
    <2> HIDE DEF path, old, new
    <2>4. Agree(0)
        BY <2>1, <2>2, <2>3, NoteIdsAreLeaves
    <2> QED
        BY <2>4, DepthAssumption
<1>2. ASSUME NEW k \in 1 .. Depth, k - 1 \in Good PROVE k \in Good
    <2> DEFINE up == Tree!Ancestor(index, k)
               own == Tree!Ancestor(index, k - 1)
               sibling == Tree!SiblingIndex(index, k - 1)
    <2>1. \A i \in Places(k - 1) :
             new[k - 1][i] = IF i = own THEN path[k - 1] ELSE old[k - 1][i]
        BY <1>2
    <2>2. /\ own \in Places(k - 1) /\ sibling \in Places(k - 1)
          /\ up \in Places(k)
          /\ IF Tree!IsLeft(index, k - 1)
               THEN own = 2 * up /\ sibling = 2 * up + 1
               ELSE own = 2 * up + 1 /\ sibling = 2 * up
        BY SidesOfAncestor
    <2>3. path[k] = PathNode(index, k, path[k - 1], old[k - 1][sibling])
        <3>1. path[k] = PathNode(index, k, path[k - 1], siblings[k - 1])
            BY PathFacts
        <3>2. siblings[k - 1] = old[k - 1][sibling]
            BY DepthAssumption DEF SiblingsOf
        <3> QED
            BY <3>1, <3>2
    <2>4. ASSUME NEW i \in Places(k)
          PROVE  /\ new[k][i] = Tree!Node(new[k - 1][2 * i], new[k - 1][2 * i + 1])
                 /\ old[k][i] = Tree!Node(old[k - 1][2 * i], old[k - 1][2 * i + 1])
        BY LayersFacts DEF Places
    <2> HIDE DEF path, old, new, up, own, sibling
    <2>5. ASSUME NEW i \in Places(k)
          PROVE  new[k][i] = IF i = up THEN path[k] ELSE old[k][i]
        <3>1. i \in Nat /\ 2 * i \in Places(k - 1) /\ 2 * i + 1 \in Places(k - 1)
              /\ up \in Nat
            BY <2>2, ChildrenInTree
        <3>2. CASE i = up
            <4>1. own # sibling
                BY <2>2, <3>1
            <4>2. new[k - 1][own] = path[k - 1]
                BY <2>1, <2>2
            <4>3. new[k - 1][sibling] = old[k - 1][sibling]
                BY <2>1, <2>2, <4>1
            <4> QED
                BY <2>2, <2>3, <2>4, <3>2, <4>2, <4>3 DEF PathNode
        <3>3. CASE i # up
            <4>1. 2 * i # own /\ 2 * i + 1 # own
                BY <2>2, <3>1, <3>3
            <4>2. /\ new[k - 1][2 * i] = old[k - 1][2 * i]
                  /\ new[k - 1][2 * i + 1] = old[k - 1][2 * i + 1]
                BY <2>1, <3>1, <4>1
            <4> QED
                BY <2>4, <3>3, <4>2
        <3> QED
            BY <3>2, <3>3
    <2> QED
        BY <2>5 DEF up
<1> HIDE DEF Good
<1>3. \A k \in 0 .. Depth : k \in Good
    BY <1>1, <1>2, Climbing, DepthAssumption
<1> QED
    BY <1>3 DEF Good

\* The root of the tree with a leaf in place is what the path computes.
LEMMA FoldIsRoot ==
    ASSUME NEW leaves, leaves = [i \in NoteIds |-> leaves[i]],
           NEW index \in NoteIds, NEW leaf, NEW siblings,
           SiblingsOf(leaves, index, siblings)
    PROVE  Tree!ComputeRoot(index, leaf, siblings)
             = Tree!RootOf([leaves EXCEPT ![index] = leaf])
<1>1. Depth \in 0 .. Depth /\ Places(Depth) = {0}
    BY WidthFacts, DepthAssumption DEF Places
<1>2. Tree!Ancestor(index, Depth) = 0
    BY <1>1, AncestorInTree
<1> QED
    BY <1>1, <1>2, FoldWrites DEF Tree!ComputeRoot, Tree!RootOf

\* The root commits to every leaf: a node is the pair of its children.
LEMMA RootCommits ==
    ASSUME NEW leaves, leaves = [i \in NoteIds |-> leaves[i]],
           NEW others, others = [i \in NoteIds |-> others[i]],
           Tree!RootOf(leaves) = Tree!RootOf(others)
    PROVE  leaves = others
<1> DEFINE x == Tree!Layers(leaves)
           y == Tree!Layers(others)
           Same(l) == \A i \in Places(l) : x[l][i] = y[l][i]
           Good == {k \in 0 .. Depth : Same(Depth - k)}
<1>1. 0 \in Good
    <2>1. Places(Depth) = {0} /\ Depth - 0 = Depth
        BY WidthFacts, DepthAssumption DEF Places
    <2> QED
        BY <2>1, DepthAssumption DEF Tree!RootOf
<1>2. ASSUME NEW k \in 1 .. Depth, k - 1 \in Good PROVE k \in Good
    <2> DEFINE l == Depth - k + 1
    <2>1. /\ l \in 1 .. Depth /\ l - 1 = Depth - k /\ Depth - (k - 1) = l
        BY DepthAssumption
    <2>2. Same(l)
        BY <1>2, <2>1
    <2>3. \A i \in Places(l) :
             /\ x[l][i] = Tree!Node(x[l - 1][2 * i], x[l - 1][2 * i + 1])
             /\ y[l][i] = Tree!Node(y[l - 1][2 * i], y[l - 1][2 * i + 1])
        BY <2>1, LayersFacts DEF Places
    <2> HIDE DEF l, x, y
    <2>4. ASSUME NEW j \in Places(l - 1)
          PROVE  x[l - 1][j] = y[l - 1][j]
        <3>1. /\ Tree!Width(l) \in Nat
              /\ Tree!Width(l - 1) = 2 * Tree!Width(l)
            BY <2>1, WidthPositive, WidthFacts, DepthAssumption
        <3>2. j \in Nat /\ j < 2 * Tree!Width(l)
            BY <3>1 DEF Places
        <3>3. PICK i \in Places(l) : j = 2 * i \/ j = 2 * i + 1
            <4>1. j \div 2 \in 0 .. Tree!Width(l) - 1
                BY <3>1, <3>2
            <4>2. j = 2 * (j \div 2) \/ j = 2 * (j \div 2) + 1
                BY <3>2
            <4> QED
                BY <4>1, <4>2 DEF Places
        <3>4. /\ x[l - 1][2 * i] = y[l - 1][2 * i]
              /\ x[l - 1][2 * i + 1] = y[l - 1][2 * i + 1]
            BY <2>2, <2>3 DEF Tree!Node
        <3> QED
            BY <3>3, <3>4
    <2> QED
        BY <2>1, <2>4
<1> HIDE DEF Good
<1>3. Depth \in Good
    BY <1>1, <1>2, Climbing, DepthAssumption
<1>4. \A i \in NoteIds : leaves[i] = others[i]
    <2>1. Same(0)
        BY <1>3, DepthAssumption DEF Good
    <2> QED
        BY <2>1, LayersFacts, NoteIdsAreLeaves
<1> QED
    BY <1>4

-----------------------------------------------------------------------------
(* The node cache.                                                         *)

\* A cached tree: a partial map per level, whose nodes, with the empty
\* subtree's hash where nothing was written, are those over `leaves`.
CacheOf(tree, leaves) ==
    /\ tree.nodes = [l \in Tree!Levels |-> tree.nodes[l]]
    /\ \A l \in Tree!Levels : \A i \in Places(l) :
         Tree!GetNode(tree, l, i) = Tree!Layers(leaves)[l][i]

\* What the cache answers.
LEMMA CacheAnswers ==
    ASSUME NEW tree, NEW leaves, CacheOf(tree, leaves)
    PROVE  /\ Tree!Root(tree) = Tree!RootOf(leaves)
           /\ \A i \in NoteIds : Tree!GetLeaf(tree, i) = leaves[i]
           /\ \A i \in NoteIds : SiblingsOf(leaves, i, Tree!GetSiblings(tree, i))
<1>1. Tree!Root(tree) = Tree!RootOf(leaves)
    <2>1. Places(Depth) = {0} /\ Depth \in Tree!Levels
        BY WidthFacts, DepthAssumption DEF Places, Tree!Levels
    <2> QED
        BY <2>1 DEF CacheOf, Tree!Root, Tree!RootOf
<1>2. \A i \in NoteIds : Tree!GetLeaf(tree, i) = leaves[i]
    <2>1. 0 \in Tree!Levels
        BY DepthAssumption DEF Tree!Levels
    <2> QED
        BY <2>1, LayersFacts, NoteIdsAreLeaves DEF CacheOf, Tree!GetLeaf
<1>3. ASSUME NEW i \in NoteIds, NEW l \in 0 .. Depth - 1
      PROVE  Tree!GetSiblings(tree, i)[l]
               = Tree!Layers(leaves)[l][Tree!SiblingIndex(i, l)]
    <2>1. l + 1 \in 1 .. Depth /\ (l + 1) - 1 = l /\ l \in Tree!Levels
        BY DepthAssumption DEF Tree!Levels
    <2>2. Tree!SiblingIndex(i, l) \in Places(l)
        BY <2>1, SidesOfAncestor
    <2> QED
        BY <2>1, <2>2 DEF CacheOf, Tree!GetSiblings
<1> QED
    BY <1>1, <1>2, <1>3 DEF SiblingsOf

\* The tree that nothing was written to.
LEMMA NewTreeCaches == CacheOf(Tree!NewTree, EmptyTreeRoot)
<1> DEFINE y == Tree!Layers(EmptyTreeRoot)
           Empty(l) == \A i \in Places(l) : y[l][i] = Tree!ZeroHashes[l]
           Good == {l \in 0 .. Depth : Empty(l)}
<1>1. 0 \in Good
    <2>1. Empty(0)
        BY LayersFacts, ZeroFacts, NoteIdsAreLeaves DEF EmptyTreeRoot
    <2> QED
        BY <2>1, DepthAssumption
<1>2. ASSUME NEW k \in 1 .. Depth, k - 1 \in Good PROVE k \in Good
    <2>1. Tree!ZeroHashes[k] = Tree!Node(Tree!ZeroHashes[k - 1], Tree!ZeroHashes[k - 1])
        BY ZeroFacts
    <2>2. ASSUME NEW i \in Places(k)
          PROVE  y[k][i] = Tree!ZeroHashes[k]
        <3>1. y[k][i] = Tree!Node(y[k - 1][2 * i], y[k - 1][2 * i + 1])
            BY LayersFacts DEF Places
        <3>2. 2 * i \in Places(k - 1) /\ 2 * i + 1 \in Places(k - 1)
            BY ChildrenInTree
        <3> QED
            BY <1>2, <2>1, <3>1, <3>2
    <2> QED
        BY <2>2
<1> HIDE DEF Good
<1>3. \A k \in 0 .. Depth : k \in Good
    BY <1>1, <1>2, Climbing, DepthAssumption
<1>4. /\ Tree!NewTree.nodes = [l \in Tree!Levels |-> << >>]
      /\ \A l \in Tree!Levels : DOMAIN Tree!NewTree.nodes[l] = {}
    BY DEF Tree!NewTree
<1>5. \A l \in Tree!Levels : \A i :
         Tree!GetNode(Tree!NewTree, l, i) = Tree!ZeroHashes[l]
    BY <1>4 DEF Tree!GetNode
<1> QED
    BY <1>3, <1>4, <1>5 DEF CacheOf, Good, Tree!Levels

\* set_leaf keeps the cache in step with the leaves.
LEMMA SetLeafCaches ==
    ASSUME NEW tree, NEW leaves, leaves = [i \in NoteIds |-> leaves[i]],
           tree = [next_index |-> tree.next_index, nodes |-> tree.nodes],
           CacheOf(tree, leaves), NEW index \in NoteIds, NEW leaf
    PROVE  /\ CacheOf(Tree!SetLeaf(tree, index, leaf),
                      [leaves EXCEPT ![index] = leaf])
           /\ Tree!SetLeaf(tree, index, leaf)
                = [next_index |-> tree.next_index,
                   nodes |-> Tree!SetLeaf(tree, index, leaf).nodes]
<1> DEFINE siblings == Tree!GetSiblings(tree, index)
           path == Tree!FoldPath(index, leaf, siblings)
           new == Tree!SetLeaf(tree, index, leaf)
           written == [l \in Tree!Levels |->
                         Tree!Insert(tree.nodes[l], Tree!Ancestor(index, l), path[l])]
<1>1. new = [next_index |-> tree.next_index, nodes |-> written]
    BY DEF Tree!SetLeaf
<1>2. new.nodes = written
    BY <1>1
<1> HIDE DEF new
<1>3. SiblingsOf(leaves, index, siblings)
    BY CacheAnswers
<1> HIDE DEF siblings
<1>4. \A l \in 0 .. Depth : \A i \in Places(l) :
         Tree!Layers([leaves EXCEPT ![index] = leaf])[l][i] =
             IF i = Tree!Ancestor(index, l) THEN path[l]
                                            ELSE Tree!Layers(leaves)[l][i]
    BY <1>3, FoldWrites
<1> HIDE DEF path
<1>5. ASSUME NEW l \in Tree!Levels, NEW i \in Places(l)
      PROVE  Tree!GetNode(new, l, i) =
                 IF i = Tree!Ancestor(index, l) THEN path[l]
                                                ELSE Tree!GetNode(tree, l, i)
    <2>1. new.nodes[l] = Tree!Insert(tree.nodes[l], Tree!Ancestor(index, l), path[l])
        BY <1>2
    <2>2. DOMAIN new.nodes[l] = DOMAIN tree.nodes[l] \cup {Tree!Ancestor(index, l)}
        BY <2>1 DEF Tree!Insert
    <2>3. i \in DOMAIN new.nodes[l] =>
             new.nodes[l][i] = IF i = Tree!Ancestor(index, l) THEN path[l]
                                                              ELSE tree.nodes[l][i]
        BY <2>1 DEF Tree!Insert
    <2> QED
        BY <2>2, <2>3 DEF Tree!GetNode
<1>6. new.nodes = [l \in Tree!Levels |-> new.nodes[l]]
    BY <1>2
<1>7. CacheOf(new, [leaves EXCEPT ![index] = leaf])
    BY <1>4, <1>5, <1>6 DEF CacheOf, Tree!Levels
<1> QED
    BY <1>1, <1>2, <1>7 DEF new

-----------------------------------------------------------------------------
(* The mirror: the inductive invariant.                                    *)

\* The events that say no more than the note.
EventTypes ==
    {"MutualClose", "EscapeWithdrawalInitiated", "ExpiredClaimed",
     "EscapeWithdrawalChallenged", "EscapeWithdrawalFinalized"}

\* What the queue holds.
Event ==
    [type : EventTypes, noteId : NoteIds, newRoot : Trees]
    \cup [type : {"NoteDeposited"}, noteId : NoteIds, commitment : Nat,
          amount : Nat, expiryTs : Nat, newRoot : Trees]

\* The vault's root before the k-th queued event, and after the last one.
RootBefore(k) == IF k = 1 THEN followed ELSE events[k - 1].newRoot

\* The mirror has recorded the deposit of a note, or will have by the time it
\* takes the k-th queued event.
SeenBefore(k, id) ==
    \/ id \in DOMAIN mirror.original_leaves
    \/ \E j \in 1 .. k - 1 :
         events[j].type = "NoteDeposited" /\ events[j].noteId = id

\* The root after an event, from the one before it.
RootAfter(event, before) ==
    CASE event.type \in {"NoteDeposited", "EscapeWithdrawalChallenged"} ->
           [before EXCEPT ![event.noteId] = Leaf(event.noteId, notes[event.noteId])]
      [] event.type \in {"MutualClose", "EscapeWithdrawalInitiated",
                         "ExpiredClaimed"} ->
           [before EXCEPT ![event.noteId] = ZeroLeaf]
      [] OTHER -> before

\* A queued event is of a note that was deposited and says what the vault did
\* to the tree; a deposit carries the data of the note's leaf, which never
\* change.
EventSays(event, before) ==
    /\ event.noteId < nextNoteId
    /\ event.newRoot = RootAfter(event, before)
    /\ event.type = "NoteDeposited" =>
         ComputeLeaf(event.noteId, event.commitment, event.amount, event.expiryTs)
           = Leaf(event.noteId, notes[event.noteId])

\* Each queued event, on the tree before it, leads to the tree of the next;
\* the last is the vault's.
QueueSound ==
    /\ events \in Seq(Event)
    /\ \A k \in 1 .. Len(events) :
         /\ EventSays(events[k], RootBefore(k))
         /\ events[k].type = "EscapeWithdrawalChallenged" =>
              SeenBefore(k, events[k].noteId)
    /\ currentRoot = RootBefore(Len(events) + 1)

\* The mirror holds the tree the vault had after the last event taken, and
\* the leaf of every deposit it has seen.
MirrorSound ==
    /\ followed \in Trees
    /\ mirror = [tree |-> mirror.tree, original_leaves |-> mirror.original_leaves]
    /\ mirror.tree = [next_index |-> mirror.tree.next_index,
                      nodes |-> mirror.tree.nodes]
    /\ CacheOf(mirror.tree, followed)
    /\ \A id \in DOMAIN mirror.original_leaves :
         /\ id \in NoteIds
         /\ id < nextNoteId
         /\ mirror.original_leaves[id] = Leaf(id, notes[id])

\* Every deposit has been seen or is on its way.
DepositsSeen ==
    \A id \in NoteIds : id < nextNoteId => SeenBefore(Len(events) + 1, id)

\* The inductive invariant, beside the vault's own IInv.
MirrorInv == QueueSound /\ MirrorSound /\ DepositsSeen

-----------------------------------------------------------------------------
(* The vault, called with what the mirror serves.                          *)

\* A path that proves a leaf gives the update that the current tree gives:
\* served paths add no behaviour to the vault.
LEMMA ServedIsCurrent ==
    ASSUME NEW id \in NoteIds, NEW s, s = [i \in NoteIds |-> s[i]],
           NEW old, NEW new, VerifyAndUpdate(id, old, new, s)
    PROVE  /\ VerifyAndUpdate(id, old, new, currentRoot)
           /\ currentRoot' = [currentRoot EXCEPT ![id] = new]
<1>1. /\ currentRoot = [s EXCEPT ![id] = old]
      /\ currentRoot' = [s EXCEPT ![id] = new]
    BY DEF VerifyAndUpdate, ComputeRoot
<1>2. [currentRoot EXCEPT ![id] = old] = currentRoot
    BY <1>1
<1>3. [currentRoot EXCEPT ![id] = new] = [s EXCEPT ![id] = new]
    BY <1>1
<1> QED
    BY <1>1, <1>2, <1>3 DEF VerifyAndUpdate, ComputeRoot

\* The served tree and the current one are views of the tree.
LEMMA ServedIsTree == Served = [i \in NoteIds |-> Served[i]]
BY DEF Served

\* The current tree is one a caller may bring.
LEMMA CurrentIsView == currentRoot \in TreeViews
BY DEF TreeViews

\* Accepted public inputs name the current root.
LEMMA AcceptedInputs ==
    ASSUME NEW s, NEW w \in WithdrawalInputs({s}), AcceptWithdrawal(w)
    PROVE  w \in WithdrawalInputs(TreeViews) /\ w.noteId \in NoteIds
BY DEF WithdrawalInputs, AcceptWithdrawal, TreeViews

\* What each entry point does to the tree; each is a step of the vault.
LEMMA DepositFromMirror ==
    ASSUME IInv, NEW c \in Commitments, NEW a \in Amounts, NEW v \in Values,
           Deposit(c, a, v, Served)
    PROVE  /\ Next
           /\ nextNoteId \in NoteIds
           /\ currentRoot' = [currentRoot EXCEPT ![nextNoteId] =
                                ComputeLeaf(nextNoteId, c, a, BucketedExpiry)]
<1>1. nextNoteId \in NoteIds
    BY DEF IInv, TypeOK
<1>2. VerifyAndUpdate(nextNoteId, ZeroLeaf,
                      ComputeLeaf(nextNoteId, c, a, BucketedExpiry), Served)
    BY DEF Deposit
<1>3. /\ VerifyAndUpdate(nextNoteId, ZeroLeaf,
                         ComputeLeaf(nextNoteId, c, a, BucketedExpiry), currentRoot)
      /\ currentRoot' = [currentRoot EXCEPT ![nextNoteId] =
                           ComputeLeaf(nextNoteId, c, a, BucketedExpiry)]
    BY <1>1, <1>2, ServedIsTree, ServedIsCurrent
<1>4. Deposit(c, a, v, currentRoot)
    BY <1>3 DEF Deposit
<1> QED
    BY <1>1, <1>3, <1>4, CurrentIsView DEF Next

\* Removing a leaf with a served path.
LEMMA RemoveFromMirror ==
    ASSUME NEW id \in NoteIds, RemoveLeaf(id, Served)
    PROVE  /\ RemoveLeaf(id, currentRoot)
           /\ currentRoot' = [currentRoot EXCEPT ![id] = ZeroLeaf]
BY ServedIsTree, ServedIsCurrent DEF RemoveLeaf

\* mutualClose with a served path.
LEMMA CloseFromMirror ==
    ASSUME NEW w \in WithdrawalInputs({Served}), MutualClose(w, Served)
    PROVE  /\ Next
           /\ w.noteId \in NoteIds
           /\ notes[w.noteId].status = "Active"
           /\ currentRoot' = [currentRoot EXCEPT ![w.noteId] = ZeroLeaf]
<1>1. AcceptWithdrawal(w) /\ RemoveLeaf(w.noteId, Served)
    BY DEF MutualClose
<1>2. w \in WithdrawalInputs(TreeViews) /\ w.noteId \in NoteIds
    BY <1>1, AcceptedInputs
<1>3. /\ RemoveLeaf(w.noteId, currentRoot)
      /\ currentRoot' = [currentRoot EXCEPT ![w.noteId] = ZeroLeaf]
    BY <1>1, <1>2, RemoveFromMirror
<1>4. MutualClose(w, currentRoot)
    BY <1>3 DEF MutualClose
<1> QED
    BY <1>1, <1>2, <1>3, <1>4, CurrentIsView DEF Next, AcceptWithdrawal

\* initiateEscapeWithdrawal with a served path.
LEMMA InitiateFromMirror ==
    ASSUME NEW w \in WithdrawalInputs({Served}), InitiateEscapeWithdrawal(w, Served)
    PROVE  /\ Next
           /\ w.noteId \in NoteIds
           /\ notes[w.noteId].status = "Active"
           /\ currentRoot' = [currentRoot EXCEPT ![w.noteId] = ZeroLeaf]
<1>1. AcceptWithdrawal(w) /\ RemoveLeaf(w.noteId, Served)
    BY DEF InitiateEscapeWithdrawal
<1>2. w \in WithdrawalInputs(TreeViews) /\ w.noteId \in NoteIds
    BY <1>1, AcceptedInputs
<1>3. /\ RemoveLeaf(w.noteId, currentRoot)
      /\ currentRoot' = [currentRoot EXCEPT ![w.noteId] = ZeroLeaf]
    BY <1>1, <1>2, RemoveFromMirror
<1>4. InitiateEscapeWithdrawal(w, currentRoot)
    BY <1>3 DEF InitiateEscapeWithdrawal
<1> QED
    BY <1>1, <1>2, <1>3, <1>4, CurrentIsView DEF Next, AcceptWithdrawal

\* challengeEscapeWithdrawal with a served path.
LEMMA ChallengeFromMirror ==
    ASSUME NEW id \in NoteIds, NEW r \in RequestInputs,
           ChallengeEscapeWithdrawal(id, r, Served)
    PROVE  /\ Next
           /\ notes[id].status = "PendingWithdrawal"
           /\ currentRoot' = [currentRoot EXCEPT ![id] = Leaf(id, notes[id])]
<1>1. RestoreLeaf(id, Served) /\ IsPending(id)
    BY DEF ChallengeEscapeWithdrawal
<1>2. /\ RestoreLeaf(id, currentRoot)
      /\ currentRoot' = [currentRoot EXCEPT ![id] = Leaf(id, notes[id])]
    BY <1>1, ServedIsTree, ServedIsCurrent DEF RestoreLeaf
<1>3. ChallengeEscapeWithdrawal(id, r, currentRoot)
    BY <1>2 DEF ChallengeEscapeWithdrawal
<1> QED
    BY <1>1, <1>2, <1>3, CurrentIsView DEF Next, IsPending

\* claimExpired with a served path.
LEMMA ClaimFromMirror ==
    ASSUME NEW id \in NoteIds, ClaimExpired(id, Served)
    PROVE  /\ Next
           /\ notes[id].status = "Active"
           /\ currentRoot' = [currentRoot EXCEPT ![id] = ZeroLeaf]
<1>1. RemoveLeaf(id, Served) /\ notes[id].status = "Active"
    BY DEF ClaimExpired
<1>2. /\ RemoveLeaf(id, currentRoot)
      /\ currentRoot' = [currentRoot EXCEPT ![id] = ZeroLeaf]
    BY <1>1, RemoveFromMirror
<1>3. ClaimExpired(id, currentRoot)
    BY <1>2 DEF ClaimExpired
<1> QED
    BY <1>1, <1>2, <1>3, CurrentIsView DEF Next

\* A step of the composition is one of the vault, or leaves it alone.
LEMMA MirrorStepIsVaultStep == IInv /\ [MirrorNext]_allVars => [Next]_vars
<1> SUFFICES ASSUME IInv, [MirrorNext]_allVars PROVE [Next]_vars
    OBVIOUS
<1>1. CASE \E c \in Commitments, a \in Amounts, v \in Values : DepositServed(c, a, v)
    BY <1>1, DepositFromMirror DEF DepositServed
<1>2. CASE \E w \in WithdrawalInputs({Served}) : MutualCloseServed(w)
    BY <1>2, CloseFromMirror DEF MutualCloseServed
<1>3. CASE \E w \in WithdrawalInputs({Served}) : InitiateServed(w)
    BY <1>3, InitiateFromMirror DEF InitiateServed
<1>4. CASE \E id \in NoteIds, r \in RequestInputs : ChallengeServed(id, r)
    BY <1>4, ChallengeFromMirror DEF ChallengeServed
<1>5. CASE \E id \in NoteIds : FinalizeAnnounced(id)
    BY <1>5 DEF FinalizeAnnounced, Next
<1>6. CASE \E id \in NoteIds : ClaimServed(id)
    BY <1>6, ClaimFromMirror DEF ClaimServed
<1>7. CASE OtherVaultStep
    BY <1>7 DEF OtherVaultStep, Next
<1>8. CASE Consume
    BY <1>8 DEF Consume
<1>9. CASE UNCHANGED allVars
    BY <1>9 DEF allVars
<1> QED
    BY <1>1, <1>2, <1>3, <1>4, <1>5, <1>6, <1>7, <1>8, <1>9 DEF MirrorNext

\* The vault's invariant, and that its steps are the vault's.
LEMMA MirrorKeepsVault == IInv /\ [MirrorNext]_allVars => IInv'
BY MirrorStepIsVaultStep, NextIInv

-----------------------------------------------------------------------------
(* A deposited note keeps its leaf.                                        *)

\* Deposited notes stay deposited with the leaf they have.
LeavesKept ==
    /\ nextNoteId \in Nat /\ nextNoteId' \in Nat
    /\ nextNoteId <= nextNoteId'
    /\ \A id \in NoteIds :
         id < nextNoteId => Leaf(id, notes'[id]) = Leaf(id, notes[id])

\* A change of status.
LEMMA StatusKeepsLeaves ==
    ASSUME IInv, NEW id \in NoteIds, NEW st \in NoteStatus, SetStatus(id, st),
           UNCHANGED nextNoteId
    PROVE  LeavesKept
<1>1. TypeOK
    BY DEF IInv
<1>2. \A other \in NoteIds :
         /\ notes'[other].commitment = notes[other].commitment
         /\ notes'[other].depositAmount = notes[other].depositAmount
         /\ notes'[other].expiryTs = notes[other].expiryTs
    BY <1>1, StatusTyped
<1>3. nextNoteId \in Nat
    BY <1>1 DEF TypeOK, NoteIds
<1> QED
    BY <1>2, <1>3 DEF LeavesKept, Leaf

\* No change to the notes at all.
LEMMA SameNotesKeepLeaves ==
    ASSUME IInv, UNCHANGED <<notes, nextNoteId>>
    PROVE  LeavesKept
<1>1. nextNoteId \in Nat
    BY DEF IInv, TypeOK, NoteIds
<1> QED
    BY <1>1 DEF LeavesKept

-----------------------------------------------------------------------------
(* The mirror takes events.                                                *)

\* An empty tree and an empty mirror.
LEMMA InitMirrorInv == MirrorInit => MirrorInv
<1> SUFFICES ASSUME MirrorInit PROVE MirrorInv
    OBVIOUS
<1>1. /\ events = << >> /\ followed = EmptyTreeRoot /\ currentRoot = EmptyTreeRoot
      /\ nextNoteId = 0 /\ mirror = MirrorNew
    BY DEF MirrorInit, Init
<1>2. EmptyTreeRoot \in Trees
    BY DEF EmptyTreeRoot, Trees
<1>3. QueueSound
    BY <1>1 DEF QueueSound, RootBefore
<1>4. /\ mirror.tree = Tree!NewTree /\ mirror.original_leaves = << >>
      /\ mirror = [tree |-> mirror.tree, original_leaves |-> mirror.original_leaves]
    BY <1>1 DEF MirrorNew
<1>5. Tree!NewTree = [next_index |-> Tree!NewTree.next_index,
                      nodes |-> Tree!NewTree.nodes]
    BY DEF Tree!NewTree
<1>6. MirrorSound
    BY <1>1, <1>2, <1>4, <1>5, NewTreeCaches DEF MirrorSound
<1>7. DepositsSeen
    BY <1>1 DEF DepositsSeen, NoteIds
<1> QED
    BY <1>3, <1>6, <1>7 DEF MirrorInv

\* What an event says stays true.
LEMMA SaysKept ==
    ASSUME NEW e \in Event, NEW before, LeavesKept, EventSays(e, before)
    PROVE  EventSays(e, before)'
<1>1. e.noteId \in NoteIds /\ e.noteId \in Nat
    BY DEF Event, NoteIds
<1>2. Leaf(e.noteId, notes'[e.noteId]) = Leaf(e.noteId, notes[e.noteId])
      /\ e.noteId < nextNoteId'
    BY <1>1 DEF LeavesKept, EventSays
<1> QED
    BY <1>2 DEF EventSays, RootAfter

\* The vault appends an event that says what it did.
LEMMA EmitInv ==
    ASSUME MirrorInv, LeavesKept, NEW e \in Event,
           events' = Append(events, e), UNCHANGED <<mirror, followed>>,
           e.newRoot = currentRoot',
           NEW before, before = currentRoot, EventSays(e, before)',
           e.type = "EscapeWithdrawalChallenged" => e.noteId < nextNoteId,
           \A id \in NoteIds :
             id < nextNoteId' =>
               id < nextNoteId \/ (e.type = "NoteDeposited" /\ e.noteId = id)
    PROVE  MirrorInv'
<1>0. PICK n : n = Len(events)
    OBVIOUS
<1>1. /\ events \in Seq(Event) /\ n \in Nat
      /\ events' \in Seq(Event) /\ Len(events') = n + 1
      /\ \A k \in 1 .. n : events'[k] = events[k]
      /\ events'[n + 1] = e
    BY <1>0 DEF MirrorInv, QueueSound
<1>2. \A k \in 1 .. n + 1 : RootBefore(k)' = RootBefore(k)
    BY <1>1 DEF RootBefore
<1>3. RootBefore(n + 2)' = currentRoot'
    <2>1. n + 2 # 1 /\ (n + 2) - 1 = n + 1
        BY <1>1
    <2> QED
        BY <1>1, <2>1 DEF RootBefore
<1>4. ASSUME NEW k \in 1 .. n + 1, NEW id, SeenBefore(k, id)
      PROVE  SeenBefore(k, id)'
    <2>1. \A j \in 1 .. k - 1 : j \in 1 .. n
        BY <1>1
    <2> QED
        BY <1>1, <1>4, <2>1 DEF SeenBefore
<1>5. ASSUME NEW k \in 1 .. n + 1
      PROVE  /\ EventSays(events[k], RootBefore(k))'
             /\ events'[k].type = "EscapeWithdrawalChallenged" =>
                  SeenBefore(k, events[k].noteId)'
    <2>1. CASE k \in 1 .. n
        <3>1. /\ EventSays(events[k], RootBefore(k)) /\ events[k] \in Event
              /\ events[k].type = "EscapeWithdrawalChallenged" =>
                   SeenBefore(k, events[k].noteId)
            BY <1>0, <1>1, <2>1 DEF MirrorInv, QueueSound
        <3>2. PICK d, b : d = events[k] /\ b = RootBefore(k)
            OBVIOUS
        <3>3. EventSays(d, b)'
            BY <3>1, <3>2, SaysKept
        <3>4. d = events'[k] /\ b = RootBefore(k)'
            BY <1>1, <1>2, <2>1, <3>2
        <3> QED
            BY <1>4, <2>1, <3>1, <3>2, <3>3, <3>4
    <2>2. CASE k = n + 1
        <3>1. events'[k] = e /\ RootBefore(k)' = before
            BY <1>0, <1>1, <1>2, <2>2 DEF MirrorInv, QueueSound
        <3>2. e.type = "EscapeWithdrawalChallenged" => SeenBefore(k, e.noteId)
            BY <1>0, <2>2 DEF MirrorInv, DepositsSeen, Event
        <3> QED
            BY <1>4, <3>1, <3>2
    <2> QED
        BY <1>1, <2>1, <2>2
<1>6. QueueSound'
    <2>1. Len(events') + 1 = n + 2
        BY <1>1
    <2> QED
        BY <1>1, <1>3, <1>5, <2>1 DEF QueueSound
<1>7. MirrorSound'
    BY DEF MirrorInv, MirrorSound, LeavesKept, CacheOf
<1>8. DepositsSeen'
    <2> SUFFICES ASSUME NEW id \in NoteIds, id < nextNoteId'
                 PROVE  SeenBefore(n + 2, id)'
        BY <1>0, <1>1 DEF DepositsSeen
    <2>1. CASE id < nextNoteId
        <3>1. SeenBefore(n + 1, id)
            BY <1>0, <2>1 DEF MirrorInv, DepositsSeen
        <3> QED
            BY <1>1, <3>1 DEF SeenBefore
    <2>2. CASE e.type = "NoteDeposited" /\ e.noteId = id
        BY <1>1, <2>2 DEF SeenBefore
    <2> QED
        BY <2>1, <2>2
<1> QED
    BY <1>6, <1>7, <1>8 DEF MirrorInv

\* A deposited note has an id below nextNoteId.
LEMMA DepositedBelowNext ==
    ASSUME IInv, NEW id \in NoteIds, notes[id].status # "Uninitialized"
    PROVE  id < nextNoteId
BY DEF IInv, IdsInOrder, NoNote

\* A deposit announces the leaf it writes.
LEMMA DepositMirrorInv ==
    ASSUME IInv, MirrorInv, NEW c \in Commitments, NEW a \in Amounts,
           NEW v \in Values, DepositServed(c, a, v)
    PROVE  MirrorInv'
<1>0. PICK id, before : id = nextNoteId /\ before = currentRoot
    OBVIOUS
<1>1. Deposit(c, a, v, Served) /\ Emit(DepositEvent(c, a))
    BY DEF DepositServed
<1>2. /\ Next
      /\ id \in NoteIds
      /\ currentRoot' = [currentRoot EXCEPT ![id] =
                           ComputeLeaf(id, c, a, BucketedExpiry)]
    BY <1>0, <1>1, DepositFromMirror
<1>3. TypeOK /\ TypeOK' /\ id \in Nat
    BY <1>2, NextIInv DEF IInv, NoteIds
<1>4. /\ notes' = [notes EXCEPT ![id] =
                     [commitment |-> c, depositAmount |-> a,
                      expiryTs |-> BucketedExpiry, status |-> "Active"]]
      /\ nextNoteId' = id + 1
    BY <1>0, <1>1 DEF Deposit
<1>5. /\ Leaf(id, notes'[id]) = ComputeLeaf(id, c, a, BucketedExpiry)
      /\ \A other \in NoteIds : other # id => notes'[other] = notes[other]
    BY <1>2, <1>3, <1>4 DEF TypeOK, Leaf
<1>6. LeavesKept
    BY <1>0, <1>3, <1>4, <1>5 DEF LeavesKept, NoteIds
<1>7. PICK e : e = DepositEvent(c, a)
    OBVIOUS
<1>8. /\ e \in Event
      /\ e.type = "NoteDeposited" /\ e.noteId = id /\ e.newRoot = currentRoot'
      /\ e.commitment = c /\ e.amount = a /\ e.expiryTs = BucketedExpiry
    <2>1. c \in Nat /\ a \in Nat /\ BucketedExpiry \in Nat
        BY <1>3, ExpiryNat, DataAssumption
    <2>2. currentRoot' \in Trees
        BY <1>3 DEF TypeOK
    <2>3. e = [type |-> "NoteDeposited", noteId |-> id, commitment |-> c,
               amount |-> a, expiryTs |-> BucketedExpiry, newRoot |-> currentRoot']
        BY <1>0, <1>7 DEF DepositEvent
    <2> QED
        BY <1>2, <1>7, <2>1, <2>2, <2>3 DEF Event
<1>9. EventSays(e, before)'
    <2>1. RootAfter(e, before)' = [before EXCEPT ![id] = Leaf(id, notes'[id])]
        BY <1>8 DEF RootAfter
    <2>2. e.newRoot = RootAfter(e, before)'
        BY <1>0, <1>2, <1>5, <1>8, <2>1
    <2>3. e.noteId < nextNoteId'
        BY <1>3, <1>4, <1>8
    <2>4. ComputeLeaf(e.noteId, e.commitment, e.amount, e.expiryTs)
            = Leaf(e.noteId, notes'[e.noteId])
        BY <1>5, <1>8
    <2> QED
        BY <2>2, <2>3, <2>4 DEF EventSays
<1>10. /\ events' = Append(events, e)
       /\ UNCHANGED <<mirror, followed>>
    BY <1>1, <1>7 DEF Emit
<1>11. \A other \in NoteIds :
          other < nextNoteId' => other < nextNoteId \/ e.noteId = other
    BY <1>0, <1>3, <1>4, <1>8 DEF NoteIds
<1> QED
    BY <1>0, <1>6, <1>8, <1>9, <1>10, <1>11, EmitInv

\* The other entry points change the status of one note and announce it.
LEMMA NoteMirrorInv ==
    ASSUME IInv, IInv', MirrorInv, NEW id \in NoteIds, NEW type \in EventTypes,
           NEW st \in NoteStatus, SetStatus(id, st), UNCHANGED nextNoteId,
           Emit(NoteEvent(type, id)), notes[id].status # "Uninitialized",
           currentRoot' =
             CASE type = "EscapeWithdrawalChallenged" ->
                    [currentRoot EXCEPT ![id] = Leaf(id, notes[id])]
               [] type = "EscapeWithdrawalFinalized" -> currentRoot
               [] OTHER -> [currentRoot EXCEPT ![id] = ZeroLeaf]
    PROVE  MirrorInv'
<1>1. id < nextNoteId
    BY DepositedBelowNext
<1>2. LeavesKept
    BY StatusKeepsLeaves
<1>3. PICK e, before : e = NoteEvent(type, id) /\ before = currentRoot
    OBVIOUS
<1>4. e \in Event /\ e.type = type /\ e.noteId = id /\ e.newRoot = currentRoot'
    <2>1. currentRoot' \in Trees
        BY DEF IInv, TypeOK
    <2>2. e = [type |-> type, noteId |-> id, newRoot |-> currentRoot']
        BY <1>3 DEF NoteEvent
    <2> QED
        BY <2>1, <2>2 DEF Event
<1>5. Leaf(id, notes'[id]) = Leaf(id, notes[id])
    BY <1>1, <1>2 DEF LeavesKept
<1>6. EventSays(e, before)'
    BY <1>1, <1>3, <1>4, <1>5 DEF EventSays, RootAfter, EventTypes
<1>7. events' = Append(events, e) /\ UNCHANGED <<mirror, followed>>
    BY <1>3 DEF Emit
<1> QED
    BY <1>1, <1>2, <1>3, <1>4, <1>6, <1>7, EmitInv

\* mutualClose announces that the leaf is gone.
LEMMA CloseMirrorInv ==
    ASSUME IInv, MirrorInv, NEW w \in WithdrawalInputs({Served}),
           MutualCloseServed(w)
    PROVE  MirrorInv'
<1>1. MutualClose(w, Served) /\ Emit(NoteEvent("MutualClose", w.noteId))
    BY DEF MutualCloseServed
<1>2. /\ Next /\ w.noteId \in NoteIds /\ notes[w.noteId].status = "Active"
      /\ currentRoot' = [currentRoot EXCEPT ![w.noteId] = ZeroLeaf]
    BY <1>1, CloseFromMirror
<1>3. IInv'
    BY <1>2, NextIInv
<1>4. SetStatus(w.noteId, "Closed") /\ UNCHANGED nextNoteId
    BY <1>1 DEF MutualClose
<1> QED
    BY <1>1, <1>2, <1>3, <1>4, NoteMirrorInv DEF EventTypes, NoteStatus

\* initiateEscapeWithdrawal announces that the leaf is gone.
LEMMA InitiateMirrorInv ==
    ASSUME IInv, MirrorInv, NEW w \in WithdrawalInputs({Served}),
           InitiateServed(w)
    PROVE  MirrorInv'
<1>1. /\ InitiateEscapeWithdrawal(w, Served)
      /\ Emit(NoteEvent("EscapeWithdrawalInitiated", w.noteId))
    BY DEF InitiateServed
<1>2. /\ Next /\ w.noteId \in NoteIds /\ notes[w.noteId].status = "Active"
      /\ currentRoot' = [currentRoot EXCEPT ![w.noteId] = ZeroLeaf]
    BY <1>1, InitiateFromMirror
<1>3. IInv'
    BY <1>2, NextIInv
<1>4. SetStatus(w.noteId, "PendingWithdrawal") /\ UNCHANGED nextNoteId
    BY <1>1 DEF InitiateEscapeWithdrawal
<1> QED
    BY <1>1, <1>2, <1>3, <1>4, NoteMirrorInv DEF EventTypes, NoteStatus

\* challengeEscapeWithdrawal announces that the leaf is back.
LEMMA ChallengeMirrorInv ==
    ASSUME IInv, MirrorInv, NEW id \in NoteIds, NEW r \in RequestInputs,
           ChallengeServed(id, r)
    PROVE  MirrorInv'
<1>1. /\ ChallengeEscapeWithdrawal(id, r, Served)
      /\ Emit(NoteEvent("EscapeWithdrawalChallenged", id))
    BY DEF ChallengeServed
<1>2. /\ Next /\ notes[id].status = "PendingWithdrawal"
      /\ currentRoot' = [currentRoot EXCEPT ![id] = Leaf(id, notes[id])]
    BY <1>1, ChallengeFromMirror
<1>3. IInv'
    BY <1>2, NextIInv
<1>4. SetStatus(id, "Active") /\ UNCHANGED nextNoteId
    BY <1>1 DEF ChallengeEscapeWithdrawal
<1> QED
    BY <1>1, <1>2, <1>3, <1>4, NoteMirrorInv DEF EventTypes, NoteStatus

\* finalizeEscapeWithdrawal leaves the tree as it is.
LEMMA FinalizeMirrorInv ==
    ASSUME IInv, MirrorInv, NEW id \in NoteIds, FinalizeAnnounced(id)
    PROVE  MirrorInv'
<1>1. /\ FinalizeEscapeWithdrawal(id)
      /\ Emit(NoteEvent("EscapeWithdrawalFinalized", id))
    BY DEF FinalizeAnnounced
<1>2. Next /\ notes[id].status = "PendingWithdrawal" /\ currentRoot' = currentRoot
    BY <1>1 DEF Next, FinalizeEscapeWithdrawal, IsPending
<1>3. IInv'
    BY <1>2, NextIInv
<1>4. SetStatus(id, "Closed") /\ UNCHANGED nextNoteId
    BY <1>1 DEF FinalizeEscapeWithdrawal
<1> QED
    BY <1>1, <1>2, <1>3, <1>4, NoteMirrorInv DEF EventTypes, NoteStatus

\* claimExpired announces that the leaf is gone.
LEMMA ClaimMirrorInv ==
    ASSUME IInv, MirrorInv, NEW id \in NoteIds, ClaimServed(id)
    PROVE  MirrorInv'
<1>1. ClaimExpired(id, Served) /\ Emit(NoteEvent("ExpiredClaimed", id))
    BY DEF ClaimServed
<1>2. /\ Next /\ notes[id].status = "Active"
      /\ currentRoot' = [currentRoot EXCEPT ![id] = ZeroLeaf]
    BY <1>1, ClaimFromMirror
<1>3. IInv'
    BY <1>2, NextIInv
<1>4. SetStatus(id, "Closed") /\ UNCHANGED nextNoteId
    BY <1>1 DEF ClaimExpired
<1> QED
    BY <1>1, <1>2, <1>3, <1>4, NoteMirrorInv DEF EventTypes, NoteStatus

\* Steps that touch neither the notes nor the tree.
LEMMA OtherMirrorInv ==
    ASSUME MirrorInv, UNCHANGED <<notes, nextNoteId, currentRoot, mirrorVars>>
    PROVE  MirrorInv'
<1>1. UNCHANGED <<notes, nextNoteId, currentRoot, mirror, events, followed>>
    BY DEF mirrorVars
<1>2. /\ \A k : RootBefore(k)' = RootBefore(k)
      /\ \A k, id : SeenBefore(k, id)' <=> SeenBefore(k, id)
      /\ \A e, b : EventSays(e, b)' <=> EventSays(e, b)
    BY <1>1 DEF RootBefore, SeenBefore, EventSays, RootAfter
<1>3. QueueSound'
    BY <1>1, <1>2 DEF MirrorInv, QueueSound
<1>4. MirrorSound'
    BY <1>1 DEF MirrorInv, MirrorSound, CacheOf
<1>5. DepositsSeen'
    BY <1>1, <1>2 DEF MirrorInv, DepositsSeen
<1> QED
    BY <1>3, <1>4, <1>5 DEF MirrorInv

\* What process_event does to the tree and to the recorded leaves: the tree
\* becomes the one the event announces, and the leaf of a deposit is kept.
LEMMA ProcessFollows ==
    ASSUME MirrorInv, events # << >>, NEW e, e = Head(events),
           NEW m, m = ProcessEvent(mirror, e)
    PROVE  /\ m = [tree |-> m.tree, original_leaves |-> m.original_leaves]
           /\ m.tree = [next_index |-> m.tree.next_index, nodes |-> m.tree.nodes]
           /\ CacheOf(m.tree, e.newRoot)
           /\ e \in Event
           /\ m.original_leaves =
                IF e.type = "NoteDeposited"
                  THEN Tree!Insert(mirror.original_leaves, e.noteId,
                                   Leaf(e.noteId, notes[e.noteId]))
                  ELSE mirror.original_leaves
<1> DEFINE id == e.noteId
           own == Leaf(id, notes[id])
           Put(leaf) == Tree!SetLeaf(mirror.tree, id, leaf)
<1>1. /\ events \in Seq(Event) /\ 1 \in 1 .. Len(events) /\ e = events[1]
      /\ e \in Event /\ id \in NoteIds
    <2>1. events \in Seq(Event)
        BY DEF MirrorInv, QueueSound
    <2>2. 1 \in 1 .. Len(events) /\ e = events[1] /\ e \in Event
        BY <2>1
    <2> QED
        BY <2>1, <2>2 DEF Event
<1>2. /\ EventSays(e, followed)
      /\ e.type = "EscapeWithdrawalChallenged" =>
           id \in DOMAIN mirror.original_leaves
    BY <1>1 DEF MirrorInv, QueueSound, RootBefore, SeenBefore
<1>3. /\ followed = [i \in NoteIds |-> followed[i]]
      /\ mirror = [tree |-> mirror.tree, original_leaves |-> mirror.original_leaves]
      /\ mirror.tree = [next_index |-> mirror.tree.next_index,
                        nodes |-> mirror.tree.nodes]
      /\ CacheOf(mirror.tree, followed)
    BY DEF MirrorInv, MirrorSound, Trees
<1>4. ASSUME NEW leaf
      PROVE  /\ CacheOf(Put(leaf), [followed EXCEPT ![id] = leaf])
             /\ Put(leaf) = [next_index |-> Put(leaf).next_index,
                             nodes |-> Put(leaf).nodes]
             /\ Write(mirror, id, leaf)
                  = [tree |-> Put(leaf), original_leaves |-> mirror.original_leaves]
    <2>1. /\ CacheOf(Put(leaf), [followed EXCEPT ![id] = leaf])
          /\ Put(leaf) = [next_index |-> mirror.tree.next_index,
                          nodes |-> Put(leaf).nodes]
        BY <1>1, <1>3, SetLeafCaches
    <2>2. Put(leaf).next_index = mirror.tree.next_index
        BY <2>1
    <2>3. Write(mirror, id, leaf)
            = [tree |-> Put(leaf), original_leaves |-> mirror.original_leaves]
        BY <1>3 DEF Write
    <2> QED
        BY <2>1, <2>2, <2>3
<1>5. CASE e.type = "NoteDeposited"
    <2>1. ComputeLeaf(id, e.commitment, e.amount, e.expiryTs) = own
          /\ e.newRoot = [followed EXCEPT ![id] = own]
        BY <1>2, <1>5 DEF EventSays, RootAfter
    <2>2. m = Record(mirror, id, own)
        BY <1>5, <2>1 DEF ProcessEvent
    <2> HIDE DEF Put, own
    <2>3. m = [tree |-> Put(own),
               original_leaves |-> Tree!Insert(mirror.original_leaves, id, own)]
        <3>1. Write(mirror, id, own)
                = [tree |-> Put(own), original_leaves |-> mirror.original_leaves]
            BY <1>4
        <3> QED
            BY <2>2, <3>1 DEF Record
    <2>4. m.tree = Put(own)
          /\ m.original_leaves = Tree!Insert(mirror.original_leaves, id, own)
        BY <2>3
    <2> QED
        BY <1>1, <1>4, <1>5, <2>1, <2>3, <2>4 DEF own
<1>6. CASE e.type \in {"MutualClose", "EscapeWithdrawalInitiated", "ExpiredClaimed"}
    <2>1. e.newRoot = [followed EXCEPT ![id] = ZeroLeaf]
        BY <1>2, <1>6 DEF EventSays, RootAfter
    <2>2. m = Write(mirror, id, ZeroLeaf)
        BY <1>6 DEF ProcessEvent, Remove
    <2> HIDE DEF Put
    <2>3. m = [tree |-> Put(ZeroLeaf), original_leaves |-> mirror.original_leaves]
        BY <1>4, <2>2
    <2>4. m.tree = Put(ZeroLeaf) /\ m.original_leaves = mirror.original_leaves
        BY <2>3
    <2> QED
        BY <1>1, <1>4, <1>6, <2>1, <2>3, <2>4
<1>7. CASE e.type = "EscapeWithdrawalChallenged"
    <2>1. e.newRoot = [followed EXCEPT ![id] = own]
        BY <1>2, <1>7 DEF EventSays, RootAfter
    <2>2. /\ id \in DOMAIN mirror.original_leaves
          /\ mirror.original_leaves[id] = own
        BY <1>2, <1>7 DEF MirrorInv, MirrorSound
    <2>3. m = Write(mirror, id, own)
        BY <1>7, <2>2 DEF ProcessEvent, Restore
    <2> HIDE DEF Put, own
    <2>4. m = [tree |-> Put(own), original_leaves |-> mirror.original_leaves]
        BY <1>4, <2>3
    <2>5. m.tree = Put(own) /\ m.original_leaves = mirror.original_leaves
        BY <2>4
    <2> QED
        BY <1>1, <1>4, <1>7, <2>1, <2>4, <2>5
<1>8. CASE e.type = "EscapeWithdrawalFinalized"
    <2>1. e.newRoot = followed
        BY <1>2, <1>8 DEF EventSays, RootAfter
    <2>2. m = mirror
        BY <1>8 DEF ProcessEvent
    <2> QED
        BY <1>1, <1>3, <1>8, <2>1, <2>2
<1> QED
    BY <1>1, <1>5, <1>6, <1>7, <1>8 DEF Event, EventTypes

\* The mirror takes the first event, and the queue moves up.
LEMMA ConsumeMirrorInv ==
    ASSUME IInv, MirrorInv, Consume
    PROVE  MirrorInv'
<1>1. PICK e, n : e = Head(events) /\ n = Len(events)
    OBVIOUS
<1>2. /\ events # << >>
      /\ mirror' = ProcessEvent(mirror, e)
      /\ events' = Tail(events)
      /\ followed' = e.newRoot
      /\ UNCHANGED <<notes, nextNoteId, currentRoot>>
    BY <1>1 DEF Consume, vars, contractVars
<1>3. /\ events \in Seq(Event) /\ n \in Nat \ {0} /\ e = events[1]
      /\ events' \in Seq(Event) /\ Len(events') = n - 1
      /\ \A k \in 1 .. n - 1 : events'[k] = events[k + 1]
    BY <1>1, <1>2 DEF MirrorInv, QueueSound
<1>4. PICK m : m = mirror'
    OBVIOUS
<1>5. /\ m = [tree |-> m.tree, original_leaves |-> m.original_leaves]
      /\ m.tree = [next_index |-> m.tree.next_index, nodes |-> m.tree.nodes]
      /\ CacheOf(m.tree, e.newRoot)
      /\ e \in Event
      /\ m.original_leaves =
           IF e.type = "NoteDeposited"
             THEN Tree!Insert(mirror.original_leaves, e.noteId,
                              Leaf(e.noteId, notes[e.noteId]))
             ELSE mirror.original_leaves
    BY <1>1, <1>2, <1>4, ProcessFollows
<1>6. /\ DOMAIN m.original_leaves =
             DOMAIN mirror.original_leaves
               \cup (IF e.type = "NoteDeposited" THEN {e.noteId} ELSE {})
      /\ \A id \in DOMAIN m.original_leaves :
           \/ e.type = "NoteDeposited" /\ id = e.noteId
              /\ m.original_leaves[id] = Leaf(id, notes[id])
           \/ id \in DOMAIN mirror.original_leaves
              /\ m.original_leaves[id] = mirror.original_leaves[id]
    BY <1>5 DEF Tree!Insert
<1>7. MirrorSound'
    <2>1. e.noteId \in NoteIds /\ e.noteId < nextNoteId /\ e.newRoot \in Trees
        BY <1>1, <1>3, <1>5 DEF MirrorInv, QueueSound, EventSays, Event
    <2>2. \A id \in DOMAIN m.original_leaves :
            id \in NoteIds /\ id < nextNoteId
            /\ m.original_leaves[id] = Leaf(id, notes[id])
        BY <1>6, <2>1 DEF MirrorInv, MirrorSound
    <2>3. CacheOf(mirror.tree, followed)'
        BY <1>2, <1>4, <1>5 DEF CacheOf
    <2> QED
        BY <1>2, <1>4, <1>5, <2>1, <2>2, <2>3 DEF MirrorSound
<1>8. \A k \in 1 .. n : RootBefore(k)' = RootBefore(k + 1)
    <2>1. RootBefore(1)' = RootBefore(1 + 1)
        BY <1>2, <1>3 DEF RootBefore
    <2>2. ASSUME NEW k \in 2 .. n PROVE RootBefore(k)' = RootBefore(k + 1)
        <3>1. k - 1 \in 1 .. n - 1 /\ (k - 1) + 1 = k /\ k # 1 /\ k + 1 # 1
              /\ (k + 1) - 1 = k
            BY <1>3
        <3> QED
            BY <1>3, <3>1 DEF RootBefore
    <2> QED
        BY <1>3, <2>1, <2>2
<1>9. ASSUME NEW k \in 1 .. n, NEW id, SeenBefore(k + 1, id)
      PROVE  SeenBefore(k, id)'
    <2>1. CASE id \in DOMAIN mirror.original_leaves
        BY <1>4, <1>6, <2>1 DEF SeenBefore
    <2>2. CASE \E j \in 1 .. (k + 1) - 1 :
                  events[j].type = "NoteDeposited" /\ events[j].noteId = id
        <3>1. PICK j \in 1 .. k :
                  events[j].type = "NoteDeposited" /\ events[j].noteId = id
            BY <1>3, <2>2
        <3>2. CASE j = 1
            BY <1>3, <1>4, <1>6, <3>1, <3>2 DEF SeenBefore
        <3>3. CASE j # 1
            <4>1. j - 1 \in 1 .. k - 1 /\ j - 1 \in 1 .. n - 1 /\ (j - 1) + 1 = j
                BY <1>3, <3>1, <3>3
            <4> QED
                BY <1>3, <3>1, <4>1 DEF SeenBefore
        <3> QED
            BY <3>2, <3>3
    <2> QED
        BY <1>9, <2>1, <2>2 DEF SeenBefore
<1>10. \A d, b : EventSays(d, b)' <=> EventSays(d, b)
    BY <1>2 DEF EventSays, RootAfter
<1>11. QueueSound'
    <2>1. ASSUME NEW k \in 1 .. n - 1
          PROVE  /\ EventSays(events[k], RootBefore(k))'
                 /\ events'[k].type = "EscapeWithdrawalChallenged" =>
                      SeenBefore(k, events[k].noteId)'
        <3>1. k + 1 \in 1 .. n /\ k \in 1 .. n
            BY <1>3
        <3>2. /\ EventSays(events[k + 1], RootBefore(k + 1))
              /\ events[k + 1].type = "EscapeWithdrawalChallenged" =>
                   SeenBefore(k + 1, events[k + 1].noteId)
            BY <1>1, <3>1 DEF MirrorInv, QueueSound
        <3>3. PICK d, b : d = events[k + 1] /\ b = RootBefore(k + 1)
            OBVIOUS
        <3>4. d = events'[k] /\ b = RootBefore(k)'
            BY <1>3, <1>8, <3>1, <3>3
        <3>5. EventSays(d, b)'
            BY <1>10, <3>2, <3>3
        <3> QED
            BY <1>9, <3>1, <3>2, <3>3, <3>4, <3>5
    <2>2. currentRoot' = RootBefore(n)'
        <3>1. currentRoot = RootBefore(n + 1)
            BY <1>1 DEF MirrorInv, QueueSound
        <3> QED
            BY <1>2, <1>3, <1>8, <3>1
    <2>3. Len(events') + 1 = n
        BY <1>3
    <2> QED
        BY <1>3, <2>1, <2>2, <2>3 DEF QueueSound
<1>12. DepositsSeen'
    <2> SUFFICES ASSUME NEW id \in NoteIds, id < nextNoteId'
                 PROVE  SeenBefore(n, id)'
        BY <1>3 DEF DepositsSeen
    <2>1. SeenBefore(n + 1, id)
        BY <1>1, <1>2 DEF MirrorInv, DepositsSeen
    <2> QED
        BY <1>3, <1>9, <2>1
<1> QED
    BY <1>7, <1>11, <1>12 DEF MirrorInv

\* One lemma per step.
LEMMA NextMirrorInv == IInv /\ MirrorInv /\ [MirrorNext]_allVars => MirrorInv'
<1> SUFFICES ASSUME IInv, MirrorInv, [MirrorNext]_allVars PROVE MirrorInv'
    OBVIOUS
<1>1. CASE \E c \in Commitments, a \in Amounts, v \in Values : DepositServed(c, a, v)
    BY <1>1, DepositMirrorInv
<1>2. CASE \E w \in WithdrawalInputs({Served}) : MutualCloseServed(w)
    BY <1>2, CloseMirrorInv
<1>3. CASE \E w \in WithdrawalInputs({Served}) : InitiateServed(w)
    BY <1>3, InitiateMirrorInv
<1>4. CASE \E id \in NoteIds, r \in RequestInputs : ChallengeServed(id, r)
    BY <1>4, ChallengeMirrorInv
<1>5. CASE \E id \in NoteIds : FinalizeAnnounced(id)
    BY <1>5, FinalizeMirrorInv
<1>6. CASE \E id \in NoteIds : ClaimServed(id)
    BY <1>6, ClaimMirrorInv
<1>7. CASE OtherVaultStep
    <2>1. UNCHANGED <<notes, nextNoteId, currentRoot, mirrorVars>>
        BY <1>7 DEF OtherVaultStep, SetTreasury, Pause, Unpause, SetPaused, Tick,
                    contractVars
    <2> QED
        BY <2>1, OtherMirrorInv
<1>8. CASE Consume
    BY <1>8, ConsumeMirrorInv
<1>9. CASE UNCHANGED allVars
    BY <1>9, OtherMirrorInv DEF allVars, vars, contractVars
<1> QED
    BY <1>1, <1>2, <1>3, <1>4, <1>5, <1>6, <1>7, <1>8, <1>9 DEF MirrorNext

\* Both invariants hold throughout.
LEMMA MirrorInvariant == MirrorSpec => [](IInv /\ MirrorInv)
<1>1. MirrorInit => IInv /\ MirrorInv
    BY InitIInv, InitMirrorInv DEF MirrorInit
<1>2. IInv /\ MirrorInv /\ [MirrorNext]_allVars => IInv' /\ MirrorInv'
    BY MirrorKeepsVault, NextMirrorInv
<1> QED
    BY <1>1, <1>2, PTL DEF MirrorSpec

-----------------------------------------------------------------------------
(* The theorems.                                                           *)

\* Callers who take roots and paths from a mirror, however far behind, get
\* nothing from the vault that the vault alone does not allow: every promise
\* of the contract holds in the composition.
THEOREM MirrorImplementsVault == MirrorSpec => Spec
<1>1. MirrorInit => Init
    BY DEF MirrorInit
<1> QED
    BY <1>1, MirrorInvariant, MirrorStepIsVaultStep, PTL DEF MirrorSpec, Spec

\* What the mirror serves is the tree after the last event it took.
LEMMA ServesFollowed ==
    ASSUME MirrorInv
    PROVE  /\ Served = followed
           /\ followed = [i \in NoteIds |-> followed[i]]
           /\ CacheOf(mirror.tree, followed)
<1>1. CacheOf(mirror.tree, followed) /\ followed \in Trees
    BY DEF MirrorInv, MirrorSound
<1>2. followed = [i \in NoteIds |-> followed[i]]
    BY <1>1 DEF Trees
<1> QED
    BY <1>1, <1>2, CacheAnswers DEF Served

\* For every depth: the mirror's root is the one the vault had after the last
\* event taken, and the vault's own once all are.
THEOREM MirrorMirrorFollows == MirrorSpec => []MirrorFollows
<1>1. ASSUME MirrorInv PROVE MirrorFollows
    <2>1. Tree!Root(mirror.tree) = Tree!RootOf(followed)
        BY <1>1, ServesFollowed, CacheAnswers
    <2>2. events = << >> => currentRoot = followed
        BY <1>1 DEF MirrorInv, QueueSound, RootBefore
    <2> QED
        BY <2>1, <2>2 DEF MirrorFollows
<1> QED
    BY <1>1, MirrorInvariant, PTL

\* For every depth: a served path passes verifyAndUpdate exactly when the rest
\* of the mirror's tree is the vault's, and then writes this one leaf.
THEOREM MirrorPathCheckExact == MirrorSpec => []PathCheckExact
<1>1. ASSUME IInv, MirrorInv PROVE PathCheckExact
    <2> SUFFICES ASSUME NEW id \in NoteIds, NEW old
                 PROVE  LET siblings == Tree!GetSiblings(mirror.tree, id)
                            proves == Tree!ComputeRoot(id, old, siblings)
                                        = Tree!RootOf(currentRoot)
                        IN  /\ proves <=> ComputeRoot(id, old, Served) = currentRoot
                            /\ proves => \A new :
                                 Tree!ComputeRoot(id, new, siblings)
                                   = Tree!RootOf([currentRoot EXCEPT ![id] = new])
        BY DEF PathCheckExact
    <2> DEFINE siblings == Tree!GetSiblings(mirror.tree, id)
    <2>1. /\ Served = followed
          /\ followed = [i \in NoteIds |-> followed[i]]
          /\ SiblingsOf(followed, id, siblings)
        BY <1>1, ServesFollowed, CacheAnswers
    <2>2. currentRoot = [i \in NoteIds |-> currentRoot[i]]
        BY <1>1 DEF IInv, TypeOK, Trees
    <2> HIDE DEF siblings
    <2>3. \A leaf : Tree!ComputeRoot(id, leaf, siblings)
                      = Tree!RootOf([followed EXCEPT ![id] = leaf])
        BY <2>1, FoldIsRoot
    <2>4. ASSUME Tree!RootOf([followed EXCEPT ![id] = old])
                   = Tree!RootOf(currentRoot)
          PROVE  [followed EXCEPT ![id] = old] = currentRoot
        <3> DEFINE view == [followed EXCEPT ![id] = old]
        <3>1. view = [i \in NoteIds |-> view[i]]
            BY <2>1
        <3> HIDE DEF view
        <3> QED
            BY <2>2, <2>4, <3>1, RootCommits DEF view
    <2>5. ASSUME [followed EXCEPT ![id] = old] = currentRoot, NEW new
          PROVE  [followed EXCEPT ![id] = new] = [currentRoot EXCEPT ![id] = new]
        BY <2>1, <2>5
    <2> QED
        BY <2>1, <2>3, <2>4, <2>5 DEF ComputeRoot, siblings
<1> QED
    BY <1>1, MirrorInvariant, PTL

-----------------------------------------------------------------------------
(* The path from a snapshot.                                               *)

\* The recursion of Rebuilt: one set_leaf per entry.
RebuildStep(leaves, n, f) ==
    [l \in 0 .. n |-> IF l = 0 THEN Tree!NewTree
                      ELSE Tree!SetLeaf(f[l - 1], l - 1, leaves[l])]

\* There is such a function.
LEMMA RebuildExists ==
    ASSUME NEW n \in Nat, NEW leaves
    PROVE  \E f : f = RebuildStep(leaves, n, f)
<1> DEFINE Good == {k \in 0 .. n : \E f : f = RebuildStep(leaves, k, f)}
<1>1. 0 \in Good
    <2> DEFINE f == [l \in 0 .. 0 |-> Tree!NewTree]
    <2>1. f = RebuildStep(leaves, 0, f)
        BY DEF RebuildStep
    <2> QED
        BY <2>1
<1>2. ASSUME NEW k \in 1 .. n, k - 1 \in Good PROVE k \in Good
    <2>1. PICK f : f = RebuildStep(leaves, k - 1, f)
        BY <1>2
    <2> DEFINE g == [l \in 0 .. k |-> IF l = k THEN Tree!SetLeaf(f[k - 1], k - 1, leaves[k]) ELSE f[l]]
    <2>2. \A l \in 0 .. k - 1 :
             f[l] = IF l = 0 THEN Tree!NewTree ELSE Tree!SetLeaf(f[l - 1], l - 1, leaves[l])
        BY <2>1 DEF RebuildStep
    <2>3. ASSUME NEW l \in 0 .. k
          PROVE  g[l] = IF l = 0 THEN Tree!NewTree ELSE Tree!SetLeaf(g[l - 1], l - 1, leaves[l])
        BY <2>2
    <2>4. g = [l \in 0 .. k |-> g[l]]
        OBVIOUS
    <2> HIDE DEF g
    <2>5. g = RebuildStep(leaves, k, g)
        BY <2>3, <2>4 DEF RebuildStep
    <2> QED
        BY <2>5
<1> HIDE DEF Good
<1>3. n \in Good
    BY <1>1, <1>2, Climbing
<1> QED
    BY <1>3 DEF Good

\* The tree whose first n leaves are those of s, the others empty.
Cut(s, n) == [i \in NoteIds |-> IF i < n THEN s[i] ELSE ZeroLeaf]

\* tree_path rebuilds the tree of the leaves it is given.
LEMMA RebuiltCaches ==
    ASSUME NEW s, NEW n \in 0 .. MaxNoteId, NEW leaves,
           leaves = [i \in 1 .. n |-> s[i - 1]]
    PROVE  CacheOf(Rebuilt(leaves), Cut(s, n))
<1> DEFINE build == CHOOSE f : f = RebuildStep(leaves, n, f)
<1>1. n \in Nat /\ Len(leaves) = n
    BY BoundsAssumption
<1>2. Rebuilt(leaves) = build[n]
    BY <1>1 DEF Rebuilt, RebuildStep
<1>3. build = RebuildStep(leaves, n, build)
    BY <1>1, RebuildExists
<1> HIDE DEF build
<1>4. \A l \in 0 .. n :
         build[l] = IF l = 0 THEN Tree!NewTree
                    ELSE Tree!SetLeaf(build[l - 1], l - 1, leaves[l])
    BY <1>3 DEF RebuildStep
<1> DEFINE Sound(k) ==
             /\ CacheOf(build[k], Cut(s, k))
             /\ build[k] = [next_index |-> build[k].next_index,
                            nodes |-> build[k].nodes]
           Good == {k \in 0 .. n : Sound(k)}
<1>5. 0 \in Good
    <2>1. Cut(s, 0) = EmptyTreeRoot
        <3>1. \A i \in NoteIds : ~(i < 0)
            BY BoundsAssumption DEF NoteIds
        <3>2. \A i \in NoteIds : (IF i < 0 THEN s[i] ELSE ZeroLeaf) = ZeroLeaf
            BY <3>1
        <3> QED
            BY <3>2 DEF Cut, EmptyTreeRoot
    <2>2. build[0] = Tree!NewTree
        <3>1. 0 \in 0 .. n
            BY <1>1
        <3> QED
            BY <1>4, <3>1, Zenon
    <2>3. Tree!NewTree = [next_index |-> Tree!NewTree.next_index,
                          nodes |-> Tree!NewTree.nodes]
        BY DEF Tree!NewTree
    <2> QED
        BY <1>1, <2>1, <2>2, <2>3, NewTreeCaches
<1>6. ASSUME NEW k \in 1 .. n, k - 1 \in Good PROVE k \in Good
    <2>1. k - 1 \in NoteIds /\ leaves[k] = s[k - 1]
        BY <1>1, BoundsAssumption DEF NoteIds
    <2>2. build[k] = Tree!SetLeaf(build[k - 1], k - 1, s[k - 1])
        BY <1>1, <1>4, <2>1
    <2>3. Cut(s, k - 1) = [i \in NoteIds |-> Cut(s, k - 1)[i]]
        BY DEF Cut
    <2>4. [Cut(s, k - 1) EXCEPT ![k - 1] = s[k - 1]] = Cut(s, k)
        <3>1. \A i \in NoteIds : i \in Nat /\ (i < k <=> i < k - 1 \/ i = k - 1)
            BY <1>1, BoundsAssumption DEF NoteIds
        <3> QED
            BY <2>1, <3>1 DEF Cut
    <2>5. PICK t : t = build[k - 1]
        OBVIOUS
    <2>6. /\ CacheOf(t, Cut(s, k - 1))
          /\ t = [next_index |-> t.next_index, nodes |-> t.nodes]
        BY <1>6, <2>5
    <2>7. /\ CacheOf(Tree!SetLeaf(t, k - 1, s[k - 1]), Cut(s, k))
          /\ Tree!SetLeaf(t, k - 1, s[k - 1])
               = [next_index |-> t.next_index,
                  nodes |-> Tree!SetLeaf(t, k - 1, s[k - 1]).nodes]
        BY <2>1, <2>3, <2>4, <2>6, SetLeafCaches
    <2>8. PICK u : u = Tree!SetLeaf(t, k - 1, s[k - 1])
        OBVIOUS
    <2>9. u = [next_index |-> u.next_index, nodes |-> u.nodes] /\ u = build[k]
          /\ CacheOf(u, Cut(s, k))
        BY <2>2, <2>5, <2>7, <2>8
    <2> QED
        BY <2>9
<1> HIDE DEF Good
<1>7. n \in Good
    BY <1>1, <1>5, <1>6, Climbing
<1> QED
    BY <1>2, <1>7 DEF Good

\* For every depth: whatever snapshot the browser wallet is handed, a path it
\* returns proves the snapshot's leaf under the advertised root.
THEOREM MirrorSnapshotPathProves == MirrorSpec => []SnapshotPathProves
<1>1. ASSUME IInv, MirrorInv PROVE SnapshotPathProves
    <2> SUFFICES ASSUME NEW snapshot \in Snapshots, NEW id \in NoteIds,
                        NEW existing \in BOOLEAN,
                        NEW siblings \in TreePath(snapshot, id, existing)
                 PROVE  Tree!ComputeRoot(id, IF existing THEN Served[id] ELSE ZeroLeaf,
                                         siblings) = snapshot.root
        BY DEF SnapshotPathProves
    <2>1. PICK root \in {Tree!Root(mirror.tree), Tree!RootOf(currentRoot)},
               n \in 0 .. MaxNoteId :
             snapshot = [root |-> root, next_note_id |-> n,
                         leaves |-> [i \in 1 .. n |-> Served[i - 1]]]
        BY DEF Snapshots
    <2> DEFINE tree == Rebuilt(snapshot.leaves)
               view == Cut(Served, n)
               leaf == IF existing THEN Served[id] ELSE ZeroLeaf
    <2>2. /\ IF existing THEN id < n ELSE id = n
          /\ Tree!Root(tree) = snapshot.root
          /\ siblings = Tree!GetSiblings(tree, id)
        BY <2>1 DEF TreePath, SnapshotRootHolds
    <2>3. CacheOf(tree, view)
        BY <2>1, RebuiltCaches
    <2> HIDE DEF tree
    <2>4. view = [i \in NoteIds |-> view[i]] /\ view[id] = leaf
        BY <2>1, <2>2 DEF Cut, NoteIds
    <2>5. [view EXCEPT ![id] = leaf] = view
        BY <2>4
    <2> HIDE DEF view, leaf
    <2>6. SiblingsOf(view, id, siblings) /\ Tree!Root(tree) = Tree!RootOf(view)
        BY <2>2, <2>3, CacheAnswers
    <2>7. Tree!ComputeRoot(id, leaf, siblings) = Tree!RootOf(view)
        BY <2>4, <2>5, <2>6, FoldIsRoot
    <2> QED
        BY <2>2, <2>6, <2>7 DEF leaf
<1> QED
    BY <1>1, MirrorInvariant, PTL

==============================================================================

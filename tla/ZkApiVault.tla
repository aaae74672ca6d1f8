----------------------------- MODULE ZkApiVault -----------------------------
(***************************************************************************)
(* The settlement contract contracts/src/ZkApiVault.sol.                   *)
(*                                                                         *)
(* Every external function is nonReentrant, so one call is one step: an    *)
(* action is the whole function, its guard is the conjunction of the       *)
(* conditions under which the call does not revert.                        *)
(*                                                                         *)
(* Abstractions.  A Poseidon hash is injective, so a note leaf is the      *)
(* tuple it hashes and a Merkle root is the map from note ids to leaves    *)
(* that it commits to.  The proof adapter is a parameter: the vault's own  *)
(* promises are stated for EVERY adapter, also for one that accepts        *)
(* anything.  The five deployment fields a proof is bound to (version,     *)
(* chain, address, two signing keys) are one value.                        *)
(***************************************************************************)
EXTENDS Integers, FiniteSets, Functions

CONSTANTS
    MaxNoteId,              \* type(uint32).max
    MaxTimestamp,           \* type(uint64).max; the clock stops there
    NoteTtl,                \* noteTtl
    ExpiryBucket,           \* EXPIRY_BUCKET
    ChallengePeriod,        \* challengePeriod
    NativeAssetWeiPerUnit,  \* nativeAssetWeiPerUnit, 0 for an ERC-20 vault
    MaxNativeUnits,         \* MAX_NATIVE_UNITS
    FieldModulus,           \* MerkleUpdateLib.FIELD_MODULUS
    Commitments,            \* registration commitments callers may submit
    Amounts,                \* amounts and final balances callers may submit
    Nullifiers,             \* withdrawal / request nullifiers
    Addresses,              \* accounts, ZeroAddress and Owner among them
    ZeroAddress,
    Owner,
    Rejecting,              \* accounts whose receipt of a payment reverts
    Deployments,            \* bindings a proof may carry
    ThisDeployment,         \* the binding of this vault
    ValidWithdrawal(_),     \* proofAdapter.assertValidWithdrawal succeeds
    ValidRequest(_)         \* proofAdapter.assertValidRequest succeeds

ASSUME BoundsAssumption ==
    /\ MaxNoteId \in Nat
    /\ MaxTimestamp \in Nat
    /\ NoteTtl \in Nat
    /\ ExpiryBucket \in Nat \ {0}
    /\ FieldModulus \in Nat
    /\ NativeAssetWeiPerUnit \in Nat
    /\ MaxNativeUnits \in Nat

\* The constructor rejects a zero challenge period (lines 66-71).
ASSUME PeriodAssumption == ChallengePeriod \in Nat \ {0}

ASSUME DataAssumption ==
    /\ Commitments \subseteq Nat
    /\ Amounts \subseteq Nat
    /\ ZeroAddress \in Addresses
    /\ Owner \in Addresses \ {ZeroAddress}
    /\ Rejecting \subseteq Addresses
    /\ ThisDeployment \in Deployments

\* 0 is the value a deleted pending record holds; a nullifier is a hash, and
\* no preimage of 0 is known.
ASSUME NullifierAssumption == 0 \notin Nullifiers

VARIABLES
    treasury,
    paused,
    currentRoot,
    nextNoteId,
    notes,
    pendingWithdrawals,
    usedNullifiers,
    vaultBalance,       \* wei, or token base units, the vault owns
    now,                \* block.timestamp
    paidOut,            \* history: what each note paid its user and the operator
    paidNullifiers,     \* history: nullifiers a payout was made under
    challenged          \* history: nullifiers of challenged withdrawals

contractVars == <<treasury, paused, currentRoot, nextNoteId, notes,
                  pendingWithdrawals, usedNullifiers>>
historyVars == <<paidOut, paidNullifiers, challenged>>
vars == <<contractVars, vaultBalance, now, historyVars>>

-----------------------------------------------------------------------------
(* Data.                                                                   *)

NoteIds == 0 .. MaxNoteId
NoteStatus == {"Uninitialized", "Active", "PendingWithdrawal", "Closed"}

Note == [commitment : Nat, depositAmount : Nat, expiryTs : Nat,
         status : NoteStatus]
NoNote == [commitment |-> 0, depositAmount |-> 0, expiryTs |-> 0,
           status |-> "Uninitialized"]

\* The empty leaf 0, and computeLeaf's tuple (_leaf applies it to a note).
ZeroLeaf == << >>
ComputeLeaf(id, commitment, amount, expiry) ==
    <<id, commitment, amount, expiry>>
Leaf(id, note) ==
    ComputeLeaf(id, note.commitment, note.depositAmount, note.expiryTs)

\* A sibling path is a view of the rest of the tree; folding a leaf into it
\* gives the root of that view with the leaf in place.
ComputeRoot(id, leaf, siblings) == [siblings EXCEPT ![id] = leaf]
EmptyTreeRoot == [id \in NoteIds |-> ZeroLeaf]

\* verifyAndUpdate reverts with StaleRoot unless the path proves oldLeaf.
VerifyAndUpdate(id, oldLeaf, newLeaf, siblings) ==
    /\ ComputeRoot(id, oldLeaf, siblings) = currentRoot
    /\ currentRoot' = ComputeRoot(id, newLeaf, siblings)

\* Wei per accounting unit; a token vault counts in base units.
UnitValue == IF NativeAssetWeiPerUnit = 0 THEN 1 ELSE NativeAssetWeiPerUnit

BucketedExpiry ==
    ((now + NoteTtl + ExpiryBucket - 1) \div ExpiryBucket) * ExpiryBucket

\* Mutant: no check that a time fits.
FitsTimestampUnchecked(time) == TRUE

\* The explicit uint64 check of deposit and the checked addition of initiate.
FitsTimestamp(time) == time <= MaxTimestamp

\* What a payment needs: a receiver that accepts, unless nothing is sent.
CanReceive(address, amount) == amount = 0 \/ address \notin Rejecting

\* _pay: destination first, then the operator's share; zero is skipped.
Pay(id, destination, amount, operatorShare) ==
    /\ CanReceive(destination, amount)
    /\ CanReceive(treasury, operatorShare)
    /\ (amount + operatorShare) * UnitValue <= vaultBalance
    /\ vaultBalance' = vaultBalance - (amount + operatorShare) * UnitValue
    /\ paidOut' = [paidOut EXCEPT ![id].user = @ + amount,
                                  ![id].operator = @ + operatorShare]

\* The public inputs of the two proofs, as far as the vault reads them.
WithdrawalInputs(roots) ==
    [deployment : Deployments, activeRoot : roots, noteId : NoteIds,
     finalBalance : Amounts, destination : Addresses,
     withdrawalNullifier : Nullifiers, hasClearance : BOOLEAN]
RequestInputs == [deployment : Deployments, requestNullifier : Nullifiers]

NoPending == [exists |-> FALSE, activeRoot |-> EmptyTreeRoot,
              withdrawalNullifier |-> 0, finalBalance |-> 0,
              destination |-> ZeroAddress, challengeDeadline |-> 0]

-----------------------------------------------------------------------------
(* The constructor and the entry points.                                   *)

Init ==
    /\ treasury \in Addresses \ {ZeroAddress}
    /\ paused = FALSE
    /\ currentRoot = EmptyTreeRoot
    /\ nextNoteId = 0
    /\ notes = [id \in NoteIds |-> NoNote]
    /\ pendingWithdrawals = [id \in NoteIds |-> NoPending]
    /\ usedNullifiers = {}
    /\ vaultBalance = 0
    /\ now = 0
    /\ paidOut = [id \in NoteIds |-> [user |-> 0, operator |-> 0]]
    /\ paidNullifiers = {}
    /\ challenged = {}

\* Mutant: a native deposit may carry any wei.
ValueMatchesUnchecked(amount, value) == TRUE

\* `value` is msg.value: a native deposit must carry the exact wei.
ValueMatches(amount, value) ==
    IF NativeAssetWeiPerUnit # 0
      THEN amount <= MaxNativeUnits /\ value = amount * NativeAssetWeiPerUnit
      ELSE value = 0

\* Mutant: off by one at the end of the id space.
NoteIdLeftOffByOne == nextNoteId <= MaxNoteId

\* nextNoteId + 1 is checked arithmetic: the last id is never given out.
NoteIdLeft == nextNoteId < MaxNoteId

Deposit(commitment, amount, value, siblings) ==
    /\ ~paused
    /\ ValueMatches(amount, value)
    /\ amount # 0
    /\ commitment # 0
    /\ commitment < FieldModulus
    /\ FitsTimestamp(BucketedExpiry)
    /\ NoteIdLeft
    /\ VerifyAndUpdate(nextNoteId, ZeroLeaf,
                       ComputeLeaf(nextNoteId, commitment, amount, BucketedExpiry),
                       siblings)
    /\ notes' = [notes EXCEPT ![nextNoteId] =
                   [commitment |-> commitment, depositAmount |-> amount,
                    expiryTs |-> BucketedExpiry, status |-> "Active"]]
    /\ nextNoteId' = nextNoteId + 1
    /\ vaultBalance' = vaultBalance
         + (IF NativeAssetWeiPerUnit = 0 THEN amount ELSE value)
    /\ UNCHANGED <<treasury, paused, pendingWithdrawals, usedNullifiers, now,
                   historyVars>>

\* Mutant: a burned nullifier is accepted again.
ConsumeNullifierUnchecked(nullifier) ==
    usedNullifiers' = usedNullifiers \cup {nullifier}

ConsumeNullifier(nullifier) ==
    /\ nullifier \notin usedNullifiers
    /\ usedNullifiers' = usedNullifiers \cup {nullifier}

\* What mutualClose and initiateEscapeWithdrawal check alike, and the
\* nullifier they both consume.
AcceptWithdrawal(inputs) ==
    /\ ~paused
    /\ inputs.deployment = ThisDeployment
    /\ inputs.activeRoot = currentRoot
    /\ ValidWithdrawal(inputs)
    /\ notes[inputs.noteId].status = "Active"
    /\ inputs.finalBalance <= notes[inputs.noteId].depositAmount
    /\ ConsumeNullifier(inputs.withdrawalNullifier)

RemoveLeaf(id, siblings) ==
    VerifyAndUpdate(id, Leaf(id, notes[id]), ZeroLeaf, siblings)

\* Mutant: a challenge proves the empty slot but puts nothing back.
RestoreLeafForgotten(id, siblings) ==
    VerifyAndUpdate(id, ZeroLeaf, ZeroLeaf, siblings)

RestoreLeaf(id, siblings) ==
    VerifyAndUpdate(id, ZeroLeaf, Leaf(id, notes[id]), siblings)

\* Mutant: the operator is paid the whole deposit besides the user's share.
OperatorShareWhole(id, finalBalance) == notes[id].depositAmount

OperatorShare(id, finalBalance) == notes[id].depositAmount - finalBalance

SetStatus(id, status) == notes' = [notes EXCEPT ![id].status = status]

MutualClose(inputs, siblings) ==
    /\ inputs.hasClearance
    /\ AcceptWithdrawal(inputs)
    /\ RemoveLeaf(inputs.noteId, siblings)
    /\ SetStatus(inputs.noteId, "Closed")
    /\ Pay(inputs.noteId, inputs.destination, inputs.finalBalance,
           OperatorShare(inputs.noteId, inputs.finalBalance))
    /\ paidNullifiers' = paidNullifiers \cup {inputs.withdrawalNullifier}
    /\ UNCHANGED <<treasury, paused, nextNoteId, pendingWithdrawals, now,
                   challenged>>

InitiateEscapeWithdrawal(inputs, siblings) ==
    /\ ~inputs.hasClearance
    /\ AcceptWithdrawal(inputs)
    /\ RemoveLeaf(inputs.noteId, siblings)
    /\ FitsTimestamp(now + ChallengePeriod)
    /\ SetStatus(inputs.noteId, "PendingWithdrawal")
    /\ pendingWithdrawals' = [pendingWithdrawals EXCEPT ![inputs.noteId] =
         [exists |-> TRUE, activeRoot |-> currentRoot,
          withdrawalNullifier |-> inputs.withdrawalNullifier,
          finalBalance |-> inputs.finalBalance,
          destination |-> inputs.destination,
          challengeDeadline |-> now + ChallengePeriod]]
    /\ UNCHANGED <<treasury, paused, nextNoteId, vaultBalance, now,
                   historyVars>>

IsPending(id) ==
    notes[id].status = "PendingWithdrawal" /\ pendingWithdrawals[id].exists

\* Mutants: finalizing one tick early; finalizing only when not paused.
ChallengeOverEarly(id) == now + 1 >= pendingWithdrawals[id].challengeDeadline
ChallengeOverUnpaused(id) ==
    ~paused /\ now >= pendingWithdrawals[id].challengeDeadline

\* The two sides of the deadline: at the deadline itself a challenge is
\* refused and finalizing is allowed.
ChallengeOpen(id) == now < pendingWithdrawals[id].challengeDeadline
ChallengeOver(id) == now >= pendingWithdrawals[id].challengeDeadline

Expired(id) == now >= notes[id].expiryTs

\* Mutant: the record is only marked, not deleted.
DeletePendingMarked(id) ==
    pendingWithdrawals' = [pendingWithdrawals EXCEPT ![id].exists = FALSE]

DeletePending(id) ==
    pendingWithdrawals' = [pendingWithdrawals EXCEPT ![id] = NoPending]

\* Mutant: any request proof challenges any withdrawal.
ContradictsAny(id, inputs) == TRUE

Contradicts(id, inputs) ==
    inputs.requestNullifier = pendingWithdrawals[id].withdrawalNullifier

\* The request proof may name a historical root; the nullifier stays used.
ChallengeEscapeWithdrawal(id, inputs, siblings) ==
    /\ IsPending(id)
    /\ ChallengeOpen(id)
    /\ inputs.deployment = ThisDeployment
    /\ Contradicts(id, inputs)
    /\ ValidRequest(inputs)
    /\ RestoreLeaf(id, siblings)
    /\ SetStatus(id, "Active")
    /\ DeletePending(id)
    /\ challenged' = challenged \cup {pendingWithdrawals[id].withdrawalNullifier}
    /\ UNCHANGED <<treasury, paused, nextNoteId, usedNullifiers, vaultBalance,
                   now, paidOut, paidNullifiers>>

FinalizeEscapeWithdrawal(id) ==
    /\ IsPending(id)
    /\ ChallengeOver(id)
    /\ SetStatus(id, "Closed")
    /\ DeletePending(id)
    /\ Pay(id, pendingWithdrawals[id].destination,
           pendingWithdrawals[id].finalBalance,
           OperatorShare(id, pendingWithdrawals[id].finalBalance))
    /\ paidNullifiers' =
         paidNullifiers \cup {pendingWithdrawals[id].withdrawalNullifier}
    /\ UNCHANGED <<treasury, paused, currentRoot, nextNoteId, usedNullifiers,
                   now, challenged>>

\* The whole deposit goes to the treasury: a payment with no user share.
ClaimExpired(id, siblings) ==
    /\ notes[id].status = "Active"
    /\ Expired(id)
    /\ RemoveLeaf(id, siblings)
    /\ SetStatus(id, "Closed")
    /\ Pay(id, treasury, 0, notes[id].depositAmount)
    /\ UNCHANGED <<treasury, paused, nextNoteId, pendingWithdrawals,
                   usedNullifiers, now, paidNullifiers, challenged>>

SetTreasury(caller, newTreasury) ==
    /\ caller = Owner
    /\ newTreasury # ZeroAddress
    /\ treasury' = newTreasury
    /\ UNCHANGED <<paused, currentRoot, nextNoteId, notes, pendingWithdrawals,
                   usedNullifiers, vaultBalance, now, historyVars>>

SetPaused(caller, value) ==
    /\ caller = Owner
    /\ paused' = value
    /\ UNCHANGED <<treasury, currentRoot, nextNoteId, notes,
                   pendingWithdrawals, usedNullifiers, vaultBalance, now,
                   historyVars>>

\* pause() and unpause().
Pause(caller) == SetPaused(caller, TRUE)
Unpause(caller) == SetPaused(caller, FALSE)

\* A block with a later timestamp.
Tick ==
    /\ now < MaxTimestamp
    /\ now' = now + 1
    /\ UNCHANGED <<contractVars, vaultBalance, historyVars>>

\* The trees a caller may take a root or a path from: a synchronised mirror
\* of the chain, or one that has seen no event yet.
TreeViews == {currentRoot, EmptyTreeRoot}

Values == {0} \cup {a * UnitValue : a \in Amounts}

Next ==
    \/ \E c \in Commitments, a \in Amounts, v \in Values, s \in TreeViews :
          Deposit(c, a, v, s)
    \/ \E w \in WithdrawalInputs(TreeViews), s \in TreeViews :
          MutualClose(w, s)
    \/ \E w \in WithdrawalInputs(TreeViews), s \in TreeViews :
          InitiateEscapeWithdrawal(w, s)
    \/ \E id \in NoteIds, r \in RequestInputs, s \in TreeViews :
          ChallengeEscapeWithdrawal(id, r, s)
    \/ \E id \in NoteIds : FinalizeEscapeWithdrawal(id)
    \/ \E id \in NoteIds, s \in TreeViews : ClaimExpired(id, s)
    \/ \E caller \in Addresses, t \in Addresses : SetTreasury(caller, t)
    \/ \E caller \in Addresses : Pause(caller)
    \/ \E caller \in Addresses : Unpause(caller)
    \/ Tick

Spec == Init /\ [][Next]_vars

\* Blocks keep coming, and anyone may finalize a due withdrawal: the
\* destination's owner does.  Nothing else is promised.
Fairness ==
    /\ WF_vars(Tick)
    /\ \A id \in NoteIds : WF_vars(FinalizeEscapeWithdrawal(id))

FairSpec == Spec /\ Fairness

-----------------------------------------------------------------------------
(* Properties.                                                             *)

Trees == [NoteIds -> {ZeroLeaf} \cup (NoteIds \X Nat \X Nat \X Nat)]

PendingData ==
    [exists : BOOLEAN, activeRoot : Trees,
     withdrawalNullifier : Nullifiers \cup {0},
     finalBalance : Amounts \cup {0},
     destination : Addresses, challengeDeadline : Nat]

\* Every storage slot holds a value of its Solidity type; in particular note
\* ids stay within uint32 and times within uint64.
TypeOK ==
    /\ treasury \in Addresses \ {ZeroAddress}
    /\ paused \in BOOLEAN
    /\ currentRoot \in Trees
    /\ nextNoteId \in NoteIds
    /\ notes \in [NoteIds -> Note]
    /\ pendingWithdrawals \in [NoteIds -> PendingData]
    /\ usedNullifiers \subseteq Nullifiers
    /\ vaultBalance \in Nat
    /\ now \in 0 .. MaxTimestamp
    /\ paidOut \in [NoteIds -> [user : Nat, operator : Nat]]
    /\ paidNullifiers \subseteq Nullifiers
    /\ challenged \subseteq Nullifiers

\* SPEC.md 6.5: the root commits to exactly the Active notes, each with the
\* leaf it was deposited with.  Freezing, challenging, closing and expiry all
\* rewrite the tree through caller-supplied paths.
TreeMatchesNotes ==
    \A id \in NoteIds :
        currentRoot[id] = IF notes[id].status = "Active"
                            THEN Leaf(id, notes[id]) ELSE ZeroLeaf

\* Ids are given out in order: exactly the ids below nextNoteId were ever
\* deposited, with a positive amount and an expiry that fits a uint64.
IdsInOrder ==
    \A id \in NoteIds :
        IF id < nextNoteId
          THEN /\ notes[id].status # "Uninitialized"
               /\ notes[id].depositAmount # 0
               /\ notes[id].expiryTs <= MaxTimestamp
          ELSE notes[id] = NoNote

\* A pending record exists exactly while the note is PendingWithdrawal; it
\* promises no more than the deposit, is due at a time the clock reaches and
\* at most a challenge period away, its nullifier is burned, was not paid
\* or challenged before, and is no other pending note's.
PendingSound ==
    \A id \in NoteIds :
        LET p == pendingWithdrawals[id] IN
        IF notes[id].status = "PendingWithdrawal"
          THEN /\ p.exists
               /\ p.finalBalance <= notes[id].depositAmount
               /\ p.challengeDeadline <= MaxTimestamp
               /\ p.challengeDeadline <= now + ChallengePeriod
               /\ p.withdrawalNullifier
                    \in usedNullifiers \ (paidNullifiers \cup challenged)
               /\ \A other \in NoteIds \ {id} :
                    pendingWithdrawals[other].withdrawalNullifier
                      # p.withdrawalNullifier
          ELSE p = NoPending

\* docs/src/contracts.md, "Escape Hatch Safety": a nullifier whose escape was
\* challenged stays burned, so no later withdrawal is ever paid under it.
ChallengedNeverPaid == challenged \cap paidNullifiers = {}

\* SPEC.md 6.5, per note: nothing is paid before the note is Closed, and a
\* Closed note has paid out exactly its deposit, user and operator together.
PaidExactlyOnce ==
    \A id \in NoteIds :
        paidOut[id].user + paidOut[id].operator =
            IF notes[id].status = "Closed" THEN notes[id].depositAmount ELSE 0

\* SPEC.md 6.5: the vault owns exactly the deposits of the notes that are not
\* closed, in wei for a native vault.
Live(id) == notes[id].status \in {"Active", "PendingWithdrawal"}
Solvency ==
    vaultBalance =
        UnitValue * SumFunctionOnSet(
                        [id \in NoteIds |-> notes[id].depositAmount],
                        {id \in NoteIds : Live(id)})

\* An escape is settled only once its full challenge period has run, and only
\* a challenge made before that brings the note back; the owner's pause, a
\* new treasury or an expiry in the meantime change neither.
EscapeRespectsWindow ==
    [][\A id \in NoteIds :
         notes[id].status = "PendingWithdrawal" =>
           LET p == pendingWithdrawals[id] IN
           /\ notes'[id].status = "Closed" =>
                /\ now >= p.challengeDeadline
                /\ paidOut'[id].user = p.finalBalance
           /\ notes'[id].status = "Active" =>
                /\ now < p.challengeDeadline
                /\ p.withdrawalNullifier \in challenged'
           /\ notes'[id].status # "Uninitialized"
      ]_vars

-----------------------------------------------------------------------------
(* Refinement: every behaviour of the vault is one of the escrow.          *)

Phase(status) ==
    CASE status = "Uninitialized" -> "empty"
      [] status = "Active" -> "held"
      [] status = "PendingWithdrawal" -> "exiting"
      [] status = "Closed" -> "settled"

AccountOf(id) ==
    [phase |-> Phase(notes[id].status),
     deposit |-> notes[id].depositAmount,
     claim |-> pendingWithdrawals[id].finalBalance,
     user |-> paidOut[id].user,
     operator |-> paidOut[id].operator]

E == INSTANCE Escrow WITH
        Ids <- NoteIds,
        Shares <- Amounts \cup {0},
        account <- [id \in NoteIds |-> AccountOf(id)]

\* The vault implements the escrow: one settlement per deposit, for the
\* announced share, whatever the order of deposits, closes, challenges,
\* expiry claims and owner actions.
ImplementsEscrow == E!Spec

-----------------------------------------------------------------------------
(* Liveness.                                                               *)

\* finalizeEscapeWithdrawal would not revert for want of a receiver.
Payable(id) ==
    LET p == pendingWithdrawals[id] IN
    IsPending(id) =>
        /\ CanReceive(p.destination, p.finalBalance)
        /\ CanReceive(treasury, OperatorShare(id, p.finalBalance))

\* README.md "Withdrawals": anyone can finalize an unchallenged withdrawal
\* after the deadline.  A pending withdrawal always gets resolved, paused or
\* not, if from some point on its destination and the treasury take what they
\* are due; the owner may move the treasury to and fro until then.
PendingResolves ==
    \A id \in NoteIds :
        <>[]Payable(id) =>
            (notes[id].status = "PendingWithdrawal"
                ~> notes[id].status \in {"Active", "Closed"})

\* The same sentence at its word, for a user who can be paid.  One transfer
\* that reverts undoes the whole call: a treasury that refuses its share
\* keeps the user's share in the vault too.
AnyoneCanFinalize ==
    \A id \in NoteIds :
        (/\ notes[id].status = "PendingWithdrawal"
         /\ pendingWithdrawals[id].destination \notin Rejecting)
            ~> notes[id].status \in {"Active", "Closed"}

\* PROTOCOL.md "How the Server Gets Paid": with an operator that claims
\* expired notes, every deposit is eventually settled.
EveryDepositSettles ==
    \A id \in NoteIds : notes[id].status = "Active" ~> notes[id].status = "Closed"
=============================================================================

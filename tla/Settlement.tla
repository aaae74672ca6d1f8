------------------------------ MODULE Settlement ------------------------------
(***************************************************************************)
(* The vault, the two circuits, the server and its watcher, and users who  *)
(* own notes: what is paid on chain against what was charged off chain.    *)
(*                                                                         *)
(* The vault is ZkApiVault, with WithdrawalHolds and RequestHolds as what  *)
(* its adapter accepts.  The server is taken as NullifierLedger promises   *)
(* and RequestProcessor implements: a request or a clearance is one step   *)
(* that decides the nullifier's fate, or never decides it: a request may   *)
(* be refused, or left reserved, after its proof has left the user.  Users *)
(* are not honest: they exit with any state they can prove, spent or not,  *)
(* and may go on sending requests while they exit.  Anyone may challenge   *)
(* an exit with any request proof that has left its user.                  *)
(***************************************************************************)
EXTENDS ZkApiVault, Circuits

CONSTANTS
    DepositAmounts,     \* amounts users deposit
    Charges,            \* charges the provider asks for
    ChargeCap,          \* request_charge_cap
    Payee,              \* the destination users name
    MaxClearances       \* bound on the clearances the server gives

ASSUME ChargeAssumption ==
    DepositAmounts \subseteq Amounts /\ Charges \subseteq Nat
        /\ ChargeCap \in Nat /\ Payee \in Addresses /\ MaxClearances \in Nat

\* The vault takes every hash for a nullifier, those of the users' states too.
ASSUME HashAssumption ==
    \A secret \in Commitments, a \in Anchors : NullifierOf(secret, a) \in Nullifiers

VARIABLES
    signatures,     \* messages the server has signed
    sent,           \* nullifiers of the request proofs that have left a user
    archive,        \* nullifiers of the finalized requests
    clearances,     \* nullifiers reserved for a clearance
    serverRoot,     \* current_root of the processor
    charged         \* history: what each note was charged

serverVars == <<signatures, sent, archive, clearances, serverRoot, charged>>
settlementVars == <<vars, serverVars>>

UnusedByServer(nullifier) == nullifier \notin archive \cup clearances

\* compute_next_anchor: an anchor that no state has had.
NextAnchor == GenesisAnchor + Cardinality(archive) + 1

-----------------------------------------------------------------------------
(* What users can prove.                                                   *)

\* The openings of the leaves of a tree.  Leaves are hashes, so nothing else
\* satisfies InTree.
NotesIn(root) ==
    {[noteId |-> id, secret |-> root[id][2], deposit |-> root[id][3],
      expiry |-> root[id][4]] : id \in {i \in NoteIds : root[i] # ZeroLeaf}}

\* A user claims any balance and anchor for a note of his.
Witnesses(root) ==
    {[noteId |-> n.noteId, secret |-> n.secret, deposit |-> n.deposit,
      expiry |-> n.expiry, siblings |-> root, balance |-> b, anchor |-> a,
      genesis |-> g] :
        n \in NotesIn(root), b \in Amounts, a \in Anchors, g \in BOOLEAN}

\* The public inputs that prepare_request and build_withdrawal compute; the
\* circuits determine them from the witness.
RequestOf(wit, root) ==
    [deployment |-> ThisDeployment, activeRoot |-> root, requestTime |-> now,
     solvencyBound |-> ChargeCap,
     requestNullifier |-> NullifierOf(wit.secret, wit.anchor),
     anonymousCommitment |-> Commitment(wit.balance, LeafOf(wit))]

WithdrawalOf(wit, root, cleared) ==
    [deployment |-> ThisDeployment, activeRoot |-> root,
     noteId |-> wit.noteId, finalBalance |-> wit.balance,
     destination |-> Payee,
     withdrawalNullifier |-> NullifierOf(wit.secret, wit.anchor),
     hasClearance |-> cleared]

-----------------------------------------------------------------------------
(* The server.                                                             *)

\* process_request where it ends before the transcript is finalized: an error
\* before the reservation, or a crash or a failed provider behind it.  The
\* proof is out, and the nullifier may still be finalized by a later request.
LoseRequest(wit, root) ==
    LET pub == RequestOf(wit, root) IN
    /\ RequestHolds(pub, wit, signatures)
    /\ sent' = sent \cup {pub.requestNullifier}
    /\ UNCHANGED <<vars, signatures, archive, clearances, serverRoot, charged>>

\* process_request, up to the finalized transcript: the successor commits to
\* the balance less the charge, for the same note.
ServeRequest(wit, charge) ==
    LET pub == RequestOf(wit, serverRoot) IN
    /\ RequestHolds(pub, wit, signatures)
    /\ UnusedByServer(pub.requestNullifier)
    /\ charge <= ChargeCap
    /\ NextAnchor \in Anchors
    /\ sent' = sent \cup {pub.requestNullifier}
    /\ archive' = archive \cup {pub.requestNullifier}
    /\ signatures' = signatures \cup
         {StateMessage(ThisDeployment,
                       Commitment(wit.balance - charge, LeafOf(wit)), NextAnchor)}
    /\ charged' = [charged EXCEPT ![wit.noteId] = @ + charge]
    /\ UNCHANGED <<vars, clearances, serverRoot>>

\* process_clearance: whoever names an unused nullifier gets its clearance.
ServeClearance(nullifier) ==
    /\ UnusedByServer(nullifier)
    /\ Cardinality(clearances) < MaxClearances
    /\ clearances' = clearances \cup {nullifier}
    /\ signatures' = signatures \cup {ClearanceMessage(ThisDeployment, nullifier)}
    /\ UNCHANGED <<vars, sent, archive, serverRoot, charged>>

UpdateRoot ==
    /\ serverRoot # currentRoot
    /\ serverRoot' = currentRoot
    /\ UNCHANGED <<vars, signatures, sent, archive, clearances, charged>>

\* The watcher finds an archived request for a pending withdrawal.
Evidence(id) == pendingWithdrawals[id].withdrawalNullifier \in archive

-----------------------------------------------------------------------------
(* The vault's steps.                                                      *)

SettlementInit ==
    /\ Init
    /\ signatures = {}
    /\ sent = {}
    /\ archive = {}
    /\ clearances = {}
    /\ serverRoot = EmptyTreeRoot
    /\ charged = [id \in NoteIds |-> 0]

\* A wallet samples a fresh secret for each deposit.
FreshDeposit(secret, amount) ==
    /\ \A id \in NoteIds : notes[id].commitment # RegistrationCommitment(secret)
    /\ Deposit(RegistrationCommitment(secret), amount, amount * NativeAssetWeiPerUnit,
               currentRoot)
    /\ UNCHANGED serverVars

Exit(wit, cleared) ==
    LET pub == WithdrawalOf(wit, currentRoot, cleared) IN
    /\ WithdrawalHolds(pub, wit, signatures)
    /\ IF cleared THEN MutualClose(pub, currentRoot)
                  ELSE InitiateEscapeWithdrawal(pub, currentRoot)
    /\ UNCHANGED serverVars

\* The adapter accepts any valid request proof, whoever submits it and
\* whatever became of the request.
Challenge(id, nullifier) ==
    /\ ChallengeEscapeWithdrawal(id, [deployment |-> ThisDeployment,
                                       requestNullifier |-> nullifier], currentRoot)
    /\ UNCHANGED serverVars

Finalize(id) == FinalizeEscapeWithdrawal(id) /\ UNCHANGED serverVars
Claim(id) == ClaimExpired(id, currentRoot) /\ UNCHANGED serverVars

\* The deployment assumption: within one challenge period the server learns
\* the vault's root and its watcher submits the evidence it has.
Timely ==
    /\ serverRoot = currentRoot
    /\ \A id \in NoteIds :
         IsPending(id) /\ Evidence(id) =>
             now + 1 < pendingWithdrawals[id].challengeDeadline

OwnerStep ==
    /\ \/ \E caller \in Addresses : Pause(caller) \/ Unpause(caller)
       \/ \E caller \in Addresses, t \in Addresses : SetTreasury(caller, t)
    /\ UNCHANGED serverVars

TimelyTick == Timely /\ Tick /\ UNCHANGED serverVars

SettlementNext ==
    \/ \E s \in Commitments, a \in DepositAmounts : FreshDeposit(s, a)
    \/ \E wit \in Witnesses(serverRoot), c \in Charges : ServeRequest(wit, c)
    \/ \E root \in {serverRoot, currentRoot} :
          \E wit \in Witnesses(root) : LoseRequest(wit, root)
    \/ \E n \in Nullifiers : ServeClearance(n)
    \/ UpdateRoot
    \/ \E wit \in Witnesses(currentRoot), cleared \in BOOLEAN : Exit(wit, cleared)
    \/ \E id \in NoteIds, n \in sent : Challenge(id, n)
    \/ \E id \in NoteIds : Finalize(id)
    \/ \E id \in NoteIds : Claim(id)
    \/ OwnerStep
    \/ TimelyTick

SettlementSpec == SettlementInit /\ [][SettlementNext]_settlementVars

-----------------------------------------------------------------------------
(* Properties.                                                             *)

\* The states of a note that a proof can be made from: its deposit and what
\* the server has signed for its leaf.
StatesOf(id) ==
    LET leaf == Leaf(id, notes[id]) IN
    {[balance |-> notes[id].depositAmount, anchor |-> GenesisAnchor]}
      \cup {[balance |-> m.commitment[1], anchor |-> m.anchor] :
              m \in {m \in signatures :
                       m.kind = "state" /\ m.commitment[2] = leaf}}

SecretOf(id) == notes[id].commitment
UnspentStates(id) ==
    {s \in StatesOf(id) : NullifierOf(SecretOf(id), s.anchor) \notin archive}

\* PROTOCOL.md "How the Server Gets Paid" and the challenge rule: a note is
\* settled at its deposit less what was charged, whatever stale states its
\* owner tries, or is claimed whole after its expiry.
SettlesAtBalance ==
    \A id \in NoteIds :
        notes[id].status = "Closed" =>
            \/ paidOut[id].operator = charged[id]
            \/ paidOut[id].user = 0 /\ now >= notes[id].expiryTs

\* One state of a note is unspent, and it holds the deposit less the charges:
\* a nullifier leads to one successor, for the same note, and no further.
OneUnspentState ==
    \A id \in NoteIds :
        Live(id) =>
            /\ Cardinality(UnspentStates(id)) = 1
            /\ \A s \in UnspentStates(id) :
                 s.balance + charged[id] = notes[id].depositAmount

\* The owner of an active note can exit with its unspent state: nothing has
\* burned its nullifier on chain, unless he gave out a request proof of that
\* very state that the server has not finalized, and his exit with it was
\* challenged with that proof.  SPEC.md has archived proofs as the only
\* evidence, but the vault cannot see the archive.
ExitStaysOpen ==
    \A id \in NoteIds :
        notes[id].status = "Active" =>
            \A s \in UnspentStates(id) :
                LET n == NullifierOf(SecretOf(id), s.anchor) IN
                n \in usedNullifiers => n \in sent \cap challenged
===============================================================================

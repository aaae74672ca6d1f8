------------------------------ MODULE WalletV1 ------------------------------
(***************************************************************************)
(* The v1 wallet, rust/crates/zkapi-client/src/wallet.rs, which the crate  *)
(* keeps beside wallet_v2.rs and does not export.  It differs from the v2  *)
(* wallet where it matters: one call prepares, posts and applies a         *)
(* request, holding &mut self over the await; the journal does not keep    *)
(* the request, so it is posted once and never repeated; a response is not *)
(* compared with the journal's id and nullifier, only with the commitment  *)
(* recomputed from the state and the journaled rerandomization; signatures *)
(* are XMSS under a root of the trusted epoch registry; archive_note       *)
(* leaves the journal alone.                                               *)
(*                                                                         *)
(* A step ends at each durable write and at each await; the process may    *)
(* crash between any two.  The v1 commitment E(balance, blinding) does not *)
(* name the note.  It is computed here with the group's arithmetic: the    *)
(* random scalars are given numbers, and the stored blinding has to open   *)
(* the server's point after every update.                                  *)
(***************************************************************************)
EXTENDS Service

CONSTANTS
    ChargeCap,      \* policy_charge_cap if policy_enabled, else request_charge_cap
    StaleRootCodes, \* error codes a server may send for a stale root
    CurveOrder,     \* order of the commitment group
    FieldOrder,     \* order of the field its scalars are sent in
    Felt            \* the field element each random scalar happens to be

Pedersen == INSTANCE Pedersen

ASSUME WalletV1Assumption ==
    /\ ChargeCap \in Nat
    /\ CurveOrder \in Nat \ {0, 1}
    /\ FieldOrder \in Nat /\ CurveOrder < FieldOrder
    /\ IsFiniteSet(Ids)
    /\ Felt \in [Scalar -> 0..(FieldOrder - 1)]
    /\ "stale_root" \in StaleRootCodes

VARIABLES
    stateFile,    \* disk: note_state.json
    journalFile,  \* disk: pending_journal.json
    state,        \* memory: Wallet.state
    running,      \* a Wallet exists
    pc,           \* where the call in progress is
    withdrawals   \* withdrawal proofs handed to the application

diskVars == <<stateFile, journalFile>>
processVars == <<state, running, pc>>
walletVars == <<diskVars, processVars, used, withdrawals>>
vars == <<walletVars, serverVars>>

-----------------------------------------------------------------------------
\* sample_field_element
SampleFieldElement(term) == Pedersen!ReduceBlinding(Felt[term])

OpeningOf(s) == Pedersen!Commit(s.balance, s.blinding)

\* NoteState::new_from_deposit with a fresh blinding.
GenesisState(note, amount) ==
    LET r0 == SampleFieldElement(DepositTerm(note))
    IN  [note |-> note, deposit |-> amount, balance |-> amount,
         blinding |-> r0, commitment |-> Pedersen!Commit(amount, r0),
         anchor |-> Genesis, signature |-> None]

Init ==
    /\ stateFile = None
    /\ journalFile = None
    /\ state = None
    /\ running = TRUE
    /\ pc = "idle"
    /\ used = {}
    /\ withdrawals = {}
    /\ ServiceInit

\* Wallet::new.
Start ==
    /\ ~running
    /\ running' = TRUE
    /\ state' = stateFile
    /\ UNCHANGED <<diskVars, pc, used, withdrawals, serverVars>>

Crash ==
    /\ running
    /\ running' = FALSE
    /\ state' = None
    /\ pc' = "idle"
    /\ UNCHANGED <<diskVars, used, withdrawals, serverVars>>

Idle == running /\ pc = "idle"

\* generate_deposit_params: a secret nobody used before, hence a note with
\* nullifiers of its own.
FreshNote(note) == note \notin used

ConfirmDeposit(note, amount) ==
    /\ Idle
    /\ state = None
    /\ FreshNote(note)
    /\ used' = used \cup {note}
    /\ stateFile' = GenesisState(note, amount)
    /\ state' = stateFile'
    /\ UNCHANGED <<journalFile, running, pc, withdrawals, serverVars>>

-----------------------------------------------------------------------------
(* request_flow.                                                           *)

\* Mutant: the balance need not cover the bound.
CoversBoundUnchecked(s) == TRUE

CoversBound(s) == s.balance >= ChargeCap

\* generate_request_proof_artifact: the proof system only proves a genesis
\* state or one signed as it is opened.
Provable(s) ==
    \/ s.anchor = Genesis
    \/ s.signature = <<OpeningOf(s), s.anchor>>

\* anon_commitment = E(balance, blinding + user_rerandomization).
AnonCommitment(s, rerandomization) ==
    Pedersen!Commit(s.balance,
                    Pedersen!AddBlinding(s.blinding, rerandomization))

\* Steps 1 to 4: everything before the journal is written is local.
RequestFlow(id) ==
    /\ Idle
    /\ journalFile = None
    /\ state # None
    /\ CoversBound(state)
    /\ Provable(state)
    /\ id \notin used
    /\ used' = used \cup {id}
    /\ journalFile' = [id |-> id, nullifier |-> Nullifier(state),
                       rerandomization |-> SampleFieldElement(UserTerm(id))]
    /\ pc' = "post"
    /\ UNCHANGED <<stateFile, state, running, withdrawals, serverVars>>

\* Step 5: the request is only in memory, and sent once.
Post ==
    /\ running
    /\ pc = "post"
    /\ posted' = posted \cup
            {Request(journalFile.id, journalFile.nullifier,
                     AnonCommitment(state, journalFile.rerandomization),
                     ChargeCap)}
    /\ pc' = "await"
    /\ UNCHANGED <<diskVars, state, running, used, withdrawals, rejected,
                   ledger>>

Awaiting == running /\ pc = "await"

\* The server's error for a stale root clears the journal, if its code is
\* the one the wallet compares with.
StaleRoot(code) ==
    /\ Awaiting
    /\ journalFile.id \in rejected
    /\ code = "stale_root"
    /\ journalFile' = None
    /\ pc' = "idle"
    /\ UNCHANGED <<stateFile, state, running, used, withdrawals, serverVars>>

\* Mutant: any error ends the request.
RequestFailsAndClears ==
    /\ Awaiting
    /\ journalFile' = None
    /\ pc' = "idle"
    /\ UNCHANGED <<stateFile, state, running, used, withdrawals, serverVars>>

\* No answer, any other error, or a response that is refused.
RequestFails ==
    /\ Awaiting
    /\ pc' = "idle"
    /\ UNCHANGED <<diskVars, state, running, used, withdrawals, serverVars>>

-----------------------------------------------------------------------------
(* Applying a response, from request_flow or from recover.                 *)

\* server_update on what arrives, the blinding delta not being reduced.
Update(commitment, charge, term) ==
    Pedersen!ServerUpdate(commitment, charge, Felt[term])

AlgebraHolds(response) ==
    Update(AnonCommitment(state, journalFile.rerandomization),
           response.charge, response.term)
    = response.nextCommitment

\* The signature is one XmssVerifier accepts under a trusted root.
SignatureTrusted(response) ==
    response.signature = <<response.nextCommitment, response.nextAnchor>>

VerifyRequestResponse(response) ==
    /\ response.hash = "matches"
    /\ response.charge <= ChargeCap
    /\ response.nextAnchor # None
    /\ AlgebraHolds(response)
    /\ SignatureTrusted(response)

NextBlinding(response) ==
    Pedersen!AddBlinding(
        Pedersen!AddBlinding(state.blinding, journalFile.rerandomization),
        Felt[response.term])

NextState(response) ==
    [state EXCEPT
        !.balance = @ - response.charge,
        !.blinding = NextBlinding(response),
        !.commitment = response.nextCommitment,
        !.anchor = response.nextAnchor,
        !.signature = response.signature]

\* Steps 6 to 8, and the same code again in recover: the state file, then
\* memory; the journal is next.
Install(response) ==
    /\ state # None
    /\ VerifyRequestResponse(response)
    /\ response.charge <= state.balance
    /\ stateFile' = NextState(response)
    /\ state' = stateFile'
    /\ pc' = "clearJournal"
    /\ UNCHANGED <<journalFile, running, used, withdrawals, serverVars>>

RequestAnswered(response) == Awaiting /\ Install(response)

\* recover: the server is asked by the journal's id.  A request that is not
\* finalized, or whose answer is refused, leaves everything as it is.
Recover(response) ==
    /\ Idle
    /\ journalFile # None
    /\ Install(response)

ClearJournal ==
    /\ running
    /\ pc = "clearJournal"
    /\ journalFile' = None
    /\ pc' = "idle"
    /\ UNCHANGED <<stateFile, state, running, used, withdrawals, serverVars>>

-----------------------------------------------------------------------------
(* Withdrawals and the end of a note; none of them looks at the journal.   *)

BuildWithdrawal(clearance) ==
    /\ Provable(state)
    /\ withdrawals' = withdrawals \cup
        {[nullifier |-> Nullifier(state), deposit |-> state.deposit,
          balance |-> state.balance, clearance |-> clearance]}

WithdrawalEscapeHatch ==
    /\ Idle
    /\ state # None
    /\ BuildWithdrawal(FALSE)
    /\ UNCHANGED <<diskVars, processVars, used, serverVars>>

\* Mutant: the wallet goes on although the server refuses.
RequestClearanceRefused ==
    /\ Idle
    /\ state # None
    /\ pc' = "clearance"
    /\ UNCHANGED <<diskVars, state, running, used, withdrawals, serverVars>>

\* request_clearance: the nullifier is consumed when the server answers.
RequestClearance ==
    /\ Idle
    /\ state # None
    /\ ServerClear(Nullifier(state))
    /\ pc' = "clearance"
    /\ UNCHANGED <<diskVars, state, running, used, withdrawals>>

WithdrawalMutualClose ==
    /\ running
    /\ pc = "clearance"
    /\ pc' = "idle"
    /\ \/ BuildWithdrawal(TRUE)
       \/ UNCHANGED withdrawals   \* no answer, or not under a trusted root
    /\ UNCHANGED <<diskVars, state, running, used, serverVars>>

\* archive_note, whenever the application calls it: memory forgets the note
\* first; the copy may fail, which leaves the state file.
ArchiveNote ==
    /\ Idle
    /\ state # None
    /\ state' = None
    /\ pc' \in {"removeState", "idle"}
    /\ UNCHANGED <<diskVars, running, used, withdrawals, serverVars>>

RemoveStateFile ==
    /\ running
    /\ pc = "removeState"
    /\ stateFile' = None
    /\ pc' = "idle"
    /\ UNCHANGED <<journalFile, state, running, used, withdrawals, serverVars>>

-----------------------------------------------------------------------------
WalletStep ==
    \/ Post
    \/ RequestFails
    \/ ClearJournal
    \/ WithdrawalMutualClose
    \/ RemoveStateFile

ServerStep == ServiceStep(Update) /\ UNCHANGED walletVars

Next ==
    \/ Start
    \/ Crash
    \/ \E note \in Notes, amount \in Deposits : ConfirmDeposit(note, amount)
    \/ \E id \in Ids : RequestFlow(id)
    \/ \E code \in StaleRootCodes : StaleRoot(code)
    \/ \E response \in Arriving :
          RequestAnswered(response) \/ Recover(response)
    \/ WithdrawalEscapeHatch
    \/ RequestClearance
    \/ ArchiveNote
    \/ WalletStep
    \/ ServerStep

Spec == Init /\ [][Next]_vars

\* The application restarts the wallet and recovers for as long as a journal
\* is there; every call returns; crashes stop.
FairSpec ==
    /\ Spec
    /\ WF_vars(Start)
    /\ WF_vars(WalletStep)
    /\ SF_vars(\E response \in Responses : Recover(response))
    /\ <>[][~Crash]_vars

-----------------------------------------------------------------------------
(* Types.                                                                  *)

Points == [balance : 0..(CurveOrder - 1), blinding : 0..(CurveOrder - 1)]
NoteState == [note : Notes, deposit : Deposits, balance : Nat,
              blinding : 0..(CurveOrder - 1), commitment : Points,
              anchor : Anchors \cup {Genesis},
              signature : (Points \X Anchors) \cup {None}]
Journal == [id : Ids, nullifier : Nullifiers,
            rerandomization : 0..(CurveOrder - 1)]

ASSUME WalletV1NoneAssumption ==
    None \notin NoteState \cup Journal \cup Entry(Points)

-----------------------------------------------------------------------------
(* The random scalars.  A blinding is a sum of scalars drawn at random from *)
(* a group of about 2^251 elements.  Two sums of different scalars, or one  *)
(* in which a scalar counts twice, are equal with the probability of one in *)
(* the order of the group.                                                 *)

\* The successor of the state with nullifier n.
Successor(n) == <<n[1], ledger[n].nextAnchor>>

\* The spent states the state with nullifier n comes from: the smallest set
\* with the predecessors of n and of its members.
Inherits(n, ks) ==
    \A k \in Nullifiers :
        Finalized(k) /\ Successor(k) \in ks \cup {n} => k \in ks
Before(n) ==
    {k \in Nullifiers :
        \A ks \in SUBSET Nullifiers : Inherits(n, ks) => k \in ks}

\* The scalars whose sum the blinding of that state is.
Summed(n) ==
    {DepositTerm(n[1])}
    \cup {UserTerm(ledger[k].id) : k \in Before(n)}
    \cup {ServerTerm(k) : k \in Before(n)}

\* No accident happens to the blindings that verify_request_response tells
\* apart: the rerandomized blinding of the state on disk is that of a posted
\* request only if both are sums of the same scalars, each taken once.
NoCollision ==
    stateFile # None /\ journalFile # None =>
        \A r \in posted :
            Pedersen!AddBlinding(stateFile.blinding,
                                 journalFile.rerandomization)
               = r.commitment.blinding =>
            LET terms == Summed(Nullifier(stateFile))
                term == UserTerm(journalFile.id)
            IN  /\ term \notin terms
                /\ terms \cup {term}
                      = Summed(r.nullifier) \cup {UserTerm(r.id)}

\* A choice of scalars that excludes every accident, for small instances only:
\* different sets of scalars have different sums, and a sum with one of its
\* terms counted twice is the sum of no set.
SumOf(terms) == SumFunctionOnSet(Felt, terms) % CurveOrder
GeneralPosition ==
    LET sum == [terms \in SUBSET Scalar |-> SumOf(terms)]
        sums == {sum[terms] : terms \in SUBSET Scalar}
    IN  /\ \A A, B \in SUBSET Scalar : sum[A] = sum[B] => A = B
        /\ \A A \in SUBSET Scalar : \A t \in A :
              (sum[A] + Felt[t]) % CurveOrder \notin sums

-----------------------------------------------------------------------------
(* Properties.                                                             *)

\* The state on disk is always spendable, although verify_request_response
\* does not compare the response with the journal: it is a fresh deposit or
\* what the server signed for a nullifier of this very note, its balance is the
\* deposit less the charges applied, and its blinding still opens the
\* commitment after sums past the order of the group and of the field.
StateBacked ==
    stateFile # None =>
        /\ OpeningOf(stateFile) = stateFile.commitment
        /\ \/ /\ stateFile.anchor = Genesis
              /\ stateFile.balance = stateFile.deposit
           \/ \E n \in Nullifiers :
                 /\ Finalized(n)
                 /\ n[1] = stateFile.note
                 /\ ledger[n].signature =
                        <<stateFile.commitment, stateFile.anchor>>
        /\ stateFile.balance =
              stateFile.deposit
              - Charged(stateFile.note, Nullifiers \ {Nullifier(stateFile)})

\* A spent state is never orphaned: while the server holds a reservation or a
\* successor for the state on disk, the journal names the request and its
\* rerandomization, which recover needs and nothing else remembers.
SpentStateRecoverable ==
    stateFile # None =>
        LET n == Nullifier(stateFile)
        IN  ledger[n] # None /\ ~Cleared(n) =>
                /\ journalFile # None
                /\ journalFile.id = ledger[n].id
                /\ journalFile.nullifier = n

\* A withdrawal with clearance claims the deposit less all charges ever
\* finalized for the note, and its nullifier is cleared.
ClearedWithdrawalFinal ==
    \A w \in withdrawals : w.clearance =>
        /\ Cleared(w.nullifier)
        /\ w.balance = w.deposit - Charged(w.nullifier[1], Nullifiers)

\* The state on disk has a successor at the server.
StateSpent == stateFile # None /\ Finalized(Nullifier(stateFile))

\* archive_note dropped the note from memory and left its file.
GivenUp == running /\ state = None

\* request_flow may lose the answer at any point, and never asks twice; but
\* once the server has finalized the request, recovery installs its answer
\* (unless the user leaves with the note or archives it instead).
FinalizedIsInstalled ==
    StateSpent ~> (~StateSpent \/ GivenUp \/ withdrawals # {})

=============================================================================

------------------------------- MODULE Wallet -------------------------------
(***************************************************************************)
(* The persistent v2 wallet: rust/crates/zkapi-client/src/wallet_v2.rs     *)
(* with its write-ahead journal (journal.rs) and note state file           *)
(* (note_state.rs), an application that calls it, and the v2 server as the *)
(* wallet uses it.                                                         *)
(*                                                                         *)
(* A step ends at each durable write, so the process may crash between any *)
(* two of them; save and write are renames, hence atomic.  Methods take    *)
(* &mut self: one operation runs at a time.  Requests are posted any       *)
(* number of times, reach the server late or never, and answers come late, *)
(* repeated, or altered.                                                   *)
(***************************************************************************)
EXTENDS Service

CONSTANT
    ChargeCap       \* config cap in force: request_ or policy_charge_cap

ASSUME WalletAssumption == ChargeCap \in Nat

VARIABLES
    stateFile,    \* disk: note_state.json
    journalFile,  \* disk: pending_journal.json
    archived,     \* disk: notes with a file under archive/
    state,        \* memory: Wallet.state
    running,      \* a Wallet exists
    pc,           \* the operation in progress
    withdrawals   \* withdrawal proofs handed to the application

diskVars == <<stateFile, journalFile, archived>>
processVars == <<state, running, pc>>
walletVars == <<diskVars, processVars, used>>
vars == <<walletVars, serverVars, withdrawals>>

-----------------------------------------------------------------------------
(* Data.                                                                   *)

\* balance_commitment: bound to the note's leaf.
Commit(note, balance, blinding) ==
    [note |-> note, balance |-> balance, blinding |-> blinding]
OpeningOf(s) == Commit(s.note, s.balance, s.blinding)

\* NoteState::new_from_deposit.
NewFromDeposit(note, amount) ==
    [note |-> note, deposit |-> amount, balance |-> amount,
     blinding |-> <<DepositTerm(note)>>,
     commitment |-> Commit(note, amount, <<DepositTerm(note)>>),
     anchor |-> Genesis, signature |-> None]

-----------------------------------------------------------------------------
Init ==
    /\ stateFile = None
    /\ journalFile = None
    /\ archived = {}
    /\ state = None
    /\ running = TRUE
    /\ pc = "idle"
    /\ used = {}
    /\ ServiceInit
    /\ withdrawals = {}

\* Wallet::new loads the state file; the journal stays on disk.
Start ==
    /\ ~running
    /\ running' = TRUE
    /\ state' = stateFile
    /\ UNCHANGED <<diskVars, pc, used, serverVars, withdrawals>>

Crash ==
    /\ running
    /\ running' = FALSE
    /\ state' = None
    /\ pc' = "idle"
    /\ UNCHANGED <<diskVars, used, serverVars, withdrawals>>

Idle == running /\ pc = "idle"

\* confirm_deposit; the vault gave the note its id.
ConfirmDeposit(note, amount) ==
    /\ Idle
    /\ state = None
    /\ note \notin used
    /\ used' = used \cup {note}
    /\ stateFile' = NewFromDeposit(note, amount)
    /\ state' = stateFile'
    /\ UNCHANGED <<journalFile, archived, running, pc, serverVars,
                   withdrawals>>

\* ~has_pending_request()
NothingPending == journalFile = None

\* Mutant: the balance need not cover the bound.
CoversBoundUnchecked(s) == TRUE

CoversBound(s) == s.balance >= ChargeCap

\* prepare_request: everything before the journal is written is local.
PrepareRequest(id) ==
    /\ Idle
    /\ NothingPending
    /\ state # None
    /\ CoversBound(state)
    /\ OpeningOf(state) = state.commitment
    /\ id \notin used
    /\ used' = used \cup {id}
    /\ journalFile' = [id |-> id, nullifier |-> Nullifier(state),
                       rerandomization |-> UserTerm(id),
                       commitment |-> Rerandomize(state.commitment,
                                                  UserTerm(id)),
                       bound |-> ChargeCap]
    /\ UNCHANGED <<stateFile, archived, processVars, serverVars, withdrawals>>

\* The POST of request_flow, and each retry with pending_api_request.
PostRequest ==
    /\ Idle
    /\ journalFile # None
    /\ posted' = posted \cup
            {Request(journalFile.id, journalFile.nullifier,
                     journalFile.commitment, journalFile.bound)}
    /\ UNCHANGED <<diskVars, processVars, used, rejected, ledger, withdrawals>>

\* request_flow's answer to stale_root, and clear_pending_request.
ClearPendingRequest ==
    /\ Idle
    /\ journalFile # None
    /\ journalFile.id \in rejected
    /\ journalFile' = None
    /\ UNCHANGED <<stateFile, archived, processVars, used, serverVars,
                   withdrawals>>

-----------------------------------------------------------------------------
(* complete_pending_response and apply_response.                           *)

Identifies(response) ==
    /\ response.id = journalFile.id
    /\ response.nullifier = journalFile.nullifier

\* Mutant: the next commitment is taken on the server's word.
AlgebraHoldsUnchecked(response) == TRUE

\* Mutant: the journaled rerandomization is not applied again.
AlgebraWithoutJournal(response) ==
    ServerUpdate(OpeningOf(state), response.charge, response.term)
    = response.nextCommitment

\* server_update of the rerandomized current commitment.
AlgebraHolds(response) ==
    ServerUpdate(Rerandomize(OpeningOf(state), journalFile.rerandomization),
                 response.charge, response.term)
    = response.nextCommitment

Signed(response) ==
    response.signature = <<response.nextCommitment, response.nextAnchor>>

Verified(response) ==
    /\ OpeningOf(state) = state.commitment
    /\ Identifies(response)
    /\ response.hash = "matches"
    /\ response.charge <= ChargeCap
    /\ response.nextAnchor # None
    /\ AlgebraHolds(response)
    /\ Signed(response)
    /\ response.charge <= state.balance

\* Mutant: the charge is not taken off the balance.
NextStateUncharged(response) ==
    [state EXCEPT
        !.blinding = Append(Append(@, journalFile.rerandomization),
                            response.term),
        !.commitment = response.nextCommitment,
        !.anchor = response.nextAnchor,
        !.signature = response.signature]

NextState(response) ==
    [state EXCEPT
        !.balance = @ - response.charge,
        !.blinding = Append(Append(@, journalFile.rerandomization),
                            response.term),
        !.commitment = response.nextCommitment,
        !.anchor = response.nextAnchor,
        !.signature = response.signature]

\* Mutant: the journal goes before the state is safe on disk.
ApplyAfterClear(response) ==
    /\ Idle
    /\ journalFile # None
    /\ state # None
    /\ Verified(response)
    /\ journalFile' = None
    /\ state' = NextState(response)
    /\ pc' = "clearJournal"
    /\ UNCHANGED <<stateFile, archived, running, used, serverVars, withdrawals>>

\* apply_response up to the save: the state file, then memory.
ApplyResponse(response) ==
    /\ Idle
    /\ journalFile # None
    /\ state # None
    /\ Verified(response)
    /\ stateFile' = NextState(response)
    /\ state' = stateFile'
    /\ pc' = "clearJournal"
    /\ UNCHANGED <<journalFile, archived, running, used, serverVars,
                   withdrawals>>

\* The clear that ends complete_pending_response and archive_note.
ClearJournal ==
    /\ running
    /\ pc = "clearJournal"
    /\ journalFile' = None
    /\ pc' = "idle"
    /\ UNCHANGED <<stateFile, archived, state, running, used, serverVars,
                   withdrawals>>

-----------------------------------------------------------------------------
(* Withdrawals and the end of a note.                                      *)

\* build_withdrawal from the state in memory.
BuildWithdrawal(clearance) ==
    withdrawals' = withdrawals \cup
        {[nullifier |-> Nullifier(state), deposit |-> state.deposit,
          balance |-> state.balance, clearance |-> clearance]}

WithdrawalEscapeHatch ==
    /\ Idle
    /\ state # None
    /\ BuildWithdrawal(FALSE)
    /\ UNCHANGED <<diskVars, processVars, used, serverVars>>

\* withdrawal_mutual_close: the server consumes the nullifier when it
\* answers; the answer may be lost.
RequestClearance ==
    /\ Idle
    /\ state # None
    /\ ServerClear(Nullifier(state))
    /\ pc' = "clearance"
    /\ UNCHANGED <<diskVars, state, running, used, withdrawals>>

WithdrawalMutualClose ==
    /\ running
    /\ pc = "clearance"
    /\ pc' = "idle"
    /\ \/ BuildWithdrawal(TRUE)
       \/ UNCHANGED withdrawals   \* no answer, or not signed by the server
    /\ UNCHANGED <<diskVars, state, running, used, serverVars>>

\* archive_note: the note is copied, removed, and the journal cleared;
\* without a note in memory only the journal is cleared.
ArchiveNote ==
    /\ Idle
    /\ \/ /\ state # None
          /\ archived' = archived \cup {state.note}
          /\ pc' = "removeState"
       \/ /\ state = None
          /\ pc' = "clearJournal"
          /\ UNCHANGED archived
    /\ UNCHANGED <<stateFile, journalFile, state, running, used, serverVars,
                   withdrawals>>

RemoveStateFile ==
    /\ running
    /\ pc = "removeState"
    /\ stateFile' = None
    /\ state' = None
    /\ pc' = "clearJournal"
    /\ UNCHANGED <<journalFile, archived, running, used, serverVars,
                   withdrawals>>

-----------------------------------------------------------------------------
WalletStep ==
    \/ ClearJournal
    \/ WithdrawalMutualClose
    \/ RemoveStateFile

ServerStep == ServiceStep(ServerUpdate) /\ UNCHANGED <<walletVars, withdrawals>>

Next ==
    \/ Start
    \/ Crash
    \/ \E note \in Notes, amount \in Deposits : ConfirmDeposit(note, amount)
    \/ \E id \in Ids : PrepareRequest(id)
    \/ PostRequest
    \/ ClearPendingRequest
    \/ \E response \in Arriving : ApplyResponse(response)
    \/ WithdrawalEscapeHatch
    \/ RequestClearance
    \/ ArchiveNote
    \/ WalletStep
    \/ ServerStep

Spec == Init /\ [][Next]_vars

\* The application restarts the wallet, retries and recovers for as long as a
\* request is pending; the server finalizes what it reserved; crashes stop.
FairSpec ==
    /\ Spec
    /\ WF_vars(Start)
    /\ SF_vars(PostRequest)
    /\ SF_vars(ClearPendingRequest)
    /\ SF_vars(\E response \in Responses : ApplyResponse(response))
    /\ WF_vars(WalletStep)
    /\ WF_vars(ServerStep)
    /\ <>[][~Crash]_vars

-----------------------------------------------------------------------------
(* Properties.                                                             *)

NoteState == [note : Notes, deposit : Deposits, balance : Nat,
              blinding : Seq(Scalar), commitment : BoundCommitment,
              anchor : Anchors \cup {Genesis},
              signature : (BoundCommitment \X Anchors) \cup {None}]
Journal == [id : Ids, nullifier : Nullifiers,
            rerandomization : Scalar, commitment : BoundCommitment,
            bound : Nat]

ASSUME WalletNoneAssumption == None \notin NoteState \cup Journal

\* Type invariant.  Balances are naturals: no charge ever exceeds what is
\* left, on either side.
TypeOK ==
    /\ stateFile \in NoteState \cup {None}
    /\ journalFile \in Journal \cup {None}
    /\ archived \subseteq Notes
    /\ state \in NoteState \cup {None}
    /\ running \in BOOLEAN
    /\ pc \in {"idle", "clearJournal", "clearance", "removeState"}
    /\ used \subseteq Notes \cup Ids
    /\ ServiceTypeOK(BoundCommitment)

\* The state on disk is always spendable: its opening is the commitment it
\* stores, which is the deposit's own or one the server signed for this note
\* together with the anchor on disk.  And every charge is paid once: its
\* balance is the deposit less the charges of all finalized requests of the
\* note, but for the one not applied yet.  No altered, late or repeated answer
\* and no crash puts anything else there.
StateBacked ==
    stateFile # None =>
        /\ OpeningOf(stateFile) = stateFile.commitment
        /\ \/ /\ stateFile.anchor = Genesis
              /\ stateFile.balance = stateFile.deposit
           \/ \E n \in Nullifiers :
                 /\ Finalized(n)
                 /\ n[1] = stateFile.note
                 /\ ledger[n].signature =
                        <<stateFile.commitment, stateFile.anchor>>
        /\ stateFile.balance =
              stateFile.deposit
              - Charged(stateFile.note, Nullifiers \ {Nullifier(stateFile)})

\* A spent state is never orphaned: as long as the server holds a reservation
\* or a successor for the state on disk, the journal on disk names the request
\* it was made for, so that recover() can ask for it and apply it.
SpentStateRecoverable ==
    stateFile # None =>
        LET n == Nullifier(stateFile)
        IN  ledger[n] # None /\ ~Cleared(n) =>
                /\ journalFile # None
                /\ journalFile.id = ledger[n].id
                /\ journalFile.nullifier = n

\* A withdrawal with clearance claims what the server agrees is left: the
\* deposit less all charges ever finalized for the note.
ClearedWithdrawalFinal ==
    \A w \in withdrawals : w.clearance =>
        /\ Cleared(w.nullifier)
        /\ w.balance = w.deposit - Charged(w.nullifier[1], Nullifiers)

JournalMatches ==
    /\ journalFile # None
    /\ stateFile # None
    /\ journalFile.nullifier = Nullifier(stateFile)

\* The user is leaving with the note: there is a withdrawal or a clearance.
Leaving ==
    \/ withdrawals # {}
    \/ \E n \in Nullifiers : Cleared(n)

\* A pending request of the state on disk does not stay: through retries,
\* recovery and crashes the note advances or the request is withdrawn
\* (unless the user leaves with the note instead).
MatchingRequestResolves ==
    JournalMatches ~> (~JournalMatches \/ Leaving)

\* note_state.rs: after a crash the wallet can always recover to a consistent
\* point, hence get rid of its pending request.
PendingResolves ==
    journalFile # None ~> (journalFile = None \/ Leaving)

=============================================================================

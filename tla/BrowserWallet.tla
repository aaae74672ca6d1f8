--------------------------- MODULE BrowserWallet ---------------------------
(***************************************************************************)
(* The browser wallet core, rust/crates/zkapi-browser/src/lib.rs, and the  *)
(* host application around it.                                             *)
(*                                                                         *)
(* The core is a set of pure functions: it takes a snapshot of the note    *)
(* state and returns a prepared request with its journal, or the next      *)
(* state.  The host is external.  Several tabs share one store.  A tab     *)
(* reads the store, calls the core, which proves for a while, and writes   *)
(* the result back in a later transaction.  What README.md asks of the     *)
(* host: a journal is stored only while none is pending, a request is sent *)
(* from the store and never before it is there, a next state is stored     *)
(* together with the removal of the journal.  Two conditions more are      *)
(* needed of a host with several tabs and assumed here: a journal is       *)
(* stored only if the stored state is still the one it spends, a next      *)
(* state only if the stored journal is still the one it answers.  Tabs may *)
(* be closed, and the configuration, hence the charge cap, may be another  *)
(* at every call.                                                          *)
(***************************************************************************)
EXTENDS Service

CONSTANTS
    Tabs,           \* contexts that share the store
    Configs,        \* [deployment, cap] a call may be given
    Home            \* the deployment of the notes

ASSUME BrowserAssumption ==
    \A config \in Configs : config.cap \in Nat

VARIABLES
    store,        \* host: the note state and the pending journal
    task,         \* per tab: a result of the core not yet written back
    withdrawals   \* withdrawal plans

hostVars == <<store, task, used, withdrawals>>
vars == <<hostVars, serverVars>>

-----------------------------------------------------------------------------
(* The core.                                                               *)

\* balance_commitment of a state, bound to its note leaf.
Commit(note, balance, blinding) ==
    [note |-> note, balance |-> balance, blinding |-> blinding]
OpeningOf(s) == Commit(s.note, s.balance, s.blinding)

\* confirm_deposit.
DepositState(config, note, amount) ==
    [deployment |-> config.deployment, note |-> note, deposit |-> amount,
     balance |-> amount, blinding |-> <<DepositTerm(note)>>,
     commitment |-> Commit(note, amount, <<DepositTerm(note)>>),
     anchor |-> Genesis, signature |-> None]

\* Mutant: a pending journal is not reported.
PendingRequestIgnored(journal) == FALSE

\* wallet_status(..).pending_request
PendingRequest(journal) == journal # None

\* validate_state and validate_state_identity.
ValidState(config, s) == s.deployment = config.deployment /\ s.deposit # 0

\* ensure_stored_commitment
StoredCommitment(s) == OpeningOf(s) = s.commitment

CoversBound(config, s) == s.balance >= config.cap

\* prepare_request.
CanPrepare(config, s) ==
    /\ ValidState(config, s)
    /\ CoversBound(config, s)
    /\ StoredCommitment(s)

JournalFor(config, s, id) ==
    [id |-> id, nullifier |-> Nullifier(s), rerandomization |-> UserTerm(id),
     request |-> Request(id, Nullifier(s),
                         Rerandomize(OpeningOf(s), UserTerm(id)), config.cap)]

\* Mutant: the cap of the configuration, not the one that was proved.
ChargeWithinConfig(config, journal, response) == response.charge <= config.cap

\* The cap is the solvency bound of the prepared request.
ChargeAuthorized(config, journal, response) ==
    response.charge <= journal.request.bound

AlgebraHolds(s, journal, response) ==
    ServerUpdate(Rerandomize(OpeningOf(s), journal.rerandomization),
                 response.charge, response.term)
    = response.nextCommitment

\* complete_response, as far as it may refuse.
CanComplete(config, s, journal, response) ==
    /\ ValidState(config, s)
    /\ response.id = journal.id
    /\ response.nullifier = journal.nullifier
    /\ response.hash = "matches"
    /\ ChargeAuthorized(config, journal, response)
    /\ response.nextAnchor # None
    /\ StoredCommitment(s)
    /\ AlgebraHolds(s, journal, response)
    /\ response.signature = <<response.nextCommitment, response.nextAnchor>>
    /\ response.charge <= s.balance

\* Mutant: the charge is not taken off the balance.
NextStateUncharged(s, journal, response) ==
    [s EXCEPT !.blinding = @ \o <<journal.rerandomization, response.term>>,
              !.commitment = response.nextCommitment,
              !.anchor = response.nextAnchor,
              !.signature = response.signature]

\* complete_response's result.
NextState(s, journal, response) ==
    [s EXCEPT !.balance = @ - response.charge,
              !.blinding = @ \o <<journal.rerandomization, response.term>>,
              !.commitment = response.nextCommitment,
              !.anchor = response.nextAnchor,
              !.signature = response.signature]

\* Mutant: any clearance will do.
ClearanceFitsAny(mode, s, clearance) == (mode = "mutual") = (clearance # None)

\* A mutual close needs the clearance of this nullifier, an escape none.
ClearanceFits(mode, s, clearance) ==
    CASE mode = "mutual" -> clearance = Nullifier(s)
      [] mode = "escape" -> clearance = None
      [] OTHER -> FALSE

\* prepare_withdrawal.
WithdrawalPlan(mode, s) ==
    [nullifier |-> Nullifier(s), deposit |-> s.deposit,
     balance |-> s.balance, clearance |-> mode = "mutual"]

-----------------------------------------------------------------------------
(* The host.                                                               *)

Init ==
    /\ store = [state |-> None, journal |-> None]
    /\ task = [t \in Tabs |-> None]
    /\ used = {}
    /\ withdrawals = {}
    /\ ServiceInit

\* The vault gave the note its id; the host has no other.
ConfirmDeposit(config, note, amount) ==
    /\ store.state = None
    /\ config.deployment = Home
    /\ note \notin used
    /\ used' = used \cup {note}
    /\ store' = [store EXCEPT !.state = DepositState(config, note, amount)]
    /\ UNCHANGED <<task, withdrawals, serverVars>>

\* A tab reads the store and has the core prove a request.
PrepareRequest(t, config, id) ==
    /\ task[t] = None
    /\ store.state # None
    /\ ~PendingRequest(store.journal)
    /\ CanPrepare(config, store.state)
    /\ id \notin used
    /\ used' = used \cup {id}
    /\ task' = [task EXCEPT ![t] =
                  [kind |-> "prepared",
                   journal |-> JournalFor(config, store.state, id)]]
    /\ UNCHANGED <<store, withdrawals, serverVars>>

\* The transaction that persists it, unless another request is pending by
\* then or the state has moved on.
PersistPrepared(t) ==
    /\ task[t] # None
    /\ task[t].kind = "prepared"
    /\ store' = IF /\ ~PendingRequest(store.journal)
                   /\ store.state # None
                   /\ Nullifier(store.state) = task[t].journal.nullifier
                THEN [store EXCEPT !.journal = task[t].journal]
                ELSE store
    /\ task' = [task EXCEPT ![t] = None]
    /\ UNCHANGED <<used, withdrawals, serverVars>>

Send ==
    /\ store.journal # None
    /\ posted' = posted \cup {store.journal.request}
    /\ UNCHANGED <<hostVars, rejected, ledger>>

\* A tab reads the store and has the core check an answer.
CompleteResponse(t, config, response) ==
    /\ task[t] = None
    /\ store.state # None
    /\ store.journal # None
    /\ CanComplete(config, store.state, store.journal, response)
    /\ task' = [task EXCEPT ![t] =
                  [kind |-> "completed", id |-> store.journal.id,
                   state |-> NextState(store.state, store.journal, response)]]
    /\ UNCHANGED <<store, used, withdrawals, serverVars>>

\* The transaction that saves the state and clears the journal it answers.
PersistCompleted(t) ==
    /\ task[t] # None
    /\ task[t].kind = "completed"
    /\ store' = IF store.journal # None /\ store.journal.id = task[t].id
                THEN [state |-> task[t].state, journal |-> None]
                ELSE store
    /\ task' = [task EXCEPT ![t] = None]
    /\ UNCHANGED <<used, withdrawals, serverVars>>

\* The server refused the request before it reserved the nullifier.
ClearRejected ==
    /\ store.journal # None
    /\ store.journal.id \in rejected
    /\ store' = [store EXCEPT !.journal = None]
    /\ UNCHANGED <<task, used, withdrawals, serverVars>>

\* withdrawal_nullifier, sent for clearance; the answer may be lost.
RequestClearance ==
    /\ store.state # None
    /\ ServerClear(Nullifier(store.state))
    /\ UNCHANGED hostVars

\* The host passes any clearance it ever got, or none.
PrepareWithdrawal(config, mode, clearance) ==
    /\ store.state # None
    /\ ValidState(config, store.state)
    /\ ClearanceFits(mode, store.state, clearance)
    /\ withdrawals' = withdrawals \cup {WithdrawalPlan(mode, store.state)}
    /\ UNCHANGED <<store, task, used, serverVars>>

\* The note is closed; with it goes whatever was pending.
ForgetNote ==
    /\ store.state # None
    /\ \E w \in withdrawals : w.nullifier[1] = store.state.note
    /\ store' = [state |-> None, journal |-> None]
    /\ UNCHANGED <<task, used, withdrawals, serverVars>>

CloseTab(t) ==
    /\ task[t] # None
    /\ task' = [task EXCEPT ![t] = None]
    /\ UNCHANGED <<store, used, withdrawals, serverVars>>

ServerStep == ServiceStep(ServerUpdate) /\ UNCHANGED hostVars

Next ==
    \/ \E config \in Configs, note \in Notes, amount \in Deposits :
          ConfirmDeposit(config, note, amount)
    \/ \E t \in Tabs :
          \/ \E config \in Configs, id \in Ids : PrepareRequest(t, config, id)
          \/ \E config \in Configs, response \in Arriving :
                CompleteResponse(t, config, response)
          \/ PersistPrepared(t)
          \/ PersistCompleted(t)
          \/ CloseTab(t)
    \/ Send
    \/ ClearRejected
    \/ RequestClearance
    \/ \E config \in Configs, mode \in {"mutual", "escape"},
          clearance \in {n \in Nullifiers : Cleared(n)} \cup {None} :
          PrepareWithdrawal(config, mode, clearance)
    \/ ForgetNote
    \/ ServerStep

Spec == Init /\ [][Next]_vars

-----------------------------------------------------------------------------
(* Types.                                                                  *)

NoteState == [deployment : {Home}, note : Notes, deposit : Deposits,
              balance : Nat, blinding : Seq(Scalar),
              commitment : BoundCommitment, anchor : Anchors \cup {Genesis},
              signature : (BoundCommitment \X Anchors) \cup {None}]
Journal == [id : Ids, nullifier : Nullifiers, rerandomization : Scalar,
            request : [id : Ids, nullifier : Nullifiers,
                       commitment : BoundCommitment, bound : Nat]]
Prepared == [kind : {"prepared"}, journal : Journal]
Completed == [kind : {"completed"}, id : Ids, state : NoteState]

ASSUME BrowserNoneAssumption ==
    None \notin NoteState \cup Journal \cup Prepared \cup Completed
               \cup Nullifiers

TypeOK ==
    /\ store \in [state : NoteState \cup {None}, journal : Journal \cup {None}]
    /\ task \in [Tabs -> Prepared \cup Completed \cup {None}]
    /\ ServiceTypeOK(BoundCommitment)

-----------------------------------------------------------------------------
(* Properties.                                                             *)

\* A spent state is never orphaned: while the server holds a reservation or a
\* successor for the stored state, the stored journal is of that request, even
\* when tabs prepare and complete on snapshots that are out of date.
SpentStateRecoverable ==
    store.state # None =>
        LET n == Nullifier(store.state)
        IN  ledger[n] # None /\ ~Cleared(n) =>
                /\ store.journal # None
                /\ store.journal.id = ledger[n].id
                /\ store.journal.nullifier = n

\* What the server finalized can be completed: the stored state and journal
\* satisfy complete_response on the stored answer, with whatever cap the
\* configuration has by then.
AnswerCompletes ==
    store.state # None /\ store.journal # None =>
        \A response \in Responses, config \in Configs :
            /\ response.id = store.journal.id
            /\ config.deployment = Home
            => CanComplete(config, store.state, store.journal, response)

\* A withdrawal with clearance claims the deposit less all charges ever
\* finalized for the note, and its nullifier is cleared.
ClearedWithdrawalFinal ==
    \A w \in withdrawals : w.clearance =>
        /\ Cleared(w.nullifier)
        /\ w.balance = w.deposit - Charged(w.nullifier[1], Nullifiers)

\* The store never goes back and never skips: whichever tab applied which
\* answer to which snapshot, a stored state is only replaced by the successor
\* the server signed for it, with an opening of that commitment and the
\* balance less this one charge, or removed.
StoreAdvances ==
    [][ store.state # None /\ store'.state \notin {None, store.state} =>
            LET n == Nullifier(store.state)
            IN  /\ Finalized(n)
                /\ store'.state.commitment = ledger[n].nextCommitment
                /\ store'.state.anchor = ledger[n].nextAnchor
                /\ StoredCommitment(store'.state)
                /\ store'.state.balance =
                      store.state.balance - ledger[n].charge ]_vars

=============================================================================

---------------------------- MODULE WalletProofs ----------------------------
(***************************************************************************)
(* The v2 wallet for any number of notes, request ids, anchors and         *)
(* charges: whatever is lost, repeated or altered on the wire and wherever *)
(* the process dies, a spent state stays recoverable, every charge is paid *)
(* once, and a cleared withdrawal claims what is left.                     *)
(***************************************************************************)
EXTENDS Wallet, ServiceProofs

-----------------------------------------------------------------------------
(* The inductive invariant.                                                *)

\* The request a journal stands for.
Journaled(j) == Request(j.id, j.nullifier, j.commitment, j.bound)
Pending == IF journalFile = None THEN {} ELSE {Journaled(journalFile)}

WireSound ==
    /\ \A J \in {Pending} : ServiceInv(J)
    /\ journalFile # None =>
          journalFile.rerandomization = UserTerm(journalFile.id)

\* The state on disk is the last of its note; while the journal is about to
\* be cleared, nobody knows it.
LastOnDisk ==
    stateFile # None =>
        \A n \in {Nullifier(stateFile)}, c \in {stateFile.commitment},
           J \in {Pending} :
              /\ LastState(n, c, J)
              /\ pc = "clearJournal" => Fresh(n, J)

\* It opens its commitment, and every charge is paid once.
DiskSound ==
    stateFile # None =>
        /\ OpeningOf(stateFile) = stateFile.commitment
        /\ stateFile.anchor = Genesis => stateFile.balance = stateFile.deposit
        /\ \A n \in {Nullifier(stateFile)} :
              stateFile.balance =
                 stateFile.deposit - Charged(n[1], Nullifiers \ {n})

\* The process works on the state it has on disk.
ProcessSound ==
    /\ running => state = stateFile
    /\ pc # "idle" => running
    /\ pc = "clearance" => state # None /\ Cleared(Nullifier(state))

WithdrawalsSound ==
    \A w \in withdrawals : w.clearance =>
        /\ w.nullifier \in Nullifiers
        /\ Cleared(w.nullifier)
        /\ w.balance = w.deposit - Charged(w.nullifier[1], Nullifiers)

IInv ==
    /\ TypeOK
    /\ WireSound
    /\ LastOnDisk
    /\ DiskSound
    /\ ProcessSound
    /\ WithdrawalsSound

-----------------------------------------------------------------------------
(* Lemmas.                                                                 *)

\* The state on disk and its nullifier.
LEMMA StateTyped ==
    ASSUME NEW s \in NoteState
    PROVE  /\ Nullifier(s) \in Nullifiers
           /\ Nullifier(s) = <<s.note, s.anchor>>
           /\ Nullifier(s)[1] = s.note /\ Nullifier(s)[2] = s.anchor
           /\ s.commitment \in BoundCommitment
           /\ s.balance \in Nat /\ s.deposit \in Nat
           /\ s.blinding \in Seq(Scalar)
BY ServiceAssumption DEF NoteState, Nullifier, Nullifiers

\* None is no record.
LEMMA NotNone ==
    /\ \A s \in NoteState : s # None
    /\ \A j \in Journal : j # None
BY WalletNoneAssumption

\* A state that opens its commitment has its note, balance and blinding.
LEMMA OpeningIs ==
    ASSUME NEW s \in NoteState, OpeningOf(s) = s.commitment
    PROVE  /\ s.commitment.note = s.note
           /\ s.commitment.balance = s.balance
           /\ s.commitment.blinding = s.blinding
BY DEF OpeningOf, Commit

\* No file, nothing posted.
LEMMA InitIInv == Init => IInv
<1> SUFFICES ASSUME Init PROVE IInv
    OBVIOUS
<1>1. /\ posted = {} /\ rejected = {} /\ used = {}
      /\ ledger = [n \in Nullifiers |-> None]
      /\ Pending = {}
    BY DEF Init, ServiceInit, Pending
<1>2. \A n \in Nullifiers : ~Finalized(n) /\ ~Cleared(n) /\ ledger[n] = None
    BY <1>1 DEF Finalized, Cleared
<1>3. ServiceTyped
    BY <1>1 DEF ServiceTyped, ServiceTypeOK
<1>4. \A J \in {Pending} : ServiceInv(J)
    BY <1>1, <1>2, <1>3
    DEF ServiceInv, IssuedSound, Issued, LedgerSound, ClearedSound
<1>5. TypeOK
    BY <1>1, <1>3 DEF Init, TypeOK, ServiceTyped
<1> QED
    BY <1>4, <1>5
    DEF Init, IInv, WireSound, LastOnDisk, DiskSound, ProcessSound,
        WithdrawalsSound

\* What the steps of the wallet that neither write to the disk nor hear from
\* the server leave as it is.
LEMMA DiskUntouched ==
    ASSUME IInv,
           UNCHANGED <<stateFile, journalFile, used, posted, rejected,
                       ledger>>,
           pc' = "clearJournal" => stateFile = None \/ pc = "clearJournal"
    PROVE  /\ WireSound' /\ LastOnDisk' /\ DiskSound'
           /\ ServiceTypeOK(BoundCommitment)'
           /\ \A n : Cleared(n)' <=> Cleared(n)
           /\ \A x, ns : Charged(x, ns)' = Charged(x, ns)
<1>1. Pending' = Pending
    BY DEF Pending
<1>2. \A J \in {Pending} : ServiceInv(J)' /\ LastStatesStay(J)
    BY SameKeeps DEF IInv, WireSound
<1>3. WireSound'
    BY <1>1, <1>2 DEF IInv, WireSound
<1>4. LastOnDisk'
    <2> SUFFICES ASSUME stateFile # None,
                        NEW n \in {Nullifier(stateFile)},
                        NEW c \in {stateFile.commitment},
                        NEW J \in {Pending}
                 PROVE  /\ LastState(n, c, J)'
                        /\ pc' = "clearJournal" => Fresh(n, J)'
        BY <1>1 DEF LastOnDisk, Nullifier
    <2>1. n \in Nullifiers /\ c \in BoundCommitment
        BY StateTyped DEF IInv, TypeOK
    <2>2. /\ LastState(n, c, J)
          /\ pc' = "clearJournal" => Fresh(n, J)
        BY DEF IInv, LastOnDisk
    <2> QED
        BY <1>2, <2>1, <2>2 DEF LastStatesStay
<1>5. /\ \A n : Cleared(n)' <=> Cleared(n)
      /\ \A x, ns : Charged(x, ns)' = Charged(x, ns)
    BY DEF Cleared, Charged, Finalized
<1>6. DiskSound'
    BY <1>5 DEF IInv, DiskSound, Nullifier, OpeningOf
<1>7. ServiceTypeOK(BoundCommitment)'
    BY DEF IInv, TypeOK, ServiceTypeOK
<1> QED
    BY <1>3, <1>4, <1>5, <1>6, <1>7

\* A start reads what is on disk.
LEMMA StartIInv == IInv /\ Start => IInv'
<1> SUFFICES ASSUME IInv, Start PROVE IInv'
    OBVIOUS
<1>1. /\ ~running /\ running' = TRUE /\ state' = stateFile
      /\ UNCHANGED <<stateFile, journalFile, archived, pc, used, posted,
                     rejected, ledger, withdrawals>>
    BY DEF Start, diskVars, serverVars
<1>2. pc = "idle"
    BY <1>1 DEF IInv, ProcessSound
<1>3. /\ WireSound' /\ LastOnDisk' /\ DiskSound'
      /\ ServiceTypeOK(BoundCommitment)'
      /\ \A n : Cleared(n)' <=> Cleared(n)
      /\ \A x, ns : Charged(x, ns)' = Charged(x, ns)
    BY <1>1, <1>2, DiskUntouched
<1>4. TypeOK'
    BY <1>1, <1>3 DEF IInv, TypeOK
<1>5. ProcessSound'
    BY <1>1, <1>2 DEF ProcessSound
<1>6. WithdrawalsSound'
    BY <1>1, <1>3 DEF IInv, WithdrawalsSound
<1> QED
    BY <1>3, <1>4, <1>5, <1>6 DEF IInv

\* A crash takes the memory; the invariant of the disk speaks of the disk alone.
LEMMA CrashIInv == IInv /\ Crash => IInv'
<1> SUFFICES ASSUME IInv, Crash PROVE IInv'
    OBVIOUS
<1>1. /\ running' = FALSE /\ state' = None /\ pc' = "idle"
      /\ UNCHANGED <<stateFile, journalFile, archived, used, posted,
                     rejected, ledger, withdrawals>>
    BY DEF Crash, diskVars, serverVars
<1>2. /\ WireSound' /\ LastOnDisk' /\ DiskSound'
      /\ ServiceTypeOK(BoundCommitment)'
      /\ \A n : Cleared(n)' <=> Cleared(n)
      /\ \A x, ns : Charged(x, ns)' = Charged(x, ns)
    BY <1>1, DiskUntouched
<1>3. TypeOK'
    BY <1>1, <1>2 DEF IInv, TypeOK
<1>4. ProcessSound'
    BY <1>1 DEF ProcessSound
<1>5. WithdrawalsSound'
    BY <1>1, <1>2 DEF IInv, WithdrawalsSound
<1> QED
    BY <1>2, <1>3, <1>4, <1>5 DEF IInv

\* confirm_deposit: the wallet had no note, and nobody knew this one.
LEMMA ConfirmDepositIInv ==
    ASSUME IInv, NEW note \in Notes, NEW amount \in Deposits,
           ConfirmDeposit(note, amount)
    PROVE  IInv'
<1> DEFINE s == NewFromDeposit(note, amount)
           n == <<note, Genesis>>
<1>1. /\ running /\ pc = "idle" /\ state = None
      /\ note \notin used /\ used' = used \cup {note}
      /\ stateFile' = s /\ state' = s
      /\ UNCHANGED <<journalFile, archived, running, pc, posted, rejected,
                     ledger, withdrawals>>
    BY DEF ConfirmDeposit, Idle, serverVars
<1>2. /\ s \in NoteState
      /\ s.note = note /\ s.anchor = Genesis
      /\ s.balance = amount /\ s.deposit = amount
      /\ s.commitment.note = note
      /\ s.commitment.blinding = <<DepositTerm(note)>>
      /\ OpeningOf(s) = s.commitment
      /\ amount \in Nat
    BY Terms, ServiceAssumption
    DEF NewFromDeposit, NoteState, Commit, OpeningOf, BoundCommitment
<1>3. /\ Nullifier(s) = n /\ n \in Nullifiers /\ n[1] = note
      /\ s.commitment \in BoundCommitment
    BY <1>2, StateTyped
<1>4. Pending' = Pending
    BY <1>1 DEF Pending
<1> HIDE DEF s
<1>5. ASSUME NEW J \in {Pending}
      PROVE  /\ ServiceInv(J)'
             /\ LastState(<<note, Genesis>>, s.commitment, J)'
             /\ \A k \in Nullifiers : Finalized(k)' => k[1] # note
    <2>1. ServiceInv(J)
        BY DEF IInv, WireSound
    <2>2. PICK c \in BoundCommitment : c = s.commitment
        BY <1>3
    <2>3. /\ c.note = note /\ c.blinding = <<DepositTerm(note)>>
        BY <1>2, <2>2
    <2>4. /\ ServiceInv(J)'
          /\ LastState(<<note, Genesis>>, c, J)'
          /\ \A k \in Nullifiers : Finalized(k)' => k[1] # note
        BY <1>1, <2>1, <2>3, DepositKeeps
    <2> QED
        BY <2>2, <2>4
<1>6. /\ \A k : Finalized(k)' <=> Finalized(k)
      /\ \A k : Cleared(k)' <=> Cleared(k)
      /\ \A x, ns : Charged(x, ns)' = Charged(x, ns)
    BY <1>1 DEF Finalized, Cleared, Charged
<1>7. Charged(note, Nullifiers \ {n}) = 0
    BY <1>5, <1>6, ChargedNothing
<1>8. WireSound'
    BY <1>1, <1>4, <1>5 DEF IInv, WireSound
<1>9. LastOnDisk'
    <2>1. Nullifier(stateFile)' = <<note, Genesis>>
        BY <1>1, <1>2 DEF Nullifier
    <2> QED
        BY <1>1, <1>4, <1>5, <2>1 DEF LastOnDisk
<1>10. DiskSound'
    <2>1. Nullifier(stateFile)' = n
        BY <1>1, <1>2 DEF Nullifier
    <2>2. OpeningOf(stateFile)' = stateFile'.commitment
        BY <1>1, <1>2 DEF OpeningOf
    <2> HIDE DEF n
    <2>3. stateFile'.balance
             = stateFile'.deposit - Charged(n[1], Nullifiers \ {n})'
        BY <1>1, <1>2, <1>3, <1>6, <1>7
    <2> QED
        BY <1>1, <1>2, <2>1, <2>2, <2>3 DEF DiskSound
<1>11. TypeOK'
    BY <1>1, <1>2, <1>5 DEF IInv, TypeOK, ServiceInv, ServiceTyped
<1>12. ProcessSound'
    BY <1>1 DEF ProcessSound
<1>13. WithdrawalsSound'
    BY <1>1, <1>6 DEF IInv, WithdrawalsSound
<1> QED
    BY <1>8, <1>9, <1>10, <1>11, <1>12, <1>13 DEF IInv

\* What stays when the disk's state and the ledger do.
LEMMA StateFileUntouched ==
    ASSUME IInv, UNCHANGED <<stateFile, ledger>>
    PROVE  /\ DiskSound'
           /\ Nullifier(stateFile)' = Nullifier(stateFile)
           /\ withdrawals' = withdrawals => WithdrawalsSound'
           /\ \A n : Cleared(n)' <=> Cleared(n)
<1>1. /\ \A n : Cleared(n)' <=> Cleared(n)
      /\ \A x, ns : Charged(x, ns)' = Charged(x, ns)
    BY DEF Cleared, Charged, Finalized
<1>2. DiskSound'
    BY <1>1 DEF IInv, DiskSound, Nullifier, OpeningOf
<1>3. withdrawals' = withdrawals => WithdrawalsSound'
    BY <1>1 DEF IInv, WithdrawalsSound
<1> QED
    BY <1>1, <1>2, <1>3 DEF Nullifier

\* prepare_request.
LEMMA PrepareRequestIInv ==
    ASSUME IInv, NEW id \in Ids, PrepareRequest(id)
    PROVE  IInv'
<1> DEFINE j == [id |-> id, nullifier |-> Nullifier(stateFile),
                 rerandomization |-> UserTerm(id),
                 commitment |-> Rerandomize(stateFile.commitment,
                                            UserTerm(id)),
                 bound |-> ChargeCap]
<1>1. /\ running /\ pc = "idle" /\ state # None /\ state = stateFile
      /\ journalFile = None
      /\ id \notin used /\ used' = used \cup {id}
      /\ stateFile.balance >= ChargeCap
      /\ OpeningOf(stateFile) = stateFile.commitment
      /\ journalFile' = j
      /\ UNCHANGED <<stateFile, archived, state, running, pc, posted,
                     rejected, ledger, withdrawals>>
    BY DEF PrepareRequest, Idle, NothingPending, CoversBound, serverVars,
           processVars, IInv, ProcessSound
<1>2. stateFile \in NoteState
    BY <1>1 DEF IInv, TypeOK
<1>3. PICK n \in Nullifiers, c \in BoundCommitment :
         n = Nullifier(stateFile) /\ c = stateFile.commitment
    BY <1>2, StateTyped
<1>4. /\ j \in Journal
      /\ Journaled(j) = Request(id, n, Rerandomize(c, UserTerm(id)), ChargeCap)
      /\ j.rerandomization = UserTerm(j.id)
    <2>1. Rerandomize(c, UserTerm(id)) \in BoundCommitment
        BY Terms, RerandomizeIs
    <2> QED
        BY <1>3, <2>1, Terms, WalletAssumption DEF Journal, Journaled, Request
<1>5. PICK r : r = Request(id, n, Rerandomize(c, UserTerm(id)), ChargeCap)
    OBVIOUS
<1> HIDE DEF j
<1>6. Pending = {} /\ Pending' = {r} /\ journalFile' # None
    BY <1>1, <1>4, <1>5, NotNone DEF Pending
<1>7. ServiceInv({r})' /\ LastState(n, c, {r})'
    <2>1. ServiceInv({}) /\ LastState(n, c, {})
        BY <1>1, <1>3, <1>6 DEF IInv, WireSound, LastOnDisk
    <2>2. ChargeCap \in Nat /\ ChargeCap <= c.balance
        BY <1>1, <1>2, <1>3, OpeningIs, WalletAssumption
    <2>3. \A q \in posted : q.id # id
        BY <1>1, <2>1 DEF ServiceInv, IssuedSound, Issued, RequestSound
    <2>4. used \subseteq used' /\ id \in used'
        BY <1>1
    <2> QED
        BY <1>1, <1>5, <2>1, <2>2, <2>3, <2>4, PrepareKeeps
<1>8. /\ DiskSound' /\ WithdrawalsSound'
      /\ Nullifier(stateFile)' = Nullifier(stateFile)
      /\ \A m : Cleared(m)' <=> Cleared(m)
    BY <1>1, StateFileUntouched
<1>9. WireSound'
    BY <1>1, <1>4, <1>6, <1>7 DEF WireSound
<1>10. LastOnDisk'
    BY <1>1, <1>3, <1>6, <1>7, <1>8 DEF LastOnDisk
<1>11. TypeOK'
    BY <1>1, <1>4, <1>7 DEF IInv, TypeOK, ServiceInv, ServiceTyped
<1>12. ProcessSound'
    BY <1>1 DEF ProcessSound
<1> QED
    BY <1>8, <1>9, <1>10, <1>11, <1>12 DEF IInv

\* The POST, however often.
LEMMA PostRequestIInv == IInv /\ PostRequest => IInv'
<1> SUFFICES ASSUME IInv, PostRequest PROVE IInv'
    OBVIOUS
<1>1. /\ running /\ pc = "idle" /\ journalFile # None
      /\ posted' = posted \cup {Journaled(journalFile)}
      /\ UNCHANGED <<stateFile, journalFile, archived, state, running, pc,
                     used, rejected, ledger, withdrawals>>
    BY DEF PostRequest, Idle, diskVars, processVars, Journaled
<1>2. Pending' = Pending /\ Pending = {Journaled(journalFile)}
    BY <1>1 DEF Pending
<1>3. ASSUME NEW J \in {Pending}
      PROVE  /\ ServiceInv(J)'
             /\ \A n \in Nullifiers, c \in BoundCommitment :
                   LastState(n, c, J) => LastState(n, c, J)'
    <2>1. ServiceInv(J)
        BY DEF IInv, WireSound
    <2>2. posted \subseteq posted' /\ posted' \cup J \subseteq posted \cup J
        BY <1>1, <1>2
    <2>3. ASSUME NEW n \in Nullifiers, NEW c, LastState(n, c, J)
          PROVE  OnlyJournaled(n, J)' /\ Recoverable(n, J)'
        BY <1>1, <1>2, <2>3 DEF LastState, OnlyJournaled, Recoverable, Cleared
    <2> QED
        BY <1>1, <2>1, <2>2, <2>3, QuietKeeps
<1>4. /\ DiskSound' /\ WithdrawalsSound'
      /\ Nullifier(stateFile)' = Nullifier(stateFile)
      /\ \A m : Cleared(m)' <=> Cleared(m)
    BY <1>1, StateFileUntouched
<1>5. WireSound'
    BY <1>1, <1>2, <1>3 DEF WireSound, IInv
<1>6. LastOnDisk'
    <2> SUFFICES ASSUME stateFile # None,
                        NEW n \in {Nullifier(stateFile)},
                        NEW c \in {stateFile.commitment},
                        NEW J \in {Pending}
                 PROVE  LastState(n, c, J)'
        BY <1>1, <1>2, <1>4 DEF LastOnDisk
    <2>1. n \in Nullifiers /\ c \in BoundCommitment
        BY StateTyped DEF IInv, TypeOK
    <2> QED
        BY <1>3, <2>1 DEF IInv, LastOnDisk
<1>7. TypeOK'
    BY <1>1, <1>3 DEF IInv, TypeOK, ServiceInv, ServiceTyped
<1>8. ProcessSound'
    BY <1>1 DEF ProcessSound, IInv
<1> QED
    BY <1>4, <1>5, <1>6, <1>7, <1>8 DEF IInv

\* What is left when the journal goes and the ledger stays.
LEMMA JournalGone ==
    ASSUME IInv, journalFile' = None,
           UNCHANGED <<stateFile, used, posted, rejected, ledger>>,
           pc' # "clearJournal",
           \A n \in {Nullifier(stateFile)} : stateFile # None =>
              OnlyJournaled(n, {}) /\ Recoverable(n, {})
    PROVE  /\ WireSound' /\ LastOnDisk' /\ DiskSound'
           /\ withdrawals' = withdrawals => WithdrawalsSound'
           /\ ServiceTyped'
           /\ \A n : Cleared(n)' <=> Cleared(n)
<1>1. Pending' = {}
    BY DEF Pending
<1>2. PICK J : J = Pending
    OBVIOUS
<1>3. /\ ServiceInv({})'
      /\ \A n \in Nullifiers, c \in BoundCommitment :
            /\ LastState(n, c, J)
            /\ OnlyJournaled(n, {})'
            /\ Recoverable(n, {})'
            => LastState(n, c, {})'
    <2>1. ServiceInv(J)
        BY <1>2 DEF IInv, WireSound
    <2>2. posted \subseteq posted' /\ posted' \cup {} \subseteq posted \cup J
        OBVIOUS
    <2> QED
        BY <2>1, <2>2, QuietKeeps
<1>4. WireSound'
    BY <1>1, <1>3 DEF WireSound
<1>5. /\ DiskSound'
      /\ withdrawals' = withdrawals => WithdrawalsSound'
      /\ Nullifier(stateFile)' = Nullifier(stateFile)
      /\ \A m : Cleared(m)' <=> Cleared(m)
    BY StateFileUntouched
<1>6. LastOnDisk'
    <2> SUFFICES ASSUME stateFile # None,
                        NEW n \in {Nullifier(stateFile)},
                        NEW c \in {stateFile.commitment}
                 PROVE  LastState(n, c, {})'
        BY <1>1, <1>5 DEF LastOnDisk
    <2>1. n \in Nullifiers /\ c \in BoundCommitment
        BY StateTyped DEF IInv, TypeOK
    <2>2. LastState(n, c, J)
        BY <1>2 DEF IInv, LastOnDisk
    <2>3. OnlyJournaled(n, {})' /\ Recoverable(n, {})'
        BY DEF OnlyJournaled, Recoverable, Cleared
    <2> QED
        BY <1>3, <2>1, <2>2, <2>3
<1> QED
    BY <1>3, <1>4, <1>5, <1>6 DEF ServiceInv

\* clear_pending_request: a rejected request is not and will not be reserved.
LEMMA ClearPendingRequestIInv == IInv /\ ClearPendingRequest => IInv'
<1> SUFFICES ASSUME IInv, ClearPendingRequest PROVE IInv'
    OBVIOUS
<1>1. /\ running /\ pc = "idle"
      /\ journalFile # None /\ journalFile.id \in rejected
      /\ journalFile' = None
      /\ UNCHANGED <<stateFile, archived, state, running, pc, used, posted,
                     rejected, ledger, withdrawals>>
    BY DEF ClearPendingRequest, Idle, processVars, serverVars
<1>2. ASSUME stateFile # None, NEW n \in {Nullifier(stateFile)}
      PROVE  OnlyJournaled(n, {}) /\ Recoverable(n, {})
    <2>1. PICK J, c : J = Pending /\ c = stateFile.commitment
        OBVIOUS
    <2>2. /\ \A r \in J : r.id \in rejected
          /\ ServiceInv(J)
          /\ LastState(n, c, J)
        BY <1>1, <1>2, <2>1
        DEF Pending, Journaled, Request, IInv, WireSound, LastOnDisk
    <2>3. n \in Nullifiers
        BY <1>2, StateTyped DEF IInv, TypeOK
    <2>4. OnlyJournaled(n, {})
        BY <2>2 DEF LastState, OnlyJournaled
    <2>5. Recoverable(n, {})
        <3>1. ledger[n] # None /\ ~Cleared(n) => ledger[n].id \notin rejected
            BY <2>2, <2>3 DEF ServiceInv, LedgerSound, EntrySound
        <3> QED
            BY <2>2, <3>1 DEF LastState, Recoverable
    <2> QED
        BY <2>4, <2>5
<1>3. /\ WireSound' /\ LastOnDisk' /\ DiskSound' /\ WithdrawalsSound'
      /\ ServiceTyped'
    BY <1>1, <1>2, JournalGone
<1>4. TypeOK'
    BY <1>1, <1>3 DEF IInv, TypeOK, ServiceTyped
<1>5. ProcessSound'
    BY <1>1 DEF ProcessSound, IInv
<1> QED
    BY <1>3, <1>4, <1>5 DEF IInv

\* The clear at the end of complete_pending_response and archive_note: nobody
\* knows the state on disk, so nothing is lost with the journal.
LEMMA ClearJournalIInv == IInv /\ ClearJournal => IInv'
<1> SUFFICES ASSUME IInv, ClearJournal PROVE IInv'
    OBVIOUS
<1>1. /\ running /\ pc = "clearJournal" /\ pc' = "idle"
      /\ journalFile' = None
      /\ UNCHANGED <<stateFile, archived, state, running, used, posted,
                     rejected, ledger, withdrawals>>
    BY DEF ClearJournal, serverVars
<1>2. ASSUME stateFile # None, NEW n \in {Nullifier(stateFile)}
      PROVE  OnlyJournaled(n, {}) /\ Recoverable(n, {})
    <2>1. PICK J : J = Pending
        OBVIOUS
    <2>2. Fresh(n, J)
        BY <1>1, <1>2, <2>1 DEF IInv, LastOnDisk
    <2> QED
        BY <2>2 DEF Fresh, Issued, OnlyJournaled, Recoverable
<1>3. /\ WireSound' /\ LastOnDisk' /\ DiskSound' /\ WithdrawalsSound'
      /\ ServiceTyped'
    BY <1>1, <1>2, JournalGone
<1>4. TypeOK'
    BY <1>1, <1>3 DEF IInv, TypeOK, ServiceTyped
<1>5. ProcessSound'
    BY <1>1 DEF ProcessSound, IInv
<1> QED
    BY <1>3, <1>4, <1>5 DEF IInv

\* apply_response: what passes is the server's answer to the request that
\* spends the state on disk, and its successor is the last state of the note.
LEMMA ApplyResponseIInv ==
    ASSUME IInv, NEW response \in Arriving, ApplyResponse(response)
    PROVE  IInv'
<1>0. PICK J : J = Pending
    OBVIOUS
<1>1. /\ running /\ pc = "idle" /\ journalFile # None
      /\ state # None /\ state = stateFile
      /\ stateFile' = NextState(response) /\ state' = stateFile'
      /\ pc' = "clearJournal"
      /\ UNCHANGED <<journalFile, archived, running, used, posted, rejected,
                     ledger, withdrawals>>
    BY DEF ApplyResponse, Idle, serverVars, IInv, ProcessSound
<1>2. /\ OpeningOf(stateFile) = stateFile.commitment
      /\ response.charge <= stateFile.balance
      /\ AlgebraHolds(response)
      /\ Signed(response)
    BY <1>1 DEF ApplyResponse, Verified
<1>3. stateFile \in NoteState /\ journalFile \in Journal
    BY <1>1 DEF IInv, TypeOK
<1>4. PICK n \in Nullifiers, c \in BoundCommitment, id \in Ids :
         /\ n = Nullifier(stateFile) /\ c = stateFile.commitment
         /\ id = journalFile.id
    BY <1>3, StateTyped DEF Journal
<1>5. ServiceInv(J) /\ LastState(n, c, J)
    BY <1>0, <1>1, <1>4 DEF IInv, WireSound, LastOnDisk
<1>6. journalFile.rerandomization = UserTerm(id)
    BY <1>1, <1>4 DEF IInv, WireSound
<1>7. /\ ServerUpdate(Rerandomize(c, UserTerm(id)),
                      response.charge, response.term)
            = response.nextCommitment
      /\ response.signature = <<response.nextCommitment, response.nextAnchor>>
    BY <1>1, <1>2, <1>4, <1>6 DEF AlgebraHolds, Signed
<1>8. /\ Finalized(n)
      /\ response.term = ServerTerm(n)
      /\ response.charge = ledger[n].charge
      /\ response.nextCommitment = ledger[n].nextCommitment
      /\ response.nextAnchor = ledger[n].nextAnchor
      /\ response.nextCommitment.balance = c.balance - response.charge
      /\ response.nextCommitment.note = c.note
      /\ response.nextCommitment.blinding
            = Append(Append(c.blinding, UserTerm(id)), response.term)
    BY <1>5, <1>7, AcceptedIsAnswer
<1>9. PICK s, d : s = <<n[1], ledger[n].nextAnchor>>
                  /\ d = ledger[n].nextCommitment
    OBVIOUS
<1>10. /\ d \in BoundCommitment
       /\ ledger[n].nextAnchor \in Anchors
       /\ ledger[n].charge \in Nat
    BY <1>5, <1>8, <1>9, EntryTyped DEF ServiceInv, Finalized
<1>11. /\ s \in Nullifiers /\ s[1] = n[1]
       /\ Fresh(s, J) /\ LastState(s, d, J)
    BY <1>5, <1>8, <1>9, SuccessorIsLast
\* The file that is written.
<1>12. /\ stateFile'.note = stateFile.note
       /\ stateFile'.deposit = stateFile.deposit
       /\ stateFile'.balance = stateFile.balance - response.charge
       /\ stateFile'.blinding = d.blinding
       /\ stateFile'.commitment = d
       /\ stateFile'.anchor = ledger[n].nextAnchor
       /\ stateFile' \in NoteState
    <2> DEFINE b == Append(Append(stateFile.blinding,
                                  journalFile.rerandomization), response.term)
               x == stateFile.balance - response.charge
    <2>1. stateFile' = [stateFile EXCEPT
                          !.balance = x, !.blinding = b,
                          !.commitment = response.nextCommitment,
                          !.anchor = response.nextAnchor,
                          !.signature = response.signature]
        BY <1>1 DEF NextState
    <2>2. b = d.blinding
        <3>1. c.blinding = stateFile.blinding
            BY <1>2, <1>3, <1>4, OpeningIs
        <3> QED
            BY <1>6, <1>8, <1>9, <3>1, Zenon
    <2>3. d.blinding \in Seq(Scalar)
        BY <1>10 DEF BoundCommitment
    <2>4. x \in Nat
        BY <1>2, <1>3, <1>8, <1>10, StateTyped
    <2>5. response.signature \in BoundCommitment \X Anchors
        BY <1>7, <1>8, <1>9, <1>10
    <2> HIDE DEF b, x
    <2>6. stateFile' = [note |-> stateFile.note, deposit |-> stateFile.deposit,
                        balance |-> x, blinding |-> b,
                        commitment |-> response.nextCommitment,
                        anchor |-> response.nextAnchor,
                        signature |-> response.signature]
        BY <1>3, <2>1 DEF NoteState
    <2>7. stateFile' \in NoteState
        BY <1>3, <1>8, <1>9, <1>10, <2>2, <2>3, <2>4, <2>5, <2>6 DEF NoteState
    <2> QED
        BY <1>8, <1>9, <2>2, <2>6, <2>7 DEF x
<1>13. Pending' = Pending
    BY <1>1 DEF Pending
<1>14. ServiceInv(J)' /\ Fresh(s, J)' /\ LastState(s, d, J)'
    BY <1>1, <1>5, <1>10, <1>11, SameKeeps DEF LastStatesStay
<1>15. WireSound'
    BY <1>0, <1>1, <1>13, <1>14 DEF IInv, WireSound
<1>16. Nullifier(stateFile)' = s
    BY <1>3, <1>4, <1>9, <1>12, StateTyped DEF Nullifier
<1>17. LastOnDisk'
    BY <1>0, <1>12, <1>13, <1>14, <1>16 DEF LastOnDisk
<1>18. DiskSound'
    <2>1. OpeningOf(stateFile)' = d
        <3>1. /\ d.note = stateFile.note
              /\ d.balance = stateFile.balance - response.charge
            BY <1>2, <1>3, <1>4, <1>8, <1>9, OpeningIs
        <3>2. OpeningOf(stateFile)'
                 = [note |-> d.note, balance |-> d.balance,
                    blinding |-> d.blinding]
            BY <1>12, <3>1 DEF OpeningOf, Commit
        <3> QED
            BY <1>10, <3>2 DEF BoundCommitment
    <2>2. stateFile'.anchor # Genesis
        BY <1>10, <1>12, ServiceAssumption
    <2>3. stateFile.balance
             = stateFile.deposit - Charged(n[1], Nullifiers \ {n})
        BY <1>1, <1>4 DEF IInv, DiskSound
    <2>4. /\ Charged(n[1], Nullifiers \ {s})
                = Charged(n[1], Nullifiers \ {n}) + ledger[n].charge
          /\ Charged(n[1], Nullifiers \ {n}) \in Int
        BY <1>5, <1>8, <1>9, ChargedMovesOn
    <2>5. Charged(s[1], Nullifiers \ {s})' = Charged(n[1], Nullifiers \ {s})
        BY <1>1, <1>11 DEF Charged, Finalized
    <2>6. stateFile'.balance
             = stateFile'.deposit - Charged(s[1], Nullifiers \ {s})'
        BY <1>3, <1>8, <1>10, <1>12, <2>3, <2>4, <2>5, StateTyped
    <2> QED
        BY <1>12, <1>16, <2>1, <2>2, <2>6 DEF DiskSound
<1>19. TypeOK'
    BY <1>1, <1>12, <1>14 DEF IInv, TypeOK, ServiceInv, ServiceTyped
<1>20. ProcessSound'
    BY <1>1 DEF ProcessSound
<1>21. WithdrawalsSound'
    BY <1>1 DEF IInv, WithdrawalsSound, Cleared, Charged, Finalized
<1> QED
    BY <1>15, <1>17, <1>18, <1>19, <1>20, <1>21 DEF IInv

\* withdrawal_escape_hatch.
LEMMA WithdrawalEscapeHatchIInv == IInv /\ WithdrawalEscapeHatch => IInv'
<1> SUFFICES ASSUME IInv, WithdrawalEscapeHatch PROVE IInv'
    OBVIOUS
<1>1. /\ pc = "idle"
      /\ withdrawals' = withdrawals \cup
            {[nullifier |-> Nullifier(state), deposit |-> state.deposit,
              balance |-> state.balance, clearance |-> FALSE]}
      /\ UNCHANGED <<stateFile, journalFile, archived, state, running, pc,
                     used, posted, rejected, ledger>>
    BY DEF WithdrawalEscapeHatch, BuildWithdrawal, Idle, diskVars,
           processVars, serverVars
<1>2. /\ WireSound' /\ LastOnDisk' /\ DiskSound'
      /\ ServiceTypeOK(BoundCommitment)'
      /\ \A n : Cleared(n)' <=> Cleared(n)
      /\ \A x, ns : Charged(x, ns)' = Charged(x, ns)
    BY <1>1, DiskUntouched
<1>3. TypeOK'
    BY <1>1, <1>2 DEF IInv, TypeOK
<1>4. ProcessSound'
    BY <1>1 DEF IInv, ProcessSound
<1>5. WithdrawalsSound'
    BY <1>1, <1>2 DEF IInv, WithdrawalsSound
<1> QED
    BY <1>2, <1>3, <1>4, <1>5 DEF IInv

\* withdrawal_mutual_close: the server consumed the nullifier of the state on
\* disk, so the note is charged no more.
LEMMA WithdrawalMutualCloseIInv == IInv /\ WithdrawalMutualClose => IInv'
<1> SUFFICES ASSUME IInv, WithdrawalMutualClose PROVE IInv'
    OBVIOUS
<1> DEFINE w == [nullifier |-> Nullifier(state), deposit |-> state.deposit,
                 balance |-> state.balance, clearance |-> TRUE]
<1>1. /\ running /\ pc = "clearance" /\ pc' = "idle"
      /\ withdrawals' = withdrawals \cup {w} \/ withdrawals' = withdrawals
      /\ UNCHANGED <<stateFile, journalFile, archived, state, running,
                     used, posted, rejected, ledger>>
    BY DEF WithdrawalMutualClose, BuildWithdrawal, diskVars, serverVars
<1>2. /\ WireSound' /\ LastOnDisk' /\ DiskSound'
      /\ ServiceTypeOK(BoundCommitment)'
      /\ \A n : Cleared(n)' <=> Cleared(n)
      /\ \A x, ns : Charged(x, ns)' = Charged(x, ns)
    BY <1>1, DiskUntouched
<1>3. state # None /\ state = stateFile /\ Cleared(Nullifier(state))
    BY <1>1 DEF IInv, ProcessSound
<1>4. PICK n \in Nullifiers : n = Nullifier(state)
    BY <1>3, StateTyped DEF IInv, TypeOK
<1>5. state.balance = state.deposit - Charged(n[1], Nullifiers)
    <2>1. ~Finalized(n)
        BY <1>3, <1>4 DEF Finalized, Cleared
    <2>2. Charged(n[1], Nullifiers \ {n}) = Charged(n[1], Nullifiers)
        BY <2>1, ChargedWithout
    <2> QED
        BY <1>3, <1>4, <2>2 DEF IInv, DiskSound
<1>6. /\ w.nullifier = n /\ w.deposit = state.deposit
      /\ w.balance = state.balance
    BY <1>4
<1> HIDE DEF w
<1>7. WithdrawalsSound'
    BY <1>1, <1>2, <1>3, <1>4, <1>5, <1>6 DEF IInv, WithdrawalsSound
<1>8. TypeOK'
    BY <1>1, <1>2 DEF IInv, TypeOK
<1>9. ProcessSound'
    BY <1>1 DEF IInv, ProcessSound
<1> QED
    BY <1>2, <1>7, <1>8, <1>9 DEF IInv

\* archive_note.
LEMMA ArchiveNoteIInv == IInv /\ ArchiveNote => IInv'
<1> SUFFICES ASSUME IInv, ArchiveNote PROVE IInv'
    OBVIOUS
<1>1. /\ running /\ pc = "idle" /\ state = stateFile
      /\ \/ /\ state # None
            /\ archived' = archived \cup {state.note}
            /\ pc' = "removeState"
         \/ state = None /\ pc' = "clearJournal" /\ archived' = archived
      /\ UNCHANGED <<stateFile, journalFile, state, running, used, posted,
                     rejected, ledger, withdrawals>>
    BY DEF ArchiveNote, Idle, serverVars, IInv, ProcessSound
<1>2. /\ WireSound' /\ LastOnDisk' /\ DiskSound'
      /\ ServiceTypeOK(BoundCommitment)'
      /\ \A n : Cleared(n)' <=> Cleared(n)
      /\ \A x, ns : Charged(x, ns)' = Charged(x, ns)
    BY <1>1, DiskUntouched
<1>3. archived' \subseteq Notes
    BY <1>1 DEF IInv, TypeOK, NoteState
<1>4. TypeOK'
    BY <1>1, <1>2, <1>3 DEF IInv, TypeOK
<1>5. ProcessSound'
    BY <1>1 DEF ProcessSound
<1>6. WithdrawalsSound'
    BY <1>1, <1>2 DEF IInv, WithdrawalsSound
<1> QED
    BY <1>2, <1>4, <1>5, <1>6 DEF IInv

\* archive_note: without a state file there is nothing a journal has to match.
LEMMA RemoveStateFileIInv == IInv /\ RemoveStateFile => IInv'
<1> SUFFICES ASSUME IInv, RemoveStateFile PROVE IInv'
    OBVIOUS
<1>1. /\ running /\ pc' = "clearJournal"
      /\ stateFile' = None /\ state' = None
      /\ UNCHANGED <<journalFile, archived, running, used, posted, rejected,
                     ledger, withdrawals>>
    BY DEF RemoveStateFile, serverVars
<1>2. Pending' = Pending
    BY <1>1 DEF Pending
<1>3. \A J \in {Pending} : ServiceInv(J)'
    BY <1>1, SameKeeps DEF IInv, WireSound
<1>4. WireSound'
    BY <1>1, <1>2, <1>3 DEF IInv, WireSound
<1>5. LastOnDisk' /\ DiskSound' /\ ProcessSound'
    BY <1>1 DEF LastOnDisk, DiskSound, ProcessSound
<1>6. TypeOK'
    BY <1>1, <1>3 DEF IInv, TypeOK, ServiceInv, ServiceTyped
<1>7. WithdrawalsSound'
    BY <1>1 DEF IInv, WithdrawalsSound, Cleared, Charged, Finalized
<1> QED
    BY <1>4, <1>5, <1>6, <1>7 DEF IInv

\* The server clears the nullifier of the state on disk.
LEMMA RequestClearanceIInv == IInv /\ RequestClearance => IInv'
<1> SUFFICES ASSUME IInv, RequestClearance PROVE IInv'
    OBVIOUS
<1>1. /\ running /\ pc = "idle" /\ pc' = "clearance"
      /\ state # None /\ state = stateFile
      /\ ServerClear(Nullifier(stateFile))
      /\ UNCHANGED <<stateFile, journalFile, archived, state, running, used,
                     withdrawals>>
    BY DEF RequestClearance, Idle, diskVars, IInv, ProcessSound
<1>2. PICK n \in Nullifiers, c \in BoundCommitment :
         n = Nullifier(stateFile) /\ c = stateFile.commitment
    BY <1>1, StateTyped DEF IInv, TypeOK
<1>3. PICK J : J = Pending
    OBVIOUS
<1>4. ServiceInv(J) /\ LastState(n, c, J) /\ ServerClear(n)
    BY <1>1, <1>2, <1>3 DEF IInv, WireSound, LastOnDisk
<1>5. /\ ServiceInv(J)' /\ LastState(n, c, J)' /\ LedgerGrows
      /\ \A k \in Nullifiers : Finalized(k)' => Finalized(k)
      /\ \A k \in Nullifiers : Cleared(k)' <=> (k = n \/ Cleared(k))
    BY <1>1, <1>4, ClearKeeps
<1>6. \A x, ns : ns \subseteq Nullifiers => Charged(x, ns)' = Charged(x, ns)
    BY <1>5, ChargedSame
<1>7. /\ Pending' = Pending
      /\ Nullifier(stateFile)' = n /\ Nullifier(state)' = n
      /\ OpeningOf(stateFile)' = OpeningOf(stateFile)
    BY <1>1, <1>2 DEF Pending, Nullifier, OpeningOf
<1>8. WireSound'
    BY <1>1, <1>3, <1>5, <1>7 DEF IInv, WireSound
<1>9. LastOnDisk'
    BY <1>1, <1>2, <1>3, <1>5, <1>7 DEF LastOnDisk
<1>10. DiskSound'
    BY <1>1, <1>2, <1>6, <1>7 DEF IInv, DiskSound
<1>11. ProcessSound'
    BY <1>1, <1>5, <1>7 DEF ProcessSound
<1>12. TypeOK'
    BY <1>1, <1>5 DEF IInv, TypeOK, ServiceInv, ServiceTyped
<1>13. WithdrawalsSound'
    BY <1>1, <1>5, <1>6 DEF IInv, WithdrawalsSound
<1> QED
    BY <1>8, <1>9, <1>10, <1>11, <1>12, <1>13 DEF IInv

\* The server reserves, refuses or answers.
LEMMA ServerStepIInv == IInv /\ ServerStep => IInv'
<1> SUFFICES ASSUME IInv, ServerStep PROVE IInv'
    OBVIOUS
<1>1. /\ ServiceStep(ServerUpdate)
      /\ UNCHANGED <<stateFile, journalFile, archived, state, running, pc,
                     used, withdrawals>>
    BY DEF ServerStep, walletVars, diskVars, processVars
<1>2. PICK J : J = Pending
    OBVIOUS
<1>3. ServiceInv(J)
    BY <1>2 DEF IInv, WireSound
<1>4. /\ ServiceInv(J)' /\ LastStatesStay(J)
      /\ \A n \in Nullifiers, c \in BoundCommitment :
            LastState(n, c, J) =>
               Charged(n[1], Nullifiers \ {n})'
                  = Charged(n[1], Nullifiers \ {n})
      /\ \A n \in Nullifiers : Cleared(n) =>
            /\ Cleared(n)'
            /\ Charged(n[1], Nullifiers)' = Charged(n[1], Nullifiers)
    BY <1>1, <1>3, ServerKeeps
<1>5. /\ Pending' = Pending
      /\ Nullifier(stateFile)' = Nullifier(stateFile)
      /\ Nullifier(state)' = Nullifier(state)
      /\ OpeningOf(stateFile)' = OpeningOf(stateFile)
    BY <1>1 DEF Pending, Nullifier, OpeningOf
<1>6. WireSound'
    BY <1>1, <1>2, <1>4, <1>5 DEF IInv, WireSound
<1>7. ASSUME stateFile # None
      PROVE  \A n \in {Nullifier(stateFile)}, c \in {stateFile.commitment} :
                /\ n \in Nullifiers /\ c \in BoundCommitment
                /\ LastState(n, c, J)
                /\ pc = "clearJournal" => Fresh(n, J)
    BY <1>2, <1>7, StateTyped DEF IInv, TypeOK, LastOnDisk
<1>8. LastOnDisk'
    BY <1>1, <1>2, <1>4, <1>5, <1>7 DEF LastOnDisk, LastStatesStay
<1>9. DiskSound'
    <2> SUFFICES ASSUME stateFile # None,
                        NEW n \in {Nullifier(stateFile)}
                 PROVE  stateFile.balance =
                           stateFile.deposit
                           - Charged(n[1], Nullifiers \ {n})'
        BY <1>1, <1>5 DEF IInv, DiskSound
    <2>1. n \in Nullifiers /\ \E c \in BoundCommitment : LastState(n, c, J)
        BY <1>7
    <2> QED
        BY <1>4, <2>1 DEF IInv, DiskSound
<1>10. ProcessSound'
    <2>1. state # None => Nullifier(state) \in Nullifiers
        BY StateTyped DEF IInv, TypeOK
    <2>2. PICK n : n = Nullifier(state)
        OBVIOUS
    <2> QED
        BY <1>1, <1>4, <1>5, <2>1, <2>2 DEF IInv, ProcessSound
<1>11. TypeOK'
    BY <1>1, <1>4 DEF IInv, TypeOK, ServiceInv, ServiceTyped
<1>12. WithdrawalsSound'
    BY <1>1, <1>4 DEF IInv, WithdrawalsSound
<1> QED
    BY <1>6, <1>8, <1>9, <1>10, <1>11, <1>12 DEF IInv

\* A step that changes nothing.
LEMMA StutterIInv == IInv /\ UNCHANGED vars => IInv'
<1> SUFFICES ASSUME IInv, UNCHANGED vars PROVE IInv'
    OBVIOUS
<1>1. UNCHANGED <<stateFile, journalFile, archived, state, running, pc, used,
                  posted, rejected, ledger, withdrawals>>
    BY DEF vars, walletVars, diskVars, processVars, serverVars
<1>2. /\ WireSound' /\ LastOnDisk' /\ DiskSound'
      /\ ServiceTypeOK(BoundCommitment)'
      /\ \A n : Cleared(n)' <=> Cleared(n)
      /\ \A x, ns : Charged(x, ns)' = Charged(x, ns)
    BY <1>1, DiskUntouched
<1>3. TypeOK'
    BY <1>1, <1>2 DEF IInv, TypeOK
<1>4. ProcessSound'
    BY <1>1 DEF IInv, ProcessSound, Cleared, Nullifier
<1>5. WithdrawalsSound'
    BY <1>1, <1>2 DEF IInv, WithdrawalsSound
<1> QED
    BY <1>2, <1>3, <1>4, <1>5 DEF IInv

\* One lemma per action of the wallet and the server.
LEMMA NextIInv == IInv /\ [Next]_vars => IInv'
BY StartIInv, CrashIInv, ConfirmDepositIInv, PrepareRequestIInv,
   PostRequestIInv, ClearPendingRequestIInv, ApplyResponseIInv,
   ClearJournalIInv, WithdrawalEscapeHatchIInv, RequestClearanceIInv,
   WithdrawalMutualCloseIInv, ArchiveNoteIInv, RemoveStateFileIInv,
   ServerStepIInv, StutterIInv
DEF Next, WalletStep

-----------------------------------------------------------------------------
(* What is proved.                                                         *)

\* The invariant holds in every reachable state.
THEOREM SpecIInv == Spec => []IInv
BY InitIInv, NextIInv, PTL DEF Spec

\* Types: balances never go below zero, neither the wallet's nor the server's,
\* whatever answer arrives.
THEOREM SpecTypeOK == Spec => []TypeOK
<1>1. IInv => TypeOK
    BY DEF IInv
<1> QED
    BY <1>1, SpecIInv, PTL

\* The state file that save writes is always spendable and has paid every
\* charge once, whatever apply_response was given and wherever it was cut.
THEOREM SpecStateBacked == Spec => []StateBacked
<1>1. ASSUME IInv PROVE StateBacked
    <2> SUFFICES ASSUME stateFile # None PROVE StateBacked
        BY DEF StateBacked
    <2>1. stateFile \in NoteState
        BY <1>1 DEF IInv, TypeOK
    <2>2. PICK n \in Nullifiers, c \in BoundCommitment :
             n = Nullifier(stateFile) /\ c = stateFile.commitment
        BY <2>1, StateTyped
    <2>3. PICK J : J = Pending
        OBVIOUS
    <2>4. ServiceInv(J) /\ Opens(n, c)
        BY <1>1, <2>2, <2>3 DEF IInv, WireSound, LastOnDisk, LastState
    <2>5. n[1] = stateFile.note /\ n[2] = stateFile.anchor
        BY <2>1, <2>2, StateTyped
    <2>6. \/ stateFile.anchor = Genesis
          \/ \E k \in Nullifiers :
                /\ Finalized(k)
                /\ k[1] = stateFile.note
                /\ ledger[k].nextAnchor = stateFile.anchor
                /\ ledger[k].nextCommitment = stateFile.commitment
        BY <2>2, <2>4, <2>5 DEF Opens
    <2>7. \A k \in Nullifiers : Finalized(k) =>
             ledger[k].signature
                = <<ledger[k].nextCommitment, ledger[k].nextAnchor>>
        BY <2>4, SuccessorIs
    <2>8. /\ OpeningOf(stateFile) = stateFile.commitment
          /\ stateFile.anchor = Genesis =>
                stateFile.balance = stateFile.deposit
          /\ stateFile.balance =
                stateFile.deposit
                - Charged(stateFile.note, Nullifiers \ {Nullifier(stateFile)})
        BY <1>1, <2>2, <2>5 DEF IInv, DiskSound
    <2> QED
        BY <2>6, <2>7, <2>8 DEF StateBacked
<1> QED
    BY <1>1, SpecIInv, PTL

\* The journal outlives the reservation and the answer: a state that the
\* server has seen spent can always be recovered with the journal on disk.
THEOREM SpecSpentStateRecoverable == Spec => []SpentStateRecoverable
<1>1. ASSUME IInv PROVE SpentStateRecoverable
    <2> SUFFICES ASSUME stateFile # None,
                        NEW n, n = Nullifier(stateFile),
                        ledger[n] # None, ~Cleared(n)
                 PROVE  /\ journalFile # None
                        /\ journalFile.id = ledger[n].id
                        /\ journalFile.nullifier = n
        BY DEF SpentStateRecoverable
    <2>1. PICK J, c : J = Pending /\ c = stateFile.commitment
        OBVIOUS
    <2>2. Recoverable(n, J)
        BY <1>1, <2>1 DEF IInv, LastOnDisk, LastState
    <2>3. PICK r \in J : r.id = ledger[n].id /\ r.nullifier = n
        BY <2>2 DEF Recoverable
    <2> QED
        BY <2>1, <2>3 DEF Pending, Journaled, Request
<1> QED
    BY <1>1, SpecIInv, PTL

\* What withdrawal_mutual_close claims with the server's clearance is what is
\* left, for ever: no charge is added to the note afterwards.
THEOREM SpecClearedWithdrawalFinal == Spec => []ClearedWithdrawalFinal
<1>1. IInv => ClearedWithdrawalFinal
    BY DEF IInv, WithdrawalsSound, ClearedWithdrawalFinal
<1> QED
    BY <1>1, SpecIInv, PTL

=============================================================================

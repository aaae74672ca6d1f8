------------------------- MODULE BrowserWalletProofs -------------------------
(***************************************************************************)
(* The browser wallet core and its host, for any number of tabs, notes,    *)
(* request ids, anchors, charges and configurations: tabs that work on     *)
(* snapshots out of date neither orphan a spent state nor take the store   *)
(* anywhere but to the successor the server signed for it.                 *)
(***************************************************************************)
EXTENDS BrowserWallet, ServiceProofs

-----------------------------------------------------------------------------
(* The inductive invariant.                                                *)

\* The stored request, which may be sent at any time.
Pending == IF store.journal = None THEN {} ELSE {store.journal.request}

WireSound == \A J \in {Pending} : ServiceInv(J)

\* The journal j was made for the state s by prepare_request.
JournalOf(j, s) ==
    /\ j.nullifier = Nullifier(s)
    /\ j.rerandomization = UserTerm(j.id)
    /\ j.request.id = j.id
    /\ j.request.nullifier = Nullifier(s)
    /\ j.request.commitment = Rerandomize(s.commitment, UserTerm(j.id))
    /\ j.request.bound <= s.balance
    /\ s.deposit # 0

\* s is what complete_response makes of the state before and its answer.
SuccessorOf(s, before) ==
    \A n \in {Nullifier(before)} :
        /\ Finalized(n)
        /\ s.note = before.note
        /\ s.deposit = before.deposit
        /\ s.commitment = ledger[n].nextCommitment
        /\ s.anchor = ledger[n].nextAnchor
        /\ StoredCommitment(s)
        /\ s.balance = before.balance - ledger[n].charge

\* The stored state opens its commitment, is the last of its note and has paid
\* every charge once; the stored journal was made for it.
StoreSound ==
    /\ store.journal # None =>
          store.state # None /\ JournalOf(store.journal, store.state)
    /\ store.state # None =>
          /\ StoredCommitment(store.state)
          /\ \A n \in {Nullifier(store.state)}, J \in {Pending},
                c \in {store.state.commitment} :
                /\ LastState(n, c, J)
                /\ store.state.balance =
                      store.state.deposit - Charged(n[1], Nullifiers \ {n})

\* A prepared request has an id of its own, and it fits the stored state s
\* unless the state it was prepared for is spent.
PreparedSound(j, s, J) ==
    /\ j.id \in used
    /\ j.nullifier[1] \in used
    /\ \A r \in Issued(J) : r.id # j.id
    /\ s # None /\ s.note = j.nullifier[1] =>
          Finalized(j.nullifier) \/ JournalOf(j, s)

\* The id of a completed request is on the wire, and while its journal k is in
\* the store, s is the successor of the stored state.
CompletedSound(id, s, before, k) ==
    /\ \E r \in posted : r.id = id
    /\ k # None /\ k.id = id => SuccessorOf(s, before)

TasksSound ==
    /\ \A t \in Tabs : task[t] \in Prepared =>
          \A j \in {task[t].journal}, s \in {store.state}, J \in {Pending} :
              PreparedSound(j, s, J)
    /\ \A t, u \in Tabs :
          /\ task[t] \in Prepared
          /\ task[u] \in Prepared
          /\ task[t].journal.id = task[u].journal.id
          => t = u
    /\ \A t \in Tabs : task[t] \in Completed =>
          \A id \in {task[t].id}, s \in {task[t].state},
             before \in {store.state}, k \in {store.journal} :
              CompletedSound(id, s, before, k)

WithdrawalsSound ==
    \A w \in withdrawals : w.clearance =>
        /\ w.nullifier \in Nullifiers
        /\ Cleared(w.nullifier)
        /\ w.balance = w.deposit - Charged(w.nullifier[1], Nullifiers)

IInv ==
    /\ TypeOK
    /\ WireSound
    /\ StoreSound
    /\ TasksSound
    /\ WithdrawalsSound

-----------------------------------------------------------------------------
(* Lemmas.                                                                 *)

\* The parts of a stored state.
LEMMA StateTyped ==
    ASSUME NEW s \in NoteState
    PROVE  /\ Nullifier(s) \in Nullifiers
           /\ Nullifier(s) = <<s.note, s.anchor>>
           /\ Nullifier(s)[1] = s.note /\ Nullifier(s)[2] = s.anchor
           /\ s.commitment \in BoundCommitment
           /\ s.balance \in Nat /\ s.deposit \in Nat
           /\ s.blinding \in Seq(Scalar)
BY ServiceAssumption DEF NoteState, Nullifier, Nullifiers

\* None is no record, and the two kinds of task differ.
LEMMA NotNone ==
    /\ \A s \in NoteState : s # None
    /\ \A j \in Journal : j # None
    /\ \A p \in Prepared : p # None /\ p.kind = "prepared"
                           /\ p.journal \in Journal
    /\ \A p \in Completed : p # None /\ p.kind = "completed"
                            /\ p.id \in Ids /\ p.state \in NoteState
    /\ \A p \in Prepared : p \notin Completed
    /\ None \notin Prepared /\ None \notin Completed
    /\ None \notin Nullifiers
BY BrowserNoneAssumption DEF Prepared, Completed

\* A stored commitment is of the stored note, balance and blinding.
LEMMA OpeningIs ==
    ASSUME NEW s \in NoteState, StoredCommitment(s)
    PROVE  /\ s.commitment.note = s.note
           /\ s.commitment.balance = s.balance
           /\ s.commitment.blinding = s.blinding
BY DEF StoredCommitment, OpeningOf, Commit

\* Adding two terms to a blinding is adding one after the other.
LEMMA TwoTerms ==
    ASSUME NEW b \in Seq(Scalar), NEW x \in Scalar, NEW y \in Scalar
    PROVE  b \o <<x, y>> = Append(Append(b, x), y)
<1>1. Append(b, x) \in Seq(Scalar) /\ <<x>> \in Seq(Scalar)
      /\ <<y>> \in Seq(Scalar)
    OBVIOUS
<1>2. Append(b, x) = b \o <<x>>
    BY AppendIsConcat
<1>3. Append(Append(b, x), y) = Append(b, x) \o <<y>>
    BY <1>1, AppendIsConcat
<1>4. (b \o <<x>>) \o <<y>> = b \o (<<x>> \o <<y>>)
    BY <1>1, ConcatAssociative
<1>5. <<x>> \o <<y>> = <<x, y>>
    <2>1. Append(<<x>>, y) = <<x>> \o <<y>>
        BY <1>1, AppendIsConcat
    <2>2. Append(<<x>>, y) = <<x, y>>
        <3> DEFINE s == Append(<<x>>, y)
                   t == <<x, y>>
        <3>1. /\ s \in Seq(Scalar) /\ Len(s) = Len(<<x>>) + 1
              /\ s[1] = x /\ s[Len(<<x>>) + 1] = y
            BY <1>1, AppendProperties
        <3>2. Len(<<x>>) = 1
            OBVIOUS
        <3>3. t \in Seq(Scalar) /\ Len(t) = 2 /\ t[1] = x /\ t[2] = y
            OBVIOUS
        <3> HIDE DEF s, t
        <3>4. Len(s) = Len(t)
            BY <3>1, <3>2, <3>3
        <3>5. \A i \in 1 .. Len(s) : s[i] = t[i]
            BY <3>1, <3>2, <3>3
        <3>6. s = t
            BY <3>1, <3>3, <3>4, <3>5, SeqEqual
        <3> QED
            BY <3>6 DEF s, t
    <2> QED
        BY <2>1, <2>2
<1> QED
    BY <1>2, <1>3, <1>4, <1>5, Zenon

\* An empty store, no task, nothing posted.
LEMMA InitIInv == Init => IInv
<1> SUFFICES ASSUME Init PROVE IInv
    OBVIOUS
<1>1. /\ posted = {} /\ rejected = {}
      /\ ledger = [n \in Nullifiers |-> None]
      /\ store = [state |-> None, journal |-> None]
      /\ task = [t \in Tabs |-> None]
      /\ withdrawals = {}
    BY DEF Init, ServiceInit
<1>2. Pending = {} /\ store.state = None /\ store.journal = None
    BY <1>1 DEF Pending
<1>3. \A n \in Nullifiers : ~Finalized(n) /\ ~Cleared(n) /\ ledger[n] = None
    BY <1>1 DEF Finalized, Cleared
<1>4. ServiceTyped
    BY <1>1 DEF ServiceTyped, ServiceTypeOK
<1>5. WireSound
    BY <1>1, <1>2, <1>3, <1>4
    DEF WireSound, ServiceInv, IssuedSound, Issued, LedgerSound, ClearedSound
<1>6. TypeOK
    BY <1>1, <1>4 DEF TypeOK, ServiceTyped
<1>7. TasksSound
    BY <1>1, NotNone DEF TasksSound
<1> QED
    BY <1>1, <1>2, <1>5, <1>6, <1>7 DEF IInv, StoreSound, WithdrawalsSound

\* What a tab holds stays right: the ledger grows, and the store is the same
\* or has lost its journal or its note.
LEMMA PreparedStays ==
    ASSUME NEW j \in Journal, NEW s, NEW J, PreparedSound(j, s, J),
           LedgerGrows, used \subseteq used',
           NEW K, \A r \in Issued(K)' : r.id # j.id,
           NEW z, z = s \/ z = None
    PROVE  PreparedSound(j, z, K)'
<1>1. j.nullifier \in Nullifiers
    BY DEF Journal
<1> QED
    BY <1>1 DEF PreparedSound, LedgerGrows, Finalized

\* A completed state keeps its meaning while the store is as it was, or once the
\* journal it answers is gone.
LEMMA CompletedStays ==
    ASSUME NEW id, NEW s, NEW before, NEW k, CompletedSound(id, s, before, k),
           LedgerGrows, posted \subseteq posted',
           k # None => before \in NoteState,
           NEW z, NEW l, l = None \/ (l = k /\ z = before)
    PROVE  CompletedSound(id, s, z, l)'
<1>1. \E r \in posted' : r.id = id
    BY DEF CompletedSound
<1>2. ASSUME l # None, l.id = id PROVE SuccessorOf(s, z)'
    <2>1. /\ SuccessorOf(s, before) /\ Nullifier(before) \in Nullifiers
          /\ z = before
        BY <1>2, StateTyped DEF CompletedSound
    <2> QED
        BY <2>1 DEF SuccessorOf, LedgerGrows, Finalized
<1> QED
    BY <1>1, <1>2 DEF CompletedSound

\* A step in which the tabs get nothing new.
LEMMA TasksStay ==
    ASSUME IInv, LedgerGrows, used \subseteq used', posted \subseteq posted',
           posted' \cup Pending' \subseteq posted \cup Pending,
           store'.state = store.state \/ store'.state = None,
           \/ store'.journal = None
           \/ store'.journal = store.journal /\ store'.state = store.state,
           \A t \in Tabs : task'[t] = task[t] \/ task'[t] = None
    PROVE  TasksSound'
<1>1. ASSUME NEW t \in Tabs, task'[t] \in Prepared,
             NEW j \in {task'[t].journal}, NEW z \in {store'.state},
             NEW K \in {Pending'}
      PROVE  PreparedSound(j, z, K)'
    <2>1. PICK s, J : s = store.state /\ J = Pending
        OBVIOUS
    <2>2. task'[t] = task[t] /\ task[t] \in Prepared /\ j = task[t].journal
        BY <1>1, NotNone
    <2>3. PreparedSound(j, s, J) /\ j \in Journal
        BY <2>1, <2>2, NotNone DEF IInv, TasksSound
    <2>4. \A r \in Issued(K)' : r.id # j.id
        BY <1>1, <2>1, <2>3 DEF PreparedSound, Issued
    <2>5. z = s \/ z = None
        BY <1>1, <2>1
    <2> QED
        BY <2>3, <2>4, <2>5, PreparedStays
<1>2. ASSUME NEW t \in Tabs, NEW u \in Tabs,
             task'[t] \in Prepared, task'[u] \in Prepared,
             task'[t].journal.id = task'[u].journal.id
      PROVE  t = u
    BY <1>2, NotNone DEF IInv, TasksSound
<1>3. ASSUME NEW t \in Tabs, task'[t] \in Completed,
             NEW id \in {task'[t].id}, NEW s \in {task'[t].state},
             NEW z \in {store'.state}, NEW l \in {store'.journal}
      PROVE  CompletedSound(id, s, z, l)'
    <2>1. PICK before, k : before = store.state /\ k = store.journal
        OBVIOUS
    <2>2. task'[t] = task[t] /\ task[t] \in Completed
        BY <1>3, NotNone
    <2>3. CompletedSound(id, s, before, k)
        BY <1>3, <2>1, <2>2 DEF IInv, TasksSound
    <2>4. k # None => before \in NoteState
        BY <2>1 DEF IInv, StoreSound, TypeOK
    <2>5. l = None \/ (l = k /\ z = before)
        BY <1>3, <2>1
    <2> QED
        BY <2>3, <2>4, <2>5, CompletedStays
<1> QED
    BY <1>1, <1>2, <1>3 DEF TasksSound

\* The store is the same, and so is what it relies on.
LEMMA StoreStays ==
    ASSUME IInv, store' = store,
           \A J \in {Pending}, n \in Nullifiers, c \in BoundCommitment :
              LastState(n, c, J) =>
                 /\ LastState(n, c, J)'
                 /\ Charged(n[1], Nullifiers \ {n})'
                       = Charged(n[1], Nullifiers \ {n})
    PROVE  StoreSound'
<1>1. Pending' = Pending
    BY DEF Pending
<1>2. store.journal # None =>
         store.state # None /\ JournalOf(store.journal, store.state)
    BY DEF IInv, StoreSound
<1>3. ASSUME store.state # None,
             NEW n \in {Nullifier(store.state)}, NEW J \in {Pending},
             NEW c \in {store.state.commitment}
      PROVE  /\ LastState(n, c, J)'
             /\ store.state.balance =
                   store.state.deposit - Charged(n[1], Nullifiers \ {n})'
    <2>1. n \in Nullifiers /\ c \in BoundCommitment
        BY <1>3, StateTyped DEF IInv, TypeOK
    <2>2. /\ LastState(n, c, J)
          /\ store.state.balance =
                store.state.deposit - Charged(n[1], Nullifiers \ {n})
        BY <1>3 DEF IInv, StoreSound
    <2> QED
        BY <2>1, <2>2
<1>4. store.state # None => StoredCommitment(store.state)
    BY DEF IInv, StoreSound
<1>5. /\ Nullifier(store.state)' = Nullifier(store.state)
      /\ StoredCommitment(store.state)' <=> StoredCommitment(store.state)
      /\ JournalOf(store.journal, store.state)'
            <=> JournalOf(store.journal, store.state)
    BY DEF Nullifier, StoredCommitment, JournalOf, OpeningOf
<1> QED
    BY <1>1, <1>2, <1>3, <1>4, <1>5 DEF StoreSound

\* Steps of the server and the clearance.
LEMMA ServerStepIInv == IInv /\ ServerStep => IInv'
<1> SUFFICES ASSUME IInv, ServerStep PROVE IInv'
    OBVIOUS
<1>1. /\ ServiceStep(ServerUpdate)
      /\ UNCHANGED <<store, task, used, withdrawals>>
    BY DEF ServerStep, hostVars
<1>2. PICK J : J = Pending
    OBVIOUS
<1>3. ServiceInv(J)
    BY <1>2 DEF IInv, WireSound
<1>4. /\ ServiceInv(J)' /\ LastStatesStay(J) /\ LedgerGrows
      /\ \A n \in Nullifiers, c \in BoundCommitment :
            LastState(n, c, J) =>
               Charged(n[1], Nullifiers \ {n})'
                  = Charged(n[1], Nullifiers \ {n})
      /\ \A n \in Nullifiers : Cleared(n) =>
            /\ Cleared(n)'
            /\ Charged(n[1], Nullifiers)' = Charged(n[1], Nullifiers)
    BY <1>1, <1>3, ServerKeeps
<1>5. Pending' = Pending /\ posted' = posted
    BY <1>1 DEF Pending, ServiceStep, ServerReserve, ServerRejectStale,
                ServerFinalize
<1>6. WireSound'
    BY <1>2, <1>4, <1>5 DEF WireSound
<1>7. StoreSound'
    BY <1>1, <1>2, <1>4, StoreStays DEF LastStatesStay
<1>8. TasksSound'
    BY <1>1, <1>4, <1>5, TasksStay
<1>9. TypeOK'
    BY <1>1, <1>4 DEF IInv, TypeOK, ServiceInv, ServiceTyped
<1>10. WithdrawalsSound'
    BY <1>1, <1>4 DEF IInv, WithdrawalsSound
<1> QED
    BY <1>6, <1>7, <1>8, <1>9, <1>10 DEF IInv

\* A clearance is asked for through the server only.
LEMMA RequestClearanceIInv == IInv /\ RequestClearance => IInv'
<1> SUFFICES ASSUME IInv, RequestClearance PROVE IInv'
    OBVIOUS
<1>1. /\ store.state # None /\ ServerClear(Nullifier(store.state))
      /\ UNCHANGED <<store, task, used, withdrawals, posted>>
    BY DEF RequestClearance, ServerClear, hostVars
<1>2. PICK n \in Nullifiers, c \in BoundCommitment :
         n = Nullifier(store.state) /\ c = store.state.commitment
    BY <1>1, StateTyped DEF IInv, TypeOK
<1>3. PICK J : J = Pending
    OBVIOUS
<1>4. ServiceInv(J) /\ LastState(n, c, J) /\ ServerClear(n)
    BY <1>1, <1>2, <1>3 DEF IInv, WireSound, StoreSound
<1>5. /\ ServiceInv(J)' /\ LastState(n, c, J)' /\ LedgerGrows
      /\ \A k \in Nullifiers : Finalized(k)' => Finalized(k)
      /\ \A k \in Nullifiers : Cleared(k)' <=> (k = n \/ Cleared(k))
    BY <1>1, <1>4, ClearKeeps
<1>6. \A x, ns : ns \subseteq Nullifiers => Charged(x, ns)' = Charged(x, ns)
    BY <1>5, ChargedSame
<1>7. Pending' = Pending
    BY <1>1 DEF Pending
<1>8. WireSound'
    BY <1>3, <1>5, <1>7 DEF WireSound
<1>9. StoreSound'
    <2>1. /\ Nullifier(store.state)' = Nullifier(store.state)
          /\ StoredCommitment(store.state)' <=> StoredCommitment(store.state)
          /\ JournalOf(store.journal, store.state)'
                <=> JournalOf(store.journal, store.state)
        BY <1>1 DEF Nullifier, StoredCommitment, JournalOf, OpeningOf
    <2> QED
        BY <1>1, <1>2, <1>3, <1>5, <1>6, <1>7, <2>1 DEF IInv, StoreSound
<1>10. TasksSound'
    BY <1>1, <1>5, <1>7, TasksStay
<1>11. TypeOK'
    BY <1>1, <1>5 DEF IInv, TypeOK, ServiceInv, ServiceTyped
<1>12. WithdrawalsSound'
    BY <1>1, <1>5, <1>6 DEF IInv, WithdrawalsSound
<1> QED
    BY <1>8, <1>9, <1>10, <1>11, <1>12 DEF IInv

\* A step that leaves the store, the server and the withdrawals alone.
LEMMA StoreUntouched ==
    ASSUME IInv, UNCHANGED <<store, posted, rejected, ledger, withdrawals>>,
           used \subseteq used'
    PROVE  /\ WireSound' /\ StoreSound' /\ WithdrawalsSound'
           /\ ServiceTyped' /\ LedgerGrows /\ Pending' = Pending
<1>1. Pending' = Pending
    BY DEF Pending
<1>2. \A J \in {Pending} : ServiceInv(J)' /\ LastStatesStay(J)
    BY SameKeeps DEF IInv, WireSound
<1>3. /\ \A n : Cleared(n)' <=> Cleared(n)
      /\ \A x, ns : Charged(x, ns)' = Charged(x, ns)
      /\ LedgerGrows
    BY DEF Cleared, Charged, Finalized, LedgerGrows
<1>4. StoreSound'
    BY <1>2, <1>3, StoreStays DEF LastStatesStay
<1>5. WireSound' /\ ServiceTyped'
    BY <1>1, <1>2 DEF WireSound, ServiceInv
<1>6. WithdrawalsSound'
    BY <1>3 DEF IInv, WithdrawalsSound
<1> QED
    BY <1>1, <1>3, <1>4, <1>5, <1>6

\* A closed tab loses what it held; the store has all that matters.
LEMMA CloseTabIInv ==
    ASSUME IInv, NEW t \in Tabs, CloseTab(t)
    PROVE  IInv'
<1>1. /\ task' = [task EXCEPT ![t] = None]
      /\ UNCHANGED <<store, used, withdrawals, posted, rejected, ledger>>
    BY DEF CloseTab, serverVars
<1>2. /\ WireSound' /\ StoreSound' /\ WithdrawalsSound'
      /\ ServiceTyped' /\ LedgerGrows /\ Pending' = Pending
    BY <1>1, StoreUntouched
<1>3. /\ \A u \in Tabs : task'[u] = task[u] \/ task'[u] = None
      /\ task' \in [Tabs -> Prepared \cup Completed \cup {None}]
    BY <1>1 DEF IInv, TypeOK
<1>4. TasksSound'
    BY <1>1, <1>2, <1>3, TasksStay
<1>5. TypeOK'
    BY <1>1, <1>2, <1>3 DEF IInv, TypeOK, ServiceTyped
<1> QED
    BY <1>2, <1>4, <1>5 DEF IInv

\* prepare_request on a snapshot: nothing is issued yet.
LEMMA PrepareRequestIInv ==
    ASSUME IInv, NEW t \in Tabs, NEW config \in Configs, NEW id \in Ids,
           PrepareRequest(t, config, id)
    PROVE  IInv'
<1>1. PICK s, j, p :
         /\ s = store.state
         /\ j = JournalFor(config, s, id)
         /\ p = [kind |-> "prepared", journal |-> j]
    OBVIOUS
<1>2. /\ store.state # None /\ StoredCommitment(store.state)
      /\ store.state.deposit # 0 /\ store.state.balance >= config.cap
      /\ id \notin used /\ used' = used \cup {id}
      /\ task' = [task EXCEPT ![t] = p]
      /\ UNCHANGED <<store, withdrawals, posted, rejected, ledger>>
    BY <1>1
    DEF PrepareRequest, CanPrepare, ValidState, CoversBound, serverVars
<1>3. /\ WireSound' /\ StoreSound' /\ WithdrawalsSound'
      /\ ServiceTyped' /\ LedgerGrows /\ Pending' = Pending
    BY <1>2, StoreUntouched
<1>4. store.state \in NoteState /\ config.cap \in Nat
    BY <1>2, BrowserAssumption DEF IInv, TypeOK
<1>5. /\ JournalOf(j, s)
      /\ j \in Journal
      /\ j.id = id
      /\ j.nullifier = Nullifier(s)
    <2>1. OpeningOf(s) = s.commitment
        BY <1>2, <1>1 DEF StoredCommitment
    <2>2. /\ Rerandomize(s.commitment, UserTerm(id)) \in BoundCommitment
          /\ UserTerm(id) \in Scalar
        BY <1>4, <1>1, Terms, RerandomizeIs, StateTyped
    <2>3. Nullifier(s) \in Nullifiers
        BY <1>4, <1>1, StateTyped
    <2> QED
        BY <1>2, <1>4, <1>1, <2>1, <2>2, <2>3
        DEF JournalFor, JournalOf, Journal, Request
<1>6. p \in Prepared /\ p.journal = j
    BY <1>1, <1>5 DEF Prepared
<1>7. /\ task'[t] = p
      /\ \A u \in Tabs \ {t} : task'[u] = task[u]
      /\ task' \in [Tabs -> Prepared \cup Completed \cup {None}]
    BY <1>2, <1>6 DEF IInv, TypeOK
<1>8. PICK J : J = Pending
    OBVIOUS
<1>9. ServiceInv(J)
    BY <1>8 DEF IInv, WireSound
<1>10. Issued(J)' = Issued(J)
    BY <1>2 DEF Issued
<1>11. PreparedSound(j, s, J)'
    <2>1. \A r \in Issued(J) : r.id \in used
        BY <1>9 DEF ServiceInv, IssuedSound, RequestSound
    <2>2. s.note \in used
        BY <1>2, <1>4, <1>1, <1>8, StateTyped DEF IInv, StoreSound, LastState
    <2>3. j.nullifier[1] = s.note
        BY <1>4, <1>1, <1>5, StateTyped
    <2> QED
        BY <1>2, <1>5, <1>10, <2>1, <2>2, <2>3 DEF PreparedSound
<1>12. ASSUME NEW u \in Tabs \ {t}, task[u] \in Prepared
       PROVE  /\ PreparedSound(task[u].journal, s, J)
              /\ task[u].journal \in Journal
              /\ task[u].journal.id # id
    BY <1>2, <1>1, <1>8, <1>12, NotNone
    DEF IInv, TasksSound, PreparedSound
<1>13. TasksSound'
    <2>1. ASSUME NEW u \in Tabs, task'[u] \in Prepared,
                 NEW k \in {task'[u].journal}, NEW z \in {store'.state},
                 NEW K \in {Pending'}
          PROVE  PreparedSound(k, z, K)'
        <3>1. K = J /\ z = s
            BY <1>2, <1>3, <1>1, <1>8
        <3>2. CASE u = t
            BY <1>6, <1>7, <1>11, <3>1, <3>2
        <3>3. CASE u # t
            <4>1. PreparedSound(k, s, J) /\ k \in Journal
                BY <1>7, <1>12, <2>1, <3>3
            <4>2. \A r \in Issued(J)' : r.id # k.id
                BY <1>10, <4>1 DEF PreparedSound
            <4> QED
                BY <1>2, <1>3, <3>1, <4>1, <4>2, PreparedStays
        <3> QED
            BY <3>2, <3>3
    <2>2. ASSUME NEW u \in Tabs, NEW v \in Tabs,
                 task'[u] \in Prepared, task'[v] \in Prepared,
                 task'[u].journal.id = task'[v].journal.id
          PROVE  u = v
        BY <1>5, <1>6, <1>7, <1>12, <2>2 DEF IInv, TasksSound
    <2>3. ASSUME NEW u \in Tabs, task'[u] \in Completed,
                 NEW i \in {task'[u].id}, NEW z \in {task'[u].state},
                 NEW before \in {store'.state}, NEW k \in {store'.journal}
          PROVE  CompletedSound(i, z, before, k)'
        <3>1. u # t /\ task'[u] = task[u]
            BY <1>6, <1>7, <2>3, NotNone
        <3>2. CompletedSound(i, z, before, k)
            BY <1>2, <2>3, <3>1 DEF IInv, TasksSound
        <3> QED
            BY <1>2, <1>3, <1>4, <2>3, <3>2, CompletedStays
    <2> QED
        BY <2>1, <2>2, <2>3 DEF TasksSound
<1>14. TypeOK'
    BY <1>2, <1>3, <1>7 DEF IInv, TypeOK, ServiceTyped
<1> QED
    BY <1>3, <1>13, <1>14 DEF IInv

\* complete_response on a snapshot: what it accepts is the answer for the
\* stored state.
LEMMA CompleteResponseIInv ==
    ASSUME IInv, NEW t \in Tabs, NEW config \in Configs,
           NEW response \in Arriving, CompleteResponse(t, config, response)
    PROVE  IInv'
<1>1. PICK s, j, J : s = store.state /\ j = store.journal /\ J = Pending
    OBVIOUS
<1> DEFINE z == NextState(s, j, response)
           p == [kind |-> "completed", id |-> j.id, state |-> z]
<1>2. /\ s # None /\ j # None
      /\ CanComplete(config, s, j, response)
      /\ task' = [task EXCEPT ![t] = p]
      /\ UNCHANGED <<store, used, withdrawals, posted, rejected, ledger>>
    BY <1>1 DEF CompleteResponse, serverVars
<1>3. /\ WireSound' /\ StoreSound' /\ WithdrawalsSound'
      /\ ServiceTyped' /\ LedgerGrows /\ Pending' = Pending
    BY <1>2, StoreUntouched
<1>4. /\ s \in NoteState /\ j \in Journal /\ JournalOf(j, s)
      /\ StoredCommitment(s)
    BY <1>1, <1>2 DEF IInv, TypeOK, StoreSound
<1>5. PICK n \in Nullifiers, c \in BoundCommitment, id \in Ids :
         n = Nullifier(s) /\ c = s.commitment /\ id = j.id
    BY <1>4, StateTyped DEF Journal
<1>6. ServiceInv(J) /\ LastState(n, c, J)
    BY <1>1, <1>2, <1>5 DEF IInv, WireSound, StoreSound
<1>7. j.rerandomization = UserTerm(id) /\ UserTerm(id) \in Scalar
    BY <1>4, <1>5, Terms DEF JournalOf
<1>8. /\ ServerUpdate(Rerandomize(c, UserTerm(id)),
                      response.charge, response.term)
            = response.nextCommitment
      /\ response.signature = <<response.nextCommitment, response.nextAnchor>>
      /\ response.charge <= s.balance
    BY <1>2, <1>4, <1>5, <1>7 DEF CanComplete, AlgebraHolds, StoredCommitment
<1>9. /\ Finalized(n)
      /\ ledger[n].id = id
      /\ response.term = ServerTerm(n)
      /\ response.charge = ledger[n].charge
      /\ response.nextCommitment = ledger[n].nextCommitment
      /\ response.nextAnchor = ledger[n].nextAnchor
      /\ response.nextCommitment.balance = c.balance - response.charge
      /\ response.nextCommitment.note = c.note
      /\ response.nextCommitment.blinding
            = Append(Append(c.blinding, UserTerm(id)), response.term)
    BY <1>6, <1>8, AcceptedIsAnswer
<1>10. PICK d : d = ledger[n].nextCommitment
    OBVIOUS
<1>11. /\ d \in BoundCommitment
       /\ ledger[n].nextAnchor \in Anchors
       /\ ledger[n].charge \in Nat
    BY <1>6, <1>9, <1>10, EntryTyped DEF ServiceInv, Finalized
<1>12. /\ z.note = s.note /\ z.deposit = s.deposit
       /\ z.balance = s.balance - ledger[n].charge
       /\ z.blinding = d.blinding
       /\ z.commitment = d
       /\ z.anchor = ledger[n].nextAnchor
       /\ z \in NoteState
    <2> DEFINE b == s.blinding \o <<j.rerandomization, response.term>>
               x == s.balance - response.charge
    <2>1. z = [s EXCEPT !.balance = x, !.blinding = b,
                        !.commitment = response.nextCommitment,
                        !.anchor = response.nextAnchor,
                        !.signature = response.signature]
        BY DEF NextState
    <2>2. b = d.blinding
        <3>1. c.blinding = s.blinding
            BY <1>4, <1>5, OpeningIs
        <3>2. s.blinding \in Seq(Scalar) /\ response.term \in Scalar
            BY <1>4, <1>9, StateTyped, Terms
        <3>3. b = Append(Append(s.blinding, UserTerm(id)), response.term)
            BY <1>7, <3>2, TwoTerms
        <3> QED
            BY <1>9, <1>10, <3>1, <3>3, Zenon
    <2>3. d.blinding \in Seq(Scalar)
        BY <1>11 DEF BoundCommitment
    <2>4. x \in Nat
        BY <1>4, <1>8, <1>9, <1>11, StateTyped
    <2>5. response.signature \in BoundCommitment \X Anchors
        BY <1>8, <1>9, <1>10, <1>11
    <2> HIDE DEF b, x, z
    <2>6. z = [deployment |-> s.deployment, note |-> s.note,
               deposit |-> s.deposit, balance |-> x, blinding |-> b,
               commitment |-> response.nextCommitment,
               anchor |-> response.nextAnchor,
               signature |-> response.signature]
        BY <1>4, <2>1 DEF NoteState
    <2>7. z \in NoteState
        BY <1>4, <1>9, <1>10, <1>11, <2>2, <2>3, <2>4, <2>5, <2>6 DEF NoteState
    <2> QED
        BY <1>9, <1>10, <2>2, <2>6, <2>7 DEF x
<1> HIDE DEF z
<1>13. SuccessorOf(z, s)
    <2>1. /\ d.note = s.note
          /\ d.balance = s.balance - ledger[n].charge
        BY <1>4, <1>5, <1>9, <1>10, OpeningIs
    <2>2. OpeningOf(z) = [note |-> d.note, balance |-> d.balance,
                          blinding |-> d.blinding]
        BY <1>12, <2>1 DEF OpeningOf, Commit
    <2>3. StoredCommitment(z)
        BY <1>11, <1>12, <2>2 DEF StoredCommitment, BoundCommitment
    <2> QED
        BY <1>5, <1>9, <1>10, <1>12, <2>3 DEF SuccessorOf
<1>14. p \in Completed /\ p.id = id /\ p.state = z
    BY <1>5, <1>12 DEF Completed
<1> HIDE DEF p
<1>15. /\ task'[t] = p
       /\ \A u \in Tabs \ {t} : task'[u] = task[u]
       /\ task' \in [Tabs -> Prepared \cup Completed \cup {None}]
    BY <1>2, <1>14 DEF IInv, TypeOK
<1>16. CompletedSound(id, z, s, j)'
    <2>1. \E r \in posted : r.id = id
        BY <1>6, <1>9, SuccessorIs
    <2>2. CompletedSound(id, z, s, j)
        BY <1>13, <2>1 DEF CompletedSound
    <2> QED
        BY <1>2, <1>3, <1>4, <2>2, CompletedStays
<1>17. TasksSound'
    <2>1. ASSUME NEW u \in Tabs, task'[u] \in Prepared,
                 NEW k \in {task'[u].journal}, NEW y \in {store'.state},
                 NEW K \in {Pending'}
          PROVE  PreparedSound(k, y, K)'
        <3>1. task'[u] = task[u] /\ K = J /\ y = s
            BY <1>1, <1>2, <1>3, <1>14, <1>15, <2>1, NotNone
        <3>2. PreparedSound(k, s, J) /\ k \in Journal
            BY <1>1, <2>1, <3>1, NotNone DEF IInv, TasksSound
        <3>3. \A r \in Issued(J)' : r.id # k.id
            BY <1>2, <3>2 DEF PreparedSound, Issued
        <3> QED
            BY <1>2, <1>3, <3>1, <3>2, <3>3, PreparedStays
    <2>2. ASSUME NEW u \in Tabs, NEW v \in Tabs,
                 task'[u] \in Prepared, task'[v] \in Prepared,
                 task'[u].journal.id = task'[v].journal.id
          PROVE  u = v
        BY <1>14, <1>15, <2>2, NotNone DEF IInv, TasksSound
    <2>3. ASSUME NEW u \in Tabs, task'[u] \in Completed,
                 NEW i \in {task'[u].id}, NEW y \in {task'[u].state},
                 NEW before \in {store'.state}, NEW k \in {store'.journal}
          PROVE  CompletedSound(i, y, before, k)'
        <3>1. before = s /\ k = j
            BY <1>1, <1>2
        <3>2. CASE u = t
            BY <1>14, <1>15, <1>16, <2>3, <3>1, <3>2
        <3>3. CASE u # t
            <4>1. CompletedSound(i, y, s, j)
                BY <1>1, <1>15, <2>3, <3>3 DEF IInv, TasksSound
            <4> QED
                BY <1>2, <1>3, <1>4, <3>1, <4>1, CompletedStays
        <3> QED
            BY <3>2, <3>3
    <2> QED
        BY <2>1, <2>2, <2>3 DEF TasksSound
<1>18. TypeOK'
    BY <1>2, <1>3, <1>15 DEF IInv, TypeOK, ServiceTyped
<1> QED
    BY <1>3, <1>17, <1>18 DEF IInv

\* What makes the next store and the next tasks sound.
LEMMA StoreBecomes ==
    ASSUME NEW s, NEW j, store' = [state |-> s, journal |-> j],
           j # None => s # None /\ JournalOf(j, s),
           s # None => StoredCommitment(s),
           NEW n, n = Nullifier(s), NEW c, c = s.commitment,
           NEW K, K = Pending',
           s # None =>
              /\ LastState(n, c, K)'
              /\ s.balance = s.deposit - Charged(n[1], Nullifiers \ {n})'
    PROVE  StoreSound'
<1>1. store'.state = s /\ store'.journal = j
    OBVIOUS
<1>2. /\ Nullifier(store.state)' = n
      /\ StoredCommitment(store.state)' <=> StoredCommitment(s)
      /\ JournalOf(store.journal, store.state)' <=> JournalOf(j, s)
    BY <1>1 DEF Nullifier, StoredCommitment, JournalOf, OpeningOf
<1> QED
    BY <1>1, <1>2 DEF StoreSound

\* What has to be shown of each tab when the store changes.
LEMMA TasksBecome ==
    ASSUME IInv, NEW z, z = store'.state, NEW l, l = store'.journal,
           NEW K, K = Pending',
           \A u \in Tabs : task'[u] = task[u] \/ task'[u] = None,
           \A u \in Tabs : task'[u] = task[u] /\ task[u] \in Prepared =>
              \A j \in {task[u].journal} : PreparedSound(j, z, K)',
           \A u \in Tabs : task'[u] = task[u] /\ task[u] \in Completed =>
              \A id \in {task[u].id}, s \in {task[u].state} :
                 CompletedSound(id, s, z, l)'
    PROVE  TasksSound'
<1>1. ASSUME NEW u \in Tabs, task'[u] # None PROVE task'[u] = task[u]
    BY <1>1
<1>2. ASSUME NEW u \in Tabs, task'[u] \in Prepared,
             NEW j \in {task'[u].journal}, NEW y \in {store'.state},
             NEW L \in {Pending'}
      PROVE  PreparedSound(j, y, L)'
    <2>1. task'[u] = task[u] /\ y = z /\ L = K
        BY <1>1, <1>2, NotNone
    <2> QED
        BY <1>2, <2>1
<1>3. ASSUME NEW u \in Tabs, NEW v \in Tabs,
             task'[u] \in Prepared, task'[v] \in Prepared,
             task'[u].journal.id = task'[v].journal.id
      PROVE  u = v
    BY <1>1, <1>3, NotNone DEF IInv, TasksSound
<1>4. ASSUME NEW u \in Tabs, task'[u] \in Completed,
             NEW id \in {task'[u].id}, NEW s \in {task'[u].state},
             NEW before \in {store'.state}, NEW k \in {store'.journal}
      PROVE  CompletedSound(id, s, before, k)'
    <2>1. task'[u] = task[u] /\ before = z /\ k = l
        BY <1>1, <1>4, NotNone
    <2> QED
        BY <1>4, <2>1
<1> QED
    BY <1>2, <1>3, <1>4 DEF TasksSound

\* What the tabs hold now.
LEMMA TasksAre ==
    ASSUME IInv, NEW z, z = store.state, NEW l, l = store.journal,
           NEW J, J = Pending
    PROVE  /\ \A u \in Tabs : task[u] \in Prepared =>
                 \A j \in {task[u].journal} :
                    PreparedSound(j, z, J) /\ j \in Journal
           /\ \A u \in Tabs : task[u] \in Completed =>
                 \A id \in {task[u].id}, s \in {task[u].state} :
                    CompletedSound(id, s, z, l)
BY NotNone DEF IInv, TasksSound

\* confirm_deposit: the host had no note, and nobody knew this one.
LEMMA ConfirmDepositIInv ==
    ASSUME IInv, NEW config \in Configs, NEW note \in Notes,
           NEW amount \in Deposits, ConfirmDeposit(config, note, amount)
    PROVE  IInv'
<1>1. PICK s, n, c :
         /\ s = DepositState(config, note, amount)
         /\ n = <<note, Genesis>>
         /\ c = Commit(note, amount, <<DepositTerm(note)>>)
    OBVIOUS
<1>2. /\ store.state = None /\ config.deployment = Home
      /\ note \notin used /\ used' = used \cup {note}
      /\ store' = [store EXCEPT !.state = s]
      /\ UNCHANGED <<task, withdrawals, posted, rejected, ledger>>
    BY <1>1 DEF ConfirmDeposit, serverVars
<1>3. store.journal = None
    BY <1>2 DEF IInv, StoreSound
<1>4. store' = [state |-> s, journal |-> None]
    BY <1>2, <1>3 DEF IInv, TypeOK
<1>5. /\ c \in BoundCommitment
      /\ c.note = note /\ c.blinding = <<DepositTerm(note)>>
      /\ amount \in Nat
    BY <1>1, Terms, ServiceAssumption DEF Commit, BoundCommitment
<1>6. /\ s \in NoteState /\ s # None
      /\ s.note = note /\ s.commitment = c
      /\ s.balance = amount /\ s.deposit = amount
      /\ StoredCommitment(s)
      /\ Nullifier(s) = n /\ n \in Nullifiers /\ n[1] = note
    <2>1. s \in NoteState
        BY <1>1, <1>2, <1>5, Terms, ServiceAssumption
        DEF DepositState, NoteState
    <2>2. /\ s.note = note /\ s.commitment = c /\ s.anchor = Genesis
          /\ s.balance = amount /\ s.deposit = amount
          /\ s.blinding = <<DepositTerm(note)>>
        BY <1>1 DEF DepositState
    <2>3. StoredCommitment(s)
        BY <1>1, <2>2 DEF StoredCommitment, OpeningOf
    <2> QED
        BY <1>1, <2>1, <2>2, <2>3, NotNone, StateTyped
<1>7. Pending = {} /\ Pending' = {}
    BY <1>3, <1>4 DEF Pending
<1>8. /\ ServiceInv({})' /\ LastState(n, c, {})'
      /\ \A k \in Nullifiers : Finalized(k)' => k[1] # note
    <2>1. ServiceInv({})
        BY <1>7 DEF IInv, WireSound
    <2> QED
        BY <1>1, <1>2, <1>5, <2>1, DepositKeeps
<1>9. /\ \A k : Finalized(k)' <=> Finalized(k)
      /\ \A k : Cleared(k)' <=> Cleared(k)
      /\ \A x, ns : Charged(x, ns)' = Charged(x, ns)
      /\ LedgerGrows
    BY <1>2 DEF Finalized, Cleared, Charged, LedgerGrows
<1>10. Charged(note, Nullifiers \ {n}) = 0
    BY <1>8, <1>9, ChargedNothing
<1>11. WireSound'
    BY <1>7, <1>8 DEF WireSound
<1>12. StoreSound'
    <2>1. s.balance = s.deposit - Charged(n[1], Nullifiers \ {n})'
        BY <1>5, <1>6, <1>9, <1>10
    <2> QED
        BY <1>4, <1>6, <1>7, <1>8, <2>1, StoreBecomes
<1>13. TasksSound'
    <2>1. ASSUME NEW u \in Tabs, task[u] \in Prepared,
                 NEW j \in {task[u].journal}
          PROVE  PreparedSound(j, s, {})'
        <3>1. PreparedSound(j, None, {})
            BY <1>2, <1>3, <1>7, <2>1, TasksAre
        <3>2. s.note # j.nullifier[1]
            BY <1>2, <1>6, <3>1 DEF PreparedSound
        <3> QED
            BY <1>2, <3>1, <3>2 DEF PreparedSound, Issued
    <2>2. ASSUME NEW u \in Tabs, task[u] \in Completed,
                 NEW id \in {task[u].id}, NEW y \in {task[u].state}
          PROVE  CompletedSound(id, y, s, None)'
        BY <1>2, <2>2 DEF IInv, TasksSound, CompletedSound
    <2> QED
        BY <1>2, <1>4, <1>7, <2>1, <2>2, TasksBecome
<1>14. TypeOK'
    BY <1>2, <1>4, <1>6, <1>8 DEF IInv, TypeOK, ServiceInv, ServiceTyped
<1>15. WithdrawalsSound'
    BY <1>2, <1>9 DEF IInv, WithdrawalsSound
<1> QED
    BY <1>11, <1>12, <1>13, <1>14, <1>15 DEF IInv

\* The transaction that stores a prepared request: it fits the stored state,
\* although it was made from a snapshot.
LEMMA PersistPreparedIInv ==
    ASSUME IInv, NEW t \in Tabs, PersistPrepared(t)
    PROVE  IInv'
<1>1. PICK j, s : j = task[t].journal /\ s = store.state
    OBVIOUS
<1>2. /\ task[t] # None /\ task[t].kind = "prepared"
      /\ task' = [task EXCEPT ![t] = None]
      /\ UNCHANGED <<used, withdrawals, posted, rejected, ledger>>
    BY DEF PersistPrepared, serverVars
<1>3. /\ task'[t] = None
      /\ \A u \in Tabs : task'[u] = task[u] \/ task'[u] = None
      /\ task' \in [Tabs -> Prepared \cup Completed \cup {None}]
    BY <1>2 DEF IInv, TypeOK
<1>4. task[t] \in Prepared /\ j \in Journal
    <2>1. task[t] \in Prepared \cup Completed \cup {None}
        BY DEF IInv, TypeOK
    <2> QED
        BY <1>1, <1>2, <2>1, NotNone
<1>5. CASE store' = store
    <2>1. /\ WireSound' /\ StoreSound' /\ WithdrawalsSound'
          /\ ServiceTyped' /\ LedgerGrows /\ Pending' = Pending
        BY <1>2, <1>5, StoreUntouched
    <2>2. TasksSound'
        BY <1>2, <1>3, <1>5, <2>1, TasksStay
    <2>3. TypeOK'
        BY <1>3, <1>5, <2>1 DEF IInv, TypeOK, ServiceTyped
    <2> QED
        BY <2>1, <2>2, <2>3 DEF IInv
<1>6. CASE store' # store
    <2>1. /\ store.journal = None /\ s # None /\ Nullifier(s) = j.nullifier
          /\ store' = [store EXCEPT !.journal = j]
        BY <1>1, <1>6 DEF PersistPrepared, PendingRequest
    <2>2. store' = [state |-> s, journal |-> j]
        BY <1>1, <2>1 DEF IInv, TypeOK
    <2>3. s \in NoteState
        BY <1>1, <2>1 DEF IInv, TypeOK
    <2>4. PICK n, c, r : /\ n \in Nullifiers /\ c \in BoundCommitment
                         /\ n = Nullifier(s) /\ c = s.commitment
                         /\ r = j.request
        BY <2>3, StateTyped
    <2>5. Pending = {} /\ Pending' = {r} /\ j # None
        BY <1>4, <2>1, <2>2, <2>4, NotNone DEF Pending
    <2>6. /\ ServiceInv({}) /\ LastState(n, c, {})
          /\ StoredCommitment(s)
          /\ s.balance = s.deposit - Charged(n[1], Nullifiers \ {n})
        BY <1>1, <2>1, <2>4, <2>5 DEF IInv, WireSound, StoreSound
    <2>7. PreparedSound(j, s, {})
        BY <1>1, <1>4, <2>5, TasksAre
    <2>8. JournalOf(j, s)
        <3>1. ~Finalized(n)
            BY <2>6 DEF LastState, Recoverable, Finalized, Cleared
        <3>2. s.note = j.nullifier[1]
            BY <2>1, <2>3, StateTyped
        <3> QED
            BY <2>1, <2>4, <2>7, <3>1, <3>2 DEF PreparedSound
    <2>9. PICK id \in Ids, bound \in Nat : id = j.id /\ bound = r.bound
        BY <1>4, <2>4 DEF Journal
    <2>10. r = Request(id, n, Rerandomize(c, UserTerm(id)), bound)
        <3>1. r = [id |-> r.id, nullifier |-> r.nullifier,
                   commitment |-> r.commitment, bound |-> r.bound]
            BY <1>4, <2>4 DEF Journal
        <3> QED
            BY <2>4, <2>8, <2>9, <3>1 DEF JournalOf, Request
    <2>11. bound <= c.balance
        BY <2>3, <2>4, <2>6, <2>8, <2>9, OpeningIs DEF JournalOf
    <2>12. /\ id \in used' /\ used \subseteq used'
           /\ \A q \in posted : q.id # id
        BY <1>2, <2>7, <2>9 DEF PreparedSound, Issued
    <2>13. ServiceInv({r})' /\ LastState(n, c, {r})'
        BY <1>2, <2>4, <2>6, <2>10, <2>11, <2>12, PrepareKeeps
    <2>14. /\ \A k : Cleared(k)' <=> Cleared(k)
           /\ \A x, ns : Charged(x, ns)' = Charged(x, ns)
           /\ LedgerGrows
        BY <1>2 DEF Finalized, Cleared, Charged, LedgerGrows
    <2>15. WireSound'
        BY <2>5, <2>13 DEF WireSound
    <2>16. StoreSound'
        <3>1. s.balance = s.deposit - Charged(n[1], Nullifiers \ {n})'
            BY <2>6, <2>14
        <3> QED
            BY <2>1, <2>2, <2>4, <2>5, <2>6, <2>8, <2>13, <3>1, StoreBecomes
    <2>17. TasksSound'
        <3>1. ASSUME NEW u \in Tabs, task'[u] = task[u], task[u] \in Prepared,
                     NEW k \in {task[u].journal}
              PROVE  PreparedSound(k, s, {r})'
            <4>1. PreparedSound(k, s, {}) /\ k \in Journal
                BY <1>1, <2>5, <3>1, TasksAre
            <4>2. k.id # j.id
                <5>1. u # t
                    BY <1>3, <3>1, NotNone
                <5> QED
                    BY <1>1, <1>4, <3>1, <5>1 DEF IInv, TasksSound
            <4>3. \A q \in Issued({r})' : q.id # k.id
                BY <1>2, <2>4, <2>8, <4>1, <4>2
                DEF PreparedSound, Issued, JournalOf
            <4> QED
                BY <1>2, <2>14, <4>1, <4>3, PreparedStays
        <3>2. ASSUME NEW u \in Tabs, task[u] \in Completed,
                     NEW i \in {task[u].id}, NEW y \in {task[u].state}
              PROVE  CompletedSound(i, y, s, j)'
            <4>1. \E q \in posted : q.id = i
                BY <3>2 DEF IInv, TasksSound, CompletedSound
            <4>2. j.id # i
                BY <2>9, <2>12, <4>1
            <4> QED
                BY <1>2, <4>1, <4>2 DEF CompletedSound
        <3> QED
            BY <1>3, <2>2, <2>5, <3>1, <3>2, TasksBecome
    <2>18. TypeOK'
        BY <1>3, <1>4, <2>2, <2>3, <2>13
        DEF IInv, TypeOK, ServiceInv, ServiceTyped
    <2>19. WithdrawalsSound'
        BY <1>2, <2>14 DEF IInv, WithdrawalsSound
    <2> QED
        BY <2>15, <2>16, <2>17, <2>18, <2>19 DEF IInv
<1> QED
    BY <1>5, <1>6

\* The stored request on the wire, however often.
LEMMA SendIInv == IInv /\ Send => IInv'
<1> SUFFICES ASSUME IInv, Send PROVE IInv'
    OBVIOUS
<1>1. /\ store.journal # None
      /\ posted' = posted \cup {store.journal.request}
      /\ UNCHANGED <<store, task, used, withdrawals, rejected, ledger>>
    BY DEF Send, hostVars
<1>2. Pending' = Pending /\ Pending = {store.journal.request}
    BY <1>1 DEF Pending
<1>3. ASSUME NEW J \in {Pending}
      PROVE  /\ ServiceInv(J)'
             /\ \A n \in Nullifiers, c \in BoundCommitment :
                   LastState(n, c, J) => LastState(n, c, J)'
    <2>1. ServiceInv(J)
        BY DEF IInv, WireSound
    <2>2. posted \subseteq posted' /\ posted' \cup J \subseteq posted \cup J
        BY <1>1, <1>2
    <2>3. ASSUME NEW n \in Nullifiers, NEW c, LastState(n, c, J)
          PROVE  OnlyJournaled(n, J)' /\ Recoverable(n, J)'
        BY <1>1, <1>2, <2>3 DEF LastState, OnlyJournaled, Recoverable, Cleared
    <2> QED
        BY <1>1, <2>1, <2>2, <2>3, QuietKeeps
<1>4. /\ \A k : Cleared(k)' <=> Cleared(k)
      /\ \A x, ns : Charged(x, ns)' = Charged(x, ns)
      /\ LedgerGrows
    BY <1>1 DEF Finalized, Cleared, Charged, LedgerGrows
<1>5. WireSound'
    BY <1>2, <1>3 DEF WireSound
<1>6. StoreSound'
    BY <1>1, <1>3, <1>4, StoreStays
<1>7. TasksSound'
    <2>1. /\ used \subseteq used' /\ posted \subseteq posted'
          /\ posted' \cup Pending' \subseteq posted \cup Pending
        BY <1>1, <1>2
    <2> QED
        BY <1>1, <1>4, <2>1, TasksStay
<1>8. TypeOK'
    BY <1>1, <1>3 DEF IInv, TypeOK, ServiceInv, ServiceTyped
<1>9. WithdrawalsSound'
    BY <1>1, <1>4 DEF IInv, WithdrawalsSound
<1> QED
    BY <1>5, <1>6, <1>7, <1>8, <1>9 DEF IInv

\* A completed task is of the state it was completed for, while the journal it
\* answers is stored.
LEMMA CompletedIs ==
    ASSUME IInv, NEW t \in Tabs, PersistCompleted(t), store' # store,
           NEW s, s = store.state, NEW z, z = task[t].state
    PROVE  /\ store.journal # None
           /\ store' = [state |-> z, journal |-> None]
           /\ s \in NoteState /\ z \in NoteState
           /\ SuccessorOf(z, s)
<1>1. /\ task[t] # None /\ task[t].kind = "completed"
      /\ store.journal # None /\ store.journal.id = task[t].id
      /\ store' = [state |-> z, journal |-> None]
    BY DEF PersistCompleted
<1>2. task[t] \in Completed /\ z \in NoteState
    <2>1. task[t] \in Prepared \cup Completed \cup {None}
        BY DEF IInv, TypeOK
    <2> QED
        BY <1>1, <2>1, NotNone
<1>3. s \in NoteState
    BY <1>1 DEF IInv, TypeOK, StoreSound
<1>4. PICK id, k : id = task[t].id /\ k = store.journal
    OBVIOUS
<1>5. CompletedSound(id, z, s, k)
    BY <1>2, <1>4, TasksAre
<1> QED
    BY <1>1, <1>2, <1>3, <1>4, <1>5 DEF CompletedSound

\* The transaction that stores the next state: it is the successor of the
\* stored state, the last of the note and known to nobody.
LEMMA PersistCompletedIInv ==
    ASSUME IInv, NEW t \in Tabs, PersistCompleted(t)
    PROVE  IInv'
<1>1. PICK s, z, J, j : /\ s = store.state /\ z = task[t].state
                        /\ J = Pending /\ j = store.journal
    OBVIOUS
<1>2. /\ task' = [task EXCEPT ![t] = None]
      /\ UNCHANGED <<used, withdrawals, posted, rejected, ledger>>
    BY DEF PersistCompleted, serverVars
<1>3. /\ \A u \in Tabs : task'[u] = task[u] \/ task'[u] = None
      /\ task' \in [Tabs -> Prepared \cup Completed \cup {None}]
    BY <1>2 DEF IInv, TypeOK
<1>4. CASE store' = store
    <2>1. /\ WireSound' /\ StoreSound' /\ WithdrawalsSound'
          /\ ServiceTyped' /\ LedgerGrows /\ Pending' = Pending
        BY <1>2, <1>4, StoreUntouched
    <2>2. TasksSound'
        BY <1>2, <1>3, <1>4, <2>1, TasksStay
    <2>3. TypeOK'
        BY <1>3, <1>4, <2>1 DEF IInv, TypeOK, ServiceTyped
    <2> QED
        BY <2>1, <2>2, <2>3 DEF IInv
<1>5. CASE store' # store
    <2>1. /\ j # None /\ store' = [state |-> z, journal |-> None]
          /\ s \in NoteState /\ z \in NoteState
          /\ SuccessorOf(z, s)
        BY <1>1, <1>5, CompletedIs
    <2>2. PICK n, c, m, d :
             /\ n \in Nullifiers /\ n = Nullifier(s)
             /\ c \in BoundCommitment /\ c = s.commitment
             /\ m = <<n[1], ledger[n].nextAnchor>>
             /\ d = ledger[n].nextCommitment
        BY <2>1, StateTyped
    <2>3. /\ ServiceInv(J) /\ LastState(n, c, J)
          /\ s.balance = s.deposit - Charged(n[1], Nullifiers \ {n})
        BY <1>1, <2>1, <2>2, NotNone DEF IInv, WireSound, StoreSound
    <2>4. /\ Finalized(n)
          /\ z.note = s.note /\ z.deposit = s.deposit
          /\ z.commitment = d /\ z.anchor = ledger[n].nextAnchor
          /\ StoredCommitment(z)
          /\ z.balance = s.balance - ledger[n].charge
        BY <2>1, <2>2 DEF SuccessorOf
    <2>5. Nullifier(z) = m /\ s.note = n[1] /\ z # None
        BY <2>1, <2>2, <2>4, StateTyped, NotNone
    <2>6. /\ m \in Nullifiers /\ m[1] = n[1]
          /\ Fresh(m, J) /\ LastState(m, d, J)
        BY <2>2, <2>3, <2>4, SuccessorIsLast
    <2>7. d \in BoundCommitment
        BY <2>1, <2>4, StateTyped
    <2>8. ServiceInv({})' /\ LastState(m, d, {})'
        <3>1. posted \subseteq posted' /\ posted' \cup {} \subseteq posted \cup J
              /\ used \subseteq used'
            BY <1>2
        <3>2. OnlyJournaled(m, {})' /\ Recoverable(m, {})'
            BY <1>2, <2>6 DEF Fresh, Issued, OnlyJournaled, Recoverable
        <3> QED
            BY <1>2, <2>2, <2>3, <2>6, <2>7, <3>1, <3>2, QuietKeeps
    <2>9. Pending' = {}
        BY <2>1 DEF Pending
    <2>10. /\ \A k : Cleared(k)' <=> Cleared(k)
           /\ \A k : Finalized(k)' <=> Finalized(k)
           /\ \A x, ns : Charged(x, ns)' = Charged(x, ns)
           /\ LedgerGrows
        BY <1>2 DEF Finalized, Cleared, Charged, LedgerGrows
    <2>11. WireSound'
        BY <2>8, <2>9 DEF WireSound
    <2>12. StoreSound'
        <3>1. /\ Charged(n[1], Nullifiers \ {m})
                    = Charged(n[1], Nullifiers \ {n}) + ledger[n].charge
              /\ Charged(n[1], Nullifiers \ {n}) \in Int
              /\ ledger[n].charge \in Nat
            BY <2>2, <2>3, <2>4, ChargedMovesOn
        <3>2. s.balance \in Nat /\ s.deposit \in Nat
            BY <2>1, StateTyped
        <3>3. z.balance = z.deposit - Charged(m[1], Nullifiers \ {m})'
            BY <2>3, <2>4, <2>6, <2>10, <3>1, <3>2
        <3> QED
            BY <2>1, <2>4, <2>5, <2>8, <2>9, <3>3, StoreBecomes
    <2>13. TasksSound'
        <3>1. ASSUME NEW u \in Tabs, task[u] \in Prepared,
                     NEW k \in {task[u].journal}
              PROVE  PreparedSound(k, z, {})'
            <4>1. PreparedSound(k, s, J) /\ k \in Journal
                BY <1>1, <3>1, TasksAre
            <4>2. ASSUME z.note = k.nullifier[1] PROVE Finalized(k.nullifier)
                <5>1. Finalized(k.nullifier) \/ JournalOf(k, s)
                    BY <2>1, <2>4, <4>1, <4>2, NotNone DEF PreparedSound
                <5> QED
                    BY <2>2, <2>4, <5>1 DEF JournalOf
            <4>3. \A q \in Issued({})' : q.id # k.id
                BY <1>2, <4>1 DEF PreparedSound, Issued
            <4> QED
                BY <1>2, <2>10, <4>1, <4>2, <4>3 DEF PreparedSound
        <3>2. ASSUME NEW u \in Tabs, task[u] \in Completed,
                     NEW i \in {task[u].id}, NEW y \in {task[u].state}
              PROVE  CompletedSound(i, y, z, None)'
            BY <1>2, <3>2 DEF IInv, TasksSound, CompletedSound
        <3> QED
            BY <1>3, <2>1, <2>9, <3>1, <3>2, TasksBecome
    <2>14. TypeOK'
        BY <1>3, <2>1, <2>8 DEF IInv, TypeOK, ServiceInv, ServiceTyped
    <2>15. WithdrawalsSound'
        BY <1>2, <2>10 DEF IInv, WithdrawalsSound
    <2> QED
        BY <2>11, <2>12, <2>13, <2>14, <2>15 DEF IInv
<1> QED
    BY <1>4, <1>5

\* The journal of a rejected request goes: it is not and will not be reserved.
LEMMA ClearRejectedIInv == IInv /\ ClearRejected => IInv'
<1> SUFFICES ASSUME IInv, ClearRejected PROVE IInv'
    OBVIOUS
<1>1. PICK s, J : s = store.state /\ J = Pending
    OBVIOUS
<1>2. /\ store.journal # None /\ store.journal.id \in rejected
      /\ store' = [store EXCEPT !.journal = None]
      /\ UNCHANGED <<task, used, withdrawals, posted, rejected, ledger>>
    BY DEF ClearRejected, serverVars
<1>3. /\ s \in NoteState /\ s # None /\ StoredCommitment(s)
      /\ JournalOf(store.journal, s)
    BY <1>1, <1>2 DEF IInv, TypeOK, StoreSound
<1>4. store' = [state |-> s, journal |-> None]
    BY <1>1, <1>2 DEF IInv, TypeOK
<1>5. PICK n \in Nullifiers, c \in BoundCommitment :
         n = Nullifier(s) /\ c = s.commitment
    BY <1>3, StateTyped
<1>6. /\ ServiceInv(J) /\ LastState(n, c, J)
      /\ s.balance = s.deposit - Charged(n[1], Nullifiers \ {n})
    BY <1>1, <1>3, <1>5 DEF IInv, WireSound, StoreSound
<1>7. Pending' = {} /\ \A r \in J : r.id \in rejected
    BY <1>1, <1>2, <1>3, <1>4 DEF Pending, JournalOf
<1>8. OnlyJournaled(n, {})' /\ Recoverable(n, {})'
    <2>1. ledger[n] # None /\ ~Cleared(n) => ledger[n].id \notin rejected
        BY <1>6 DEF ServiceInv, LedgerSound, EntrySound
    <2> QED
        BY <1>2, <1>6, <1>7, <2>1
        DEF LastState, OnlyJournaled, Recoverable, Cleared
<1>9. ServiceInv({})' /\ LastState(n, c, {})'
    <2>1. posted \subseteq posted' /\ posted' \cup {} \subseteq posted \cup J
          /\ used \subseteq used'
        BY <1>2
    <2> QED
        BY <1>2, <1>6, <1>8, <2>1, QuietKeeps
<1>10. /\ \A k : Cleared(k)' <=> Cleared(k)
       /\ \A x, ns : Charged(x, ns)' = Charged(x, ns)
       /\ LedgerGrows
    BY <1>2 DEF Finalized, Cleared, Charged, LedgerGrows
<1>11. WireSound'
    BY <1>7, <1>9 DEF WireSound
<1>12. StoreSound'
    <2>1. s.balance = s.deposit - Charged(n[1], Nullifiers \ {n})'
        BY <1>6, <1>10
    <2> QED
        BY <1>3, <1>4, <1>5, <1>7, <1>9, <2>1, StoreBecomes
<1>13. TasksSound'
    <2>1. store'.state = store.state /\ store'.journal = None
        BY <1>1, <1>4
    <2>2. /\ used \subseteq used' /\ posted \subseteq posted'
          /\ posted' \cup Pending' \subseteq posted \cup Pending
        BY <1>2, <1>7
    <2> QED
        BY <1>2, <1>10, <2>1, <2>2, TasksStay
<1>14. TypeOK'
    BY <1>2, <1>3, <1>4, <1>9 DEF IInv, TypeOK, ServiceInv, ServiceTyped
<1>15. WithdrawalsSound'
    BY <1>2, <1>10 DEF IInv, WithdrawalsSound
<1> QED
    BY <1>11, <1>12, <1>13, <1>14, <1>15 DEF IInv

\* prepare_withdrawal: a clearance that fits is of the stored state, so the
\* note is charged no more.
LEMMA PrepareWithdrawalIInv ==
    ASSUME IInv, NEW config \in Configs, NEW mode \in {"mutual", "escape"},
           NEW clearance \in {n \in Nullifiers : Cleared(n)} \cup {None},
           PrepareWithdrawal(config, mode, clearance)
    PROVE  IInv'
<1>1. PICK s, w : s = store.state /\ w = WithdrawalPlan(mode, s)
    OBVIOUS
<1>2. /\ s # None /\ ClearanceFits(mode, s, clearance)
      /\ withdrawals' = withdrawals \cup {w}
      /\ UNCHANGED <<store, task, used, posted, rejected, ledger>>
    BY <1>1 DEF PrepareWithdrawal, serverVars
<1>3. s \in NoteState
    BY <1>1, <1>2 DEF IInv, TypeOK
<1>4. PICK n \in Nullifiers : n = Nullifier(s)
    BY <1>3, StateTyped
<1>5. ASSUME w.clearance
      PROVE  /\ w.nullifier \in Nullifiers
             /\ Cleared(w.nullifier)
             /\ w.balance = w.deposit - Charged(w.nullifier[1], Nullifiers)
    <2>1. /\ mode = "mutual" /\ w.nullifier = n
          /\ w.deposit = s.deposit /\ w.balance = s.balance
        BY <1>1, <1>4, <1>5 DEF WithdrawalPlan
    <2>2. clearance = n
        BY <1>2, <1>4, <2>1 DEF ClearanceFits
    <2>3. Cleared(n)
        BY <2>2, NotNone
    <2>4. Charged(n[1], Nullifiers \ {n}) = Charged(n[1], Nullifiers)
        BY <2>3, ChargedWithout DEF Finalized, Cleared
    <2>5. s.balance = s.deposit - Charged(n[1], Nullifiers \ {n})
        BY <1>1, <1>2, <1>4 DEF IInv, StoreSound
    <2> QED
        BY <2>1, <2>3, <2>4, <2>5
<1>6. \A J \in {Pending} : ServiceInv(J)' /\ LastStatesStay(J)
    BY <1>2, SameKeeps DEF IInv, WireSound
<1>7. /\ \A k : Cleared(k)' <=> Cleared(k)
      /\ \A x, ns : Charged(x, ns)' = Charged(x, ns)
      /\ LedgerGrows
      /\ Pending' = Pending
    BY <1>2 DEF Finalized, Cleared, Charged, LedgerGrows, Pending
<1>8. WireSound'
    BY <1>6, <1>7 DEF WireSound
<1>9. StoreSound'
    BY <1>2, <1>6, <1>7, StoreStays DEF LastStatesStay
<1>10. TasksSound'
    BY <1>2, <1>7, TasksStay
<1>11. TypeOK'
    BY <1>2 DEF IInv, TypeOK, ServiceTypeOK
<1>12. WithdrawalsSound'
    BY <1>2, <1>5, <1>7 DEF IInv, WithdrawalsSound
<1> QED
    BY <1>8, <1>9, <1>10, <1>11, <1>12 DEF IInv

\* The host forgets a note it has withdrawn: state and journal go together.
LEMMA ForgetNoteIInv == IInv /\ ForgetNote => IInv'
<1> SUFFICES ASSUME IInv, ForgetNote PROVE IInv'
    OBVIOUS
<1>1. /\ store' = [state |-> None, journal |-> None]
      /\ UNCHANGED <<task, used, withdrawals, posted, rejected, ledger>>
    BY DEF ForgetNote, serverVars
<1>2. Pending' = {} /\ store'.state = None /\ store'.journal = None
    BY <1>1 DEF Pending
<1>3. ServiceInv({})'
    <2>1. PICK J : J = Pending
        OBVIOUS
    <2>2. ServiceInv(J)
        BY <2>1 DEF IInv, WireSound
    <2>3. posted \subseteq posted' /\ posted' \cup {} \subseteq posted \cup J
          /\ used \subseteq used'
        BY <1>1
    <2> QED
        BY <1>1, <2>2, <2>3, QuietKeeps
<1>4. /\ \A k : Cleared(k)' <=> Cleared(k)
      /\ \A x, ns : Charged(x, ns)' = Charged(x, ns)
      /\ LedgerGrows
    BY <1>1 DEF Finalized, Cleared, Charged, LedgerGrows
<1>5. WireSound' /\ StoreSound'
    BY <1>2, <1>3 DEF WireSound, StoreSound
<1>6. TasksSound'
    <2>1. /\ used \subseteq used' /\ posted \subseteq posted'
          /\ posted' \cup Pending' \subseteq posted \cup Pending
        BY <1>1, <1>2
    <2> QED
        BY <1>1, <1>2, <1>4, <2>1, TasksStay
<1>7. TypeOK'
    BY <1>1, <1>3 DEF IInv, TypeOK, ServiceInv, ServiceTyped
<1>8. WithdrawalsSound'
    BY <1>1, <1>4 DEF IInv, WithdrawalsSound
<1> QED
    BY <1>5, <1>6, <1>7, <1>8 DEF IInv

\* A step that changes nothing.
LEMMA StutterIInv == IInv /\ UNCHANGED vars => IInv'
<1> SUFFICES ASSUME IInv, UNCHANGED vars PROVE IInv'
    OBVIOUS
<1>1. UNCHANGED <<store, task, used, withdrawals, posted, rejected, ledger>>
    BY DEF vars, hostVars, serverVars
<1>2. /\ WireSound' /\ StoreSound' /\ WithdrawalsSound'
      /\ ServiceTyped' /\ LedgerGrows /\ Pending' = Pending
    BY <1>1, StoreUntouched
<1>3. TasksSound'
    BY <1>1, <1>2, TasksStay
<1>4. TypeOK'
    BY <1>1 DEF IInv, TypeOK, ServiceTypeOK
<1> QED
    BY <1>2, <1>3, <1>4 DEF IInv

\* One lemma per action of the tabs, the host and the server.
LEMMA NextIInv == IInv /\ [Next]_vars => IInv'
BY ConfirmDepositIInv, PrepareRequestIInv, CompleteResponseIInv,
   PersistPreparedIInv, PersistCompletedIInv, CloseTabIInv, SendIInv,
   ClearRejectedIInv, RequestClearanceIInv, PrepareWithdrawalIInv,
   ForgetNoteIInv, ServerStepIInv, StutterIInv
DEF Next

-----------------------------------------------------------------------------
(* What is proved.                                                         *)

\* The invariant holds in every reachable state.
THEOREM SpecIInv == Spec => []IInv
BY InitIInv, NextIInv, PTL DEF Spec

\* prepare_request and complete_response on snapshots out of date, in any
\* number of tabs, never orphan a state the server has seen spent.
THEOREM SpecSpentStateRecoverable == Spec => []SpentStateRecoverable
<1>1. ASSUME IInv PROVE SpentStateRecoverable
    <2> SUFFICES ASSUME store.state # None,
                        NEW n, n = Nullifier(store.state),
                        ledger[n] # None, ~Cleared(n)
                 PROVE  /\ store.journal # None
                        /\ store.journal.id = ledger[n].id
                        /\ store.journal.nullifier = n
        BY DEF SpentStateRecoverable
    <2>1. PICK J, c : J = Pending /\ c = store.state.commitment
        OBVIOUS
    <2>2. Recoverable(n, J)
        BY <1>1, <2>1 DEF IInv, StoreSound, LastState
    <2>3. PICK r \in J : r.id = ledger[n].id /\ r.nullifier = n
        BY <2>2 DEF Recoverable
    <2>4. store.journal # None /\ r = store.journal.request
        BY <2>1 DEF Pending
    <2>5. JournalOf(store.journal, store.state)
        BY <1>1, <2>4 DEF IInv, StoreSound
    <2> QED
        BY <2>3, <2>4, <2>5 DEF JournalOf
<1> QED
    BY <1>1, SpecIInv, PTL

\* Whatever cap the configuration has by then, complete_response accepts the
\* server's answer to the stored journal.
THEOREM SpecAnswerCompletes == Spec => []AnswerCompletes
<1>1. ASSUME IInv PROVE AnswerCompletes
    <2> SUFFICES ASSUME store.state # None, store.journal # None,
                        NEW response \in Responses, NEW config \in Configs,
                        response.id = store.journal.id,
                        config.deployment = Home
                 PROVE  CanComplete(config, store.state, store.journal,
                                    response)
        BY DEF AnswerCompletes
    <2>1. PICK s, j, J : /\ s = store.state /\ j = store.journal
                         /\ J = Pending
        OBVIOUS
    <2>2. /\ s \in NoteState /\ j \in Journal /\ JournalOf(j, s)
          /\ StoredCommitment(s)
        BY <1>1, <2>1 DEF IInv, TypeOK, StoreSound
    <2>3. PICK n \in Nullifiers, c \in BoundCommitment :
             n = Nullifier(s) /\ c = s.commitment
        BY <2>2, StateTyped
    <2>4. ServiceInv(J) /\ J = {j.request}
        BY <1>1, <2>1 DEF IInv, WireSound, Pending
    <2>5. PICK k \in Nullifiers : Finalized(k) /\ response = ledger[k]
        BY DEF Responses
    <2>6. EntrySound(k) /\ ~Cleared(k) /\ ledger[k].status = "Finalized"
        BY <2>4, <2>5 DEF ServiceInv, LedgerSound, Finalized, Cleared
    <2>7. PICK r \in posted : EntryOf(k, r)
        BY <2>6 DEF EntrySound
    <2>8. r = j.request
        <3>1. j.request.id = j.id /\ r.id = j.id
            BY <2>1, <2>2, <2>5, <2>7 DEF JournalOf, EntryOf
        <3> QED
            BY <2>4, <3>1 DEF ServiceInv, IssuedSound, Issued
    <2>9. /\ k = n
          /\ response.nullifier = n
          /\ response.term = ServerTerm(n)
          /\ response.charge <= j.request.bound
          /\ response.nextCommitment =
                ServerUpdate(j.request.commitment, response.charge,
                             ServerTerm(n))
          /\ response.signature =
                <<response.nextCommitment, response.nextAnchor>>
        BY <2>2, <2>3, <2>5, <2>6, <2>7, <2>8 DEF EntryOf, JournalOf
    <2>10. /\ response.nextAnchor \in Anchors
           /\ response.charge \in Nat
           /\ response.hash = "matches"
        <3>1. ledger[k] \in Entry(BoundCommitment)
            BY <2>4, <2>5, EntryTyped DEF ServiceInv, Finalized
        <3> QED
            BY <2>5, <2>6, <3>1, ServiceAssumption DEF Entry
    <2>11. /\ j.nullifier = n /\ j.rerandomization = UserTerm(j.id)
           /\ j.request.commitment = Rerandomize(c, UserTerm(j.id))
           /\ j.request.bound <= s.balance /\ s.deposit # 0
        BY <2>2, <2>3 DEF JournalOf
    <2>12. AlgebraHolds(s, j, response)
        BY <2>2, <2>3, <2>9, <2>11 DEF AlgebraHolds, StoredCommitment
    <2>13. ValidState(config, s)
        BY <2>2, <2>11 DEF ValidState, NoteState
    <2>14. response.charge <= s.balance
        BY <2>2, <2>9, <2>10, <2>11, StateTyped DEF Journal
    <2>15. response.nextAnchor # None
        BY <2>10, ServiceAssumption
    <2> QED
        BY <2>1, <2>2, <2>9, <2>10, <2>11, <2>12, <2>13, <2>14, <2>15
        DEF CanComplete, ChargeAuthorized
<1> QED
    BY <1>1, SpecIInv, PTL

\* What prepare_withdrawal claims with the server's clearance is what is left,
\* for ever: no charge is added to the note afterwards.
THEOREM SpecClearedWithdrawalFinal == Spec => []ClearedWithdrawalFinal
<1>1. IInv => ClearedWithdrawalFinal
    BY DEF IInv, WithdrawalsSound, ClearedWithdrawalFinal
<1> QED
    BY <1>1, SpecIInv, PTL

\* The host's store never goes back and never skips, whichever tab applied
\* which answer to which snapshot.
THEOREM SpecStoreAdvances == Spec => StoreAdvances
<1> DEFINE Advance ==
        store.state # None /\ store'.state \notin {None, store.state} =>
            LET n == Nullifier(store.state)
            IN  /\ Finalized(n)
                /\ store'.state.commitment = ledger[n].nextCommitment
                /\ store'.state.anchor = ledger[n].nextAnchor
                /\ StoredCommitment(store'.state)
                /\ store'.state.balance =
                      store.state.balance - ledger[n].charge
<1>1. ASSUME IInv, [Next]_vars PROVE [Advance]_vars
    <2> SUFFICES ASSUME store.state # None,
                        store'.state \notin {None, store.state}
                 PROVE  Advance
        OBVIOUS
    <2>1. \E t \in Tabs : PersistCompleted(t)
        <3>1. /\ store' # store
              /\ store'.state # store.state
              /\ store'.state # None
            OBVIOUS
        <3>2. ~UNCHANGED vars
            BY <3>1 DEF vars, hostVars
        <3>3. ASSUME NEW config, NEW note, NEW amount
              PROVE  ~ConfirmDeposit(config, note, amount)
            BY DEF ConfirmDeposit
        <3>4. ASSUME NEW t, NEW config, NEW id
              PROVE  ~PrepareRequest(t, config, id)
            BY <3>1 DEF PrepareRequest
        <3>5. ASSUME NEW t, NEW config, NEW response
              PROVE  ~CompleteResponse(t, config, response)
            BY <3>1 DEF CompleteResponse
        <3>6. ASSUME NEW t PROVE ~PersistPrepared(t) /\ ~CloseTab(t)
            BY <1>1, <3>1 DEF PersistPrepared, CloseTab, IInv, TypeOK
        <3>7. /\ ~Send /\ ~RequestClearance /\ ~ServerStep
              /\ ~ClearRejected /\ ~ForgetNote
            BY <1>1, <3>1
            DEF Send, RequestClearance, ServerStep, ClearRejected, ForgetNote,
                hostVars, IInv, TypeOK
        <3>8. ASSUME NEW config, NEW mode, NEW clearance
              PROVE  ~PrepareWithdrawal(config, mode, clearance)
            BY <3>1 DEF PrepareWithdrawal
        <3> QED
            BY <1>1, <3>2, <3>3, <3>4, <3>5, <3>6, <3>7, <3>8 DEF Next
    <2>2. PICK t \in Tabs : PersistCompleted(t)
        BY <2>1
    <2>3. PICK s, z : s = store.state /\ z = task[t].state
        OBVIOUS
    <2>4. /\ store' = [state |-> z, journal |-> None]
          /\ SuccessorOf(z, s)
        BY <1>1, <2>2, <2>3, CompletedIs
    <2>5. store'.state = z
        BY <2>4
    <2>6. PICK n : n = Nullifier(s)
        OBVIOUS
    <2>7. /\ Finalized(n)
          /\ z.commitment = ledger[n].nextCommitment
          /\ z.anchor = ledger[n].nextAnchor
          /\ StoredCommitment(z)
          /\ z.balance = s.balance - ledger[n].charge
        BY <2>4, <2>6 DEF SuccessorOf
    <2> QED
        BY <2>3, <2>5, <2>6, <2>7
<1>2. IInv /\ [Next]_vars => [Advance]_vars
    BY <1>1
<1> QED
    BY <1>2, SpecIInv, PTL DEF Spec, StoreAdvances

=============================================================================

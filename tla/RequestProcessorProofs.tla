----------------------- MODULE RequestProcessorProofs -----------------------
(***************************************************************************)
(* The server for any number of handlers, requests, nullifiers, charges    *)
(* and leaves: handlers interleave and the process dies anywhere, and      *)
(* still no one-time leaf signs twice, a nullifier meets one fate, and     *)
(* what was sent is what the store holds.                                  *)
(***************************************************************************)
EXTENDS RequestProcessor, TLAPS

\* Every charge the server accepts fits the signed 64-bit column it is stored
\* in.  Nothing in the code enforces it; what depends on it says so.
ColumnFits == ChargeCap < ColumnHalf

-----------------------------------------------------------------------------
(* The inductive invariant.                                                *)

\* What steps 1-9 leave certain about a request: the root and the clock may
\* move on, this does not change.
Checked(r) == r \in Requests /\ r.proof = "valid" /\ r.bound >= ChargeCap

\* The request's nullifier is reserved, or already finalized, for a request
\* with the same id and payload; it is not cleared.
Owned(store, r) ==
    /\ store[r.nullifier] # None
    /\ SameRequest(store[r.nullifier], r)
    /\ store[r.nullifier].status \in {"Reserved", "Finalized"}

\* The store backs a message: what a crash leaves behind still says so.
Durable(store, m) ==
    LET record == store[m.nullifier]
    IN  /\ record # None
        /\ m.kind = "response" =>
              /\ record.status = "Finalized"
              /\ record.transcript.request = m.body.request
              /\ ColumnFits => record.transcript = m.body
        /\ m.kind = "challenge" =>
              /\ record.status = "Finalized"
              /\ record.transcript.request = m.body
        /\ m.kind = "clearance" => record.status = "ClearanceReserved"

\* A response answers the request it is for.
Answers(m, r) ==
    /\ m.kind = "response"
    /\ r \in Requests
    /\ m.body.request.clientId = r.clientId
    /\ m.body.request.payloadHash = r.payloadHash

\* What a request handler has established by the time it is at its label.
RequestSound(h) ==
    /\ pc[h] \in RequestLabels
    /\ pc[h] \in RequestLabels \ {"idle", "reply"} => Checked(req[h])
    /\ pc[h] \in {"execute", "sign", "build", "finalize"} => Owned(nullifiers, req[h])
    /\ pc[h] \in {"sign", "build", "finalize"} =>
          charge[h] \in Charges /\ charge[h] <= ChargeCap
    /\ pc[h] \in {"build", "finalize"} => leaf[h] \in Leaves
    /\ pc[h] = "finalize" =>
          <<"State", leaf[h], StateMessage(h)>> \in signatures
    /\ answer[h] \in Message =>
          /\ pc[h] = "reply"
          /\ Durable(nullifiers, answer[h])
          /\ Answers(answer[h], req[h])

\* The same for a clearance handler.
ClearanceSound(h) ==
    /\ pc[h] \in ClearanceLabels
    /\ pc[h] \in ClearanceLabels \ {"idle", "reply"} =>
          clearing[h] \in Nullifiers
    /\ pc[h] \in {"buildClear", "reserveClear"} => leaf[h] \in Leaves
    /\ answer[h] \in Message =>
          /\ pc[h] = "reply"
          /\ Durable(nullifiers, answer[h])

\* A finalized transcript is of a checked request for this nullifier, the one
\* that reserved it, and its successor was signed for a charge within the cap.
RecordSound(store, signed, n) ==
    store[n] # None /\ store[n].status = "Finalized" =>
        LET t == store[n].transcript
        IN  /\ t \in NextState
            /\ Checked(t.request)
            /\ t.request.nullifier = n
            /\ SameRequest(store[n], t.request)
            /\ \E u \in NextState :
                  /\ <<"State", u.leaf, u>> \in signed
                  /\ u.request = t.request
                  /\ u.charge <= ChargeCap
                  /\ ColumnFits => u = t

\* The handler inside the signer's lock holds a leaf that is counted and has
\* not signed.
Holds(h, tree) ==
    /\ operationLock = h
    /\ leaf[h] \in Leaves
    /\ leaf[h] < nextLeaf[tree]
    /\ \A s \in signatures : s[1] = tree => s[2] # leaf[h]

LeafInv ==
    /\ LeafSignsOnce
    /\ \A s \in signatures : s[2] < nextLeaf[s[1]]
    /\ \A h \in Handlers :
          /\ pc[h] = "build" => Holds(h, "State")
          /\ pc[h] = "buildClear" => Holds(h, "Clear")

StoreInv ==
    /\ \A n \in Nullifiers : RecordSound(nullifiers, signatures, n)
    /\ \A m \in sent : Durable(nullifiers, m)

IInv ==
    /\ TypeOK
    /\ LeafInv
    /\ StoreInv
    /\ \A h \in RequestHandlers : RequestSound(h)
    /\ \A h \in ClearanceHandlers : ClearanceSound(h)

-----------------------------------------------------------------------------
(* Data.                                                                   *)

\* The cap is a natural number.
LEMMA ChargeCapNat == ChargeCap \in Nat
BY ConfigAssumption DEF ChargeCap

\* A charge that fits the column comes back as it was stored.
LEMMA StoredChargeExact ==
    ASSUME NEW c \in Nat, c <= ChargeCap, ColumnFits
    PROVE  StoredCharge(c) = c
<1>1. /\ ChargeCap \in Nat
      /\ ColumnHalf \in Nat \ {0}
      /\ c < ColumnHalf
    BY ChargeCapNat, ConfigAssumption DEF ColumnFits
<1>2. c % (2 * ColumnHalf) = c
    BY <1>1
<1> QED
    BY <1>1, <1>2 DEF StoredCharge

\* No error means that all of steps 1-9 succeeded.
LEMMA NoErrorChecked ==
    ASSUME NEW r \in Requests, RequestError(r) = None
    PROVE  Checked(r)
BY NoneAssumption, ChargeCapNat, RequestAssumption
DEF RequestError, Checked, ProofVerifies, ErrorCode

\* An error is one of the codes.
LEMMA ErrorIsCode ==
    ASSUME NEW r \in Requests, RequestError(r) # None
    PROVE  RequestError(r) \in ErrorCode
BY DEF RequestError, ErrorCode

\* The empty database satisfies the invariant.
LEMMA InitIInv == Init => IInv
<1> SUFFICES ASSUME Init PROVE IInv
    OBVIOUS
<1> USE DEF Init
<1>1. TypeOK
    BY ConfigAssumption DEF TypeOK, Trees, Handlers, RequestLabels
<1>2. LeafInv
    BY DEF LeafInv, LeafSignsOnce, Handlers
<1>3. StoreInv
    BY DEF StoreInv, RecordSound
<1>4. \A h \in RequestHandlers : RequestSound(h)
    BY NoneAssumption DEF RequestSound, RequestLabels, Handlers
<1>5. \A h \in ClearanceHandlers : ClearanceSound(h)
    BY NoneAssumption DEF ClearanceSound, ClearanceLabels, Handlers
<1> QED
    BY <1>1, <1>2, <1>3, <1>4, <1>5 DEF IInv

-----------------------------------------------------------------------------
(* What a step leaves alone.                                               *)

\* The table only goes forward: a record is inserted where there was none, or
\* a reservation is finalized for whoever made it.
StoreGrows ==
    \A n \in Nullifiers :
        \/ nullifiers'[n] = nullifiers[n]
        \/ nullifiers[n] = None /\ nullifiers'[n].status # "Finalized"
        \/ /\ Finalizable(n)
           /\ nullifiers'[n] # None
           /\ nullifiers'[n].status = "Finalized"
           /\ nullifiers'[n].clientId = nullifiers[n].clientId
           /\ nullifiers'[n].payloadHash = nullifiers[n].payloadHash

\* The locals of all handlers but h.
Others(h) ==
    /\ \A g \in Handlers \ {h} :
          pc'[g] = pc[g] /\ leaf'[g] = leaf[g] /\ answer'[g] = answer[g]
    /\ \A g \in RequestHandlers \ {h} :
          req'[g] = req[g] /\ charge'[g] = charge[g]
    /\ \A g \in ClearanceHandlers \ {h} : clearing'[g] = clearing[g]

\* A message names a nullifier.
LEMMA MessageNullifier ==
    ASSUME NEW m \in Message PROVE m.nullifier \in Nullifiers
BY DEF Message

\* What is durable stays durable.
LEMMA DurableStays ==
    ASSUME StoreGrows, NEW m, m.nullifier \in Nullifiers,
           Durable(nullifiers, m)
    PROVE  Durable(nullifiers', m)
BY DEF StoreGrows, Durable, Finalizable

\* A request keeps its reservation, whoever finalizes it.
LEMMA OwnedStays ==
    ASSUME StoreGrows, NEW r \in Requests, Owned(nullifiers, r)
    PROVE  Owned(nullifiers', r)
BY RequestAssumption DEF StoreGrows, Owned, Finalizable, SameRequest

\* Another handler's step does not invalidate what a request handler knows.
LEMMA OtherRequestSound ==
    ASSUME IInv, StoreGrows, signatures \subseteq signatures',
           NEW h, Others(h), NEW g \in RequestHandlers \ {h}
    PROVE  RequestSound(g)'
<1>1. /\ RequestSound(g)
      /\ pc'[g] = pc[g] /\ leaf'[g] = leaf[g] /\ answer'[g] = answer[g]
      /\ req'[g] = req[g] /\ charge'[g] = charge[g]
    BY DEF IInv, Others, Handlers
<1>2. pc[g] \in {"execute", "sign", "build", "finalize"} =>
         Owned(nullifiers', req[g])
    BY <1>1, OwnedStays DEF RequestSound, RequestLabels, Checked
<1>3. answer[g] \in Message => Durable(nullifiers', answer[g])
    BY <1>1, DurableStays, MessageNullifier DEF RequestSound
<1>4. StateMessage(g)' = StateMessage(g)
    BY <1>1 DEF StateMessage
<1> QED
    BY <1>1, <1>2, <1>3, <1>4 DEF RequestSound

\* Nor what a clearance handler knows.
LEMMA OtherClearanceSound ==
    ASSUME IInv, StoreGrows, NEW h, Others(h),
           NEW g \in ClearanceHandlers \ {h}
    PROVE  ClearanceSound(g)'
<1>1. /\ ClearanceSound(g)
      /\ pc'[g] = pc[g] /\ leaf'[g] = leaf[g] /\ answer'[g] = answer[g]
      /\ clearing'[g] = clearing[g]
    BY DEF IInv, Others, Handlers
<1>2. answer[g] \in Message => Durable(nullifiers', answer[g])
    BY <1>1, DurableStays, MessageNullifier DEF ClearanceSound
<1> QED
    BY <1>1, <1>2 DEF ClearanceSound

\* A step of a request handler: the rest of the invariant concerns itself.
LEMMA RequestHandlerStep ==
    ASSUME IInv, NEW h \in RequestHandlers, Others(h), StoreGrows,
           signatures \subseteq signatures',
           TypeOK', LeafInv', StoreInv', RequestSound(h)'
    PROVE  IInv'
<1>1. \A g \in RequestHandlers : RequestSound(g)'
    BY OtherRequestSound
<1>2. \A g \in ClearanceHandlers : ClearanceSound(g)'
    BY OtherClearanceSound, ConfigAssumption
<1> QED
    BY <1>1, <1>2 DEF IInv

\* And of a clearance handler.
LEMMA ClearanceHandlerStep ==
    ASSUME IInv, NEW h \in ClearanceHandlers, Others(h), StoreGrows,
           signatures \subseteq signatures',
           TypeOK', LeafInv', StoreInv', ClearanceSound(h)'
    PROVE  IInv'
<1>1. \A g \in RequestHandlers : RequestSound(g)'
    BY OtherRequestSound, ConfigAssumption
<1>2. \A g \in ClearanceHandlers : ClearanceSound(g)'
    BY OtherClearanceSound
<1> QED
    BY <1>1, <1>2 DEF IInv

\* A step that neither touches the signer nor brings a handler inside.
LEMMA SignerUntouched ==
    ASSUME LeafInv, UNCHANGED <<nextLeaf, operationLock, signatures>>,
           \A g \in Handlers : pc'[g] \in {"build", "buildClear"} =>
                pc'[g] = pc[g] /\ leaf'[g] = leaf[g]
    PROVE  LeafInv'
BY DEF LeafInv, LeafSignsOnce, Holds

\* A step that leaves the table alone and sends nothing.
LEMMA StoreUntouched ==
    ASSUME StoreInv, UNCHANGED <<nullifiers, sent>>,
           signatures \subseteq signatures'
    PROVE  StoreInv' /\ StoreGrows
BY DEF StoreInv, RecordSound, StoreGrows

-----------------------------------------------------------------------------
(* The steps of process_request.                                           *)

\* Steps 1-9 leave a checked request, or an error.
LEMMA ReceiveRequestInv ==
    ASSUME IInv, NEW h \in RequestHandlers, NEW r \in Requests,
           ReceiveRequest(h, r)
    PROVE  IInv'
<1> USE DEF ReceiveRequest, durableVars, historyVars, Goto, Return
<1>1. TypeOK /\ LeafInv /\ StoreInv /\ RequestSound(h)
    BY DEF IInv
<1>2. RequestError(r) # None => Error(RequestError(r)) \in ErrorResponse
    BY ErrorIsCode DEF Error, ErrorResponse
<1>3. TypeOK'
    BY <1>1, <1>2 DEF TypeOK, Handlers, RequestLabels
<1>4. Others(h)
    BY <1>1 DEF Others, TypeOK, Handlers
<1>5. LeafInv'
    BY <1>1, SignerUntouched DEF TypeOK, Handlers
<1>6. StoreInv' /\ StoreGrows
    BY <1>1, StoreUntouched
<1>7. \A code : Error(code) \notin Message
    BY DEF Error, Message
<1>8. RequestSound(h)'
    BY <1>1, <1>7, NoErrorChecked
       DEF TypeOK, RequestSound, RequestLabels, Handlers
<1> QED
    BY <1>3, <1>4, <1>5, <1>6, <1>8, RequestHandlerStep

\* The lookup answers from a finalized record, joins a reservation for the
\* same request, or refuses.
LEMMA LookupNullifierInv ==
    ASSUME IInv, NEW h \in RequestHandlers, LookupNullifier(h)
    PROVE  IInv'
<1> USE DEF LookupNullifier, durableVars, historyVars, Goto, Return
<1> DEFINE r == req[h]
           existing == nullifiers[r.nullifier]
<1>1. TypeOK /\ LeafInv /\ StoreInv /\ RequestSound(h)
    BY DEF IInv
<1>2. /\ Checked(r) /\ r \in Requests /\ r.nullifier \in Nullifiers
      /\ answer[h] \notin Message
    BY <1>1, RequestAssumption DEF RequestSound, RequestLabels, Checked
<1>3. ASSUME existing # None, SameRequest(existing, r),
             existing.status = "Finalized"
      PROVE  LET m == Response(r.nullifier, existing.transcript)
             IN  m \in Message /\ Durable(nullifiers, m) /\ Answers(m, r)
    <2>1. RecordSound(nullifiers, signatures, r.nullifier)
        BY <1>1, <1>2 DEF StoreInv
    <2>2. /\ existing.transcript \in NextState
          /\ SameRequest(existing, existing.transcript.request)
        BY <1>3, <2>1 DEF RecordSound
    <2> QED
        BY <1>2, <1>3, <2>2
           DEF Response, Message, Durable, Answers, SameRequest
<1>4. Error("Replay") \in ErrorResponse /\ Error("Replay") \notin Message
    BY DEF Error, ErrorResponse, ErrorCode, Message
<1>5. TypeOK'
    BY <1>1, <1>3, <1>4 DEF TypeOK, Handlers, RequestLabels
<1>6. Others(h)
    BY <1>1 DEF Others, TypeOK, Handlers
<1>7. LeafInv'
    BY <1>1, SignerUntouched DEF TypeOK, Handlers
<1>8. StoreInv' /\ StoreGrows
    BY <1>1, StoreUntouched
<1>9. RequestSound(h)'
    BY <1>1, <1>2, <1>3, <1>4
       DEF TypeOK, RequestSound, RequestLabels, Handlers, Owned
<1> QED
    BY <1>5, <1>6, <1>7, <1>8, <1>9, RequestHandlerStep

\* A record is inserted only where there is none: everything that was durable
\* stays, and the table goes forward.
LEMMA InsertGrows ==
    ASSUME TypeOK, StoreInv, UNCHANGED <<signatures, sent>>,
           NEW n \in Nullifiers, NEW record \in Record,
           record.status # "Finalized", Insert(n, record)
    PROVE  /\ StoreGrows
           /\ StoreInv'
           /\ nullifiers' \in [Nullifiers -> Record \cup {None}]
           /\ nullifiers'[n] = record
<1>1. /\ nullifiers[n] = None
      /\ nullifiers' = [nullifiers EXCEPT ![n] = record]
    BY DEF Insert
<1>2. StoreGrows
    BY <1>1 DEF StoreGrows, TypeOK
<1>3. \A m \in sent : Durable(nullifiers', m)
    BY <1>2, DurableStays, MessageNullifier DEF StoreInv, TypeOK
<1>4. \A k \in Nullifiers : RecordSound(nullifiers', signatures, k)
    BY <1>1 DEF StoreInv, RecordSound, TypeOK
<1> QED
    BY <1>1, <1>2, <1>3, <1>4 DEF StoreInv, TypeOK

\* The reservation succeeds for one of the handlers that found no record.
LEMMA ReserveNullifierInv ==
    ASSUME IInv, NEW h \in RequestHandlers, ReserveNullifier(h)
    PROVE  IInv'
<1> USE DEF ReserveNullifier, historyVars, Goto, Return
<1> DEFINE r == req[h]
<1>1. TypeOK /\ LeafInv /\ StoreInv /\ RequestSound(h)
    BY DEF IInv
<1>2. /\ Checked(r) /\ r \in Requests /\ r.nullifier \in Nullifiers
      /\ answer[h] \notin Message
    BY <1>1, RequestAssumption DEF RequestSound, RequestLabels, Checked
<1>3. /\ ReservedRecord(r) \in Record
      /\ ReservedRecord(r).status = "Reserved"
      /\ SameRequest(ReservedRecord(r), r)
    BY <1>2, RequestAssumption DEF ReservedRecord, Record, SameRequest
<1>4. Error("Replay") \in ErrorResponse /\ Error("Replay") \notin Message
    BY DEF Error, ErrorResponse, ErrorCode, Message
<1>5. Others(h)
    BY <1>1 DEF Others, TypeOK, Handlers
<1>6. LeafInv'
    BY <1>1, SignerUntouched DEF TypeOK, Handlers
<1>7. CASE Insert(r.nullifier, ReservedRecord(r)) /\ Goto(h, "execute") /\ UNCHANGED answer
    <2>1. /\ StoreGrows /\ StoreInv'
          /\ nullifiers' \in [Nullifiers -> Record \cup {None}]
          /\ nullifiers'[r.nullifier] = ReservedRecord(r)
        BY <1>1, <1>2, <1>3, <1>7, InsertGrows
    <2>2. TypeOK'
        BY <1>1, <1>7, <2>1 DEF TypeOK, Handlers, RequestLabels
    <2>3. Owned(nullifiers', r)
        BY <1>3, <2>1, NoneAssumption DEF Owned
    <2>4. RequestSound(h)'
        BY <1>1, <1>2, <1>7, <2>3
           DEF TypeOK, RequestSound, RequestLabels, Handlers
    <2> QED
        BY <1>5, <1>6, <2>1, <2>2, <2>4, RequestHandlerStep
<1>8. CASE Return(h, Error("Replay")) /\ UNCHANGED nullifiers
    <2>1. TypeOK'
        BY <1>1, <1>4, <1>8 DEF TypeOK, Handlers, RequestLabels
    <2>2. StoreInv' /\ StoreGrows
        BY <1>1, <1>8, StoreUntouched
    <2>3. RequestSound(h)'
        BY <1>1, <1>4, <1>8 DEF TypeOK, RequestSound, RequestLabels, Handlers
    <2> QED
        BY <1>5, <1>6, <2>1, <2>2, <2>3, RequestHandlerStep
<1> QED
    BY <1>7, <1>8

\* The provider fails, or its charge is held to the cap.
LEMMA ExecuteProviderInv ==
    ASSUME IInv, NEW h \in RequestHandlers, ExecuteProvider(h)
    PROVE  IInv'
<1> USE DEF ExecuteProvider, durableVars, historyVars, Goto, Return
<1>1. TypeOK /\ LeafInv /\ StoreInv /\ RequestSound(h)
    BY DEF IInv
<1>2. /\ Checked(req[h]) /\ Owned(nullifiers, req[h])
      /\ answer[h] \notin Message
    BY <1>1 DEF RequestSound, RequestLabels
<1>3. /\ Error("Provider") \in ErrorResponse /\ Error("Provider") \notin Message
      /\ Error("Internal") \in ErrorResponse /\ Error("Internal") \notin Message
    BY DEF Error, ErrorResponse, ErrorCode, Message
<1>4. TypeOK'
    BY <1>1, <1>3 DEF TypeOK, Handlers, RequestLabels
<1>5. Others(h)
    BY <1>1 DEF Others, TypeOK, Handlers
<1>6. LeafInv'
    BY <1>1, SignerUntouched DEF TypeOK, Handlers
<1>7. StoreInv' /\ StoreGrows
    BY <1>1, StoreUntouched
<1>8. RequestSound(h)'
    BY <1>1, <1>2, <1>3
       DEF TypeOK, RequestSound, RequestLabels, Handlers, WithinCap
<1> QED
    BY <1>4, <1>5, <1>6, <1>7, <1>8, RequestHandlerStep

-----------------------------------------------------------------------------
(* The signer.                                                             *)

\* With the lock free nobody is inside the signer.
LEMMA NobodyInside ==
    ASSUME LeafInv, operationLock = None, NEW g \in Handlers
    PROVE  pc[g] # "build" /\ pc[g] # "buildClear"
BY NoneAssumption DEF LeafInv, Holds, Handlers

\* The leaf handed out is the counter, which no signature has reached; the
\* counter is past it before the handler goes on.
LEMMA ReserveLeafInv ==
    ASSUME TypeOK, LeafInv, NEW h \in Handlers,
           NEW tree, NEW after,
           \/ tree = "State" /\ after = "build"
           \/ tree = "Clear" /\ after = "buildClear",
           ReserveLeaf(h, tree, after), UNCHANGED signatures
    PROVE  /\ LeafInv'
           /\ nextLeaf' \in [Trees -> 0 .. Capacity]
           /\ leaf' \in [Handlers -> Leaves \cup {None}]
           /\ operationLock' \in Handlers \cup {None}
           /\ pc'[h] = after => leaf'[h] \in Leaves
<1>1. /\ tree \in Trees
      /\ nextLeaf[tree] \in 0 .. Capacity
      /\ operationLock = None
      /\ Capacity \in Nat
    BY ConfigAssumption DEF Trees, TypeOK, ReserveLeaf
<1>2. CASE /\ LeafLeft(tree)
           /\ nextLeaf' = [nextLeaf EXCEPT ![tree] = @ + 1]
           /\ leaf' = [leaf EXCEPT ![h] = nextLeaf[tree]]
           /\ operationLock' = h
           /\ Goto(h, after)
    <2>1. /\ nextLeaf[tree] \in Leaves
          /\ nextLeaf[tree] + 1 \in 0 .. Capacity
        BY <1>1, <1>2 DEF LeafLeft, Leaves
    <2>2. /\ leaf'[h] = nextLeaf[tree]
          /\ nextLeaf'[tree] = nextLeaf[tree] + 1
          /\ \A t \in Trees \ {tree} : nextLeaf'[t] = nextLeaf[t]
        BY <1>1, <1>2 DEF TypeOK
    <2>3. \A s \in signatures :
             /\ s[1] \in Trees /\ s[2] \in Nat
             /\ s[2] < nextLeaf[s[1]]
             /\ nextLeaf[s[1]] \in Nat
        BY <1>1 DEF LeafInv, TypeOK, Leaves
    <2>4. \A s \in signatures : s[2] < nextLeaf'[s[1]]
        BY <1>1, <2>2, <2>3
    <2>5. \A s \in signatures : s[1] = tree => s[2] # nextLeaf[tree]
        BY <2>3
    <2>6. Holds(h, tree)'
        BY <1>1, <1>2, <2>1, <2>2, <2>5 DEF Holds
    <2>7. \A g \in Handlers : pc'[g] \in {"build", "buildClear"} =>
             g = h /\ pc'[g] = after
        BY <1>1, <1>2, NobodyInside DEF Goto, TypeOK
    <2>8. LeafInv'
        BY <2>4, <2>6, <2>7 DEF LeafInv, LeafSignsOnce
    <2> QED
        BY <1>2, <2>1, <2>2, <2>8 DEF TypeOK
<1>3. CASE /\ Return(h, Error("CapacityExhausted"))
           /\ UNCHANGED <<nextLeaf, leaf, operationLock>>
    <2>1. \A g \in Handlers : pc'[g] \in {"build", "buildClear"} =>
             pc'[g] = pc[g]
        BY <1>3 DEF Return, TypeOK
    <2>2. LeafInv'
        BY <1>3, <2>1, SignerUntouched
    <2>3. pc'[h] # after
        BY <1>3 DEF Return, TypeOK
    <2> QED
        BY <1>3, <2>2, <2>3 DEF TypeOK
<1> QED
    BY <1>2, <1>3 DEF ReserveLeaf

\* A request handler enters the signer, or is told that the tree is used up.
LEMMA ReserveStateLeafInv ==
    ASSUME IInv, NEW h \in RequestHandlers, ReserveStateLeaf(h)
    PROVE  IInv'
<1> USE DEF ReserveStateLeaf, historyVars
<1>1. TypeOK /\ LeafInv /\ StoreInv /\ RequestSound(h) /\ h \in Handlers
    BY DEF IInv, Handlers
<1>2. /\ Checked(req[h]) /\ Owned(nullifiers, req[h])
      /\ charge[h] \in Charges /\ charge[h] <= ChargeCap
      /\ answer[h] \notin Message
    BY <1>1 DEF RequestSound, RequestLabels
<1>3. LET e == Error("CapacityExhausted")
      IN  e \in ErrorResponse /\ e \notin Message
    BY DEF Error, ErrorResponse, ErrorCode, Message
<1>4. /\ LeafInv'
      /\ nextLeaf' \in [Trees -> 0 .. Capacity]
      /\ leaf' \in [Handlers -> Leaves \cup {None}]
      /\ operationLock' \in Handlers \cup {None}
      /\ pc'[h] = "build" => leaf'[h] \in Leaves
    BY <1>1, ReserveLeafInv
<1>5. \/ /\ pc' = [pc EXCEPT ![h] = "build"]
         /\ answer' = answer
         /\ leaf' = [leaf EXCEPT ![h] = nextLeaf["State"]]
      \/ /\ pc' = [pc EXCEPT ![h] = "reply"]
         /\ answer' = [answer EXCEPT ![h] = Error("CapacityExhausted")]
         /\ leaf' = leaf
    BY DEF ReserveLeaf, Goto, Return
<1>6. TypeOK'
    BY <1>1, <1>3, <1>4, <1>5 DEF TypeOK, RequestLabels
<1>7. Others(h)
    BY <1>1, <1>5 DEF Others, TypeOK
<1>8. StoreInv' /\ StoreGrows
    BY <1>1, StoreUntouched
<1>9. RequestSound(h)'
    BY <1>1, <1>2, <1>3, <1>4, <1>5 DEF TypeOK, RequestSound, RequestLabels
<1> QED
    BY <1>4, <1>6, <1>7, <1>8, <1>9, RequestHandlerStep

\* The leaf in hand signs, once, and the lock is released.
LEMMA SignReservedInv ==
    ASSUME TypeOK, LeafInv, NEW h \in Handlers, NEW tree \in Trees,
           NEW message, NEW after, after \notin {"build", "buildClear"},
           SignReserved(h, tree, message, after),
           Holds(h, tree), UNCHANGED <<nextLeaf, leaf>>
    PROVE  LeafInv'
<1> DEFINE new == <<tree, leaf[h], message>>
<1>1. /\ signatures' = signatures \cup {new}
      /\ pc' = [pc EXCEPT ![h] = after]
    BY DEF SignReserved, Goto
<1>2. /\ new[1] = tree /\ new[2] = leaf[h]
      /\ leaf[h] < nextLeaf[tree]
      /\ \A s \in signatures : s[1] = tree => s[2] # leaf[h]
    BY DEF Holds
<1>3. LeafSignsOnce'
    BY <1>1, <1>2 DEF LeafInv, LeafSignsOnce
<1>4. \A s \in signatures' : s[2] < nextLeaf'[s[1]]
    BY <1>1, <1>2 DEF LeafInv
<1>5. \A g \in Handlers : pc'[g] # "build" /\ pc'[g] # "buildClear"
    BY <1>1 DEF LeafInv, Holds, TypeOK
<1> QED
    BY <1>3, <1>4, <1>5 DEF LeafInv

\* The successor state is signed with it.
LEMMA SignNextStateInv ==
    ASSUME IInv, NEW h \in RequestHandlers, SignNextState(h)
    PROVE  IInv'
<1> USE DEF SignNextState, SignReserved, durableVars, Goto
<1>1. TypeOK /\ LeafInv /\ StoreInv /\ RequestSound(h) /\ h \in Handlers
    BY DEF IInv, Handlers
<1>2. /\ Checked(req[h]) /\ Owned(nullifiers, req[h])
      /\ charge[h] \in Charges /\ charge[h] <= ChargeCap
      /\ answer[h] \notin Message
      /\ leaf[h] \in Leaves
    BY <1>1 DEF RequestSound, RequestLabels
<1>3. StateMessage(h) \in NextState
    BY <1>2 DEF StateMessage, NextState, Amounts, Checked
<1>4. signatures' \subseteq Trees \X Leaves \X (NextState \cup Nullifiers)
    BY <1>1, <1>2, <1>3 DEF TypeOK, Trees
<1>5. TypeOK'
    BY <1>1, <1>4 DEF TypeOK, RequestLabels
<1>6. Others(h)
    BY <1>1 DEF Others, TypeOK
<1>7. LeafInv'
    <2>1. Holds(h, "State") /\ "State" \in Trees
        BY <1>1 DEF LeafInv, Trees
    <2> QED
        BY <1>1, <2>1, SignReservedInv
<1>8. StoreInv' /\ StoreGrows
    BY <1>1, StoreUntouched
<1>9. RequestSound(h)'
    <2>1. StateMessage(h)' = StateMessage(h)
        BY DEF StateMessage
    <2> QED
        BY <1>1, <1>2, <2>1 DEF TypeOK, RequestSound, RequestLabels
<1> QED
    BY <1>5, <1>6, <1>7, <1>8, <1>9, RequestHandlerStep

\* The UPDATE moves one reserved row on and keeps its owner.
LEMMA FinalizeGrows ==
    ASSUME TypeOK, NEW n \in Nullifiers, NEW t \in NextState, Finalizable(n),
           nullifiers' = [nullifiers EXCEPT ![n].status = "Finalized",
                                            ![n].transcript = t]
    PROVE  /\ nullifiers' \in [Nullifiers -> Record \cup {None}]
           /\ \A k \in Nullifiers \ {n} : nullifiers'[k] = nullifiers[k]
           /\ nullifiers'[n] # None
           /\ nullifiers'[n].status = "Finalized"
           /\ nullifiers'[n].transcript = t
           /\ nullifiers'[n].clientId = nullifiers[n].clientId
           /\ nullifiers'[n].payloadHash = nullifiers[n].payloadHash
           /\ StoreGrows
<1> DEFINE old == nullifiers[n]
           mid == [old EXCEPT !.status = "Finalized"]
           new == [mid EXCEPT !.transcript = t]
<1>1. old \in Record
    BY DEF TypeOK, Finalizable
<1>2. /\ new \in Record
      /\ new.status = "Finalized"
      /\ new.transcript = t
      /\ new.clientId = old.clientId
      /\ new.payloadHash = old.payloadHash
    BY <1>1 DEF Record
<1>3. nullifiers' = [nullifiers EXCEPT ![n] = new]
    BY DEF TypeOK
<1> HIDE DEF new
<1>4. nullifiers'[n] = new
    BY <1>3 DEF TypeOK
<1>5. \A k \in Nullifiers \ {n} : nullifiers'[k] = nullifiers[k]
    BY <1>3 DEF TypeOK
<1>6. new # None
    BY <1>2, NoneAssumption
<1>7. nullifiers' \in [Nullifiers -> Record \cup {None}]
    BY <1>2, <1>3 DEF TypeOK
<1>8. StoreGrows
    BY <1>2, <1>4, <1>5, <1>6 DEF StoreGrows
<1> QED
    BY <1>2, <1>4, <1>5, <1>6, <1>7, <1>8

\* The conditional UPDATE finalizes a reservation of the same request, with a
\* signed successor; the loser of a race gets an error.
LEMMA FinalizeTranscriptInv ==
    ASSUME IInv, NEW h \in RequestHandlers, FinalizeTranscript(h)
    PROVE  IInv'
<1> USE DEF FinalizeTranscript, historyVars
<1> DEFINE r == req[h]
           n == r.nullifier
           old == nullifiers[n]
           u == StateMessage(h)
           t == StoredTranscript(h)
<1>1. TypeOK /\ LeafInv /\ StoreInv /\ RequestSound(h) /\ h \in Handlers
    BY DEF IInv, Handlers
<1>2. /\ Checked(r) /\ Owned(nullifiers, r)
      /\ charge[h] \in Charges /\ charge[h] <= ChargeCap
      /\ leaf[h] \in Leaves
      /\ <<"State", leaf[h], u>> \in signatures
      /\ r \in Requests /\ n \in Nullifiers
    BY <1>1, RequestAssumption DEF RequestSound, RequestLabels, Checked
<1>3. /\ u \in NextState /\ u.request = r /\ u.leaf = leaf[h]
      /\ u.charge = charge[h]
    BY <1>2 DEF StateMessage, NextState, Amounts
<1>4. /\ t \in NextState /\ t.request = r /\ t.leaf = leaf[h]
      /\ ColumnFits => t = u
    <2>1. /\ t = [request |-> r, charge |-> StoredCharge(charge[h]),
                  leaf |-> leaf[h]]
          /\ StoredCharge(charge[h]) \in Amounts
        BY <1>2 DEF StoredTranscript, StateMessage, Amounts
    <2>2. ColumnFits => StoredCharge(charge[h]) = charge[h]
        BY <1>2, StoredChargeExact, ConfigAssumption
    <2> QED
        BY <1>2, <2>1, <2>2 DEF NextState, StateMessage
<1>5. LET e == Error("Internal")
      IN  e \in ErrorResponse /\ e \notin Message
    BY DEF Error, ErrorResponse, ErrorCode, Message
<1>6. Others(h)
    BY <1>1 DEF Others, TypeOK, Return
<1>7. LeafInv'
    BY <1>1, SignerUntouched DEF TypeOK, Return
<1>8. CASE /\ Finalizable(n)
           /\ nullifiers' = [nullifiers EXCEPT ![n].status = "Finalized",
                                               ![n].transcript = t]
           /\ Return(h, Response(n, u))
    <2> HIDE DEF t, u
    <2>1. SameRequest(old, r)
        BY <1>2 DEF Owned
    <2>2. /\ nullifiers' \in [Nullifiers -> Record \cup {None}]
          /\ \A k \in Nullifiers \ {n} : nullifiers'[k] = nullifiers[k]
          /\ nullifiers'[n] # None
          /\ nullifiers'[n].status = "Finalized"
          /\ nullifiers'[n].transcript = t
          /\ nullifiers'[n].clientId = old.clientId
          /\ nullifiers'[n].payloadHash = old.payloadHash
          /\ StoreGrows
        <3> HIDE DEF n
        <3> QED
            BY <1>1, <1>2, <1>4, <1>8, FinalizeGrows
    <2>3. UNCHANGED <<signatures, sent>>
        OBVIOUS
    <2>4. \A m \in sent : Durable(nullifiers', m)
        BY <1>1, <2>2, DurableStays, MessageNullifier DEF StoreInv, TypeOK
    <2>5. SameRequest(nullifiers'[n], r)
        BY <2>1, <2>2 DEF SameRequest
    <2>6. RecordSound(nullifiers', signatures, n)
        BY <1>2, <1>3, <1>4, <2>2, <2>5 DEF RecordSound
    <2>7. StoreInv'
        <3>1. ASSUME NEW k \in Nullifiers, k # n
              PROVE  RecordSound(nullifiers', signatures, k)
            <4>1. nullifiers'[k] = nullifiers[k]
                BY <2>2, <3>1
            <4>2. RecordSound(nullifiers, signatures, k)
                BY <1>1 DEF StoreInv
            <4> HIDE DEF FinalizeTranscript
            <4> QED
                BY <4>1, <4>2 DEF RecordSound
        <3> QED
            BY <2>3, <2>4, <2>6, <3>1 DEF StoreInv
    <2>8. LET m == Response(n, u)
          IN  m \in Message /\ Durable(nullifiers', m) /\ Answers(m, r)
        BY <1>2, <1>3, <1>4, <2>2 DEF Response, Message, Durable, Answers
    <2>9. TypeOK'
        BY <1>1, <1>8, <2>2, <2>8 DEF TypeOK, Return, RequestLabels
    <2>10. RequestSound(h)'
        BY <1>1, <1>8, <2>8 DEF TypeOK, Return, RequestSound, RequestLabels
    <2> QED
        BY <1>6, <1>7, <2>2, <2>7, <2>9, <2>10, RequestHandlerStep
<1>9. CASE Return(h, Error("Internal")) /\ UNCHANGED nullifiers
    <2>1. TypeOK'
        BY <1>1, <1>5, <1>9 DEF TypeOK, Return, RequestLabels
    <2>2. StoreInv' /\ StoreGrows
        BY <1>1, <1>9, StoreUntouched
    <2>3. RequestSound(h)'
        BY <1>1, <1>5, <1>9 DEF TypeOK, Return, RequestSound, RequestLabels
    <2> QED
        BY <1>6, <1>7, <2>1, <2>2, <2>3, RequestHandlerStep
<1> QED
    BY <1>8, <1>9

-----------------------------------------------------------------------------
(* The steps of process_clearance.                                         *)

\* A clearance request arrives: nothing durable changes.
LEMMA ReceiveClearanceInv ==
    ASSUME IInv, NEW h \in ClearanceHandlers, NEW n \in Nullifiers,
           ReceiveClearance(h, n)
    PROVE  IInv'
<1> USE DEF ReceiveClearance, durableVars, historyVars, Goto, Return
<1>1. TypeOK /\ LeafInv /\ StoreInv /\ ClearanceSound(h) /\ h \in Handlers
    BY DEF IInv, Handlers
<1>2. LET e == Error("NullifierUsed")
      IN  e \in ErrorResponse /\ e \notin Message
    BY DEF Error, ErrorResponse, ErrorCode, Message
<1>3. TypeOK'
    BY <1>1, <1>2 DEF TypeOK, ClearanceLabels
<1>4. Others(h)
    BY <1>1 DEF Others, TypeOK
<1>5. LeafInv'
    BY <1>1, SignerUntouched DEF TypeOK
<1>6. StoreInv' /\ StoreGrows
    BY <1>1, StoreUntouched
<1>7. ClearanceSound(h)'
    BY <1>1, <1>2 DEF TypeOK, ClearanceSound, ClearanceLabels
<1> QED
    BY <1>3, <1>4, <1>5, <1>6, <1>7, ClearanceHandlerStep

\* The clearance handler reserves a leaf of the clearance tree, durably.
LEMMA ReserveClearLeafInv ==
    ASSUME IInv, NEW h \in ClearanceHandlers, ReserveClearLeaf(h)
    PROVE  IInv'
<1> USE DEF ReserveClearLeaf, historyVars
<1>1. TypeOK /\ LeafInv /\ StoreInv /\ ClearanceSound(h) /\ h \in Handlers
    BY DEF IInv, Handlers
<1>2. clearing[h] \in Nullifiers /\ answer[h] \notin Message
    BY <1>1 DEF ClearanceSound, ClearanceLabels
<1>3. LET e == Error("CapacityExhausted")
      IN  e \in ErrorResponse /\ e \notin Message
    BY DEF Error, ErrorResponse, ErrorCode, Message
<1>4. /\ LeafInv'
      /\ nextLeaf' \in [Trees -> 0 .. Capacity]
      /\ leaf' \in [Handlers -> Leaves \cup {None}]
      /\ operationLock' \in Handlers \cup {None}
      /\ pc'[h] = "buildClear" => leaf'[h] \in Leaves
    BY <1>1, ReserveLeafInv
<1>5. \/ /\ pc' = [pc EXCEPT ![h] = "buildClear"]
         /\ answer' = answer
         /\ leaf' = [leaf EXCEPT ![h] = nextLeaf["Clear"]]
      \/ /\ pc' = [pc EXCEPT ![h] = "reply"]
         /\ answer' = [answer EXCEPT ![h] = Error("CapacityExhausted")]
         /\ leaf' = leaf
    BY DEF ReserveLeaf, Goto, Return
<1>6. TypeOK'
    BY <1>1, <1>3, <1>4, <1>5 DEF TypeOK, ClearanceLabels
<1>7. Others(h)
    BY <1>1, <1>5 DEF Others, TypeOK
<1>8. StoreInv' /\ StoreGrows
    BY <1>1, StoreUntouched
<1>9. ClearanceSound(h)'
    BY <1>1, <1>2, <1>3, <1>4, <1>5 DEF TypeOK, ClearanceSound, ClearanceLabels
<1> QED
    BY <1>4, <1>6, <1>7, <1>8, <1>9, ClearanceHandlerStep

\* The reserved leaf signs the clearance, and only it.
LEMMA SignClearanceInv ==
    ASSUME IInv, NEW h \in ClearanceHandlers, SignClearance(h)
    PROVE  IInv'
<1> USE DEF SignClearance, SignReserved, durableVars, Goto
<1>1. TypeOK /\ LeafInv /\ StoreInv /\ ClearanceSound(h) /\ h \in Handlers
    BY DEF IInv, Handlers
<1>2. /\ clearing[h] \in Nullifiers /\ leaf[h] \in Leaves
      /\ answer[h] \notin Message
    BY <1>1 DEF ClearanceSound, ClearanceLabels
<1>3. signatures' \subseteq Trees \X Leaves \X (NextState \cup Nullifiers)
    BY <1>1, <1>2 DEF TypeOK, Trees
<1>4. TypeOK'
    BY <1>1, <1>3 DEF TypeOK, ClearanceLabels
<1>5. Others(h)
    BY <1>1 DEF Others, TypeOK
<1>6. LeafInv'
    <2>1. Holds(h, "Clear") /\ "Clear" \in Trees
        BY <1>1 DEF LeafInv, Trees
    <2> QED
        BY <1>1, <2>1, SignReservedInv
<1>7. StoreInv' /\ StoreGrows
    BY <1>1, StoreUntouched
<1>8. ClearanceSound(h)'
    BY <1>1, <1>2 DEF TypeOK, ClearanceSound, ClearanceLabels
<1> QED
    BY <1>4, <1>5, <1>6, <1>7, <1>8, ClearanceHandlerStep

\* The clearance is signed by now, and is given out only if the nullifier is
\* still unused.
LEMMA ReserveClearanceInv ==
    ASSUME IInv, NEW h \in ClearanceHandlers, ReserveClearance(h)
    PROVE  IInv'
<1> USE DEF ReserveClearance, historyVars
<1> DEFINE n == clearing[h]
           m == Clearance(n, leaf[h])
<1>1. TypeOK /\ LeafInv /\ StoreInv /\ ClearanceSound(h) /\ h \in Handlers
    BY DEF IInv, Handlers
<1>2. n \in Nullifiers /\ leaf[h] \in Leaves /\ answer[h] \notin Message
    BY <1>1 DEF ClearanceSound, ClearanceLabels
<1>3. LET e == Error("NullifierUsed")
      IN  e \in ErrorResponse /\ e \notin Message
    BY DEF Error, ErrorResponse, ErrorCode, Message
<1>4. Others(h)
    BY <1>1 DEF Others, TypeOK, Return
<1>5. LeafInv'
    BY <1>1, SignerUntouched DEF TypeOK, Return
<1>6. CASE Insert(n, ClearanceRecord) /\ Return(h, m)
    <2>1. /\ ClearanceRecord \in Record
          /\ ClearanceRecord.status = "ClearanceReserved"
        BY DEF ClearanceRecord, Record
    <2>2. /\ StoreGrows /\ StoreInv'
          /\ nullifiers' \in [Nullifiers -> Record \cup {None}]
          /\ nullifiers'[n] = ClearanceRecord
        BY <1>1, <1>2, <1>6, <2>1, InsertGrows
    <2>3. m \in Message /\ Durable(nullifiers', m)
        BY <1>2, <2>1, <2>2, NoneAssumption DEF Clearance, Message, Durable
    <2>4. TypeOK'
        BY <1>1, <1>6, <2>2, <2>3 DEF TypeOK, Return, ClearanceLabels
    <2>5. ClearanceSound(h)'
        BY <1>1, <1>6, <2>3 DEF TypeOK, Return, ClearanceSound, ClearanceLabels
    <2> QED
        BY <1>4, <1>5, <2>2, <2>4, <2>5, ClearanceHandlerStep
<1>7. CASE Return(h, Error("NullifierUsed")) /\ UNCHANGED nullifiers
    <2>1. TypeOK'
        BY <1>1, <1>3, <1>7 DEF TypeOK, Return, ClearanceLabels
    <2>2. StoreInv' /\ StoreGrows
        BY <1>1, <1>7, StoreUntouched
    <2>3. ClearanceSound(h)'
        BY <1>1, <1>3, <1>7 DEF TypeOK, Return, ClearanceSound, ClearanceLabels
    <2> QED
        BY <1>4, <1>5, <2>1, <2>2, <2>3, ClearanceHandlerStep
<1> QED
    BY <1>6, <1>7

-----------------------------------------------------------------------------
(* Answers, recovery, the watcher and the environment.                     *)

\* What is sent is durable when it is.
LEMMA SendInv ==
    ASSUME StoreInv, UNCHANGED <<nullifiers, signatures>>,
           \A m \in sent' \ sent : Durable(nullifiers, m)
    PROVE  StoreInv' /\ StoreGrows
BY DEF StoreInv, StoreGrows

\* What is common to a reply of either kind of handler.
LEMMA ReplyFrame ==
    ASSUME IInv, NEW h \in Handlers, Reply(h),
           answer[h] \in Message => Durable(nullifiers, answer[h])
    PROVE  /\ TypeOK' /\ LeafInv' /\ StoreInv' /\ StoreGrows /\ Others(h)
           /\ pc'[h] = "idle" /\ answer'[h] = None
<1> USE DEF Reply, durableVars, Goto
<1>1. TypeOK /\ LeafInv /\ StoreInv
    BY DEF IInv
<1>2. /\ req' \in [RequestHandlers -> Requests \cup {None}]
      /\ clearing' \in [ClearanceHandlers -> Nullifiers \cup {None}]
      /\ charge' \in [RequestHandlers -> Charges \cup {None}]
    BY <1>1 DEF TypeOK
<1>3. TypeOK'
    BY <1>1, <1>2 DEF TypeOK, RequestLabels
<1>4. LeafInv'
    BY <1>1, SignerUntouched DEF TypeOK
<1>5. StoreInv' /\ StoreGrows
    BY <1>1, SendInv
<1>6. Others(h)
    BY <1>1 DEF Others, TypeOK
<1> QED
    BY <1>1, <1>3, <1>4, <1>5, <1>6 DEF TypeOK

\* The answer of a request leaves: it was durable when it was computed.
LEMMA ReplyRequestInv ==
    ASSUME IInv, NEW h \in RequestHandlers, Reply(h)
    PROVE  IInv'
<1>1. RequestSound(h) /\ h \in Handlers
    BY DEF IInv, Handlers
<1>2. /\ TypeOK' /\ LeafInv' /\ StoreInv' /\ StoreGrows /\ Others(h)
      /\ pc'[h] = "idle" /\ answer'[h] = None
    BY <1>1, ReplyFrame DEF RequestSound
<1>3. RequestSound(h)'
    BY <1>2, NoneAssumption DEF RequestSound, RequestLabels
<1> QED
    BY <1>2, <1>3, RequestHandlerStep DEF Reply

\* And of a clearance.
LEMMA ReplyClearanceInv ==
    ASSUME IInv, NEW h \in ClearanceHandlers, Reply(h)
    PROVE  IInv'
<1>1. ClearanceSound(h) /\ h \in Handlers
    BY DEF IInv, Handlers
<1>2. /\ TypeOK' /\ LeafInv' /\ StoreInv' /\ StoreGrows /\ Others(h)
      /\ pc'[h] = "idle" /\ answer'[h] = None
    BY <1>1, ReplyFrame DEF ClearanceSound
<1>3. ClearanceSound(h)'
    BY <1>2, NoneAssumption DEF ClearanceSound, ClearanceLabels
<1> QED
    BY <1>2, <1>3, ClearanceHandlerStep DEF Reply

\* A step that moves no handler, signs nothing and stores nothing.
LEMMA BystanderInv ==
    ASSUME IInv, UNCHANGED <<durableVars, operationLock, handlerVars, signatures>>,
           TypeOK', \A m \in sent' \ sent : Durable(nullifiers, m)
    PROVE  IInv'
<1> USE DEF durableVars, handlerVars
<1>1. TypeOK /\ LeafInv /\ StoreInv
    BY DEF IInv
<1>2. LeafInv'
    BY <1>1, SignerUntouched
<1>3. StoreInv' /\ StoreGrows
    BY <1>1, SendInv
<1>4. Others(None)
    BY DEF Others
<1>5. \A g \in RequestHandlers : RequestSound(g)'
    BY <1>3, <1>4, OtherRequestSound, NoneAssumption
<1>6. \A g \in ClearanceHandlers : ClearanceSound(g)'
    BY <1>3, <1>4, OtherClearanceSound, NoneAssumption
<1> QED
    BY <1>2, <1>3, <1>5, <1>6 DEF IInv

\* A finalized record answers for its own nullifier.
LEMMA RecoveryDurable ==
    ASSUME IInv, NEW n \in Nullifiers, FinalizedTranscript(n)
    PROVE  LET t == nullifiers[n].transcript
           IN  /\ Response(n, t) \in Message
               /\ Durable(nullifiers, Response(n, t))
               /\ Challenge(n, t.request) \in Message
               /\ Durable(nullifiers, Challenge(n, t.request))
<1> DEFINE t == nullifiers[n].transcript
<1>1. RecordSound(nullifiers, signatures, n)
    BY DEF IInv, StoreInv
<1>2. /\ nullifiers[n] # None /\ nullifiers[n].status = "Finalized"
      /\ t \in NextState /\ t.request \in Requests
    BY <1>1 DEF FinalizedTranscript, RecordSound, Checked
<1>3. Response(n, t) \in Message /\ Durable(nullifiers, Response(n, t))
    BY <1>2 DEF Response, Message, Durable
<1>4. /\ Challenge(n, t.request) \in Message
      /\ Durable(nullifiers, Challenge(n, t.request))
    BY <1>2 DEF Challenge, Message, Durable
<1> QED
    BY <1>3, <1>4

\* Recovery by either key, and the watcher.
LEMMA ReadInv ==
    ASSUME IInv, NEW n \in Nullifiers, FinalizedTranscript(n),
           NEW m, m \in {Response(n, nullifiers[n].transcript),
                         Challenge(n, nullifiers[n].transcript.request)},
           sent' = sent \cup {m},
           UNCHANGED <<durableVars, currentRoot, operationLock, handlerVars,
                       now, signatures>>
    PROVE  IInv'
<1>1. m \in Message /\ Durable(nullifiers, m)
    BY RecoveryDurable
<1>2. TypeOK'
    BY <1>1 DEF IInv, TypeOK, durableVars, handlerVars
<1> QED
    BY <1>1, <1>2, BystanderInv

\* The root and the clock move on.
LEMMA EnvironmentInv ==
    ASSUME IInv, Tick \/ (\E root \in Roots : UpdateRoot(root)) \/ UNCHANGED vars
    PROVE  IInv'
<1>1. /\ UNCHANGED <<durableVars, operationLock, handlerVars, historyVars>>
      /\ currentRoot' \in Roots
      /\ now' \in 0 .. MaxTime
    BY ConfigAssumption DEF Tick, UpdateRoot, vars, IInv, TypeOK
<1>2. TypeOK'
    BY <1>1 DEF IInv, TypeOK, durableVars, handlerVars, historyVars
<1> QED
    BY <1>1, <1>2, BystanderInv DEF historyVars

\* A crash: handlers and the lock are gone; the table, the leaf counters and
\* what was sent are not.
LEMMA RestartInv ==
    ASSUME IInv, Restart
    PROVE  IInv'
<1> USE DEF Restart, durableVars, historyVars
<1>1. TypeOK /\ LeafInv /\ StoreInv
    BY DEF IInv
<1>2. TypeOK'
    BY <1>1, ConfigAssumption DEF TypeOK, RequestLabels, Handlers
<1>3. LeafInv'
    BY <1>1 DEF LeafInv, LeafSignsOnce, Handlers
<1>4. StoreInv'
    BY <1>1, StoreUntouched
<1>5. \A h \in RequestHandlers : RequestSound(h)'
    BY NoneAssumption DEF RequestSound, RequestLabels, Handlers
<1>6. \A h \in ClearanceHandlers : ClearanceSound(h)'
    BY NoneAssumption DEF ClearanceSound, ClearanceLabels, Handlers
<1> QED
    BY <1>2, <1>3, <1>4, <1>5, <1>6 DEF IInv

-----------------------------------------------------------------------------
(* Theorems.                                                               *)

\* Every step preserves the invariant.
LEMMA NextIInv == IInv /\ [Next]_vars => IInv'
<1> SUFFICES ASSUME IInv, [Next]_vars PROVE IInv'
    OBVIOUS
<1>1. ASSUME NEW h \in RequestHandlers, NEW r \in Requests,
             ReceiveRequest(h, r)
      PROVE  IInv'
    BY <1>1, ReceiveRequestInv
<1>2. ASSUME NEW h \in RequestHandlers, RequestStep(h)
      PROVE  IInv'
    BY <1>2, LookupNullifierInv, ReserveNullifierInv, ExecuteProviderInv,
       ReserveStateLeafInv, SignNextStateInv, FinalizeTranscriptInv,
       ReplyRequestInv DEF RequestStep
<1>3. ASSUME NEW h \in ClearanceHandlers, NEW n \in Nullifiers,
             ReceiveClearance(h, n)
      PROVE  IInv'
    BY <1>3, ReceiveClearanceInv
<1>4. ASSUME NEW h \in ClearanceHandlers, ClearanceStep(h)
      PROVE  IInv'
    BY <1>4, ReserveClearLeafInv, SignClearanceInv, ReserveClearanceInv,
       ReplyClearanceInv DEF ClearanceStep
<1>5. ASSUME NEW n \in Nullifiers, Read(n)
      PROVE  IInv'
    BY <1>5, ReadInv DEF Read, RecoverByNullifier, BuildChallengeAction
<1>6. ASSUME NEW id \in ClientIds, RecoverByClientId(id)
      PROVE  IInv'
    BY <1>6, ReadInv DEF RecoverByClientId
<1>7. CASE Restart
    BY <1>7, RestartInv
<1> QED
    BY <1>1, <1>2, <1>3, <1>4, <1>5, <1>6, <1>7, EnvironmentInv DEF Next

\* The invariant of the server: no behaviour leaves it.
THEOREM SpecIInv == Spec => []IInv
<1> QED
    BY InitIInv, NextIInv, PTL DEF Spec

\* The table, both leaf counters and every handler's locals keep their types,
\* and neither counter passes the end of its tree.
THEOREM SpecTypeOK == Spec => []TypeOK
<1>1. IInv => TypeOK
    BY DEF IInv
<1> QED
    BY <1>1, SpecIInv, PTL

\* One-time keys: no leaf of either tree signs two messages, for any number of
\* handlers and wherever the process dies between the reservation of a leaf
\* and the use of its signature.
THEOREM SpecLeafSignsOnce == Spec => []LeafSignsOnce
<1>1. IInv => LeafSignsOnce
    BY DEF IInv, LeafInv
<1> QED
    BY <1>1, SpecIInv, PTL

\* A retry answered from the table gets the answer of the request it repeats:
\* the response a handler holds is for its own client id and payload.
THEOREM SpecRetryAnswersItself == Spec => []RetryAnswersItself
<1>1. IInv => RetryAnswersItself
    BY DEF IInv, RequestSound, Answers, RetryAnswersItself
<1> QED
    BY <1>1, SpecIInv, PTL

\* If every accepted charge fits its column, whatever was sent is backed by
\* the store after any crash: one successor per nullifier, and a clearance
\* excludes a response and a challenge.
THEOREM SpecSentIsDurable ==
    ASSUME ColumnFits
    PROVE  Spec => []SentIsDurable
<1>1. IInv => SentIsDurable
    BY DEF IInv, StoreInv, Durable, SentIsDurable
<1> QED
    BY <1>1, SpecIInv, PTL

\* A charge read back is a natural number, however large it was.
LEMMA AmountsNat == Amounts \subseteq Nat
<1>1. ASSUME NEW c \in Charges PROVE StoredCharge(c) \in Nat
    <2> DEFINE low == c % (2 * ColumnHalf)
    <2>1. /\ 2 * ColumnHalf \in Nat \ {0}
          /\ AmountModulus \in Nat /\ AmountModulus >= 2 * ColumnHalf
          /\ c \in Nat
        BY ConfigAssumption
    <2>2. low \in 0 .. 2 * ColumnHalf - 1
        BY <2>1
    <2> HIDE DEF low
    <2>3. AmountModulus - (2 * ColumnHalf - low) \in Nat
        BY <2>1, <2>2
    <2> QED
        BY <2>2, <2>3 DEF StoredCharge, low
<1> QED
    BY <1>1, ConfigAssumption DEF Amounts

\* What leaves the server was earned: under the same condition a response
\* carries the signed successor of the request that reserved the nullifier,
\* at a charge within the cap its proof covers, and a challenge carries a
\* proved request whose successor was signed.
THEOREM SpecResponseEarned ==
    ASSUME ColumnFits
    PROVE  Spec => []ResponseEarned
<1>1. ASSUME IInv PROVE ResponseEarned
    <2>1. ASSUME NEW m \in sent
          PROVE  /\ Durable(nullifiers, m)
                 /\ m.nullifier \in Nullifiers
                 /\ RecordSound(nullifiers, signatures, m.nullifier)
        BY <1>1, MessageNullifier DEF IInv, StoreInv, TypeOK
    <2>2. ASSUME NEW m \in sent, m.kind = "response"
          PROVE  LET record == nullifiers[m.nullifier]
                     r == m.body.request
                 IN  /\ r.nullifier = m.nullifier
                     /\ SameRequest(record, r)
                     /\ <<"State", m.body.leaf, m.body>> \in signatures
                     /\ m.body.charge <= ChargeCap
                     /\ m.body.charge <= r.bound
        <3>1. /\ m.body \in NextState
              /\ Checked(m.body.request)
              /\ m.body.request.nullifier = m.nullifier
              /\ SameRequest(nullifiers[m.nullifier], m.body.request)
              /\ <<"State", m.body.leaf, m.body>> \in signatures
              /\ m.body.charge <= ChargeCap
            BY <2>1, <2>2 DEF Durable, RecordSound
        <3>2. m.body.charge \in Nat /\ m.body.request.bound \in Nat
            BY <3>1, AmountsNat, RequestAssumption DEF NextState
        <3> QED
            BY <3>1, <3>2, ChargeCapNat DEF Checked
    <2>3. ASSUME NEW m \in sent, m.kind = "challenge"
          PROVE  /\ m.body \in Requests
                 /\ m.body.nullifier = m.nullifier
                 /\ m.body.proof = "valid"
                 /\ \E s \in signatures : s[1] = "State" /\ s[3].request = m.body
        <3>1. /\ Checked(m.body)
              /\ m.body.nullifier = m.nullifier
              /\ \E u \in NextState : /\ <<"State", u.leaf, u>> \in signatures
                                      /\ u.request = m.body
            BY <2>1, <2>3 DEF Durable, RecordSound
        <3>2. PICK u \in NextState : /\ <<"State", u.leaf, u>> \in signatures
                                     /\ u.request = m.body
            BY <3>1
        <3>3. LET s == <<"State", u.leaf, u>>
              IN  s[1] = "State" /\ s[3].request = m.body
            BY <3>2
        <3> QED
            BY <3>1, <3>2, <3>3 DEF Checked
    <2> QED
        BY <2>2, <2>3 DEF ResponseEarned
<1> QED
    BY <1>1, SpecIInv, PTL

-----------------------------------------------------------------------------
(* The refinement.                                                         *)

\* A step inserts one record, finalizes one, or sends one durable message.
StoreStep ==
    \/ UNCHANGED <<nullifiers, sent>>
    \/ /\ sent' = sent
       /\ \E n \in Nullifiers :
             /\ \A k \in Nullifiers \ {n} : nullifiers'[k] = nullifiers[k]
             /\ nullifiers'[n] # None
             /\ \/ nullifiers[n] = None
                \/ Finalizable(n)
    \/ /\ nullifiers' = nullifiers
       /\ \E m \in Message : Durable(nullifiers, m) /\ sent' = sent \cup {m}

\* Every step does to the tables one of the things StoreStep allows.
LEMMA StepShape ==
    ASSUME IInv, [Next]_vars
    PROVE  StoreStep
<1> USE DEF durableVars, historyVars, StoreStep
<1>1. TypeOK
    BY DEF IInv
<1>2. ASSUME NEW h \in RequestHandlers, NEW r \in Requests,
             ReceiveRequest(h, r)
      PROVE  StoreStep
    BY <1>2 DEF ReceiveRequest
<1>3. ASSUME NEW n \in Nullifiers, NEW record \in Record, Insert(n, record),
             sent' = sent
      PROVE  StoreStep
    <2>1. /\ nullifiers[n] = None
          /\ nullifiers'[n] = record
          /\ \A k \in Nullifiers \ {n} : nullifiers'[k] = nullifiers[k]
        BY <1>1, <1>3 DEF Insert, TypeOK
    <2> QED
        BY <1>3, <2>1, NoneAssumption
<1>4. ASSUME NEW h \in RequestHandlers, RequestStep(h), ~Reply(h)
      PROVE  StoreStep
    <2>1. RequestSound(h)
        BY DEF IInv
    <2>2. CASE LookupNullifier(h) \/ ExecuteProvider(h)
        BY <2>2 DEF LookupNullifier, ExecuteProvider
    <2>3. CASE ReserveStateLeaf(h) \/ SignNextState(h)
        BY <2>3 DEF ReserveStateLeaf, SignNextState
    <2>4. CASE ReserveNullifier(h)
        <3>1. req[h] \in Requests /\ req[h].nullifier \in Nullifiers
            BY <2>1, <2>4, RequestAssumption
               DEF ReserveNullifier, RequestSound, RequestLabels, Checked
        <3>2. ReservedRecord(req[h]) \in Record
            BY <3>1, RequestAssumption DEF ReservedRecord, Record
        <3> QED
            BY <1>3, <2>4, <3>1, <3>2 DEF ReserveNullifier
    <2>5. CASE FinalizeTranscript(h)
        <3>1. /\ req[h] \in Requests /\ req[h].nullifier \in Nullifiers
              /\ charge[h] \in Charges /\ leaf[h] \in Leaves
            BY <2>1, <2>5, RequestAssumption
               DEF FinalizeTranscript, RequestSound, RequestLabels, Checked
        <3>2. StoredTranscript(h) \in NextState
            BY <3>1 DEF StoredTranscript, StateMessage, NextState, Amounts
        <3>3. CASE UNCHANGED nullifiers
            BY <2>5, <3>3 DEF FinalizeTranscript
        <3>4. ASSUME NEW n \in Nullifiers, NEW t \in NextState, Finalizable(n),
                     nullifiers' = [nullifiers EXCEPT
                                       ![n].status = "Finalized",
                                       ![n].transcript = t]
              PROVE  StoreStep
            <4>1. sent' = sent
                BY <2>5 DEF FinalizeTranscript
            <4> QED
                BY <1>1, <3>4, <4>1, FinalizeGrows
        <3> QED
            BY <2>5, <3>1, <3>2, <3>3, <3>4 DEF FinalizeTranscript
    <2> QED
        BY <1>4, <2>2, <2>3, <2>4, <2>5 DEF RequestStep
<1>5. ASSUME NEW h \in ClearanceHandlers, NEW n \in Nullifiers,
             ReceiveClearance(h, n)
      PROVE  StoreStep
    BY <1>5 DEF ReceiveClearance
<1>6. ASSUME NEW h \in ClearanceHandlers, ClearanceStep(h), ~Reply(h)
      PROVE  StoreStep
    <2>1. ClearanceSound(h)
        BY DEF IInv
    <2>2. CASE ReserveClearLeaf(h) \/ SignClearance(h)
        BY <2>2 DEF ReserveClearLeaf, SignClearance
    <2>3. CASE ReserveClearance(h)
        <3>1. clearing[h] \in Nullifiers
            BY <2>1, <2>3 DEF ReserveClearance, ClearanceSound, ClearanceLabels
        <3>2. ClearanceRecord \in Record
            BY DEF ClearanceRecord, Record
        <3> QED
            BY <1>3, <2>3, <3>1, <3>2 DEF ReserveClearance
    <2> QED
        BY <1>6, <2>2, <2>3 DEF ClearanceStep
<1>7. ASSUME NEW h \in Handlers, Reply(h)
      PROVE  StoreStep
    <2>1. answer[h] \in Message => Durable(nullifiers, answer[h])
        BY DEF IInv, RequestSound, ClearanceSound, Handlers
    <2>2. CASE answer[h] \in Message
        <3>1. sent' = sent \cup {answer[h]} /\ nullifiers' = nullifiers
            BY <1>7, <2>2 DEF Reply
        <3> QED
            BY <2>1, <2>2, <3>1
    <2>3. CASE answer[h] \notin Message
        BY <1>7, <2>3 DEF Reply
    <2> QED
        BY <2>2, <2>3
<1>8. ASSUME NEW n \in Nullifiers,
             RecoverByNullifier(n) \/ BuildChallengeAction(n)
      PROVE  StoreStep
    BY <1>8, RecoveryDurable DEF RecoverByNullifier, BuildChallengeAction
<1>9. ASSUME NEW id \in ClientIds, RecoverByClientId(id)
      PROVE  StoreStep
    BY <1>9, RecoveryDurable DEF RecoverByClientId
<1>10. CASE Tick \/ Restart \/ UNCHANGED vars
           \/ \E root \in Roots : UpdateRoot(root)
    BY <1>10 DEF Tick, Restart, UpdateRoot, vars
<1> QED
    BY <1>2, <1>4, <1>5, <1>6, <1>7, <1>8, <1>9, <1>10
       DEF Next, Read, Handlers

\* A record's fate changes only by being decided, and to what its row says.
LEMMA FateStep ==
    ASSUME IInv, IInv', NEW n \in Nullifiers, nullifiers'[n] # None,
           nullifiers[n] = None \/ Finalizable(n)
    PROVE  /\ FateOf(n) = << >>
           /\ \/ FateOf(n)' = << >>
              \/ FateOf(n)' \in {<<"spent", state>> : state \in NextState}
              \/ FateOf(n)' = <<"cleared">>
<1>1. /\ nullifiers'[n] \in Record
      /\ RecordSound(nullifiers', signatures', n)
    BY DEF IInv, TypeOK, StoreInv
<1>2. nullifiers'[n].status = "Finalized" =>
         nullifiers'[n].transcript \in NextState
    BY <1>1 DEF RecordSound
<1>3. FateOf(n) = << >>
    BY DEF FateOf, Finalizable
<1>4. nullifiers'[n].status \in {"Reserved", "Finalized", "ClearanceReserved"}
    BY <1>1 DEF Record
<1> QED
    BY <1>2, <1>3, <1>4 DEF FateOf

\* A durable response or clearance states the fate of its nullifier.
LEMMA SeenIsFate ==
    ASSUME ColumnFits, NEW m \in Message, Durable(nullifiers, m),
           m.kind # "challenge"
    PROVE  /\ Seen(m) = <<m.nullifier, FateOf(m.nullifier)>>
           /\ FateOf(m.nullifier) # << >>
<1>1. CASE m.kind = "response"
    <2>1. FateOf(m.nullifier) = <<"spent", m.body>>
        BY <1>1 DEF Durable, FateOf
    <2> QED
        BY <1>1, <2>1 DEF Seen
<1>2. CASE m.kind = "clearance"
    <2>1. FateOf(m.nullifier) = <<"cleared">>
        BY <1>2 DEF Durable, FateOf
    <2> QED
        BY <1>2, <2>1 DEF Seen
<1> QED
    BY <1>1, <1>2 DEF Message

\* The server implements the ledger: under the same condition a nullifier's
\* fate is decided once, by one write to the table, before anything about it
\* is sent, and all that is sent about it is that fate.
THEOREM ServerImplementsLedger ==
    ASSUME ColumnFits
    PROVE  Spec => ImplementsLedger
<1> DEFINE fates == [n \in Nullifiers |-> FateOf(n)]
           shown == {Seen(m) : m \in {m \in sent : m.kind # "challenge"}}
<1>1. Init => Ledger!Init
    BY DEF Init, Ledger!Init, FateOf
<1>2. ASSUME IInv, IInv', [Next]_vars
      PROVE  [Ledger!Next]_(Ledger!vars)
    <2>1. StoreStep
        BY <1>2, StepShape
    <2>2. CASE UNCHANGED <<nullifiers, sent>>
        BY <2>2 DEF Ledger!vars, FateOf
    <2>3. ASSUME sent' = sent, NEW n \in Nullifiers,
                 \A k \in Nullifiers \ {n} : nullifiers'[k] = nullifiers[k],
                 nullifiers'[n] # None,
                 nullifiers[n] = None \/ Finalizable(n)
          PROVE  [Ledger!Next]_(Ledger!vars)
        <3>1. \A k \in Nullifiers \ {n} : FateOf(k)' = FateOf(k)
            BY <2>3 DEF FateOf
        <3>2. /\ FateOf(n) = << >>
              /\ \/ FateOf(n)' = << >>
                 \/ FateOf(n)' \in {<<"spent", state>> : state \in NextState}
                 \/ FateOf(n)' = <<"cleared">>
            BY <1>2, <2>3, FateStep
        <3>3. shown' = shown
            BY <2>3
        <3>4. CASE FateOf(n)' = << >>
            <4>1. fates' = fates
                BY <3>1, <3>2, <3>4
            <4> QED
                BY <3>3, <4>1 DEF Ledger!vars
        <3>5. CASE \/ FateOf(n)' \in {<<"spent", state>> : state \in NextState}
                   \/ FateOf(n)' = <<"cleared">>
            <4>1. fates' = [fates EXCEPT ![n] = FateOf(n)']
                BY <3>1
            <4>2. fates[n] = << >>
                BY <3>2
            <4> QED
                BY <3>3, <3>5, <4>1, <4>2 DEF Ledger!Next, Ledger!Decide
        <3> QED
            BY <3>2, <3>4, <3>5
    <2>4. ASSUME nullifiers' = nullifiers, NEW m \in Message,
                 Durable(nullifiers, m), sent' = sent \cup {m}
          PROVE  [Ledger!Next]_(Ledger!vars)
        <3>1. fates' = fates
            BY <2>4 DEF FateOf
        <3>2. CASE m.kind = "challenge"
            <4>1. shown' = shown
                BY <2>4, <3>2
            <4> QED
                BY <3>1, <4>1 DEF Ledger!vars
        <3>3. CASE m.kind # "challenge"
            <4>1. /\ Seen(m) = <<m.nullifier, FateOf(m.nullifier)>>
                  /\ FateOf(m.nullifier) # << >>
                  /\ m.nullifier \in Nullifiers
                BY <2>4, <3>3, SeenIsFate, MessageNullifier
            <4>2. shown' = shown \cup {Seen(m)}
                BY <2>4, <3>3
            <4>3. /\ fates[m.nullifier] # << >>
                  /\ shown' = shown \cup {<<m.nullifier, fates[m.nullifier]>>}
                BY <4>1, <4>2
            <4> QED
                BY <3>1, <4>1, <4>3 DEF Ledger!Next, Ledger!Publish
        <3> QED
            BY <3>2, <3>3
    <2> QED
        BY <2>1, <2>2, <2>3, <2>4 DEF StoreStep
<1> QED
    BY <1>1, <1>2, SpecIInv, PTL DEF Spec, ImplementsLedger, Ledger!Spec

=============================================================================

-------------------------- MODULE RequestProcessor --------------------------
(***************************************************************************)
(* The zkAPI server: request processor, nullifier store, durable XMSS      *)
(* signer and challenge watcher (rust/crates/zkapi-server/src).            *)
(*                                                                         *)
(* HTTP handlers run concurrently on shared state.  A handler's step is    *)
(* one access to state that others share (the root lock, one SQLite        *)
(* statement under the store's mutex, the signer's transaction, the        *)
(* provider) together with the local code around it.  The process may      *)
(* crash between any two steps: SQLite survives, handlers and the root     *)
(* do not.  A request may arrive any number of times, at any handler, and  *)
(* a finished call's answer may be lost with a crash.                      *)
(*                                                                         *)
(* Abstractions.  Hashes are injective, so a payload hash is the payload   *)
(* it hashes.  The next state (commitment, anchor, blinding) is a function *)
(* of the request's public inputs, the charge and the leaf index, so the   *)
(* triple stands for it.  SQLite itself does not fail.                     *)
(***************************************************************************)
EXTENDS Integers, FiniteSets

CONSTANTS
    RequestHandlers,     \* tasks serving POST /v1/requests
    ClearanceHandlers,   \* tasks serving POST /v1/withdraw/clearance
    Requests,            \* the ApiRequests clients may send
    Nullifiers,
    ClientIds,
    Roots,               \* Merkle roots of the vault
    InitialRoot,         \* config.initial_root
    ThisDeployment,      \* config protocol_version, chain_id, contract_address
    TrustedStateSigs,    \* <<epoch, root>> pairs validate_state_sig_root takes
    PolicyEnabled,       \* config.policy_enabled
    PolicyChargeCap,     \* config.policy_charge_cap
    RequestChargeCap,    \* config.request_charge_cap
    Charges,             \* what a provider may charge
    ColumnHalf,          \* 2^63: charge_applied is a signed 64-bit column
    AmountModulus,       \* 2^128
    Capacity,            \* leaves of an XMSS tree
    MaxTime,             \* bound: the clock stops there
    None                 \* no request, no record, no answer

\* What process_request reads of an ApiRequest and its public inputs.
RequestFields == {"nullifier", "clientId", "payload", "payloadHash",
                  "commitment", "deployment", "root", "expiry", "bound",
                  "statement", "stateSig", "proof"}

ASSUME RequestAssumption ==
    \A r \in Requests :
        /\ DOMAIN r = RequestFields
        /\ r.nullifier \in Nullifiers
        /\ r.clientId \in ClientIds
        /\ r.expiry \in Nat
        /\ r.bound \in Nat

ASSUME ConfigAssumption ==
    /\ InitialRoot \in Roots
    /\ PolicyEnabled \in BOOLEAN
    /\ PolicyChargeCap \in Nat
    /\ RequestChargeCap \in Nat
    /\ Charges \subseteq Nat
    /\ ColumnHalf \in Nat \ {0}
    /\ AmountModulus \in Nat
    /\ AmountModulus >= 2 * ColumnHalf
    /\ Capacity \in Nat
    /\ MaxTime \in Nat
    /\ RequestHandlers \cap ClearanceHandlers = {}

VARIABLES
    nullifiers,    \* durable: the nullifiers table
    nextLeaf,      \* durable: signer_state.next_leaf of both trees
    currentRoot,   \* RequestProcessor.current_root
    operationLock, \* the handler inside ServerSigner.operation_lock
    pc,            \* what each handler does next
    req,           \* the ApiRequest a request handler works on
    clearing,      \* the nullifier a clearance handler works on
    charge,        \* a request handler's provider charge
    leaf,          \* the leaf a handler holds
    answer,        \* the return value a handler is about to send
    now,           \* wall clock
    signatures,    \* history: every <<tree, leaf, message>> ever signed
    sent           \* history: responses, clearances, challenges let out

Handlers == RequestHandlers \cup ClearanceHandlers
durableVars == <<nullifiers, nextLeaf>>
handlerVars == <<pc, req, clearing, charge, leaf, answer>>
historyVars == <<signatures, sent>>
vars == <<durableVars, currentRoot, operationLock, handlerVars, now,
          historyVars>>

-----------------------------------------------------------------------------
(* Data.                                                                   *)

Trees == {"State", "Clear"}
Leaves == 0 .. Capacity - 1
ChargeCap == IF PolicyEnabled THEN PolicyChargeCap ELSE RequestChargeCap

\* A charge as row_to_record reads it back: finalize casts the u128 to i64,
\* and the way back extends the sign.
StoredCharge(c) ==
    LET low == c % (2 * ColumnHalf)
    IN  IF low < ColumnHalf THEN low
        ELSE AmountModulus - (2 * ColumnHalf - low)

Amounts == Charges \cup {StoredCharge(c) : c \in Charges}

\* The state signed for a request: what compute_state_message commits to.
NextState == [request : Requests, charge : Amounts, leaf : Leaves]

\* TranscriptRecord.  A clearance has neither owner nor transcript.
Record == [status : {"Reserved", "Finalized", "ClearanceReserved"},
           clientId : ClientIds \cup {None},
           payloadHash : {r.payloadHash : r \in Requests} \cup {None},
           transcript : NextState \cup {None}]

ReservedRecord(r) ==
    [status |-> "Reserved", clientId |-> r.clientId,
     payloadHash |-> r.payloadHash, transcript |-> None]
ClearanceRecord ==
    [status |-> "ClearanceReserved", clientId |-> None,
     payloadHash |-> None, transcript |-> None]

\* RequestResponse, ClearanceResponse and the watcher's ChallengeAction.
Response(n, transcript) ==
    [kind |-> "response", nullifier |-> n, body |-> transcript]
Clearance(n, l) ==
    [kind |-> "clearance", nullifier |-> n, body |-> [leaf |-> l]]
Challenge(n, request) ==
    [kind |-> "challenge", nullifier |-> n, body |-> request]
Message ==
    [kind : {"response"}, nullifier : Nullifiers, body : NextState]
    \cup [kind : {"clearance"}, nullifier : Nullifiers,
            body : [leaf : Leaves]]
    \cup [kind : {"challenge"}, nullifier : Nullifiers, body : Requests]

\* "Provider" is whichever error the provider returns.
ErrorCode == {"InvalidRequest", "ProtocolMismatch", "StaleRoot",
              "NoteExpired", "InvalidProof", "Replay", "Internal",
              "CapacityExhausted", "NullifierUsed", "Provider"}
Error(code) == [kind |-> "error", body |-> code]
ErrorResponse == [kind : {"error"}, body : ErrorCode]

ASSUME NoneAssumption ==
    /\ None \notin Requests
    /\ None \notin RequestHandlers \cup ClearanceHandlers
    /\ None \notin Nullifiers
    /\ None \notin Record \cup Message \cup ErrorCode

-----------------------------------------------------------------------------
(* Init: the database is new; run_server has opened it.                    *)

Init ==
    /\ nullifiers = [n \in Nullifiers |-> None]
    /\ nextLeaf = [tree \in Trees |-> 0]
    /\ currentRoot = InitialRoot
    /\ operationLock = None
    /\ pc = [h \in Handlers |-> "idle"]
    /\ req = [h \in RequestHandlers |-> None]
    /\ clearing = [h \in ClearanceHandlers |-> None]
    /\ charge = [h \in RequestHandlers |-> None]
    /\ leaf = [h \in Handlers |-> None]
    /\ answer = [h \in Handlers |-> None]
    /\ now = 0
    /\ signatures = {}
    /\ sent = {}

\* The handler moves on.
Goto(h, label) == pc' = [pc EXCEPT ![h] = label]

\* The handler returns a value; it is sent by a later step.
Return(h, value) ==
    /\ pc' = [pc EXCEPT ![h] = "reply"]
    /\ answer' = [answer EXCEPT ![h] = value]

-----------------------------------------------------------------------------
(* process_request                                                         *)

\* validate_state_sig_root, and verify_request_proof_artifact.
ValidStateSigRoot(r) == r.stateSig \in TrustedStateSigs
ProofVerifies(r) == r.proof = "valid"

\* Mutant: the proof is not verified.
RequestErrorUnproved(r) ==
    IF r.root # currentRoot THEN "StaleRoot"
    ELSE IF r.expiry <= now THEN "NoteExpired" ELSE None

\* Steps 1-9 in their order; the code of the first one that fails.
RequestError(r) ==
    IF r.payloadHash # r.payload               THEN "InvalidRequest"
    ELSE IF r.deployment # ThisDeployment      THEN "ProtocolMismatch"
    ELSE IF r.root # currentRoot               THEN "StaleRoot"
    ELSE IF r.expiry <= now                    THEN "NoteExpired"
    ELSE IF r.bound < ChargeCap                THEN "InvalidRequest"
    ELSE IF r.statement # "request"            THEN "InvalidRequest"
    ELSE IF ~ValidStateSigRoot(r)              THEN "InvalidRequest"
    ELSE IF ~ProofVerifies(r)                  THEN "InvalidProof"
    ELSE None

ReceiveRequest(h, r) ==
    /\ pc[h] = "idle"
    /\ req' = [req EXCEPT ![h] = r]
    /\ \/ /\ RequestError(r) = None
          /\ Goto(h, "lookup")
          /\ UNCHANGED answer
       \/ /\ RequestError(r) # None
          /\ Return(h, Error(RequestError(r)))
    /\ UNCHANGED <<durableVars, currentRoot, operationLock, clearing, charge,
                   leaf, now, historyVars>>

\* Mutant: an idempotent retry is recognised by its client id alone.
SameRequestByIdOnly(record, r) == record.clientId = r.clientId

SameRequest(record, r) ==
    /\ record.clientId = r.clientId
    /\ record.payloadHash = r.payloadHash

\* Step 10, the lookup.
LookupNullifier(h) ==
    LET r == req[h]
        existing == nullifiers[r.nullifier]
    IN  /\ pc[h] = "lookup"
        /\ \/ /\ existing = None
              /\ Goto(h, "reserve")
              /\ UNCHANGED answer
           \/ /\ existing # None
              /\ SameRequest(existing, r)
              /\ existing.status = "Finalized"
              /\ Return(h, Response(r.nullifier, existing.transcript))
           \/ /\ existing # None
              /\ SameRequest(existing, r)
              /\ existing.status = "Reserved"
              /\ Goto(h, "execute")
              /\ UNCHANGED answer
           \/ /\ existing # None
              /\ ~ /\ SameRequest(existing, r)
                   /\ existing.status \in {"Finalized", "Reserved"}
              /\ Return(h, Error("Replay"))
        /\ UNCHANGED <<durableVars, currentRoot, operationLock, req, clearing,
                       charge, leaf, now, historyVars>>

\* INSERT under the primary key.
Insert(n, record) ==
    /\ nullifiers[n] = None
    /\ nullifiers' = [nullifiers EXCEPT ![n] = record]

\* Step 10, the reservation; another handler may have been faster.
ReserveNullifier(h) ==
    LET r == req[h]
    IN  /\ pc[h] = "reserve"
        /\ \/ /\ Insert(r.nullifier, ReservedRecord(r))
              /\ Goto(h, "execute")
              /\ UNCHANGED answer
           \/ /\ nullifiers[r.nullifier] # None
              /\ Return(h, Error("Replay"))
              /\ UNCHANGED nullifiers
        /\ UNCHANGED <<nextLeaf, currentRoot, operationLock, req, clearing,
                       charge, leaf, now, historyVars>>

WithinCap(c) == c <= ChargeCap

\* Steps 11-12: the provider fails, or charges; the cap is enforced.
ExecuteProvider(h) ==
    /\ pc[h] = "execute"
    /\ \/ /\ Return(h, Error("Provider"))
          /\ UNCHANGED charge
       \/ \E c \in Charges :
             /\ charge' = [charge EXCEPT ![h] = c]
             /\ \/ WithinCap(c) /\ Goto(h, "sign") /\ UNCHANGED answer
                \/ ~WithinCap(c) /\ Return(h, Error("Internal"))
    /\ UNCHANGED <<durableVars, currentRoot, operationLock, req, clearing,
                   leaf, now, historyVars>>

-----------------------------------------------------------------------------
(* ServerSigner: operation_lock is held from the reservation of the leaf   *)
(* to the signature, and dropped on the error return.                      *)

\* Mutant: the boundary of the tree is off by one.
LeafLeftOffByOne(tree) == nextLeaf[tree] <= Capacity

\* reserve_leaf's test of the tree's capacity.
LeafLeft(tree) == nextLeaf[tree] < Capacity

\* Mutant: the error return keeps the lock.
ReserveLeafKeepsLock(h, tree, after) ==
    /\ operationLock = None
    /\ operationLock' = h
    /\ \/ /\ LeafLeft(tree)
          /\ nextLeaf' = [nextLeaf EXCEPT ![tree] = @ + 1]
          /\ leaf' = [leaf EXCEPT ![h] = nextLeaf[tree]]
          /\ Goto(h, after)
          /\ UNCHANGED answer
       \/ /\ ~LeafLeft(tree)
          /\ Return(h, Error("CapacityExhausted"))
          /\ UNCHANGED <<nextLeaf, leaf>>

\* reserve_leaf commits the advanced counter before anything is signed.
ReserveLeaf(h, tree, after) ==
    /\ operationLock = None
    /\ \/ /\ LeafLeft(tree)
          /\ nextLeaf' = [nextLeaf EXCEPT ![tree] = @ + 1]
          /\ leaf' = [leaf EXCEPT ![h] = nextLeaf[tree]]
          /\ operationLock' = h
          /\ Goto(h, after)
          /\ UNCHANGED answer
       \/ /\ ~LeafLeft(tree)
          /\ Return(h, Error("CapacityExhausted"))
          /\ UNCHANGED <<nextLeaf, leaf, operationLock>>

\* sign_reserved with the leaf the handler holds.
SignReserved(h, tree, message, after) ==
    /\ signatures' = signatures \cup {<<tree, leaf[h], message>>}
    /\ operationLock' = None
    /\ Goto(h, after)

StateMessage(h) ==
    [request |-> req[h], charge |-> charge[h], leaf |-> leaf[h]]

\* The transcript as it comes back from the table.
StoredTranscript(h) ==
    [StateMessage(h) EXCEPT !.charge = StoredCharge(@)]

ReserveStateLeaf(h) ==
    /\ pc[h] = "sign"
    /\ ReserveLeaf(h, "State", "build")
    /\ UNCHANGED <<nullifiers, currentRoot, req, clearing, charge, now,
                   historyVars>>

SignNextState(h) ==
    /\ pc[h] = "build"
    /\ SignReserved(h, "State", StateMessage(h), "finalize")
    /\ UNCHANGED <<durableVars, currentRoot, req, clearing, charge, leaf,
                   answer, now, sent>>

\* Mutant: UPDATE without AND status = 'Reserved'.
FinalizableAny(n) == nullifiers[n] # None

\* The WHERE clause of finalize's UPDATE.
Finalizable(n) ==
    nullifiers[n] # None /\ nullifiers[n].status = "Reserved"

\* Mutant: the loser of a race to finalize returns its own successor.
FinalizeIgnoringRows(h) ==
    LET n == req[h].nullifier
    IN  /\ pc[h] = "finalize"
        /\ nullifiers' = IF Finalizable(n)
                         THEN [nullifiers EXCEPT
                                 ![n].status = "Finalized",
                                 ![n].transcript = StoredTranscript(h)]
                         ELSE nullifiers
        /\ Return(h, Response(n, StateMessage(h)))
        /\ UNCHANGED <<nextLeaf, currentRoot, operationLock, req, clearing,
                       charge, leaf, now, historyVars>>

\* Steps 17-18: publish only what the store has accepted.
FinalizeTranscript(h) ==
    LET n == req[h].nullifier
    IN  /\ pc[h] = "finalize"
        /\ \/ /\ Finalizable(n)
              /\ nullifiers' = [nullifiers EXCEPT
                                  ![n].status = "Finalized",
                                  ![n].transcript = StoredTranscript(h)]
              /\ Return(h, Response(n, StateMessage(h)))
           \/ /\ ~Finalizable(n)
              /\ Return(h, Error("Internal"))
              /\ UNCHANGED nullifiers
        /\ UNCHANGED <<nextLeaf, currentRoot, operationLock, req, clearing,
                       charge, leaf, now, historyVars>>

-----------------------------------------------------------------------------
(* process_clearance: looked up, signed, then reserved.                    *)

ReceiveClearance(h, n) ==
    /\ pc[h] = "idle"
    /\ clearing' = [clearing EXCEPT ![h] = n]
    /\ \/ /\ nullifiers[n] = None
          /\ Goto(h, "signClear")
          /\ UNCHANGED answer
       \/ /\ nullifiers[n] # None
          /\ Return(h, Error("NullifierUsed"))
    /\ UNCHANGED <<durableVars, currentRoot, operationLock, req, charge, leaf,
                   now, historyVars>>

ReserveClearLeaf(h) ==
    /\ pc[h] = "signClear"
    /\ ReserveLeaf(h, "Clear", "buildClear")
    /\ UNCHANGED <<nullifiers, currentRoot, req, clearing, charge, now,
                   historyVars>>

SignClearance(h) ==
    /\ pc[h] = "buildClear"
    /\ SignReserved(h, "Clear", clearing[h], "reserveClear")
    /\ UNCHANGED <<durableVars, currentRoot, req, clearing, charge, leaf,
                   answer, now, sent>>

ReserveClearance(h) ==
    LET n == clearing[h]
    IN  /\ pc[h] = "reserveClear"
        /\ \/ /\ Insert(n, ClearanceRecord)
              /\ Return(h, Clearance(n, leaf[h]))
           \/ /\ nullifiers[n] # None
              /\ Return(h, Error("NullifierUsed"))
              /\ UNCHANGED nullifiers
        /\ UNCHANGED <<nextLeaf, currentRoot, operationLock, req, clearing,
                       charge, leaf, now, historyVars>>

-----------------------------------------------------------------------------
(* Answers, recovery, the watcher.                                         *)

\* The HTTP answer leaves; the task ends.  Errors reveal no state.
Reply(h) ==
    /\ pc[h] = "reply"
    /\ sent' = sent \cup ({answer[h]} \cap Message)
    /\ Goto(h, "idle")
    /\ req' = [i \in RequestHandlers |-> IF i = h THEN None ELSE req[i]]
    /\ clearing' =
          [i \in ClearanceHandlers |-> IF i = h THEN None ELSE clearing[i]]
    /\ charge' = [i \in RequestHandlers |-> IF i = h THEN None ELSE charge[i]]
    /\ leaf' = [leaf EXCEPT ![h] = None]
    /\ answer' = [answer EXCEPT ![h] = None]
    /\ UNCHANGED <<durableVars, currentRoot, operationLock, now, signatures>>

\* finalized_transcript, and the test of build_recovery_response.
FinalizedTranscript(n) ==
    nullifiers[n] # None /\ nullifiers[n].status = "Finalized"

\* GET /v1/nullifiers/{n}; only a finalized record carries a response.
RecoverByNullifier(n) ==
    /\ FinalizedTranscript(n)
    /\ sent' = sent \cup {Response(n, nullifiers[n].transcript)}
    /\ UNCHANGED <<durableVars, currentRoot, operationLock, handlerVars, now,
                   signatures>>

\* GET /v1/requests/{id}: client ids are not unique, any row may be found.
RecoverByClientId(id) ==
    \E n \in Nullifiers :
        /\ FinalizedTranscript(n)
        /\ nullifiers[n].clientId = id
        /\ sent' = sent \cup {Response(n, nullifiers[n].transcript)}
        /\ UNCHANGED <<durableVars, currentRoot, operationLock, handlerVars,
                       now, signatures>>

\* build_challenge_action: the archived public inputs and proof of the
\* request the transcript was finalized for.
BuildChallengeAction(n) ==
    /\ FinalizedTranscript(n)
    /\ nullifiers[n].transcript.request.nullifier = n
    /\ sent' = sent \cup {Challenge(n, nullifiers[n].transcript.request)}
    /\ UNCHANGED <<durableVars, currentRoot, operationLock, handlerVars, now,
                   signatures>>

-----------------------------------------------------------------------------
(* Environment.                                                            *)

\* The indexer reports a root.
UpdateRoot(root) ==
    /\ currentRoot' = root
    /\ UNCHANGED <<durableVars, operationLock, handlerVars, now, historyVars>>

Tick ==
    /\ now < MaxTime
    /\ now' = now + 1
    /\ UNCHANGED <<durableVars, currentRoot, operationLock, handlerVars,
                   historyVars>>

\* Mutant: the signer keeps its leaf cursor in memory.
RestartInMemorySigner ==
    /\ nextLeaf' = [tree \in Trees |-> 0]
    /\ currentRoot' = InitialRoot
    /\ operationLock' = None
    /\ pc' = [h \in Handlers |-> "idle"]
    /\ req' = [h \in RequestHandlers |-> None]
    /\ clearing' = [h \in ClearanceHandlers |-> None]
    /\ charge' = [h \in RequestHandlers |-> None]
    /\ leaf' = [h \in Handlers |-> None]
    /\ answer' = [h \in Handlers |-> None]
    /\ UNCHANGED <<nullifiers, now, historyVars>>

\* Crash and run_server on the same database: ensure_tree finds the stored
\* epoch and root and keeps next_leaf (with others it refuses to start).
\* Reserved entries are not looked at.
Restart ==
    /\ currentRoot' = InitialRoot
    /\ operationLock' = None
    /\ pc' = [h \in Handlers |-> "idle"]
    /\ req' = [h \in RequestHandlers |-> None]
    /\ clearing' = [h \in ClearanceHandlers |-> None]
    /\ charge' = [h \in RequestHandlers |-> None]
    /\ leaf' = [h \in Handlers |-> None]
    /\ answer' = [h \in Handlers |-> None]
    /\ UNCHANGED <<durableVars, now, historyVars>>

RequestStep(h) ==
    \/ LookupNullifier(h)
    \/ ReserveNullifier(h)
    \/ ExecuteProvider(h)
    \/ ReserveStateLeaf(h)
    \/ SignNextState(h)
    \/ FinalizeTranscript(h)
    \/ Reply(h)

ClearanceStep(h) ==
    \/ ReserveClearLeaf(h)
    \/ SignClearance(h)
    \/ ReserveClearance(h)
    \/ Reply(h)

Read(n) == RecoverByNullifier(n) \/ BuildChallengeAction(n)

Next ==
    \/ \E h \in RequestHandlers :
          RequestStep(h) \/ \E r \in Requests : ReceiveRequest(h, r)
    \/ \E h \in ClearanceHandlers :
          ClearanceStep(h) \/ \E n \in Nullifiers : ReceiveClearance(h, n)
    \/ \E n \in Nullifiers : Read(n)
    \/ \E id \in ClientIds : RecoverByClientId(id)
    \/ \E root \in Roots : UpdateRoot(root)
    \/ Tick
    \/ Restart

Spec == Init /\ [][Next]_vars

\* A running task is scheduled, the signer mutex is eventually granted and a
\* provider call returns: the runtime's and the trait's contract.
FairSpec ==
    /\ Spec
    /\ \A h \in RequestHandlers : WF_vars(RequestStep(h))
    /\ \A h \in ClearanceHandlers : WF_vars(ClearanceStep(h))

\* The same, and the process does not crash for ever.
SettledSpec == FairSpec /\ <>[][~Restart]_vars

-----------------------------------------------------------------------------
(* Properties.                                                             *)

RequestLabels == {"idle", "lookup", "reserve", "execute", "sign", "build",
                  "finalize", "reply"}
ClearanceLabels == {"idle", "signClear", "buildClear", "reserveClear",
                    "reply"}

\* Type invariant: the table, the leaf counters and the handlers' locals stay
\* in their types, and both counters within the trees.
TypeOK ==
    /\ nullifiers \in [Nullifiers -> Record \cup {None}]
    /\ nextLeaf \in [Trees -> 0 .. Capacity]
    /\ currentRoot \in Roots
    /\ operationLock \in Handlers \cup {None}
    /\ pc \in [Handlers -> RequestLabels \cup ClearanceLabels]
    /\ req \in [RequestHandlers -> Requests \cup {None}]
    /\ clearing \in [ClearanceHandlers -> Nullifiers \cup {None}]
    /\ charge \in [RequestHandlers -> Charges \cup {None}]
    /\ leaf \in [Handlers -> Leaves \cup {None}]
    /\ answer \in [Handlers -> Message \cup ErrorResponse \cup {None}]
    /\ now \in 0 .. MaxTime
    /\ signatures \subseteq Trees \X Leaves \X (NextState \cup Nullifiers)
    /\ sent \subseteq Message

\* One-time keys: no leaf of either tree ever signs two messages, whatever
\* the interleaving of the handlers and wherever a crash falls between the
\* reservation of a leaf, its signature and the finalization.
LeafSignsOnce ==
    \A s, t \in signatures :
        s[1] = t[1] /\ s[2] = t[2] => s[3] = t[3]

\* Whatever was sent survives a crash: the store holds the finalized
\* transcript behind every response and challenge and the reservation behind
\* every clearance.  So every response ever sent for a nullifier (first
\* answer, idempotent retry, recovery by either key, and by racing duplicates)
\* carries the same next state, and a clearance that was sent excludes a
\* response and a challenge, though clearance signatures may be made and
\* dropped.
SentIsDurable ==
    \A m \in sent :
        LET record == nullifiers[m.nullifier]
        IN  /\ record # None
            /\ m.kind = "response" =>
                  record.status = "Finalized" /\ record.transcript = m.body
            /\ m.kind = "challenge" => record.status = "Finalized"
            /\ m.kind = "clearance" => record.status = "ClearanceReserved"

\* What leaves the server was earned.  The successor in a response belongs to
\* the request that reserved the nullifier, was signed, and charges no more
\* than the cap, which the request's proof covers; a challenge the watcher
\* hands out carries a proved request for that nullifier whose successor the
\* server signed.
ResponseEarned ==
    /\ \A m \in sent : m.kind = "response" =>
          LET record == nullifiers[m.nullifier]
              r == m.body.request
          IN  /\ r.nullifier = m.nullifier
              /\ SameRequest(record, r)
              /\ <<"State", m.body.leaf, m.body>> \in signatures
              /\ m.body.charge <= ChargeCap
              /\ m.body.charge <= r.bound
    /\ \A m \in sent : m.kind = "challenge" =>
          /\ m.body \in Requests
          /\ m.body.nullifier = m.nullifier
          /\ m.body.proof = "valid"
          /\ \E s \in signatures : s[1] = "State" /\ s[3].request = m.body

\* A retry is answered from the record only when it repeats the request the
\* record was reserved for: a response a handler holds answers its own
\* request's client id and payload.
RetryAnswersItself ==
    \A h \in RequestHandlers : answer[h] \in Message =>
        /\ answer[h].body.request.clientId = req[h].clientId
        /\ answer[h].body.request.payloadHash = req[h].payloadHash

\* The server implements the ledger of nullifier fates: a fate is decided
\* once, by the store, before anything about it is sent.
FateOf(n) ==
    IF nullifiers[n] = None \/ nullifiers[n].status = "Reserved"
    THEN << >>
    ELSE IF nullifiers[n].status = "Finalized"
         THEN <<"spent", nullifiers[n].transcript>>
         ELSE <<"cleared">>
Seen(m) ==
    <<m.nullifier, IF m.kind = "clearance" THEN <<"cleared">>
                   ELSE <<"spent", m.body>> >>
Ledger == INSTANCE NullifierLedger WITH
            Successors <- {<<"spent", state>> : state \in NextState},
            Undecided <- << >>,
            Cleared <- <<"cleared">>,
            fate <- [n \in Nullifiers |-> FateOf(n)],
            published <- {Seen(m) : m \in {m \in sent : m.kind # "challenge"}}
ImplementsLedger == Ledger!Spec

\* Every call returns (or dies with the process): no handler waits for ever,
\* in particular not for the signer's lock when a tree is used up.
HandlersReturn == \A h \in Handlers : pc[h] # "idle" ~> pc[h] = "idle"

\* SPEC.md 9.8: reserved entries do not remain stuck indefinitely.
ReservedResolves ==
    \A n \in Nullifiers :
        (nullifiers[n] # None /\ nullifiers[n].status = "Reserved")
        ~> (nullifiers[n] # None /\ nullifiers[n].status = "Finalized")

=============================================================================

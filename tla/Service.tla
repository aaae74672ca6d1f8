------------------------------ MODULE Service ------------------------------
(***************************************************************************)
(* What the three wallets (Wallet, WalletV1, BrowserWallet) share: the     *)
(* data of a note, and the server with its nullifier ledger as they use    *)
(* it.  The server is not described further than they rely on: a nullifier *)
(* is reserved for one request and finalized with one signed successor, or *)
(* cleared.  stale_root is taken to be final: it is only answered for a    *)
(* request that was not and will not be reserved, which is when README.md  *)
(* allows a wallet to drop its journal ("an explicit server rejection      *)
(* before nullifier reservation").  The v1 server in this repository does  *)
(* not promise it: it compares the root before it looks the nullifier up   *)
(* and remembers no rejection, so a second copy of a request may get       *)
(* another answer than the first.                                          *)
(*                                                                         *)
(* Abstractions.  A commitment is binding, so it is the record of what it  *)
(* commits to; a blinding is a sum of independent random scalars, so it is *)
(* the sequence of its terms; a nullifier is the (note, anchor) pair it    *)
(* hashes; a signature is the message it signs.                            *)
(***************************************************************************)
EXTENDS Integers, Sequences, FiniteSets, Functions

CONSTANTS
    Notes,          \* note ids, one deposit each
    Deposits,       \* deposit amounts
    Ids,            \* client request ids (UUIDs)
    Anchors,        \* anchors the server may pick
    Genesis,        \* the anchor of a fresh note
    Charges,        \* charges the server may apply
    None

ASSUME ServiceAssumption ==
    /\ Deposits \subseteq Nat
    /\ Charges \subseteq Nat
    /\ Genesis \notin Anchors
    /\ None \notin Anchors \cup {Genesis}
    /\ IsFiniteSet(Notes)
    /\ IsFiniteSet(Anchors)

VARIABLES
    used,         \* history: notes deposited and request ids drawn
    posted,       \* requests that are, or ever were, on the wire
    rejected,     \* ids the server answered with stale_root
    ledger        \* what became of each nullifier

serverVars == <<posted, rejected, ledger>>

-----------------------------------------------------------------------------
(* Data.                                                                   *)

Nullifiers == Notes \X (Anchors \cup {Genesis})
Nullifier(s) == <<s.note, s.anchor>>

\* rerandomize and server_update on any commitment.
Rerandomize(commitment, term) ==
    [commitment EXCEPT !.blinding = Append(@, term)]
ServerUpdate(commitment, charge, term) ==
    [commitment EXCEPT !.balance = @ - charge, !.blinding = Append(@, term)]

\* The random scalars: the wallet's of a deposit and of a request, the
\* server's of a nullifier.
DepositTerm(note) == <<"deposit", note>>
UserTerm(id) == <<"user", id>>
ServerTerm(nullifier) == <<"server", nullifier>>

\* ApiRequest: what the server gets of a prepared request.
Request(id, nullifier, commitment, bound) ==
    [id |-> id, nullifier |-> nullifier, commitment |-> commitment,
     bound |-> bound]

ReservedFor(n, id) == ledger[n] # None /\ ledger[n].id = id
Finalized(n) == ledger[n] # None /\ ledger[n].status = "Finalized"
Cleared(n) == ledger[n] # None /\ ledger[n].status = "Cleared"

-----------------------------------------------------------------------------
(* The server.                                                             *)

ServiceInit ==
    /\ posted = {}
    /\ rejected = {}
    /\ ledger = [n \in Nullifiers |-> None]

\* Not a request that was rejected: stale_root is final.
ServerReserve(r) ==
    /\ r \in posted
    /\ r.id \notin rejected
    /\ ledger[r.nullifier] = None
    /\ ledger' = [ledger EXCEPT ![r.nullifier] =
                    [status |-> "Reserved", id |-> r.id,
                     commitment |-> r.commitment, bound |-> r.bound]]
    /\ UNCHANGED <<posted, rejected>>

ServerRejectStale(r) ==
    /\ r \in posted
    /\ ~ReservedFor(r.nullifier, r.id)
    /\ rejected' = rejected \cup {r.id}
    /\ UNCHANGED <<posted, ledger>>

ServerFinalize(n, charge, anchor, next) ==
    /\ ledger[n] # None
    /\ ledger[n].status = "Reserved"
    /\ charge <= ledger[n].bound
    /\ \A m \in Nullifiers : Finalized(m) => ledger[m].nextAnchor # anchor
    /\ ledger' = [ledger EXCEPT ![n] =
                    [status |-> "Finalized", id |-> ledger[n].id,
                     nullifier |-> n, charge |-> charge,
                     term |-> ServerTerm(n), nextCommitment |-> next,
                     nextAnchor |-> anchor,
                     signature |-> <<next, anchor>>, hash |-> "matches"]]
    /\ UNCHANGED <<posted, rejected>>

\* POST clearance: the nullifier is consumed when the server answers.
ServerClear(n) ==
    /\ ledger[n] = None
    /\ ledger' = [ledger EXCEPT ![n] = [status |-> "Cleared", id |-> None]]
    /\ UNCHANGED <<posted, rejected>>

\* Update is the server's arithmetic on commitments.
ServiceStep(Update(_, _, _)) ==
    \/ \E r \in posted : ServerReserve(r) \/ ServerRejectStale(r)
    \/ \E n \in Nullifiers, charge \in Charges, anchor \in Anchors :
          ServerFinalize(n, charge, anchor,
              Update(ledger[n].commitment, charge, ServerTerm(n)))

\* The stored answers, as a POST or a recovery returns them.
Responses == {ledger[n] : n \in {n \in Nullifiers : Finalized(n)}}

\* What may arrive instead: a field changed under way, an unsigned successor,
\* or one the server signed without applying the charge it reports.
Altered(response) ==
    LET richer == [response.nextCommitment EXCEPT !.balance = @ + 1]
    IN  {[response EXCEPT !.charge = @ + 1],
         [response EXCEPT !.nextAnchor = None],
         [response EXCEPT !.hash = "differs"],
         [response EXCEPT !.nextAnchor = Genesis],
         [response EXCEPT !.nextCommitment = richer,
                          !.signature = <<richer, response.nextAnchor>>]}
        \cup {[response EXCEPT !.id = id] : id \in Ids}

Arriving ==
    Responses \cup UNION {Altered(response) : response \in Responses}

\* What the server has charged to a note under the nullifiers in ns.
Charged(note, ns) ==
    SumFunction([n \in {n \in ns : Finalized(n) /\ n[1] = note} |->
                    ledger[n].charge])

-----------------------------------------------------------------------------
(* Types, given the commitments of the wallet.                             *)

Scalar == {DepositTerm(note) : note \in Notes}
          \cup {UserTerm(id) : id \in Ids}
          \cup {ServerTerm(n) : n \in Nullifiers}

\* A v2 commitment, which binds the balance to the note's leaf.
BoundCommitment == [note : Notes, balance : Nat, blinding : Seq(Scalar)]

\* What the ledger says of a nullifier.
Entry(Commitment) ==
    [status : {"Cleared"}, id : {None}]
    \cup [status : {"Reserved"}, id : Ids, commitment : Commitment,
          bound : Nat]
    \cup [status : {"Finalized"}, id : Ids, nullifier : Nullifiers,
          charge : Charges, term : Scalar,
          nextCommitment : Commitment, nextAnchor : Anchors,
          signature : Commitment \X Anchors, hash : {"matches"}]

ASSUME NoneAssumption == None \notin Entry(BoundCommitment)

ServiceTypeOK(Commitment) ==
    /\ posted \subseteq [id : Ids, nullifier : Nullifiers,
                         commitment : Commitment, bound : Nat]
    /\ rejected \subseteq Ids
    /\ ledger \in [Nullifiers -> Entry(Commitment) \cup {None}]

=============================================================================

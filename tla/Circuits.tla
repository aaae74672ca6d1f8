------------------------------- MODULE Circuits -------------------------------
(***************************************************************************)
(* The statements that the two proofs of zkapi-proof/src/groth16.rs prove, *)
(* as predicates on public inputs and witness.  Hashes and the Pedersen    *)
(* commitment are injective: a leaf is the tuple it hashes, a commitment   *)
(* the balance and the leaf it binds (its blinding hides, and no statement *)
(* depends on its value), a nullifier a number computed from secret and    *)
(* anchor.  A signature on a message exists when the server has signed it. *)
(***************************************************************************)
EXTENDS Naturals

CONSTANT MaxAnchor      \* bound on anchors; 1 is the genesis anchor

ASSUME AnchorAssumption == MaxAnchor \in Nat \ {0}

GenesisAnchor == 1
Anchors == GenesisAnchor .. MaxAnchor

\* poseidon(DOMAIN_NULLIFIER, secret, anchor), nonzero for a nonzero secret.
NullifierOf(secret, anchor) == secret * (MaxAnchor + 1) + anchor

\* poseidon(DOMAIN_REG, secret, 0): the registration commitment of a secret.
RegistrationCommitment(secret) == secret

NoteLeaf(id, secret, deposit, expiry) ==
    <<id, RegistrationCommitment(secret), deposit, expiry>>

\* Mutant: the commitment does not bind the note.
CommitmentUnbound(balance, leaf) == <<balance, << >> >>
Commitment(balance, leaf) == <<balance, leaf>>

\* state_message and clearance_message, for one deployment and its two keys.
StateMessage(deployment, commitment, anchor) ==
    [kind |-> "state", deployment |-> deployment, commitment |-> commitment,
     anchor |-> anchor]
ClearanceMessage(deployment, nullifier) ==
    [kind |-> "clearance", deployment |-> deployment, nullifier |-> nullifier]

\* The witness names a note by its leaf and by a tree that contains it.
LeafOf(wit) == NoteLeaf(wit.noteId, wit.secret, wit.deposit, wit.expiry)
InTree(wit, root) ==
    [wit.siblings EXCEPT ![wit.noteId] = LeafOf(wit)] = root

\* Mutant: a state needs no signature.
StateHoldsUnsigned(wit, deployment, signatures) ==
    wit.genesis => wit.anchor = GenesisAnchor /\ wit.balance = wit.deposit

\* The committed state is the note's deposit, or one the server has signed.
StateHolds(wit, deployment, signatures) ==
    IF wit.genesis
      THEN wit.anchor = GenesisAnchor /\ wit.balance = wit.deposit
      ELSE StateMessage(deployment, Commitment(wit.balance, LeafOf(wit)),
                        wit.anchor) \in signatures

RequestHolds(pub, wit, signatures) ==
    /\ wit.secret # 0
    /\ wit.expiry >= pub.requestTime
    /\ wit.balance >= pub.solvencyBound
    /\ InTree(wit, pub.activeRoot)
    /\ StateHolds(wit, pub.deployment, signatures)
    /\ pub.anonymousCommitment = Commitment(wit.balance, LeafOf(wit))
    /\ pub.requestNullifier = NullifierOf(wit.secret, wit.anchor)

WithdrawalHolds(pub, wit, signatures) ==
    /\ wit.secret # 0
    /\ wit.noteId = pub.noteId
    /\ wit.balance = pub.finalBalance
    /\ wit.deposit >= wit.balance
    /\ InTree(wit, pub.activeRoot)
    /\ StateHolds(wit, pub.deployment, signatures)
    /\ pub.withdrawalNullifier = NullifierOf(wit.secret, wit.anchor)
    /\ pub.hasClearance =>
         ClearanceMessage(pub.deployment, pub.withdrawalNullifier) \in signatures
===============================================================================

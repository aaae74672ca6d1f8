------------------------------ MODULE TreeMirror ------------------------------
(***************************************************************************)
(* The vault together with the indexer's mirror of its tree                *)
(* (zkapi-indexer/src/tree_mirror.rs, events.rs, service.rs) and the path  *)
(* that a browser wallet derives from a snapshot of it.                    *)
(*                                                                         *)
(* The contract keeps only the root, so whoever calls it takes roots and   *)
(* paths from the mirror, which consumes the vault's events in block order *)
(* and may lag behind by MaxLag events.  A vault action is taken with what *)
(* the mirror serves and appends its event to the stream.                  *)
(***************************************************************************)
EXTENDS ZkApiVault, Sequences

CONSTANTS
    Depth,      \* MERKLE_DEPTH
    MaxLag      \* bound: events emitted and not yet processed

ASSUME LagAssumption == MaxLag \in Nat \ {0}

VARIABLES
    mirror,     \* TreeMirror: the tree and the original leaves
    events,     \* vault events on their way to the indexer
    followed    \* history: the vault's root after the last processed event

mirrorVars == <<mirror, events, followed>>
allVars == <<vars, mirrorVars>>

Tree == INSTANCE MerkleTree WITH Zero <- ZeroLeaf

\* uint32 ids and a tree of depth 32: every id has a leaf.
ASSUME DepthAssumption == Depth \in Nat /\ MaxNoteId = Tree!Width(0) - 1

MirrorNew == [tree |-> Tree!NewTree, original_leaves |-> << >>]

Write(m, id, leaf) == [m EXCEPT !.tree = Tree!SetLeaf(@, id, leaf)]

\* Mutant: the leaf of a note that leaves the vault stays in the tree.
RemoveNothing(m, id) == m
Remove(m, id) == Write(m, id, ZeroLeaf)

\* Mutant: a challenge leaves the tree as it is.
RestoreNothing(m, id) == m

\* A challenge puts the leaf of the deposit back, if the deposit was seen.
Restore(m, id) ==
    IF id \in DOMAIN m.original_leaves THEN Write(m, id, m.original_leaves[id])
                                       ELSE m

Record(m, id, leaf) ==
    [Write(m, id, leaf) EXCEPT !.original_leaves = Tree!Insert(@, id, leaf)]

ProcessEvent(m, event) ==
    CASE event.type = "NoteDeposited" ->
           Record(m, event.noteId, ComputeLeaf(event.noteId, event.commitment,
                                               event.amount, event.expiryTs))
      [] event.type \in {"MutualClose", "EscapeWithdrawalInitiated",
                         "ExpiredClaimed"} ->
           Remove(m, event.noteId)
      [] event.type = "EscapeWithdrawalChallenged" -> Restore(m, event.noteId)
      [] event.type = "EscapeWithdrawalFinalized" -> m

\* What get_root, get_path and get_leaf serve, as the vault's model sees it:
\* the tree they describe.
Served == [id \in NoteIds |-> Tree!GetLeaf(mirror.tree, id)]

-----------------------------------------------------------------------------
(* The vault's entry points, with their events.                            *)

\* Every event carries what process_event reads.  newRoot is a field of four
\* of the six events; the model keeps it on all of them as history.
Emit(event) ==
    /\ Len(events) < MaxLag
    /\ events' = Append(events, event)
    /\ UNCHANGED <<mirror, followed>>

NoteEvent(type, id) == [type |-> type, noteId |-> id, newRoot |-> currentRoot']
DepositEvent(commitment, amount) ==
    [type |-> "NoteDeposited", noteId |-> nextNoteId, commitment |-> commitment,
     amount |-> amount, expiryTs |-> BucketedExpiry, newRoot |-> currentRoot']

MirrorInit == Init /\ mirror = MirrorNew /\ events = << >>
                   /\ followed = EmptyTreeRoot

DepositServed(commitment, amount, value) ==
    /\ Deposit(commitment, amount, value, Served)
    /\ Emit(DepositEvent(commitment, amount))

MutualCloseServed(inputs) ==
    /\ MutualClose(inputs, Served)
    /\ Emit(NoteEvent("MutualClose", inputs.noteId))

InitiateServed(inputs) ==
    /\ InitiateEscapeWithdrawal(inputs, Served)
    /\ Emit(NoteEvent("EscapeWithdrawalInitiated", inputs.noteId))

ChallengeServed(id, inputs) ==
    /\ ChallengeEscapeWithdrawal(id, inputs, Served)
    /\ Emit(NoteEvent("EscapeWithdrawalChallenged", id))

FinalizeAnnounced(id) ==
    /\ FinalizeEscapeWithdrawal(id)
    /\ Emit(NoteEvent("EscapeWithdrawalFinalized", id))

ClaimServed(id) ==
    /\ ClaimExpired(id, Served)
    /\ Emit(NoteEvent("ExpiredClaimed", id))

\* Steps of the vault that no tree event tells of.
OtherVaultStep ==
    /\ \/ \E caller \in Addresses, t \in Addresses : SetTreasury(caller, t)
       \/ \E caller \in Addresses : Pause(caller) \/ Unpause(caller)
       \/ Tick
    /\ UNCHANGED mirrorVars

\* The indexer takes the next event under the write lock.
Consume ==
    /\ events # << >>
    /\ mirror' = ProcessEvent(mirror, Head(events))
    /\ events' = Tail(events)
    /\ followed' = Head(events).newRoot
    /\ UNCHANGED vars

MirrorNext ==
    \/ \E c \in Commitments, a \in Amounts, v \in Values : DepositServed(c, a, v)
    \/ \E w \in WithdrawalInputs({Served}) : MutualCloseServed(w)
    \/ \E w \in WithdrawalInputs({Served}) : InitiateServed(w)
    \/ \E id \in NoteIds, r \in RequestInputs : ChallengeServed(id, r)
    \/ \E id \in NoteIds : FinalizeAnnounced(id)
    \/ \E id \in NoteIds : ClaimServed(id)
    \/ OtherVaultStep
    \/ Consume

\* Blocks and events keep coming; due withdrawals are finalized and expired
\* notes are claimed, with whatever path the indexer serves at the time.
MirrorSpec ==
    /\ MirrorInit
    /\ [][MirrorNext]_allVars
    /\ WF_allVars(Tick /\ UNCHANGED mirrorVars)
    /\ WF_allVars(Consume)
    /\ \A id \in NoteIds : WF_allVars(FinalizeAnnounced(id))
    /\ \A id \in NoteIds : WF_allVars(ClaimServed(id))

-----------------------------------------------------------------------------
(* zkapi-browser/src/lib.rs: a path from a snapshot of the whole tree.     *)

\* Mutant: the advertised root is not verified.
SnapshotRootAny(snapshot, tree) == TRUE
SnapshotRootHolds(snapshot, tree) == Tree!Root(tree) = snapshot.root

\* The tree that tree_path rebuilds: one set_leaf per entry, in order.
Rebuilt(leaves) ==
    LET build[n \in 0 .. Len(leaves)] ==
          IF n = 0 THEN Tree!NewTree
                   ELSE Tree!SetLeaf(build[n - 1], n - 1, leaves[n])
    IN  build[Len(leaves)]

\* The set of paths tree_path returns: one, or none when it fails.
TreePath(snapshot, id, requireExisting) ==
    LET tree == Rebuilt(snapshot.leaves) IN
    IF /\ Len(snapshot.leaves) = snapshot.next_note_id
       /\ IF requireExisting THEN id < snapshot.next_note_id
                             ELSE id = snapshot.next_note_id
       /\ SnapshotRootHolds(snapshot, tree)
      THEN {Tree!GetSiblings(tree, id)} ELSE {}

\* Snapshots a wallet may be handed: of the mirror, cut at any length, and
\* with the root of the vault, which the mirror may lag behind.
Snapshots ==
    {[root |-> root, next_note_id |-> n,
      leaves |-> [i \in 1 .. n |-> Served[i - 1]]] :
        root \in {Tree!Root(mirror.tree), Tree!RootOf(currentRoot)},
        n \in 0 .. MaxNoteId}

-----------------------------------------------------------------------------
(* Properties.                                                             *)

\* SPEC.md 11.1: the mirror maintains the leaf map and the root.  After every
\* event its root is the one the vault had after emitting it, so a mirror
\* that has seen all events has the vault's root; in particular a note that
\* was frozen and challenged, perhaps twice, is back with its old leaf.
MirrorFollows ==
    /\ Tree!Root(mirror.tree) = Tree!RootOf(followed)
    /\ events = << >> => Tree!Root(mirror.tree) = Tree!RootOf(currentRoot)

\* SPEC.md 11.1: "Incorrect sibling paths only cause proof or transaction
\* failure."  The path served by a mirror, however far behind, passes
\* verifyAndUpdate exactly when the rest of its tree is the vault's, and the
\* new root is then the vault's tree with this one leaf replaced.
PathCheckExact ==
    \A id \in NoteIds :
        LET siblings == Tree!GetSiblings(mirror.tree, id)
            proves(leaf) ==
                Tree!ComputeRoot(id, leaf, siblings) = Tree!RootOf(currentRoot)
            written(leaf) ==
                Tree!ComputeRoot(id, leaf, siblings)
                    = Tree!RootOf([currentRoot EXCEPT ![id] = leaf])
            leaves == {ZeroLeaf, Leaf(id, notes[id])}
        IN  \A old \in leaves :
              /\ proves(old) <=> ComputeRoot(id, old, Served) = currentRoot
              /\ proves(old) => \A new \in leaves : written(new)

\* The browser's tree_path: whatever snapshot it is handed, a path it returns
\* proves the leaf of the snapshot under the advertised root.
SnapshotPathProves ==
    \A snapshot \in Snapshots, id \in NoteIds, existing \in BOOLEAN :
        \A siblings \in TreePath(snapshot, id, existing) :
            Tree!ComputeRoot(id, IF existing THEN Served[id] ELSE ZeroLeaf,
                             siblings) = snapshot.root
===============================================================================

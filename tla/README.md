# zkAPI: specification and proofs

This directory holds TLA+ models of the zkAPI settlement contract, indexer,
server, signer and wallets, and of their composition, the TLC configurations
that check them, and TLAPS proofs about the contract, the indexer, the server,
the signer and its signatures, the three wallets and the settlement of notes
by all of them.
Paths below are relative to the repository root.

## 1. The system

zkAPI sells API calls against a deposit without linking the calls. A user
deposits into a vault contract and owns a *note*. Each request proves in zero
knowledge that the note is active and that its hidden balance covers the
maximum charge, and reveals a one-time *nullifier*. The server executes the
call, subtracts the charge from the committed balance, and signs the successor
state. The user leaves with a withdrawal proof: at once with the server's
*clearance* signature (mutual close), or alone after a challenge period
(escape), during which the server may show a request that spent the same
nullifier.

### Inventory

| component | state | operations | hard behaviour |
|---|---|---|---|
| **Vault** `contracts/src/ZkApiVault.sol` + libraries | note table, pending withdrawals, used nullifiers, Merkle root, treasury, pause flag, funds | deposit, mutualClose, initiate/challenge/finalize escape, claimExpired, setTreasury, pause, unpause | any order of calls by anyone; the deadline's edge; id and time overflow; a payout that reverts; notes that come back |
| **Request processor** `rust/crates/zkapi-server/src/processor.rs`, `routes.rs`, `provider.rs` | current root; the handlers' locals | process_request, process_clearance, recovery by id and by nullifier, update_root | handlers race on one nullifier; crash anywhere; provider fails after the reservation |
| **Nullifier store** `nullifier_store.rs` | SQLite table, durable | reserve, finalize, reserve_clearance, lookups | lookup and insert are separate; entries left Reserved; column widths |
| **Durable signer** `signer.rs`, `zkapi-crypto/src/xmss.rs` | next leaf of two one-time trees, durable; a mutex | reserve_leaf, sign_next_state, sign_clearance | a leaf must never be used twice; a tree runs out |
| **Challenge watcher** `watcher.rs` | none (reads the store) | build_challenge_action | only finalized requests may be used |
| **Wallet v2** `zkapi-client/src/wallet_v2.rs`, `journal.rs`, `note_state.rs` | state file, journal file, archive; the state in memory | confirm_deposit, prepare_request, request_flow, complete_pending_response, recover, withdrawals, archive_note | crash between two writes; late, repeated or altered answers; stale roots |
| **Wallet v1** `wallet.rs` | the same, the request itself only in memory | the same in one call, request_flow; recover; clearance | posts once; a response is not compared with the journal; sums of blindings pass the group's order |
| **Browser core** `zkapi-browser/src/lib.rs` | none: the host keeps it | confirm_deposit, prepare_request, complete_response, prepare_withdrawal, wallet_status, tree_path | persistence is the host's; several tabs; a configuration that changes between two calls |
| **Indexer** `zkapi-indexer` | mirror of the Merkle tree | apply vault events, serve paths | leaves that are removed and restored |
| **Core** `zkapi-core` | none | Merkle tree, nullifiers, commitments | sparse levels, sides of a path |
| **Crypto** `zkapi-crypto` | a cursor per XMSS keypair | WOTS+ digits and chains, XMSS trees and verification, Pedersen commitments | one-time leaves, checksum, index and height that come with the signature, scalars larger than the group |
| **Circuits** `zkapi-proof`, `cairo/` | none | request and withdrawal statements | what a proof binds |
| **Proof adapter** `contracts/src/adapters` | verifying keys | Groth16 verification | arithmetic |
| **CLI, scripts, setup** | none | argument parsing, I/O, key ceremony artifacts | none |

How they interact. The wallet posts requests to the server (`POST
/v1/requests`, `/v2/requests`), recovers with `GET` by request id or
nullifier, and asks for clearances. Application code sends the wallet's
withdrawal proofs to the vault. The vault's events drive the indexer's mirror;
its roots reach the server through `update_root` and the wallet as paths. The
watcher turns archived requests into challenges to the vault. Two names cross
the components: the *nullifier*, consumed by the server off chain and by the
vault on chain, and the *root*, which goes stale everywhere but in the vault.

What makes each component correct:

* vault: each deposit is paid out exactly once, never more than deposited, to
  the announced destination and only after the challenge window; the root is
  the set of active notes; nobody's funds are stuck;
* server: a nullifier meets one fate, decided durably before it is answered;
  a one-time key signs once; a retry gets its own answer;
* wallet: the state on disk is always spendable, each charge is counted once,
  and a spent state never loses the journal that recovers its successor; the
  browser core, whatever tabs and configuration call it, lets the store only
  advance along the chain of signed states;
* signatures: what was issued verifies, in one shape and for one message only,
  and nothing verifies that was not signed with that leaf.

## 2. Modules

| module | models | extends / instances |
|---|---|---|
| `ZkApiVault` | the vault | `Escrow` (refinement) |
| `Escrow` | what the vault promises per note | |
| `RequestProcessor` | processor, store, signer, watcher, crash and restart | `NullifierLedger` (refinement) |
| `NullifierLedger` | what the server promises per nullifier | |
| `RequestProcessorProofs` | theorems on the server | `RequestProcessor` |
| `Service` | what the three wallets share: the data of a note, the network, the server as they use it | |
| `ServiceProofs` | lemmas on what a wallet may rely on | `Service`, `SumProofs` |
| `Wallet` | wallet v2 with its disk | extends `Service` |
| `WalletProofs` | theorems on the v2 wallet | `Wallet`, `ServiceProofs` |
| `WalletV1` | wallet v1 with its disk and commitment arithmetic | extends `Service`, instances `Pedersen` |
| `Pedersen` | the v1 balance commitment | |
| `WalletV1Proofs` | theorems on the v1 wallet | `WalletV1`, `ServiceProofs` |
| `BrowserWallet` | the browser core and its host | extends `Service` |
| `BrowserWalletProofs` | theorems on the browser wallet | `BrowserWallet`, `ServiceProofs` |
| `SumProofs` | lemmas on sums over finite sets, induction up to a number | |
| `Xmss` | WOTS+, XMSS, the verifier, the signer of the server | |
| `XmssProofs` | theorems on the signer and the signatures | `Xmss`, `SumProofs` |
| `MerkleTree` | the sparse Merkle tree and the path folding | |
| `TreeMirror` | vault, its event stream, the indexer's mirror, the browser's `tree_path` | extends `ZkApiVault`, instances `MerkleTree` |
| `Circuits` | the statements of the two circuits | |
| `Settlement` | vault, circuits, server and watcher | extends `ZkApiVault`, `Circuits` |
| `VaultProofs` | theorems on the vault and the two compositions around it | `Settlement`, `TreeMirror`, `SumProofs` |
| `MCZkApiVault`, `MCRequestProcessor`, `MCWallet`, `MCWalletV1`, `MCBrowserWallet`, `MCXmss`, `MCTreeMirror`, `MCSettlement` | instances for TLC | |

### ZkApiVault

One action per external function; `nonReentrant` makes a call one step, and a
call that reverts is no step. State variables are the contract's storage
slots. `vaultBalance` is what the vault owns, `now` is `block.timestamp`;
`paidOut`, `paidNullifiers` and `challenged` are history.

Data abstractions. Poseidon is taken as injective: a leaf is the tuple it
hashes, a root the map from ids to leaves, a sibling path a view of that map
(current, or of a mirror that has seen no event). A wrong path fails
`VerifyAndUpdate` as it does in `MerkleUpdateLib`. The proof adapter is the
pair of operator constants `ValidWithdrawal` and `ValidRequest`; the runs use
an adapter that accepts everything, so the vault's promises do not lean on
soundness of the proofs. Checked arithmetic is a guard (`NoteIdLeft`,
`FitsTimestamp`). Accounts in `Rejecting` revert on receipt of funds; in the
`vault` run one of them does, and may be destination and treasury.

### RequestProcessor

Handlers are tasks that run concurrently. A step is one access to shared
state with the local code around it: the checks of steps 1-9 with the root
lock, the lookup, the insert, the provider call, the leaf reservation
(`operation_lock` is taken and the counter committed), the signature (the lock
is released), the conditional `UPDATE`, and the answer. `Restart` may happen
between any two: the tables survive, the root falls back to the configured
one, handlers die with their answers. Requests are records of exactly the
fields `process_request` reads; a payload hash is the payload it hashes.

The successor state is a function of the request's inputs, the charge and the
leaf index, so that triple stands for it; two handlers that sign successors
for one nullifier use two leaves and make two different states. A charge is
stored as `finalize` and `row_to_record` store it: cast to a signed 64-bit
column and sign-extended on the way back (`StoredCharge`).

`lookup_by_nullifier` turns a database error into "not found"; SQLite itself
is assumed not to fail. The in-memory signer that only tests construct is not
the modelled one, but is the mutant for `LeafSignsOnce`.

### Wallet

A step ends at each durable write; `save` and `write` rename a finished file
into place, so a write is atomic and a crash falls between writes. Methods
take `&mut self`, so operations do not overlap. Pedersen commitments are
binding: a commitment is the opening it hides, a blinding is the sequence of
its random terms, hence `AlgebraHolds` compares what `server_update` of the
rerandomized commitment must give. `Arriving` is what the network may deliver:
any stored answer of the server, at any time and any number of times, or one
with a field changed, an unsigned successor, or a successor that was signed
but does not follow from the charge. `clear_pending_request` is called as its
comment demands and as `request_flow` does: after a rejection that came before
the reservation.

The v2 server is not in this repository. `Service` holds what the wallets
expect of it (`ServerReserve`, `ServerRejectStale`, `ServerFinalize`,
`ServerClear`): one request per nullifier, one signed successor within the
bound that was proved, `stale_root` only for requests that were not reserved
and will not be. The last is what `README.md:66` asks of the rejection after
which a journal may be dropped ("an explicit server rejection before nullifier
reservation"). The v1 server in this repository does not promise it:
`processor.rs:119-125` compares the root before the lookup and remembers no
rejection, so of two copies of one request one may be rejected and the other
reserved. For the v1 wallet, which posts a request once, the two are the same;
what a v2 wallet would lose against such a server is not covered.
The arithmetic of the successor is a parameter of `ServiceStep`, so that each
wallet brings its own commitments.

### WalletV1 and Pedersen

`wallet.rs` is kept beside `wallet_v2.rs` and not exported. The differences are
what the module is about. `request_flow` is one call that holds `&mut self`
over the await: `RequestFlow` writes the journal, `Post` sends once,
`RequestAnswered`, `StaleRoot` or `RequestFails` end it. The journal has id,
nullifier and rerandomization and not the request, so nothing is ever repeated:
after a failure only `Recover` is left. `verify_request_response` checks hash,
cap, anchor, algebra and signature, and neither id nor nullifier; that no other
answer can pass is `StateBacked`. `archive_note` does not touch the journal, and
may be called at any time: that it comes "after a successful close" is said in its
comment and checked nowhere.

The commitments are computed in a group of order `CurveOrder`, in coordinates
over the two generators, with scalars from a field of order `FieldOrder` larger
than the group. `Felt` gives each random scalar a number; the instance picks
numbers whose sums pass the one order, the other, or end between the two.
Random scalars can collide: two different requests can have blindings with the
same sum, and then the answer to the one passes as the answer to the other.
`NoCollision` says of a state that this has not happened: if the blinding that
the wallet computes from its two files equals that of a request that was ever
posted, both are sums of the same terms (`Summed`). It compares one pair of sums
per state and posted request, which random scalars of 251 bits fail with
negligible probability, however many there are. It is the hypothesis of the
theorems on `WalletV1`; the specification does not assume it. The small instance
has scalars of which no two sets have the same sum (`GeneralPosition`, evaluated
by TLC), which is far more and implies it (`SpecNoCollision`).
`pedersen.rs:23-31` explains why the sums must be taken modulo the group's
order: with field addition instead, the model breaks `StateBacked`.

### BrowserWallet

The core is a set of pure functions of a state, a journal and a configuration
(`CanPrepare`, `JournalFor`, `CanComplete`, `NextState`, `ClearanceFits`,
`WithdrawalPlan`). Around them is a host with one store and several tabs. A tab
reads the store, lets the core work, and writes back in a later transaction;
other tabs act in between, a tab may be closed, and each call may get another
configuration. The host does what `README.md:74` asks: a
request is stored before it is sent, a completed state is saved in the same
transaction that clears the journal, a journal is dropped only after a
rejection before the reservation. Two conditions in its transactions are not
written down there and are needed: a prepared journal is stored only if none is
pending *and the stored state still is the one it spends* (without the second
part `AnswerCompletes` fails: a request prepared for a note that was closed
meanwhile is stored beside the next note), and a completed state is stored only
if the journal it answers is still the stored one. A host without them breaks
what the core promises.

### Xmss

`message_to_base_w`, the chains, `wots_pk_to_leaf`, tree construction,
authentication path and `XmssVerifier::verify` as written, over injective
hashes: a chain value is its secret with the step indices it was hashed with,
so a chain that is started at the wrong index is another value. Powers and
repeated division are recursive functions (`Power`, `Quotient`), as the code's
loops are. A digest may have more than `Len1` digits; what is above them is not
signed (the top eight bits of a field element). The verifier
takes the height from the signature, as the code does, and refuses 32 and more
(`IndexBits`; `1u32 << height` has no meaning there). `Follows` is what can be
put together from all signatures given out: for every chain a value of theirs,
hashed on. `ServerSigner` is modelled in both forms, with the durable counter
(reserve, sign, restart) and in memory. `state_next_index` and
`clear_next_index` report 0 when the store fails (`unwrap_or(0)`,
`signer.rs:216`); as everywhere, SQLite is taken not to fail, so `NextIndex` is
the counter. The two trees have different seeds here. The configuration takes
two seeds and nothing compares them; with one seed for both the leaves of the
two trees would share their keys, and the two properties on signatures would not
hold across them.

### MerkleTree and TreeMirror

`MerkleTree` translates `zkapi-core/src/merkle.rs` level by level: the node
cache is a partial map per level, an absent node stands for the zero hash of
its level, and the hash of a node is the pair of its children. `RootOf` is the
independent reference, the complete binary tree over all leaves.

`TreeMirror` composes it with the vault. The contract stores only the root, so
every caller takes root and path from the mirror: each vault action is taken
with what the mirror serves at that moment and appends its event; `Consume`
applies `process_event` to the oldest event. `followed` is the vault's root
after the last processed event. This also grounds the abstraction of
`ZkApiVault`, where a root is a map and a path a view: `PathCheckExact` says
that the hash computation accepts and writes exactly what the map view does.

### Circuits and Settlement

`RequestHolds` and `WithdrawalHolds` list the constraints that
`generate_constraints` enforces, over a witness of secret, note, tree, balance,
anchor and genesis flag; a signature exists when the server has signed that
message. Blindings, the authorization tag and the withdrawal tag bind values
that the model carries directly and are left out.

`Settlement` lets the vault's adapter accept what the circuits state. The
server is atomic per request, which is what `NullifierLedger` promises and
`RequestProcessor` is shown to implement. Its root may be behind the vault's.
Users claim any balance and anchor for their notes and exit with whatever they
can prove. Two things are assumed and named: `FreshDeposit` (a wallet samples a
new secret per note) and `Timely` (the clock does not pass a challenge deadline
before the server has learned the vault's root and its watcher has submitted
the evidence it holds, SPEC.md 9.9). A request may be lost after its proof has
left the user (`LoseRequest`: an error before the reservation, or a reservation
that is never finalized); `sent` has the nullifiers of all proofs that were
sent, `archive` those of the finalized requests. A challenge may use any proof
that was sent, from anyone, since the vault and its adapter ask no more;
`Timely` is about the evidence in the archive, which is what
`build_challenge_action` takes. The server gives at most `MaxClearances`
clearances.

## 3. Runs

| run | what it shows | states |
|---|---|---|
| `vault` | three ids (two usable), two nullifiers, native asset, clock 0..3 with expiry and deadline at the end of the range: type, root, ids, pending records, challenged-never-paid, solvency, the window, refinement of `Escrow` (each note pays out once, all of its deposit); a begun escape is resolved, also when the owner pauses for ever, if destination and treasury end up taking their shares; one account rejects payments | 135,120 |
| `vault_payout_stuck` | *violation*: finding 3 | |
| `settlement` | two notes, two requests, clock 0..2: a note is settled at its deposit less its charges or claimed after expiry, it has one unspent state, and its owner can exit with that state unless he sent an unfinalized request with it and was challenged with that | 846,932 |
| `mirror` | three usable ids in a tree of depth 2, token asset, a mirror up to two events behind: it reproduces the vault's root event by event, served paths are accepted exactly when they describe the vault's tree, snapshot paths prove their leaf, and with served paths only every deposit is settled | 61,678 |
| `server_race` | two request handlers and one clearance handler on one nullifier, two leaves per tree, a provider that fails or charges 0 or 1, crashes anywhere: one message per leaf, nothing sent that a crash or a racing handler undoes (hence one successor per nullifier and no clearance beside it), refinement of `NullifierLedger`; every handler returns, also when a tree runs out while others wait for the lock | 233,119 |
| `server_retry` | one handler, two nullifiers under one client id, retried, re-proved, rival and malformed requests, a moving root and a moving clock, charges within and above the cap: what is answered, or handed out as a challenge, belongs to the proved request that reserved | 43,772 |
| `server_reserved_stuck` | *violation*: finding 1 | |
| `wallet` | two notes, two requests, deposit 1 with cap 1 and charges 0 and 1, crashes between any two writes: state backed by a signature, charges counted once, spent states recoverable, cleared withdrawals final; once crashes stop, a pending request of the state on disk is resolved | 433,819 |
| `wallet_crash_stuck` | *violation*: finding 2 | |
| `wallet_v1` | the same bounds for the v1 wallet, group of order 1000003 in a field of order 1000033, both codes for a stale root: state backed, charges counted once, spent states recoverable, cleared withdrawals final; what the server finalized is installed once crashes stop, unless the owner withdraws or archives | 271,570 |
| `browser` | two tabs, two notes, three requests, charges 1 and 2 on a deposit of 3, caps 1 and 2 and the configuration of another deployment: spent states recoverable, a finalized answer can be completed from the store, the store only advances by the successor and its charge, cleared withdrawals final | 427,687 |
| `xmss` | base 3, two digits and two checksum digits, height 2, two trees, both signers, restarts: what is issued verifies and in no other shape, tree or message; nothing follows that was not signed with the leaf; the next index is unused | 67,894 |

Bounds. The vault's properties speak of one note, or of two that compete for a
nullifier, so two usable ids suffice, and a third shows the end of the id
space. The clock is long enough for a note to be deposited, exit, be
challenged, exit again and expire. In the server a race needs two requests and
a clearance on one nullifier; a second nullifier matters only through a shared
client id, and the retry run has it. Two leaves per tree let two successors be
signed and a third fail. A tree of depth 2 has a sibling subtree that is empty,
half full and full; a mirror two events behind sees an exit and its challenge
at once. In `settlement`, two requests give a note a spent, a twice spent and
an unspent state, and two clearances cover two notes, or a spent and an unspent
state of one. Two requests let a wallet be rejected and try again, or be charged and go on, on one note or on
two, one of them with the other's journal; with cap 1 and deposit 1 a charge of
1 brings the balance to the point where preparing is refused, a charge of 0
does not. Three requests in the browser let two tabs prepare for one state and
a third go on from its successor; caps on both sides of a charge let it change
between preparing and completing. `MCBrowserWallet` identifies states up to
renaming of ids, anchors, notes and tabs, which the model only compares. The
Xmss instance has two digests, 0 with digits 0 0 and 14 with digits 1 2 and a
third that is not signed, so that the chains of the one can be hashed on to
those of the other but for the checksum; every leaf of both trees is signed.

Deadlock is checked except in the runs with the vault, where the clock stops at
the end of its range and all notes may be closed, in `browser`, where the notes
run out, and in `xmss`, where the trees do.

### Fairness

* `ZkApiVault!FairSpec`: blocks keep coming, and a due withdrawal is finalized,
  since anyone may call and the destination's owner has the interest (a call that
  reverts is no step, so a payout that is refused for ever is no promise).
  Challenges, deposits, closes and owner actions are not fair.
* `TreeMirror!MirrorSpec`: the same with events that are eventually processed
  and an operator that claims expired notes, which is how the operator is paid
  for unclaimed notes (PROTOCOL.md); finalizing and claiming use whatever path
  is served at the time.
* `RequestProcessor!FairSpec`: a running task is scheduled, a mutex is granted,
  the provider call returns. `SettledSpec` adds that crashes stop eventually.
* `Wallet!FairSpec`: the application restarts the wallet, retries and recovers
  while a request is pending; the server finalizes what it reserved; crashes
  stop eventually. Strong fairness is needed for retry and recovery because a
  withdrawal in progress or a crash disables them for a while.
* `WalletV1!FairSpec`: the application restarts the wallet and calls `recover`
  while there is a journal; each call returns; crashes stop eventually. Nothing
  is assumed of the server: `FinalizedIsInstalled` begins when it has finalized.

## 4. Proofs

Every theorem holds for all values of the constants that satisfy the named
assumptions; TLC evaluates these on every run. Each inductive invariant was
first checked by TLC on the bounds of section 3.

### The vault (`VaultProofs`)

For every number of notes, every clock range, period, amount set, account set
and every adapter: `VaultTypeOK`, `VaultTreeMatchesNotes`, `VaultIdsInOrder`,
`VaultPendingSound`, `VaultChallengedNeverPaid`, `VaultPaidExactlyOnce`
(`PaidExactlyOnce` is in no run of its own: `ImplementsEscrow` contains it),
`VaultSolvency`, the action property `VaultEscapeRespectsWindow` and the
refinement `VaultImplementsEscrow`.

Assumptions: `BoundsAssumption`, `PeriodAssumption` (the constructor refuses a
zero period), `DataAssumption` and `NullifierAssumption` (no nullifier is 0,
the value a deleted record holds).

The inductive invariant `IInv` is the conjunction of the six invariants and
`OutcomesBurned`. None of the interesting ones is inductive alone: the
operator's share is a natural number only because a pending record promises at
most the deposit (`PendingSound`); `PaidExactlyOnce` needs the same;
`PendingSound` needs to know that a nullifier consumed now has no outcome yet
(`OutcomesBurned`); `ChallengedNeverPaid` needs that the nullifier of a pending
record has none (`PendingSound`). There is one lemma per entry point, with
shared lemmas on paths, payouts, status changes and deletions. The window and
the refinement both follow from `StepShape`: a step concerns at most one note
and moves it along one edge of its life. `Solvency` follows from the same shape
and the lemmas on sums: the one note that moves adds its deposit to the sum or
takes it away, and the vault's balance changes by as much.

### Sums (`SumProofs`)

Lemmas only, none of them about the code. The library defines a sum over a set by choice and recursion, and the provers
have no induction over sets. `SumAdd` (an added element adds its value) is
proved from the existence of an additive function on the finite subsets: were
there a set on which the recursion is not defined, there would be a smallest
one. `SumSplit`, `SumSame` and `SumInt` follow. The deposits of the vault, the
charges of a note and the checksum of a digest are such sums.

`Climbing` is the induction that the later proofs use: a set of numbers up to
`n` that has 0, and with each number the next, has all of them. It states
induction for a set instead of a predicate, which the provers can instantiate.
A recursive function then takes two lemmas: its recursion has a solution, built
one level after the other (`WidthExists`, `PathExists`, `LevelsExist` and the
like), and the chosen one satisfies it (`WidthFacts` and so on).

### The server (`RequestProcessorProofs`)

For any number of handlers, requests, nullifiers, charges and leaves:
`SpecTypeOK`, `SpecLeafSignsOnce`, `SpecRetryAnswersItself`,
`SpecSentIsDurable`, `SpecResponseEarned` and the refinement
`ServerImplementsLedger`. The last three have the hypothesis `ColumnFits`,
`ChargeCap < ColumnHalf`: the charge column is a signed 64-bit integer and the
charge is not. No code enforces it; it is true of every configuration the
repository contains, and without it the stored answer is not the one that was
sent (section 5).

The inductive invariant has four parts. `LeafInv`: every signature is below its
tree's counter, and the handler inside the signer's lock holds a leaf that is
counted and has not signed. `StoreInv`: a finalized transcript is of a checked
request that reserved this nullifier, with a signed successor, and whatever was
sent is backed by the table. `RequestSound` and `ClearanceSound` say what a
handler has established at each label; in particular `Owned`, that its
reservation is still there or was finalized for the same request by a racing
handler. That the invariant survives `Restart` is the crash safety: the tables
are all it needs.

### The signer and its signatures (`XmssProofs`)

For every Winternitz parameter, digest and checksum length, tree height, any
number of trees with different seeds and any digests, and every height below
32. Assumption: `XmssAssumption`, which says that
`Len2` digits hold every checksum (62 * 15 < 16^3 in the code).

*One leaf, one message.* `SignerTypeOK`, `SignerNextIndexUnused` and
`SignerLeafSignsOnce`. The inductive invariant `SignerInv` adds to these
`HeldFresh`: the leaf reserved and not yet used is below the counter and in no
signature. It links the reservation, where freshness comes from
`NextIndexUnused`, to the signature, where it is used; a restart in between
makes it vacuous. The two theorems on signatures need no more than `SignerInv`.

*What verifies was signed*, `SignerOnlySignedFollows`. A value that recovers the
public key lies no higher in its chain than the digit asks for
(`RecoverOnlyUpwards`, by the lengths of the chains), and all values for a leaf
come from its one signature, so the digits put together dominate the signed
ones. They are then the same (`DigitsDominate`): the digits of the checksum
dominate, so the checksum is at least the signed one (`DigitsOrder`, which is
where it must fit its digits); but it falls with every digit of the digest that
rises, so none has (`ChecksumOpposes`).

*A signature is good for one thing*, `SignerSignatureExact`. `ClimbAncestors`:
the climb from a leaf along its own path meets its ancestors, so it ends at the
root. `NodesDistinct`: no two nodes of a level are equal, in one tree or in two,
since the leaves differ (their keys do) and hashes are injective; so the roots
differ. Two climbs along one path that end alike began alike (`ClimbBack`), so
other digits end elsewhere (`WotsExact`). With another index two climbs part at
some level, where the sibling would have to be the node itself
(`ClimbNeedsIndex`). A path that is cut ends at a node below the root, and no
such node equals it (`RootIsHighest`, `ClimbNeedsLength`); one that is repeated
climbs on from the root and does not come back to it (`ClimbNeedsOnce`).

### The v2 and browser wallets (`ServiceProofs`, `WalletProofs`, `BrowserWalletProofs`)

`WalletProofs`, for any number of notes, ids, anchors and charges:
`SpecTypeOK`, `SpecStateBacked`, `SpecSpentStateRecoverable` and
`SpecClearedWithdrawalFinal` of the v2 wallet. `BrowserWalletProofs`, for any
number of tabs and configurations besides: `SpecSpentStateRecoverable`,
`SpecAnswerCompletes`, `SpecClearedWithdrawalFinal` and the action property
`SpecStoreAdvances`.

Both rest on `ServiceProofs`, which has one lemma per step of the server and
per way a wallet adds to or takes from the requests it has journaled (`J`, one
or none). The core is `LastState(n, c, J)`: the state with nullifier `n` and
commitment `c` is the last of its note. It opens a deposit or a signed
successor; requests that spend it are of its own commitment; the one that may
still succeed is journaled; its successor is known to nobody; no other state of
the note may be charged or is cleared. `ServiceInv(J)` says that requests and
ledger entries are what they should be, that anchors are given out once, and
that a cleared note is charged no more.

* `OpensUnique` is the heart of it, and needs no induction: since a blinding
  ends with the server's term of the nullifier it succeeds, two states of one
  note with the same blinding have the same nullifier. `AcceptedIsAnswer` then
  shows that whatever arrives, if it passes the algebra and the signature it is
  the server's answer to the request that spends this state, altered or not.
* `SuccessorIsLast` moves `LastState` along: when the answer is installed, its
  nullifier is fresh, so the journal may go.
* `ChargedMovesOn` adds the charge to what was charged before, with the lemmas
  on sums; this is where the notes and anchors have to be finite.

The wallet's own invariant says that the state on disk is a `LastState` of the
journal on disk, that it has paid every charge (`DiskSound`), and that between
the write of the state and the removal of the journal nobody knows the new
state (`LastOnDisk`). The browser's says the same of the store, and of each tab:
a prepared journal has an id nobody else has and fits the stored state unless
the state it was made for is spent or its note is gone; a completed state is the
successor of the stored one while the journal it answers is stored. These two
are what the conditions in the host's transactions are for.

Assumptions: `ServiceAssumption` (amounts are natural numbers, the genesis
anchor is no server's anchor, finitely many notes and anchors), and that `None`
is no record (`NoneAssumption`, `WalletNoneAssumption`,
`BrowserNoneAssumption`).

### The v1 wallet (`WalletV1Proofs`)

For any number of notes, ids, anchors and charges and groups of every order
above 1: `SpecStateBacked`, `SpecSpentStateRecoverable` and
`SpecClearedWithdrawalFinal`, each of the form `Spec /\ []NoCollision => []P`:
they speak of the runs in which no two blindings collide by accident. The
hypothesis is needed: `verify_request_response` compares neither id nor
nullifier, so with colliding sums the answer to another request passes. It
grows with the run and not with the sets of the model, so it rules out no
wallet for its length. `SpecNoCollision` shows that it can be met: every
behaviour has it if the scalars are in `GeneralPosition`, as those of the
instance are. That stronger condition is possible for few scalars only (the
sums of their subsets must all differ modulo the order), and no other theorem
has it.

A commitment is here a pair of numbers below the order and not the sequence of
its terms, so the argument of the other wallets is not available. It is replaced
by two steps. First the group: `Reduced`, `Shifted` and `Cancel` reduce what
`commit`, `add_blinding` and `server_update` compute to remainders of sums
(`CommitIs`, `AnonIs`, `UpdateIs`). Then the terms: `Summed(n)` is the set of
terms that the blinding of the state with nullifier `n` was summed from, read
off the chain of requests that led to it; `NoCollision` lets equal sums stand
for equal sets.

`TermsSound(n, terms)` is what the invariant knows of that set: it has the
deposit's term of this note and no other, a request's term only if the request
led to this state (`Passed`), and a server's term only of other, finalized
nullifiers. `LastOfNote` is the counterpart of `LastState`, and `JournalSound`
says of a journal that survived its request (a crash before it was removed, or
`archive_note`) that it is of another note, or that its term already is in the
blinding on disk.

* `SameRequest` is the heart of it. An answer to another request that passed the
  algebra would have a blinding with the same terms as the one the wallet
  computes. The deposit's term says that it is of the same note; if the ids
  differ, the journal's term is one of an earlier request, which can only be the
  one that spent the state on disk, and then the server would know a successor
  that nobody knows yet. A journal left over from an earlier request would have
  its term counted twice.
* `AcceptedIs` adds the balance: a charge or a commitment that is off by one
  gives another remainder (`OneMore`, which needs an order above 1).
* `SuccessorLast`, `NextCommitmentIs` and `InstallIInv` move the invariant along:
  the new file opens the commitment that the server signed, although the wallet
  reduces its sums and the server's delta arrives unreduced.
* `FinalizeSound` and `ClearSound` are the server's side: a charge goes only to
  the last state of a note, so what was cleared stays cleared.

Assumptions: `ServiceAssumption`, `WalletV1Assumption` (an order above 1,
scalars from a larger field, finitely many ids) and `WalletV1NoneAssumption`.

### Settlement (`VaultProofs`)

For any number of notes, requests, charges and exits, and users who prove any
state they can: `NotesSettleAtBalance`, `NotesHaveOneUnspentState` and
`ExitsStayOpen`. The specification contains the deployment assumption `Timely`
(the server sees the root and its watcher answers within a challenge period),
without which the first is false.

The inductive invariant `SInv` stands on the vault's `IInv`, whose lemmas do the
vault's side of every step. `ServerSound` adds the server's side: secrets tell
notes apart, so a nullifier has one owner and one anchor (`OwnerUnique`, from
the injectivity of the hash); whatever was signed is of a deposited note's own
leaf at an anchor given out; each note is `Balanced`. Three parts tie the two
together:

* `BurnedSound`: a nullifier used on chain is of a spent state, or of a request
  proof that was sent and challenged with, or of the one exit under which its
  note is frozen or closed. `ExitStaysOpen` follows; a challenge keeps it
  because its nullifier was sent.
* `PendingExits`: an exit claims a state of its note, and once the challenge
  period is over this state is unspent and the server has dropped the leaf. The
  tick that reaches the deadline establishes the second half, by `Timely`.
* `SettledSound`: a note that was settled at its balance is charged no more,
  since the server has dropped its leaf or has cleared its last state. The
  clearance is what protects a mutual close against a server that still
  serves an old root.

`RequestIs` is the central lemma: the state a request spends is the unspent one,
and its successor has an anchor that no spent state has. Assumptions: those of
the vault, `ChargeAssumption`, `AnchorAssumption` and `HashAssumption` (the
vault's nullifiers include those of the users' states).

### The indexer's mirror (`VaultProofs`)

For trees of every depth, any lag and every adapter, with one leaf per note id
(`DepthAssumption`; 32-bit ids and depth 32): `MirrorMirrorFollows`,
`MirrorPathCheckExact`, `MirrorSnapshotPathProves` and `MirrorImplementsVault`.

*The tree.* `FoldIsRoot` connects the two ways to compute a root: folding a leaf
with the siblings of its ancestors gives the root of the complete tree with this
leaf written. `RootCommits`: over injective hashes equal roots have equal
leaves. `CacheOf(tree, leaves)` is what the node cache means: `get_node` answers
with the node of the complete tree over `leaves`, cached or not. `SetLeafCaches`: `set_leaf` keeps it, and
changes one leaf; the point is that the siblings it reads are on no path it
writes. `PathCheckExact` and `SnapshotPathProves` follow for whatever leaves the
cache holds, and with the first the abstraction of `ZkApiVault`, a root as a map
and a path as a view, is no assumption beyond the injective hash.

*The mirror.* The inductive invariant `MirrorInv` stands beside the vault's
`IInv`. `QueueSound`: each event on its way, applied to the tree before it, gives
the tree before the next one, and the last gives the vault's. `MirrorSound`: the
mirror's cache is of the tree after the last event taken, and its original
leaves are those of the deposits. `DepositsSeen`: every deposit has been taken or
is in the queue, and in it before any challenge of its note (the second clause
of `QueueSound`), which is why `Restore` never meets a leaf it does not know.

*The vault in the composition.* `MirrorImplementsVault`, `MirrorSpec => Spec`:
a path the vault accepts, from a mirror however far behind, gives the update
that the current tree gives (`ServedIsCurrent`), so a call with served paths is
a step of the vault. Whatever section 4 says of the vault holds for the vault
that is only ever called with what an indexer serves.

### Only model-checked

* All liveness (`PendingResolves`, `EveryDepositSettles`, `HandlersReturn`,
  `MatchingRequestResolves`, `FinalizedIsInstalled`): fairness and ENABLED are
  beyond the provers.
* `GeneralPosition` for the numbers of an instance. That random scalars satisfy
  `NoCollision` is a matter of probability, and a hypothesis of the theorems on
  `WalletV1`.

## 5. Findings

1. `SPEC.md:1204` asks the server to scan Reserved entries on restart.
   `get_reserved_entries` has no caller; an entry left by a crash stays
   Reserved unless the client repeats the request.
2. `note_state.rs:4-6` promises recovery to a consistent point after a crash.
   The next state is saved and the journal removed in two writes
   (`wallet_v2.rs:295-296`). After a crash between them the journal belongs to
   the previous state; `recover()` fails its algebra check every time, and
   `prepare_request` is refused until somebody removes the journal by hand.
3. `README.md:83` says "Anyone can finalize an unchallenged withdrawal after the
   deadline; funds go to its recorded destination and the treasury." Both
   payments are made in one call (`ZkApiVault.sol:262-274`, `Pay`), so a treasury
   that rejects its share blocks the user's payout, whoever calls, until the
   owner sets another one (`AnyoneCanFinalize`). With receivers that take their
   shares the promise holds (`PendingResolves`).

Observations that are not a run:

* `SPEC.md:975` says "The contract challenge path must accept an archived
  request proof only." The vault cannot see the archive: it takes any valid
  request proof from anyone. A user whose request was refused, or reserved and
  never finalized (finding 1), and who then exits with the same state, can be
  challenged with that proof, and its nullifier stays burned. He can exit again
  only with a successor, so he depends on the server to finalize the request;
  `ExitStaysOpen` says that this is the only case.
* `tree_mirror.rs:29` says "Get the next available note ID." `next_note_id`
  returns the tree's `next_index`, which only `MerkleTree::insert` advances;
  `process_event` uses `set_leaf`, so the mirror serves 0 for ever and a client
  that follows `SPEC.md:1258` asks for the zero path of an occupied leaf.
* `SPEC.md:1163` asks that a finalized request be answered with its stored
  response. `processor.rs:121` compares the root before the nullifier is looked
  up, so a retry after the root has moved gets `STALE_ROOT`; recovery by id or
  nullifier still returns the response.
* `SPEC.md:460` has a 128-bit charge; `nullifier_store.rs:177` stores it in a
  signed 64-bit column. With a charge cap of 2^63 base units or more, a retry or
  a recovery reports another charge than the first answer did.
* The v1 wallet drops its journal on the error code `stale_root`
  (`wallet.rs:312`), the server in this repository sends `STALE_ROOT`
  (`error.rs:44`); against it every stale root leaves a journal that blocks the
  wallet, since recovery finds nothing. `StaleRootCodes` has both.
* The v1 wallet has the wedge of finding 2, too (`wallet.rs:366-370` and the
  end of `recover`), and its `archive_note` leaves the journal, which then
  blocks the next note; nothing is lost, as `SpentStateRecoverable` shows.

## 6. Not modelled

* Pairing and curve arithmetic, hashing, proving and verification, the setup
  artifacts: outside what TLC or TLAPS can say anything about. Proofs are
  predicates, hashes injective constructors.
* SQLite and file system failures other than a crash; a torn journal file
  (which `has_pending_request` takes for none).
* The chain's reorganisations: the sources assume final blocks.
* A v2 server that reserves a request it has rejected with `stale_root`
  (section 2), and one seed for both signing trees.
* CLI, scripts, examples and wire encodings: no state of their own.

## 7. Plan

1. A composition of `WalletV1` with `RequestProcessor` in place of `Service`.
   Each is checked alone; `Service` is what the one assumes, `NullifierLedger`
   what the other implements.
2. Epochs of signing roots, with the v1 statements of `cairo/`.

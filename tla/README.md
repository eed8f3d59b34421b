# Specifications of evm-research

`evm-research` (Go) collects experiments around the Polygon bridge: rebuilding
the *local exit root* (LER) of the LxLy bridge from its L1 events, an aggregate
ledger of cross-network deposits, a client that fetches blocks, checkpoints and
votes from Heimdall, and BLS signatures over BN256, with two implementations of
its groups and their pairing. The core logic of the bridge sits in
`lxly_bridge_test.go`: its test functions are the programs.

This directory holds TLA+ specifications of that code, TLC configurations that
check them on small instances, and proofs checked by TLAPS.

Run a model: `tlc -config MCLERReplay.cfg MCLERReplay`. Check a proof:
`tlapm LERReplayProofs.tla`.

## 1. Inventory

| Component | Code | State | Operations |
|---|---|---|---|
| Merkle frontier | `merkle.go` | none of its own: a frontier slice owned by the caller | `addLeaf`, `calculateRoot`, `generateZeroHashes`, `hashDeposit`, `Hash` |
| LER replay | `lxly_bridge_test.go:515-576` | frontier, deposit count, open batch and the frontier it starts from | one handler per event type: deposit, V1GER, verify |
| Credit ledger | `lxly_bridge_test.go:585-735` | maps from network and token to `*big.Int`, shared by reference | `addDeposit`, `addCredit`, `flattenTokens`, `mergeTransfers`, `collateDeposits`, `finalizeDepositProof` |
| Event extraction | `lxly_bridge_test.go:137-391` | next block number, number of events, output file | three `eth_getLogs` queries per page of 1000 blocks; decode, concatenate, sort |
| Heimdall block query | `heimdall/query.go` | one event subscription per call | `GetBlockWithClient`, `GetBeginBlockEvents`, `GetVoteSigs`, `FetchVotes` |
| Checkpoint root | `heimdall/checkpoint.go` | none | block header hash, padding to a power of two, Merkle root over blocks from a callback |
| Milestone vote signatures | `heimdall/milestone_test.go` | none | split and pack fixed votes |
| BLS signatures | `crypto/*.go`, `crypto/bn256/bls_impl.go`, `mtp.go` | private key, public key, signature: each a pointer to a group element | generate, sign, verify, aggregate, marshal; hash to G1 |
| Cloudflare BN256 | `crypto/bn256/cloudflare` | the element a `G1`, `G2` or `GT` points to, in Montgomery form and Jacobian coordinates | the group laws, scalar multiplication by lattice digits, pairing, pairing check, marshalling |
| Google BN256 | `crypto/bn256/google` | the same on `big.Int`, reduced in part | the same, by plain double-and-add |
| secp256k1 helpers | `crypto/common` | none | single calls of btcec |
| Deployment helpers | `deploy.go`, `helper.go`, `abi_encode.go`, `model.go` | none | transactions through an RPC client, ABI encoding |
| Contract artifacts | `build/contracts` | none | compiled JSON |

**How they interact.** Event extraction writes files of bridge events. The LER
replay reads those files sorted by block, transaction and log index, and calls
the Merkle frontier for each deposit, for each root check and for each batch.
The credit ledger is meant to follow the replay (it consumes aggregated
deposits) but is called only by its own test. The Heimdall client and the BLS
code are independent of the bridge; the milestone tests use votes like the
client's. The BLS signatures call the group operations, which `bn256_fast.go` or
`bn256_slow.go` selects by architecture when the program is built. There are two kinds of concurrency: the Heimdall queries run against a
node that keeps committing blocks and delivers events through a channel under a
timeout, and the extraction pages through a chain that grows while it is read.
Go's random map iteration order makes the sequential ledger nondeterministic.

**What is hard, and what correctness means**, by component:

- *Merkle frontier*: `calculateRoot` sees one node per level and no tree. A
  node stored by one insertion is read many insertions later, after others
  have overwritten its neighbours. Correct: after any number of insertions the
  result is the root of the tree over all leaves; `addLeaf` panics only when
  the tree is full.
- *LER replay*: events may be missing or repeated in the files. Correct: the
  root is always that of the deposits consumed; the V1GER check notices any
  loss; a written batch can be replayed on its own.
- *Credit ledger*: `big.Int` values are shared between maps and added to in
  place. Correct: collating or flattening gives, for each destination and
  token, the sum of what was deposited, and leaves the inputs as they were.
- *Event extraction*: pages are read up to and past the head of a growing
  chain. Correct: every event of a page that was read is in the file.
- *Heimdall block query*: the block may be committed between the failed query
  and the subscription. Correct: every call returns the block it was asked for
  or an error, and gives its subscription back.
- *Checkpoint root*: the tree's height comes from a bit trick. Correct: the root
  is that of the smallest tree the headers fit in. *Votes* are joined by rising
  validator address, whatever order they came in and whichever are missing.
- *BN256*: receivers may be operands; a point has many representations, some
  of which carry values left by earlier calls; the addition formulas leave out
  equal, opposite and neutral elements; bytes come from outside. Correct: after
  any sequence of calls an element is the one the algebra says, both
  implementations give the same bytes for it, and only such bytes are accepted.
- *BLS*: the map to the curve chooses among candidates by squares; much is
  unimplemented and panics. Correct: a signature is the hashed point times the
  key; what is refused, and what panics, is known.

## 2. Plan

Modules, most important behaviour first. The last column says what is proved.

| Modules | Use | Abstract specification | Theorems |
|---|---|---|---|
| `MerkleFrontier` | | `TreeRoot`: the complete tree | root, insertion and panic are right, different counts have different roots: proved |
| `LERReplay` | `MerkleFrontier` | | all invariants, the batches and the root check: proved |
| `CreditLedger` | | `CreditLedgerAbs`: amounts | ownership of the integers, nothing understated, no overdraft accepted, exact collation; for two networks exact debits and credits, and that every step implements the abstract one: proved |
| `BlockQuery` | `Checkpoint` | `IsRootOver`: the complete tree over padded headers | the right block, the subscription kept, leaks only after the deadline, the votes are exact, the root is exact: proved |
| `EventExtract` | | | what each query and each page leaves in the file: proved |
| `BridgePipeline` | `EventExtract`, `LERReplay` | `LERReplay` itself | all properties, and that the pipeline implements `LERReplay`, so that its theorems carry over: proved |
| `CloudflareField`, `CloudflareCurve`, `CloudflareBn256`; `GoogleField`, `GoogleCurve`, `GoogleBn256` | `BNParams` | chord-and-tangent law in `BNParams` | for Cloudflare: the arithmetic modulo `p` is exact and everything above it, to the pairing and the wire format, leaves reduced numbers: proved |
| `Bn256` | both implementations | `BilinearGroup`: logarithms | the coordinates of Cloudflare's elements are always reduced: proved; that they are the right ones needs the algebra of the curve, which is out of reach |
| `BLS` | `CloudflareBn256` | the map and the sum by definition, and what `Verify` is documented to tell | none |

## 3. The models

### Merkle frontier: `MerkleFrontier`

Operators, one per function of `merkle.go`. `AddLeaf(leaf, frontier, index)`
and `CalculateRoot(frontier, index)` have the parameters of the code with the
height as a constant. The loop `for h = 0; h < height; h++` becomes a recursive
function over levels: `ClimbNode(...)[h]` is the local variable `node` of
`addLeaf` on reaching level `h`, `RootNode(...)[h]` that of `calculateRoot`;
`Shr(n)[h]` of `GoBasics` is `n >> h`. `AddLeafPanics` says that the loop ends without a
`return`. `Hash` is an arbitrary operator and a leaf an arbitrary value:
`hashDeposit` only decides which value. The reference is `TreeRoot(leaves, n)`,
the root of the complete binary tree of that height over the first `n` leaves,
defined level by level without frontier and without bits.

### LER replay: `LERReplay`

`TestLERCalc`. Its local variables are the variables of the module
(`frontier`, `depositCount`, `batchDeposits`, `batchFrontier`); `output` is the
last batch printed, and `checked`, a history variable, remembers of a V1GER event
which root it carried. Each `case` of the event loop is an action:

| Code | Action |
|---|---|
| `BridgeEventDeposit`, 537-545 | `DepositEvent(count)`: the `require.Equal` fails, `addLeaf` panics, or the leaf goes in |
| `BridgeEventV1GER`, 546-553 | `V1GEREvent(n)`: the root check fails or passes |
| `BridgeEventVerifyTrustedSequencer`, 554-572 | `VerifyTrustedSequencerEvent` |
| the bridge contract (external) | `BridgeDeposit(leaf)` appends to `chain` |

Which event the replay reads next is free: any deposit of the chain, the root
after any number of deposits. That stands for files with events missing,
repeated or out of order.

### Event extraction: `EventExtract`

`TestBridgeExtractEvents`. L1 is a sequence of blocks of logs, the last one
still being built; `Emit` and `Mine` are external. `QueryBridge`, `QueryGER`
and `QueryRollupManager` are the three `GetLogs` calls of a page, with L1
moving between them; `Write` is one pass of the loop over the logs, `NextPage`
and `Break` end a page, `Abort` is a failing `require.NoError` or the time limit
of `go test`, and leaves the file as it is. A log is its block and its place in
it; what the topic and the data are decoded to is reduced to its kind.

### Bridge pipeline: `BridgePipeline`

Extends `LERReplay` with an instance of `EventExtract`: a `Deposit` on L1 is both
a log and a leaf of the contract. When the extraction has ended or was aborted,
`StartReplay` sorts the file (`processEventsSorted`), and `Read` hands the next
event to the action of `LERReplay` it belongs to. The deposit count and the exit
root in the events are those of the contract at the log: external, as the checks
of the replay presume.

### Credit ledger: `CreditLedger`, `CreditLedgerAbs`

The amounts are `*big.Int` and the maps share them, so the model has a `heap`
of amounts and tables of references into it; `Nil` is an absent key. An integer
is made for every call of `addDeposit` or `addCredit` and overwritten in place
by `Add` and `Sub`. `MergeTransfers` is `mergeTransfers`; `MergeAll` calls it for
one table after the other, which are the sources in `Collation` and the targets
in `Flattened`, in an order chosen by `\E`, as Go iterates over maps in any
order. `Finalize` is `finalizeDepositProof` with both loops (`Debits` and
`Credits`, a pass of each is `Debit` and `Credit`), each over the tokens in any
order, the early return of `false`,
which leaves its subtractions behind, and the nil dereference of a missing key,
which ends the program (`Running`). The calls come in the order of
`TestAggregateDeposits`: record, collate once, finalize each network.
`sent`, `granted`, `debited` and `credited` are history for the properties.

`CreditLedgerAbs` is the same ledger on amounts. The refinement mapping reads
them from the heap: `Sent`, `Arrived` and `Held` are what the references of the
deposits, the collated table and the credits stand for, `Status` is the result of
each network. A settlement the abstract ledger calls *abandoned* is one that
panicked.

### Heimdall block query: `BlockQuery`, `Checkpoint`

`GetBlockWithClient`, `GetBeginBlockEvents`, `FetchVotes` and `getRootHash`,
several calls at once. `pc`
walks through the direct query, the subscription, the `select` loop and the
deferred `Unsubscribe`; `Deadline` is `CommitTimeout` passing. The node
(`Commit`) and the client library (`Unsubscribed`) are external: a subscription
is given back by the name `new-block-<height>`, events are delivered through a
bounded channel that drops what does not fit, and giving a subscription back
under an expired context may fail. The first two functions differ in what they
do with that failure.

`FetchVotes` wants the block after the one it is asked about (`Wanted`), gets it
from `GetBlockWithClient` and sorts its votes by address (`GetVoteSigs`, with the
order of `GoBasics`, as all modules that sort). `getRootHash` has
its blocks from a callback, which may fail, and hashes them as `Checkpoint`
says: `calcHeaderHash`, `nextPowerOfTwo` with its shifts and ors, and
`calcCheckpointFromBlocks`. Keccak and the tree library are external; Keccak is
a parameter, and a block is its number, since its header's fields are padded to
a fixed length and so determined by what is hashed.

### BN256: `BNParams`, one tower of modules per implementation, `Bn256`

`BNParams` has the curve with its parameter `u` and coefficients as constants,
and everything the algorithms are compared with: the chord-and-tangent law on
affine coordinates (`PointSum`, `PointMul`), quotients of GF(p^2), byte strings.

Each implementation is three modules, each function an operator of its name:
`...Field` (`gfp*.go`), `...Curve` (`curve.go`, `twist.go`), `...Bn256`
(`optate.go`, `bn256.go`; for Cloudflare `lattice.go` too). They share nothing,
as the code shares nothing, and differ where it does:

- `CloudflareField` works on numbers below `R` (what the bytes of a coordinate
  hold, 2^256 in the program) in Montgomery form, with
  the conditional subtraction of `gfpCarry` and the two multiplications by `np`
  and `p` of `gfpMul`. The loops over 64-bit words, and the assembly that
  replaces them, are taken by the sum or product they compute and their last
  carry.
- `GoogleField` keeps a coordinate outside `0..p-1`, possibly negative, until
  the code calls `Mod`, and compares it with 0 as it is.
- A point is `[x, y, z, t]`. No group operation uses `t`, but the Miller loop
  does: operations take the receiver as a parameter, so that what it held in `t`
  stays there unless the code sets it.
- A receiver may be an operand. The Cloudflare formulas write to it last. Those of
  `google/curve.go` and `twist.go` read after they write, and `same` says whether
  that is noticed. `TwistMul` starts from integers that `bnPool` may hand out
  with their last values (`pooled`).

An operation that works over several fields takes one of them as `F`: a record
of its operations as functions (`GFp2`, `GFp6Over`, `GFp12`). So the Jacobian
formulas of `curve.go` and `twist.go` are written once, and the upper fields
refer to the one below. An operation of two arguments is a function to functions
(`F.mult[a][b]`), which the provers can reason about. `Package` is what an implementation exports, a record
too: the actions of `Bn256` and `BLS` take it as the parameter `B`. The build
constraints select it (`Fast`, `Slow`).

`Bn256` is a program on top: registers that hold elements of one of the groups,
and one action per method (`ScalarBaseMult`, `ScalarMult`, `Add`, `Neg`, `Set`,
`Pair`, `Miller`, `Finalize`, `Marshal`, `Unmarshal`, `Random`), with any choice
of receiver and operands. `UnmarshalForged` reads what a peer may send instead;
`Same` calls `PairingCheck`. After a failed `Unmarshal` the register is *spoilt*:
the code leaves half of the new value there, and it may be a receiver but not an
operand. `log` is history: it is the discrete logarithm of each register, read off
its marshalled bytes. `BilinearGroup` is the same program on logarithms alone, and
the refinement `AbsSpec` says that the coordinates never matter.

### BLS signatures: `BLS`

The state is `sk`, `pk` and `sig` of each signer, with `Nil` for a pointer that
is not set; `pk` may also be a `G2Impl` without a point, as `AggregatePublicKeys`
makes it. `MapToPoint` is `mtp.go` with its exponentiations and its panics;
`mapToG1` sends the coordinates through `Unmarshal` without leading zeros, as the
code does; `HashToG1` adds two of them. `VerifyOpt` is the check as written. What
SHA-256 expands a message to is any member of `Expanded`. Methods that panic with
"implement me" are the action `Unfinished`, and a panic ends the program.

## 4. The runs

| Run | Instance | Shows |
|---|---|---|
| `ler_replay` | tree of 8 places, up to 8 deposits, batches of two or more, free-term hashes | frontier and root are right after every sequence of events; each batch is a witness of its root and can be replayed on its own; no deposit is in two batches; the root check lets the replay go on after the root over the deposits it has read, and after no other; `addLeaf` panics no sooner than with the deposit that fills the tree |
| `bridge_pipeline` | 3 blocks, 3 logs, 3 pages of 2 blocks, a stop after 2 events, a tree of 4 places | no event is in the file twice; one is missing only if it was mined after its page was begun; the replay of the file implements `LERReplay`; its checks fail only if a page was read past the head, wherever the extraction was aborted, and at a deposit number only if that page was followed by another one; a replay that ends has every deposit below the last root in its file |
| `ledger_pair` | 2 networks, 2 tokens, 4 integers | where no two deposits share a source or a target the ledger implements the abstract one: exact debits and credits |
| `ledger_three` | 3 networks, 1 token, 4 integers | with sharing: integers are never shared between recorded deposits or credits, collated amounts are exact when returned, no amount is ever understated, no overdraft accepted, only refused networks end negative |
| `ledger_debit` | 3 networks, amounts 1 and 2 | **violated:** a network is debited for more than it sent |
| `ledger_overdraft` | 2 networks, 2 tokens | **violated:** an overdraft is refused or panics, by map order |
| `block_query` | 2 calls of any kind, heights 1 to 3, channel of one event, up to 5 blocks in a checkpoint, 3 validators | the right block or an error; nobody but a call of the same height takes a subscription away; one is left behind only after the deadline; the votes are those for the block asked about, in the order of the addresses; the root is that of the smallest tree; every call returns |
| `block_query_panic` | the same | **violated:** a call that times out may panic instead |
| `bn256` | two registers, every sequence of 4 calls, scalars 0, 1 and the order less one, both implementations, all groups | both implement the groups with their pairing; forged bytes are refused; coordinates are reduced; the lattice digits of every scalar add up to it |
| `bn256_neg` | the same, with points that `Neg` has made going into a pairing check | **violated:** the check tells an element apart from itself |
| `bls` | one signer with keys 0 and 5, messages hashed to every element of the field | signatures are exact; what cannot be signed is known exactly; the only panic of signing, or of verifying with a signature and a key that are set, is a message mapped from 0 |
| `bls_verify` | the same, with key 5 | **violated:** `Verify` refuses a genuine signature |

**Bounds.** Eight places give every carry pattern of the binary counter up to
three levels, the empty and the full tree; longer carries repeat the step that
the proofs cover for every height. Three blocks in pages of two put a page
below, across and past the head, with the third page read wholly past it. Two sources of one target, two targets of one
source and two tokens are the smallest instances with sharing and with a map
order; four integers make two deposits and two credits. Two calls suffice for
clashing names, as subscriptions only interact in pairs, and a channel of one
event is full after the first block. Five blocks take `nextPowerOfTwo` through
zero, powers of two, and one above and below them.

The curve of the BN256 and BLS runs (`ToyCurve`) is one of the same family: u = 1,
y^2 = x^3 + 40 over GF(103), of order 97, with xi = i + 8, words of 8 bits, and
coordinates of two bytes of 4 bits. Every intermediate product fits TLC's
integers. Its field has 103 elements, so that exceptional cases, which random
tests of a 254-bit field never meet, all occur: zero coordinates, equal and
opposite points within the pairing's loops, sums that equal the modulus. The
digits of 6u+2 are given as those of 105, equal to it modulo the order: those of
8 itself would never run the addition steps of the Miller loop. The three scalars
give the neutral element, a generator and its negative; four calls are two
elements, a combination of them and a use of the result, or a marshalling round
trip into an element that an operation has left behind.
`MCExpanded` hashes messages to every element of the field: those with a point
come in pairs, the others once as the first and once as the second of the two
elements of a message; and to equal and to opposite points. Key 0 makes keys and
signatures infinite; 5 is an ordinary key (of the 97, only 22 and 75 have the
square -1, for which the check as written accepts genuine signatures).

Deadlock checking is off where the program ends or L1 stops at its bound, as
each configuration says.

**Fairness.** Only `EveryCallReturns` needs any: a call that can go on does
(goroutines are scheduled, the node answers requests), its timer fires, and the
`select` does not overlook `c.Done()` for ever, since Go chooses at random among
the cases that are ready. The node is not assumed to commit further blocks.

Every property is also tried against a plausible bug: the definitions named
`..._Faulty...` stand just above the ones they alter.

### What the violated runs say about the code

- `mergeTransfers` stores the reference it is given (656) and adds into it later
  (658). `collateDeposits` thereby changes the deposits it reads, and
  `flattenTokens` those that another network is to receive. From two sources of
  one target, or two targets of one source, `finalizeDepositProof` takes off or
  adds the wrong amounts. The sharing only overstates (`NeverUnderstated`), so
  that no overdraft slips through (`NoOverdraft`), but networks can be refused
  or over-credited. Copying the integer on 656 would repair it.
- `finalizeDepositProof` dereferences nil for a token without credits (694) or
  one that is received for the first time (709). `TestAggregateDeposits` sends
  ETH and USDC with credits in ETH only, so that it passes or panics by the
  order in which the map yields the two.
- The deferred `Unsubscribe` of `GetBlockWithClient` runs under the context that
  has just expired, and its failure is logged to `Logger`, which nothing sets: a
  timeout can end in a nil dereference. `GetBeginBlockEvents` drops the failure
  and leaves the subscription behind.
- `twistPoint.Neg` of `bn256/cloudflare` sets `t` to 0 also on a point with z = 1.
  `MakeAffine` returns early for such a point, and the Miller loop reads `t` as
  z^2, so `PairingCheck` and `Pair` on the negative of an affine element of G2
  (one that was marshalled or unmarshalled, or the generator) are wrong. The
  BLS code negates only in G1. Setting `t` to z^2, or to that of the operand,
  would repair it. The run `bn256` leaves these points out of pairing checks
  (`Negated`), and keeps them in all other calls.

- `VerifyOpt` multiplies the pairings of the message with the generator and of the
  signature with the key (212-217). That product is 1 for the message h and the
  signature s under the key k if h + k s = 0, which a genuine signature (s = k h)
  satisfies only if 1 + k^2 = 0 modulo the order, so that `Verify` refuses genuine
  signatures and accepts points that are none. "Verify checks the BLS signature of
  the message against the public key of its signer" (`signature.go:13`) takes the
  message with the key and the negative of the signature with the generator. The
  TODO of the code (`bls_impl.go:215`) suspects as much.

### What the passing runs say that a reader may not expect

- `TestBridgeExtractEvents` goes on to the next page whether or not L1 had all
  of the last one (275). Near the head, events are lost for good. The replay
  notices: at a deposit number that differs (541) if deposits of a later page
  follow (`GapsOnlyByPaging`), and at the next V1GER event of the file in any case
  (`CompleteUpToRoot`), as when L1 grows between the queries of the last page, so
  that the file has a root but not the deposits under it. A deposit lost after the
  last root of the file is not noticed.
- `mapToG1` hands coordinates to `Unmarshal` without leading zero bytes, which
  refuses them. On the program's field that is about one message in twelve, and
  for ever, as the hash has no salt (`SignFailsExactly`).
- `MapToPoint(0)` panics on a missing inverse (`NoPanic` names the exception).
- "`Miller(g1, g2).Finalize()` is equivalent to `Pair(g1, g2)`" (`bn256.go:335`)
  does not hold for infinity, for which only `Pair` looks. `Miller` is called on
  other points in the model.
- "this function is not complete: a==b fails" (`google/bn256.go:88`): it fails
  when the receiver is one of them too, and in no other case (`Add`, `AbsSpec`).
- "round sets num to num/denom rounded to the nearest integer" (`lattice.go:107`), but
  it compares the remainder with half of `Order` while `curveLattice.det` is twice
  `Order`: 0.3 becomes 1 (`RoundIs`). The decomposition is not that of the closest vector; it is
  exact, short and positive nonetheless, for every parameter (`DecomposeExact`).

## 5. The proofs

Proved by TLAPS for every value of the constants, from the assumptions named in
the modules. These say no more than what a constant is: bounds are natural
numbers, networks and tokens are finite sets, a page has a block, amounts are
positive, and the values that stand for "none" (`NotStarted`, `NoVote`,
`NoResult`, `Error`) are not among those they are told apart from. What a theorem
assumes beyond that is a hypothesis of it, named below. Each invariant was first checked
by TLC as an invariant of the run.

**Loops and orders.** `NatRecursion`: a function on `Nat` defined by `f[0]` and a
step from `f[n - 1]` exists and unfolds (`LoopUnfolds`), with induction over a
*set* of naturals (`SetInduction`); the loops of `MerkleFrontier` and
`CreditLedger` and the sums of the latter are such functions, and so are the folds
of the community modules (`FoldUnfolds`, `FoldClosed`). `GoBasics`: a
sequence in `SetToSeqs(S)` has each member of `S` once (`SeqsOfSet`), and every
finite set can be put into the order of a total preorder (`OrderExists`), by
induction on its size. It justifies the `CHOOSE` in `InOrder`, which is what the
node's answers, `processEventsSorted` and the sorting of votes are modelled by.
`GoBasics` also has the binary digits: what shifts, ors and powers of two do to
them (`ShrTwice`, `ShrBetween`, `OrDigits`, `DigitsDetermine`), by induction on the
position, since the provers know neither powers nor bits.

**`LERReplayProofs`, the tree.** `CalculateRootCorrect` (a frontier of `n` leaves yields
the root of the tree over them) and `AddLeafCorrect` (inserting a leaf gives a
frontier of `n + 1`). The first goes by induction on the level: the node
reached is that of the path above leaf `n`, the subtrees to its right are
empty, the one to its left is in the frontier where the bit is set. The second
compares the bits of `n` and `n + 1`: below the stop level all bits of `n` are
set, so that the climb combines complete subtrees; above it they agree.
`PanicsWhenFull`: the loop ends without a return only if no bit of the index is
set below the height, so that it is a multiple of the number of places.
`RootsDiffer` descends two trees with equal roots to a leaf that only one of them
has; it needs that the hash has no collisions (`CollisionFree`) and that no leaf
is the empty hash.

**`LERReplayProofs`, the replay.** `Invariance` proves the inductive invariant `Inv`, the
conjunction of `TypeOK`, `FrontierCorrect`, `Fits`, `OpenBatch` and
`BatchWitness`. `FrontierCorrect` is not enough for the root: a full tree has a
frontier with no set bit below the height, so `Fits` (a place is still free)
has to go along. `BatchWitness` is only inductive with `OpenBatch`, which says
where the batch that will be written starts. From `Inv` follow `Typing`,
`FrontierAlwaysCorrect`, `RootAlwaysCorrect`, `OpenBatchAlwaysPlaced` and
`BatchesAreWitnesses`; `BatchesAreDisjoint` adds that the open batch starts
where the last written one ended or later. `Bounds` (a panic is that of the
deposit that fills the tree, and no written batch has this deposit) goes along
for `PanicsOnlyWhenFull` and `BatchesReplay`; the latter inserts the deposits of
a batch one by one (`InsertAllCorrect`). `RootChecksAreExact` takes the hypotheses
of `RootsDiffer`: of two different counts, the roots differ, so that a check that
passes has met the root over the count of the replay.

**`EventExtractProofs`.** The inductive invariant `Inv` says of the page that is
read where it is (`PageBegun`), that nothing beyond it or of a contract not yet
asked has been read (`Reached`), and that what was on L1 when it was begun has been
read of those that were (`PageComplete`). From `Reached`, no log that a query
returns is in the file already, so that `Once` is preserved: the file and what
is still to be written have no repetition. `CompleteBehindHead` is preserved at
the end of a page, where `PageComplete` says that the page is complete.
`InPlace` and `Prefix` are about files of extractions that stop anywhere: without
a page read past the head, an event that the replay checks has all deposits
before it in the file with it (`FileIsPrefix`). `Consecutive` says the same of the
deposits alone, and only needs that no page read past the head was followed by
another one: all deposits of a page come from one query (`Answered`).

**`BridgePipelineProofs`.** Every step of the pipeline is one of the extraction or
none (`ExtractionSteps`), so `ExtractionInvariance` carries its invariants over, and
`NoEventTwice` and `AlwaysCompleteBehindHead` follow. `PipelineInvariance` adds
`Counted` (the contract has a leaf for each deposit on L1) and `Started` (the
replay reads the file in L1's order, and only when the extraction has ended). With
them every step implements a step of `LERReplay` or none (`ReplayRefined`):
whatever theorem there is about `Spec` of `LERReplay` holds of the pipeline
(`PipelineReplay`). `OnlyFailsPastHead` and `OnlyGapsByPaging` use `Exact`, that the
replay's count is that of the deposits it has read, with `Prefix` and with
`Consecutive` of the extraction.
`AlwaysCompleteUpToRoot` uses `UpTo`: a root that was accepted is over deposits that
have been read; it takes the hypotheses of `RootsDiffer`.

**`BlockQueryProofs`.** `Inv` is `TypeOK`, `RightBlock`, `SubscriptionKept`, that a call
past its wait has a result (`Resolved`) and that a subscription is that of a call
that waits, is about to give it back, or could not (`SubscriptionsPlaced`).
The last one gives `NoEarlyLeak`. `VotesAlwaysExact` rests on `GetVoteSigsExact`: what
is sorted is what is not nil, and the order exists. It uses `PrecommitsAssumption`:
votes are in the order of a validator set, which has no address twice.

`RootAlwaysExact` rests on two facts about `Checkpoint`. `NextPower`: each `n |= n >> k`
doubles the length of the run of ones below every digit that is set (`Spread`,
`SpreadDoubles`), so that after the six of them a 64-bit word is all ones below its
highest digit (`SmearFills`), and one more is the smallest power of two that is not
less than the number of headers. `RootIsTree`: level by level, from the leaves up,
what the library computes is the subtrees of the tree that `TreeOver` defines from the
top down (`LevelsAreSubtrees`), and the first level with one hash is the root's
(`NothingAboveRoot`). The bit trick needs that the number of headers fits in
63 bits, as the length of a slice does: `MaxRangeAssumption` says so.

**`CreditLedgerProofs`.** The sums of the model are folds over finite sets in an
order of `CHOOSE`; the first part proves that they do not depend on it. `Merged`
says what tables merged in place amount to, whatever order they are taken in:
under each key a cell of one of them with the sum over all, and no other cell
written. It holds if no two entries share a cell (`Apart`), and is proved by
induction over the sources. `Finalized` says the same of the two loops: which
cells are written, by how much, and that nothing goes below zero unless the proof is
refused. The inductive invariant `Inv` has, besides the properties, who owns which cell
(`Own`), that a deposit is what was recorded before the tables are merged
(`Recorded`), that nobody touches a network's credits before it is finalized
(`Untouched`) and that nothing is recorded after the collation
(`CollatedFirst`). `NoOverdraftAccepted` needs `NeverUnderstated`: the debit that was
compared with the credits is at least what was sent. `CollatesExactly` is an action
property from `Merged` and `Recorded`.

Exact debits and credits do not hold in general: the run `ledger_debit` shows
how sharing breaks them. They are proved under the hypothesis `TwoNetworks`
(there are at most two networks, and any number of tokens): as no network sends
to itself (`Facing`), every route has one source and every source and token
one target, so that merging writes nothing (`MergedAlone`). `PairInv` adds to `Inv`
that deposits stay as recorded (`Plain`) and that the collated table holds them
(`TakenOver`). From it follow `PairDebitsExactly`, `PairCreditsExactly` and
`PairRefines`: each call implements a step of `CreditLedgerAbs`.

**`Bn256Proofs`.** `bn256/cloudflare` compares elements word by word, so that a
coordinate that is right modulo `p`, but not below it, is another element:
`AlwaysReduced` says that there never is one in an element that may be used, for
every BN parameter and every size of the words. Four layers lie under it; a fifth
says what the numbers stand for.

- *Arithmetic.* `gfpCarry` takes off `p` exactly if the sum of the words, with the
  carry that they do not hold, reaches it (`CarryExact`); so `gfpAdd`, `gfpSub` and
  `gfpNeg` are the operations modulo `p` (`GfpAddExact`, `GfpSubExact`,
  `GfpNegExact`). `gfpMul` computes a product divided by `R` (`GfpMulExact`): the
  low half of the product is cancelled by a multiple of `p`, because `np` is the
  inverse of `-p` modulo `R` (`NpInverse`), and what is left is below `2p` if one
  factor is below `p`, the other being any word. That one-sided hypothesis is the
  one needed: `Unmarshal` and `montEncode` multiply words that come from outside.
- *Algebra.* `GFp2`, `GFp6` and `GFp12` are records of functions. `Closed2`,
  `Closed6` and `Closed12` say that all of them leave reduced coefficients if given
  such, and each is proved from the one below (`GFp12Closed`); the exponentiations
  are folds over bits, for which `FoldClosed` is the induction. The Jacobian
  formulas are proved once for every closed field. A receiver keeps its `t` where the
  code does not set it: `Receiver` is what may be written to, `Point` what results.
- *Pairing and bytes.* `OptimalAteIn` goes by induction over the digits of `6u+2`.
  `UnmarshalTight`: every coordinate read is compared with `p` before the next one,
  so that a success leaves a reduced element. A failure does not: it leaves a word from
  outside in the coordinate that was refused, up to `R - 1`.
- *Calls.* Thus the invariant that is inductive (`ReducedInv`) has to say more than
  `Reduced`: an element that may be used is reduced (`Tight`), and one that may only be
  a receiver is `Loose`: `x` and `y` of a point are any words, but not `z` and `t`, which
  a later call may keep. It also says that only `GT` has values that are not finalized,
  and that the bytes on the wire are bytes. Every call is shown to lead from such a
  state to such a state.
- *Meaning.* Taking a number out of Montgomery form and back loses nothing
  (`MontExact`, which cancels `R` modulo `p`), reading the bytes that were written
  gives the coordinates (`WireExact`), and so `GT.Unmarshal` gives back what
  `GT.Marshal` was given, whatever the receiver held (`GTRoundTrip`). `decompose`
  "finds a short, positive decomposition" (`lattice.go:49`), here of every integer and
  for every BN parameter: both parts are in `0 .. 3*(6u^2+6u+2)`, about half of the
  length of `Order`, and `a + Lambda*b` is the scalar modulo `Order`, with `Lambda`
  = `36u^3+18u^2+6u+1` (`DecomposeExact`). That holds although `round` rounds up from
  a quarter on: the error lies between -3/4 and 1/4, and the first vector,
  added twice, is enough to keep both parts from being negative. The digits that `Mul` goes through add up to the scalar
  (`MultiExact`).

Assumed of the constants are only `ParamsAssumption` and `FieldAssumption` in
`BNParams`: `p` is below `R` and has an inverse modulo `R`, the numbers in
`constants.go` are elements of the field.

**Only model-checked.** `EveryCallReturns` is liveness, which the prover does not
reach. That the numbers computed by either implementation of BN256 are the *right*
ones (`AcceptsExactly`, `AbsSpec`, and in `DigitsExact` that `Lambda` is the factor
by which the endomorphism multiplies) depends on the algebra of the curve:
associativity, bilinearity, the endomorphism. That is not within reach of the provers' arithmetic: there the small
field is searched completely instead. `TypeOK` of `Bn256` ranges over
`bn256/google` too, whose coordinates are any integers. The properties of BLS rest on
the same algebra; they, too, are checked for all elements of the small field. No module declares a `RECURSIVE` operator; recursion
is by functions and folds, so that any of them can be proved about.

## 6. What is not modelled

- `hashDeposit`, ABI and JSON decoding: data, abstracted to leaves and kinds.
- Reorganisations of L1: `GetLogs` never returns removed logs, and the program
  reads blocks long final.
- `TestBridgeProcessEvents`: statistics. It asserts that `depositCount` is a
  `float64`, which `UseNumber` in the decoder precludes; and concatenates two
  files that may overlap, where the replay reads one.
- The 254-bit parameters of the curve. The constants of `constants.go` (roots of
  xi, `p2`, `np`, `r2`, ...) are computed from their definitions for the small
  curve; that the numbers in the file are right for the large one is for a
  computer algebra system.
- The assembly of `gfp_amd64.s` and `gfp_arm64.s`, and carries between the words
  of a field element: integers of one word stand for them.
- `FrobeniusP4` of `bn256/cloudflare` and `gfP2.Exp` of `bn256/google`: nothing
  calls them.
- `bnPool` as a store of its own: only the values left in its integers matter, and
  only where a function reads one before it sets it (`TwistMul`).
- SHA-256 and `ExpandMsgSHA256XMD`: any result is possible.
- The tree library of the checkpoint, in particular what it makes of a missing
  leaf: it is hashed like any other value.
- Milestone votes (fixed data in a test), the secp256k1 helpers (single calls of
  a library), the deployment helpers (single RPC calls) and the contract
  artifacts (compiled): input and output without state or choice.

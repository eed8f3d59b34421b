------------------------------ MODULE LERReplay ------------------------------
(***************************************************************************)
(* TestLERCalc of lxly_bridge_test.go: the replay of the bridge events of  *)
(* L1 that recomputes the local exit root, checks it against the root each *)
(* UpdateL1InfoTree (V1GER) event carries, and cuts the deposits into      *)
(* batches at every VerifyBatchesTrustedSequencer event.                   *)
(*                                                                         *)
(* The bridge contract is external: it appends a leaf per deposit, numbers *)
(* the deposits consecutively and publishes the root of its tree.  The     *)
(* program reads its events back from files; nothing in the code makes     *)
(* that reading complete, so an event may be read late, twice or never.    *)
(*                                                                         *)
(* As in MerkleFrontier, ..._Faulty... definitions are plausible bugs that *)
(* test the properties.                                                    *)
(***************************************************************************)
EXTENDS MerkleFrontier, Sequences

CONSTANTS
    Leaves,      \* the hashes of deposits
    BatchMin,    \* a batch is written when it is longer: 200 in the program
    MaxDeposits  \* bound: the deposits the contract accepts

ASSUME BatchMinAssumption == BatchMin \in Nat
ASSUME MaxDepositsAssumption == MaxDeposits \in Nat

VARIABLES
    chain,         \* the leaves of the contract's tree, in order
    frontier,      \* the replay's frontier
    depositCount,
    batchDeposits, \* deposits since the last verified batch
    batchFrontier, \* the frontier at the last verified batch
    output,        \* the last batch written out, or NoOutput
    outcome,       \* how the replay stands
    checked        \* history: {n} if the last event read is a V1GER event with
                   \* the root over n deposits, {} if it is another or none

replayVars == <<frontier, depositCount, batchDeposits, batchFrontier, output,
                outcome>>
vars == <<chain, replayVars, checked>>

NoOutput == [total |-> 0, deposits |-> <<>>, frontier |-> EmptyFrontier,
             root |-> TreeRoot(<<>>, 0)]

Init ==
    /\ chain = <<>>
    /\ frontier = EmptyFrontier
    /\ depositCount = 0
    /\ batchDeposits = <<>>
    /\ batchFrontier = EmptyFrontier
    /\ output = NoOutput
    /\ outcome = "running"
    /\ checked = {}

----------------------------------------------------------------------------
\* The contract accepts a deposit.
BridgeDeposit(leaf) ==
    /\ Len(chain) < MaxDeposits
    /\ chain' = Append(chain, leaf)
    /\ UNCHANGED <<replayVars, checked>>

\* A require.Equal of the replay fails and ends it.
Fail ==
    /\ outcome' = "failed"
    /\ UNCHANGED <<frontier, depositCount, batchDeposits, batchFrontier, output>>

\* The deposit count of the event is not compared with the replay's.
DepositEvent_FaultyUnchecked(count) ==
    /\ outcome = "running"
    /\ ~AddLeafPanics(count + 1)
    /\ depositCount' = count + 1
    /\ frontier' = AddLeaf(chain[count + 1], frontier, count + 1)
    /\ batchDeposits' = Append(batchDeposits, chain[count + 1])
    /\ checked' = {}
    /\ UNCHANGED <<chain, batchFrontier, output, outcome>>

\* The replay reads the event of deposit number count.
DepositEvent(count) ==
    /\ outcome = "running"
    /\ checked' = {}
    /\ UNCHANGED chain
    /\ \/ count # depositCount /\ Fail
       \/ /\ count = depositCount
          /\ depositCount' = count + 1
          /\ AddLeafPanics(count + 1)
          /\ outcome' = "panicked"
          /\ UNCHANGED <<frontier, batchDeposits, batchFrontier, output>>
       \/ /\ count = depositCount
          /\ depositCount' = count + 1
          /\ ~AddLeafPanics(count + 1)
          /\ frontier' = AddLeaf(chain[count + 1], frontier, count + 1)
          /\ batchDeposits' = Append(batchDeposits, chain[count + 1])
          /\ UNCHANGED <<batchFrontier, output, outcome>>

\* A root that differs is not noticed.
V1GEREvent_FaultyIgnored(n) ==
    /\ outcome = "running"
    /\ checked' = {n}
    /\ UNCHANGED <<chain, replayVars>>

\* The replay reads a V1GER event: its mainnetExitRoot is the root the
\* contract had after n deposits.
V1GEREvent(n) ==
    /\ outcome = "running"
    /\ checked' = {n}
    /\ UNCHANGED chain
    /\ \/ CalculateRoot(frontier, depositCount) # TreeRoot(chain, n) /\ Fail
       \/ /\ CalculateRoot(frontier, depositCount) = TreeRoot(chain, n)
          /\ UNCHANGED replayVars

\* The batch is printed if it is large enough.
WriteBatch ==
    /\ output' = IF Len(batchDeposits) > BatchMin
                 THEN [total    |-> depositCount,
                       deposits |-> batchDeposits,
                       frontier |-> batchFrontier,
                       root     |-> CalculateRoot(frontier, depositCount)]
                 ELSE output

\* The next batch is only started when the current one is written.
VerifyTrustedSequencerEvent_FaultyFrontier ==
    /\ outcome = "running"
    /\ checked' = {}
    /\ WriteBatch
    /\ batchDeposits' = <<>>
    /\ batchFrontier' = IF Len(batchDeposits) > BatchMin THEN frontier
                                                        ELSE batchFrontier
    /\ UNCHANGED <<chain, frontier, depositCount, outcome>>

\* The deposits of a written batch stay in the next one.
VerifyTrustedSequencerEvent_FaultyReset ==
    /\ outcome = "running"
    /\ checked' = {}
    /\ WriteBatch
    /\ batchFrontier' = frontier
    /\ UNCHANGED <<chain, frontier, depositCount, batchDeposits, outcome>>

\* The replay reads a VerifyBatchesTrustedSequencer event: it writes the
\* batch out if it is large enough, and starts the next one.
VerifyTrustedSequencerEvent ==
    /\ outcome = "running"
    /\ checked' = {}
    /\ WriteBatch
    /\ batchDeposits' = <<>>
    /\ batchFrontier' = frontier
    /\ UNCHANGED <<chain, frontier, depositCount, outcome>>

Next ==
    \/ \E leaf \in Leaves : BridgeDeposit(leaf)
    \/ \E count \in 0 .. Len(chain) - 1 : DepositEvent(count)
    \/ \E n \in 0 .. Len(chain) : V1GEREvent(n)
    \/ VerifyTrustedSequencerEvent

Spec == Init /\ [][Next]_vars
----------------------------------------------------------------------------
(* Properties.                                                              *)

\* The deposits the replay has consumed are the first ones of the chain; a
\* panic leaves the last of them out of the batch.
TypeOK ==
    /\ chain \in Seq(Leaves)
    /\ Len(chain) <= MaxDeposits
    /\ DOMAIN frontier = Levels
    /\ depositCount \in 0 .. Len(chain)
    /\ batchDeposits \in Seq(Leaves)
    /\ Len(batchDeposits) <= depositCount
    /\ DOMAIN batchFrontier = Levels
    /\ output.total \in 0 .. depositCount
    /\ output.deposits \in Seq(Leaves)
    /\ Len(output.deposits) <= output.total
    /\ DOMAIN output.frontier = Levels
    /\ outcome \in {"running", "failed", "panicked"}
    /\ checked \subseteq 0 .. Len(chain)

\* Every node addLeaf has left in the frontier at a set bit of the deposit
\* count is the root of the last complete subtree of that height, in whatever
\* order the events were read.
FrontierCorrect ==
    outcome # "panicked" => IsFrontierOf(frontier, chain, depositCount)

\* calculateRoot returns the root of the whole tree over the deposits read,
\* after every number of them, though it only ever sees the frontier.
RootCorrect ==
    outcome # "panicked" =>
        CalculateRoot(frontier, depositCount) = TreeRoot(chain, depositCount)

\* The batch being collected stands at its place in the tree: its frontier is
\* that of the deposits before it, its deposits are the ones read since.
OpenBatch ==
    outcome # "panicked" =>
        LET start == depositCount - Len(batchDeposits)
        IN  /\ IsFrontierOf(batchFrontier, chain, start)
            /\ batchDeposits = SubSeq(chain, start + 1, depositCount)

\* The batch written out is a witness: its frontier is that of the deposits
\* before the batch, its deposits are the ones that follow, and its root is
\* the root over all of them, whatever verify events were missed or repeated.
BatchWitness ==
    LET start == output.total - Len(output.deposits)
    IN  /\ IsFrontierOf(output.frontier, chain, start)
        /\ output.deposits = SubSeq(chain, start + 1, output.total)
        /\ output.root = TreeRoot(chain, output.total)

\* No deposit is in two written batches: a batch starts where the one before
\* it ended or later, though it shares its array with it.
BatchesDisjoint ==
    [][output' # output =>
         output'.total - Len(output'.deposits) >= output.total]_vars

\* Inserting deposits one after the other into a frontier that stands for n
\* leaves: what the consumer of a written batch does.
InsertAll(front, n, deposits) ==
    LET f[i \in Nat] ==
            IF i = 0 THEN front ELSE AddLeaf(deposits[i], f[i - 1], n + i)
    IN  f[Len(deposits)]

\* A consumer that has only the written batch recomputes its expected root:
\* the frontier and the deposits were captured at the same point of the log.
BatchReplays ==
    LET start == output.total - Len(output.deposits)
    IN  CalculateRoot(InsertAll(output.frontier, start, output.deposits),
                      output.total) = output.root

\* The root check of a V1GER event is exact: the replay goes on after the
\* event with the root over exactly the deposits it has read, and ends at any
\* other, so that a deposit the reading lost, or read too early, does not
\* survive the next V1GER event.
RootCheckExact ==
    \A n \in checked : outcome = "failed" <=> n # depositCount

\* addLeaf reaches its panic only with the deposit that fills the tree.
PanicOnlyWhenFull ==
    outcome = "panicked" => depositCount = Power(2)[Height]
=============================================================================

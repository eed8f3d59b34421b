--------------------------- MODULE BridgePipeline ---------------------------
(***************************************************************************)
(* From L1 to the local exit root: TestBridgeExtractEvents writes the      *)
(* events of a growing chain to a file (EventExtract); TestLERCalc sorts   *)
(* what is in the file and replays it (LERReplay).                         *)
(*                                                                         *)
(* The bridge contract numbers its deposits, and the V1GER events carry    *)
(* the root over the deposits before them: what the replay checks.         *)
(*                                                                         *)
(* ..._Faulty... definitions are plausible bugs that test the properties.  *)
(***************************************************************************)
EXTENDS LERReplay

CONSTANTS
    PageSize, StopAfter, MaxBlock, MaxLogs, MaxPages, \* of the extraction
    NotStarted   \* the replay has no file yet

ASSUME PageSizeAssumption == PageSize \in Nat \ {0}
ASSUME StopAfterAssumption == StopAfter \in Nat
ASSUME NotStartedAssumption == NotStarted \notin Seq(Nat \X Nat)
ASSUME BoundsAssumption == {MaxBlock, MaxLogs, MaxPages} \subseteq Nat

VARIABLES
    blocks, from, step, logs, file, tips, \* of the extraction
    unread       \* the events still to be replayed, or NotStarted

extractVars == <<from, step, logs, file, tips>>
pipelineVars == <<blocks, extractVars, chain, replayVars, checked, unread>>

Extract == INSTANCE EventExtract

DepositLogs == {log \in Extract!Logs : Extract!Kind(log) = "deposit"}

\* The number of deposits the contract had accepted before it emitted a log.
DepositsBefore(log) == Cardinality({d \in DepositLogs : Extract!Before(d, log)})

PipelineInit ==
    /\ Extract!Init
    /\ Init
    /\ unread = NotStarted

----------------------------------------------------------------------------
\* A deposit is accepted by the contract, which emits its event.
Deposit ==
    /\ Extract!Emit("deposit")
    /\ \E leaf \in Leaves : BridgeDeposit(leaf)
    /\ UNCHANGED unread

\* L1 goes on in another way.
Grow ==
    /\ \/ Extract!Mine
       \/ \E kind \in Extract!Kinds \ {"deposit"} : Extract!Emit(kind)
    /\ UNCHANGED <<chain, replayVars, checked, unread>>

ExtractStep ==
    /\ Extract!Extraction
    /\ UNCHANGED <<chain, replayVars, checked, unread>>

\* The events are left in the order the file has them in.
Sorted_FaultyFileOrder(events) == events

\* processEventsSorted of one file.
Sorted(events) ==
    LET order == InOrder(DOMAIN events,
                         LAMBDA i, j : Extract!Before(events[i], events[j]))
    IN  [i \in DOMAIN events |-> events[order[i]]]

\* The replay starts counting at the first deposit in the file.
StartReplay_FaultyFirst ==
    /\ step \in {"done", "aborted"}
    /\ unread = NotStarted
    /\ unread' = Sorted(file)
    /\ LET found == SelectSeq(Sorted(file), LAMBDA e : e \in DepositLogs)
       IN  depositCount' = IF found = <<>> THEN 0 ELSE DepositsBefore(found[1])
    /\ UNCHANGED <<blocks, extractVars, chain, frontier, batchDeposits, batchFrontier,
                   output, outcome, checked>>

\* The extraction has ended, and TestLERCalc is run on its file.
StartReplay ==
    /\ step \in {"done", "aborted"}
    /\ unread = NotStarted
    /\ unread' = Sorted(file)
    /\ UNCHANGED <<blocks, extractVars, chain, replayVars, checked>>

\* The replay handles the next event; claims fall into its default case.
Handle(event) ==
    LET kind == Extract!Kind(event)
    IN  \/ kind = "deposit" /\ DepositEvent(DepositsBefore(event))
        \/ kind = "V1GER" /\ V1GEREvent(DepositsBefore(event))
        \/ kind = "verify" /\ VerifyTrustedSequencerEvent
        \/ kind = "claim" /\ UNCHANGED <<chain, replayVars, checked>>

Read ==
    /\ unread \notin {NotStarted, <<>>}
    /\ outcome = "running"
    /\ UNCHANGED <<blocks, extractVars>>
    /\ Handle(Head(unread))
    /\ unread' = Tail(unread)

PipelineNext == Deposit \/ Grow \/ ExtractStep \/ StartReplay \/ Read

PipelineSpec == PipelineInit /\ [][PipelineNext]_pipelineVars

----------------------------------------------------------------------------
(* Properties.                                                              *)

\* What the extraction holds and has written are logs of mined blocks, and what
\* the replay reads are events of the file.
PipelineTypeOK ==
    /\ Extract!TypeOK
    /\ unread # NotStarted => ToSet(unread) \subseteq ToSet(file)

\* However L1 grows while it is read, no event is in the file twice.
NoDuplicates == Extract!NoDuplicates

\* An event is missing from the pages that are written only if its block was
\* mined after the first query for its page.
CompleteBehindHead == Extract!CompleteBehindHead

\* Whatever the extraction missed, the replay of its file is a replay of the
\* contract's deposits: all that holds of LERReplay holds here.
ReplaySpec == Spec

\* Some page was asked for before L1 had all of its blocks.
ReadPastHead == \E p \in DOMAIN tips : tips[p] < p * PageSize

\* The checks of the replay only fail on the file of an extraction that went
\* past the head of L1, however early the extraction was aborted: of a page
\* that is cut off, the deposits are in the file before the roots over them.
FailsOnlyPastHead == outcome = "failed" => ReadPastHead

\* A replay that comes to its end has the root of the contract over the
\* deposits up to the last V1GER event of the file, and lost none of them.
CompleteUpToRoot ==
    unread = <<>> /\ outcome = "running" =>
        \A log \in ToSet(file) :
            Extract!Kind(log) = "V1GER" => DepositsBefore(log) <= depositCount

\* A deposit number that differs (541) is noticed only if a page that L1 did not
\* have in full was followed by another one (275), which leaves out what is mined
\* in it later: whatever is lost or cut off within the last page, the deposits
\* of the file are consecutive.
GapsOnlyByPaging ==
    outcome = "failed" /\ checked = {} =>
        \E p \in DOMAIN tips : p < Len(tips) /\ tips[p] < p * PageSize
=============================================================================

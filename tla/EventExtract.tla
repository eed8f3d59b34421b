---------------------------- MODULE EventExtract ----------------------------
(***************************************************************************)
(* TestBridgeExtractEvents of lxly_bridge_test.go: page through L1, ask    *)
(* for the logs of three contracts in turn, and append the events among    *)
(* them to a file, until there are enough.                                 *)
(*                                                                         *)
(* L1 is external: it keeps adding blocks, and answers a query for blocks  *)
(* it does not have yet with what it has.  A log is the pair of its block  *)
(* and its place there, which stands for its transaction and log index.    *)
(*                                                                         *)
(* ..._Faulty... definitions are plausible bugs that test the properties.  *)
(***************************************************************************)
EXTENDS GoBasics

CONSTANTS
    PageSize,  \* blocks in a page: 1000 in the program
    StopAfter, \* events after which it ends: 20000 in the program
    MaxBlock,  \* bound: blocks of L1
    MaxLogs,   \* bound: logs in them
    MaxPages   \* bound: pages read

VARIABLES
    blocks, \* the logs of each block of L1; the last one is not mined yet
    from,   \* fromBlockNum
    step,   \* the contract asked next, or "write", "done", "aborted"
    logs,   \* logs of the page that are still to be written
    file,   \* the events in bridge_events_20k.ndjson
    tips    \* history: L1's last block at the first query of each page

extractVars == <<from, step, logs, file, tips>>
vars == <<blocks, extractVars>>

Kinds == {"deposit", "claim", "V1GER", "verify", "other"}

\* maybeFromLog knows the topics of the bridge's events and no others.
IsEvent(kind) == kind # "other"

\* The contract that emits a log; the roll-up manager has other events too.
Emitter(kind) ==
    CASE kind \in {"deposit", "claim"} -> "bridge"
      [] kind = "V1GER"                -> "GER"
      [] kind \in {"verify", "other"}  -> "rollupManager"

tip == Len(blocks) - 1

Logs == UNION {{b} \X DOMAIN blocks[b] : b \in DOMAIN blocks}
Kind(log) == blocks[log[1]][log[2]]

\* The order of block, transaction and log index.
Before(l, m) == l[1] < m[1] \/ (l[1] = m[1] /\ l[2] < m[2])

Init ==
    /\ blocks = << <<>> >>
    /\ from = 1
    /\ step = "bridge"
    /\ logs = <<>>
    /\ file = <<>>
    /\ tips = <<>>

----------------------------------------------------------------------------
\* A transaction emits a log into the block that is being built.
Emit(kind) ==
    /\ Cardinality(Logs) < MaxLogs
    /\ blocks' = [blocks EXCEPT ![Len(blocks)] = Append(@, kind)]
    /\ UNCHANGED extractVars

Mine ==
    /\ tip < MaxBlock
    /\ blocks' = Append(blocks, <<>>)
    /\ UNCHANGED extractVars

ToBlock == from + PageSize - 1

\* The answer to GetLogs for the page: the contract's logs in order.
GetLogs(contract) ==
    InOrder({log \in Logs : /\ log[1] \in from .. ToBlock
                            /\ log[1] <= tip
                            /\ Emitter(Kind(log)) = contract}, Before)

Query(contract, next) ==
    /\ step = contract
    /\ logs' = logs \o GetLogs(contract)
    /\ step' = next
    /\ tips' = IF contract = "bridge" THEN Append(tips, tip) ELSE tips
    /\ UNCHANGED <<blocks, from, file>>

QueryBridge == Len(tips) < MaxPages /\ Query("bridge", "GER")
QueryGER == Query("GER", "rollupManager")
QueryRollupManager == Query("rollupManager", "write")

\* Every log is written.
Write_FaultyUnfiltered ==
    /\ step = "write"
    /\ logs # <<>>
    /\ file' = Append(file, Head(logs))
    /\ logs' = Tail(logs)
    /\ UNCHANGED <<blocks, from, step, tips>>

\* The next log of the page is written if it is an event.
Write ==
    /\ step = "write"
    /\ logs # <<>>
    /\ file' = IF IsEvent(Kind(Head(logs))) THEN Append(file, Head(logs))
                                            ELSE file
    /\ logs' = Tail(logs)
    /\ UNCHANGED <<blocks, from, step, tips>>

\* The first block of the next page is skipped.
NextPage_FaultySkip ==
    /\ step = "write"
    /\ logs = <<>>
    /\ Len(file) < StopAfter
    /\ from' = ToBlock + 2
    /\ step' = "bridge"
    /\ UNCHANGED <<blocks, logs, file, tips>>

\* The last block of the page is read again.
NextPage_FaultyOverlap ==
    /\ step = "write"
    /\ logs = <<>>
    /\ Len(file) < StopAfter
    /\ from' = ToBlock
    /\ step' = "bridge"
    /\ UNCHANGED <<blocks, logs, file, tips>>

\* The page is written; the next one follows it, whether L1 had all of it or
\* not.
NextPage ==
    /\ step = "write"
    /\ logs = <<>>
    /\ Len(file) < StopAfter
    /\ from' = ToBlock + 1
    /\ step' = "bridge"
    /\ UNCHANGED <<blocks, logs, file, tips>>

\* Enough events.
Break ==
    /\ step = "write"
    /\ logs = <<>>
    /\ Len(file) >= StopAfter
    /\ step' = "done"
    /\ UNCHANGED <<blocks, from, logs, file, tips>>

\* A query fails its require.NoError, or the test runs into the time limit of
\* go test; what is written stays in the file.
Abort ==
    /\ step \notin {"done", "aborted"}
    /\ step' = "aborted"
    /\ UNCHANGED <<blocks, from, logs, file, tips>>

L1 == Mine \/ \E kind \in Kinds : Emit(kind)

Extraction ==
    \/ QueryBridge
    \/ QueryGER
    \/ QueryRollupManager
    \/ Write
    \/ NextPage
    \/ Break
    \/ Abort

Next == L1 \/ Extraction

Spec == Init /\ [][Next]_vars

----------------------------------------------------------------------------
(* Properties.                                                              *)

\* Only logs of mined blocks are ever held, and only events written.
TypeOK ==
    /\ blocks \in Seq(Seq(Kinds))
    /\ from \in Nat \ {0}
    /\ step \in {"bridge", "GER", "rollupManager", "write", "done", "aborted"}
    /\ \A log \in ToSet(logs) \cup ToSet(file) :
          log \in Logs /\ log[1] <= tip
    /\ \A log \in ToSet(file) : IsEvent(Kind(log))
    /\ tips \in Seq(0 .. tip)

\* However L1 grows while it is read, no event is in the file twice.
NoDuplicates == IsInjective(file)

\* A block was there when the page it belongs to was begun.
InTime(block) ==
    LET page == (block - 1) \div PageSize + 1
    IN  page \in DOMAIN tips /\ block <= tips[page]

\* An event is missing from the pages that are written only if its block was
\* mined after the first query for its page: L1 growing between the three
\* queries of a page loses nothing that was there before.
CompleteBehindHead ==
    \A log \in Logs :
        log[1] < from /\ InTime(log[1]) /\ IsEvent(Kind(log))
            => log \in ToSet(file)
=============================================================================

------------------------ MODULE BridgePipelineProofs ------------------------
(***************************************************************************)
(* The pipeline for every page size, growth of L1, height and number of    *)
(* deposits: what the extraction promises holds of it, the replay of its   *)
(* file is a replay in the sense of LERReplay, and the replay only fails   *)
(* if the extraction read past the head of L1.                             *)
(***************************************************************************)
EXTENDS BridgePipeline, LERReplayProofs

EP == INSTANCE EventExtractProofs

----------------------------------------------------------------------------
(* The extraction within the pipeline.                                      *)

\* Two instances of a module have the same operators.
LEMMA SameCardinality ==
    /\ \A S : Extract!Cardinality(S) = Cardinality(S)
    /\ \A S : EP!Cardinality(S) = Cardinality(S)
  BY DEF Extract!Cardinality, EP!Cardinality, Cardinality

\* Both instances agree on what is finite.
LEMMA SameFinite ==
    \A S : EP!IsFiniteSet(S) <=> IsFiniteSet(S)
  BY DEF EP!IsFiniteSet, IsFiniteSet

\* Both instances answer a query alike.
LEMMA SameGetLogs ==
    \A contract : Extract!GetLogs(contract) = EP!GetLogs(contract)
  BY DEF Extract!GetLogs, EP!GetLogs, Extract!InOrder, EP!InOrder,
         Extract!SetToSeqs, EP!SetToSeqs, Extract!Cardinality, EP!Cardinality,
         Extract!Logs, EP!Logs, Extract!ToBlock, EP!ToBlock, Extract!tip, EP!tip,
         Extract!Emitter, EP!Emitter, Extract!Kind, EP!Kind,
         Extract!Before, EP!Before

\* The steps of the pipeline's extraction are those the proofs are about.
LEMMA SameSteps ==
    /\ \A kind : Extract!Emit(kind) <=> EP!Emit(kind)
    /\ Extract!Mine <=> EP!Mine
    /\ Extract!Extraction <=> EP!Extraction
<1>1. \A kind : Extract!Emit(kind) <=> EP!Emit(kind)
  BY DEF Extract!Emit, EP!Emit, Extract!Logs, EP!Logs, Extract!extractVars,
         EP!extractVars, Extract!Cardinality, EP!Cardinality
<1>2. Extract!Mine <=> EP!Mine
  BY DEF Extract!Mine, EP!Mine, Extract!tip, EP!tip, Extract!extractVars,
         EP!extractVars
<1>3. \A contract, next : Extract!Query(contract, next) <=> EP!Query(contract, next)
  BY SameGetLogs DEF Extract!Query, EP!Query, Extract!tip, EP!tip
<1>4. Extract!Write <=> EP!Write
  BY DEF Extract!Write, EP!Write, Extract!IsEvent, EP!IsEvent,
         Extract!Kind, EP!Kind
<1>5. /\ Extract!NextPage <=> EP!NextPage
      /\ Extract!Break <=> EP!Break
      /\ Extract!Abort <=> EP!Abort
  BY DEF Extract!NextPage, EP!NextPage, Extract!ToBlock, EP!ToBlock,
         Extract!Break, EP!Break, Extract!Abort, EP!Abort
<1>6. Extract!Extraction <=> EP!Extraction
  BY <1>3, <1>4, <1>5
     DEF Extract!Extraction, EP!Extraction, Extract!QueryBridge, EP!QueryBridge,
         Extract!QueryGER, EP!QueryGER, Extract!QueryRollupManager,
         EP!QueryRollupManager
<1> QED
  BY <1>1, <1>2, <1>6

\* Every step of the pipeline is one of the extraction, or none.
LEMMA ExtractionSteps == [PipelineNext]_pipelineVars => [EP!Next]_(EP!vars)
<1>1. Deposit => EP!Next
  BY SameSteps DEF Deposit, EP!Next, EP!L1, EP!Kinds
<1>2. Grow => EP!Next
  BY SameSteps DEF Grow, Extract!Kinds, EP!Next, EP!L1, EP!Kinds
<1>3. ExtractStep => EP!Next
  BY SameSteps DEF ExtractStep, EP!Next
<1>4. StartReplay \/ Read \/ UNCHANGED pipelineVars => UNCHANGED EP!vars
  BY DEF StartReplay, Read, pipelineVars, extractVars, EP!vars, EP!extractVars
<1> QED
  BY <1>1, <1>2, <1>3, <1>4 DEF PipelineNext

\* The pipeline begins as the extraction does.
LEMMA ExtractionInit == PipelineInit => EP!Init
  BY DEF PipelineInit, Extract!Init, EP!Init

\* What is proved of the extraction holds within the pipeline.
THEOREM ExtractionInvariance ==
    PipelineSpec => [](EP!Inv /\ EP!InPlace /\ EP!Prefix)
<1>1. PipelineInit => EP!Inv /\ EP!InPlace /\ EP!Prefix
  <2>1. EP!Init => EP!Inv /\ EP!InPlace /\ EP!Prefix
    BY EP!InitPrefix, EP!InitInv, PageSizeAssumption
  <2> QED
    BY <2>1, ExtractionInit
<1>2. EP!Inv /\ EP!InPlace /\ EP!Prefix /\ [PipelineNext]_pipelineVars
        => (EP!Inv /\ EP!InPlace /\ EP!Prefix)'
  BY ExtractionSteps, EP!NextInv, EP!NextPrefix, PageSizeAssumption
<1> QED
  BY <1>1, <1>2, PTL DEF PipelineSpec

\* However L1 grows while it is read, no event is in the file twice.
THEOREM NoEventTwice == PipelineSpec => []NoDuplicates
<1>1. EP!Inv => NoDuplicates
  BY EP!InvNoDuplicates, PageSizeAssumption
     DEF EP!NoDuplicates, NoDuplicates, Extract!NoDuplicates,
         EP!IsInjective, Extract!IsInjective
<1> QED
  BY <1>1, ExtractionInvariance, PTL

\* An event is missing from the pages that are written only if its block was
\* mined after the first query for its page.
THEOREM AlwaysCompleteBehindHead == PipelineSpec => []CompleteBehindHead
<1>1. EP!Inv => CompleteBehindHead
  BY DEF EP!Inv, EP!CompleteBehindHead, CompleteBehindHead,
         Extract!CompleteBehindHead, EP!Logs, Extract!Logs, EP!Kind, Extract!Kind,
         EP!InTime, Extract!InTime, EP!IsEvent, Extract!IsEvent,
         EP!ToSet, Extract!ToSet
<1> QED
  BY <1>1, ExtractionInvariance, PTL
----------------------------------------------------------------------------
(* What the extraction leaves to the replay.                                *)

Extracted == EP!Inv /\ EP!InPlace /\ EP!Prefix

\* The facts about the extraction the replay rests on.
LEMMA ExtractedFacts ==
    ASSUME Extracted
    PROVE  /\ Extract!TypeOK
           /\ IsFiniteSet(Extract!Logs) /\ Extract!tip \in Nat
           /\ file \in Seq(Extract!Logs) /\ IsInjective(file)
           /\ \A log \in Extract!Logs :
                 /\ log = <<log[1], log[2]>> /\ log[1] \in Nat /\ log[2] \in Nat
                 /\ Extract!Kind(log) \in Extract!Kinds
           /\ \A log \in ToSet(file) :
                 log \in Extract!Logs /\ log[1] <= Extract!tip
<1>1. EP!TypeOK /\ EP!ChainOK /\ EP!NoDuplicates /\ file \in Seq(EP!Logs)
  BY EP!InvNoDuplicates, PageSizeAssumption DEF Extracted, EP!Inv, EP!Sequences
<1>2. EP!Logs = Extract!Logs /\ EP!tip = Extract!tip
  BY DEF EP!Logs, Extract!Logs, EP!tip, Extract!tip
<1>3. Extract!TypeOK
  BY <1>1 DEF EP!TypeOK, Extract!TypeOK, EP!Kinds, Extract!Kinds, EP!ToSet,
              Extract!ToSet, EP!Logs, Extract!Logs, EP!tip, Extract!tip,
              EP!Kind, Extract!Kind, EP!IsEvent, Extract!IsEvent
<1>4. IsFiniteSet(Extract!Logs)
  BY <1>1, <1>2, SameFinite DEF EP!ChainOK
<1>5. Extract!tip \in Nat
  BY <1>2, EP!InvTypes, PageSizeAssumption DEF Extracted
<1>6. IsInjective(file)
  BY <1>1 DEF EP!NoDuplicates, EP!IsInjective, IsInjective
<1>7. \A log \in Extract!Logs :
         /\ log = <<log[1], log[2]>> /\ log[1] \in Nat /\ log[2] \in Nat
         /\ Extract!Kind(log) \in Extract!Kinds
  <2>1. blocks \in Seq(Seq(EP!Kinds))
    BY <1>1 DEF EP!TypeOK
  <2>2. \A log \in EP!LogsIn(blocks) :
           /\ log = <<log[1], log[2]>>
           /\ log[1] \in Nat \ {0} /\ log[2] \in Nat \ {0}
           /\ blocks[log[1]][log[2]] \in EP!Kinds
    BY <2>1, EP!LogPair
  <2>3. EP!LogsIn(blocks) = Extract!Logs
    BY DEF EP!LogsIn, Extract!Logs
  <2> QED
    BY <2>2, <2>3 DEF EP!Kinds, Extract!Kinds, Extract!Kind
<1>8. \A log \in ToSet(file) : log \in Extract!Logs /\ log[1] <= Extract!tip
  BY <1>3 DEF Extract!TypeOK, ToSet, Extract!ToSet
<1> QED
  BY <1>1, <1>2, <1>3, <1>4, <1>5, <1>6, <1>7, <1>8

\* If no page was read past the head, the file has the deposits before each
\* event that the replay checks.
LEMMA DepositsInFile ==
    ASSUME Extracted, ~ReadPastHead, NEW e \in ToSet(file),
           Extract!Kind(e) \in {"deposit", "V1GER"},
           NEW d \in DepositLogs, Extract!Before(d, e)
    PROVE  d \in ToSet(file)
<1>1. EP!Prefix /\ ~EP!PastHead
  BY DEF Extracted, ReadPastHead, EP!PastHead
<1>2. e \in EP!ToSet(file) /\ EP!Checked(e)
  BY DEF ToSet, EP!ToSet, EP!Checked, EP!Kind, Extract!Kind
<1>3. d \in EP!Logs /\ EP!Kind(d) = "deposit" /\ EP!Before(d, e)
  BY DEF DepositLogs, EP!Logs, Extract!Logs, EP!Kind, Extract!Kind,
         EP!Before, Extract!Before
<1>4. d \in EP!ToSet(file)
  BY <1>1, <1>2, <1>3 DEF EP!Prefix
<1> QED
  BY <1>4 DEF ToSet, EP!ToSet

\* A log that L1 adds is of the block that is being built.
LEMMA LogEmitted ==
    ASSUME Extracted, NEW kind \in Extract!Kinds, Extract!Emit(kind)
    PROVE  \E new :
              /\ new \notin Extract!Logs /\ Extract!Logs' = Extract!Logs \cup {new}
              /\ new[1] = Extract!tip + 1 /\ Extract!Kind(new)' = kind
              /\ \A log \in Extract!Logs : Extract!Kind(log)' = Extract!Kind(log)
<1>1. EP!TypeOK /\ EP!ChainOK /\ kind \in EP!Kinds /\ EP!Emit(kind)
  BY SameSteps DEF Extracted, EP!Inv, Extract!Kinds, EP!Kinds
<1>2. /\ EP!Logs = Extract!Logs /\ EP!Logs' = Extract!Logs' /\ EP!tip = Extract!tip
      /\ \A log : EP!Kind(log) = Extract!Kind(log)
      /\ \A log : EP!Kind(log)' = Extract!Kind(log)'
  BY DEF EP!Logs, Extract!Logs, EP!tip, Extract!tip, EP!Kind, Extract!Kind
<1> QED
  BY <1>1, <1>2, EP!EmitAdds

\* Mining a block adds no log and changes none.
LEMMA BlockMined ==
    ASSUME Extracted, Extract!Mine
    PROVE  /\ Extract!Logs' = Extract!Logs
           /\ \A log \in Extract!Logs : Extract!Kind(log)' = Extract!Kind(log)
<1>1. EP!TypeOK /\ EP!Mine
  BY SameSteps DEF Extracted, EP!Inv
<1>2. /\ EP!Logs = Extract!Logs /\ EP!Logs' = Extract!Logs'
      /\ \A log : EP!Kind(log) = Extract!Kind(log)
      /\ \A log : EP!Kind(log)' = Extract!Kind(log)'
  BY DEF EP!Logs, Extract!Logs, EP!Kind, Extract!Kind
<1> QED
  BY <1>1, <1>2, EP!MineAdds

----------------------------------------------------------------------------
(* The deposits of L1 are those of the contract's tree.                     *)

Counted == chain \in Seq(Leaves) /\ Cardinality(DepositLogs) = Len(chain)

\* What a step of the pipeline other than the replay's changes for the events
\* that are in the file.
Stable ==
    /\ \A log \in ToSet(file) : Extract!Kind(log)' = Extract!Kind(log)
    /\ \A log \in ToSet(file) : DepositsBefore(log)' = DepositsBefore(log)

\* The deposits of the chain are finitely many, and so are those before a log.
LEMMA FiniteDeposits ==
    ASSUME Extracted
    PROVE  /\ IsFiniteSet(DepositLogs) /\ Cardinality(DepositLogs) \in Nat
           /\ \A log : DepositsBefore(log) \in 0 .. Cardinality(DepositLogs)
           /\ \A log \in DepositLogs :
                 DepositsBefore(log) \in 0 .. Cardinality(DepositLogs) - 1
<1>1. IsFiniteSet(DepositLogs)
  BY ExtractedFacts, FS_Subset DEF DepositLogs
<1>2. Cardinality(DepositLogs) \in Nat
  BY <1>1, FS_CardinalityType
<1>3. ASSUME NEW log
      PROVE  /\ DepositsBefore(log) \in 0 .. Cardinality(DepositLogs)
             /\ log \in DepositLogs =>
                   DepositsBefore(log) < Cardinality(DepositLogs)
  <2> DEFINE B == {d \in DepositLogs : Extract!Before(d, log)}
  <2>1. /\ IsFiniteSet(B) /\ Cardinality(B) <= Cardinality(DepositLogs)
        /\ B # DepositLogs => Cardinality(B) < Cardinality(DepositLogs)
    <3>1. B \subseteq DepositLogs
      OBVIOUS
    <3> HIDE DEF B
    <3>2. IsFiniteSet(B) /\ Cardinality(B) <= Cardinality(DepositLogs)
      BY <1>1, <3>1, FS_Subset
    <3>3. Cardinality(B) = Cardinality(DepositLogs) => B = DepositLogs
      BY <1>1, <3>1, FS_Subset
    <3>4. Cardinality(B) \in Nat
      BY <3>2, FS_CardinalityType
    <3> QED
      BY <1>2, <3>2, <3>3, <3>4
  <2>2. Cardinality(B) \in Nat
    BY <2>1, FS_CardinalityType
  <2>3. ASSUME log \in DepositLogs PROVE B # DepositLogs
    <3>1. log[1] \in Nat /\ log[2] \in Nat
      BY <2>3, ExtractedFacts DEF DepositLogs
    <3>2. ~Extract!Before(log, log)
      BY <3>1 DEF Extract!Before
    <3> QED
      BY <2>3, <3>2
  <2> QED
    BY <1>2, <2>1, <2>2, <2>3 DEF DepositsBefore
<1> QED
  BY <1>1, <1>2, <1>3

\* L1 only appends: the number of a deposit never changes.
LEMMA GrowthCounted ==
    ASSUME Extracted, Counted, Deposit \/ Grow
    PROVE  Counted' /\ Stable
<1>1. /\ IsFiniteSet(DepositLogs) /\ Cardinality(DepositLogs) \in Nat
      /\ \A log \in ToSet(file) : log \in Extract!Logs /\ log[1] <= Extract!tip
      /\ \A log \in Extract!Logs : log[1] \in Nat
      /\ Extract!tip \in Nat
  BY FiniteDeposits, ExtractedFacts
<1>2. ASSUME NEW kind \in Extract!Kinds, Extract!Emit(kind)
      PROVE  /\ Stable
             /\ kind = "deposit" =>
                   Cardinality(DepositLogs') = Cardinality(DepositLogs) + 1
             /\ kind # "deposit" => DepositLogs' = DepositLogs
  <2>1. PICK new :
           /\ new \notin Extract!Logs /\ Extract!Logs' = Extract!Logs \cup {new}
           /\ new[1] = Extract!tip + 1 /\ Extract!Kind(new)' = kind
           /\ \A log \in Extract!Logs : Extract!Kind(log)' = Extract!Kind(log)
    BY <1>2, LogEmitted
  <2>2. /\ kind = "deposit" => DepositLogs' = DepositLogs \cup {new}
        /\ kind # "deposit" => DepositLogs' = DepositLogs
        /\ new \notin DepositLogs
    BY <2>1 DEF DepositLogs
  <2>3. kind = "deposit" => Cardinality(DepositLogs') = Cardinality(DepositLogs) + 1
    BY <1>1, <2>2, FS_AddElement
  <2>4. ASSUME NEW log \in ToSet(file)
        PROVE  DepositsBefore(log)' = DepositsBefore(log)
    <3>1. ~Extract!Before(new, log)
      BY <1>1, <2>1 DEF Extract!Before
    <3>2. {d \in DepositLogs' : Extract!Before(d, log)}
            = {d \in DepositLogs : Extract!Before(d, log)}
      BY <2>2, <3>1
    <3> QED
      BY <3>2 DEF DepositsBefore, Extract!Before
  <2> QED
    BY <1>1, <2>1, <2>2, <2>3, <2>4 DEF Stable
<1>3. CASE Deposit
  <2>1. /\ Cardinality(DepositLogs') = Cardinality(DepositLogs) + 1 /\ Stable
    BY <1>2, <1>3 DEF Deposit, Extract!Kinds
  <2>2. PICK leaf \in Leaves : chain' = Append(chain, leaf)
    BY <1>3 DEF Deposit, BridgeDeposit
  <2> QED
    BY <2>1, <2>2 DEF Counted
<1>4. CASE Grow
  <2>1. chain' = chain
    BY <1>4 DEF Grow
  <2>2. ASSUME Extract!Mine PROVE DepositLogs' = DepositLogs /\ Stable
    <3>1. /\ Extract!Logs' = Extract!Logs
          /\ \A log \in Extract!Logs : Extract!Kind(log)' = Extract!Kind(log)
      BY <2>2, BlockMined
    <3>2. DepositLogs' = DepositLogs
      BY <3>1 DEF DepositLogs
    <3> QED
      BY <1>1, <3>1, <3>2 DEF Stable, DepositsBefore, Extract!Before
  <2>3. DepositLogs' = DepositLogs /\ Stable
    BY <1>2, <1>4, <2>2 DEF Grow
  <2> QED
    BY <2>1, <2>3 DEF Counted
<1> QED
  BY <1>3, <1>4
----------------------------------------------------------------------------
(* The order of the replay.                                                 *)

InL1Order(events) ==
    \A i, j \in DOMAIN events : i < j => Extract!Before(events[i], events[j])

\* An interval from 1 has as many elements as its end says.
LEMMA Interval ==
    ASSUME NEW n \in Nat
    PROVE  IsFiniteSet(1 .. n) /\ Cardinality(1 .. n) = n
<1>1. 1 \in Int /\ n \in Int /\ (1 > n => n = 0)
  OBVIOUS
<1> QED
  BY <1>1, FS_Interval

\* A sequence as a function.
LEMMA SeqIsFunction ==
    ASSUME NEW T, NEW n \in Nat, NEW f \in [1 .. n -> T] PROVE f \in Seq(T)
  OBVIOUS

\* The place before one that is not the first.
LEMMA PlaceBefore ==
    ASSUME NEW n \in Nat, NEW i \in 1 .. n, i # 1
    PROVE  i - 1 \in 1 .. n - 1 /\ (i - 1) + 1 = i
  OBVIOUS

\* The order of L1 is total.
LEMMA BeforeOrder ==
    ASSUME NEW x, NEW y, NEW z,
           x = <<x[1], x[2]>>, x[1] \in Nat, x[2] \in Nat,
           y = <<y[1], y[2]>>, y[1] \in Nat, y[2] \in Nat,
           z = <<z[1], z[2]>>, z[1] \in Nat, z[2] \in Nat
    PROVE  /\ ~Extract!Before(x, x)
           /\ ~(Extract!Before(x, y) /\ Extract!Before(y, x))
           /\ x = y \/ Extract!Before(x, y) \/ Extract!Before(y, x)
           /\ ~Extract!Before(y, x) /\ ~Extract!Before(z, y) => ~Extract!Before(z, x)
<1>1. x[1] = y[1] /\ x[2] = y[2] => x = y
  <2> SUFFICES ASSUME x[1] = y[1], x[2] = y[2] PROVE x = y
    OBVIOUS
  <2>1. <<x[1], x[2]>> = <<y[1], y[2]>>
    OBVIOUS
  <2> QED
    BY <2>1
<1> QED
  BY <1>1 DEF Extract!Before

\* processEventsSorted handles the events of the file, each once, in order.
LEMMA SortedExact ==
    ASSUME NEW S, \A l \in S : l = <<l[1], l[2]>> /\ l[1] \in Nat /\ l[2] \in Nat,
           NEW events \in Seq(S), IsInjective(events)
    PROVE  /\ Sorted(events) \in Seq(ToSet(events))
           /\ ToSet(Sorted(events)) = ToSet(events)
           /\ InL1Order(Sorted(events))
<1> DEFINE D == DOMAIN events
           Less(i, j) == Extract!Before(events[i], events[j])
           R == {pair \in D \X D : ~Less(pair[2], pair[1])}
           order == InOrder(D, Less)
           sorted == Sorted(events)
<1>1. D = 1 .. Len(events) /\ Len(events) \in Nat /\ \A i \in D : events[i] \in S
  OBVIOUS
<1>2. IsFiniteSet(D) /\ Cardinality(D) = Len(events)
  <2>1. /\ IsFiniteSet(1 .. Len(events))
        /\ Cardinality(1 .. Len(events)) = Len(events)
    BY <1>1, Interval
  <2> HIDE DEF D
  <2> QED
    BY <1>1, <2>1
<1>3. \A i, j \in D : <<i, j>> \in R \/ <<j, i>> \in R
  BY <1>1, BeforeOrder
<1>4. ASSUME NEW i \in D, NEW j \in D, NEW k \in D,
             <<i, j>> \in R, <<j, k>> \in R
      PROVE  <<i, k>> \in R
  <2>1. ~Less(j, i) /\ ~Less(k, j)
    BY <1>4
  <2>2. ~Less(k, i)
    BY <1>1, <2>1, BeforeOrder
  <2> QED
    BY <2>2
<1> HIDE DEF R
<1>5. PICK o \in SetToSeqs(D) : \A i, j \in DOMAIN o : i < j => <<o[i], o[j]>> \in R
  BY <1>2, <1>3, <1>4, OrderExists
<1>6. \A i, j \in DOMAIN o : i < j => ~Less(o[j], o[i])
  BY <1>5 DEF R
<1> HIDE DEF D, Less
<1>7. /\ order \in SetToSeqs(D)
      /\ \A i, j \in DOMAIN order : i < j => ~Less(order[j], order[i])
  BY <1>5, <1>6 DEF InOrder
<1>8. sorted = [i \in D |-> events[order[i]]]
  BY DEF Sorted, D, Less
<1> HIDE DEF order, sorted
<1>9. /\ order \in Seq(D) /\ Len(order) = Len(events) /\ IsInjective(order)
      /\ ToSet(order) = D /\ DOMAIN order = D
  <2>1. /\ order \in Seq(D) /\ Len(order) = Cardinality(D) /\ IsInjective(order)
        /\ ToSet(order) = D
    BY <1>2, <1>7, SeqsOfSet
  <2>2. DOMAIN order = 1 .. Len(order)
    BY <2>1
  <2> QED
    BY <1>1, <1>2, <2>1, <2>2
<1>10. \A i \in D : order[i] \in D
  BY <1>9
<1>11. sorted \in Seq(ToSet(events))
  <2>1. sorted \in [1 .. Len(events) -> ToSet(events)]
    BY <1>1, <1>8, <1>10 DEF ToSet, D
  <2> QED
    BY <1>1, <2>1, SeqIsFunction
<1>12. ToSet(sorted) = ToSet(events)
  <2>1. ASSUME NEW i \in D PROVE events[i] \in ToSet(sorted)
    <3>1. PICK k \in D : order[k] = i
      BY <1>9 DEF ToSet
    <3> QED
      BY <1>8, <3>1 DEF ToSet
  <2>2. ASSUME NEW i \in D PROVE sorted[i] \in ToSet(events)
    BY <1>8, <1>10 DEF ToSet, D
  <2>3. DOMAIN sorted = D
    BY <1>8
  <2> QED
    BY <2>1, <2>2, <2>3 DEF ToSet, D
<1>13. ASSUME NEW i \in D, NEW j \in D, i < j
       PROVE  Extract!Before(sorted[i], sorted[j])
  <2>1. ~Less(order[j], order[i]) /\ order[i] \in D /\ order[j] \in D
    BY <1>7, <1>9, <1>10, <1>13
  <2>2. order[i] # order[j]
    BY <1>1, <1>9, <1>13 DEF IsInjective
  <2>3. events[order[i]] # events[order[j]]
    BY <2>1, <2>2 DEF IsInjective, D
  <2>4. Less(order[i], order[j])
    BY <1>1, <2>1, <2>3, BeforeOrder DEF Less
  <2> QED
    BY <1>8, <2>4 DEF Less
<1>14. InL1Order(sorted)
  BY <1>8, <1>13 DEF InL1Order
<1> QED
  BY <1>11, <1>12, <1>14 DEF sorted

\* The event at the head of those that are left comes before the others.
LEMMA HeadFirst ==
    ASSUME NEW S, \A l \in S : l = <<l[1], l[2]>> /\ l[1] \in Nat /\ l[2] \in Nat,
           NEW events \in Seq(S), events # <<>>, InL1Order(events)
    PROVE  /\ Head(events) \in S /\ Head(events) \in ToSet(events)
           /\ Tail(events) \in Seq(S) /\ InL1Order(Tail(events))
           /\ ToSet(Tail(events)) = ToSet(events) \ {Head(events)}
           /\ \A e \in ToSet(Tail(events)) : Extract!Before(Head(events), e)
<1> DEFINE h == Head(events)
           t == Tail(events)
<1>1. /\ h = events[1] /\ h \in S /\ t \in Seq(S) /\ 1 \in DOMAIN events
      /\ Len(events) \in Nat /\ DOMAIN events = 1 .. Len(events)
      /\ DOMAIN t = 1 .. Len(events) - 1
  OBVIOUS
<1>2. \A i \in DOMAIN t : /\ i + 1 \in DOMAIN events /\ t[i] = events[i + 1]
                          /\ i \in Nat /\ 1 < i + 1
  OBVIOUS
<1> HIDE DEF h, t
<1>3. \A i \in DOMAIN t : Extract!Before(h, t[i]) /\ t[i] # h
  <2>1. ASSUME NEW i \in DOMAIN t PROVE Extract!Before(h, t[i])
    <3>1. 1 \in DOMAIN events /\ i + 1 \in DOMAIN events /\ 1 < i + 1
      BY <1>1, <1>2
    <3>2. Extract!Before(events[1], events[i + 1])
      BY <3>1 DEF InL1Order
    <3> QED
      BY <1>1, <1>2, <3>2
  <2>2. ~Extract!Before(h, h)
    BY <1>1 DEF Extract!Before
  <2> QED
    BY <2>1, <2>2
<1>4. InL1Order(t)
  BY <1>2 DEF InL1Order
<1>5. ASSUME NEW i \in DOMAIN events, events[i] # h PROVE events[i] \in ToSet(t)
  <2>1. i \in 1 .. Len(events) /\ i # 1
    BY <1>1, <1>5
  <2>2. i - 1 \in 1 .. Len(events) - 1 /\ (i - 1) + 1 = i
    BY <1>1, <2>1, PlaceBefore
  <2>3. t[i - 1] = events[i] /\ i - 1 \in DOMAIN t
    BY <1>1, <1>2, <2>2
  <2> QED
    BY <2>3 DEF ToSet
<1>6. ToSet(t) = ToSet(events) \ {h} /\ h \in ToSet(events)
  <2>1. h \in ToSet(events)
    BY <1>1 DEF ToSet
  <2>2. ASSUME NEW e \in ToSet(t) PROVE e \in ToSet(events) /\ e # h
    BY <1>2, <1>3 DEF ToSet
  <2>3. ASSUME NEW e \in ToSet(events), e # h PROVE e \in ToSet(t)
    BY <1>5, <2>3 DEF ToSet
  <2> QED
    BY <2>1, <2>2, <2>3
<1>7. \A e \in ToSet(t) : Extract!Before(h, e)
  BY <1>3 DEF ToSet
<1> QED
  BY <1>1, <1>4, <1>6, <1>7 DEF h, t
----------------------------------------------------------------------------
(* The replay within the pipeline.                                          *)

\* The events that the replay has handled, and the deposits among them.
Handled == ToSet(file) \ ToSet(unread)
Replayed == {e \in Handled : Extract!Kind(e) = "deposit"}

\* The replay starts when the file is complete, with nothing read, and goes
\* through its events in order.
Started ==
    /\ unread = NotStarted => depositCount = 0 /\ outcome = "running"
    /\ unread # NotStarted =>
          /\ step \in {"done", "aborted"}
          /\ unread \in Seq(ToSet(file))
          /\ InL1Order(unread)
          /\ \A e \in Handled, u \in ToSet(unread) : Extract!Before(e, u)

\* The extraction and the replay do not run at the same time.
LEMMA ExtractBeforeReplay ==
    ASSUME Started, Extract!Extraction PROVE unread = NotStarted
<1>1. step \notin {"done", "aborted"}
  BY DEF Extract!Extraction, Extract!QueryBridge, Extract!QueryGER,
         Extract!QueryRollupManager, Extract!Query, Extract!Write,
         Extract!NextPage, Extract!Break, Extract!Abort
<1> QED
  BY <1>1 DEF Started

\* The file holds logs of the chain, each once.
LEMMA FileLogs ==
    ASSUME Extracted
    PROVE  /\ \A l \in ToSet(file) :
                 /\ l = <<l[1], l[2]>> /\ l[1] \in Nat /\ l[2] \in Nat
                 /\ l \in Extract!Logs /\ l \in Nat \X Nat
                 /\ Extract!Kind(l) \in Extract!Kinds
           /\ ToSet(file) \subseteq Nat \X Nat
           /\ file \in Seq(ToSet(file)) /\ IsInjective(file)
<1>1. \A l \in ToSet(file) :
         /\ l = <<l[1], l[2]>> /\ l[1] \in Nat /\ l[2] \in Nat
         /\ l \in Extract!Logs /\ Extract!Kind(l) \in Extract!Kinds
  BY ExtractedFacts
<1>2. \A l \in ToSet(file) : l \in Nat \X Nat
  BY <1>1
<1>3. file \in Seq(ToSet(file))
  <2>1. Len(file) \in Nat /\ file \in [1 .. Len(file) -> ToSet(file)]
    BY ExtractedFacts DEF ToSet
  <2> QED
    BY <2>1, SeqIsFunction
<1> QED
  BY <1>1, <1>2, <1>3, ExtractedFacts

\* What Read does to the events that are handled.
LEMMA ReadHandles ==
    ASSUME Extracted, Started, unread \notin {NotStarted, <<>>},
           unread' = Tail(unread), UNCHANGED <<blocks, extractVars>>
    PROVE  /\ Head(unread) \in ToSet(file) /\ Head(unread) \notin Handled
           /\ Handled' = Handled \cup {Head(unread)}
           /\ unread' # NotStarted
           /\ unread' \in Seq(ToSet(file)) /\ InL1Order(unread')
           /\ \A e \in Handled', u \in ToSet(unread') : Extract!Before(e, u)
           /\ \A e \in Handled : Extract!Before(e, Head(unread))
           /\ \A u \in ToSet(unread) : ~Extract!Before(u, Head(unread))
<1> DEFINE S == ToSet(file)
           h == Head(unread)
           t == Tail(unread)
<1>1. /\ unread \in Seq(S) /\ InL1Order(unread)
      /\ \A e \in Handled, u \in ToSet(unread) : Extract!Before(e, u)
  BY DEF Started
<1>2. \A l \in S : l = <<l[1], l[2]>> /\ l[1] \in Nat /\ l[2] \in Nat
  BY FileLogs
<1> HIDE DEF S
<1>3. /\ h \in S /\ h \in ToSet(unread) /\ t \in Seq(S) /\ InL1Order(t)
      /\ ToSet(t) = ToSet(unread) \ {h}
      /\ \A e \in ToSet(t) : Extract!Before(h, e)
  BY <1>1, <1>2, HeadFirst
<1>4. ToSet(file') = S
  BY DEF S, extractVars
<1> HIDE DEF h, t
<1>5. Handled' = Handled \cup {h} /\ h \notin Handled
  BY <1>3, <1>4 DEF Handled, S, t
<1>6. t # NotStarted
  <2>1. S \subseteq Nat \X Nat
    BY FileLogs DEF S
  <2>2. t \in Seq(Nat \X Nat)
    BY <1>3, <2>1, EP!SeqMonotone
  <2> QED
    BY <2>2, NotStartedAssumption
<1>7. \A e \in Handled \cup {h}, u \in ToSet(t) : Extract!Before(e, u)
  BY <1>1, <1>3
<1>8. \A e \in Handled : Extract!Before(e, h)
  BY <1>1, <1>3
<1>9. ASSUME NEW u \in ToSet(unread) PROVE ~Extract!Before(u, h)
  <2>1. u \in S
    BY <1>1 DEF ToSet
  <2>2. u = h \/ Extract!Before(h, u)
    BY <1>3
  <2> QED
    BY <1>2, <1>3, <2>1, <2>2, BeforeOrder
<1> QED
  BY <1>3, <1>5, <1>6, <1>7, <1>8, <1>9 DEF S, h, t

\* An event of the file is of one of the contract's deposits, or after some.
LEMMA FileCounts ==
    ASSUME Extracted, Counted, NEW e \in ToSet(file)
    PROVE  /\ DepositsBefore(e) \in 0 .. Len(chain)
           /\ Extract!Kind(e) = "deposit" => DepositsBefore(e) \in 0 .. Len(chain) - 1
<1>1. e \in Extract!Logs
  BY ExtractedFacts
<1> QED
  BY <1>1, FiniteDeposits DEF Counted, DepositLogs

\* Every step of the pipeline is a step of the replay or leaves it alone.
LEMMA ReplaySteps ==
    ASSUME Extracted, Counted, Started, [PipelineNext]_pipelineVars
    PROVE  [Next]_vars
<1>1. CASE Deposit
  BY <1>1 DEF Deposit, Next
<1>2. CASE Grow \/ ExtractStep \/ StartReplay \/ UNCHANGED pipelineVars
  BY <1>2 DEF Grow, ExtractStep, StartReplay, pipelineVars, vars
<1>3. CASE Read
  <2> DEFINE e == Head(unread)
  <2>1. e \in ToSet(file)
    BY <1>3, ReadHandles DEF Read
  <2>2. /\ DepositsBefore(e) \in 0 .. Len(chain)
        /\ Extract!Kind(e) = "deposit" => DepositsBefore(e) \in 0 .. Len(chain) - 1
    BY <2>1, FileCounts
  <2>3. Handle(e)
    BY <1>3 DEF Read
  <2> HIDE DEF e
  <2> QED
    BY <2>2, <2>3 DEF Handle, Next, vars
<1> QED
  BY <1>1, <1>2, <1>3 DEF PipelineNext

\* Every step keeps the count of the deposits, and what the replay reads.
LEMMA StepStarted ==
    ASSUME Extracted, Counted, Started, [PipelineNext]_pipelineVars
    PROVE  Started' /\ Counted'
<1>1. CASE Deposit \/ Grow
  <2>1. UNCHANGED <<step, file, unread, depositCount, outcome>>
    BY <1>1 DEF Deposit, Grow, Extract!Emit, Extract!Mine, Extract!extractVars,
                BridgeDeposit, replayVars
  <2> QED
    BY <1>1, <2>1, GrowthCounted DEF Started, Handled, InL1Order
<1>2. CASE ExtractStep
  <2>1. unread = NotStarted
    BY <1>2, ExtractBeforeReplay DEF ExtractStep
  <2>2. UNCHANGED <<blocks, chain, depositCount, outcome, unread>>
    BY <1>2 DEF ExtractStep, replayVars, Extract!Extraction, Extract!QueryBridge,
                Extract!QueryGER, Extract!QueryRollupManager, Extract!Query,
                Extract!Write, Extract!NextPage, Extract!Break, Extract!Abort
  <2> QED
    BY <2>1, <2>2 DEF Started, Counted, DepositLogs, Extract!Logs, Extract!Kind
<1>3. CASE StartReplay
  <2>1. /\ step \in {"done", "aborted"} /\ unread' = Sorted(file)
        /\ UNCHANGED <<blocks, step, file, chain, depositCount, outcome>>
        /\ unread = NotStarted
    BY <1>3 DEF StartReplay, extractVars, replayVars
  <2>2. /\ Sorted(file) \in Seq(ToSet(file))
        /\ ToSet(Sorted(file)) = ToSet(file) /\ InL1Order(Sorted(file))
    BY FileLogs, SortedExact
  <2>3. Handled' = {}
    BY <2>1, <2>2 DEF Handled
  <2> QED
    BY <2>1, <2>2, <2>3
       DEF Started, Counted, DepositLogs, Extract!Logs, Extract!Kind
<1>4. CASE Read
  <2>1. /\ unread \notin {NotStarted, <<>>} /\ unread' = Tail(unread)
        /\ UNCHANGED <<blocks, extractVars>>
    BY <1>4 DEF Read
  <2>2. /\ unread' # NotStarted
        /\ unread' \in Seq(ToSet(file)) /\ InL1Order(unread')
        /\ \A e \in Handled', u \in ToSet(unread') : Extract!Before(e, u)
    BY <2>1, ReadHandles
  <2>3. UNCHANGED <<step, file>> /\ step \in {"done", "aborted"}
    BY <2>1 DEF extractVars, Started
  <2>4. UNCHANGED <<blocks, chain>>
    BY <1>4 DEF Read, Handle, DepositEvent, V1GEREvent, VerifyTrustedSequencerEvent
  <2>5. Started'
    BY <2>2, <2>3 DEF Started, InL1Order
  <2> QED
    BY <2>4, <2>5 DEF Counted, DepositLogs, Extract!Logs, Extract!Kind
<1>5. CASE UNCHANGED pipelineVars
  BY <1>5 DEF pipelineVars, extractVars, replayVars, Started, Counted, Handled,
              InL1Order, DepositLogs, Extract!Logs, Extract!Kind
<1> QED
  BY <1>1, <1>2, <1>3, <1>4, <1>5 DEF PipelineNext

\* The inductive invariant of the whole pipeline holds in every state.
THEOREM PipelineInvariance ==
    PipelineSpec => [](Extracted /\ Counted /\ Started)
<1>1. PipelineInit => Counted /\ Started
  <2> SUFFICES ASSUME PipelineInit PROVE Counted /\ Started
    OBVIOUS
  <2>1. blocks = << <<>> >> /\ chain = <<>> /\ unread = NotStarted
        /\ depositCount = 0 /\ outcome = "running"
    BY DEF PipelineInit, Extract!Init, Init
  <2>2. DepositLogs = {}
    BY <2>1 DEF DepositLogs, Extract!Logs
  <2> QED
    BY <2>1, <2>2, FS_EmptySet DEF Counted, Started
<1>2. PipelineSpec => []Extracted
  BY ExtractionInvariance DEF Extracted
<1>3. Extracted /\ Counted /\ Started /\ [PipelineNext]_pipelineVars
        => (Counted /\ Started)'
  BY StepStarted
<1> QED
  BY <1>1, <1>2, <1>3, PTL DEF PipelineSpec

\* Whatever the extraction missed, the replay of its file is a replay of the
\* contract's deposits.
THEOREM ReplayRefined == PipelineSpec => ReplaySpec
<1>1. PipelineInit => Init
  BY DEF PipelineInit
<1>2. Extracted /\ Counted /\ Started /\ [PipelineNext]_pipelineVars => [Next]_vars
  BY ReplaySteps
<1> QED
  BY <1>1, <1>2, PipelineInvariance, PTL DEF PipelineSpec, ReplaySpec, Spec

\* What the extraction holds and has written are logs of mined blocks, and what
\* the replay reads are events of the file.
THEOREM PipelineTyping == PipelineSpec => []PipelineTypeOK
<1>1. Extracted /\ Started => PipelineTypeOK
  BY ExtractedFacts DEF Started, PipelineTypeOK, ToSet
<1> QED
  BY <1>1, PipelineInvariance, PTL
----------------------------------------------------------------------------
(* The deposit count of the replay, and its checks.                         *)

\* What the replay counts are the deposits that it has read.
Exact ==
    unread # NotStarted /\ outcome = "running" =>
        depositCount = Cardinality(Replayed)

\* A page that L1 did not have in full was followed by another one.
PagedOn == \E p \in DOMAIN tips : p < Len(tips) /\ tips[p] < p * PageSize

\* The deposits of the file of an extraction that did not page on are
\* consecutive.
LEMMA ConsecutiveInFile ==
    ASSUME Extracted, EP!Consecutive, ~PagedOn, NEW e \in ToSet(file),
           Extract!Kind(e) = "deposit", NEW d \in DepositLogs, Extract!Before(d, e)
    PROVE  d \in ToSet(file)
<1>1. ~EP!Gap
  BY DEF PagedOn, EP!Gap
<1>2. e \in EP!ToSet(file) /\ EP!Kind(e) = "deposit"
  BY DEF ToSet, EP!ToSet, EP!Kind, Extract!Kind
<1>3. d \in EP!Logs /\ EP!Kind(d) = "deposit" /\ EP!Before(d, e)
  BY DEF DepositLogs, EP!Logs, Extract!Logs, EP!Kind, Extract!Kind,
         EP!Before, Extract!Before
<1>4. d \in EP!ToSet(file)
  BY <1>1, <1>2, <1>3 DEF EP!Consecutive
<1> QED
  BY <1>4 DEF ToSet, EP!ToSet

\* The roots that have been checked are over deposits that have been read.
UpTo ==
    unread # NotStarted /\ outcome = "running" =>
        \A e \in Handled :
            Extract!Kind(e) = "V1GER" => DepositsBefore(e) <= depositCount

\* The replay has finitely many events to read.
LEMMA FiniteReplayed ==
    ASSUME Extracted
    PROVE  IsFiniteSet(Replayed) /\ Cardinality(Replayed) \in Nat
<1>1. Replayed \subseteq Extract!Logs /\ IsFiniteSet(Extract!Logs)
  BY ExtractedFacts DEF Replayed, Handled
<1> QED
  BY <1>1, FS_Subset, FS_CardinalityType

\* The deposits before the event at hand are those that have been replayed, if
\* the file has them.
LEMMA CountAtHead ==
    ASSUME Extracted, Started, unread \notin {NotStarted, <<>>},
           unread' = Tail(unread), UNCHANGED <<blocks, extractVars>>,
           \A d \in DepositLogs :
              Extract!Before(d, Head(unread)) => d \in ToSet(file)
    PROVE  DepositsBefore(Head(unread)) = Cardinality(Replayed)
<1> DEFINE h == Head(unread)
<1>1. /\ h \in ToSet(file)
      /\ \A e \in Handled : Extract!Before(e, h)
      /\ \A u \in ToSet(unread) : ~Extract!Before(u, h)
  BY ReadHandles
<1>2. ASSUME NEW d \in DepositLogs, Extract!Before(d, h) PROVE d \in Replayed
  <2>1. d \in ToSet(file)
    BY <1>2
  <2> QED
    BY <1>1, <1>2, <2>1 DEF Replayed, Handled, DepositLogs
<1>3. ASSUME NEW e \in Replayed PROVE e \in DepositLogs /\ Extract!Before(e, h)
  BY <1>1, ExtractedFacts DEF Replayed, Handled, DepositLogs
<1>4. {d \in DepositLogs : Extract!Before(d, h)} = Replayed
  BY <1>2, <1>3
<1> QED
  BY <1>4 DEF DepositsBefore

\* The steps that do not read.
LEMMA StepElsewhere ==
    ASSUME Extracted, Counted, Started, [PipelineNext]_pipelineVars, ~Read
    PROVE  /\ Exact => Exact'
           /\ UpTo => UpTo'
           /\ FailsOnlyPastHead => FailsOnlyPastHead'
           /\ GapsOnlyByPaging => GapsOnlyByPaging'
<1>1. CASE Deposit \/ Grow
  <2>1. UNCHANGED <<tips, file, unread, depositCount, outcome, checked>>
    BY <1>1 DEF Deposit, Grow, Extract!Emit, Extract!Mine, Extract!extractVars,
                BridgeDeposit, replayVars
  <2>2. /\ \A e \in ToSet(file) : Extract!Kind(e)' = Extract!Kind(e)
        /\ \A e \in ToSet(file) : DepositsBefore(e)' = DepositsBefore(e)
    BY <1>1, GrowthCounted DEF Stable
  <2>3. Handled' = Handled /\ Handled \subseteq ToSet(file)
    BY <2>1 DEF Handled
  <2>4. Replayed' = Replayed
    BY <2>2, <2>3 DEF Replayed
  <2> QED
    BY <2>1, <2>2, <2>3, <2>4
       DEF Exact, UpTo, FailsOnlyPastHead, ReadPastHead, GapsOnlyByPaging
<1>2. CASE ExtractStep
  <2>1. unread = NotStarted /\ outcome = "running"
    BY <1>2, ExtractBeforeReplay DEF ExtractStep, Started
  <2>2. UNCHANGED <<outcome, unread>>
    BY <1>2 DEF ExtractStep, replayVars
  <2> QED
    BY <2>1, <2>2 DEF Exact, UpTo, FailsOnlyPastHead, GapsOnlyByPaging
<1>3. CASE StartReplay
  <2>1. /\ unread = NotStarted /\ depositCount = 0 /\ outcome = "running"
        /\ UNCHANGED <<blocks, file, tips, depositCount, outcome>>
        /\ unread' = Sorted(file)
    BY <1>3 DEF StartReplay, extractVars, replayVars, Started
  <2>2. Handled' = {}
    <3>1. ToSet(Sorted(file)) = ToSet(file)
      BY FileLogs, SortedExact
    <3> QED
      BY <2>1, <3>1 DEF Handled
  <2>3. Cardinality(Replayed') = 0
    BY <2>2, FS_EmptySet DEF Replayed
  <2> QED
    BY <2>1, <2>2, <2>3 DEF Exact, UpTo, FailsOnlyPastHead, GapsOnlyByPaging
<1>4. CASE UNCHANGED pipelineVars
  BY <1>4 DEF pipelineVars, extractVars, replayVars, Exact, UpTo, FailsOnlyPastHead,
              GapsOnlyByPaging, ReadPastHead, Handled, Replayed, DepositsBefore, DepositLogs,
              Extract!Logs, Extract!Kind
<1> QED
  BY <1>1, <1>2, <1>3, <1>4 DEF PipelineNext

\* A check that fails has met a deposit that the extraction missed.
LEMMA StepExact ==
    ASSUME Extracted, Counted, Started, Inv, EP!Consecutive, Exact,
           FailsOnlyPastHead, GapsOnlyByPaging, [PipelineNext]_pipelineVars
    PROVE  Exact' /\ FailsOnlyPastHead' /\ GapsOnlyByPaging'
<1>1. CASE ~Read
  BY <1>1, StepElsewhere
<1>2. CASE Read
  <2>1. PICK h : h = Head(unread)
    OBVIOUS
  <2>2. /\ unread \notin {NotStarted, <<>>} /\ unread' = Tail(unread)
        /\ UNCHANGED <<blocks, extractVars>> /\ outcome = "running"
        /\ Handle(h)
    BY <1>2, <2>1 DEF Read
  <2>3. h \in ToSet(file) /\ h \notin Handled /\ Handled' = Handled \cup {h}
    BY <2>1, <2>2, ReadHandles
  <2>4. \A e : Extract!Kind(e)' = Extract!Kind(e)
    BY <2>2 DEF Extract!Kind
  <2>5. ReadPastHead' = ReadPastHead /\ PagedOn' = PagedOn
    BY <2>2 DEF ReadPastHead, PagedOn, extractVars
  <2>6. depositCount = Cardinality(Replayed)
    BY <2>2 DEF Exact
  <2>7. ASSUME ~ReadPastHead, Extract!Kind(h) \in {"deposit", "V1GER"}
        PROVE  DepositsBefore(h) = depositCount
    BY <2>1, <2>2, <2>3, <2>6, <2>7, DepositsInFile, CountAtHead
  <2>8. ASSUME ~PagedOn, Extract!Kind(h) = "deposit"
        PROVE  DepositsBefore(h) = depositCount
    BY <2>1, <2>2, <2>3, <2>6, <2>8, ConsecutiveInFile, CountAtHead
  <2>9. CASE Extract!Kind(h) = "deposit"
    <3>1. DepositEvent(DepositsBefore(h))
      BY <2>2, <2>9 DEF Handle
    <3>2. outcome' = "failed" => DepositsBefore(h) # depositCount
      BY <2>2, <3>1 DEF DepositEvent
    <3>3. outcome' = "running" => depositCount' = depositCount + 1
      BY <3>1 DEF DepositEvent, Fail
    <3>4. Replayed' = Replayed \cup {h} /\ h \notin Replayed
      BY <2>3, <2>4, <2>9 DEF Replayed
    <3>5. Cardinality(Replayed') = Cardinality(Replayed) + 1
      BY <3>4, FiniteReplayed, FS_AddElement
    <3>6. Exact'
      BY <2>6, <3>3, <3>5 DEF Exact
    <3> QED
      BY <2>5, <2>7, <2>8, <2>9, <3>2, <3>6
         DEF FailsOnlyPastHead, GapsOnlyByPaging, PagedOn
  <2>10. CASE Extract!Kind(h) = "V1GER"
    <3>1. Replayed' = Replayed
      BY <2>3, <2>4, <2>10 DEF Replayed
    <3>2. CalculateRoot(frontier, depositCount) = TreeRoot(chain, depositCount)
      BY <2>2, InvRoot, HeightAssumption DEF RootCorrect
    <3>3. V1GEREvent(DepositsBefore(h))
      BY <2>2, <2>10 DEF Handle
    <3>4. UNCHANGED depositCount /\ checked' # {}
      BY <3>3 DEF V1GEREvent, Fail, replayVars
    <3>5. outcome' = "failed" => DepositsBefore(h) # depositCount
      BY <2>2, <3>2, <3>3 DEF V1GEREvent, replayVars
    <3> QED
      BY <2>5, <2>6, <2>7, <2>10, <3>1, <3>4, <3>5
         DEF Exact, FailsOnlyPastHead, GapsOnlyByPaging
  <2>11. CASE Extract!Kind(h) \notin {"deposit", "V1GER"}
    <3>1. Replayed' = Replayed
      BY <2>3, <2>4, <2>11 DEF Replayed
    <3>2. UNCHANGED <<depositCount, outcome>>
      BY <2>2, <2>11 DEF Handle, VerifyTrustedSequencerEvent, replayVars
    <3> QED
      BY <2>2, <2>6, <3>1, <3>2 DEF Exact, FailsOnlyPastHead, GapsOnlyByPaging
  <2> QED
    BY <2>9, <2>10, <2>11
<1> QED
  BY <1>1, <1>2

\* If the hash function is free of collisions, a check that passes has the root
\* over the deposits that have been read.
LEMMA StepUpTo ==
    ASSUME Extracted, Counted, Started, Inv, UpTo, [PipelineNext]_pipelineVars,
           CollisionFree, HashZero \notin Leaves
    PROVE  UpTo'
<1>1. CASE ~Read
  BY <1>1, StepElsewhere
<1>2. CASE Read
  <2>1. PICK h : h = Head(unread)
    OBVIOUS
  <2>2. /\ unread \notin {NotStarted, <<>>} /\ unread' = Tail(unread)
        /\ UNCHANGED <<blocks, extractVars>> /\ outcome = "running"
        /\ Handle(h)
    BY <1>2, <2>1 DEF Read
  <2>3. h \in ToSet(file) /\ Handled' = Handled \cup {h}
    BY <2>1, <2>2, ReadHandles
  <2>4. \A e : /\ Extract!Kind(e)' = Extract!Kind(e)
               /\ DepositsBefore(e)' = DepositsBefore(e)
    BY <2>2 DEF Extract!Kind, DepositsBefore, DepositLogs, Extract!Logs,
                Extract!Before
  <2>5. SUFFICES ASSUME outcome' = "running"
                 PROVE  \A e \in Handled \cup {h} : Extract!Kind(e) = "V1GER" =>
                           DepositsBefore(e) <= depositCount'
    BY <2>3, <2>4 DEF UpTo
  <2>6. /\ depositCount \in Nat
        /\ \A e \in Handled \cup {h} : DepositsBefore(e) \in Nat
    <3>1. Handled \cup {h} \subseteq ToSet(file)
      BY <2>3 DEF Handled
    <3> QED
      BY <3>1, FileCounts DEF Inv, TypeOK
  <2>7. depositCount' \in {depositCount, depositCount + 1}
    BY <2>2, <2>5 DEF Handle, DepositEvent, V1GEREvent, Fail,
                      VerifyTrustedSequencerEvent, replayVars
  <2>8. \A e \in Handled : Extract!Kind(e) = "V1GER" =>
                             DepositsBefore(e) <= depositCount
    BY <2>2 DEF UpTo
  <2>9. ASSUME Extract!Kind(h) = "V1GER" PROVE DepositsBefore(h) <= depositCount
    <3>1. V1GEREvent(DepositsBefore(h)) /\ DepositsBefore(h) \in 0 .. Len(chain)
      BY <2>2, <2>3, <2>9, FileCounts DEF Handle
    <3>2. DepositsBefore(h) = depositCount
      BY <2>5, <3>1, V1GEREventExact, HeightAssumption
    <3> QED
      BY <2>6, <3>2
  <2> QED
    BY <2>6, <2>7, <2>8, <2>9
<1> QED
  BY <1>1, <1>2

\* The invariant of the replay, within the pipeline.
LEMMA PipelineReplay == PipelineSpec => []Inv
  BY ReplayRefined, Invariance, PTL DEF ReplaySpec

\* The deposits of the file are consecutive, within the pipeline as well.
LEMMA PipelineConsecutive == PipelineSpec => [](EP!Answered /\ EP!Consecutive)
<1>1. PipelineInit => EP!Answered /\ EP!Consecutive
  BY ExtractionInit, EP!InitConsecutive
<1>2. Extracted /\ EP!Answered /\ EP!Consecutive /\ [PipelineNext]_pipelineVars
        => (EP!Answered /\ EP!Consecutive)'
  BY ExtractionSteps, EP!NextConsecutive, PageSizeAssumption DEF Extracted
<1> QED
  BY <1>1, <1>2, PipelineInvariance, PTL DEF PipelineSpec

\* What the replay has counted, and what a check that failed tells.
LEMMA PipelineExact ==
    PipelineSpec => [](Exact /\ FailsOnlyPastHead /\ GapsOnlyByPaging)
<1>1. PipelineInit => Exact /\ FailsOnlyPastHead /\ GapsOnlyByPaging
  BY DEF PipelineInit, Init, Exact, FailsOnlyPastHead, GapsOnlyByPaging
<1>2. Extracted /\ Counted /\ Started /\ Inv /\ EP!Answered /\ EP!Consecutive
        /\ Exact /\ FailsOnlyPastHead /\ GapsOnlyByPaging
        /\ [PipelineNext]_pipelineVars
        => (Exact /\ FailsOnlyPastHead /\ GapsOnlyByPaging)'
  BY StepExact
<1> QED
  BY <1>1, <1>2, PipelineInvariance, PipelineReplay, PipelineConsecutive, PTL
     DEF PipelineSpec

\* The checks of the replay only fail on the file of an extraction that went
\* past the head of L1, however early the extraction was aborted.
THEOREM OnlyFailsPastHead == PipelineSpec => []FailsOnlyPastHead
  BY PipelineExact, PTL

\* A deposit number that differs is noticed only if a page that L1 did not have
\* in full was followed by another one.
THEOREM OnlyGapsByPaging == PipelineSpec => []GapsOnlyByPaging
  BY PipelineExact, PTL

\* If the hash function is free of collisions and no leaf is the empty hash, a
\* replay that comes to its end lost no deposit before the last V1GER event of
\* the file.
THEOREM AlwaysCompleteUpToRoot ==
    ASSUME CollisionFree, HashZero \notin Leaves
    PROVE  PipelineSpec => []CompleteUpToRoot
<1>1. PipelineInit => UpTo
  BY DEF PipelineInit, UpTo
<1>2. Extracted /\ Counted /\ Started /\ Inv /\ UpTo /\ [PipelineNext]_pipelineVars
        => UpTo'
  BY StepUpTo
<1>3. UpTo => CompleteUpToRoot
  <2>1. <<>> # NotStarted
    <3>1. \A S : <<>> \in Seq(S)
      OBVIOUS
    <3> QED
      BY <3>1, NotStartedAssumption
  <2>2. unread = <<>> => Handled = ToSet(file)
    BY DEF Handled, ToSet
  <2> QED
    BY <2>1, <2>2 DEF UpTo, CompleteUpToRoot
<1> QED
  BY <1>1, <1>2, <1>3, PipelineInvariance, PipelineReplay, PTL DEF PipelineSpec
=============================================================================

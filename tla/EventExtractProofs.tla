------------------------- MODULE EventExtractProofs -------------------------
(***************************************************************************)
(* For every page size and every growth of L1: the extraction writes no    *)
(* event twice, and misses none of a block that was there when the page of *)
(* that block was begun.                                                   *)
(***************************************************************************)
EXTENDS EventExtract, SequenceTheorems

\* The contracts that have been asked for the page.
Asked ==
    {contract \in {"bridge", "GER", "rollupManager"} :
        \/ contract = "bridge" /\ step # "bridge"
        \/ contract = "GER" /\ step \notin {"bridge", "GER"}
        \/ /\ contract = "rollupManager"
           /\ step \notin {"bridge", "GER", "rollupManager"}}

\* L1 has a block that is being built, and finitely many logs.
ChainOK == blocks # <<>> /\ IsFiniteSet(Logs)

Sequences == logs \in Seq(Logs) /\ file \in Seq(Logs)

\* The page that is read is the last one that was begun.
PageBegun ==
    /\ step = "bridge" => from = Len(tips) * PageSize + 1 /\ logs = <<>>
    /\ step \in {"GER", "rollupManager", "write", "done"} =>
          /\ Len(tips) >= 1
          /\ from = (Len(tips) - 1) * PageSize + 1

\* What has been read is of the pages up to this one, and of the contracts
\* that were asked for it.
Reached ==
    step # "aborted" =>
        \A log \in ToSet(logs) \cup ToSet(file) :
            log[1] <= ToBlock /\ (log[1] >= from => Emitter(Kind(log)) \in Asked)

\* What is still to be written is not in the file either.
Once == IsInjective(file \o logs)

\* No event that was there when the page was begun is missed by the contract
\* that was asked for it.
PageComplete ==
    step \in {"GER", "rollupManager", "write"} =>
        \A log \in Logs :
            /\ log[1] \in from .. ToBlock
            /\ log[1] <= tips[Len(tips)]
            /\ Emitter(Kind(log)) \in Asked
            /\ IsEvent(Kind(log))
            => log \in ToSet(logs) \cup ToSet(file)

Inv ==
    /\ TypeOK
    /\ ChainOK
    /\ Sequences
    /\ PageBegun
    /\ Reached
    /\ Once
    /\ PageComplete
    /\ CompleteBehindHead

----------------------------------------------------------------------------
(* Pages.                                                                   *)

\* The page of a block among those before the n-th.
LEMMA PageOfBlock ==
    ASSUME PageSize \in Nat \ {0}, NEW block \in Nat \ {0}, NEW n \in Nat
    PROVE  /\ (block - 1) \div PageSize \in Nat
           /\ block <= n * PageSize => (block - 1) \div PageSize + 1 <= n
           /\ block > n * PageSize => (block - 1) \div PageSize + 1 > n
<1> DEFINE q == (block - 1) \div PageSize
           r == (block - 1) % PageSize
<1>1. q \in Int /\ r \in 0 .. PageSize - 1 /\ block - 1 = PageSize * q + r
  OBVIOUS
<1> HIDE DEF q, r
<1>2. q \in Nat
  BY <1>1
<1>3. ASSUME block <= n * PageSize PROVE q + 1 <= n
  BY <1>1, <1>2, <1>3
<1>4. ASSUME block > n * PageSize PROVE q + 1 > n
  BY <1>1, <1>2, <1>4
<1> QED
  BY <1>2, <1>3, <1>4 DEF q

----------------------------------------------------------------------------
(* Logs.                                                                    *)

\* Logs, for any blocks.
LogsIn(bs) == UNION {{b} \X DOMAIN bs[b] : b \in DOMAIN bs}

\* A log is a block number and a place in that block.
LEMMA LogPair ==
    ASSUME NEW bs \in Seq(Seq(Kinds))
    PROVE  /\ Len(bs) \in Nat /\ DOMAIN bs = 1 .. Len(bs)
           /\ \A log \in LogsIn(bs) :
                 /\ log = <<log[1], log[2]>>
                 /\ log[1] \in 1 .. Len(bs) /\ log[2] \in 1 .. Len(bs[log[1]])
                 /\ log[1] \in Nat \ {0} /\ log[2] \in Nat \ {0}
                 /\ bs[log[1]][log[2]] \in Kinds
           /\ \A b \in 1 .. Len(bs) : \A i \in 1 .. Len(bs[b]) :
                 <<b, i>> \in LogsIn(bs)
<1>1. DOMAIN bs = 1 .. Len(bs) /\ Len(bs) \in Nat
  OBVIOUS
<1>2. \A b \in DOMAIN bs :
         DOMAIN bs[b] = 1 .. Len(bs[b]) /\ Len(bs[b]) \in Nat
  OBVIOUS
<1>3. ASSUME NEW log \in LogsIn(bs)
      PROVE  /\ log = <<log[1], log[2]>>
             /\ log[1] \in 1 .. Len(bs) /\ log[2] \in 1 .. Len(bs[log[1]])
             /\ log[1] \in Nat \ {0} /\ log[2] \in Nat \ {0}
             /\ bs[log[1]][log[2]] \in Kinds
  <2>1. PICK b \in DOMAIN bs : log \in {b} \X DOMAIN bs[b]
    BY DEF LogsIn
  <2>2. log = <<log[1], log[2]>> /\ log[1] = b /\ log[2] \in DOMAIN bs[b]
    BY <2>1
  <2> QED
    BY <1>1, <1>2, <2>2
<1>4. ASSUME NEW b \in 1 .. Len(bs), NEW i \in 1 .. Len(bs[b])
      PROVE  <<b, i>> \in LogsIn(bs)
  BY <1>1, <1>2 DEF LogsIn
<1> QED
  BY <1>1, <1>3, <1>4

\* The logs and their kinds, in terms of the blocks alone.
LEMMA LogsAre == Logs = LogsIn(blocks) /\ \A log : Kind(log) = blocks[log[1]][log[2]]
  BY DEF Logs, LogsIn, Kind

AddLog(bs, kind) == [bs EXCEPT ![Len(bs)] = Append(@, kind)]
NewLog(bs) == <<Len(bs), Len(bs[Len(bs)]) + 1>>

\* A log that is added to the last block leaves the others as they are.
LEMMA LogAdded ==
    ASSUME NEW bs \in Seq(Seq(Kinds)), bs # <<>>, NEW kind \in Kinds
    PROVE  /\ AddLog(bs, kind) \in Seq(Seq(Kinds))
           /\ Len(AddLog(bs, kind)) = Len(bs)
           /\ LogsIn(AddLog(bs, kind)) = LogsIn(bs) \cup {NewLog(bs)}
           /\ \A log \in LogsIn(bs) :
                 AddLog(bs, kind)[log[1]][log[2]] = bs[log[1]][log[2]]
<1> DEFINE cs == AddLog(bs, kind)
           last == Len(bs)
           n == Len(bs[last])
<1>1. last \in Nat \ {0} /\ last \in DOMAIN bs /\ DOMAIN bs = 1 .. last
  OBVIOUS
<1>2. bs[last] \in Seq(Kinds) /\ n \in Nat
  BY <1>1
<1>3. cs = [bs EXCEPT ![last] = Append(bs[last], kind)]
  BY DEF AddLog
<1> HIDE DEF cs
<1>4. Append(bs[last], kind) \in Seq(Kinds)
  BY <1>2
<1>5. cs \in Seq(Seq(Kinds)) /\ Len(cs) = last
  BY <1>1, <1>3, <1>4
<1>6. cs[last] = Append(bs[last], kind) /\ \A b \in 1 .. last : b # last => cs[b] = bs[b]
  BY <1>1, <1>3
<1>7. Len(cs[last]) = n + 1 /\ \A i \in 1 .. n : cs[last][i] = bs[last][i]
  BY <1>2, <1>6
<1> HIDE DEF last, n
<1>8. ASSUME NEW log \in LogsIn(bs)
      PROVE  log \in LogsIn(cs) /\ cs[log[1]][log[2]] = bs[log[1]][log[2]]
  <2>1. /\ log = <<log[1], log[2]>>
        /\ log[1] \in 1 .. last /\ log[2] \in 1 .. Len(bs[log[1]])
    BY LogPair DEF last
  <2>2. /\ log[2] \in 1 .. Len(cs[log[1]])
        /\ cs[log[1]][log[2]] = bs[log[1]][log[2]]
    <3>1. CASE log[1] = last
      <4>1. log[2] \in 1 .. n
        BY <2>1, <3>1 DEF n
      <4> QED
        BY <1>2, <1>7, <3>1, <4>1
    <3>2. CASE log[1] # last
      BY <1>6, <2>1, <3>2
    <3> QED
      BY <3>1, <3>2
  <2>3. <<log[1], log[2]>> \in LogsIn(cs)
    BY <1>5, <2>1, <2>2, LogPair
  <2> QED
    BY <2>1, <2>2, <2>3
<1>9. <<last, n + 1>> \in LogsIn(cs)
  <2>1. last \in 1 .. Len(cs) /\ n + 1 \in 1 .. Len(cs[last])
    BY <1>1, <1>2, <1>5, <1>7
  <2> QED
    BY <1>5, <2>1, LogPair
<1>10. ASSUME NEW log \in LogsIn(cs) PROVE log \in LogsIn(bs) \cup {<<last, n + 1>>}
  <2>1. /\ log = <<log[1], log[2]>>
        /\ log[1] \in 1 .. last /\ log[2] \in 1 .. Len(cs[log[1]])
        /\ log[2] \in Nat \ {0}
    BY <1>5, LogPair
  <2>2. CASE log[2] \in 1 .. Len(bs[log[1]])
    <3>1. <<log[1], log[2]>> \in LogsIn(bs)
      BY <2>1, <2>2, LogPair DEF last
    <3> QED
      BY <2>1, <3>1
  <2>3. CASE log[2] \notin 1 .. Len(bs[log[1]])
    <3>1. log[1] = last
      BY <1>6, <2>1, <2>3
    <3>2. log[2] = n + 1
      BY <1>2, <1>7, <2>1, <2>3, <3>1 DEF n
    <3> QED
      BY <2>1, <3>1, <3>2
  <2> QED
    BY <2>2, <2>3
<1> QED
  BY <1>5, <1>8, <1>9, <1>10 DEF cs, last, n, NewLog

\* An empty block adds no log and changes none.
LEMMA BlockAdded ==
    ASSUME NEW bs \in Seq(Seq(Kinds)), NEW cs, cs = Append(bs, <<>>)
    PROVE  /\ cs \in Seq(Seq(Kinds)) /\ Len(cs) = Len(bs) + 1
           /\ LogsIn(cs) = LogsIn(bs)
           /\ \A log \in LogsIn(bs) : cs[log[1]][log[2]] = bs[log[1]][log[2]]
<1> DEFINE last == Len(bs)
<1>1. last \in Nat
  OBVIOUS
<1>2. <<>> \in Seq(Kinds)
  OBVIOUS
<1>3. cs \in Seq(Seq(Kinds)) /\ Len(cs) = last + 1
  BY <1>1, <1>2
<1>4. cs[last + 1] = <<>> /\ \A b \in 1 .. last : cs[b] = bs[b]
  BY <1>1, <1>2
<1> HIDE DEF last
<1>5. ASSUME NEW log \in LogsIn(bs)
      PROVE  log \in LogsIn(cs) /\ cs[log[1]][log[2]] = bs[log[1]][log[2]]
  <2>1. /\ log = <<log[1], log[2]>>
        /\ log[1] \in 1 .. last /\ log[2] \in 1 .. Len(bs[log[1]])
    BY LogPair DEF last
  <2>2. log[1] \in 1 .. Len(cs) /\ cs[log[1]] = bs[log[1]]
    BY <1>1, <1>3, <1>4, <2>1
  <2>3. <<log[1], log[2]>> \in LogsIn(cs)
    BY <1>3, <2>1, <2>2, LogPair
  <2> QED
    BY <2>1, <2>2, <2>3
<1>6. ASSUME NEW log \in LogsIn(cs) PROVE log \in LogsIn(bs)
  <2>1. /\ log = <<log[1], log[2]>>
        /\ log[1] \in 1 .. last + 1 /\ log[2] \in 1 .. Len(cs[log[1]])
    BY <1>3, LogPair
  <2>2. log[1] # last + 1
    <3> SUFFICES ASSUME log[1] = last + 1 PROVE FALSE
      OBVIOUS
    <3>1. cs[log[1]] = <<>>
      BY <1>4
    <3>2. log[2] \in 1 .. Len(<<>>)
      BY <2>1, <3>1
    <3> QED
      BY <3>2
  <2>3. log[1] \in 1 .. last /\ log[2] \in 1 .. Len(bs[log[1]])
    <3>1. log[1] \in 1 .. last
      BY <1>1, <2>1, <2>2
    <3>2. cs[log[1]] = bs[log[1]]
      BY <1>4, <3>1
    <3> QED
      BY <2>1, <3>1, <3>2
  <2>4. <<log[1], log[2]>> \in LogsIn(bs)
    BY <2>3, LogPair DEF last
  <2> QED
    BY <2>1, <2>4
<1> QED
  BY <1>3, <1>5, <1>6 DEF last

\* The answer to a query has the logs asked for, each once.
LEMMA GetLogsExact ==
    ASSUME blocks \in Seq(Seq(Kinds)), IsFiniteSet(Logs), NEW contract
    PROVE  LET asked == {log \in Logs : /\ log[1] \in from .. ToBlock
                                        /\ log[1] <= tip
                                        /\ Emitter(Kind(log)) = contract}
           IN  /\ GetLogs(contract) \in Seq(asked)
               /\ ToSet(GetLogs(contract)) = asked
               /\ IsInjective(GetLogs(contract))
               /\ \A i, j \in DOMAIN GetLogs(contract) : i < j =>
                     ~Before(GetLogs(contract)[j], GetLogs(contract)[i])
<1> DEFINE asked == {log \in Logs : /\ log[1] \in from .. ToBlock
                                    /\ log[1] <= tip
                                    /\ Emitter(Kind(log)) = contract}
           R == {pair \in asked \X asked : ~Before(pair[2], pair[1])}
<1>1. IsFiniteSet(asked)
  BY FS_Subset
<1>2. \A log \in asked : log[1] \in Nat /\ log[2] \in Nat
  BY LogPair, LogsAre
<1> HIDE DEF asked
<1>3. \A x, y \in asked : <<x, y>> \in R \/ <<y, x>> \in R
  BY <1>2 DEF Before
<1>4. \A x, y, z \in asked : <<x, y>> \in R /\ <<y, z>> \in R => <<x, z>> \in R
  BY <1>2 DEF Before
<1> HIDE DEF R
<1>5. PICK order \in SetToSeqs(asked) :
         \A i, j \in DOMAIN order : i < j => <<order[i], order[j]>> \in R
  BY <1>1, <1>3, <1>4, OrderExists
<1>6. \A i, j \in DOMAIN order : i < j => ~Before(order[j], order[i])
  BY <1>5 DEF R
<1>7. /\ InOrder(asked, Before) \in SetToSeqs(asked)
      /\ \A i, j \in DOMAIN InOrder(asked, Before) :
            i < j => ~Before(InOrder(asked, Before)[j], InOrder(asked, Before)[i])
  BY <1>5, <1>6 DEF InOrder
<1>8. GetLogs(contract) = InOrder(asked, Before)
  BY DEF GetLogs, asked
<1>9. /\ GetLogs(contract) \in Seq(asked)
      /\ ToSet(GetLogs(contract)) = asked
      /\ IsInjective(GetLogs(contract))
  BY <1>1, <1>7, <1>8, SeqsOfSet
<1> QED
  BY <1>7, <1>8, <1>9 DEF asked
----------------------------------------------------------------------------
(* Sequences.                                                               *)

\* A sequence over a set is one over any larger set.
LEMMA SeqMonotone ==
    ASSUME NEW A, NEW B, A \subseteq B, NEW s \in Seq(A) PROVE s \in Seq(B)
  OBVIOUS

\* The elements of a concatenation.
LEMMA ToSetConcat ==
    ASSUME NEW A, NEW s \in Seq(A), NEW t \in Seq(A)
    PROVE  s \o t \in Seq(A) /\ ToSet(s \o t) = ToSet(s) \cup ToSet(t)
<1>1. s \o t \in Seq(A) /\ Len(s \o t) = Len(s) + Len(t)
  OBVIOUS
<1>2. ASSUME NEW i \in DOMAIN s PROVE s[i] \in ToSet(s \o t)
  <2>1. i \in DOMAIN (s \o t) /\ (s \o t)[i] = s[i]
    OBVIOUS
  <2> QED
    BY <2>1 DEF ToSet
<1>3. ASSUME NEW i \in DOMAIN t PROVE t[i] \in ToSet(s \o t)
  <2>1. Len(s) + i \in DOMAIN (s \o t) /\ (s \o t)[Len(s) + i] = t[i]
    OBVIOUS
  <2> QED
    BY <2>1 DEF ToSet
<1>4. ASSUME NEW i \in DOMAIN (s \o t) PROVE (s \o t)[i] \in ToSet(s) \cup ToSet(t)
  <2>1. CASE i <= Len(s)
    BY <2>1 DEF ToSet
  <2>2. CASE i > Len(s)
    <3>1. i - Len(s) \in DOMAIN t /\ (s \o t)[i] = t[i - Len(s)]
      BY <1>1, <2>2
    <3> QED
      BY <3>1 DEF ToSet
  <2> QED
    BY <1>1, <2>1, <2>2
<1> QED
  BY <1>1, <1>2, <1>3, <1>4 DEF ToSet

\* The elements of a sequence with one more.
LEMMA ToSetAppend ==
    ASSUME NEW A, NEW s \in Seq(A), NEW a \in A
    PROVE  Append(s, a) \in Seq(A) /\ ToSet(Append(s, a)) = ToSet(s) \cup {a}
<1> DEFINE t == Append(s, a)
<1>1. /\ t \in Seq(A) /\ DOMAIN t = 1 .. Len(s) + 1 /\ DOMAIN s = 1 .. Len(s)
      /\ t[Len(s) + 1] = a /\ Len(s) \in Nat
  OBVIOUS
<1>2. \A i \in 1 .. Len(s) : t[i] = s[i]
  OBVIOUS
<1> HIDE DEF t
<1>3. ToSet(t) = ToSet(s) \cup {a}
  BY <1>1, <1>2 DEF ToSet
<1> QED
  BY <1>1, <1>3 DEF t

\* The elements of a sequence are its first and those that follow.
LEMMA ToSetHead ==
    ASSUME NEW A, NEW s \in Seq(A), s # <<>>
    PROVE  Tail(s) \in Seq(A) /\ ToSet(s) = {Head(s)} \cup ToSet(Tail(s))
<1> DEFINE t == Tail(s)
<1>1. /\ t \in Seq(A) /\ DOMAIN t = 1 .. Len(s) - 1 /\ DOMAIN s = 1 .. Len(s)
      /\ Len(s) \in Nat \ {0} /\ Head(s) = s[1]
  OBVIOUS
<1>2. \A i \in 1 .. Len(s) - 1 : t[i] = s[i + 1]
  OBVIOUS
<1> HIDE DEF t
<1>3. \A i \in DOMAIN s : i = 1 \/ (i - 1 \in DOMAIN t /\ s[i] = t[i - 1])
  BY <1>1, <1>2
<1>4. \A i \in DOMAIN t : i + 1 \in DOMAIN s /\ t[i] = s[i + 1]
  BY <1>1, <1>2
<1>5. ToSet(s) = {Head(s)} \cup ToSet(t)
  BY <1>1, <1>3, <1>4 DEF ToSet
<1> QED
  BY <1>1, <1>5 DEF t

\* Sequences without repetitions that share no member can be joined.
LEMMA InjectiveConcat ==
    ASSUME NEW A, NEW s \in Seq(A), NEW t \in Seq(A)
    PROVE  IsInjective(s \o t) <=>
             /\ IsInjective(s) /\ IsInjective(t)
             /\ ToSet(s) \cap ToSet(t) = {}
<1>1. /\ Len(s \o t) = Len(s) + Len(t) /\ Len(s) \in Nat /\ Len(t) \in Nat
      /\ DOMAIN s = 1 .. Len(s) /\ DOMAIN t = 1 .. Len(t)
      /\ DOMAIN (s \o t) = 1 .. Len(s) + Len(t)
  OBVIOUS
<1>2. \A i \in DOMAIN s : i \in DOMAIN (s \o t) /\ (s \o t)[i] = s[i]
  BY <1>1
<1>3. \A i \in DOMAIN t :
         Len(s) + i \in DOMAIN (s \o t) /\ (s \o t)[Len(s) + i] = t[i]
  BY <1>1
<1>4. ASSUME IsInjective(s \o t)
      PROVE  IsInjective(s) /\ IsInjective(t) /\ ToSet(s) \cap ToSet(t) = {}
  <2>1. IsInjective(s)
    BY <1>2, <1>4 DEF IsInjective
  <2>2. IsInjective(t)
    <3> SUFFICES ASSUME NEW i \in DOMAIN t, NEW j \in DOMAIN t, t[i] = t[j]
                 PROVE  i = j
      BY DEF IsInjective
    <3>1. Len(s) + i = Len(s) + j
      BY <1>3, <1>4 DEF IsInjective
    <3> QED
      BY <1>1, <3>1
  <2>3. ASSUME NEW i \in DOMAIN s, NEW j \in DOMAIN t, s[i] = t[j] PROVE FALSE
    <3>1. i = Len(s) + j
      BY <1>2, <1>3, <1>4, <2>3 DEF IsInjective
    <3> QED
      BY <1>1, <3>1
  <2> QED
    BY <2>1, <2>2, <2>3 DEF ToSet
<1>5. ASSUME IsInjective(s), IsInjective(t), ToSet(s) \cap ToSet(t) = {}
      PROVE  IsInjective(s \o t)
  <2> SUFFICES ASSUME NEW i \in DOMAIN (s \o t), NEW j \in DOMAIN (s \o t),
                      (s \o t)[i] = (s \o t)[j]
               PROVE  i = j
    BY DEF IsInjective
  <2> DEFINE u == s \o t
  <2>1. \A k \in DOMAIN u :
           \/ k \in DOMAIN s /\ u[k] = s[k]
           \/ k - Len(s) \in DOMAIN t /\ u[k] = t[k - Len(s)]
    BY <1>1
  <2>2. i \in DOMAIN u /\ j \in DOMAIN u /\ u[i] = u[j]
    OBVIOUS
  <2>3. i \in Int /\ j \in Int
    BY <1>1
  <2> HIDE DEF u
  <2>4. \A k \in DOMAIN s, l \in DOMAIN t : s[k] # t[l]
    BY <1>5 DEF ToSet
  <2>5. \/ i \in DOMAIN s /\ j \in DOMAIN s /\ s[i] = s[j]
        \/ /\ i - Len(s) \in DOMAIN t /\ j - Len(s) \in DOMAIN t
           /\ t[i - Len(s)] = t[j - Len(s)]
    BY <2>1, <2>2, <2>4
  <2>6. i = j \/ i - Len(s) = j - Len(s)
    BY <1>5, <2>5 DEF IsInjective
  <2> QED
    BY <1>1, <2>3, <2>6
<1> QED
  BY <1>4, <1>5

----------------------------------------------------------------------------
(* L1 grows.                                                                *)

\* What an emitted log or a mined block changes for the extraction.
Grown ==
    /\ blocks' \in Seq(Seq(Kinds)) /\ blocks' # <<>>
    /\ tip' \in Int /\ tip <= tip'
    /\ Logs \subseteq Logs' /\ IsFiniteSet(Logs')
    /\ \A log \in Logs : Kind(log)' = Kind(log)
    /\ \A log \in Logs' \ Logs : log[1] = tip + 1
    /\ UNCHANGED extractVars

\* L1 only appends: logs and blocks stay what they are.
LEMMA L1Grows ==
    ASSUME TypeOK, ChainOK, L1 PROVE Grown
<1>1. blocks \in Seq(Seq(Kinds)) /\ blocks # <<>> /\ Len(blocks) \in Nat
  BY DEF TypeOK, ChainOK
<1>2. UNCHANGED extractVars
  BY DEF L1, Mine, Emit
<1>3. CASE Mine
  <2>1. /\ blocks' \in Seq(Seq(Kinds)) /\ Len(blocks') = Len(blocks) + 1
        /\ LogsIn(blocks') = LogsIn(blocks)
        /\ \A log \in LogsIn(blocks) :
              blocks'[log[1]][log[2]] = blocks[log[1]][log[2]]
    BY <1>1, <1>3, BlockAdded DEF Mine
  <2>2. Logs' = Logs /\ \A log \in Logs : Kind(log)' = Kind(log)
    BY <2>1 DEF Logs, LogsIn, Kind
  <2>3. blocks' # <<>> /\ tip' = tip + 1 /\ tip \in Int
    BY <1>1, <2>1 DEF tip
  <2> QED
    BY <1>2, <2>1, <2>2, <2>3 DEF Grown, ChainOK
<1>4. ASSUME NEW kind \in Kinds, Emit(kind) PROVE Grown
  <2>1. blocks' = AddLog(blocks, kind)
    BY <1>4 DEF Emit, AddLog
  <2>2. /\ blocks' \in Seq(Seq(Kinds)) /\ Len(blocks') = Len(blocks)
        /\ LogsIn(blocks') = LogsIn(blocks) \cup {NewLog(blocks)}
        /\ \A log \in LogsIn(blocks) :
              blocks'[log[1]][log[2]] = blocks[log[1]][log[2]]
    BY <1>1, <1>4, <2>1, LogAdded
  <2>3. /\ Logs' = Logs \cup {NewLog(blocks)}
        /\ \A log \in Logs : Kind(log)' = Kind(log)
    BY <2>2 DEF Logs, LogsIn, Kind
  <2>4. blocks' # <<>> /\ tip' = tip /\ tip \in Int /\ NewLog(blocks)[1] = tip + 1
    BY <1>1, <2>2 DEF tip, NewLog
  <2>5. IsFiniteSet(Logs')
    BY <2>3, FS_AddElement DEF ChainOK
  <2> QED
    BY <1>2, <2>2, <2>3, <2>4, <2>5 DEF Grown
<1> QED
  BY <1>3, <1>4 DEF L1

\* A log that is emitted is a new one of the block that is being built.
LEMMA EmitAdds ==
    ASSUME TypeOK, ChainOK, NEW kind \in Kinds, Emit(kind)
    PROVE  \E new : /\ new \notin Logs /\ Logs' = Logs \cup {new}
                     /\ new[1] = tip + 1 /\ Kind(new)' = kind
                     /\ \A log \in Logs : Kind(log)' = Kind(log)
<1> DEFINE last == Len(blocks)
           n == Len(blocks[last])
<1>0. PICK new : new = NewLog(blocks)
  OBVIOUS
<1>1. /\ blocks \in Seq(Seq(Kinds)) /\ blocks # <<>> /\ last \in Nat \ {0}
      /\ last \in DOMAIN blocks /\ blocks[last] \in Seq(Kinds) /\ n \in Nat
  BY DEF TypeOK, ChainOK
<1>2. blocks' = AddLog(blocks, kind)
  BY DEF Emit, AddLog
<1>3. Logs' = Logs \cup {new} /\ \A log \in Logs : Kind(log)' = Kind(log)
  <2>1. /\ LogsIn(blocks') = LogsIn(blocks) \cup {NewLog(blocks)}
        /\ \A log \in LogsIn(blocks) :
              blocks'[log[1]][log[2]] = blocks[log[1]][log[2]]
    BY <1>1, <1>2, LogAdded
  <2> QED
    BY <1>0, <2>1 DEF Logs, LogsIn, Kind
<1>4. new = <<last, n + 1>> /\ new[1] = last /\ new[2] = n + 1
  BY <1>0 DEF NewLog
<1>5. Append(blocks[last], kind)[n + 1] = kind
  BY <1>1
<1> HIDE DEF n
<1>6. blocks'[last][n + 1] = kind
  BY <1>1, <1>2, <1>5 DEF AddLog
<1>7. new \notin Logs
  <2>1. n + 1 \notin 1 .. n
    BY <1>1
  <2> QED
    BY <1>1, <1>4, <2>1, LogPair, LogsAre DEF n
<1>8. new[1] = tip + 1 /\ Kind(new)' = kind
  BY <1>1, <1>4, <1>6 DEF tip, Kind
<1> QED
  BY <1>3, <1>7, <1>8

\* A block that is mined has its logs already.
LEMMA MineAdds ==
    ASSUME TypeOK, Mine
    PROVE  Logs' = Logs /\ \A log \in Logs : Kind(log)' = Kind(log)
<1>1. blocks \in Seq(Seq(Kinds)) /\ blocks' = Append(blocks, <<>>)
  BY DEF TypeOK, Mine
<1> QED
  BY <1>1, BlockAdded DEF Logs, LogsIn, Kind

\* The extraction's invariant does not mind L1 growing.
LEMMA GrownInv ==
    ASSUME PageSize \in Nat \ {0}, Inv, Grown PROVE Inv'
<1>1. UNCHANGED <<from, step, logs, file, tips>>
  BY DEF Grown, extractVars
<1>2. /\ Logs \subseteq Logs' /\ \A log \in Logs : Kind(log)' = Kind(log)
      /\ tip <= tip' /\ tip \in Int /\ tip' \in Int
      /\ \A log \in Logs' \ Logs : log[1] = tip + 1
  BY DEF Grown, Inv, TypeOK, tip
<1>3. ToSet(logs) \cup ToSet(file) \subseteq Logs
  BY DEF Inv, TypeOK
<1>4. tips \in Seq(0 .. tip')
  <2>1. tips \in Seq(0 .. tip) /\ 0 .. tip \subseteq 0 .. tip'
    BY <1>2 DEF Inv, TypeOK
  <2> QED
    BY <2>1, SeqMonotone
<1>5. TypeOK'
  <2>1. \A log \in ToSet(logs) \cup ToSet(file) : log \in Logs' /\ log[1] <= tip'
    <3>1. \A log \in Logs : log[1] \in Nat
      BY LogPair, LogsAre DEF Inv, TypeOK
    <3> QED
      BY <1>2, <1>3, <3>1 DEF Inv, TypeOK
  <2>2. \A log \in ToSet(file) : IsEvent(Kind(log)')
    BY <1>2, <1>3 DEF Inv, TypeOK
  <2> QED
    BY <1>1, <1>4, <2>1, <2>2 DEF Inv, TypeOK, Grown
<1>6. ChainOK' /\ PageBegun' /\ Once'
  BY <1>1 DEF Inv, Grown, ChainOK, PageBegun, Once
<1>7. Sequences'
  BY <1>1, <1>2, SeqMonotone DEF Inv, Sequences
<1>8. Reached'
  <2>1. ToBlock' = ToBlock /\ Asked' = Asked
    BY <1>1 DEF ToBlock, Asked
  <2> QED
    BY <1>1, <1>2, <1>3, <2>1 DEF Inv, Reached
<1>9. PageComplete'
  <2> SUFFICES ASSUME step \in {"GER", "rollupManager", "write"},
                      NEW log \in Logs', log[1] <= tips[Len(tips)],
                      log[1] \in from .. ToBlock, Emitter(Kind(log)') \in Asked,
                      IsEvent(Kind(log)')
               PROVE  log \in ToSet(logs) \cup ToSet(file)
    BY <1>1 DEF PageComplete, ToBlock, Asked
  <2>1. tips[Len(tips)] \in 0 .. tip
    <3>1. tips \in Seq(0 .. tip) /\ Len(tips) >= 1
      BY DEF Inv, TypeOK, PageBegun
    <3> QED
      BY <1>2, <3>1
  <2>2. log \in Logs
    BY <1>2, <2>1
  <2> QED
    BY <1>2, <2>2 DEF Inv, PageComplete
<1>10. CompleteBehindHead'
  <2> SUFFICES ASSUME NEW log \in Logs', log[1] < from, InTime(log[1]),
                      IsEvent(Kind(log)')
               PROVE  log \in ToSet(file)
    BY <1>1 DEF CompleteBehindHead, InTime
  <2>1. log[1] <= tip
    <3>1. PICK page \in DOMAIN tips : log[1] <= tips[page]
      BY DEF InTime
    <3>2. tips[page] \in 0 .. tip
      <4>1. tips \in Seq(0 .. tip)
        BY DEF Inv, TypeOK
      <4> QED
        BY <1>2, <3>1, <4>1
    <3>3. log[1] \in Nat
      BY LogPair DEF Grown, Logs, LogsIn
    <3> QED
      BY <1>2, <3>1, <3>2, <3>3
  <2>2. log \in Logs
    BY <1>2, <2>1
  <2> QED
    BY <1>2, <2>2 DEF Inv, CompleteBehindHead
<1> QED
  BY <1>5, <1>6, <1>7, <1>8, <1>9, <1>10 DEF Inv

----------------------------------------------------------------------------
(* The extraction.                                                          *)

\* The types the steps need.
LEMMA InvTypes ==
    ASSUME Inv, PageSize \in Nat \ {0}
    PROVE  /\ from \in Nat \ {0} /\ tip \in Nat /\ ToBlock \in Nat
           /\ from <= ToBlock
           /\ tips \in Seq(0 .. tip) /\ Len(tips) \in Nat
           /\ logs \in Seq(Logs) /\ file \in Seq(Logs)
           /\ \A log \in Logs : log[1] \in Nat \ {0}
<1>1. Len(blocks) \in Nat \ {0}
  BY DEF Inv, TypeOK, ChainOK
<1>2. tip \in Nat
  BY <1>1 DEF tip
<1>3. \A log \in Logs : log[1] \in Nat \ {0}
  BY LogPair, LogsAre DEF Inv, TypeOK
<1>4. from \in Nat \ {0} /\ ToBlock \in Nat /\ from <= ToBlock
  BY DEF Inv, TypeOK, ToBlock
<1>5. tips \in Seq(0 .. tip) /\ logs \in Seq(Logs) /\ file \in Seq(Logs)
  BY DEF Inv, TypeOK, Sequences
<1> QED
  BY <1>2, <1>3, <1>4, <1>5

\* One of the three queries of a page.
LEMMA QueryInv ==
    ASSUME PageSize \in Nat \ {0}, Inv, NEW contract, NEW next, Query(contract, next),
           \/ contract = "bridge" /\ next = "GER"
           \/ contract = "GER" /\ next = "rollupManager"
           \/ contract = "rollupManager" /\ next = "write"
    PROVE  Inv'
<1> DEFINE asked == {log \in Logs : /\ log[1] \in from .. ToBlock
                                    /\ log[1] <= tip
                                    /\ Emitter(Kind(log)) = contract}
<1>1. /\ step = contract /\ step' = next
      /\ logs' = logs \o GetLogs(contract)
      /\ tips' = IF contract = "bridge" THEN Append(tips, tip) ELSE tips
      /\ UNCHANGED <<blocks, from, file>>
  BY DEF Query
<1>2. /\ Logs' = Logs /\ tip' = tip /\ ToBlock' = ToBlock
      /\ \A log : Kind(log)' = Kind(log)
  BY <1>1 DEF Logs, tip, ToBlock, Kind
<1>3. /\ GetLogs(contract) \in Seq(asked) /\ ToSet(GetLogs(contract)) = asked
      /\ IsInjective(GetLogs(contract))
  BY GetLogsExact DEF Inv, TypeOK, ChainOK
<1>4. asked \subseteq Logs /\ \A log \in asked : log[1] \in from .. ToBlock /\ log[1] <= tip
  OBVIOUS
<1>5. GetLogs(contract) \in Seq(Logs)
  BY <1>3, <1>4, SeqMonotone
<1>6. logs' \in Seq(Logs) /\ ToSet(logs') = ToSet(logs) \cup asked
  BY <1>1, <1>3, <1>5, InvTypes, ToSetConcat
<1>7. Asked' = Asked \cup {contract} /\ contract \notin Asked
  BY <1>1 DEF Asked
<1>8. /\ tips' \in Seq(0 .. tip) /\ Len(tips') \in {Len(tips), Len(tips) + 1}
      /\ \A page \in DOMAIN tips : page \in DOMAIN tips' /\ tips'[page] = tips[page]
  <2>1. tips \in Seq(0 .. tip) /\ tip \in Nat
    BY InvTypes
  <2>2. CASE contract = "bridge"
    <3>1. tips' = Append(tips, tip)
      BY <1>1, <2>2
    <3> QED
      BY <2>1, <3>1
  <2>3. CASE contract # "bridge"
    BY <1>1, <2>1, <2>3
  <2> QED
    BY <2>2, <2>3
<1>9. TypeOK'
  <2>1. \A log \in ToSet(logs') \cup ToSet(file') : log \in Logs' /\ log[1] <= tip'
    BY <1>1, <1>2, <1>4, <1>6 DEF Inv, TypeOK
  <2> QED
    BY <1>1, <1>2, <1>8, <2>1 DEF Inv, TypeOK
<1>10. ChainOK' /\ Sequences'
  BY <1>1, <1>2, <1>6 DEF Inv, ChainOK, Sequences
<1>11. PageBegun'
  <2>1. CASE contract = "bridge"
    <3>1. Len(tips') = Len(tips) + 1 /\ Len(tips) \in Nat
      BY <1>1, <2>1, InvTypes
    <3> QED
      BY <1>1, <2>1, <3>1 DEF Inv, PageBegun
  <2>2. CASE contract # "bridge"
    BY <1>1, <2>2 DEF Inv, PageBegun
  <2> QED
    BY <2>1, <2>2
<1>12. Reached'
  <2> SUFFICES ASSUME NEW log \in ToSet(logs') \cup ToSet(file')
               PROVE  /\ log[1] <= ToBlock
                      /\ log[1] >= from => Emitter(Kind(log)) \in Asked'
    BY <1>1, <1>2 DEF Reached
  <2>1. CASE log \in ToSet(logs) \cup ToSet(file)
    BY <1>1, <1>7, <2>1 DEF Inv, Reached
  <2>2. CASE log \in asked
    BY <1>4, <1>7, <2>2, InvTypes
  <2> QED
    BY <1>1, <1>6, <2>1, <2>2
<1>13. Once'
  <2>1. file' \o logs' = (file \o logs) \o GetLogs(contract)
    <3>1. logs \in Seq(Logs) /\ file \in Seq(Logs)
      BY InvTypes
    <3>2. (file \o logs) \o GetLogs(contract) = file \o (logs \o GetLogs(contract))
      BY <1>5, <3>1, ConcatAssociative
    <3> QED
      BY <1>1, <3>2
  <2>2. /\ file \o logs \in Seq(Logs)
        /\ ToSet(file \o logs) = ToSet(file) \cup ToSet(logs)
    BY InvTypes, ToSetConcat
  <2>3. (ToSet(file) \cup ToSet(logs)) \cap asked = {}
    BY <1>1, <1>4, <1>7, InvTypes DEF Inv, Reached
  <2>4. IsInjective((file \o logs) \o GetLogs(contract))
    BY <1>3, <1>5, <2>2, <2>3, InjectiveConcat DEF Inv, Once
  <2> QED
    BY <2>1, <2>4 DEF Once
<1>14. PageComplete'
  <2> SUFFICES ASSUME NEW log \in Logs, log[1] \in from .. ToBlock,
                      log[1] <= tips'[Len(tips')], Emitter(Kind(log)) \in Asked',
                      IsEvent(Kind(log))
               PROVE  log \in ToSet(logs') \cup ToSet(file')
    BY <1>1, <1>2 DEF PageComplete
  <2>1. tips'[Len(tips')] \in 0 .. tip
    <3>1. Len(tips') >= 1
      BY <1>1, <1>8, <1>11 DEF PageBegun
    <3> QED
      BY <1>8, <3>1, InvTypes
  <2>2. CASE Emitter(Kind(log)) = contract
    <3>1. log[1] <= tip
      BY <2>1, InvTypes
    <3>2. log \in asked
      BY <2>2, <3>1
    <3> QED
      BY <1>6, <3>2
  <2>3. CASE Emitter(Kind(log)) # contract
    <3>1. contract # "bridge" /\ Emitter(Kind(log)) \in Asked
      BY <1>1, <1>7, <2>3 DEF Asked
    <3> QED
      BY <1>1, <1>6, <3>1 DEF Inv, PageComplete
  <2> QED
    BY <2>2, <2>3
<1>15. CompleteBehindHead'
  <2> SUFFICES ASSUME NEW log \in Logs, log[1] < from, InTime(log[1])',
                      IsEvent(Kind(log))
               PROVE  log \in ToSet(file)
    BY <1>1, <1>2 DEF CompleteBehindHead
  <2>1. InTime(log[1])
    <3> DEFINE page == (log[1] - 1) \div PageSize + 1
    <3>1. page \in DOMAIN tips' /\ log[1] <= tips'[page]
      BY DEF InTime
    <3>2. page \in DOMAIN tips
      <4>1. CASE contract = "bridge"
        <5>1. log[1] <= Len(tips) * PageSize /\ log[1] \in Nat \ {0} /\ Len(tips) \in Nat
          BY <1>1, <4>1, InvTypes DEF Inv, PageBegun
        <5>2. page <= Len(tips)
          BY <5>1, PageOfBlock
        <5> QED
          BY <3>1, <5>1, <5>2, <1>8
      <4>2. CASE contract # "bridge"
        BY <1>1, <3>1, <4>2
      <4> QED
        BY <4>1, <4>2
    <3> QED
      BY <1>8, <3>1, <3>2 DEF InTime
  <2> QED
    BY <2>1 DEF Inv, CompleteBehindHead
<1> QED
  BY <1>9, <1>10, <1>11, <1>12, <1>13, <1>14, <1>15 DEF Inv

\* A log that is written comes from the front of those still to be written.
LEMMA WriteInv ==
    ASSUME PageSize \in Nat \ {0}, Inv, Write PROVE Inv'
<1> DEFINE log == Head(logs)
<1>1. /\ step = "write" /\ logs # <<>> /\ logs' = Tail(logs)
      /\ file' = IF IsEvent(Kind(log)) THEN Append(file, log) ELSE file
      /\ UNCHANGED <<blocks, from, step, tips>>
  BY DEF Write
<1>2. /\ Logs' = Logs /\ tip' = tip /\ ToBlock' = ToBlock /\ Asked' = Asked
      /\ \A l : Kind(l)' = Kind(l)
  BY <1>1 DEF Logs, tip, ToBlock, Kind, Asked
<1>3. /\ log \in Logs /\ <<log>> \in Seq(Logs) /\ Tail(logs) \in Seq(Logs)
      /\ logs = <<log>> \o Tail(logs)
      /\ file \in Seq(Logs) /\ logs \in Seq(Logs)
  BY <1>1, InvTypes
<1>4. ToSet(<<log>>) = {log} /\ IsInjective(<<log>>)
  BY DEF ToSet, IsInjective
<1> HIDE DEF log
<1>5. ToSet(logs) = {log} \cup ToSet(Tail(logs))
  <2>1. logs \in Seq(Logs) /\ logs # <<>> /\ log = Head(logs)
    BY <1>1, <1>3 DEF log
  <2> QED
    BY <2>1, ToSetHead
<1>6. /\ file' \in Seq(Logs)
      /\ ToSet(file') = IF IsEvent(Kind(log)) THEN ToSet(file) \cup {log}
                                               ELSE ToSet(file)
  <2>1. file \in Seq(Logs) /\ log \in Logs
    BY <1>3
  <2>2. Append(file, log) \in Seq(Logs)
        /\ ToSet(Append(file, log)) = ToSet(file) \cup {log}
    BY <2>1, ToSetAppend
  <2> QED
    BY <1>1, <2>1, <2>2
<1>7. TypeOK'
  BY <1>1, <1>2, <1>5, <1>6 DEF Inv, TypeOK
<1>8. ChainOK' /\ Sequences' /\ PageBegun'
  BY <1>1, <1>2, <1>3, <1>6 DEF Inv, ChainOK, Sequences, PageBegun
<1>9. Reached'
  BY <1>1, <1>2, <1>5, <1>6 DEF Inv, Reached
<1>10. Once'
  <2>1. file \o logs = (file \o <<log>>) \o Tail(logs)
    BY <1>3, ConcatAssociative
  <2>2. CASE IsEvent(Kind(log))
    <3>1. file' = file \o <<log>>
      BY <1>1, <1>3, <2>2 DEF log
    <3> QED
      BY <1>1, <2>1, <3>1 DEF Inv, Once
  <2>3. CASE ~IsEvent(Kind(log))
    <3>1. /\ IsInjective(file) /\ IsInjective(logs)
          /\ ToSet(file) \cap ToSet(logs) = {}
      BY <1>3, InjectiveConcat DEF Inv, Once
    <3>2. IsInjective(Tail(logs))
      <4>1. IsInjective(<<log>> \o Tail(logs)) => IsInjective(Tail(logs))
        BY <1>3, InjectiveConcat
      <4> QED
        BY <1>3, <3>1, <4>1
    <3>3. IsInjective(file \o Tail(logs))
      <4>1. ToSet(file) \cap ToSet(Tail(logs)) = {}
        BY <1>5, <3>1
      <4> QED
        BY <1>3, <3>1, <3>2, <4>1, InjectiveConcat
    <3> QED
      BY <1>1, <2>3, <3>3 DEF Once
  <2> QED
    BY <2>2, <2>3
<1>11. PageComplete'
  BY <1>1, <1>2, <1>5, <1>6 DEF Inv, PageComplete
<1>12. CompleteBehindHead'
  BY <1>1, <1>2, <1>6 DEF Inv, CompleteBehindHead, InTime
<1> QED
  BY <1>7, <1>8, <1>9, <1>10, <1>11, <1>12 DEF Inv

\* The next page is begun.
LEMMA NextPageInv ==
    ASSUME PageSize \in Nat \ {0}, Inv, NextPage PROVE Inv'
<1>1. /\ step = "write" /\ logs = <<>> /\ from' = ToBlock + 1 /\ step' = "bridge"
      /\ UNCHANGED <<blocks, logs, file, tips>>
  BY DEF NextPage
<1>2. /\ Logs' = Logs /\ tip' = tip /\ \A log : Kind(log)' = Kind(log)
      /\ \A block : InTime(block)' = InTime(block)
  BY <1>1 DEF Logs, tip, Kind, InTime
<1>3. /\ Len(tips) \in Nat /\ Len(tips) >= 1
      /\ from = (Len(tips) - 1) * PageSize + 1
      /\ from' = Len(tips) * PageSize + 1
  <2>1. Len(tips) \in Nat /\ Len(tips) >= 1 /\ from = (Len(tips) - 1) * PageSize + 1
    BY <1>1, InvTypes DEF Inv, PageBegun
  <2>2. from' = ((Len(tips) - 1) * PageSize + 1) + PageSize
    BY <1>1, <2>1 DEF ToBlock
  <2>3. (Len(tips) - 1) * PageSize + PageSize = Len(tips) * PageSize
    BY <2>1
  <2> QED
    BY <2>1, <2>2, <2>3
<1>4. ToSet(logs) = {}
  BY <1>1 DEF ToSet
<1>5. TypeOK' /\ ChainOK' /\ Sequences' /\ Once'
  BY <1>1, <1>2, InvTypes DEF Inv, TypeOK, ChainOK, Sequences, Once
<1>6. PageBegun'
  BY <1>1, <1>3 DEF PageBegun
<1>7. Reached'
  <2> SUFFICES ASSUME NEW log \in ToSet(file)
               PROVE  log[1] <= ToBlock' /\ log[1] < from'
    <3>1. \A log \in ToSet(file) : log[1] \in Nat /\ from' \in Nat
      BY <1>3, InvTypes DEF Inv, TypeOK
    <3> QED
      BY <1>1, <1>2, <1>4, <3>1 DEF Reached
  <2>1. log[1] <= ToBlock /\ log[1] \in Nat
    BY <1>1, InvTypes DEF Inv, Reached, TypeOK
  <2> QED
    BY <1>1, <2>1, InvTypes DEF ToBlock
<1>8. PageComplete'
  BY <1>1 DEF PageComplete
<1>9. CompleteBehindHead'
  <2> SUFFICES ASSUME NEW log \in Logs, log[1] < from', InTime(log[1]),
                      IsEvent(Kind(log))
               PROVE  log \in ToSet(file)
    BY <1>1, <1>2 DEF CompleteBehindHead
  <2>1. log[1] \in Nat \ {0} /\ Kind(log) \in Kinds
    BY InvTypes, LogPair, LogsAre DEF Inv, TypeOK
  <2>2. CASE log[1] < from
    BY <2>2 DEF Inv, CompleteBehindHead
  <2>3. CASE log[1] >= from
    <3> DEFINE page == (log[1] - 1) \div PageSize + 1
    <3>1. log[1] <= Len(tips) * PageSize /\ log[1] > (Len(tips) - 1) * PageSize
      <4>1. log[1] < Len(tips) * PageSize + 1
        BY <1>3
      <4>2. log[1] >= (Len(tips) - 1) * PageSize + 1
        BY <1>3, <2>3
      <4>3. Len(tips) * PageSize \in Int /\ (Len(tips) - 1) * PageSize \in Int
        BY <1>3
      <4> QED
        BY <2>1, <4>1, <4>2, <4>3
    <3>2. page <= Len(tips) /\ page > Len(tips) - 1 /\ page \in Nat
      <4>1. Len(tips) \in Nat /\ Len(tips) - 1 \in Nat
        BY <1>3
      <4>2. page <= Len(tips)
        BY <2>1, <3>1, <4>1, PageOfBlock
      <4>3. page > Len(tips) - 1 /\ (log[1] - 1) \div PageSize \in Nat
        BY <2>1, <3>1, <4>1, PageOfBlock
      <4> QED
        BY <4>2, <4>3
    <3> HIDE DEF page
    <3>3. page = Len(tips)
      BY <1>3, <3>2
    <3>4. log[1] <= tips[Len(tips)]
      BY <3>3 DEF InTime, page
    <3>5. log[1] \in from .. ToBlock
      BY <1>1, <2>1, <2>3, InvTypes
    <3>6. Emitter(Kind(log)) \in Asked
      BY <1>1, <2>1 DEF Emitter, Asked, Kinds
    <3> QED
      BY <1>1, <1>4, <3>4, <3>5, <3>6 DEF Inv, PageComplete
  <2> QED
    BY <2>1, <2>2, <2>3, InvTypes
<1> QED
  BY <1>5, <1>6, <1>7, <1>8, <1>9 DEF Inv

\* The extraction ends, by itself or not.
LEMMA EndInv ==
    ASSUME PageSize \in Nat \ {0}, Inv, Break \/ Abort PROVE Inv'
<1>1. /\ UNCHANGED <<blocks, from, logs, file, tips>>
      /\ step' = "aborted" \/ (step = "write" /\ step' = "done")
  BY DEF Break, Abort
<1>2. /\ Logs' = Logs /\ tip' = tip /\ ToBlock' = ToBlock
      /\ \A log : Kind(log)' = Kind(log)
      /\ \A block : InTime(block)' = InTime(block)
  BY <1>1 DEF Logs, tip, ToBlock, Kind, InTime
<1>3. TypeOK' /\ ChainOK' /\ Sequences' /\ Once' /\ CompleteBehindHead'
  BY <1>1, <1>2 DEF Inv, TypeOK, ChainOK, Sequences, Once, CompleteBehindHead
<1>4. PageBegun' /\ PageComplete'
  BY <1>1 DEF Inv, PageBegun, PageComplete
<1>5. Reached'
  <2>1. step = "write" /\ step' = "done" => Asked' = Asked
    BY DEF Asked
  <2> QED
    BY <1>1, <1>2, <2>1 DEF Inv, Reached
<1> QED
  BY <1>3, <1>4, <1>5 DEF Inv

\* Every step of the extraction keeps the invariant.
LEMMA ExtractionInv ==
    ASSUME PageSize \in Nat \ {0}, Inv, Extraction PROVE Inv'
  BY QueryInv, WriteInv, NextPageInv, EndInv
     DEF Extraction, QueryBridge, QueryGER, QueryRollupManager

\* Nothing has been read.
LEMMA InitInv ==
    ASSUME PageSize \in Nat \ {0}, Init PROVE Inv
<1>1. /\ blocks = << <<>> >> /\ Len(blocks) = 1 /\ from = 1 /\ step = "bridge"
      /\ logs = <<>> /\ file = <<>> /\ tips = <<>>
  BY DEF Init
<1>2. Logs = {}
  BY <1>1 DEF Logs
<1>3. ToSet(logs) = {} /\ ToSet(file) = {} /\ DOMAIN tips = {}
  BY <1>1 DEF ToSet
<1>4. TypeOK
  BY <1>1, <1>3 DEF TypeOK
<1>5. ChainOK /\ Sequences /\ PageBegun
  BY <1>1, <1>2, FS_EmptySet DEF ChainOK, Sequences, PageBegun
<1>6. Once
  BY <1>1 DEF Once, IsInjective
<1>7. Reached /\ PageComplete /\ CompleteBehindHead
  BY <1>1, <1>2, <1>3 DEF Reached, PageComplete, CompleteBehindHead
<1> QED
  BY <1>4, <1>5, <1>6, <1>7 DEF Inv

\* Every step keeps the invariant.
LEMMA NextInv ==
    ASSUME PageSize \in Nat \ {0}, Inv, [Next]_vars PROVE Inv'
<1>1. CASE L1
  BY <1>1, L1Grows, GrownInv DEF Inv
<1>2. CASE Extraction
  BY <1>2, ExtractionInv
<1>3. CASE UNCHANGED vars
  BY <1>3 DEF vars, extractVars, Inv, TypeOK, ChainOK, Sequences, PageBegun,
              Reached, Once, PageComplete, CompleteBehindHead, Logs, Kind, tip,
              ToBlock, Asked, InTime
<1> QED
  BY <1>1, <1>2, <1>3 DEF Next

\* A log that is read once is written once.
LEMMA InvNoDuplicates == ASSUME PageSize \in Nat \ {0}, Inv PROVE NoDuplicates
  BY InvTypes, InjectiveConcat DEF Inv, Once, NoDuplicates

\* With pages of any positive size, the extraction alone has the invariant.
THEOREM Invariance ==
    ASSUME PageSize \in Nat \ {0} PROVE Spec => []Inv
<1>1. Init => Inv
  BY InitInv
<1>2. Inv /\ [Next]_vars => Inv'
  BY NextInv
<1> QED
  BY <1>1, <1>2, PTL DEF Spec
----------------------------------------------------------------------------
(* What is in the file when the extraction stops within a page.             *)

\* A page was begun before L1 had all of its blocks.
PastHead == \E p \in DOMAIN tips : tips[p] < p * PageSize

\* A page that was begun too early was followed by another one.
Gap == \E p \in DOMAIN tips : p < Len(tips) /\ tips[p] < p * PageSize

\* The events that the replay checks against the deposits before them.
Checked(log) == Kind(log) \in {"deposit", "V1GER"}

\* Of what is still to be written, the deposits come in the order of L1 and
\* before the roots over them.
InPlace ==
    \A i, j \in DOMAIN logs :
        i < j /\ Checked(logs[i]) /\ Kind(logs[j]) = "deposit"
            => ~Before(logs[j], logs[i])

\* The deposits before an event that is checked are in the file with it.
Prefix ==
    ~PastHead =>
        \A e \in ToSet(file), d \in Logs :
            Checked(e) /\ Kind(d) = "deposit" /\ Before(d, e) => d \in ToSet(file)

\* A block is within the page its number tells.
LEMMA PageEnd ==
    ASSUME PageSize \in Nat \ {0}, NEW block \in Nat \ {0}
    PROVE  block <= ((block - 1) \div PageSize + 1) * PageSize
<1> DEFINE q == (block - 1) \div PageSize
           r == (block - 1) % PageSize
<1>1. q \in Int /\ r \in 0 .. PageSize - 1 /\ block - 1 = PageSize * q + r
  OBVIOUS
<1> HIDE DEF q, r
<1>2. (q + 1) * PageSize = PageSize * q + PageSize
  BY <1>1
<1> QED
  BY <1>1, <1>2 DEF q

\* The page that is written ends the extraction at the latest at its own end.
LEMMA WithinPage ==
    ASSUME PageSize \in Nat \ {0}, Inv, step = "write", ~PastHead,
           NEW log \in ToSet(logs)
    PROVE  log[1] <= tips[Len(tips)] /\ ~Gap
<1> DEFINE n == Len(tips)
<1>1. /\ n \in Nat /\ n >= 1 /\ from = (n - 1) * PageSize + 1
      /\ tips \in Seq(0 .. tip) /\ DOMAIN tips = 1 .. n /\ tip \in Nat
  BY InvTypes DEF Inv, PageBegun
<1>2. log[1] \in Nat /\ log[1] <= ToBlock
  BY InvTypes DEF Inv, Reached, TypeOK
<1> HIDE DEF n
<1>3. ToBlock = n * PageSize
  <2>1. (n - 1) * PageSize + PageSize = n * PageSize
    BY <1>1
  <2>2. ToBlock = ((n - 1) * PageSize + 1) + PageSize - 1
    BY <1>1 DEF ToBlock
  <2> QED
    BY <1>1, <2>1, <2>2
<1>4. n \in DOMAIN tips /\ tips[n] \in Nat /\ n * PageSize \in Nat
  BY <1>1
<1>5. log[1] <= tips[n]
  BY <1>2, <1>3, <1>4 DEF PastHead
<1> QED
  BY <1>5 DEF n, PastHead, Gap

\* A deposit before the log that is written next is in the file.
LEMMA DepositsFirst ==
    ASSUME PageSize \in Nat \ {0}, Inv, InPlace, ~Gap,
           step = "write", logs # <<>>, Checked(Head(logs)),
           Head(logs)[1] <= tips[Len(tips)],
           NEW d \in Logs, Kind(d) = "deposit", Before(d, Head(logs))
    PROVE  d \in ToSet(file)
<1> DEFINE e == Head(logs)
           n == Len(tips)
<1>1. /\ logs \in Seq(Logs) /\ e = logs[1] /\ 1 \in DOMAIN logs /\ e \in Logs
      /\ e \in ToSet(logs)
  BY InvTypes DEF ToSet
<1>2. /\ n \in Nat /\ n >= 1 /\ from = (n - 1) * PageSize + 1
      /\ tips \in Seq(0 .. tip) /\ DOMAIN tips = 1 .. n /\ tip \in Nat
  BY InvTypes DEF Inv, PageBegun
<1>3. /\ \A p \in 1 .. n : tips[p] \in Nat
      /\ \A p \in 1 .. n - 1 : p * PageSize \in Nat /\ tips[p] >= p * PageSize
  <2>1. \A p \in 1 .. n : tips[p] \in Nat
    BY <1>2
  <2>2. \A p \in 1 .. n - 1 : p * PageSize \in Nat /\ p \in DOMAIN tips /\ p < n
    BY <1>2
  <2>3. \A p \in 1 .. n - 1 : ~(tips[p] < p * PageSize)
    BY <2>2 DEF Gap
  <2> HIDE DEF n
  <2> QED
    BY <1>2, <2>1, <2>2, <2>3
<1>4. d[1] \in Nat \ {0} /\ d[1] <= e[1] /\ e[1] <= ToBlock
      /\ e[1] \in Nat \ {0}
  BY <1>1, InvTypes DEF Before, Inv, Reached
<1>5. IsEvent(Kind(d))
  BY DEF IsEvent
<1> HIDE DEF e, n
<1>6. CASE d[1] < from
  <2> DEFINE page == (d[1] - 1) \div PageSize + 1
  <2>1. d[1] <= (n - 1) * PageSize /\ n - 1 \in Nat
    BY <1>2, <1>4, <1>6
  <2>2. page <= n - 1 /\ page \in Nat /\ page >= 1
    BY <1>4, <2>1, PageOfBlock
  <2>3. d[1] <= page * PageSize
    BY <1>4, PageEnd
  <2> HIDE DEF page
  <2>4. page \in 1 .. n - 1 /\ page \in 1 .. n /\ page * PageSize \in Nat
    BY <1>2, <2>2
  <2>5. d[1] <= tips[page]
    BY <1>3, <1>4, <2>3, <2>4
  <2>6. InTime(d[1])
    BY <1>2, <2>4, <2>5 DEF InTime, page
  <2> QED
    BY <1>5, <1>6, <2>6 DEF Inv, CompleteBehindHead
<1>7. CASE d[1] >= from
  <2>1. ToBlock \in Nat /\ from \in Nat /\ tips[n] \in Nat /\ e[1] <= tips[n]
    BY <1>2, <1>3, InvTypes DEF ToBlock, e, n
  <2>2. d[1] <= tips[Len(tips)] /\ d[1] \in from .. ToBlock
    BY <1>4, <1>7, <2>1 DEF n
  <2>3. Emitter(Kind(d)) \in Asked
    BY DEF Emitter, Asked
  <2>4. d \in ToSet(logs) \cup ToSet(file)
    BY <1>5, <2>2, <2>3 DEF Inv, PageComplete
  <2>5. d \notin ToSet(logs)
    <3> SUFFICES ASSUME NEW j \in DOMAIN logs, d = logs[j] PROVE FALSE
      BY DEF ToSet
    <3>1. e[2] \in Nat /\ d # e
      BY <1>1, <1>4, LogPair, LogsAre DEF Before, Inv, TypeOK, e
    <3>2. j > 1
      BY <1>1, <3>1
    <3> QED
      BY <1>1, <3>2 DEF InPlace, e
  <2> QED
    BY <2>4, <2>5
<1> QED
  BY <1>2, <1>4, <1>6, <1>7, InvTypes

\* A query returns each log in the page of its block.
LEMMA QueryInPlace ==
    ASSUME PageSize \in Nat \ {0}, Inv, InPlace, NEW contract, NEW next,
           Query(contract, next),
           contract \in {"bridge", "GER", "rollupManager"}
    PROVE  InPlace'
<1> DEFINE new == GetLogs(contract)
           asked == {log \in Logs : /\ log[1] \in from .. ToBlock
                                    /\ log[1] <= tip
                                    /\ Emitter(Kind(log)) = contract}
<1>1. /\ new \in Seq(asked)
      /\ \A i, j \in DOMAIN new : i < j => ~Before(new[j], new[i])
  BY GetLogsExact DEF Inv, TypeOK, ChainOK
<1>2. \A i \in DOMAIN new : Emitter(Kind(new[i])) = contract
  BY <1>1
<1>3. /\ logs' = logs \o new /\ step = contract
      /\ \A log : Kind(log)' = Kind(log)
  BY DEF Query, Kind
<1>4. logs \in Seq(Logs) /\ new \in Seq(Logs)
  BY <1>1, InvTypes, SeqMonotone
<1> HIDE DEF new
<1>5. contract = "bridge" => logs = <<>>
  BY <1>3 DEF Inv, PageBegun
<1> SUFFICES ASSUME NEW i \in DOMAIN (logs \o new), NEW j \in DOMAIN (logs \o new),
                    i < j, Checked((logs \o new)[i]),
                    Kind((logs \o new)[j]) = "deposit"
             PROVE  ~Before((logs \o new)[j], (logs \o new)[i])
  BY <1>3 DEF InPlace, Checked
<1>6. CASE j <= Len(logs)
  <2>1. /\ i \in DOMAIN logs /\ j \in DOMAIN logs
        /\ (logs \o new)[i] = logs[i] /\ (logs \o new)[j] = logs[j]
    BY <1>4, <1>6
  <2> QED
    BY <2>1 DEF InPlace
<1>7. CASE j > Len(logs) /\ i > Len(logs)
  <2>1. /\ i - Len(logs) \in DOMAIN new /\ j - Len(logs) \in DOMAIN new
        /\ i - Len(logs) < j - Len(logs)
        /\ (logs \o new)[i] = new[i - Len(logs)]
        /\ (logs \o new)[j] = new[j - Len(logs)]
    BY <1>4, <1>7
  <2> QED
    BY <1>1, <2>1 DEF new
<1>8. CASE j > Len(logs) /\ i <= Len(logs)
  <2>1. j - Len(logs) \in DOMAIN new /\ (logs \o new)[j] = new[j - Len(logs)]
    BY <1>4, <1>8
  <2>2. Emitter("deposit") = contract
    BY <1>2, <2>1
  <2>3. contract = "bridge"
    BY <2>2 DEF Emitter
  <2> QED
    BY <1>4, <1>5, <1>8, <2>3
<1> QED
  BY <1>4, <1>6, <1>7, <1>8

\* Every step keeps what has been written a prefix of what there is.
LEMMA NextPrefix ==
    ASSUME PageSize \in Nat \ {0}, Inv, InPlace, Prefix, [Next]_vars
    PROVE  InPlace' /\ Prefix'
<1>0. /\ file \in Seq(Logs) /\ logs \in Seq(Logs) /\ tip \in Nat
      /\ \A log \in ToSet(logs) \cup ToSet(file) : log \in Logs /\ log[1] <= tip
      /\ \A log \in Logs : log[1] \in Nat \ {0}
  BY InvTypes DEF Inv, TypeOK
<1>1. CASE L1
  <2>1. Grown
    BY <1>1, L1Grows DEF Inv
  <2>2. /\ UNCHANGED <<logs, file, tips>>
        /\ \A log \in Logs : Kind(log)' = Kind(log)
        /\ \A log \in Logs' \ Logs : log[1] = tip + 1
    BY <2>1 DEF Grown, extractVars
  <2>3. \A i \in DOMAIN logs : logs[i] \in Logs
    BY <1>0
  <2>4. InPlace'
    BY <2>2, <2>3 DEF InPlace, Checked
  <2>5. ASSUME NEW e \in ToSet(file), NEW d \in Logs' \ Logs
        PROVE  ~Before(d, e)
    BY <1>0, <2>2 DEF Before
  <2>6. Prefix'
    BY <1>0, <2>2, <2>5 DEF Prefix, PastHead, Checked
  <2> QED
    BY <2>4, <2>6
<1>2. ASSUME NEW contract \in {"bridge", "GER", "rollupManager"}, NEW next,
             Query(contract, next)
      PROVE  InPlace' /\ Prefix'
  <2>1. InPlace'
    BY <1>2, QueryInPlace
  <2>2. /\ Logs' = Logs /\ file' = file /\ \A log : Kind(log)' = Kind(log)
        /\ tips' = tips \/ tips' = Append(tips, tip)
    BY <1>2 DEF Query, Logs, Kind
  <2>3. PastHead => PastHead'
    <3>1. \A p \in DOMAIN tips : p \in DOMAIN tips' /\ tips'[p] = tips[p]
      <4>1. tips \in Seq(0 .. tip)
        BY InvTypes
      <4> QED
        BY <2>2, <4>1
    <3> QED
      BY <3>1 DEF PastHead
  <2> QED
    BY <2>1, <2>2, <2>3 DEF Prefix, Checked
<1>3. CASE Write
  <2> DEFINE log == Head(logs)
  <2>1. /\ step = "write" /\ logs # <<>> /\ logs' = Tail(logs)
        /\ file' \in {file, Append(file, log)}
        /\ UNCHANGED <<blocks, tips>>
    BY <1>3 DEF Write
  <2>2. /\ Logs' = Logs /\ \A l : Kind(l)' = Kind(l)
        /\ PastHead' = PastHead
    BY <2>1 DEF Logs, Kind, PastHead
  <2>3. InPlace'
    <3>1. \A i \in DOMAIN Tail(logs) :
             i + 1 \in DOMAIN logs /\ Tail(logs)[i] = logs[i + 1] /\ i \in Nat
      BY <1>0, <2>1
    <3> QED
      BY <2>1, <2>2, <3>1 DEF InPlace, Checked
  <2>4. ToSet(file) \subseteq ToSet(file') /\ ToSet(file') \subseteq ToSet(file) \cup {log}
    <3>1. log \in Logs /\ file \in Seq(Logs)
      BY <1>0, <2>1
    <3>2. ToSet(Append(file, log)) = ToSet(file) \cup {log}
      BY <3>1, ToSetAppend
    <3> QED
      BY <2>1, <3>2
  <2>5. ASSUME ~PastHead PROVE log[1] <= tips[Len(tips)] /\ ~Gap
    BY <1>0, <2>1, <2>5, WithinPage DEF ToSet
  <2>6. Prefix'
    BY <2>1, <2>2, <2>4, <2>5, DepositsFirst DEF Prefix, Checked
  <2> QED
    BY <2>3, <2>6
<1>4. CASE NextPage \/ Break \/ Abort \/ UNCHANGED vars
  <2>1. UNCHANGED <<blocks, logs, file, tips>>
    BY <1>4 DEF NextPage, Break, Abort, vars, extractVars
  <2> QED
    BY <2>1 DEF InPlace, Prefix, PastHead, Checked, Logs, Kind
<1> QED
  BY <1>1, <1>2, <1>3, <1>4
     DEF Next, Extraction, QueryBridge, QueryGER, QueryRollupManager

\* Nothing has been written.
LEMMA InitPrefix == ASSUME Init PROVE InPlace /\ Prefix
<1>1. logs = <<>> /\ file = <<>> /\ ToSet(file) = {}
  BY DEF Init, ToSet
<1> QED
  BY <1>1 DEF InPlace, Prefix

\* However early the extraction ends, the deposits before an event that the
\* replay checks are in the file with it, if no page was read past the head.
THEOREM FileIsPrefix ==
    ASSUME PageSize \in Nat \ {0} PROVE Spec => [](Inv /\ InPlace /\ Prefix)
<1>1. Init => Inv /\ InPlace /\ Prefix
  BY InitInv, InitPrefix
<1>2. Inv /\ InPlace /\ Prefix /\ [Next]_vars => (Inv /\ InPlace /\ Prefix)'
  BY NextInv, NextPrefix
<1> QED
  BY <1>1, <1>2, PTL DEF Spec
----------------------------------------------------------------------------
(* The deposits in the file of an extraction that went past the head only   *)
(* with its last page.                                                      *)

\* The deposits that are still to be written were there when the page was begun.
Answered ==
    \A log \in ToSet(logs) : Kind(log) = "deposit" => log[1] <= tips[Len(tips)]

\* The deposits in the file are consecutive.
Consecutive ==
    ~Gap =>
        \A e \in ToSet(file), d \in Logs :
            Kind(e) = "deposit" /\ Kind(d) = "deposit" /\ Before(d, e)
                => d \in ToSet(file)

\* Every step keeps the deposits of the file consecutive.
LEMMA NextConsecutive ==
    ASSUME PageSize \in Nat \ {0}, Inv, InPlace, Answered, Consecutive, [Next]_vars
    PROVE  Answered' /\ Consecutive'
<1>0. /\ file \in Seq(Logs) /\ logs \in Seq(Logs) /\ tip \in Nat
      /\ \A log \in ToSet(logs) \cup ToSet(file) : log \in Logs /\ log[1] <= tip
      /\ \A log \in Logs : log[1] \in Nat \ {0}
      /\ tips \in Seq(0 .. tip)
  BY InvTypes DEF Inv, TypeOK
<1>1. CASE L1
  <2>1. Grown
    BY <1>1, L1Grows DEF Inv
  <2>2. /\ UNCHANGED <<logs, file, tips>>
        /\ \A log \in Logs : Kind(log)' = Kind(log)
        /\ \A log \in Logs' \ Logs : log[1] = tip + 1
    BY <2>1 DEF Grown, extractVars
  <2>3. Answered'
    BY <1>0, <2>2 DEF Answered
  <2>4. ASSUME NEW e \in ToSet(file), NEW d \in Logs' \ Logs
        PROVE  ~Before(d, e)
    BY <1>0, <2>2 DEF Before
  <2>5. Consecutive'
    BY <1>0, <2>2, <2>4 DEF Consecutive, Gap
  <2> QED
    BY <2>3, <2>5
<1>2. ASSUME NEW contract \in {"bridge", "GER", "rollupManager"}, NEW next,
             Query(contract, next)
      PROVE  Answered' /\ Consecutive'
  <2> DEFINE asked == {log \in Logs : /\ log[1] \in from .. ToBlock
                                      /\ log[1] <= tip
                                      /\ Emitter(Kind(log)) = contract}
  <2>1. GetLogs(contract) \in Seq(asked) /\ ToSet(GetLogs(contract)) = asked
    BY GetLogsExact DEF Inv, TypeOK, ChainOK
  <2>2. /\ Logs' = Logs /\ file' = file /\ \A log : Kind(log)' = Kind(log)
        /\ logs' = logs \o GetLogs(contract)
        /\ tips' = IF contract = "bridge" THEN Append(tips, tip) ELSE tips
        /\ step = contract
    BY <1>2 DEF Query, Logs, Kind
  <2>3. ToSet(logs') = ToSet(logs) \cup asked
    <3>1. GetLogs(contract) \in Seq(Logs)
      BY <2>1, SeqMonotone
    <3> QED
      BY <1>0, <2>1, <2>2, <3>1, ToSetConcat
  <2>4. Answered'
    <3>1. CASE contract = "bridge"
      <4>1. ToSet(logs) = {}
        BY <2>2, <3>1 DEF Inv, PageBegun, ToSet
      <4>2. tips'[Len(tips')] = tip
        BY <1>0, <2>2, <3>1
      <4> QED
        BY <2>2, <2>3, <4>1, <4>2 DEF Answered
    <3>2. CASE contract # "bridge"
      <4>1. \A log \in asked : Kind(log) # "deposit"
        BY <3>2 DEF Emitter
      <4> QED
        BY <2>2, <2>3, <3>2, <4>1 DEF Answered
    <3> QED
      BY <3>1, <3>2
  <2>5. Gap => Gap'
    <3>1. \A p \in DOMAIN tips : p \in DOMAIN tips' /\ tips'[p] = tips[p]
      BY <1>0, <2>2
    <3>2. \A p \in DOMAIN tips : p < Len(tips) => p < Len(tips')
      BY <1>0, <2>2
    <3> QED
      BY <3>1, <3>2 DEF Gap
  <2> QED
    BY <2>2, <2>4, <2>5 DEF Consecutive
<1>3. CASE Write
  <2> DEFINE log == Head(logs)
  <2>1. /\ step = "write" /\ logs # <<>> /\ logs' = Tail(logs)
        /\ file' \in {file, Append(file, log)}
        /\ UNCHANGED <<blocks, tips>>
    BY <1>3 DEF Write
  <2>2. /\ Logs' = Logs /\ \A l : Kind(l)' = Kind(l)
        /\ Gap' = Gap
    BY <2>1 DEF Logs, Kind, Gap
  <2>3. log \in ToSet(logs) /\ log \in Logs /\ ToSet(Tail(logs)) \subseteq ToSet(logs)
    BY <1>0, <2>1, ToSetHead
  <2>4. Answered'
    BY <2>1, <2>2, <2>3 DEF Answered
  <2>5. ToSet(file) \subseteq ToSet(file') /\ ToSet(file') \subseteq ToSet(file) \cup {log}
    <3>1. ToSet(Append(file, log)) = ToSet(file) \cup {log}
      BY <1>0, <2>3, ToSetAppend
    <3> QED
      BY <2>1, <3>1
  <2>6. ASSUME ~Gap, Kind(log) = "deposit",
               NEW d \in Logs, Kind(d) = "deposit", Before(d, log)
        PROVE  d \in ToSet(file)
    <3>1. log[1] <= tips[Len(tips)]
      BY <2>3, <2>6 DEF Answered
    <3> QED
      BY <2>1, <2>6, <3>1, DepositsFirst DEF Checked
  <2>7. Consecutive'
    BY <2>2, <2>5, <2>6 DEF Consecutive
  <2> QED
    BY <2>4, <2>7
<1>4. CASE NextPage \/ Break \/ Abort \/ UNCHANGED vars
  <2>1. UNCHANGED <<blocks, logs, file, tips>>
    BY <1>4 DEF NextPage, Break, Abort, vars, extractVars
  <2> QED
    BY <2>1 DEF Answered, Consecutive, Gap, Logs, Kind
<1> QED
  BY <1>1, <1>2, <1>3, <1>4
     DEF Next, Extraction, QueryBridge, QueryGER, QueryRollupManager

\* Nothing is held and nothing has been written.
LEMMA InitConsecutive == ASSUME Init PROVE Answered /\ Consecutive
<1>1. ToSet(logs) = {} /\ ToSet(file) = {}
  BY DEF Init, ToSet
<1> QED
  BY <1>1 DEF Answered, Consecutive
=============================================================================

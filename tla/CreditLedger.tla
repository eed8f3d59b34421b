---------------------------- MODULE CreditLedger ----------------------------
(***************************************************************************)
(* AggregateDeposits, LocalCreditTree, collateDeposits and                 *)
(* finalizeDepositProof of lxly_bridge_test.go, called in the order of     *)
(* TestAggregateDeposits: deposits and credits are recorded, the deposits  *)
(* are collated once, then networks are finalized one after the other.     *)
(*                                                                         *)
(* Amounts are *big.Int: a table of the program holds references, Add and  *)
(* Sub write through their receiver, and the tables built by flattenTokens *)
(* and collateDeposits take over references of the tables they read.  The  *)
(* heap holds the amounts; a reference is an index of it and Nil an absent *)
(* key.  Go iterates over a map in any order.                              *)
(*                                                                         *)
(* ..._Faulty... definitions are plausible bugs that test the properties.  *)
(***************************************************************************)
EXTENDS Integers, FiniteSets, SequencesExt

CONSTANTS
    Networks,   \* NetworkId
    Tokens,     \* TokenInfo
    Origin,     \* OriginNetwork of each token
    Amounts,    \* amounts of deposits and credits
    MaxCells    \* bound: the number of big integers the caller creates

Routes == Networks \X Tokens

ASSUME NetworksAssumption == IsFiniteSet(Networks)
ASSUME TokensAssumption == IsFiniteSet(Tokens) /\ Tokens \cap Routes = {}
ASSUME OriginAssumption == Origin \in [Tokens -> Networks]
ASSUME AmountsAssumption == Amounts \subseteq Nat \ {0}

Nil == 0

VARIABLES
    heap,     \* the amounts
    deps,     \* deps[s][d, t]: reference held by the AggregateDeposits of s
    collated, \* collateDeposits' result, a reference per route; or NotCollated
    bals,     \* bals[n][t]: reference held by the LocalCreditTree of n
    result,   \* of finalizeDepositProof for each network
    sent,     \* history: the amounts recorded, by network and route
    granted,  \* history: the credits of each network
    debited,  \* history: what finalizeDepositProof subtracted
    credited  \* history: what finalizeDepositProof added

history == <<sent, granted, debited, credited>>
vars == <<heap, deps, collated, bals, result, history>>

NotCollated == <<>>
NoAmounts(S) == [k \in S |-> 0]
NoRefs(S) == [k \in S |-> Nil]

Init ==
    /\ heap = <<>>
    /\ deps = [s \in Networks |-> NoRefs(Routes)]
    /\ collated = NotCollated
    /\ bals = [n \in Networks |-> NoRefs(Tokens)]
    /\ result = [n \in Networks |-> "none"]
    /\ sent = [s \in Networks |-> NoAmounts(Routes)]
    /\ granted = [n \in Networks |-> NoAmounts(Tokens)]
    /\ debited = [n \in Networks |-> NoAmounts(Tokens)]
    /\ credited = [n \in Networks |-> NoAmounts(Tokens)]

\* A nil dereference ends the program.
Running == \A n \in Networks : result[n] # "panic"

----------------------------------------------------------------------------
\* What the table refers to already is forgotten.
NewCell_FaultyOverwrite(curr, amount) == Append(heap, amount)

\* A new big integer the caller hands over, to be added to what the table
\* refers to already: bal.Add(bal, curr) writes the new one.
NewCell(curr, amount) ==
    Append(heap, IF curr = Nil THEN amount ELSE amount + heap[curr])

\* The reference is taken before the integer is created.
AddDeposit_FaultyRef(s, d, t, amount) ==
    /\ collated = NotCollated
    /\ Len(heap) < MaxCells
    /\ heap' = NewCell(deps[s][d, t], amount)
    /\ deps' = [deps EXCEPT ![s][<<d, t>>] = Len(heap)]
    /\ sent' = [sent EXCEPT ![s][<<d, t>>] = @ + amount]
    /\ UNCHANGED <<collated, bals, result, granted, debited, credited>>

\* addDeposit on the AggregateDeposits of s.
AddDeposit(s, d, t, amount) ==
    /\ collated = NotCollated
    /\ Len(heap) < MaxCells
    /\ heap' = NewCell(deps[s][d, t], amount)
    /\ deps' = [deps EXCEPT ![s][<<d, t>>] = Len(heap')]
    /\ sent' = [sent EXCEPT ![s][<<d, t>>] = @ + amount]
    /\ UNCHANGED <<collated, bals, result, granted, debited, credited>>

\* addCredit on the LocalCreditTree of n.
AddCredit(n, t, amount) ==
    /\ collated = NotCollated
    /\ Len(heap) < MaxCells
    /\ heap' = NewCell(bals[n][t], amount)
    /\ bals' = [bals EXCEPT ![n][t] = Len(heap')]
    /\ granted' = [granted EXCEPT ![n][t] = @ + amount]
    /\ UNCHANGED <<deps, collated, result, sent, debited, credited>>

----------------------------------------------------------------------------
\* The integer a key refers to is set to the other amount instead of added to.
MergeTransfers_FaultySet(merged, table) ==
    [refs |-> [k \in DOMAIN table |->
                 IF merged.refs[k] = Nil THEN table[k] ELSE merged.refs[k]],
     heap |-> [c \in DOMAIN merged.heap |->
                 LET set == {k \in DOMAIN table : table[k] # Nil
                                                  /\ merged.refs[k] = c}
                 IN  IF set = {} THEN merged.heap[c]
                     ELSE SumFunction([k \in set |-> merged.heap[table[k]]])]]

\* mergeTransfers(table) on a table of references and the heap: a key that is
\* new takes over the reference, the others are added to in place.
MergeTransfers(merged, table) ==
    [refs |-> [k \in DOMAIN table |->
                 IF merged.refs[k] = Nil THEN table[k] ELSE merged.refs[k]],
     heap |-> [c \in DOMAIN merged.heap |->
                 merged.heap[c] +
                   LET added == {k \in DOMAIN table : table[k] # Nil
                                                    /\ merged.refs[k] = c}
                   IN  SumFunction([k \in added |-> merged.heap[table[k]]])]]

\* The tables merged one after the other, in the given order, into an empty one.
MergeAll(keys, tables, order, amounts) ==
    LET merged[i \in Nat] ==
            IF i = 0 THEN [refs |-> NoRefs(keys), heap |-> amounts]
            ELSE MergeTransfers(merged[i - 1], tables[order[i]])
    IN  merged[Len(order)]

\* The last source is not merged.
Collation_FaultyLast(order) == MergeAll(Routes, deps, Front(order), heap)

\* collateDeposits, the sources taken in the given order.
Collation(order) == MergeAll(Routes, deps, order, heap)

Collate ==
    /\ collated = NotCollated
    /\ \E order \in SetToSeqs(Networks) :
          /\ collated' = Collation(order).refs
          /\ heap' = Collation(order).heap
    /\ UNCHANGED <<deps, bals, result, history>>

\* flattenTokens of the deposits of n, the targets taken in the given order.
Flattened(n, order) ==
    MergeAll(Tokens, [d \in Networks |-> [t \in Tokens |-> deps[n][d, t]]],
             order, heap)

\* The sign of the result is not looked at.
Debit_FaultySign(bal, out, run, t) ==
    IF run.outcome # "ok" \/ out[t] = Nil THEN run
    ELSE IF bal[t] = Nil THEN [run EXCEPT !.outcome = "panic"]
    ELSE [run EXCEPT !.heap[bal[t]] = @ - run.heap[out[t]]]

\* One pass of the first loop of finalizeDepositProof on the balances bal: the
\* outbound amount out[t] is taken off.  The loop has stopped when the run is
\* no longer "ok".
Debit(bal, out, run, t) ==
    IF run.outcome # "ok" \/ out[t] = Nil THEN run
    ELSE IF bal[t] = Nil THEN [run EXCEPT !.outcome = "panic"]
    ELSE LET rest == run.heap[bal[t]] - run.heap[out[t]]
         IN  [heap    |-> [run.heap EXCEPT ![bal[t]] = rest],
              outcome |-> IF rest < 0 THEN "false" ELSE "ok"]

\* The first loop, the tokens taken in the given order.
Debits(bal, out, order, start) ==
    LET run[i \in Nat] ==
            IF i = 0 THEN start ELSE Debit(bal, out, run[i - 1], order[i])
    IN  run[Len(order)]

\* The inbound amounts the second loop adds: a token is not credited on its
\* home network.
Creditable_FaultyHome(n) == [t \in Tokens |-> collated[n, t]]

Creditable(n) ==
    [t \in Tokens |-> IF Origin[t] = n THEN Nil ELSE collated[n, t]]

\* One pass of the second loop: the inbound amount in[t] is added.
Credit(bal, in, run, t) ==
    IF run.outcome # "ok" \/ in[t] = Nil THEN run
    ELSE IF bal[t] = Nil THEN [run EXCEPT !.outcome = "panic"]
    ELSE [run EXCEPT !.heap[bal[t]] = @ + run.heap[in[t]]]

\* The second loop, the tokens taken in the given order.
Credits(bal, in, order, start) ==
    LET run[i \in Nat] ==
            IF i = 0 THEN start ELSE Credit(bal, in, run[i - 1], order[i])
    IN  run[Len(order)]

HasOutbound(n) == \E r \in Routes : deps[n][r] # Nil
HasCredits(n) == \E t \in Tokens : bals[n][t] # Nil
HasInbound(n) == \E t \in Tokens : collated[n, t] # Nil

\* finalizeDepositProof(n, bals[n], deps[n], collated[n]); a network that
\* nobody sent to has no entry in the collated table, and reading its bals
\* panics.
Finalize(n) ==
    /\ Running
    /\ collated # NotCollated
    /\ result[n] = "none"
    /\ \/ /\ HasOutbound(n) /\ ~HasCredits(n)
          /\ result' = [result EXCEPT ![n] = "false"]
          /\ UNCHANGED <<heap, debited, credited>>
       \/ /\ HasOutbound(n) => HasCredits(n)
          /\ \E targets \in SetToSeqs(Networks),
                outTokens, inTokens \in SetToSeqs(Tokens) :
                LET flat == Flattened(n, targets)
                    in == Creditable(n)
                    afterDebit ==
                      Debits(bals[n], flat.refs, outTokens,
                             [heap |-> flat.heap, outcome |-> "ok"])
                    beforeCredit ==
                      IF afterDebit.outcome = "ok" /\ ~HasInbound(n)
                      THEN [afterDebit EXCEPT !.outcome = "panic"]
                      ELSE afterDebit
                    end == Credits(bals[n], in, inTokens, beforeCredit)
                IN  /\ heap' = end.heap
                    /\ result' = [result EXCEPT ![n] =
                                    IF end.outcome = "ok" THEN "true"
                                    ELSE end.outcome]
                    /\ debited' = [debited EXCEPT ![n] = [t \in Tokens |->
                                     IF flat.refs[t] = Nil THEN 0
                                     ELSE flat.heap[flat.refs[t]]]]
                    /\ credited' = [credited EXCEPT ![n] = [t \in Tokens |->
                                      IF in[t] = Nil THEN 0
                                      ELSE flat.heap[in[t]]]]
    /\ UNCHANGED <<deps, collated, bals, sent, granted>>

\* The bridge accepts no deposit whose target is the network it is made on.
Next ==
    \/ \E s, d \in Networks, t \in Tokens, amount \in Amounts :
          s # d /\ AddDeposit(s, d, t, amount)
    \/ \E n \in Networks, t \in Tokens, amount \in Amounts :
          AddCredit(n, t, amount)
    \/ Collate
    \/ \E n \in Networks : Finalize(n)

Spec == Init /\ [][Next]_vars

----------------------------------------------------------------------------
(* Properties.                                                              *)

Refs == 0 .. Len(heap)

\* Every reference is one to a big integer that exists, and only the credits of
\* a network that was refused are ever left negative.
TypeOK ==
    /\ heap \in Seq(Int)
    /\ deps \in [Networks -> [Routes -> Refs]]
    /\ collated # NotCollated => collated \in [Routes -> Refs]
    /\ bals \in [Networks -> [Tokens -> Refs]]
    /\ result \in [Networks -> {"none", "true", "false", "panic"}]
    /\ \A c \in 1 .. Len(heap) : heap[c] < 0 =>
          \E n \in Networks, t \in Tokens :
              bals[n][t] = c /\ result[n] = "false"

\* The places of the ledger that hold a reference of their own.
Entries == {<<n, k>> : n \in Networks, k \in Routes \cup Tokens}
RefOf(e) == IF e[2] \in Routes THEN deps[e[1]][e[2]] ELSE bals[e[1]][e[2]]

\* No two deposits, and no deposit and credit, share a big integer; a collated
\* amount is only ever that of one of its own deposits.
Ownership ==
    /\ \A e, f \in Entries : e # f /\ RefOf(e) # Nil => RefOf(e) # RefOf(f)
    /\ collated # NotCollated =>
          \A r \in Routes : collated[r] # Nil =>
              \E s \in Networks : collated[r] = deps[s][r]

Outbound(n, t) == SumFunction([d \in Networks |-> sent[n][d, t]])
Inbound(n, t) == SumFunction([s \in Networks |-> sent[s][n, t]])
Covered(n) == \A t \in Tokens : Outbound(n, t) <= granted[n][t]

\* collateDeposits returns for each target and token the sum of what was sent
\* there, in whatever order it meets the sources.
CollateExact ==
    [][Collate => \A d \in Networks, t \in Tokens :
          Inbound(d, t) = IF collated'[d, t] = Nil THEN 0
                          ELSE heap'[collated'[d, t]]]_vars

\* However the tables have been merged into each other, no deposit has become
\* smaller than what was recorded: the sharing only ever overstates.
NeverUnderstated ==
    \A s \in Networks, r \in Routes :
        deps[s][r] # Nil => heap[deps[s][r]] >= sent[s][r]

\* A network whose proof is accepted had the credits for all it sent out.
NoOverdraft == \A n \in Networks : result[n] = "true" => Covered(n)

\* finalizeDepositProof takes off what was sent from the network.
DebitExact ==
    \A n \in Networks : result[n] = "true" =>
        \A t \in Tokens : debited[n][t] = Outbound(n, t)

\* finalizeDepositProof adds what was sent to the network.
CreditExact ==
    \A n \in Networks : result[n] = "true" =>
        \A t \in Tokens : Origin[t] # n => credited[n][t] = Inbound(n, t)

\* A network that sent more of a token than its credits is refused.
OverdraftRefused ==
    \A n \in Networks :
        (\E t \in Tokens : granted[n][t] > 0 /\ Outbound(n, t) > granted[n][t])
            => result[n] \in {"none", "false"}

----------------------------------------------------------------------------
(* Refinement: the amounts behind the references are the abstract ledger.   *)

Void == "void"

AmountAt(refs) ==
    [k \in DOMAIN refs |-> IF refs[k] = Nil THEN 0 ELSE heap[refs[k]]]

Sent == [s \in Networks |-> AmountAt(deps[s])]
Arrived == IF collated = NotCollated THEN NoAmounts(Routes) ELSE AmountAt(collated)
Held == [n \in Networks |-> IF result[n] \in {"false", "panic"} THEN Void
                           ELSE AmountAt(bals[n])]
Status == [n \in Networks |-> CASE result[n] = "none"  -> "open"
                              [] result[n] = "true"  -> "settled"
                              [] result[n] = "false" -> "refused"
                              [] result[n] = "panic" -> "abandoned"]

Abs == INSTANCE CreditLedgerAbs WITH
    sent     <- Sent,
    inbound  <- Arrived,
    collated <- collated # NotCollated,
    credit   <- Held,
    status   <- Status

\* Each call does to the amounts what the abstract ledger does, as long as no
\* two deposits have the same source or the same target.
AbsSpec == Abs!Spec
=============================================================================

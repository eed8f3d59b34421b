--------------------------- MODULE CreditLedgerAbs ---------------------------
(***************************************************************************)
(* What the aggregation of cross-network deposits promises, on amounts: the*)
(* deposits recorded at each network are collated by target network, and a *)
(* network is settled by taking what it sent out of its credits and adding *)
(* what was sent to it.  CreditLedger does this on shared big integers.    *)
(***************************************************************************)
EXTENDS Integers, Functions

CONSTANTS
    Networks,
    Tokens,
    Origin,   \* the network a token originates from
    Amounts,  \* the amounts of deposits and credits
    Void      \* the credits of a network whose settlement did not go through

Routes == Networks \X Tokens

VARIABLES
    sent,     \* sent[s][d, t]: what s sent to d in token t
    inbound,  \* inbound[d, t]: what all networks sent to d, once collated
    collated, \* whether the deposits have been collated
    credit,   \* credit[n][t], or Void
    status    \* how the settlement of a network stands

vars == <<sent, inbound, collated, credit, status>>

Outbound(n, t) == SumFunction([d \in Networks |-> sent[n][d, t]])

Init ==
    /\ sent = [s \in Networks |-> [r \in Routes |-> 0]]
    /\ inbound = [r \in Routes |-> 0]
    /\ collated = FALSE
    /\ credit = [n \in Networks |-> [t \in Tokens |-> 0]]
    /\ status = [n \in Networks |-> "open"]

Record(s, d, t, amount) ==
    /\ ~collated
    /\ sent' = [sent EXCEPT ![s][<<d, t>>] = @ + amount]
    /\ UNCHANGED <<inbound, collated, credit, status>>

Grant(n, t, amount) ==
    /\ ~collated
    /\ credit' = [credit EXCEPT ![n][t] = @ + amount]
    /\ UNCHANGED <<sent, inbound, collated, status>>

\* A network receives each amount sent to it exactly once.
Collate ==
    /\ ~collated
    /\ collated' = TRUE
    /\ inbound' = [r \in Routes |->
                     SumFunction([s \in Networks |-> sent[s][r]])]
    /\ UNCHANGED <<sent, credit, status>>

\* Tokens that come back to the network they originate from are redeemed
\* there and credit nothing.
Settle(n) ==
    /\ collated
    /\ status[n] = "open"
    /\ \A t \in Tokens : Outbound(n, t) <= credit[n][t]
    /\ status' = [status EXCEPT ![n] = "settled"]
    /\ credit' = [credit EXCEPT ![n] = [t \in Tokens |->
                    @[t] - Outbound(n, t)
                      + (IF Origin[t] = n THEN 0 ELSE inbound[n, t])]]
    /\ UNCHANGED <<sent, inbound, collated>>

\* A network that sent more than its credits is refused.
Refuse(n) ==
    /\ collated
    /\ status[n] = "open"
    /\ \E t \in Tokens : Outbound(n, t) > credit[n][t]
    /\ status' = [status EXCEPT ![n] = "refused"]
    /\ credit' = [credit EXCEPT ![n] = Void]
    /\ UNCHANGED <<sent, inbound, collated>>

\* A settlement may be given up; its outcome is then not an answer.
Abandon(n) ==
    /\ collated
    /\ status[n] = "open"
    /\ status' = [status EXCEPT ![n] = "abandoned"]
    /\ credit' = [credit EXCEPT ![n] = Void]
    /\ UNCHANGED <<sent, inbound, collated>>

Next ==
    \/ \E s, d \in Networks, t \in Tokens, amount \in Amounts :
          Record(s, d, t, amount)
    \/ \E n \in Networks, t \in Tokens, amount \in Amounts : Grant(n, t, amount)
    \/ Collate
    \/ \E n \in Networks : Settle(n) \/ Refuse(n) \/ Abandon(n)

Spec == Init /\ [][Next]_vars
=============================================================================

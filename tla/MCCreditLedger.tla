--------------------------- MODULE MCCreditLedger ---------------------------
(* CreditLedger for TLC.                                                    *)
EXTENDS CreditLedger

\* As TokenInfoETH and TokenInfoUSDC: every token originates from network 0.
MCOrigin == [t \in Tokens |-> 0]
=============================================================================

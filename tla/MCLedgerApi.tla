----------------------------- MODULE MCLedgerApi -----------------------------
(***************************************************************************)
(* LedgerApi on small instances for TLC.                                   *)
(***************************************************************************)
EXTENDS LedgerApi, TLC

Usd == "USD"
OneCurrency == {Usd}

Deposited(n) == [from |-> External, to |-> 1, amount |-> n, currency |-> Usd]
Withdrawn(n) == [from |-> 1, to |-> External, amount |-> n, currency |-> Usd]

\* One key of the deposit endpoint, whose larger body no bigint column takes,
\* and one of the withdraw endpoint.
TwoEndpoints == <<{Deposited(2), Deposited(9)}, {Withdrawn(2)}>>

AllPayloads == TwoEndpoints[1] \cup TwoEndpoints[2]
=============================================================================

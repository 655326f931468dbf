------------------------------- MODULE MCLedger -------------------------------
(***************************************************************************)
(* Ledger on a small instance for TLC.                                     *)
(***************************************************************************)
EXTENDS Ledger, TLC

Symmetry == Permutations(Requests)

Usd == "USD"

Deposit(a, n)     == [from |-> External, to |-> a, amount |-> n, currency |-> Usd]
Withdrawal(a, n)  == [from |-> a, to |-> External, amount |-> n, currency |-> Usd]
Transfer(a, b, n) == [from |-> a, to |-> b, amount |-> n, currency |-> Usd]

OneCurrency == {Usd}

\* Overdrawing withdrawals, opposite transfers that compete for funds, and
\* bodies that are refused: same account, and beyond the bigint column.
CompetingMovements ==
    {Deposit(1, 2), Withdrawal(1, 2), Transfer(1, 2, 1), Transfer(2, 1, 1),
     Transfer(1, 1, 1), Deposit(2, 10)}

\* Small amounts beside a large one, so that a balance crosses ExactLimit.
LargeMovements ==
    {Deposit(1, 1), Deposit(1, 4), Withdrawal(1, 1), Transfer(1, 2, 1)}
=============================================================================

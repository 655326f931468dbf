------------------------------ MODULE Movements ------------------------------
(***************************************************************************)
(* The data of the ledger: accounts, the movements that requests ask for,  *)
(* the journal lines a movement writes, and the two number formats a       *)
(* balance lives in.                                                       *)
(*                                                                         *)
(* A movement is one body of POST /transactions/{deposit,withdraw,         *)
(* transfer}.  All three are a debit of `from' and a credit of `to'; a     *)
(* deposit comes from, and a withdrawal goes to, the external settlement   *)
(* account, which has no row of its own (account_id NULL).                 *)
(***************************************************************************)
EXTENDS Integers, FiniteSetsExt

CONSTANTS
    AccountCount, \* how many account rows there can be
    External,     \* 'external_settlement', the side without an account row
    Currencies,
    Movements,    \* the request bodies under consideration
    BalanceCap,   \* the largest value of a bigint column
    ExactLimit    \* 2^53: up to here every integer is a JavaScript number

\* The ids of account rows, by their rank in the order of the uuids.
Accounts == 1..AccountCount

Statuses == {"active", "blocked"}
Profiles == [currency : Currencies, status : Statuses]

Parties == Accounts \cup {External}

\* JavaScript numbers are 1 apart up to ExactLimit, 2 apart up to twice as
\* much, and so on; the sum of two bigint values needs no wider steps.
Spacings == {1, 2, 4, 8, 16, 32, 64, 128, 256, 512, 1024, 2048}
Spacing(n) ==
    CHOOSE d \in Spacings :
      /\ n <= ExactLimit * d \/ d = 2048
      /\ \A e \in Spacings : n <= ExactLimit * e => d <= e

(***************************************************************************)
(* Number(): the JavaScript number nearest to an integer; of two that are  *)
(* equally near, the one that is an even multiple of their distance.       *)
(***************************************************************************)
Num(n) ==
    IF n <= ExactLimit THEN n
    ELSE LET d == Spacing(n)
             low == n \div d
         IN IF 2 * (n % d) < d \/ (2 * (n % d) = d /\ low % 2 = 0)
            THEN d * low ELSE d * (low + 1)

ASSUME AccountsAssumption ==
    /\ AccountCount \in Nat
    /\ External \notin Accounts

ASSUME LimitsAssumption == BalanceCap \in Nat /\ ExactLimit \in Nat

\* What the DTOs let through: positive whole amounts, some account row.
ASSUME MovementsAssumption ==
    /\ Movements \subseteq
         [from : Parties, to : Parties, amount : Nat \ {0},
          currency : Currencies]
    /\ \A m \in Movements :
         /\ m.from \in Accounts \/ m.to \in Accounts
         /\ Num(m.amount) = m.amount

\* The account rows a movement reads and writes.
Rows(m) == {m.from, m.to} \cap Accounts

\* The signed change a movement makes to one account.
Delta(m, a) ==
    (IF a = m.to THEN m.amount ELSE 0) - (IF a = m.from THEN m.amount ELSE 0)

\* Mutants of Lines: the lines carry the transaction's type instead of their
\* own, or debit and credit change sides.
LinesTypedByTransaction(m) ==
    {[account |-> a, type |-> "transfer", amount |-> m.amount] :
        a \in {m.from, m.to}}

LinesSwapped(m) ==
    { [account |-> m.to,   type |-> "debit",  amount |-> m.amount],
      [account |-> m.from, type |-> "credit", amount |-> m.amount] }

\* The ledger_entries rows a movement writes.
Lines(m) ==
    { [account |-> m.from, type |-> "debit",  amount |-> m.amount],
      [account |-> m.to,   type |-> "credit", amount |-> m.amount] }

Total(lines, type) ==
    MapThenSumSet(LAMBDA l : l.amount, {l \in lines : l.type = type})

Balanced(lines) == Total(lines, "debit") = Total(lines, "credit")

\* Mutant of Acceptable: the "insufficient funds" check is missing.
AcceptableOnCredit(m, rows, prof, bal) ==
    /\ rows = Rows(m)
    /\ \A a \in rows : /\ prof[a].status = "active"
                       /\ prof[a].currency = m.currency

(***************************************************************************)
(* The checks a service method makes on the rows it has loaded: `rows' is  *)
(* the set it found, `prof' their currency and status, and `bal' the       *)
(* balances it read.                                                       *)
(***************************************************************************)
Acceptable(m, rows, prof, bal) ==
    /\ rows = Rows(m)
    /\ \A a \in rows : /\ prof[a].status = "active"
                       /\ prof[a].currency = m.currency
    /\ m.from \in Accounts => bal[m.from] >= m.amount
=============================================================================

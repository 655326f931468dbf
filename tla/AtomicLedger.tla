----------------------------- MODULE AtomicLedger -----------------------------
(***************************************************************************)
(* What the ledger promises: every request takes effect at most once, in a *)
(* single step, on balances that are what they are at that very moment.    *)
(* There are no locks, no copies and no partial effects.                   *)
(***************************************************************************)
EXTENDS Movements

CONSTANTS Requests, Absent, Nothing

VARIABLES
    profile,   \* account -> currency and status, or Absent
    balance,   \* account -> money on it
    applied    \* request -> the movement it made, or Nothing

vars == <<profile, balance, applied>>

Init ==
    /\ profile = [a \in Accounts |-> Absent]
    /\ balance = [a \in Accounts |-> 0]
    /\ applied = [r \in Requests |-> Nothing]

Open(a, p) ==
    /\ profile[a] = Absent
    /\ profile' = [profile EXCEPT ![a] = p]
    /\ UNCHANGED <<balance, applied>>

Apply(r, m) ==
    /\ applied[r] = Nothing
    /\ m.from # m.to
    /\ Acceptable(m, {a \in Rows(m) : profile[a] # Absent}, profile, balance)
    /\ balance' = [a \in Accounts |-> balance[a] + Delta(m, a)]
    /\ applied' = [applied EXCEPT ![r] = m]
    /\ UNCHANGED profile

Next ==
    \/ \E a \in Accounts, p \in Profiles : Open(a, p)
    \/ \E r \in Requests, m \in Movements : Apply(r, m)

Spec == Init /\ [][Next]_vars
=============================================================================

------------------------------- MODULE Ledger -------------------------------
(***************************************************************************)
(* Concurrent deposits, withdrawals and transfers over PostgreSQL.         *)
(*                                                                         *)
(* A request runs inside one READ COMMITTED database transaction: one      *)
(* SELECT ... FOR UPDATE that locks the account rows in id order, checks   *)
(* on the loaded entities in JavaScript, the writes of the balances, the   *)
(* journal lines, the transaction row and the outbox row, and COMMIT.      *)
(* Until COMMIT the writes are seen by nobody else, so they are a private  *)
(* `copy' here; a lost connection, a database error or a dead process      *)
(* rolls them back.                                                        *)
(***************************************************************************)
EXTENDS Movements

CONSTANTS
    Requests,   \* calls of a service method, each made once
    Absent,     \* no account row
    Nothing,    \* no movement
    Free        \* nobody holds the row lock

ASSUME DistinguishedAssumption ==
    /\ Absent \notin Profiles
    /\ Nothing \notin Movements
    /\ Free \notin Requests

VARIABLES
    profile,    \* accounts.currency and .status, or Absent
    balance,    \* accounts.balance, committed
    posted,     \* sum of the committed ledger_entries of the account
    entries,    \* request -> committed ledger_entries of its transaction
    completed,  \* requests whose transactions row is committed, COMPLETED
    outbox,     \* requests whose outbox_events row is committed, pending
    lock,       \* account -> the request that holds its row lock, or Free
    stage,      \* request -> where its service method is
    movement,   \* request -> its body, or Nothing before it is made
    found,      \* request -> account rows that its SELECT saw
    copy        \* request -> account -> balance on the loaded entity

tables == <<profile, balance, posted, entries, completed, outbox>>
vars == <<profile, balance, posted, entries, completed, outbox,
          lock, stage, movement, found, copy>>

Ended == {"committed", "rejected", "failed"}
Stages == {"idle", "locking", "written"} \cup Ended

NoCopy == [a \in Accounts |-> 0]

Held(r) == {a \in Accounts : lock[a] = r}

Init ==
    /\ profile = [a \in Accounts |-> Absent]
    /\ balance = [a \in Accounts |-> 0]
    /\ posted = [a \in Accounts |-> 0]
    /\ entries = [r \in Requests |-> {}]
    /\ completed = {}
    /\ outbox = {}
    /\ lock = [a \in Accounts |-> Free]
    /\ stage = [r \in Requests |-> "idle"]
    /\ movement = [r \in Requests |-> Nothing]
    /\ found = [r \in Requests |-> {}]
    /\ copy = [r \in Requests |-> NoCopy]

\* Mutant of NextRow: rows are locked as the arguments come, not ORDER BY id.
NextRowFromFirst(r, a) ==
    /\ stage[r] = "locking"
    /\ a \in found[r] \ Held(r)
    /\ movement[r].from \in found[r] \ Held(r) => a = movement[r].from

\* The row that the SELECT of r is to lock next, or is waiting for.
NextRow(r, a) ==
    /\ stage[r] = "locking"
    /\ a \in found[r] \ Held(r)
    /\ \A b \in found[r] \ Held(r) : a <= b

\* POST /accounts: the only statement that ever writes currency and status.
CreateAccount(a, p) ==
    /\ profile[a] = Absent
    /\ profile' = [profile EXCEPT ![a] = p]
    /\ UNCHANGED <<balance, posted, entries, completed, outbox,
                   lock, stage, movement, found, copy>>

(***************************************************************************)
(* A service method is called.  A transfer to the same account is refused  *)
(* before any database work; otherwise BEGIN, and the SELECT takes its     *)
(* snapshot: a row inserted later is not found however long it waits.      *)
(***************************************************************************)
Begin(r, m) ==
    /\ stage[r] = "idle"
    /\ movement' = [movement EXCEPT ![r] = m]
    /\ IF m.from = m.to
       THEN /\ stage' = [stage EXCEPT ![r] = "rejected"]
            /\ UNCHANGED found
       ELSE /\ stage' = [stage EXCEPT ![r] = "locking"]
            /\ found' = [found EXCEPT
                           ![r] = {a \in Rows(m) : profile[a] # Absent}]
    /\ UNCHANGED <<tables, lock, copy>>

\* Mutant of LockRow: SELECT without FOR UPDATE, nobody is waited for.
LockRowUnlocked(r, a) ==
    /\ NextRow(r, a)
    /\ lock' = [lock EXCEPT ![a] = r]
    /\ copy' = [copy EXCEPT ![r][a] = balance[a]]
    /\ UNCHANGED <<tables, stage, movement, found>>

(***************************************************************************)
(* The SELECT locks its next row, in ORDER BY id, waiting while another    *)
(* request holds it; with the lock it re-reads the latest committed row.   *)
(***************************************************************************)
LockRow(r, a) ==
    /\ NextRow(r, a)
    /\ lock[a] = Free
    /\ lock' = [lock EXCEPT ![a] = r]
    /\ copy' = [copy EXCEPT ![r][a] = balance[a]]
    /\ UNCHANGED <<tables, stage, movement, found>>

\* Mutant of Finish: the connection is not released, nor are its row locks.
FinishKeepingLocks(r, answer) ==
    /\ stage' = [stage EXCEPT ![r] = answer]
    /\ found' = [found EXCEPT ![r] = {}]
    /\ copy' = [copy EXCEPT ![r] = NoCopy]
    /\ UNCHANGED <<movement, lock>>

\* The transaction of r is over: its locks go, its entities are dropped.
Finish(r, answer) ==
    /\ lock' = [a \in Accounts |-> IF lock[a] = r THEN Free ELSE lock[a]]
    /\ stage' = [stage EXCEPT ![r] = answer]
    /\ found' = [found EXCEPT ![r] = {}]
    /\ copy' = [copy EXCEPT ![r] = NoCopy]
    /\ UNCHANGED movement

Loaded(r) ==
    /\ stage[r] = "locking"
    /\ found[r] \subseteq Held(r)

\* Mutant of Passes: only the funds are checked, not status and currency.
PassesOnFunds(r) ==
    movement[r].from \in Accounts =>
      copy[r][movement[r].from] >= movement[r].amount

Passes(r) == Acceptable(movement[r], found[r], profile, copy[r])

\* A row is missing, blocked, of another currency, or short of funds.
Reject(r) ==
    /\ Loaded(r)
    /\ ~Passes(r)
    /\ Finish(r, "rejected")
    /\ UNCHANGED tables

\* Mutant of Moved: both sides of a movement are increased.
MovedUp(r, a) == Num(copy[r][a] + movement[r].amount)

\* balance += amount and balance -= amount, on JavaScript numbers.
Moved(r, a) == Num(copy[r][a] + Delta(movement[r], a))

\* What the INSERTs and UPDATEs need: bigint columns, a balanced journal.
Storable(r) ==
    /\ movement[r].amount <= BalanceCap
    /\ \A a \in found[r] : Moved(r, a) <= BalanceCap
    /\ Balanced(Lines(movement[r]))

\* Mutant of Write: the outbox row is saved outside the transaction.
WriteOutboxAside(r) ==
    /\ Loaded(r)
    /\ Passes(r)
    /\ Storable(r)
    /\ copy' = [copy EXCEPT ![r] = [a \in Accounts |->
                  IF a \in found[r] THEN Moved(r, a) ELSE 0]]
    /\ stage' = [stage EXCEPT ![r] = "written"]
    /\ outbox' = outbox \cup {r}
    /\ UNCHANGED <<profile, balance, posted, entries, completed,
                   lock, movement, found>>

\* All the writes of the method, through the transaction's own manager.
Write(r) ==
    /\ Loaded(r)
    /\ Passes(r)
    /\ Storable(r)
    /\ copy' = [copy EXCEPT ![r] = [a \in Accounts |->
                  IF a \in found[r] THEN Moved(r, a) ELSE 0]]
    /\ stage' = [stage EXCEPT ![r] = "written"]
    /\ UNCHANGED <<tables, lock, movement, found>>

\* A write is refused (bigint out of range, or unbalanced): ROLLBACK.
Refuse(r) ==
    /\ Loaded(r)
    /\ Passes(r)
    /\ ~Storable(r)
    /\ Finish(r, "failed")
    /\ UNCHANGED tables

(***************************************************************************)
(* COMMIT publishes everything at once.  The connection may be lost before *)
(* the acknowledgement arrives: the caller then gets an error for a        *)
(* movement that happened.                                                 *)
(***************************************************************************)
Commit(r, answer) ==
    /\ stage[r] = "written"
    /\ balance' = [a \in Accounts |->
                     IF a \in found[r] THEN copy[r][a] ELSE balance[a]]
    /\ posted' = [a \in Accounts |-> posted[a] + Delta(movement[r], a)]
    /\ entries' = [entries EXCEPT ![r] = Lines(movement[r])]
    /\ completed' = completed \cup {r}
    /\ outbox' = outbox \cup {r}
    /\ Finish(r, answer)
    /\ UNCHANGED profile

\* Any statement may fail, or the process die: the database rolls back.
Abort(r) ==
    /\ stage[r] \in {"locking", "written"}
    /\ Finish(r, "failed")
    /\ UNCHANGED tables

Next ==
    \/ \E a \in Accounts, p \in Profiles : CreateAccount(a, p)
    \/ \E r \in Requests, m \in Movements : Begin(r, m)
    \/ \E r \in Requests, a \in Accounts : LockRow(r, a)
    \/ \E r \in Requests : Reject(r) \/ Write(r) \/ Refuse(r) \/ Abort(r)
    \/ \E r \in Requests, answer \in {"committed", "failed"} :
         Commit(r, answer)

Spec == Init /\ [][Next]_vars

\* The database and the event loop go on; nobody has to call, or to fail.
Fairness ==
    \A r \in Requests :
      /\ WF_vars(\E a \in Accounts : LockRow(r, a))
      /\ WF_vars(Reject(r))
      /\ WF_vars(Write(r))
      /\ WF_vars(Refuse(r))
      /\ WF_vars(Commit(r, "committed"))

FairSpec == Spec /\ Fairness
-----------------------------------------------------------------------------
TypeOK ==
    /\ profile \in [Accounts -> Profiles \cup {Absent}]
    /\ balance \in [Accounts -> Int]
    /\ posted \in [Accounts -> Int]
    /\ entries \in [Requests -> SUBSET [account : Parties, amount : Nat,
                                        type : {"debit", "credit"}]]
    /\ completed \subseteq Requests
    /\ outbox \subseteq Requests
    /\ lock \in [Accounts -> Requests \cup {Free}]
    /\ stage \in [Requests -> Stages]
    /\ movement \in [Requests -> Movements \cup {Nothing}]
    /\ found \in [Requests -> SUBSET Accounts]
    /\ copy \in [Requests -> [Accounts -> Int]]

(***************************************************************************)
(* "no negative balances": neither the stored balance nor the journal of   *)
(* an account ever goes below zero, however withdrawals interleave.        *)
(***************************************************************************)
NoOverdraft == \A a \in Accounts : balance[a] >= 0 /\ posted[a] >= 0

(***************************************************************************)
(* "no balance mutation without matching ledger entries": the balance      *)
(* column equals what reconciliation sums up from ledger_entries.          *)
(***************************************************************************)
BalanceMatchesLedger == \A a \in Accounts : balance[a] = posted[a]

(***************************************************************************)
(* The running sum `posted' is the sum over the committed ledger_entries   *)
(* that the reconciliation query computes: credits minus debits.           *)
(***************************************************************************)
LinesOf(a, type) ==
    {x \in Requests \X UNION {entries[r] : r \in Requests} :
        x[2] \in entries[x[1]] /\ x[2].account = a /\ x[2].type = type}

SumOf(a, type) == MapThenSumSet(LAMBDA x : x[2].amount, LinesOf(a, type))

PostedIsTheSum ==
    \A a \in Accounts : posted[a] = SumOf(a, "credit") - SumOf(a, "debit")

(***************************************************************************)
(* A request leaves all of its rows or none: the COMPLETED transaction,    *)
(* the two balanced journal lines and the outbox row come together; a      *)
(* request answered with success left them, a rejected one did not.        *)
(***************************************************************************)
AllOrNothing ==
    \A r \in Requests :
      /\ r \in completed <=> r \in outbox
      /\ r \in completed <=> entries[r] # {}
      /\ r \in completed =>
           /\ entries[r] = Lines(movement[r])
           /\ Balanced(entries[r])
      /\ stage[r] = "committed" => r \in completed
      /\ stage[r] = "rejected" => r \notin completed

(***************************************************************************)
(* Row locks are taken in the order of the account ids, so requests never  *)
(* wait for each other in a circle: transfers back and forth between two   *)
(* accounts, or around a ring of them, do not end in a deadlock that the   *)
(* database has to break.                                                  *)
(***************************************************************************)
WaitsFor(r, s) == \E a \in Accounts : NextRow(r, a) /\ lock[a] = s

NoCircularWait ==
    \A R \in (SUBSET Requests) \ {{}} :
      \E r \in R : \A s \in R : ~WaitsFor(r, s)

(***************************************************************************)
(* While a request is running, one of them can go on without an error or   *)
(* a rollback: whoever waits for a row waits, in the end, for somebody who *)
(* does not wait, and no row stays locked by a request that is over.       *)
(***************************************************************************)
GoesOn(r) ==
    \/ stage[r] = "written"
    \/ Loaded(r)
    \/ \E a \in Accounts : NextRow(r, a) /\ lock[a] = Free

SomeoneGoesOn ==
    (\E r \in Requests : stage[r] \in {"locking", "written"}) =>
      \E r \in Requests : GoesOn(r)

(***************************************************************************)
(* What a request decided on the entities it loaded still stands when it   *)
(* commits: a loaded balance is the committed one as long as the request   *)
(* lasts, and a written one is that balance moved once, with every check   *)
(* still true of the committed rows (no lost update, no stale check).      *)
(***************************************************************************)
DecisionsStand ==
    \A r \in Requests :
      /\ stage[r] = "locking" =>
           \A a \in Held(r) : copy[r][a] = balance[a]
      /\ stage[r] = "written" =>
           /\ Acceptable(movement[r], found[r], profile, balance)
           /\ \A a \in found[r] :
                copy[r][a] = Num(balance[a] + Delta(movement[r], a))

(***************************************************************************)
(* The ledger implements the atomic one: a commit is the single moment at  *)
(* which a request takes effect, on balances that are current then.        *)
(***************************************************************************)
Applied == [r \in Requests |->
              IF r \in completed THEN movement[r] ELSE Nothing]

Atomic == INSTANCE AtomicLedger WITH applied <- Applied

ImplementsAtomic == Atomic!Spec

(***************************************************************************)
(* Every request that starts its database transaction gets an answer: row  *)
(* locks are always released and nobody waits forever.                     *)
(***************************************************************************)
EveryRequestAnswered ==
    \A r \in Requests : stage[r] = "locking" ~> stage[r] \in Ended
=============================================================================

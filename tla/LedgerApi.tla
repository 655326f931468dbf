------------------------------ MODULE LedgerApi ------------------------------
(***************************************************************************)
(* POST /transactions/{deposit,withdraw,transfer} as a whole: the          *)
(* idempotency wrapper of TransactionsController around a service method   *)
(* that runs its own database transaction.  The operation, one step in     *)
(* Idempotency, is here a request of Ledger, with its locks and checks,    *)
(* that other calls interleave with; what the wrapper is told of it is     *)
(* what its database transaction came to.                                  *)
(***************************************************************************)
EXTENDS Integers, FiniteSets

CONSTANTS
    Keys, Calls, Overlap, MaxFaults, Errors, NoRow, NoBody,
    AccountCount, External, Currencies, BalanceCap, ExactLimit,
    Absent, Nothing, Free,
    Payloads,    \* request bodies: the movements they ask for
    Accepts      \* key -> the bodies that its endpoint takes

ASSUME AcceptsAssumption == Accepts \in [Keys -> SUBSET Payloads]

VARIABLES
    record, stage, request, branch, outcome, loaded, answer, faults,
    profile, balance, posted, entries, completed, outbox,
    lock, phase, movement, found, copy

wrapper == <<record, stage, request, branch, outcome, loaded, answer, faults>>
ledger == <<profile, balance, posted, entries, completed, outbox,
            lock, phase, movement, found, copy>>
vars == <<wrapper, ledger>>

\* What has moved is what the ledger has committed.
Service == INSTANCE Idempotency WITH moved <- completed

Ledger == INSTANCE Ledger WITH
            Requests <- Calls, Movements <- Payloads, stage <- phase

\* What the two parts assume of their constants.
ASSUME ServiceAssumption ==
    /\ Overlap \in BOOLEAN /\ MaxFaults \in Nat
    /\ NoBody \notin Calls \cup Errors /\ Calls \cap Errors = {}
    /\ NoRow \notin Service!Rows \cup Service!Requests

ASSUME LedgerAssumption ==
    /\ {AccountCount, BalanceCap, ExactLimit} \subseteq Nat
    /\ External \notin Ledger!Accounts
    /\ Payloads \subseteq
         [from : Ledger!Parties, to : Ledger!Parties, amount : Nat \ {0},
          currency : Currencies]
    /\ \A m \in Payloads :
         /\ Ledger!Rows(m) # {}
         /\ Ledger!Num(m.amount) = m.amount
    /\ Absent \notin Ledger!Profiles
    /\ Nothing \notin Payloads
    /\ Free \notin Calls

Init == Service!Init /\ Ledger!Init

CreateAccount ==
    /\ \E a \in Ledger!Accounts, p \in Ledger!Profiles :
         Ledger!CreateAccount(a, p)
    /\ UNCHANGED wrapper

\* The client calls an endpoint, with a body that the endpoint takes.
Call(c) ==
    /\ \E k \in Keys : \E p \in Accepts[k] : Service!Call(c, k, p)
    /\ UNCHANGED ledger

\* The calls that execute makes of its own, before and after the operation.
Wrap(c) ==
    /\ \/ Service!Find(c) \/ Service!Update(c) \/ Service!Insert(c)
       \/ Service!FindDuplicate(c) \/ Service!FindOneOrFail(c)
       \/ Service!Load(c) \/ Service!Save(c)
    /\ UNCHANGED ledger

Operating(c) == stage[c] = "operation"

\* The operation returned: its result is to be saved.
Returns(c) == Service!Operate(c, Service!Completed(c))

\* The operation threw, and its database transaction is rolled back.
Throws(c) == \E e \in Errors : Service!Operate(c, Service!Failed(e))

\* The service method begins; a transfer to the same account is refused.
Begin(c) ==
    /\ Operating(c)
    /\ Ledger!Begin(c, Service!Hash(c))
    /\ IF phase'[c] = "rejected" THEN Throws(c) ELSE UNCHANGED wrapper

Work(c) ==
    /\ Ledger!Write(c) \/ \E a \in Ledger!Accounts : Ledger!LockRow(c, a)
    /\ UNCHANGED wrapper

Commit(c) == Ledger!Commit(c, "committed") /\ Returns(c)

Reject(c) == (Ledger!Reject(c) \/ Ledger!Refuse(c)) /\ Throws(c)

\* A statement of the operation fails, and ROLLBACK follows.
Abort(c) == Ledger!Abort(c) /\ Throws(c)

\* The acknowledgement of COMMIT is lost: the operation throws all the same.
LoseCommit(c) == Ledger!Commit(c, "failed") /\ Service!Throw(c, TRUE)

\* A call that execute makes of its own throws.
Throw(c) ==
    /\ ~Operating(c)
    /\ \E took \in BOOLEAN : Service!Throw(c, took)
    /\ UNCHANGED ledger

\* The process dies; the database rolls back what it has open.
Die(c) ==
    /\ Service!Die(c)
    /\ IF phase[c] \in {"locking", "written"} THEN Ledger!Abort(c)
       ELSE UNCHANGED ledger

Step(c) ==
    Wrap(c) \/ Begin(c) \/ Work(c) \/ Commit(c) \/ Reject(c)

Next ==
    \/ CreateAccount
    \/ \E c \in Calls : Call(c) \/ Step(c)
    \/ \E c \in Calls : Abort(c) \/ LoseCommit(c) \/ Throw(c) \/ Die(c)

Spec == Init /\ [][Next]_vars

\* A live process goes on; nobody has to call, to create or to fail.
FairSpec == Spec /\ \A c \in Calls : WF_vars(Step(c))
-----------------------------------------------------------------------------
(***************************************************************************)
(* "retries must not duplicate money movement", of the balances            *)
(* themselves: the API is the atomic ledger whose requests are the keys.   *)
(* However often a key is sent, its movement is applied once, in a single  *)
(* step, by the checks and on the balances of that moment.                 *)
(***************************************************************************)
MovedFor(k) == {c \in completed : request[c].key = k}

Applied == [k \in Keys |-> IF MovedFor(k) = {} THEN Nothing
                           ELSE request[CHOOSE c \in MovedFor(k) : TRUE].payload]

PerKey == INSTANCE AtomicLedger WITH
            Requests <- Keys, Movements <- Payloads, applied <- Applied

KeysAreRequests == PerKey!Spec

(***************************************************************************)
(* Only one thing can break this between calls that do not overlap: a      *)
(* committed movement whose result is lost, because the commit, or saving  *)
(* COMPLETED, is reported as an error.  Movements that are rolled back,    *)
(* calls that die at any point and all other errors are safe to retry.     *)
(***************************************************************************)
ResultLost == \E c \in completed : outcome[c].status = "failed"

AtomicUnlessLost ==
    PerKey!Init /\ [][PerKey!Next \/ ResultLost]_(PerKey!vars)

(***************************************************************************)
(* Whatever fails, and however calls overlap: behind every 2xx, replayed   *)
(* ones included, there is a COMPLETED transaction of exactly this body,   *)
(* with its two journal lines and its outbox row.                          *)
(***************************************************************************)
SuccessIsRecorded ==
    \A c \in Calls : answer[c].kind = "ok" =>
      \E d \in completed :
        /\ request[d] = request[c]
        /\ d \in outbox
        /\ entries[d] = Ledger!Lines(request[c].payload)

(***************************************************************************)
(* Every call is answered: it waits for row locks that other calls hold,   *)
(* whatever these other calls are doing around their own operations, and   *)
(* gives its connection back before it saves its result.                   *)
(***************************************************************************)
EveryCallAnswered ==
    \A c \in Calls : stage[c] = "findOne" ~> stage[c] \in {"ended", "dead"}

(***************************************************************************)
(* Until the first fault every call is answered as OncePerKey promises,    *)
(* the ledger's commits being the effects.                                 *)
(***************************************************************************)
RepliesAreKept == Service!ImplementsOncePerKey
=============================================================================

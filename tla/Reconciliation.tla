---------------------------- MODULE Reconciliation ----------------------------
(***************************************************************************)
(* ReconciliationService.runReconciliation, started by a timer on every    *)
(* API instance: the run row, two queries over the ledger that each see    *)
(* their own snapshot, the issues, and the closing update.  The ledger is  *)
(* reduced to what the queries tell apart: which accounts differ from      *)
(* their journal, and which transactions do not balance.                   *)
(***************************************************************************)
EXTENDS Integers, FiniteSets

CONSTANTS
    Accounts, Transactions,
    Instances,    \* API processes
    MaxRuns,      \* how many run rows are considered
    MaxChanges,   \* how often the ledger may go wrong or be put right
    MaxErrors,    \* how many database calls may throw
    MaxCrashes    \* how many processes may die

ASSUME BoundsAssumption ==
    {MaxRuns, MaxChanges, MaxErrors, MaxCrashes} \subseteq Nat

ASSUME FiniteAssumption == IsFiniteSet(Accounts) /\ IsFiniteSet(Transactions)

VARIABLES
    wrong,     \* accounts and transactions that do not reconcile now
    runs,      \* the reconciliation_runs rows, oldest first, with issues
    process,   \* instance -> where runReconciliation is
    running,   \* instance -> its `running' flag
    changes, errors, crashes

vars == <<wrong, runs, process, running, changes, errors, crashes>>

Subjects == Accounts \cup Transactions
RunIds == 1..MaxRuns
NoRun == [status |-> "absent", total |-> 0, closed |-> FALSE, issues |-> {}]
Rows == [status : {"absent", "completed", "failed"}, total : Nat,
         closed : BOOLEAN, issues : SUBSET Subjects]

\* ever and always are history: what was wrong at some moment of the run, and
\* what has been wrong throughout it.
Idle == [at |-> "idle", run |-> 0, asked |-> {}, found |-> {},
         ever |-> {}, always |-> {}]
Opened(n) == [Idle EXCEPT !.at = "query", !.run = n,
                          !.ever = wrong, !.always = wrong]

Init ==
    /\ wrong = {}
    /\ runs = [n \in RunIds |-> NoRun]
    /\ process = [i \in Instances |-> Idle]
    /\ running = [i \in Instances |-> FALSE]
    /\ changes = 0 /\ errors = 0 /\ crashes = 0

At(i, step) == process[i].at = step
Examining(i) == process[i].at \in {"query", "saveIssues", "close"}

\* The ledger goes wrong, or is put right by hand.
Change(s) ==
    /\ changes < MaxChanges
    /\ changes' = changes + 1
    /\ wrong' = (wrong \ {s}) \cup ({s} \ wrong)
    /\ process' = [i \in Instances |->
         IF Examining(i)
         THEN [process[i] EXCEPT !.ever = @ \cup wrong',
                                 !.always = @ \cap wrong']
         ELSE process[i]]
    /\ UNCHANGED <<runs, running, errors, crashes>>

Goto(i, step) == process' = [process EXCEPT ![i].at = step]

\* The timer fires; a run that is still going on makes it skip.
Start(i) ==
    /\ ~running[i]
    /\ running' = [running EXCEPT ![i] = TRUE]
    /\ Goto(i, "saveRun")
    /\ UNCHANGED <<wrong, runs, changes, errors, crashes>>

Unused == {n \in RunIds : runs[n].status = "absent"}

\* The row of a new run: status COMPLETED before anything is examined.
AddRow(n) ==
    /\ n \in Unused /\ \A m \in Unused : n <= m
    /\ runs' = [runs EXCEPT ![n].status = "completed"]

\* Mutant of SaveRun: a run row that is still open is continued.
SaveRunContinuing(i, n) ==
    /\ At(i, "saveRun")
    /\ n \in Unused => \A m \in Unused : n <= m
    /\ ~runs[n].closed
    /\ runs' = [runs EXCEPT ![n].status = "completed"]
    /\ process' = [process EXCEPT ![i] = Opened(n)]
    /\ UNCHANGED <<wrong, running, changes, errors, crashes>>

SaveRun(i, n) ==
    /\ At(i, "saveRun")
    /\ AddRow(n)
    /\ process' = [process EXCEPT ![i] = Opened(n)]
    /\ UNCHANGED <<wrong, running, changes, errors, crashes>>

\* Mutant of Query: what the first query has found is enough.
QueryUntilFound(i, subjects) ==
    /\ At(i, "query")
    /\ subjects \in {Accounts, Transactions} \ process[i].asked
    /\ LET asked == process[i].asked \cup {subjects}
           found == process[i].found \cup (wrong \cap subjects)
           step == IF found # {} THEN "saveIssues"
                   ELSE IF asked # {Accounts, Transactions} THEN "query"
                   ELSE "close"
       IN process' = [process EXCEPT ![i] =
            [@ EXCEPT !.at = step, !.asked = asked, !.found = found]]
    /\ UNCHANGED <<wrong, runs, running, changes, errors, crashes>>

(***************************************************************************)
(* findAccountBalanceMismatches or findUnbalancedTransactions: one SQL     *)
(* statement each, side by side, so each is atomic and sees its own state. *)
(***************************************************************************)
Query(i, subjects) ==
    /\ At(i, "query")
    /\ subjects \in {Accounts, Transactions} \ process[i].asked
    /\ LET asked == process[i].asked \cup {subjects}
           found == process[i].found \cup (wrong \cap subjects)
           step == IF asked # {Accounts, Transactions} THEN "query"
                   ELSE IF found = {} THEN "close" ELSE "saveIssues"
       IN process' = [process EXCEPT ![i] =
            [@ EXCEPT !.at = step, !.asked = asked, !.found = found]]
    /\ UNCHANGED <<wrong, runs, running, changes, errors, crashes>>

\* The row of process i is overwritten.
Put(i, row) == runs' = [runs EXCEPT ![process[i].run] = row]

\* Mutant of Listed: the issues are saved as one row.
ListedNested(i) == [runs[process[i].run] EXCEPT !.issues = {process[i].found}]

\* The run with its issues.
Listed(i) == [runs[process[i].run] EXCEPT !.issues = process[i].found]

SaveIssues(i) ==
    /\ At(i, "saveIssues")
    /\ Put(i, Listed(i))
    /\ Goto(i, "close")
    /\ UNCHANGED <<wrong, running, changes, errors, crashes>>


Finally(i) ==
    /\ process' = [process EXCEPT ![i] = Idle]
    /\ running' = [running EXCEPT ![i] = FALSE]

\* The closing update: the count of what has been found.
Completed(i) ==
    [runs[process[i].run] EXCEPT !.status = "completed", !.closed = TRUE,
                                 !.total = Cardinality(process[i].found)]

Complete(i) ==
    /\ At(i, "close")
    /\ Put(i, Completed(i))
    /\ Finally(i)
    /\ UNCHANGED <<wrong, changes, errors, crashes>>

\* Mutant of Failed: the row is closed with the status it was created with.
FailedUnmarked(i) == [runs[process[i].run] EXCEPT !.closed = TRUE]

\* The update of the catch block, which leaves totalIssues as it is.
Failed(i) ==
    [runs[process[i].run] EXCEPT !.status = "failed", !.closed = TRUE]

Fail(i) ==
    /\ At(i, "catch")
    /\ Put(i, Failed(i))
    /\ Finally(i)
    /\ UNCHANGED <<wrong, changes, errors, crashes>>

\* The catch block knows its run row, and nothing of what was found.
Catching(i) == [Idle EXCEPT !.at = "catch", !.run = process[i].run]

\* The process is gone, and restarted with a fresh flag.
Restart(i) ==
    /\ process' = [process EXCEPT ![i] = Idle]
    /\ running' = [running EXCEPT ![i] = FALSE]

(***************************************************************************)
(* A call throws, before it takes effect or after: a write may have been   *)
(* committed and its acknowledgement lost.  Inside the try block it is     *)
(* caught; from the first save and from the catch block it leaves          *)
(* runReconciliation, which the timer calls without awaiting it: an        *)
(* unhandled rejection ends the process.                                   *)
(***************************************************************************)
Throw(i) ==
    /\ ~At(i, "idle")
    /\ errors < MaxErrors
    /\ errors' = errors + 1
    /\ \/ UNCHANGED runs
       \/ At(i, "saveRun") /\ \E n \in RunIds : AddRow(n)
       \/ At(i, "saveIssues") /\ Put(i, Listed(i))
       \/ At(i, "close") /\ Put(i, Completed(i))
       \/ At(i, "catch") /\ Put(i, Failed(i))
    /\ IF process[i].at \in {"saveRun", "catch"}
       THEN Restart(i)
       ELSE /\ process' = [process EXCEPT ![i] = Catching(i)]
            /\ UNCHANGED running
    /\ UNCHANGED <<wrong, changes, crashes>>

Crash(i) ==
    /\ crashes < MaxCrashes
    /\ crashes' = crashes + 1
    /\ Restart(i)
    /\ UNCHANGED <<wrong, runs, changes, errors>>

Step(i) ==
    \/ \E n \in RunIds : SaveRun(i, n)
    \/ \E subjects \in {Accounts, Transactions} : Query(i, subjects)
    \/ SaveIssues(i) \/ Complete(i) \/ Fail(i)

Next ==
    \/ \E s \in Subjects : Change(s)
    \/ \E i \in Instances : Start(i) \/ Step(i) \/ Throw(i) \/ Crash(i)

Spec == Init /\ [][Next]_vars

\* The timer keeps firing, and a live process goes on with its run.
FairSpec == Spec /\ \A i \in Instances : WF_vars(Start(i)) /\ WF_vars(Step(i))
-----------------------------------------------------------------------------
TypeOK ==
    /\ wrong \subseteq Subjects
    /\ runs \in [RunIds -> Rows]
    /\ running \in [Instances -> BOOLEAN]
    /\ \A i \in Instances : process[i].run \in 0..MaxRuns

(***************************************************************************)
(* A closed COMPLETED run counts exactly the issues stored with it; any    *)
(* other run counts those stored with it or none, never some of them.      *)
(***************************************************************************)
TotalsAddUp ==
    \A n \in RunIds :
      /\ runs[n].total \in {0, Cardinality(runs[n].issues)}
      /\ runs[n].closed /\ runs[n].status = "completed" =>
           runs[n].total = Cardinality(runs[n].issues)

(***************************************************************************)
(* An instance runs at most one reconciliation, and no run row is worked   *)
(* on by two: an open run belongs to one process, or was abandoned.  A row *)
(* that is closed is touched once more only by the catch block of the run  *)
(* that has closed it.                                                     *)
(***************************************************************************)
RunsAreSeparate ==
    \A i, j \in Instances :
      /\ ~At(i, "idle") <=> running[i]
      /\ i # j /\ process[i].run # 0 => process[i].run # process[j].run
      /\ process[i].run # 0 /\ runs[process[i].run].closed => At(i, "catch")

(***************************************************************************)
(* The two queries see different snapshots of a ledger in motion; still a  *)
(* run neither invents nor overlooks anything: what it is about to close   *)
(* with was wrong at some moment of the run, and what has been wrong all   *)
(* through the run is among it.                                            *)
(***************************************************************************)
IssuesAreTrue ==
    \A i \in Instances :
      At(i, "close") =>
        /\ runs[process[i].run].issues \subseteq process[i].ever
        /\ process[i].always \subseteq runs[process[i].run].issues

(***************************************************************************)
(* "audit jobs can detect ledger or balance inconsistencies": what stays   *)
(* wrong is reported by a completed run, whatever single calls throw and   *)
(* whichever process dies, unless the bound on runs is used up.            *)
(***************************************************************************)
Reported(s) ==
    \E n \in RunIds : /\ runs[n].status = "completed" /\ runs[n].closed
                      /\ s \in runs[n].issues

=============================================================================

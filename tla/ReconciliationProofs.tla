------------------------- MODULE ReconciliationProofs -------------------------
(***************************************************************************)
(* Theorems of Reconciliation for every number of instances, runs,         *)
(* accounts and transactions, and for any number of changes, errors and    *)
(* crashes.  Inv ties the run row that a process works on to where the     *)
(* process is: which queries it has asked, what they found, and what of it *)
(* is stored.                                                              *)
(***************************************************************************)
EXTENDS Reconciliation, FiniteSetTheorems, TLAPS

Processes ==
    [at : {"idle", "saveRun", "query", "saveIssues", "close", "catch"},
     run : 0..MaxRuns, asked : SUBSET {Accounts, Transactions},
     found : SUBSET Subjects, ever : SUBSET Subjects, always : SUBSET Subjects]

Typed == TypeOK /\ process \in [Instances -> Processes]

\* A row that is not written yet is empty.
Blank == \A n \in RunIds : runs[n].status = "absent" => runs[n] = NoRun

\* The flag is set as long as the process is busy.
Flagged == \A i \in Instances : ~At(i, "idle") <=> running[i]

\* A process has a run row from its first save to the end of its run.
Staged ==
    \A i \in Instances :
      process[i].run = 0 <=> process[i].at \in {"idle", "saveRun"}

\* The row belongs to one process, and is as SaveRun has written it but for
\* its issues; a closing update whose acknowledgement is lost leads to the
\* catch block with the row closed.
Owned ==
    \A i \in Instances : process[i].run # 0 =>
      /\ runs[process[i].run].status = "completed"
      /\ ~At(i, "catch") => ~runs[process[i].run].closed
                            /\ runs[process[i].run].total = 0
      /\ \A j \in Instances : i # j => process[i].run # process[j].run

\* What is stored at each stage, and which queries have been asked.
Stored ==
    \A i \in Instances :
      /\ process[i].at \in {"query", "saveIssues"} =>
           runs[process[i].run].issues = {}
      /\ At(i, "close") => runs[process[i].run].issues = process[i].found
      /\ process[i].at \in {"saveIssues", "close"} =>
           process[i].asked = {Accounts, Transactions}

\* What the queries found was wrong at some moment, and they have found what
\* has been wrong throughout.
Honest ==
    \A i \in Instances :
      Examining(i) =>
        /\ process[i].always \subseteq wrong /\ wrong \subseteq process[i].ever
        /\ process[i].found \subseteq process[i].ever
        /\ \A subjects \in process[i].asked :
             process[i].always \cap subjects \subseteq process[i].found

Inv == Typed /\ TotalsAddUp /\ Blank /\ Flagged /\ Staged /\ Owned /\ Stored /\ Honest

\* A write to the run rows that leaves the rows of the other processes alone.
RowsKept(i) ==
    /\ runs' \in [RunIds -> Rows]
    /\ TotalsAddUp' /\ Blank'
    /\ \A j \in Instances \ {i} : process[j].run # 0 =>
         runs'[process[j].run] = runs[process[j].run]

-----------------------------------------------------------------------------
\* The issues of a run are finitely many: their number is a number.
LEMMA CountIsNat ==
  ASSUME NEW found \in SUBSET Subjects
  PROVE  Cardinality(found) \in Nat
<1>1. IsFiniteSet(Subjects)
  BY FiniteAssumption, FS_Union DEF Subjects
<1> QED BY <1>1, FS_Subset, FS_CardinalityType

LEMMA InitInv == Init => Inv
<1> SUFFICES ASSUME Init PROVE Inv
  OBVIOUS
<1>1. Typed
  BY BoundsAssumption DEF Init, Typed, TypeOK, Rows, NoRun, Idle, Processes, RunIds
<1>2. TotalsAddUp /\ Blank
  BY DEF Init, TotalsAddUp, Blank, NoRun
<1>3. Flagged /\ Staged /\ Owned /\ Stored /\ Honest
  BY DEF Init, Flagged, Staged, Owned, Stored, Honest, Idle, At, Examining
<1> QED BY <1>1, <1>2, <1>3 DEF Inv

\* The ledger may change under every run: only the history is affected.
LEMMA ChangeInv ==
  ASSUME Inv, NEW s \in Subjects, Change(s)
  PROVE  Inv'
<1>1. wrong' \in SUBSET Subjects /\ runs' = runs /\ running' = running
  BY DEF Inv, Typed, TypeOK, Change
<1>2. \A i \in Instances :
        /\ process'[i].at = process[i].at /\ process'[i].run = process[i].run
        /\ process'[i].asked = process[i].asked
        /\ process'[i].found = process[i].found
        /\ Examining(i) =>
             /\ process'[i].ever = process[i].ever \cup wrong'
             /\ process'[i].always = process[i].always \cap wrong'
        /\ process'[i] \in Processes
  BY <1>1 DEF Inv, Typed, Processes, Change
<1>3. Typed'
  <2>1. process' \in [Instances -> Processes]
    BY <1>2 DEF Change
  <2> QED BY <1>1, <1>2, <2>1 DEF Inv, Typed, TypeOK, Processes
<1>4. TotalsAddUp' /\ Blank'
  BY <1>1 DEF Inv, TotalsAddUp, Blank
<1>5. Flagged'
  BY <1>1, <1>2 DEF Inv, Flagged, At
<1>6. Staged'
  BY <1>2 DEF Inv, Staged
<1>7. Owned'
  BY <1>1, <1>2 DEF Inv, Owned, At
<1>8. Stored'
  BY <1>1, <1>2 DEF Inv, Stored, At
<1>9. Honest'
  <2> SUFFICES ASSUME NEW i \in Instances, Examining(i)'
      PROVE  /\ process'[i].always \subseteq wrong'
             /\ wrong' \subseteq process'[i].ever
             /\ process'[i].found \subseteq process'[i].ever
             /\ \A subjects \in process'[i].asked :
                  process'[i].always \cap subjects \subseteq process'[i].found
    BY DEF Honest
  <2>1. Examining(i)
    BY <1>2 DEF Examining
  <2>2. /\ process[i].found \subseteq process[i].ever
        /\ \A subjects \in process[i].asked :
             process[i].always \cap subjects \subseteq process[i].found
    BY <2>1 DEF Inv, Honest
  <2> QED BY <1>2, <2>1, <2>2
<1> QED BY <1>3, <1>4, <1>5, <1>6, <1>7, <1>8, <1>9 DEF Inv

\* Every other action moves one process on: it is enough that this process is
\* as it should be and that the run rows of the others are left alone.
LEMMA OneProcess ==
  ASSUME Inv, NEW i \in Instances, wrong' = wrong, RowsKept(i),
         running' \in [Instances -> BOOLEAN],
         process' \in [Instances -> Processes],
         \A j \in Instances \ {i} :
           /\ process'[j] = process[j] /\ running'[j] = running[j]
           /\ process[j].run # 0 => process'[i].run # process[j].run,
         process'[i].at # "idle" <=> running'[i],
         process'[i].run = 0 <=> process'[i].at \in {"idle", "saveRun"},
         process'[i].run # 0 =>
           /\ runs'[process'[i].run].status = "completed"
           /\ process'[i].at # "catch" => ~runs'[process'[i].run].closed
                                          /\ runs'[process'[i].run].total = 0,
         process'[i].at \in {"query", "saveIssues"} =>
           runs'[process'[i].run].issues = {},
         process'[i].at = "close" =>
           runs'[process'[i].run].issues = process'[i].found,
         process'[i].at \in {"saveIssues", "close"} =>
           process'[i].asked = {Accounts, Transactions},
         process'[i].at \in {"query", "saveIssues", "close"} =>
           /\ process'[i].always \subseteq wrong
           /\ wrong \subseteq process'[i].ever
           /\ process'[i].found \subseteq process'[i].ever
           /\ \A subjects \in process'[i].asked :
                process'[i].always \cap subjects \subseteq process'[i].found
  PROVE  Inv'
<1>1. Typed'
  BY DEF Inv, Typed, TypeOK, Processes, RowsKept
<1>2. Flagged'
  BY DEF Inv, Flagged, At
<1>3. Staged'
  BY DEF Inv, Staged
<1>4. Owned'
  <2> SUFFICES ASSUME NEW j \in Instances, process'[j].run # 0
      PROVE  /\ runs'[process'[j].run].status = "completed"
             /\ process'[j].at # "catch" => ~runs'[process'[j].run].closed
                                            /\ runs'[process'[j].run].total = 0
             /\ \A k \in Instances : j # k => process'[j].run # process'[k].run
    BY DEF Owned, At
  <2>1. CASE j = i
    BY <2>1 DEF Inv, Owned
  <2>2. CASE j # i
    BY <2>2 DEF Inv, Owned, RowsKept, At
  <2> QED BY <2>1, <2>2
<1>5. Stored'
  <2> SUFFICES ASSUME NEW j \in Instances
      PROVE  /\ process'[j].at \in {"query", "saveIssues"} =>
                  runs'[process'[j].run].issues = {}
             /\ process'[j].at = "close" =>
                  runs'[process'[j].run].issues = process'[j].found
             /\ process'[j].at \in {"saveIssues", "close"} =>
                  process'[j].asked = {Accounts, Transactions}
    BY DEF Stored, At
  <2>1. process[j].at \in {"query", "saveIssues", "close"} => process[j].run # 0
    BY DEF Inv, Staged
  <2>2. CASE j = i
    BY <2>2
  <2>3. CASE j # i
    <3>1. process'[j] = process[j]
      BY <2>3
    <3>2. process[j].run # 0 => runs'[process[j].run] = runs[process[j].run]
      BY <2>3 DEF RowsKept
    <3> QED BY <2>1, <3>1, <3>2 DEF Inv, Stored, At
  <2> QED BY <2>2, <2>3
<1>6. Honest'
  <2> SUFFICES ASSUME NEW j \in Instances,
                      process'[j].at \in {"query", "saveIssues", "close"}
      PROVE  /\ process'[j].always \subseteq wrong
             /\ wrong \subseteq process'[j].ever
             /\ process'[j].found \subseteq process'[j].ever
             /\ \A subjects \in process'[j].asked :
                  process'[j].always \cap subjects \subseteq process'[j].found
    BY DEF Honest, Examining
  <2>1. CASE j = i
    BY <2>1
  <2>2. CASE j # i
    BY <2>2 DEF Inv, Honest, Examining
  <2> QED BY <2>1, <2>2
<1> QED BY <1>1, <1>2, <1>3, <1>4, <1>5, <1>6 DEF Inv, RowsKept

\* Three ways a step treats the rows: it leaves them alone, adds one, or
\* overwrites the row of its own process.
LEMMA NoWrite ==
  ASSUME Inv, NEW i \in Instances, runs' = runs
  PROVE  RowsKept(i)
BY DEF Inv, Typed, TypeOK, TotalsAddUp, Blank, RowsKept

LEMMA NewRow ==
  ASSUME Inv, NEW i \in Instances, NEW n \in RunIds, AddRow(n)
  PROVE  /\ RowsKept(i)
         /\ runs'[n] = [NoRun EXCEPT !.status = "completed"]
         /\ \A j \in Instances : process[j].run # n
<1> DEFINE row == [NoRun EXCEPT !.status = "completed"]
<1>1. runs[n] = NoRun
  BY DEF Inv, Blank, AddRow, Unused
<1>2. /\ row \in Rows /\ row.status = "completed" /\ row.total = 0
      /\ row.closed = FALSE
  BY DEF NoRun, Rows
<1>3. runs' = [runs EXCEPT ![n] = row]
  BY <1>1 DEF AddRow
<1> HIDE DEF row
<1>4. /\ runs' \in [RunIds -> Rows] /\ runs'[n] = row
      /\ \A m \in RunIds \ {n} : runs'[m] = runs[m]
  BY <1>2, <1>3 DEF Inv, Typed, TypeOK
<1>5. TotalsAddUp' /\ Blank'
  BY <1>2, <1>4 DEF Inv, TotalsAddUp, Blank
<1>6. \A j \in Instances : process[j].run # 0 =>
        process[j].run \in RunIds /\ process[j].run # n
  BY <1>1 DEF Inv, Typed, Owned, Processes, RunIds, NoRun
<1>7. n # 0
  BY BoundsAssumption DEF RunIds
<1>8. runs'[n] = [NoRun EXCEPT !.status = "completed"]
  BY <1>4 DEF row
<1> QED BY <1>4, <1>5, <1>6, <1>7, <1>8 DEF RowsKept

LEMMA OwnRow ==
  ASSUME Inv, NEW i \in Instances, process[i].run # 0, NEW row \in Rows,
         row.status # "absent", row.total \in {0, Cardinality(row.issues)},
         row.closed /\ row.status = "completed" =>
           row.total = Cardinality(row.issues),
         Put(i, row)
  PROVE  RowsKept(i) /\ runs'[process[i].run] = row
<1> DEFINE r == process[i].run
<1>1. r \in RunIds
  BY DEF Inv, Typed, Processes, RunIds
<1>2. /\ runs' \in [RunIds -> Rows] /\ runs'[r] = row
      /\ \A n \in RunIds \ {r} : runs'[n] = runs[n]
  BY <1>1 DEF Inv, Typed, TypeOK, Put
<1>3. TotalsAddUp'
  <2> SUFFICES ASSUME NEW n \in RunIds
      PROVE  /\ runs'[n].total \in {0, Cardinality(runs'[n].issues)}
             /\ runs'[n].closed /\ runs'[n].status = "completed" =>
                  runs'[n].total = Cardinality(runs'[n].issues)
    BY DEF TotalsAddUp
  <2>1. CASE n = r
    BY <1>2, <2>1
  <2>2. CASE n # r
    BY <1>2, <2>2 DEF Inv, TotalsAddUp
  <2> QED BY <2>1, <2>2
<1>4. Blank'
  BY <1>2 DEF Inv, Blank
<1>5. \A j \in Instances \ {i} : process[j].run # 0 =>
        process[j].run \in RunIds /\ process[j].run # r
  BY DEF Inv, Typed, Owned, Processes, RunIds
<1> QED BY <1>2, <1>3, <1>4, <1>5 DEF RowsKept

\* The issues are listed in an open row, which counts none.
LEMMA ListedKeeps ==
  ASSUME Inv, NEW i \in Instances, At(i, "saveIssues"), Put(i, Listed(i))
  PROVE  /\ RowsKept(i)
         /\ runs'[process[i].run] = Listed(i)
         /\ Listed(i).status = "completed" /\ ~Listed(i).closed
         /\ Listed(i).total = 0 /\ Listed(i).issues = process[i].found
<1>1. process[i] \in Processes /\ process[i].run # 0 /\ process[i].run \in RunIds
  BY DEF Inv, Typed, Staged, At, Processes, RunIds
<1>2. /\ runs[process[i].run] \in Rows
      /\ runs[process[i].run].status = "completed"
      /\ ~runs[process[i].run].closed /\ runs[process[i].run].total = 0
  BY <1>1 DEF Inv, Typed, TypeOK, Owned, At
<1>3. /\ Listed(i) \in Rows /\ Listed(i).issues = process[i].found
      /\ Listed(i).status = "completed" /\ Listed(i).total = 0
      /\ Listed(i).closed = runs[process[i].run].closed
  BY <1>1, <1>2 DEF Listed, Rows, Processes
<1> QED BY <1>1, <1>2, <1>3, OwnRow

\* The closing update counts the issues that are stored.
LEMMA CompletedKeeps ==
  ASSUME Inv, NEW i \in Instances, At(i, "close"), Put(i, Completed(i))
  PROVE  /\ RowsKept(i)
         /\ runs'[process[i].run].status = "completed"
<1>1. process[i] \in Processes /\ process[i].run # 0 /\ process[i].run \in RunIds
  BY DEF Inv, Typed, Staged, At, Processes, RunIds
<1>2. /\ runs[process[i].run] \in Rows
      /\ runs[process[i].run].issues = process[i].found
  BY <1>1 DEF Inv, Typed, TypeOK, Stored, At
<1>3. Cardinality(process[i].found) \in Nat
  BY <1>1, CountIsNat DEF Processes
<1>4. /\ Completed(i) \in Rows /\ Completed(i).status = "completed"
      /\ Completed(i).total = Cardinality(process[i].found)
      /\ Completed(i).issues = process[i].found
  BY <1>2, <1>3 DEF Completed, Rows
<1> QED BY <1>1, <1>4, OwnRow

\* The catch block leaves the count as it is: none, or all of the issues.
LEMMA FailedKeeps ==
  ASSUME Inv, NEW i \in Instances, At(i, "catch"), Put(i, Failed(i))
  PROVE  RowsKept(i)
<1>1. process[i] \in Processes /\ process[i].run # 0 /\ process[i].run \in RunIds
  BY DEF Inv, Typed, Staged, At, Processes, RunIds
<1>2. /\ runs[process[i].run] \in Rows
      /\ runs[process[i].run].total \in {0, Cardinality(runs[process[i].run].issues)}
  BY <1>1 DEF Inv, Typed, TypeOK, TotalsAddUp
<1>3. /\ Failed(i) \in Rows /\ Failed(i).status = "failed"
      /\ Failed(i).total = runs[process[i].run].total
      /\ Failed(i).issues = runs[process[i].run].issues
  BY <1>2 DEF Failed, Rows
<1> QED BY <1>1, <1>2, <1>3, OwnRow

LEMMA StartInv ==
  ASSUME Inv, NEW i \in Instances, Start(i)
  PROVE  Inv'
<1>1. process[i] \in Processes /\ process[i].at = "idle" /\ process[i].run = 0
  BY DEF Inv, Typed, Flagged, Staged, At, Start
<1>2. process'[i] = [process[i] EXCEPT !.at = "saveRun"]
  BY <1>1 DEF Inv, Typed, Start, Goto
<1>3. process' \in [Instances -> Processes] /\ running' \in [Instances -> BOOLEAN]
  BY <1>1, <1>2 DEF Inv, Typed, TypeOK, Start, Goto, Processes
<1>4. runs' = runs /\ wrong' = wrong /\ running'[i] = TRUE
  BY DEF Inv, Typed, TypeOK, Start
<1>5. process'[i].at = "saveRun" /\ process'[i].run = 0
  BY <1>1, <1>2 DEF Processes
<1>6. \A j \in Instances \ {i} :
        process'[j] = process[j] /\ running'[j] = running[j]
  BY DEF Inv, Typed, TypeOK, Start, Goto
<1>7. RowsKept(i)
  BY <1>4, NoWrite
<1> QED BY <1>3, <1>4, <1>5, <1>6, <1>7, OneProcess

\* The row of a new run is nobody else's, and everything that is wrong now has
\* been wrong all through the run.
LEMMA SaveRunInv ==
  ASSUME Inv, NEW i \in Instances, NEW n \in RunIds, SaveRun(i, n)
  PROVE  Inv'
<1>1. process[i].at = "saveRun"
  BY DEF At, SaveRun
<1>2. n # 0 /\ n \in 0..MaxRuns
  BY BoundsAssumption DEF RunIds
<1>3. process'[i] = [at |-> "query", run |-> n, asked |-> {}, found |-> {},
                     ever |-> wrong, always |-> wrong]
  BY DEF Inv, Typed, SaveRun, Opened, Idle
<1>4. process' \in [Instances -> Processes]
  BY <1>2, <1>3 DEF Inv, Typed, TypeOK, SaveRun, Processes
<1>5. /\ RowsKept(i)
      /\ runs'[n] = [NoRun EXCEPT !.status = "completed"]
      /\ \A j \in Instances : process[j].run # n
  BY NewRow DEF SaveRun
<1>6. /\ runs'[n].status = "completed" /\ runs'[n].total = 0
      /\ ~runs'[n].closed /\ runs'[n].issues = {}
  BY <1>5 DEF NoRun
<1>7. \A j \in Instances \ {i} :
        process'[j] = process[j] /\ process'[i].run # process[j].run
  BY <1>3, <1>5 DEF Inv, Typed, SaveRun
<1>8. wrong' = wrong /\ running' = running
  BY DEF SaveRun
<1>9. running' \in [Instances -> BOOLEAN]
  BY <1>8 DEF Inv, Typed, TypeOK
<1>10. process'[i].at # "idle" <=> running'[i]
  BY <1>1, <1>3, <1>8 DEF Inv, Flagged, At
<1>11. /\ process'[i].at = "query" /\ process'[i].run = n
       /\ process'[i].asked = {} /\ process'[i].found = {}
       /\ process'[i].ever = wrong /\ process'[i].always = wrong
  BY <1>3
<1> QED
  BY <1>2, <1>4, <1>5, <1>6, <1>7, <1>8, <1>9, <1>10, <1>11, OneProcess

\* A query looks at the ledger of this moment: what it finds is wrong now, and
\* what it does not find has not been wrong throughout.
LEMMA QueryInv ==
  ASSUME Inv, NEW i \in Instances, NEW subjects \in {Accounts, Transactions},
         Query(i, subjects)
  PROVE  Inv'
<1> DEFINE p == process[i]
           asked == p.asked \cup {subjects}
           found == p.found \cup (wrong \cap subjects)
           step == IF asked # {Accounts, Transactions} THEN "query"
                   ELSE IF found = {} THEN "close" ELSE "saveIssues"
<1>1. p \in Processes /\ p.at = "query" /\ p.run # 0
  BY DEF Inv, Typed, Staged, At, Query
<1>2. wrong' = wrong /\ runs' = runs /\ running' = running
  BY DEF Query
<1>3. process' = [process EXCEPT ![i] =
        [p EXCEPT !.at = step, !.asked = asked, !.found = found]]
  BY DEF Query
<1>4. step \in {"query", "close", "saveIssues"}
      /\ (step # "query" => asked = {Accounts, Transactions})
      /\ (step = "close" => found = {})
  OBVIOUS
<1>5. asked \in SUBSET {Accounts, Transactions} /\ found \in SUBSET Subjects
  BY <1>1 DEF Processes, Subjects
<1>6. /\ p.always \subseteq wrong /\ wrong \subseteq p.ever
      /\ found \subseteq p.ever
      /\ \A s \in asked : p.always \cap s \subseteq found
  BY <1>1 DEF Inv, Honest, Examining
<1>7. runs[p.run].issues = {} /\ runs[p.run].status = "completed"
      /\ ~runs[p.run].closed /\ runs[p.run].total = 0
  BY <1>1 DEF Inv, Stored, Owned, At
<1> HIDE DEF asked, found, step
<1>8. /\ process' \in [Instances -> Processes]
      /\ process'[i].at = step /\ process'[i].asked = asked
      /\ process'[i].found = found /\ process'[i].run = p.run
      /\ process'[i].ever = p.ever /\ process'[i].always = p.always
      /\ \A j \in Instances \ {i} : process'[j] = process[j]
  BY <1>1, <1>3, <1>4, <1>5 DEF Inv, Typed, Processes
<1>9. \A j \in Instances \ {i} :
        process[j].run # 0 => process'[i].run # process[j].run
  BY <1>1, <1>8 DEF Inv, Owned
<1>10. RowsKept(i) /\ running' \in [Instances -> BOOLEAN]
  BY <1>2, NoWrite DEF Inv, Typed, TypeOK
<1>11. process'[i].at # "idle" <=> running'[i]
  BY <1>1, <1>2, <1>4, <1>8 DEF Inv, Flagged, At
<1> HIDE DEF p
<1> QED
  BY <1>1, <1>2, <1>4, <1>6, <1>7, <1>8, <1>9, <1>10, <1>11, OneProcess

LEMMA SaveIssuesInv ==
  ASSUME Inv, NEW i \in Instances, SaveIssues(i)
  PROVE  Inv'
<1> DEFINE p == process[i]
<1>1. p \in Processes /\ p.at = "saveIssues" /\ p.run # 0
  BY DEF Inv, Typed, Staged, At, SaveIssues, Processes
<1>2. wrong' = wrong /\ running' = running
      /\ process' = [process EXCEPT ![i] = [p EXCEPT !.at = "close"]]
  BY DEF SaveIssues, Goto
<1>3. /\ RowsKept(i)
      /\ runs'[p.run].status = "completed" /\ ~runs'[p.run].closed
      /\ runs'[p.run].total = 0 /\ runs'[p.run].issues = p.found
  BY ListedKeeps DEF SaveIssues
<1>4. /\ p.always \subseteq wrong /\ wrong \subseteq p.ever
      /\ p.found \subseteq p.ever
      /\ \A s \in p.asked : p.always \cap s \subseteq p.found
      /\ p.asked = {Accounts, Transactions}
  BY <1>1 DEF Inv, Honest, Stored, Examining
<1>5. /\ process' \in [Instances -> Processes]
      /\ \A j \in Instances \ {i} : process'[j] = process[j]
  BY <1>1, <1>2 DEF Inv, Typed, Processes
<1>6. /\ process'[i].at = "close" /\ process'[i].asked = p.asked
      /\ process'[i].found = p.found /\ process'[i].run = p.run
      /\ process'[i].ever = p.ever /\ process'[i].always = p.always
  BY <1>1, <1>2 DEF Inv, Typed, Processes
<1>7. \A j \in Instances \ {i} :
        process[j].run # 0 => process'[i].run # process[j].run
  BY <1>1, <1>6 DEF Inv, Owned
<1>8. running' \in [Instances -> BOOLEAN]
  BY <1>2 DEF Inv, Typed, TypeOK
<1>9. process'[i].at # "idle" <=> running'[i]
  BY <1>1, <1>2, <1>6 DEF Inv, Flagged, At
<1>10. /\ process'[i].run # 0 /\ process'[i].at = "close"
       /\ process'[i].asked = {Accounts, Transactions}
       /\ process'[i].always \subseteq wrong /\ wrong \subseteq process'[i].ever
       /\ process'[i].found \subseteq process'[i].ever
       /\ \A s \in process'[i].asked :
            process'[i].always \cap s \subseteq process'[i].found
  BY <1>1, <1>4, <1>6
<1>11. /\ runs'[process'[i].run].status = "completed"
       /\ ~runs'[process'[i].run].closed /\ runs'[process'[i].run].total = 0
       /\ runs'[process'[i].run].issues = process'[i].found
  BY <1>3, <1>6
<1> HIDE DEF p
<1> QED
  BY <1>2, <1>3, <1>5, <1>7, <1>8, <1>9, <1>10, <1>11, OneProcess

\* A process that has ended its run, or dies, has no row any more; what it
\* leaves behind nobody works on again.
LEMMA LeaveInv ==
  ASSUME Inv, NEW i \in Instances, wrong' = wrong, RowsKept(i),
         process' = [process EXCEPT ![i] = Idle],
         running' = [running EXCEPT ![i] = FALSE]
  PROVE  Inv'
<1>1. process'[i].at = "idle" /\ process'[i].run = 0 /\ running'[i] = FALSE
  BY DEF Inv, Typed, TypeOK, Idle
<1>2. /\ process' \in [Instances -> Processes]
      /\ running' \in [Instances -> BOOLEAN]
      /\ \A j \in Instances \ {i} :
           process'[j] = process[j] /\ running'[j] = running[j]
  BY BoundsAssumption DEF Inv, Typed, TypeOK, Idle, Processes
<1> QED BY <1>1, <1>2, OneProcess

\* An error within the try block leads to the catch block, whether the write
\* it interrupts was committed or not.
LEMMA CatchInv ==
  ASSUME Inv, NEW i \in Instances, process[i].run # 0,
         process' = [process EXCEPT ![i] = Catching(i)],
         UNCHANGED <<wrong, running>>, RowsKept(i),
         runs'[process[i].run].status = "completed"
  PROVE  Inv'
<1>1. process[i] \in Processes /\ ~At(i, "idle")
  BY DEF Inv, Typed, Staged, At
<1>2. process'[i] = Catching(i)
  BY DEF Inv, Typed
<1>3. /\ process'[i].at = "catch" /\ process'[i].run = process[i].run
      /\ process'[i] \in Processes
  <2>1. process[i].run \in 0..MaxRuns
    BY <1>1 DEF Processes
  <2>2. Idle \in Processes
    BY BoundsAssumption DEF Idle, Processes
  <2>3. Catching(i) \in Processes
    BY <2>1, <2>2 DEF Catching, Processes
  <2>4. Catching(i).at = "catch"
    BY <2>1, <2>2 DEF Catching, Processes
  <2>5. Catching(i).run = process[i].run
    BY <2>1, <2>2 DEF Catching, Processes
  <2> QED BY <1>2, <2>3, <2>4, <2>5
<1>4. /\ process' \in [Instances -> Processes]
      /\ \A j \in Instances \ {i} : process'[j] = process[j]
  BY <1>3 DEF Inv, Typed
<1>5. \A j \in Instances \ {i} :
        process[j].run # 0 => process'[i].run # process[j].run
  BY <1>3 DEF Inv, Owned
<1>6. running' \in [Instances -> BOOLEAN]
  BY DEF Inv, Typed, TypeOK
<1>7. process'[i].at # "idle" <=> running'[i]
  BY <1>1, <1>3 DEF Inv, Flagged
<1>8. runs'[process'[i].run].status = "completed"
  BY <1>3
<1> QED BY <1>3, <1>4, <1>5, <1>6, <1>7, <1>8, OneProcess

\* A call that throws: the process dies, or goes to its catch block.
LEMMA ThrowInv ==
  ASSUME Inv, NEW i \in Instances, Throw(i)
  PROVE  Inv'
<1>1. wrong' = wrong
  BY DEF Throw
<1>2. RowsKept(i)
  <2>1. CASE UNCHANGED runs
    BY <2>1, NoWrite
  <2>2. ASSUME NEW n \in RunIds, AddRow(n) PROVE RowsKept(i)
    BY <2>2, NewRow
  <2>3. CASE At(i, "saveIssues") /\ Put(i, Listed(i))
    BY <2>3, ListedKeeps
  <2>4. CASE At(i, "close") /\ Put(i, Completed(i))
    BY <2>4, CompletedKeeps
  <2>5. CASE At(i, "catch") /\ Put(i, Failed(i))
    BY <2>5, FailedKeeps
  <2> QED BY <2>1, <2>2, <2>3, <2>4, <2>5 DEF Throw
<1>3. CASE process[i].at \in {"saveRun", "catch"}
  BY <1>1, <1>2, <1>3, LeaveInv DEF Throw, Restart
<1>4. CASE process[i].at \notin {"saveRun", "catch"}
  <2>1. process[i].run # 0
    BY <1>4 DEF Throw, At, Inv, Staged
  <2>2. runs'[process[i].run].status = "completed"
    <3>1. CASE UNCHANGED runs
      BY <2>1, <3>1 DEF Inv, Owned
    <3>2. CASE At(i, "saveIssues") /\ Put(i, Listed(i))
      BY <3>2, ListedKeeps
    <3>3. CASE At(i, "close") /\ Put(i, Completed(i))
      BY <3>3, CompletedKeeps
    <3> QED BY <1>4, <3>1, <3>2, <3>3 DEF Throw, At
  <2> QED BY <1>1, <1>2, <1>4, <2>1, <2>2, CatchInv DEF Throw
<1> QED BY <1>3, <1>4

LEMMA NextInv == Inv /\ [Next]_vars => Inv'
<1> SUFFICES ASSUME Inv, [Next]_vars PROVE Inv'
  OBVIOUS
<1>1. ASSUME NEW s \in Subjects, Change(s) PROVE Inv'
  BY <1>1, ChangeInv
<1>2. ASSUME NEW i \in Instances, Start(i) PROVE Inv'
  BY <1>2, StartInv
<1>3. ASSUME NEW i \in Instances, Step(i) PROVE Inv'
  <2>1. ASSUME NEW n \in RunIds, SaveRun(i, n) PROVE Inv'
    BY <2>1, SaveRunInv
  <2>2. ASSUME NEW subjects \in {Accounts, Transactions}, Query(i, subjects)
        PROVE Inv'
    BY <2>2, QueryInv
  <2>3. ASSUME SaveIssues(i) PROVE Inv'
    BY <2>3, SaveIssuesInv
  <2>4. ASSUME Complete(i) PROVE Inv'
    BY <2>4, CompletedKeeps, LeaveInv DEF Complete, Finally
  <2>5. ASSUME Fail(i) PROVE Inv'
    BY <2>5, FailedKeeps, LeaveInv DEF Fail, Finally
  <2> QED BY <1>3, <2>1, <2>2, <2>3, <2>4, <2>5 DEF Step
<1>4. ASSUME NEW i \in Instances, Throw(i) PROVE Inv'
  BY <1>4, ThrowInv
<1>5. ASSUME NEW i \in Instances, Crash(i) PROVE Inv'
  BY <1>5, NoWrite, LeaveInv DEF Crash, Restart
<1>6. CASE UNCHANGED vars
  BY <1>6 DEF vars, Inv, Typed, TypeOK, TotalsAddUp, Blank, Flagged, Staged,
              Owned, Stored, Honest, At, Examining, Processes
<1> QED BY <1>1, <1>2, <1>3, <1>4, <1>5, <1>6 DEF Next
-----------------------------------------------------------------------------
\* The inductive invariant holds.
THEOREM InvHolds == Spec => []Inv
<1>1. Init => Inv
  BY InitInv
<1>2. Inv /\ [Next]_vars => Inv'
  BY NextInv
<1> QED BY <1>1, <1>2, PTL DEF Spec

\* Every reachable state is well typed.
THEOREM Typing == Spec => []TypeOK
<1>1. Inv => TypeOK
  BY DEF Inv, Typed
<1> QED BY <1>1, InvHolds, PTL

\* However many runs, instances, errors, lost acknowledgements and crashes
\* there are: the count in a closed COMPLETED row is the number of issues
\* stored with it, and any other row counts its issues or none.
THEOREM CountsAddUp == Spec => []TotalsAddUp
<1>1. Inv => TotalsAddUp
  BY DEF Inv
<1> QED BY <1>1, InvHolds, PTL

\* The rows of any number of overlapping instances stay apart: no two
\* processes work on one row, and a closed row is written once more only by
\* the catch block of the run whose closing update was not acknowledged.
THEOREM RunsApart == Spec => []RunsAreSeparate
<1>1. Inv => RunsAreSeparate
  BY DEF Inv, Flagged, Owned, RunsAreSeparate, At
<1> QED BY <1>1, InvHolds, PTL

\* However the ledger changes between the queries, a run that is about to be
\* closed neither invents an issue nor misses one that lasted.
THEOREM TrueReports == Spec => []IssuesAreTrue
<1>1. Inv => IssuesAreTrue
  <2> SUFFICES ASSUME Inv, NEW i \in Instances, process[i].at = "close"
      PROVE  /\ runs[process[i].run].issues \subseteq process[i].ever
             /\ process[i].always \subseteq runs[process[i].run].issues
    BY DEF IssuesAreTrue, At
  <2>1. /\ runs[process[i].run].issues = process[i].found
        /\ process[i].asked = {Accounts, Transactions}
    BY DEF Inv, Stored, At
  <2>2. /\ process[i].found \subseteq process[i].ever
        /\ \A subjects \in process[i].asked :
             process[i].always \cap subjects \subseteq process[i].found
    BY DEF Inv, Honest, Examining
  <2>3. process[i].always \subseteq Subjects
    BY DEF Inv, Typed, Processes
  <2> QED BY <2>1, <2>2, <2>3 DEF Subjects
<1> QED BY <1>1, InvHolds, PTL
=============================================================================

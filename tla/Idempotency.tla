----------------------------- MODULE Idempotency -----------------------------
(***************************************************************************)
(* IdempotencyService.execute: the wrapper of every POST that moves money  *)
(* or creates an account or webhook.  It keeps one row per (endpoint, key) *)
(* and makes up to five separate database calls around the operation; no   *)
(* transaction spans them.  One action is one awaited call together with   *)
(* the synchronous code up to the next await, so calls of concurrent       *)
(* requests, on one API instance or on several, interleave between them.   *)
(***************************************************************************)
EXTENDS Integers, FiniteSets

CONSTANTS
    Keys,        \* (endpoint, Idempotency-Key) pairs
    Payloads,    \* request bodies; the stored hash tells them apart
    Calls,       \* HTTP requests: first attempts and retries
    Overlap,     \* may a client send a retry before it has an answer?
    MaxFaults,   \* how many database calls may throw and processes die
    Errors,      \* response bodies of errors
    NoRow, NoBody

ASSUME OverlapAssumption == Overlap \in BOOLEAN
ASSUME FaultsAssumption == MaxFaults \in Nat
ASSUME BodiesAssumption ==
    /\ NoBody \notin Calls \cup Errors
    /\ Calls \cap Errors = {}

VARIABLES
    record,    \* key -> idempotency_records row, or NoRow
    stage,     \* call -> the database call it makes next
    request,   \* call -> its key and payload
    branch,    \* call -> how it came to own the key: insert or update
    outcome,   \* call -> the status and body it is to save
    loaded,    \* call -> the row that its save() has compared with
    answer,    \* call -> the HTTP response
    moved,     \* calls whose operation committed: money has moved
    faults

vars == <<record, stage, request, branch, outcome, loaded, answer, moved,
          faults>>

\* A row; body names the call whose committed result is the response.
Bodies == Calls \cup Errors \cup {NoBody}
Rows == [hash : Payloads, status : {"processing", "completed", "failed"},
         body : Bodies]
ASSUME RowAssumption == NoRow \notin Rows

Requests == [key : Keys, payload : Payloads]
NoRequest == NoRow
ASSUME RequestAssumption == NoRequest \notin Requests

Waiting == {"findOne", "update", "insert", "findDuplicate", "findOneOrFail",
            "operation", "load", "save"}
Stages == Waiting \cup {"idle", "ended", "dead"}

\* 201 with a body, 409 being processed, 409 other payload, or an error.
None == [kind |-> "none", body |-> NoBody]
Ok(b) == [kind |-> "ok", body |-> b]
Conflict == [kind |-> "conflict", body |-> NoBody]
Mismatch == [kind |-> "mismatch", body |-> NoBody]
Error == [kind |-> "error", body |-> NoBody]
Answers == [kind : {"none", "ok", "conflict", "mismatch", "error"},
            body : Bodies]

NoOutcome == [status |-> "processing", body |-> NoBody]
Completed(c) == [status |-> "completed", body |-> c]
Failed(e) == [status |-> "failed", body |-> e]
Outcomes == {NoOutcome} \cup {Completed(c) : c \in Calls}
                        \cup {Failed(e) : e \in Errors}

Key(c) == request[c].key
Hash(c) == request[c].payload
Row(c) == record[Key(c)]

Init ==
    /\ record = [k \in Keys |-> NoRow]
    /\ stage = [c \in Calls |-> "idle"]
    /\ request = [c \in Calls |-> NoRequest]
    /\ branch = [c \in Calls |-> "none"]
    /\ outcome = [c \in Calls |-> NoOutcome]
    /\ loaded = [c \in Calls |-> NoRow]
    /\ answer = [c \in Calls |-> None]
    /\ moved = {}
    /\ faults = 0

Goto(c, s) == /\ stage' = [stage EXCEPT ![c] = s]
              /\ UNCHANGED answer

Respond(c, a) == /\ stage' = [stage EXCEPT ![c] = "ended"]
                 /\ answer' = [answer EXCEPT ![c] = a]

\* The client sends a request, or sends one again.
Call(c, k, p) ==
    /\ stage[c] = "idle"
    /\ Overlap \/ \A d \in Calls : stage[d] \in Waiting => Key(d) # k
    /\ request' = [request EXCEPT ![c] = [key |-> k, payload |-> p]]
    /\ Goto(c, "findOne")
    /\ UNCHANGED <<record, branch, outcome, loaded, moved, faults>>

\* Mutants of Find: the stored hash is not compared, or a completed row is
\* taken over instead of replayed.
FindAnyPayload(c) ==
    /\ stage[c] = "findOne"
    /\ IF Row(c) = NoRow THEN Goto(c, "insert")
       ELSE CASE Row(c).status = "completed" -> Respond(c, Ok(Row(c).body))
              [] Row(c).status = "processing" -> Respond(c, Conflict)
              [] OTHER -> Goto(c, "update")
    /\ UNCHANGED <<record, request, branch, outcome, loaded, moved, faults>>

FindRetaking(c) ==
    /\ stage[c] = "findOne"
    /\ IF Row(c) = NoRow THEN Goto(c, "insert")
       ELSE CASE Row(c).hash # Hash(c) -> Respond(c, Mismatch)
              [] Row(c).status = "processing" -> Respond(c, Conflict)
              [] OTHER -> Goto(c, "update")
    /\ UNCHANGED <<record, request, branch, outcome, loaded, moved, faults>>

(***************************************************************************)
(* Look the key up.  A completed row is replayed, one in progress refused; *)
(* a failed one will be taken over.                                        *)
(***************************************************************************)
Find(c) ==
    /\ stage[c] = "findOne"
    /\ \/ /\ Row(c) = NoRow
          /\ Goto(c, "insert")
       \/ /\ Row(c) # NoRow
          /\ \/ /\ Row(c).hash # Hash(c)
                /\ Respond(c, Mismatch)
             \/ /\ Row(c).hash = Hash(c)
                /\ \/ /\ Row(c).status = "completed"
                      /\ Respond(c, Ok(Row(c).body))
                   \/ /\ Row(c).status = "processing"
                      /\ Respond(c, Conflict)
                   \/ /\ Row(c).status = "failed"
                      /\ Goto(c, "update")
    /\ UNCHANGED <<record, request, branch, outcome, loaded, moved, faults>>

\* The row of a key just taken: by an INSERT, or by an UPDATE that leaves
\* the hash as it was.
Taken(c) ==
    [record EXCEPT ![Key(c)] =
       [hash |-> IF Row(c) = NoRow THEN Hash(c) ELSE Row(c).hash,
        status |-> "processing", body |-> NoBody]]

\* Take the failed row over, whatever has become of it since it was read.
Update(c) ==
    /\ stage[c] = "update"
    /\ record' = Taken(c)
    /\ branch' = [branch EXCEPT ![c] = "update"]
    /\ Goto(c, "findOneOrFail")
    /\ UNCHANGED <<request, outcome, loaded, moved, faults>>

\* Mutant of Insert: the table lacks its unique constraint.
InsertAnyway(c) ==
    /\ stage[c] = "insert"
    /\ record' = Taken(c)
    /\ branch' = [branch EXCEPT ![c] = "insert"]
    /\ Goto(c, "findOneOrFail")
    /\ UNCHANGED <<request, outcome, loaded, moved, faults>>

\* Insert the row; the unique constraint lets one of several win.
Insert(c) ==
    /\ stage[c] = "insert"
    /\ IF Row(c) = NoRow
       THEN /\ record' = Taken(c)
            /\ branch' = [branch EXCEPT ![c] = "insert"]
            /\ Goto(c, "findOneOrFail")
       ELSE /\ Goto(c, "findDuplicate")
            /\ UNCHANGED <<record, branch>>
    /\ UNCHANGED <<request, outcome, loaded, moved, faults>>

\* Mutant of FindDuplicate: it answers with the row, not with its body.
FindDuplicateRow(c) ==
    /\ stage[c] = "findDuplicate"
    /\ Respond(c, IF Row(c) = NoRow THEN Error ELSE Ok(Row(c)))
    /\ UNCHANGED <<record, request, branch, outcome, loaded, moved, faults>>

\* The insert was refused: replay if the winner is done, else give up.
FindDuplicate(c) ==
    /\ stage[c] = "findDuplicate"
    /\ Respond(c, IF Row(c) = NoRow THEN Error
                  ELSE IF Row(c).hash # Hash(c) THEN Mismatch
                  ELSE IF Row(c).status = "completed" THEN Ok(Row(c).body)
                  ELSE Error)
    /\ UNCHANGED <<record, request, branch, outcome, loaded, moved, faults>>

FindOneOrFail(c) ==
    /\ stage[c] = "findOneOrFail"
    /\ Goto(c, "operation")
    /\ UNCHANGED <<record, request, branch, outcome, loaded, moved, faults>>

\* Mutant of Operate: an error of the operation is taken for its result.
OperateSwallowing(c, o) ==
    /\ stage[c] = "operation"
    /\ o = Completed(c) \/ \E e \in Errors : o = Failed(e)
    /\ moved' = IF o = Completed(c) THEN moved \cup {c} ELSE moved
    /\ outcome' = [outcome EXCEPT ![c] = Completed(c)]
    /\ Goto(c, "load")
    /\ UNCHANGED <<record, request, branch, loaded, faults>>

\* The operation commits its movement, or throws without one.
Operate(c, o) ==
    /\ stage[c] = "operation"
    /\ o = Completed(c) \/ \E e \in Errors : o = Failed(e)
    /\ moved' = IF o = Completed(c) THEN moved \cup {c} ELSE moved
    /\ outcome' = [outcome EXCEPT ![c] = o]
    /\ Goto(c, "load")
    /\ UNCHANGED <<record, request, branch, loaded, faults>>

(***************************************************************************)
(* save({id, ...}): the repository first loads the row by its id, and then *)
(* updates those columns that differ from what it has loaded.              *)
(***************************************************************************)
Load(c) ==
    /\ stage[c] = "load"
    /\ loaded' = [loaded EXCEPT ![c] = Row(c)]
    /\ Goto(c, "save")
    /\ UNCHANGED <<record, request, branch, outcome, moved, faults>>

Saved(c) ==
    [record EXCEPT ![Key(c)] =
       [hash |-> Row(c).hash,
        status |-> IF outcome[c].status = loaded[c].status
                   THEN Row(c).status ELSE outcome[c].status,
        body |-> IF outcome[c].body = loaded[c].body
                 THEN Row(c).body ELSE outcome[c].body]]

\* Mutants of Save: the FAILED save, or the COMPLETED one, is forgotten.
SaveOnlyCompleted(c) ==
    /\ stage[c] = "save"
    /\ record' = IF outcome[c] = Completed(c) THEN Saved(c) ELSE record
    /\ Respond(c, IF outcome[c] = Completed(c) THEN Ok(c) ELSE Error)
    /\ UNCHANGED <<request, branch, outcome, loaded, moved, faults>>

SaveOnlyFailed(c) ==
    /\ stage[c] = "save"
    /\ record' = IF outcome[c] = Completed(c) THEN record ELSE Saved(c)
    /\ Respond(c, IF outcome[c] = Completed(c) THEN Ok(c) ELSE Error)
    /\ UNCHANGED <<request, branch, outcome, loaded, moved, faults>>

Save(c) ==
    /\ stage[c] = "save"
    /\ record' = Saved(c)
    /\ Respond(c, IF outcome[c] = Completed(c) THEN Ok(c) ELSE Error)
    /\ UNCHANGED <<request, branch, outcome, loaded, moved, faults>>

(***************************************************************************)
(* A database call throws; a write may have taken place all the same, its  *)
(* acknowledgement lost.  An error of the insert is answered by the second *)
(* look-up unless it is none of the query, an error of the operation or of *)
(* the COMPLETED save by the FAILED save, any other by the HTTP error.     *)
(***************************************************************************)
Written(c, took) ==
    CASE ~took -> record
      [] stage[c] = "update" -> Taken(c)
      [] stage[c] = "insert" /\ Row(c) = NoRow -> Taken(c)
      [] stage[c] = "save" -> Saved(c)
      [] OTHER -> record

Caught(c) ==
    \/ stage[c] = "operation"
    \/ stage[c] \in {"load", "save"} /\ outcome[c] = Completed(c)

Throw(c, took) ==
    /\ stage[c] \in Waiting
    /\ faults < MaxFaults
    /\ faults' = faults + 1
    /\ record' = Written(c, took)
    /\ moved' = IF took /\ stage[c] = "operation" THEN moved \cup {c}
                ELSE moved
    /\ \/ /\ stage[c] = "insert"
          /\ Goto(c, "findDuplicate")
          /\ UNCHANGED outcome
       \/ /\ Caught(c)
          /\ Goto(c, "load")
          /\ \E e \in Errors : outcome' = [outcome EXCEPT ![c] = Failed(e)]
       \/ /\ ~Caught(c)
          /\ Respond(c, Error)
          /\ UNCHANGED outcome
    /\ UNCHANGED <<request, branch, loaded>>

\* The process dies between two calls; the client sees no response.
Die(c) ==
    /\ stage[c] \in Waiting
    /\ faults < MaxFaults
    /\ faults' = faults + 1
    /\ Goto(c, "dead")
    /\ UNCHANGED <<record, request, branch, outcome, loaded, moved>>

Step(c) ==
    \/ Find(c) \/ Update(c) \/ Insert(c) \/ FindDuplicate(c)
    \/ FindOneOrFail(c)
    \/ \E o \in Outcomes : Operate(c, o)
    \/ Load(c) \/ Save(c)

Next ==
    \/ \E c \in Calls, k \in Keys, p \in Payloads : Call(c, k, p)
    \/ \E c \in Calls : Step(c) \/ Die(c)
    \/ \E c \in Calls, took \in BOOLEAN : Throw(c, took)

Spec == Init /\ [][Next]_vars

\* A live process goes on with its calls; clients and faults do as they like.
FairSpec == Spec /\ \A c \in Calls : WF_vars(Step(c))
-----------------------------------------------------------------------------
TypeOK ==
    /\ record \in [Keys -> Rows \cup {NoRow}]
    /\ stage \in [Calls -> Stages]
    /\ request \in [Calls -> Requests \cup {NoRequest}]
    /\ branch \in [Calls -> {"none", "insert", "update"}]
    /\ outcome \in [Calls -> Outcomes]
    /\ loaded \in [Calls -> Rows \cup {NoRow}]
    /\ answer \in [Calls -> Answers]
    /\ moved \subseteq Calls
    /\ faults \in 0..MaxFaults

(***************************************************************************)
(* Whatever fails and however calls interleave, money moves twice for one  *)
(* key only after some call has found the key FAILED and taken it over:    *)
(* the unique constraint lets only one call own a key by inserting it.     *)
(***************************************************************************)
DuplicateNeedsTakeover ==
    \A c, d \in moved :
      c # d /\ Key(c) = Key(d) => "update" \in {branch[c], branch[d]}

(***************************************************************************)
(* A key is bound to the payload of its first request: no two movements    *)
(* under one key ever come from different payloads.                        *)
(***************************************************************************)
OnePayloadPerKey ==
    \A c, d \in moved : Key(c) = Key(d) => Hash(c) = Hash(d)

(***************************************************************************)
(* Nobody is told of a success that did not happen: whatever fails and     *)
(* however calls interleave, behind every success that is answered, or     *)
(* replayed from the row, some movement under that key and payload is      *)
(* committed.                                                              *)
(***************************************************************************)
SuccessMeansMoved ==
    \A c \in Calls : answer[c].kind = "ok" =>
      \E d \in moved : request[d] = request[c]

(***************************************************************************)
(* A stored result is overwritten for two reasons only, whatever fails: a  *)
(* call has taken the key over while it was FAILED, and owners of the key  *)
(* overlap; or the call whose result it is has been told that storing it   *)
(* failed, and saves FAILED over it.                                       *)
(***************************************************************************)
ResultsAreKept ==
    [][\A k \in Keys :
         (/\ record[k] # NoRow /\ record[k].status = "completed"
          /\ record'[k] # record[k])
           => \E c \in Calls :
                \/ branch[c] = "update" /\ Key(c) = k
                \/ stage[c] = "save" /\ Key(c) = k /\ record[k].body = c]_vars

(***************************************************************************)
(* "retries must not duplicate money movement".                            *)
(***************************************************************************)
AtMostOnce ==
    \A c, d \in moved : Key(c) = Key(d) => c = d

(***************************************************************************)
(* The service implements OncePerKey: "replay the original logical result  *)
(* for safe retries", neither a second effect nor an error once the first  *)
(* effect has taken place, as long as no call fails.                       *)
(***************************************************************************)
MovedFor(k) == {c \in moved : Key(c) = k}

Effect == [k \in Keys |-> IF MovedFor(k) = {} THEN NoBody
                          ELSE CHOOSE c \in MovedFor(k) : TRUE]

Reply == [c \in Calls |->
            CASE answer[c].kind = "none" -> NoBody
              [] answer[c].kind = "ok" -> answer[c].body
              [] OTHER -> NoRow]

Promise == INSTANCE OncePerKey WITH
             effect <- Effect, reply <- Reply, NoRequest <- NoRequest,
             NoCall <- NoBody, NoReply <- NoBody, Refused <- NoRow

ImplementsOncePerKey ==
    Promise!Init /\ [][Promise!Next \/ faults' > 0]_(Promise!vars)

(***************************************************************************)
(* As long as nothing has failed, the answer "already being processed" is  *)
(* true: another call is then between taking the key and saving its        *)
(* result.  (A process that dies leaves the key PROCESSING for good.)      *)
(***************************************************************************)
Owners(k) ==
    {c \in Calls : /\ stage[c] \in {"findOneOrFail", "operation",
                                    "load", "save"}
                   /\ Key(c) = k}

ConflictIsTrue ==
    [][\A c \in Calls :
         answer[c] # Conflict /\ answer'[c] = Conflict
           => Owners(Key(c)) # {} \/ faults > 0]_vars

(***************************************************************************)
(* As long as nothing fails, no key stays in progress forever, however its *)
(* owners overwrite each other: it can be replayed, or tried again.        *)
(***************************************************************************)
KeySettles ==
    \A k \in Keys :
      (record[k] # NoRow /\ record[k].status = "processing")
        ~> \/ record[k] # NoRow /\ record[k].status # "processing"
           \/ faults > 0
=============================================================================

--------------------------- MODULE IdempotencyProofs ---------------------------
(***************************************************************************)
(* Theorems of Idempotency for any number of calls, keys, payloads and     *)
(* faults, overlapping or not.  Inv says what is never undone: a row that  *)
(* exists keeps its hash, a call that owns a key has the hash of its row,  *)
(* one call at most has inserted the row, and a COMPLETED row has a        *)
(* committed movement behind it.                                           *)
(***************************************************************************)
EXTENDS Idempotency, TLAPS

Owning == {"findOneOrFail", "operation", "load", "save"}

\* A call has a request from the moment it is made.
Asked ==
    \A c \in Calls :
      /\ stage[c] # "idle" => request[c] \in Requests
      /\ c \in moved \/ branch[c] # "none" \/ answer[c].kind = "ok" =>
           stage[c] # "idle"

\* Who owns or takes a key over has sent the payload of its row.
Bound ==
    \A c \in Calls :
      stage[c] \in Owning \cup {"update"} \/ c \in moved =>
        Row(c) # NoRow /\ Row(c).hash = Hash(c)

\* A key is owned by an insert, of which there is one, or by an update.
Inserted ==
    \A c \in Calls :
      /\ stage[c] \in Owning \/ c \in moved => branch[c] # "none"
      /\ branch[c] = "insert" => Row(c) # NoRow
      /\ \A d \in Calls :
           branch[c] = "insert" /\ branch[d] = "insert" /\ Key(c) = Key(d) =>
             c = d

\* A call that is to save COMPLETED has moved money itself.
Decided ==
    \A c \in Calls :
      /\ outcome[c].status = "completed" =>
           outcome[c] = Completed(c) /\ c \in moved
      /\ stage[c] \in {"load", "save"} => outcome[c].status # "processing"

\* Behind a COMPLETED row there is a movement for its key and hash.
Backed ==
    \A k \in Keys :
      record[k] # NoRow /\ record[k].status = "completed" =>
        \E d \in moved : Key(d) = k /\ Hash(d) = record[k].hash

Inv ==
    /\ TypeOK
    /\ Asked
    /\ Bound
    /\ Inserted
    /\ Decided
    /\ Backed
    /\ SuccessMeansMoved

-----------------------------------------------------------------------------
LEMMA InitInv == Init => Inv
<1> SUFFICES ASSUME Init PROVE Inv
  OBVIOUS
<1>1. TypeOK
  BY FaultsAssumption
  DEF Init, TypeOK, Stages, NoRequest, Outcomes, None, Answers, Bodies
<1>2. Asked /\ Bound /\ Inserted
  BY DEF Init, Asked, Bound, Inserted, Owning, None
<1>3. Decided /\ Backed /\ SuccessMeansMoved
  BY DEF Init, Decided, Backed, SuccessMeansMoved, NoOutcome, None
<1> QED BY <1>1, <1>2, <1>3 DEF Inv

\* A client sends a request.
LEMMA CallInv ==
  ASSUME Inv, NEW c \in Calls, NEW k \in Keys, NEW p \in Payloads, Call(c, k, p)
  PROVE  Inv'
<1>1. /\ stage[c] = "idle" /\ stage' = [stage EXCEPT ![c] = "findOne"]
      /\ request' = [request EXCEPT ![c] = [key |-> k, payload |-> p]]
      /\ UNCHANGED <<record, branch, outcome, loaded, answer, moved, faults>>
  BY DEF Call, Goto
<1>2. [key |-> k, payload |-> p] \in Requests
  BY DEF Requests
<1>3. /\ stage \in [Calls -> Stages] /\ branch \in [Calls -> {"none", "insert", "update"}]
      /\ request \in [Calls -> Requests \cup {NoRequest}]
      /\ moved \subseteq Calls
  BY DEF Inv, TypeOK
<1>4. c \notin moved /\ branch[c] = "none" /\ answer[c].kind # "ok"
  BY <1>1, <1>3 DEF Inv, Asked
<1>5. \A d \in Calls \ {c} : stage'[d] = stage[d] /\ request'[d] = request[d]
  BY <1>1, <1>3
<1>6. stage'[c] = "findOne" /\ request'[c] \in Requests
  BY <1>1, <1>2, <1>3
<1>7. TypeOK'
  BY <1>1, <1>2 DEF Inv, TypeOK, Stages, Waiting
<1>8. Asked'
  BY <1>1, <1>5, <1>6 DEF Inv, Asked
<1>9. Bound'
  BY <1>1, <1>4, <1>5, <1>6 DEF Inv, Bound, Row, Key, Hash, Owning
<1>10. Inserted'
  BY <1>1, <1>4, <1>5, <1>6 DEF Inv, Inserted, Row, Key, Owning
<1>11. Decided'
  BY <1>1, <1>5, <1>6 DEF Inv, Decided
<1>12. Backed'
  BY <1>1, <1>3, <1>4, <1>5 DEF Inv, Backed, Key, Hash
<1>13. SuccessMeansMoved'
  BY <1>1, <1>3, <1>4, <1>5 DEF Inv, SuccessMeansMoved
<1> QED BY <1>7, <1>8, <1>9, <1>10, <1>11, <1>12, <1>13 DEF Inv

\* Every other action is a step of one call on the row of its key: it is
\* enough that no row and no hash is lost, that this call fits what it leaves,
\* and that a row becomes COMPLETED only for a movement.
LEMMA OneCall ==
  ASSUME Inv, NEW c \in Calls, stage[c] # "idle", stage'[c] # "idle",
         TypeOK', request' = request,
         \A k \in Keys : record[k] # NoRow =>
           record'[k] # NoRow /\ record'[k].hash = record[k].hash,
         \A k \in Keys : record'[k] # NoRow /\ record'[k].status = "completed" =>
           \/ record[k] # NoRow /\ record[k].status = "completed"
           \/ k = Key(c) /\ c \in moved,
         moved \subseteq moved', moved' \subseteq moved \cup {c},
         \A d \in Calls \ {c} :
           /\ stage'[d] = stage[d] /\ branch'[d] = branch[d]
           /\ outcome'[d] = outcome[d] /\ answer'[d] = answer[d],
         stage'[c] \in Owning \cup {"update"} \/ c \in moved' =>
           Row(c)' # NoRow /\ Row(c)'.hash = Hash(c),
         stage'[c] \in Owning \/ c \in moved' => branch'[c] # "none",
         branch'[c] = "insert" =>
           Row(c)' # NoRow /\ (branch[c] = "insert" \/ Row(c) = NoRow),
         outcome'[c].status = "completed" =>
           outcome'[c] = Completed(c) /\ c \in moved',
         stage'[c] \in {"load", "save"} => outcome'[c].status # "processing",
         answer'[c].kind = "ok" =>
           answer[c].kind = "ok" \/ \E d \in moved' : request[d] = request[c]
  PROVE  Inv'
<1>1. \A d \in Calls : stage[d] # "idle" => request[d] \in Requests /\ Key(d) \in Keys
  BY DEF Inv, Asked, Requests, Key
<1>2. Asked'
  BY <1>1 DEF Inv, Asked
<1>3. Bound'
  <2> SUFFICES ASSUME NEW d \in Calls,
                      stage'[d] \in Owning \cup {"update"} \/ d \in moved'
      PROVE  Row(d)' # NoRow /\ Row(d)'.hash = Hash(d)
    BY DEF Bound, Hash
  <2>1. CASE d = c
    BY <2>1
  <2>2. CASE d # c
    <3>1. stage[d] \in Owning \cup {"update"} \/ d \in moved
      BY <2>2
    <3>2. Row(d) # NoRow /\ Row(d).hash = Hash(d)
      BY <3>1 DEF Inv, Bound
    <3>3. Key(d) \in Keys
      BY <1>1, <3>1 DEF Inv, Asked, Owning
    <3> QED BY <3>2, <3>3 DEF Row, Key
  <2> QED BY <2>1, <2>2
<1>4. Inserted'
  <2>1. ASSUME NEW d \in Calls, branch[d] = "insert"
        PROVE  Key(d) \in Keys /\ Row(d) # NoRow /\ Row(d)' # NoRow
    BY <1>1, <2>1 DEF Inv, Asked, Inserted, Row, Key
  <2>2. ASSUME NEW d \in Calls, d # c,
               branch'[c] = "insert", branch'[d] = "insert", Key(c) = Key(d)
        PROVE  FALSE
    BY <2>1, <2>2 DEF Inv, Inserted, Row
  <2>3. ASSUME NEW d \in Calls, NEW e \in Calls,
               branch'[d] = "insert", branch'[e] = "insert", Key(d)' = Key(e)'
        PROVE  d = e
    BY <2>2, <2>3 DEF Inv, Inserted, Key
  <2>4. ASSUME NEW d \in Calls
        PROVE  /\ stage'[d] \in Owning \/ d \in moved' => branch'[d] # "none"
               /\ branch'[d] = "insert" => Row(d)' # NoRow
    BY <2>1 DEF Inv, Inserted
  <2> QED BY <2>3, <2>4 DEF Inserted
<1>5. Decided'
  BY DEF Inv, Decided, Completed
<1>6. Backed'
  <2> SUFFICES ASSUME NEW k \in Keys, record'[k] # NoRow,
                      record'[k].status = "completed"
      PROVE  \E d \in moved' : Key(d) = k /\ Hash(d) = record'[k].hash
    BY DEF Backed, Key, Hash
  <2>1. CASE record[k] # NoRow /\ record[k].status = "completed"
    BY <2>1 DEF Inv, Backed
  <2>2. CASE k = Key(c) /\ c \in moved
    BY <2>2 DEF Inv, Bound, Row
  <2> QED BY <2>1, <2>2
<1>7. SuccessMeansMoved'
  <2> SUFFICES ASSUME NEW d \in Calls, answer'[d].kind = "ok"
      PROVE  \E e \in moved' : request[e] = request[d]
    BY DEF SuccessMeansMoved
  <2>1. CASE answer[d].kind = "ok"
    BY <2>1 DEF Inv, SuccessMeansMoved
  <2>2. CASE answer[d].kind # "ok"
    BY <2>2
  <2> QED BY <2>1, <2>2
<1> QED BY <1>2, <1>3, <1>4, <1>5, <1>6, <1>7 DEF Inv

-----------------------------------------------------------------------------
\* What the steps read and write.

\* A call under way has a key and a payload; its row, if any, is a row.
LEMMA RequestFacts ==
  ASSUME Inv, NEW c \in Calls, stage[c] # "idle"
  PROVE  /\ request[c] = [key |-> Key(c), payload |-> Hash(c)]
         /\ Key(c) \in Keys /\ Hash(c) \in Payloads
         /\ Row(c) \in Rows \cup {NoRow}
         /\ Row(c) # NoRow => Row(c) \in Rows
<1>1. request[c] \in Requests
  BY DEF Inv, Asked
<1> QED BY <1>1 DEF Requests, Key, Hash, Row, Inv, TypeOK

\* Two requests with one key and one payload are the same.
LEMMA SameRequest ==
  ASSUME Inv, NEW c \in Calls, NEW d \in Calls,
         stage[c] # "idle", stage[d] # "idle", Key(c) = Key(d), Hash(c) = Hash(d)
  PROVE  request[c] = request[d]
BY RequestFacts

\* Behind a COMPLETED row with its hash a call may answer with a success.
LEMMA ReplayFacts ==
  ASSUME Inv, NEW c \in Calls, stage[c] # "idle",
         Row(c) # NoRow, Row(c).status = "completed", Row(c).hash = Hash(c)
  PROVE  /\ \E d \in moved : request[d] = request[c]
         /\ Ok(Row(c).body) \in Answers
<1>1. PICK d \in moved : Key(d) = Key(c) /\ Hash(d) = Hash(c)
  BY RequestFacts DEF Inv, Backed, Row
<1>2. d \in Calls /\ stage[d] # "idle"
  BY DEF Inv, TypeOK, Asked
<1>3. Row(c).body \in Bodies
  BY RequestFacts DEF Rows
<1> QED BY <1>1, <1>2, <1>3, SameRequest DEF Ok, Answers

\* Taking a key writes one row and leaves its hash.
LEMMA TakenFacts ==
  ASSUME Inv, NEW c \in Calls, stage[c] # "idle",
         Row(c) # NoRow => Row(c).hash = Hash(c)
  PROVE  /\ Taken(c) \in [Keys -> Rows \cup {NoRow}]
         /\ Taken(c)[Key(c)] # NoRow
         /\ Taken(c)[Key(c)].hash = Hash(c)
         /\ Taken(c)[Key(c)].status = "processing"
         /\ \A k \in Keys : k # Key(c) => Taken(c)[k] = record[k]
<1> DEFINE row == [hash |-> IF Row(c) = NoRow THEN Hash(c) ELSE Row(c).hash,
                   status |-> "processing", body |-> NoBody]
<1>1. row \in Rows
  BY RequestFacts DEF Rows, Bodies
<1>2. row.hash = Hash(c) /\ row.status = "processing" /\ row # NoRow
  BY <1>1, RowAssumption
<1>3. Taken(c) = [record EXCEPT ![Key(c)] = row]
  BY DEF Taken
<1> HIDE DEF row
<1> QED BY <1>1, <1>2, <1>3, RequestFacts DEF Inv, TypeOK

\* Saving keeps the hash, and makes a row COMPLETED for a movement only.
LEMMA SavedFacts ==
  ASSUME Inv, NEW c \in Calls, stage[c] = "save"
  PROVE  /\ Saved(c) \in [Keys -> Rows \cup {NoRow}]
         /\ Row(c) # NoRow /\ Row(c).hash = Hash(c)
         /\ Saved(c)[Key(c)] # NoRow
         /\ Saved(c)[Key(c)].hash = Hash(c)
         /\ Saved(c)[Key(c)].status = "completed" =>
              Row(c).status = "completed" \/ c \in moved
         /\ \A k \in Keys : k # Key(c) => Saved(c)[k] = record[k]
<1> DEFINE status == IF outcome[c].status = loaded[c].status
                     THEN Row(c).status ELSE outcome[c].status
           body == IF outcome[c].body = loaded[c].body
                   THEN Row(c).body ELSE outcome[c].body
           row == [hash |-> Row(c).hash, status |-> status, body |-> body]
<1>1. Row(c) \in Rows /\ Row(c).hash = Hash(c) /\ Row(c) # NoRow
  BY RequestFacts DEF Inv, Bound, Owning
<1>2. outcome[c].status \in {"processing", "completed", "failed"}
      /\ outcome[c].body \in Bodies
  BY DEF Inv, TypeOK, Outcomes, NoOutcome, Completed, Failed, Bodies
<1>3. status \in {"processing", "completed", "failed"} /\ body \in Bodies
  BY <1>1, <1>2 DEF Rows
<1>4. status = "completed" => Row(c).status = "completed" \/ c \in moved
  BY DEF Inv, Decided
<1> HIDE DEF status, body
<1>5. row \in Rows /\ row.hash = Hash(c) /\ row.status = status /\ row # NoRow
  BY <1>1, <1>3, RowAssumption DEF Rows
<1>6. Saved(c) = [record EXCEPT ![Key(c)] = row]
  BY DEF Saved, status, body
<1> HIDE DEF row
<1> QED BY <1>1, <1>4, <1>5, <1>6, RequestFacts DEF Inv, TypeOK

-----------------------------------------------------------------------------
\* One lemma per action.

\* A step that writes no row, moves nothing and decides nothing.
LEMMA QuietInv ==
  ASSUME Inv, NEW c \in Calls, stage[c] \in Waiting,
         NEW s \in Waiting \cup {"ended", "dead"}, NEW a \in Answers,
         stage' = [stage EXCEPT ![c] = s], answer' = [answer EXCEPT ![c] = a],
         UNCHANGED <<record, request, branch, outcome, moved>>,
         loaded' \in [Calls -> Rows \cup {NoRow}], faults' \in 0..MaxFaults,
         s \in Owning \cup {"update"} => Row(c) # NoRow /\ Row(c).hash = Hash(c),
         s \in Owning => branch[c] # "none",
         s \in {"load", "save"} => outcome[c].status # "processing",
         a.kind = "ok" =>
           answer[c].kind = "ok" \/ \E d \in moved : request[d] = request[c]
  PROVE  Inv'
<1>1. stage[c] # "idle" /\ stage'[c] = s /\ s # "idle" /\ answer'[c] = a
  BY DEF Inv, TypeOK, Waiting
<1>2. TypeOK'
  BY DEF Inv, TypeOK, Stages
<1>3. \A d \in Calls \ {c} :
           /\ stage'[d] = stage[d] /\ branch'[d] = branch[d]
           /\ outcome'[d] = outcome[d] /\ answer'[d] = answer[d]
  BY DEF Inv, TypeOK
<1>4. stage'[c] \in Owning \cup {"update"} \/ c \in moved' =>
           Row(c)' # NoRow /\ Row(c)'.hash = Hash(c)
  BY <1>1 DEF Inv, Bound, Row, Key
<1>5. stage'[c] \in Owning \/ c \in moved' => branch'[c] # "none"
  BY <1>1 DEF Inv, Inserted
<1>6. branch'[c] = "insert" =>
           Row(c)' # NoRow /\ (branch[c] = "insert" \/ Row(c) = NoRow)
  BY DEF Inv, Inserted, Row, Key
<1>7. outcome'[c].status = "completed" =>
           outcome'[c] = Completed(c) /\ c \in moved'
  BY DEF Inv, Decided
<1> QED BY <1>1, <1>2, <1>3, <1>4, <1>5, <1>6, <1>7, OneCall

LEMMA FindInv ==
  ASSUME Inv, NEW c \in Calls, Find(c)
  PROVE  Inv'
<1>1. stage[c] = "findOne" /\ stage[c] \in Waiting /\ answer[c] \in Answers
  BY DEF Find, Inv, TypeOK, Waiting
<1>2. UNCHANGED <<record, request, branch, outcome, loaded, moved, faults>>
  BY DEF Find
<1>3. loaded' \in [Calls -> Rows \cup {NoRow}] /\ faults' \in 0..MaxFaults
      /\ answer \in [Calls -> Answers]
  BY <1>2 DEF Inv, TypeOK
<1>4. CASE Goto(c, "insert")
  BY <1>1, <1>2, <1>3, <1>4, QuietInv DEF Goto, Waiting, Owning
<1>5. CASE Goto(c, "update") /\ Row(c) # NoRow /\ Row(c).hash = Hash(c)
  BY <1>1, <1>2, <1>3, <1>5, QuietInv DEF Goto, Waiting, Owning
<1>6. CASE Respond(c, Mismatch) \/ Respond(c, Conflict)
  <2>1. Mismatch \in Answers /\ Conflict \in Answers
        /\ Mismatch.kind # "ok" /\ Conflict.kind # "ok"
    BY DEF Mismatch, Conflict, Answers, Bodies
  <2> QED
    BY <1>1, <1>2, <1>3, <1>6, <2>1, QuietInv DEF Respond, Waiting, Owning
<1>7. CASE /\ Respond(c, Ok(Row(c).body)) /\ Row(c) # NoRow
           /\ Row(c).status = "completed" /\ Row(c).hash = Hash(c)
  <2>1. Ok(Row(c).body) \in Answers /\ \E d \in moved : request[d] = request[c]
    BY <1>1, <1>7, ReplayFacts
  <2> QED
    BY <1>1, <1>2, <1>3, <1>7, <2>1, QuietInv DEF Respond, Waiting, Owning
<1> QED BY <1>4, <1>5, <1>6, <1>7 DEF Find

LEMMA UpdateInv ==
  ASSUME Inv, NEW c \in Calls, Update(c)
  PROVE  Inv'
<1>1. stage[c] = "update" /\ record' = Taken(c)
      /\ branch' = [branch EXCEPT ![c] = "update"]
      /\ stage' = [stage EXCEPT ![c] = "findOneOrFail"]
      /\ UNCHANGED <<request, outcome, loaded, moved, faults, answer>>
  BY DEF Update, Goto
<1>2. Row(c) # NoRow /\ Row(c).hash = Hash(c)
  BY <1>1 DEF Inv, Bound
<1>3. /\ Taken(c) \in [Keys -> Rows \cup {NoRow}]
      /\ Taken(c)[Key(c)] # NoRow
      /\ Taken(c)[Key(c)].hash = Hash(c)
      /\ Taken(c)[Key(c)].status = "processing"
      /\ \A k \in Keys : k # Key(c) => Taken(c)[k] = record[k]
  BY <1>1, <1>2, TakenFacts
<1>4. TypeOK'
  BY <1>1, <1>3 DEF Inv, TypeOK, Stages, Waiting
<1>5. stage'[c] = "findOneOrFail" /\ branch'[c] = "update"
      /\ \A d \in Calls \ {c} : stage'[d] = stage[d] /\ branch'[d] = branch[d]
  BY <1>1 DEF Inv, TypeOK
<1>6. \A k \in Keys : record[k] # NoRow =>
           record'[k] # NoRow /\ record'[k].hash = record[k].hash
  BY <1>1, <1>2, <1>3 DEF Row
<1>7. \A k \in Keys : record'[k] # NoRow /\ record'[k].status = "completed" =>
           record[k] # NoRow /\ record[k].status = "completed"
  BY <1>1, <1>3
<1>8. Row(c)' # NoRow /\ Row(c)'.hash = Hash(c)
  BY <1>1, <1>3 DEF Row, Key
<1>9. outcome[c].status = "completed" => outcome[c] = Completed(c) /\ c \in moved
  BY DEF Inv, Decided
<1> QED BY <1>1, <1>4, <1>5, <1>6, <1>7, <1>8, <1>9, OneCall

LEMMA InsertInv ==
  ASSUME Inv, NEW c \in Calls, Insert(c)
  PROVE  Inv'
<1>1. stage[c] = "insert" /\ stage[c] \in Waiting /\ answer[c] \in Answers
      /\ UNCHANGED <<request, outcome, loaded, moved, faults, answer>>
  BY DEF Insert, Goto, Waiting, Inv, TypeOK
<1>2. CASE Row(c) = NoRow
  <2>1. record' = Taken(c) /\ branch' = [branch EXCEPT ![c] = "insert"]
        /\ stage' = [stage EXCEPT ![c] = "findOneOrFail"]
    BY <1>2 DEF Insert, Goto
  <2>2. /\ Taken(c) \in [Keys -> Rows \cup {NoRow}]
        /\ Taken(c)[Key(c)] # NoRow
        /\ Taken(c)[Key(c)].hash = Hash(c)
        /\ Taken(c)[Key(c)].status = "processing"
        /\ \A k \in Keys : k # Key(c) => Taken(c)[k] = record[k]
    BY <1>1, <1>2, TakenFacts
  <2>3. TypeOK'
    BY <1>1, <2>1, <2>2 DEF Inv, TypeOK, Stages, Waiting
  <2>4. stage'[c] = "findOneOrFail" /\ branch'[c] = "insert"
        /\ \A d \in Calls \ {c} : stage'[d] = stage[d] /\ branch'[d] = branch[d]
    BY <2>1 DEF Inv, TypeOK
  <2>5. \A k \in Keys : record[k] # NoRow =>
             record'[k] # NoRow /\ record'[k].hash = record[k].hash
    BY <1>2, <2>1, <2>2 DEF Row
  <2>6. \A k \in Keys : record'[k] # NoRow /\ record'[k].status = "completed" =>
             record[k] # NoRow /\ record[k].status = "completed"
    BY <2>1, <2>2
  <2>7. Row(c)' # NoRow /\ Row(c)'.hash = Hash(c)
    BY <1>1, <2>1, <2>2 DEF Row, Key
  <2>8. outcome[c].status = "completed" => outcome[c] = Completed(c) /\ c \in moved
    BY DEF Inv, Decided
  <2> QED
    BY <1>1, <1>2, <2>1, <2>3, <2>4, <2>5, <2>6, <2>7, <2>8, OneCall
<1>3. CASE Row(c) # NoRow
  <2>1. UNCHANGED <<record, branch>>
        /\ stage' = [stage EXCEPT ![c] = "findDuplicate"]
    BY <1>3 DEF Insert, Goto
  <2>2. loaded' \in [Calls -> Rows \cup {NoRow}] /\ faults' \in 0..MaxFaults
        /\ answer' = [answer EXCEPT ![c] = answer[c]]
    BY <1>1 DEF Inv, TypeOK
  <2> QED BY <1>1, <2>1, <2>2, QuietInv DEF Waiting, Owning
<1> QED BY <1>2, <1>3

LEMMA FindDuplicateInv ==
  ASSUME Inv, NEW c \in Calls, FindDuplicate(c)
  PROVE  Inv'
<1> DEFINE a == IF Row(c) = NoRow THEN Error
                ELSE IF Row(c).hash # Hash(c) THEN Mismatch
                ELSE IF Row(c).status = "completed" THEN Ok(Row(c).body)
                ELSE Error
<1>1. stage[c] = "findDuplicate" /\ stage[c] \in Waiting
      /\ stage' = [stage EXCEPT ![c] = "ended"]
      /\ answer' = [answer EXCEPT ![c] = a]
      /\ UNCHANGED <<record, request, branch, outcome, loaded, moved, faults>>
  BY DEF FindDuplicate, Respond, Waiting
<1>2. loaded' \in [Calls -> Rows \cup {NoRow}] /\ faults' \in 0..MaxFaults
  BY <1>1 DEF Inv, TypeOK
<1>3. Error \in Answers /\ Error.kind # "ok"
      /\ Mismatch \in Answers /\ Mismatch.kind # "ok"
  BY DEF Error, Mismatch, Answers, Bodies
<1>4. /\ a \in Answers
      /\ a.kind = "ok" => \E d \in moved : request[d] = request[c]
  BY <1>1, <1>3, ReplayFacts
<1> HIDE DEF a
<1> QED BY <1>1, <1>2, <1>4, QuietInv DEF Waiting, Owning

LEMMA FindOneOrFailInv ==
  ASSUME Inv, NEW c \in Calls, FindOneOrFail(c)
  PROVE  Inv'
<1>1. stage[c] = "findOneOrFail" /\ stage[c] \in Waiting /\ answer[c] \in Answers
      /\ stage' = [stage EXCEPT ![c] = "operation"]
      /\ answer' = [answer EXCEPT ![c] = answer[c]]
      /\ UNCHANGED <<record, request, branch, outcome, loaded, moved, faults>>
  BY DEF FindOneOrFail, Goto, Waiting, Inv, TypeOK
<1>2. loaded' \in [Calls -> Rows \cup {NoRow}] /\ faults' \in 0..MaxFaults
  BY <1>1 DEF Inv, TypeOK
<1>3. Row(c) # NoRow /\ Row(c).hash = Hash(c) /\ branch[c] # "none"
  BY <1>1 DEF Inv, Bound, Inserted, Owning
<1> QED BY <1>1, <1>2, <1>3, QuietInv DEF Waiting, Owning

LEMMA LoadInv ==
  ASSUME Inv, NEW c \in Calls, Load(c)
  PROVE  Inv'
<1>1. stage[c] = "load" /\ stage[c] \in Waiting /\ answer[c] \in Answers
      /\ stage' = [stage EXCEPT ![c] = "save"]
      /\ answer' = [answer EXCEPT ![c] = answer[c]]
      /\ loaded' = [loaded EXCEPT ![c] = Row(c)]
      /\ UNCHANGED <<record, request, branch, outcome, moved, faults>>
  BY DEF Load, Goto, Waiting, Inv, TypeOK
<1>2. loaded' \in [Calls -> Rows \cup {NoRow}] /\ faults' \in 0..MaxFaults
  BY <1>1, RequestFacts DEF Inv, TypeOK
<1>3. Row(c) # NoRow /\ Row(c).hash = Hash(c) /\ branch[c] # "none"
      /\ outcome[c].status # "processing"
  BY <1>1 DEF Inv, Bound, Inserted, Decided, Owning
<1> QED BY <1>1, <1>2, <1>3, QuietInv DEF Waiting, Owning

LEMMA OperateInv ==
  ASSUME Inv, NEW c \in Calls, NEW o \in Outcomes, Operate(c, o)
  PROVE  Inv'
<1>1. /\ stage[c] = "operation" /\ stage' = [stage EXCEPT ![c] = "load"]
      /\ outcome' = [outcome EXCEPT ![c] = o]
      /\ UNCHANGED <<record, request, branch, loaded, faults, answer>>
  BY DEF Operate, Goto
<1>2. moved' = IF o = Completed(c) THEN moved \cup {c} ELSE moved
  BY DEF Operate
<1>3. \/ o = Completed(c) /\ o.status = "completed"
      \/ o.status = "failed"
  BY DEF Operate, Completed, Failed
<1>4. TypeOK'
  BY <1>1, <1>2 DEF Inv, TypeOK, Stages, Waiting
<1>5. stage'[c] = "load" /\ outcome'[c] = o
      /\ \A d \in Calls \ {c} : stage'[d] = stage[d] /\ outcome'[d] = outcome[d]
  BY <1>1 DEF Inv, TypeOK
<1>6. Row(c)' # NoRow /\ Row(c)'.hash = Hash(c) /\ branch'[c] # "none"
      /\ (branch'[c] = "insert" => branch[c] = "insert")
  BY <1>1 DEF Inv, Bound, Inserted, Owning, Row, Key
<1>7. outcome'[c].status = "completed" =>
        outcome'[c] = Completed(c) /\ c \in moved'
  BY <1>2, <1>3, <1>5
<1>8. moved \subseteq moved' /\ moved' \subseteq moved \cup {c}
  BY <1>2
<1> QED BY <1>1, <1>3, <1>4, <1>5, <1>6, <1>7, <1>8, OneCall

LEMMA SaveInv ==
  ASSUME Inv, NEW c \in Calls, Save(c)
  PROVE  Inv'
<1> DEFINE a == IF outcome[c] = Completed(c) THEN Ok(c) ELSE Error
<1>1. /\ stage[c] = "save" /\ stage' = [stage EXCEPT ![c] = "ended"]
      /\ answer' = [answer EXCEPT ![c] = a] /\ record' = Saved(c)
      /\ UNCHANGED <<request, branch, outcome, loaded, moved, faults>>
  BY DEF Save, Respond
<1>2. /\ Saved(c) \in [Keys -> Rows \cup {NoRow}]
      /\ Row(c) # NoRow /\ Row(c).hash = Hash(c)
      /\ Saved(c)[Key(c)] # NoRow
      /\ Saved(c)[Key(c)].hash = Hash(c)
      /\ Saved(c)[Key(c)].status = "completed" =>
           Row(c).status = "completed" \/ c \in moved
      /\ \A k \in Keys : k # Key(c) => Saved(c)[k] = record[k]
  BY <1>1, SavedFacts
<1>3. outcome[c].status = "completed" => outcome[c] = Completed(c) /\ c \in moved
  BY DEF Inv, Decided
<1>4. a \in Answers /\ (a.kind = "ok" => c \in moved)
  BY <1>3 DEF Ok, Error, Answers, Bodies, Completed
<1> HIDE DEF a
<1>5. TypeOK'
  BY <1>1, <1>2, <1>4 DEF Inv, TypeOK, Stages
<1>6. stage'[c] = "ended" /\ answer'[c] = a
      /\ \A d \in Calls \ {c} : stage'[d] = stage[d] /\ answer'[d] = answer[d]
  BY <1>1 DEF Inv, TypeOK
<1>7. \A k \in Keys : record[k] # NoRow =>
           record'[k] # NoRow /\ record'[k].hash = record[k].hash
  BY <1>1, <1>2 DEF Row
<1>8. \A k \in Keys : record'[k] # NoRow /\ record'[k].status = "completed" =>
           \/ record[k] # NoRow /\ record[k].status = "completed"
           \/ k = Key(c) /\ c \in moved
  BY <1>1, <1>2 DEF Row
<1>9. Row(c)' # NoRow /\ Row(c)'.hash = Hash(c)
  BY <1>1, <1>2, RequestFacts DEF Row, Key
<1>10. branch[c] # "none"
  BY <1>1 DEF Inv, Inserted, Owning
<1> QED
  BY <1>1, <1>3, <1>4, <1>5, <1>6, <1>7, <1>8, <1>9, <1>10, OneCall DEF Owning

\* A write that is reported as an error either took place or did not.
LEMMA WrittenFacts ==
  ASSUME Inv, NEW c \in Calls, stage[c] \in Waiting, NEW took \in BOOLEAN
  PROVE  /\ Written(c, took) \in [Keys -> Rows \cup {NoRow}]
         /\ Row(c) # NoRow =>
              /\ Written(c, took)[Key(c)] # NoRow
              /\ Written(c, took)[Key(c)].hash = Row(c).hash
         /\ Written(c, took)[Key(c)] # NoRow
            /\ Written(c, took)[Key(c)].status = "completed" =>
              \/ Row(c) # NoRow /\ Row(c).status = "completed"
              \/ c \in moved
         /\ \A k \in Keys : k # Key(c) => Written(c, took)[k] = record[k]
<1>1. stage[c] # "idle"
  BY DEF Waiting
<1>2. CASE Written(c, took) = record
  BY <1>2 DEF Inv, TypeOK, Row
<1>3. CASE Written(c, took) = Taken(c) /\ stage[c] = "update"
  <2>1. Row(c) # NoRow /\ Row(c).hash = Hash(c)
    BY <1>3 DEF Inv, Bound
  <2> QED BY <1>1, <1>3, <2>1, TakenFacts
<1>4. CASE Written(c, took) = Taken(c) /\ Row(c) = NoRow
  BY <1>1, <1>4, TakenFacts
<1>5. CASE Written(c, took) = Saved(c) /\ stage[c] = "save"
  BY <1>5, SavedFacts
<1>6. \/ Written(c, took) = record
      \/ Written(c, took) = Taken(c) /\ stage[c] = "update"
      \/ Written(c, took) = Taken(c) /\ Row(c) = NoRow
      \/ Written(c, took) = Saved(c) /\ stage[c] = "save"
  BY DEF Written
<1> QED BY <1>2, <1>3, <1>4, <1>5, <1>6

LEMMA ThrowInv ==
  ASSUME Inv, NEW c \in Calls, NEW took \in BOOLEAN, Throw(c, took)
  PROVE  Inv'
<1>1. /\ stage[c] \in Waiting /\ stage[c] # "idle" /\ faults < MaxFaults
      /\ faults' = faults + 1 /\ record' = Written(c, took)
      /\ UNCHANGED <<request, branch, loaded>>
  BY DEF Throw, Waiting
<1>2. /\ moved \subseteq moved' /\ moved' \subseteq moved \cup {c}
      /\ c \in moved' => c \in moved \/ stage[c] = "operation"
  BY DEF Throw
<1>3. faults' \in 0..MaxFaults
  BY <1>1, FaultsAssumption DEF Inv, TypeOK
<1>4. /\ record' \in [Keys -> Rows \cup {NoRow}]
      /\ Row(c) # NoRow =>
           Row(c)' # NoRow /\ Row(c)'.hash = Row(c).hash
      /\ Row(c)' # NoRow /\ Row(c)'.status = "completed" =>
           \/ Row(c) # NoRow /\ Row(c).status = "completed"
           \/ c \in moved
      /\ \A k \in Keys : k # Key(c) => record'[k] = record[k]
  BY <1>1, WrittenFacts DEF Row, Key
<1>5. \A k \in Keys : record[k] # NoRow =>
           record'[k] # NoRow /\ record'[k].hash = record[k].hash
  BY <1>1, <1>4 DEF Row, Key
<1>6. \A k \in Keys : record'[k] # NoRow /\ record'[k].status = "completed" =>
           \/ record[k] # NoRow /\ record[k].status = "completed"
           \/ k = Key(c) /\ c \in moved
  BY <1>1, <1>4 DEF Row, Key
<1>7. stage[c] \in Owning \/ c \in moved =>
        Row(c)' # NoRow /\ Row(c)'.hash = Hash(c) /\ branch'[c] # "none"
  BY <1>1, <1>4 DEF Inv, Bound, Inserted
<1>8. branch'[c] = "insert" => branch[c] = "insert" /\ Row(c)' # NoRow
  BY <1>1, <1>4 DEF Inv, Inserted
<1>9. outcome[c].status = "completed" => outcome[c] = Completed(c) /\ c \in moved
  BY DEF Inv, Decided
<1>10. CASE stage[c] = "insert" /\ Goto(c, "findDuplicate") /\ UNCHANGED outcome
  <2>1. stage'[c] = "findDuplicate" /\ answer' = answer
        /\ \A d \in Calls \ {c} : stage'[d] = stage[d]
    BY <1>10 DEF Goto, Inv, TypeOK
  <2>2. TypeOK'
    BY <1>1, <1>2, <1>3, <1>4, <1>10 DEF Goto, Inv, TypeOK, Stages, Waiting
  <2>3. c \in moved' => c \in moved
    BY <1>2, <1>10
  <2> QED
    BY <1>1, <1>2, <1>5, <1>6, <1>7, <1>8, <1>9, <1>10, <2>1, <2>2, <2>3, OneCall
    DEF Owning
<1>11. CASE Caught(c) /\ Goto(c, "load")
            /\ \E e \in Errors : outcome' = [outcome EXCEPT ![c] = Failed(e)]
  <2>1. PICK e \in Errors : outcome' = [outcome EXCEPT ![c] = Failed(e)]
    BY <1>11
  <2>2. stage'[c] = "load" /\ answer' = answer /\ outcome'[c] = Failed(e)
        /\ \A d \in Calls \ {c} : stage'[d] = stage[d] /\ outcome'[d] = outcome[d]
    BY <1>11, <2>1 DEF Goto, Inv, TypeOK
  <2>3. Failed(e) \in Outcomes /\ outcome'[c].status = "failed"
    BY <2>2 DEF Outcomes, Failed
  <2>4. TypeOK'
    BY <1>1, <1>2, <1>3, <1>4, <1>11, <2>1, <2>3
    DEF Goto, Inv, TypeOK, Stages, Waiting
  <2>5. stage[c] \in Owning
    BY <1>11 DEF Caught, Owning
  <2> QED
    BY <1>1, <1>2, <1>5, <1>6, <1>7, <1>8, <2>2, <2>3, <2>4, <2>5, OneCall
<1>12. CASE ~Caught(c) /\ Respond(c, Error) /\ UNCHANGED outcome
  <2>1. Error \in Answers /\ Error.kind # "ok"
    BY DEF Error, Answers, Bodies
  <2>2. stage'[c] = "ended" /\ answer'[c] = Error
        /\ \A d \in Calls \ {c} : stage'[d] = stage[d] /\ answer'[d] = answer[d]
    BY <1>12 DEF Respond, Inv, TypeOK
  <2>3. TypeOK'
    BY <1>1, <1>2, <1>3, <1>4, <1>12, <2>1
    DEF Respond, Inv, TypeOK, Stages, Waiting
  <2>4. c \in moved' => c \in moved
    BY <1>2, <1>12 DEF Caught
  <2> QED
    BY <1>1, <1>2, <1>5, <1>6, <1>7, <1>8, <1>9, <1>12, <2>1, <2>2, <2>3, <2>4,
       OneCall
    DEF Owning
<1> QED BY <1>10, <1>11, <1>12 DEF Throw

LEMMA DieInv ==
  ASSUME Inv, NEW c \in Calls, Die(c)
  PROVE  Inv'
<1>1. /\ stage[c] \in Waiting /\ answer[c] \in Answers
      /\ stage' = [stage EXCEPT ![c] = "dead"]
      /\ answer' = [answer EXCEPT ![c] = answer[c]]
      /\ UNCHANGED <<record, request, branch, outcome, loaded, moved>>
  BY DEF Die, Goto, Inv, TypeOK
<1>2. loaded' \in [Calls -> Rows \cup {NoRow}] /\ faults' \in 0..MaxFaults
  BY <1>1, FaultsAssumption DEF Die, Inv, TypeOK
<1> QED BY <1>1, <1>2, QuietInv DEF Waiting, Owning

LEMMA NextInv == Inv /\ [Next]_vars => Inv'
<1> SUFFICES ASSUME Inv, [Next]_vars PROVE Inv'
  OBVIOUS
<1>1. ASSUME NEW c \in Calls, NEW k \in Keys, NEW p \in Payloads, Call(c, k, p)
      PROVE  Inv'
  BY <1>1, CallInv
<1>2. ASSUME NEW c \in Calls, Step(c) PROVE Inv'
  BY <1>2, FindInv, UpdateInv, InsertInv, FindDuplicateInv, FindOneOrFailInv,
     OperateInv, LoadInv, SaveInv DEF Step
<1>3. ASSUME NEW c \in Calls, Die(c) PROVE Inv'
  BY <1>3, DieInv
<1>4. ASSUME NEW c \in Calls, NEW took \in BOOLEAN, Throw(c, took) PROVE Inv'
  BY <1>4, ThrowInv
<1>5. CASE UNCHANGED vars
  BY <1>5 DEF vars, Inv, TypeOK, Asked, Bound, Inserted, Decided, Backed,
              SuccessMeansMoved, Row, Key, Hash
<1> QED BY <1>1, <1>2, <1>3, <1>4, <1>5 DEF Next
-----------------------------------------------------------------------------
\* The inductive invariant holds.
THEOREM InvHolds == Spec => []Inv
<1>1. Init => Inv
  BY InitInv
<1>2. Inv /\ [Next]_vars => Inv'
  BY NextInv
<1> QED BY <1>1, <1>2, PTL DEF Spec

\* Every reachable state is well typed.
THEOREM Typing == Spec => []TypeOK
<1>1. Inv => TypeOK
  BY DEF Inv
<1> QED BY <1>1, InvHolds, PTL

\* Without a take-over no key moves money twice, however many calls overlap
\* and whatever fails: one call at most inserts the row.
THEOREM OneInsert == Spec => []DuplicateNeedsTakeover
<1>1. Inv => DuplicateNeedsTakeover
  <2> SUFFICES ASSUME Inv, NEW c \in moved, NEW d \in moved, c # d, Key(c) = Key(d)
      PROVE  "update" \in {branch[c], branch[d]}
    BY DEF DuplicateNeedsTakeover
  <2>1. c \in Calls /\ d \in Calls
    BY DEF Inv, TypeOK
  <2>2. branch[c] \in {"insert", "update"} /\ branch[d] \in {"insert", "update"}
    BY <2>1 DEF Inv, TypeOK, Inserted
  <2>3. ~(branch[c] = "insert" /\ branch[d] = "insert")
    BY <2>1 DEF Inv, Inserted
  <2> QED BY <2>2, <2>3
<1> QED BY <1>1, InvHolds, PTL

\* All movements under one key are of one payload, whatever else goes wrong.
THEOREM KeysBindPayloads == Spec => []OnePayloadPerKey
<1>1. Inv => OnePayloadPerKey
  BY DEF Inv, TypeOK, OnePayloadPerKey, Bound, Row, Key
<1> QED BY <1>1, InvHolds, PTL

\* Every success that is answered has a committed movement behind it.
THEOREM NoFalseSuccess == Spec => []SuccessMeansMoved
<1>1. Inv => SuccessMeansMoved
  BY DEF Inv
<1> QED BY <1>1, InvHolds, PTL
-----------------------------------------------------------------------------
(***************************************************************************)
(* ConflictIsTrue.  The last call to take a key is still at work as long   *)
(* as the row is PROCESSING: its save cannot leave the row so, because it  *)
(* has loaded the row PROCESSING.  Saves of earlier owners may.            *)
(***************************************************************************)
Works(c) ==
    \/ stage[c] \in {"findOneOrFail", "operation", "load"}
    \/ stage[c] = "save" /\ loaded[c].status = "processing"

InProgress ==
    faults = 0 =>
      \A k \in Keys : record[k] # NoRow /\ record[k].status = "processing" =>
        \E d \in Calls : Key(d) = k /\ Works(d)

\* A step of c that leaves the rows alone, and does not stop working.
LEMMA StillInProgress ==
  ASSUME Inv, InProgress, NEW c \in Calls, faults' = faults,
         \A d \in Calls \ {c} : stage'[d] = stage[d] /\ loaded'[d] = loaded[d]
                                 /\ request'[d] = request[d],
         record' = record, request'[c] = request[c] \/ ~Works(c),
         Works(c) /\ (Row(c) # NoRow /\ Row(c).status = "processing") => Works(c)'
  PROVE  InProgress'
<1> SUFFICES ASSUME faults = 0, NEW k \in Keys,
                    record[k] # NoRow, record[k].status = "processing"
    PROVE  \E d \in Calls : Key(d)' = k /\ Works(d)'
  BY DEF InProgress
<1>1. PICK d \in Calls : Key(d) = k /\ Works(d)
  BY DEF InProgress
<1>2. CASE d = c
  BY <1>1, <1>2 DEF Key, Row
<1>3. CASE d # c
  BY <1>1, <1>3 DEF Key, Works
<1> QED BY <1>2, <1>3

\* A step of c that writes its own row; if it leaves the row PROCESSING, then
\* it works on it from now on, or did not work on it before.
LEMMA InProgressAfterWrite ==
  ASSUME Inv, InProgress, NEW c \in Calls, faults' = faults, request' = request,
         \A d \in Calls \ {c} : stage'[d] = stage[d] /\ loaded'[d] = loaded[d],
         \A k \in Keys : k # Key(c) => record'[k] = record[k],
         Row(c)' # NoRow /\ Row(c)'.status = "processing" =>
           \/ Works(c)'
           \/ Row(c) # NoRow /\ Row(c).status = "processing" /\ ~Works(c)
  PROVE  InProgress'
<1> SUFFICES ASSUME faults = 0, NEW k \in Keys,
                    record'[k] # NoRow, record'[k].status = "processing"
    PROVE  \E d \in Calls : Key(d)' = k /\ Works(d)'
  BY DEF InProgress
<1>1. CASE k = Key(c) /\ Works(c)'
  BY <1>1 DEF Key
<1>2. CASE k = Key(c) /\ ~Works(c)'
  <2>1. record[k] # NoRow /\ record[k].status = "processing" /\ ~Works(c)
    BY <1>2 DEF Row, Key
  <2>2. PICK d \in Calls : Key(d) = k /\ Works(d)
    BY <2>1 DEF InProgress
  <2>3. d # c
    BY <2>1, <2>2
  <2> QED BY <2>2, <2>3 DEF Key, Works
<1>3. CASE k # Key(c)
  <2>1. PICK d \in Calls : Key(d) = k /\ Works(d)
    BY <1>3 DEF InProgress
  <2> QED BY <1>3, <2>1 DEF Key, Works
<1> QED BY <1>1, <1>2, <1>3

LEMMA InProgressNext == Inv /\ InProgress /\ [Next]_vars => InProgress'
<1> SUFFICES ASSUME Inv, InProgress, [Next]_vars PROVE InProgress'
  OBVIOUS
<1>1. ASSUME NEW c \in Calls, NEW k \in Keys, NEW p \in Payloads, Call(c, k, p)
      PROVE  InProgress'
  BY <1>1, StillInProgress DEF Call, Goto, Works, Inv, TypeOK
<1>2. ASSUME NEW c \in Calls, Find(c) \/ FindDuplicate(c) PROVE InProgress'
  <2>1. ~Works(c) /\ UNCHANGED <<record, request, loaded, faults>>
    BY <1>2 DEF Find, FindDuplicate, Works
  <2>2. \A d \in Calls \ {c} : stage'[d] = stage[d]
    BY <1>2 DEF Find, FindDuplicate, Goto, Respond, Inv, TypeOK
  <2> QED BY <2>1, <2>2, StillInProgress
<1>3. ASSUME NEW c \in Calls, FindOneOrFail(c) PROVE InProgress'
  BY <1>3, StillInProgress DEF FindOneOrFail, Goto, Works, Inv, TypeOK
<1>4. ASSUME NEW c \in Calls, NEW o \in Outcomes, Operate(c, o) PROVE InProgress'
  BY <1>4, StillInProgress DEF Operate, Goto, Works, Inv, TypeOK
<1>5. ASSUME NEW c \in Calls, Load(c) PROVE InProgress'
  BY <1>5, StillInProgress DEF Load, Goto, Works, Inv, TypeOK
<1>6. ASSUME NEW c \in Calls, Update(c) PROVE InProgress'
  <2>1. Row(c) # NoRow /\ Row(c).hash = Hash(c) /\ stage[c] # "idle"
    BY <1>6 DEF Update, Inv, Bound
  <2>2. \A k \in Keys : k # Key(c) => record'[k] = record[k]
    BY <1>6, <2>1, TakenFacts DEF Update
  <2>3. Works(c)' /\ \A d \in Calls \ {c} : stage'[d] = stage[d]
    BY <1>6 DEF Update, Goto, Works, Inv, TypeOK
  <2> QED BY <1>6, <2>2, <2>3, InProgressAfterWrite DEF Update
<1>7. ASSUME NEW c \in Calls, Insert(c) PROVE InProgress'
  <2>1. UNCHANGED <<request, loaded, faults>> /\ stage[c] = "insert"
    BY <1>7 DEF Insert
  <2>2. CASE Row(c) = NoRow
    <3>1. \A k \in Keys : k # Key(c) => record'[k] = record[k]
      BY <1>7, <2>1, <2>2, TakenFacts DEF Insert
    <3>2. Works(c)' /\ \A d \in Calls \ {c} : stage'[d] = stage[d]
      BY <1>7, <2>2 DEF Insert, Goto, Works, Inv, TypeOK
    <3> QED BY <2>1, <3>1, <3>2, InProgressAfterWrite
  <2>3. CASE Row(c) # NoRow
    <3>1. ~Works(c) /\ record' = record
      BY <1>7, <2>3 DEF Insert, Works
    <3>2. \A d \in Calls \ {c} : stage'[d] = stage[d]
      BY <1>7, <2>3 DEF Insert, Goto, Inv, TypeOK
    <3> QED BY <2>1, <3>1, <3>2, StillInProgress
  <2> QED BY <2>2, <2>3
<1>8. ASSUME NEW c \in Calls, Save(c) PROVE InProgress'
  <2>1. /\ stage[c] = "save" /\ record' = Saved(c)
        /\ UNCHANGED <<request, loaded, faults>>
    BY <1>8 DEF Save
  <2>2. Row(c) # NoRow /\ Key(c) \in Keys
        /\ \A k \in Keys : k # Key(c) => record'[k] = record[k]
    BY <2>1, SavedFacts, RequestFacts
  <2>3. Row(c)'.status = IF outcome[c].status = loaded[c].status
                         THEN Row(c).status ELSE outcome[c].status
    BY <2>1, <2>2 DEF Saved, Row, Key, Inv, TypeOK
  <2>4. outcome[c].status # "processing"
    BY <2>1 DEF Inv, Decided
  <2>5. Row(c)'.status = "processing" => Row(c).status = "processing" /\ ~Works(c)
    BY <2>1, <2>3, <2>4 DEF Works
  <2>6. \A d \in Calls \ {c} : stage'[d] = stage[d]
    BY <1>8 DEF Save, Respond, Inv, TypeOK
  <2> QED BY <2>1, <2>2, <2>5, <2>6, InProgressAfterWrite
<1>9. ASSUME NEW c \in Calls, NEW took \in BOOLEAN, Throw(c, took) \/ Die(c)
      PROVE  InProgress'
  <2>1. faults' = faults + 1 /\ faults \in Nat
    BY <1>9, FaultsAssumption DEF Throw, Die, Inv, TypeOK
  <2> QED BY <2>1 DEF InProgress
<1>10. CASE UNCHANGED vars
  BY <1>10 DEF vars, InProgress, Works, Key
<1> QED
  BY <1>1, <1>2, <1>3, <1>4, <1>5, <1>6, <1>7, <1>8, <1>9, <1>10 DEF Next, Step

\* As long as nothing has failed, "already being processed" is said only while
\* another call is at work on the key.
THEOREM ConflictsAreTrue == Spec => ConflictIsTrue
<1> DEFINE Answered ==
      \A c \in Calls : answer[c] # Conflict /\ answer'[c] = Conflict
                         => Owners(Key(c)) # {} \/ faults > 0
<1>1. Init => InProgress
  BY DEF Init, InProgress
<1>2. Inv /\ InProgress /\ [Next]_vars => [Answered]_vars
  <2> SUFFICES ASSUME Inv, InProgress, Next, NEW c \in Calls,
                      answer[c] # Conflict, answer'[c] = Conflict, faults = 0
      PROVE  Owners(Key(c)) # {}
    BY FaultsAssumption DEF Inv, TypeOK
  <2>1. Find(c) /\ Row(c) # NoRow /\ Row(c).status = "processing"
    <3>1. \A b \in Bodies : Ok(b) # Conflict
      BY DEF Ok, Conflict
    <3>2. Mismatch # Conflict /\ Error # Conflict
      BY DEF Mismatch, Error, Conflict
    <3>3. answer \in [Calls -> Answers]
      BY DEF Inv, TypeOK
    <3>4. PICK d \in Calls :
            \/ \E k \in Keys, p \in Payloads : Call(d, k, p)
            \/ Step(d) \/ Die(d) \/ \E took \in BOOLEAN : Throw(d, took)
      BY DEF Next
    <3>5. CASE \E k \in Keys, p \in Payloads : Call(d, k, p)
      BY <3>5 DEF Call, Goto
    <3>6. CASE Die(d)
      BY <3>6 DEF Die, Goto
    <3>7. CASE \E took \in BOOLEAN : Throw(d, took)
      BY <3>2, <3>3, <3>7 DEF Throw, Goto, Respond
    <3>8. CASE Update(d) \/ Insert(d) \/ FindOneOrFail(d) \/ Load(d)
               \/ \E o \in Outcomes : Operate(d, o)
      BY <3>8 DEF Update, Insert, FindOneOrFail, Load, Operate, Goto
    <3>9. CASE Save(d)
      <4>1. Ok(d) # Conflict
        BY <3>1 DEF Bodies
      <4> QED BY <3>2, <3>3, <3>9, <4>1 DEF Save, Respond
    <3>10. CASE FindDuplicate(d)
      <4>1. Row(d) # NoRow => Ok(Row(d).body) # Conflict
        BY DEF Ok, Conflict
      <4> QED BY <3>2, <3>3, <3>10, <4>1 DEF FindDuplicate, Respond
    <3>11. CASE Find(d)
      <4>1. Ok(Row(d).body) # Conflict
        BY DEF Ok, Conflict
      <4>2. d = c
        BY <3>3, <3>11 DEF Find, Goto, Respond
      <4> QED BY <3>2, <3>3, <3>11, <4>1, <4>2 DEF Find, Goto, Respond
    <3> QED
      BY <3>4, <3>5, <3>6, <3>7, <3>8, <3>9, <3>10, <3>11 DEF Step
  <2>2. PICK d \in Calls : Key(d) = Key(c) /\ Works(d)
    BY <2>1, RequestFacts DEF InProgress, Row, Find
  <2> QED BY <2>2 DEF Owners, Works
<1> QED BY <1>1, <1>2, InProgressNext, InvHolds, PTL DEF Spec, ConflictIsTrue

-----------------------------------------------------------------------------
(***************************************************************************)
(* ResultsAreKept.  While nobody has taken a key over, its row is written  *)
(* by the call that inserted it alone: what that call has loaded is still  *)
(* the row, a result in it is its own, and nobody is about to take it over *)
(* before it has saved FAILED, as the last thing it does.                  *)
(***************************************************************************)
Untaken(k) == \A d \in Calls : branch[d] = "update" => Key(d) # k

SoleWriter(c) ==
    stage[c] \in Owning /\ Untaken(Key(c)) =>
      /\ Row(c).status # "failed"
      /\ Row(c).status = "completed" => Row(c).body = c
      /\ stage[c] = "save" => loaded[c] = Row(c)
      /\ \A d \in Calls : stage[d] = "update" => Key(d) # Key(c)

Awaits(c) ==
    stage[c] = "update" /\ Untaken(Key(c)) => Row(c).status # "completed"

Begins(c) == stage[c] \in {"findOne", "insert"} => branch[c] = "none"

Undisturbed == \A c \in Calls : SoleWriter(c) /\ Awaits(c) /\ Begins(c)

\* Who owns a key that was never taken over is alone with it.
LEMMA AloneWithIt ==
  ASSUME Inv, Undisturbed, NEW c \in Calls, stage[c] \in Owning, Untaken(Key(c)),
         NEW d \in Calls \ {c}, Key(d) = Key(c)
  PROVE  stage[d] \notin Owning \cup {"update"}
<1>1. stage[d] # "update"
  BY DEF Undisturbed, SoleWriter
<1>2. stage[d] \notin Owning
  BY DEF Inv, TypeOK, Inserted, Untaken
<1> QED BY <1>1, <1>2

\* Every action but Call: a step of c that writes its own row at most.
LEMMA UndisturbedStep ==
  ASSUME Inv, Undisturbed, NEW c \in Calls, stage[c] # "idle", request' = request,
         \A d \in Calls \ {c} : /\ stage'[d] = stage[d] /\ branch'[d] = branch[d]
                                 /\ loaded'[d] = loaded[d],
         branch[c] = "update" => branch'[c] = "update",
         stage'[c] \in {"findOne", "insert"} => branch'[c] = "none",
         \A k \in Keys : k # Key(c) => record'[k] = record[k],
         Untaken(Key(c))' =>
           /\ \A d \in Calls \ {c} : stage[d] \in Owning /\ Key(d) = Key(c) =>
                Row(c)' = Row(c) /\ stage'[c] # "update"
           /\ \A d \in Calls \ {c} : stage[d] = "update" /\ Key(d) = Key(c) =>
                Row(c)'.status # "completed" /\ stage'[c] \notin Owning
           /\ stage'[c] \in Owning =>
                /\ Row(c)'.status # "failed"
                /\ Row(c)'.status = "completed" => Row(c)'.body = c
                /\ stage'[c] = "save" => loaded'[c] = Row(c)'
           /\ stage'[c] = "update" => Row(c)'.status # "completed"
  PROVE  Undisturbed'
<1> SUFFICES ASSUME NEW d \in Calls PROVE SoleWriter(d)' /\ Awaits(d)'
  BY DEF Undisturbed, Begins
<1>1. \A k : Untaken(k)' => Untaken(k)
  BY DEF Untaken, Key
<1>2. \A e \in Calls : Key(e)' = Key(e)
  BY DEF Key
<1>3. \A e \in Calls : stage[e] # "idle" => Key(e) \in Keys
  BY RequestFacts
<1>4. SoleWriter(d) /\ Awaits(d)
  BY DEF Undisturbed
<1>5. CASE d = c
  <2>1. ASSUME stage'[c] \in Owning, Untaken(Key(c))', NEW e \in Calls,
               stage'[e] = "update"
        PROVE  Key(e)' # Key(c)'
    BY <1>2, <2>1 DEF Owning
  <2> QED BY <1>2, <1>5, <2>1 DEF SoleWriter, Awaits
<1>6. CASE d # c /\ Key(d) = Key(c)
  <2>1. Row(d)' = Row(c)' /\ Row(d) = Row(c)
    BY <1>2, <1>6 DEF Row
  <2>2. ASSUME stage[d] \in Owning, Untaken(Key(c))'
        PROVE  /\ Row(c)' = Row(c)
               /\ \A e \in Calls : stage'[e] = "update" => Key(e)' # Key(d)'
    BY <1>1, <1>2, <1>4, <1>6, <2>2 DEF SoleWriter
  <2>3. SoleWriter(d)'
    BY <1>1, <1>2, <1>4, <1>6, <2>1, <2>2 DEF SoleWriter
  <2>4. Awaits(d)'
    BY <1>2, <1>6, <2>1 DEF Awaits
  <2> QED BY <2>3, <2>4
<1>7. CASE d # c /\ Key(d) # Key(c)
  <2>1. stage[d] # "idle" => Row(d)' = Row(d)
    BY <1>2, <1>3, <1>7 DEF Row
  <2>2. \A e \in Calls : stage'[e] = "update" /\ Key(e)' = Key(d)' => stage[e] = "update"
    BY <1>2, <1>7
  <2> QED BY <1>1, <1>2, <1>4, <1>7, <2>1, <2>2 DEF SoleWriter, Awaits, Owning
<1> QED BY <1>5, <1>6, <1>7

\* A step that writes no row and begins neither to own nor to take over.
LEMMA UndisturbedQuiet ==
  ASSUME Inv, Undisturbed, NEW c \in Calls, stage[c] # "idle",
         UNCHANGED <<request, branch, record>>,
         \A d \in Calls \ {c} : stage'[d] = stage[d] /\ loaded'[d] = loaded[d],
         stage'[c] # "update",
         stage'[c] \in Owning => stage[c] \in Owning,
         stage'[c] \in {"findOne", "insert"} => stage[c] \in {"findOne", "insert"},
         stage'[c] = "save" => loaded'[c] = Row(c)
  PROVE  Undisturbed'
<1>1. Row(c)' = Row(c) /\ (Untaken(Key(c))' => Untaken(Key(c)))
  BY DEF Row, Key, Untaken
<1>2. ASSUME Untaken(Key(c)), NEW d \in Calls \ {c}, stage[d] = "update",
             Key(d) = Key(c)
      PROVE  Row(c).status # "completed" /\ stage'[c] \notin Owning
  <2>1. Row(c) = Row(d) /\ Untaken(Key(d))
    BY <1>2 DEF Row
  <2>2. Row(c).status # "completed"
    BY <1>2, <2>1 DEF Undisturbed, Awaits
  <2>3. stage[c] \notin Owning
    BY <1>2, AloneWithIt
  <2> QED BY <2>2, <2>3
<1>3. Untaken(Key(c)) /\ stage'[c] \in Owning =>
        /\ Row(c).status # "failed"
        /\ Row(c).status = "completed" => Row(c).body = c
  BY DEF Undisturbed, SoleWriter
<1>4. stage'[c] \in {"findOne", "insert"} => branch[c] = "none"
  BY DEF Undisturbed, Begins
<1> QED BY <1>1, <1>2, <1>3, <1>4, UndisturbedStep

\* The owner of a key that was never taken over saves: the row is its outcome.
LEMMA SavedAlone ==
  ASSUME Inv, Undisturbed, NEW c \in Calls, stage[c] = "save", Untaken(Key(c))
  PROVE  /\ Saved(c)[Key(c)].status = outcome[c].status
         /\ Saved(c)[Key(c)].body = outcome[c].body
<1>1. loaded[c] = Row(c)
  BY DEF Undisturbed, SoleWriter, Owning
<1>2. Key(c) \in Keys /\ record \in [Keys -> Rows \cup {NoRow}]
  BY RequestFacts DEF Inv, TypeOK
<1> QED BY <1>1, <1>2 DEF Saved

LEMMA UndisturbedCall ==
  ASSUME Inv, Undisturbed, NEW c \in Calls, NEW k \in Keys, NEW p \in Payloads,
         Call(c, k, p)
  PROVE  Undisturbed'
<1>1. /\ stage[c] = "idle" /\ stage'[c] = "findOne" /\ branch[c] = "none"
      /\ UNCHANGED <<record, branch, loaded>>
      /\ \A d \in Calls \ {c} : stage'[d] = stage[d] /\ request'[d] = request[d]
  BY DEF Call, Goto, Inv, TypeOK, Asked
<1>2. \A d \in Calls \ {c} : Key(d)' = Key(d) /\ Row(d)' = Row(d)
  BY <1>1 DEF Key, Row
<1>3. \A l : Untaken(l)' => Untaken(l)
  BY <1>1, <1>2 DEF Untaken
<1> QED BY <1>1, <1>2, <1>3 DEF Undisturbed, SoleWriter, Awaits, Begins, Owning

\* Only a row that its inserter has left FAILED is taken over.
LEMMA UndisturbedFind ==
  ASSUME Inv, Undisturbed, NEW c \in Calls, Find(c)
  PROVE  Undisturbed'
<1>1. /\ stage[c] = "findOne" /\ UNCHANGED <<record, request, branch, loaded>>
      /\ \A d \in Calls \ {c} : stage'[d] = stage[d]
      /\ stage'[c] \notin Owning
      /\ stage'[c] = "update" => Row(c) # NoRow /\ Row(c).status = "failed"
  BY DEF Find, Goto, Respond, Inv, TypeOK, Owning
<1>2. CASE stage'[c] # "update"
  BY <1>1, <1>2, UndisturbedQuiet DEF Owning
<1>3. CASE stage'[c] = "update"
  <2>1. Row(c)' = Row(c) /\ Row(c).status = "failed"
        /\ (Untaken(Key(c))' => Untaken(Key(c)))
    BY <1>1, <1>3 DEF Row, Key, Untaken
  <2>2. ASSUME Untaken(Key(c)), NEW d \in Calls, stage[d] \in Owning
        PROVE  Key(d) # Key(c)
    BY <2>1, <2>2 DEF Undisturbed, SoleWriter, Row
  <2>3. Row(c)'.status # "completed" /\ stage'[c] \notin Owning \cup {"findOne", "insert"}
    BY <1>3, <2>1 DEF Owning
  <2>4. \A k \in Keys : record'[k] = record[k]
    BY <1>1
  <2>5. ASSUME Untaken(Key(c))'
        PROVE  \A d \in Calls \ {c} :
                 stage[d] \in Owning \cup {"update"} /\ Key(d) = Key(c) =>
                   stage[d] = "update"
    BY <2>1, <2>2, <2>5
  <2> QED BY <1>1, <1>3, <2>1, <2>2, <2>3, <2>4, UndisturbedStep
<1> QED BY <1>2, <1>3

\* A row is inserted only where there was none, and nobody at work on it.
LEMMA UndisturbedInsert ==
  ASSUME Inv, Undisturbed, NEW c \in Calls, stage[c] = "insert", Row(c) = NoRow,
         record' = Taken(c), UNCHANGED <<request, loaded>>,
         \A d \in Calls \ {c} : stage'[d] = stage[d] /\ branch'[d] = branch[d],
         stage'[c] \in {"findOneOrFail", "findDuplicate", "ended"}
  PROVE  Undisturbed'
<1>1. /\ Row(c)'.status = "processing"
      /\ \A k \in Keys : k # Key(c) => record'[k] = record[k]
  BY TakenFacts DEF Row, Key
<1>2. \A d \in Calls : Key(d) = Key(c) => stage[d] \notin Owning \cup {"update"}
  BY DEF Inv, Bound, Row
<1>3. branch[c] = "none"
  BY DEF Undisturbed, Begins
<1> QED BY <1>1, <1>2, <1>3, UndisturbedStep

\* Whoever takes the key over makes the claim void for it, or is too late: an
\* UPDATE whose acknowledgement is lost leaves the row PROCESSING.
LEMMA UndisturbedUpdate ==
  ASSUME Inv, Undisturbed, NEW c \in Calls, stage[c] = "update",
         record' = Taken(c), UNCHANGED <<request, loaded>>,
         \A d \in Calls \ {c} : stage'[d] = stage[d] /\ branch'[d] = branch[d],
         \/ branch'[c] = "update" /\ stage'[c] = "findOneOrFail"
         \/ branch'[c] = branch[c] /\ stage'[c] = "ended"
  PROVE  Undisturbed'
<1>1. Row(c) # NoRow /\ Row(c).hash = Hash(c)
  BY DEF Inv, Bound
<1>2. /\ Row(c)'.status = "processing"
      /\ \A k \in Keys : k # Key(c) => record'[k] = record[k]
  BY <1>1, TakenFacts DEF Row, Key
<1>3. Untaken(Key(c))' => Untaken(Key(c)) /\ branch'[c] # "update"
  BY DEF Untaken, Key
<1>4. ASSUME Untaken(Key(c)), NEW d \in Calls, stage[d] \in Owning
      PROVE  Key(d) # Key(c)
  BY <1>4 DEF Undisturbed, SoleWriter
<1> QED BY <1>2, <1>3, <1>4, UndisturbedStep DEF Owning

\* The owner saves, and is done, or has been told that saving failed.
LEMMA UndisturbedSave ==
  ASSUME Inv, Undisturbed, NEW c \in Calls, stage[c] = "save",
         record' = Saved(c), UNCHANGED <<request, branch, loaded>>,
         \A d \in Calls \ {c} : stage'[d] = stage[d],
         stage'[c] = "ended" \/ (stage'[c] = "load" /\ outcome[c] = Completed(c))
  PROVE  Undisturbed'
<1>1. Untaken(Key(c))' => Untaken(Key(c))
  BY DEF Untaken, Key
<1>2. \A k \in Keys : k # Key(c) => record'[k] = record[k]
  BY SavedFacts
<1>3. ASSUME Untaken(Key(c)), NEW d \in Calls \ {c}, Key(d) = Key(c)
      PROVE  stage[d] \notin Owning \cup {"update"}
  BY <1>3, AloneWithIt DEF Owning
<1>4. ASSUME Untaken(Key(c)), stage'[c] \in Owning
      PROVE  Row(c)'.status = "completed" /\ Row(c)'.body = c
  <2>1. Row(c)'.status = outcome[c].status /\ Row(c)'.body = outcome[c].body
    BY <1>4, SavedAlone DEF Row, Key
  <2> QED BY <1>4, <2>1 DEF Owning, Completed
<1> QED BY <1>1, <1>2, <1>3, <1>4, UndisturbedStep

LEMMA UndisturbedThrow ==
  ASSUME Inv, Undisturbed, NEW c \in Calls, NEW took \in BOOLEAN, Throw(c, took)
  PROVE  Undisturbed'
<1>1. /\ stage[c] \in Waiting /\ record' = Written(c, took)
      /\ UNCHANGED <<request, branch, loaded>>
      /\ \A d \in Calls \ {c} : stage'[d] = stage[d]
      /\ \/ stage[c] = "insert" /\ stage'[c] = "findDuplicate"
         \/ Caught(c) /\ stage'[c] = "load"
         \/ stage'[c] = "ended"
  BY DEF Throw, Goto, Respond, Inv, TypeOK
<1>2. CASE record' = record
  BY <1>1, <1>2, UndisturbedQuiet DEF Owning, Waiting, Caught
<1>3. CASE stage[c] = "update" /\ record' = Taken(c)
  BY <1>1, <1>3, UndisturbedUpdate DEF Caught
<1>4. CASE stage[c] = "insert" /\ Row(c) = NoRow /\ record' = Taken(c)
  <2>1. stage'[c] \in {"findOneOrFail", "findDuplicate", "ended"}
    BY <1>1, <1>4 DEF Caught
  <2> QED BY <1>1, <1>4, <2>1, UndisturbedInsert
<1>5. CASE stage[c] = "save" /\ record' = Saved(c)
  <2>1. outcome[c] \in Outcomes
    BY DEF Inv, TypeOK
  <2>2. stage'[c] = "ended" \/ (stage'[c] = "load" /\ outcome[c] = Completed(c))
    BY <1>1, <1>5 DEF Caught
  <2>3. UNCHANGED <<request, branch, loaded>>
    BY <1>1
  <2>4. \A d \in Calls \ {c} : stage'[d] = stage[d]
    BY <1>1
  <2> QED BY <1>5, <2>2, <2>3, <2>4, UndisturbedSave
<1> QED BY <1>1, <1>2, <1>3, <1>4, <1>5 DEF Written

LEMMA UndisturbedNext == Inv /\ Undisturbed /\ [Next]_vars => Undisturbed'
<1> SUFFICES ASSUME Inv, Undisturbed, [Next]_vars PROVE Undisturbed'
  OBVIOUS
<1>1. ASSUME NEW c \in Calls, NEW k \in Keys, NEW p \in Payloads, Call(c, k, p)
      PROVE  Undisturbed'
  BY <1>1, UndisturbedCall
<1>2. ASSUME NEW c \in Calls, Step(c) PROVE Undisturbed'
  <2>1. ASSUME Update(c) PROVE Undisturbed'
    BY <2>1, UndisturbedUpdate DEF Update, Goto, Inv, TypeOK
  <2>2. ASSUME Insert(c) PROVE Undisturbed'
    <3>1. CASE Row(c) = NoRow
      BY <2>2, <3>1, UndisturbedInsert DEF Insert, Goto, Inv, TypeOK
    <3>2. CASE Row(c) # NoRow
      BY <2>2, <3>2, UndisturbedQuiet DEF Insert, Goto, Inv, TypeOK, Owning
    <3> QED BY <3>1, <3>2
  <2>3. ASSUME FindDuplicate(c) PROVE Undisturbed'
    BY <2>3, UndisturbedQuiet DEF FindDuplicate, Respond, Inv, TypeOK, Owning
  <2>4. ASSUME FindOneOrFail(c) PROVE Undisturbed'
    BY <2>4, UndisturbedQuiet DEF FindOneOrFail, Goto, Inv, TypeOK, Owning
  <2>5. ASSUME NEW o \in Outcomes, Operate(c, o) PROVE Undisturbed'
    BY <2>5, UndisturbedQuiet DEF Operate, Goto, Inv, TypeOK, Owning
  <2>6. ASSUME Load(c) PROVE Undisturbed'
    <3>1. /\ stage[c] = "load" /\ stage'[c] = "save" /\ loaded'[c] = Row(c)
          /\ UNCHANGED <<record, request, branch>>
          /\ \A d \in Calls \ {c} : stage'[d] = stage[d] /\ loaded'[d] = loaded[d]
      BY <2>6 DEF Load, Goto, Inv, TypeOK
    <3> QED BY <3>1, UndisturbedQuiet DEF Owning
  <2>7. ASSUME Save(c) PROVE Undisturbed'
    <3>1. stage[c] = "save" /\ record' = Saved(c)
      BY <2>7 DEF Save
    <3>2. UNCHANGED <<request, branch, loaded>>
      BY <2>7 DEF Save
    <3>3. stage'[c] = "ended" /\ \A d \in Calls \ {c} : stage'[d] = stage[d]
      BY <2>7 DEF Save, Respond, Inv, TypeOK
    <3> QED BY <3>1, <3>2, <3>3, UndisturbedSave
  <2> QED BY <1>2, <2>1, <2>2, <2>3, <2>4, <2>5, <2>6, <2>7, UndisturbedFind DEF Step
<1>3. ASSUME NEW c \in Calls, Die(c) PROVE Undisturbed'
  BY <1>3, UndisturbedQuiet DEF Die, Goto, Inv, TypeOK, Owning, Waiting
<1>4. ASSUME NEW c \in Calls, NEW took \in BOOLEAN, Throw(c, took) PROVE Undisturbed'
  BY <1>4, UndisturbedThrow
<1>5. CASE UNCHANGED vars
  BY <1>5 DEF vars, Undisturbed, SoleWriter, Awaits, Begins, Untaken, Row, Key
<1> QED BY <1>1, <1>2, <1>3, <1>4, <1>5 DEF Next

(***************************************************************************)
(* A stored result is overwritten only after a take-over of its key, or by *)
(* the call whose result it is, when storing it was reported as failed:    *)
(* whatever fails, a call that inserted its key is alone in writing it.    *)
(***************************************************************************)
THEOREM ResultsKept == Spec => ResultsAreKept
<1>1. Init => Undisturbed
  BY DEF Init, Undisturbed, SoleWriter, Awaits, Begins, Owning
<1>2. ASSUME Inv, Undisturbed, Next, NEW k \in Keys, record[k] # NoRow,
             record[k].status = "completed", record'[k] # record[k]
      PROVE  \E c \in Calls :
               \/ branch[c] = "update" /\ Key(c) = k
               \/ stage[c] = "save" /\ Key(c) = k /\ record[k].body = c
  <2>1. PICK c \in Calls : \/ Update(c) \/ Insert(c) \/ Save(c)
                           \/ \E took \in BOOLEAN : Throw(c, took)
    BY <1>2 DEF Next, Call, Step, Find, FindDuplicate, FindOneOrFail, Operate,
                Load, Die
  <2>2. \/ stage[c] = "update" /\ record' = Taken(c)
        \/ stage[c] = "insert" /\ Row(c) = NoRow /\ record' = Taken(c)
        \/ stage[c] = "save" /\ record' = Saved(c)
    BY <1>2, <2>1 DEF Update, Insert, Save, Throw, Written
  <2>3. Key(c) = k
    <3>1. stage[c] \in {"insert", "update"} => Row(c) = NoRow \/ Row(c).hash = Hash(c)
      BY <1>2, <2>2 DEF Inv, Bound
    <3>2. CASE record' = Taken(c) /\ stage[c] \in {"insert", "update"}
      BY <1>2, <3>1, <3>2, TakenFacts
    <3>3. CASE record' = Saved(c) /\ stage[c] = "save"
      BY <1>2, <3>3, SavedFacts
    <3> QED BY <2>2, <3>2, <3>3
  <2>4. CASE stage[c] = "insert" /\ Row(c) = NoRow
    BY <1>2, <2>3, <2>4 DEF Row
  <2>5. CASE stage[c] = "update"
    BY <1>2, <2>3, <2>5 DEF Undisturbed, Awaits, Untaken, Row
  <2>6. CASE stage[c] = "save"
    BY <1>2, <2>3, <2>6 DEF Undisturbed, SoleWriter, Untaken, Row, Owning
  <2> QED BY <2>2, <2>4, <2>5, <2>6
<1>3. ASSUME Inv, Undisturbed, [Next]_vars
      PROVE  [\A k \in Keys :
                (/\ record[k] # NoRow /\ record[k].status = "completed"
                 /\ record'[k] # record[k])
                  => \E c \in Calls :
                       \/ branch[c] = "update" /\ Key(c) = k
                       \/ stage[c] = "save" /\ Key(c) = k /\ record[k].body = c]_vars
  BY <1>2, <1>3
<1> QED BY <1>1, <1>3, UndisturbedNext, InvHolds, PTL DEF Spec, ResultsAreKept

=============================================================================

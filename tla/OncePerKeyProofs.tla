---------------------------- MODULE OncePerKeyProofs ----------------------------
(***************************************************************************)
(* What Idempotency promises as long as a client waits for its answer      *)
(* before it retries: it implements OncePerKey until the first fault, and  *)
(* after any number of faults money moves again for a key only if the      *)
(* result of the first movement was lost.                                  *)
(*                                                                         *)
(* The invariant Single says why: one call at most is under way per key,   *)
(* and a movement whose result is not lost keeps its row from being FAILED *)
(* and everybody else from taking the key.  Smooth describes the calls as  *)
(* long as nothing has failed.                                             *)
(***************************************************************************)
EXTENDS IdempotencyProofs

\* The stages of a call that has seen the key free, or has taken it.
Taking == Owning \cup {"update", "insert"}

\* Clients do not overlap their calls.
Alone ==
    \A c, d \in Calls :
      stage[c] \in Waiting /\ stage[d] \in Waiting /\ Key(c) = Key(d) => c = d

\* Who has moved money is past its operation.
Past == \A c \in moved : stage[c] \in {"load", "save", "ended", "dead"}

\* The row of a call that is to run its operation is not FAILED.
Ready ==
    \A c \in Calls :
      stage[c] \in {"findOneOrFail", "operation"} => Row(c).status # "failed"

\* A movement whose result is not lost keeps its key.
Kept ==
    \A d \in moved : outcome[d].status # "failed" =>
      /\ Row(d).status # "failed"
      /\ \A c \in Calls \ {d} : Key(c) = Key(d) => stage[c] \notin Taking

\* Of two movements for one key, the result of one was lost.
Sole ==
    \A c, d \in moved :
      c # d /\ Key(c) = Key(d) =>
        "failed" \in {outcome[c].status, outcome[d].status}

Single ==
    /\ Alone
    /\ Past
    /\ Ready
    /\ Kept
    /\ Sole

-----------------------------------------------------------------------------
LEMMA InitSingle == Init => Single
BY DEF Init, Single, Alone, Past, Ready, Kept, Sole, Waiting

\* A client sends a request, none of that key being under way.
LEMMA CallSingle ==
  ASSUME ~Overlap, Inv, Single, NEW c \in Calls, NEW k \in Keys,
         NEW p \in Payloads, Call(c, k, p)
  PROVE  Single'
<1>1. /\ stage[c] = "idle"
      /\ \A d \in Calls : stage[d] \in Waiting => Key(d) # k
      /\ UNCHANGED <<record, branch, outcome, loaded, answer, moved, faults>>
  BY DEF Call, Goto
<1>2. /\ stage'[c] = "findOne" /\ Key(c)' = k
      /\ \A d \in Calls \ {c} : stage'[d] = stage[d] /\ request'[d] = request[d]
  BY DEF Call, Goto, Inv, TypeOK, Key
<1>3. \A d \in Calls \ {c} : Key(d)' = Key(d) /\ Row(d)' = Row(d)
  BY <1>1, <1>2 DEF Key, Row
<1>4. c \notin moved /\ moved \subseteq Calls
  BY <1>1 DEF Inv, TypeOK, Asked
<1>5. Alone'
  BY <1>1, <1>2, <1>3 DEF Single, Alone
<1>6. Past' /\ Ready' /\ Sole'
  BY <1>1, <1>2, <1>3, <1>4 DEF Single, Past, Ready, Sole
<1>7. Kept'
  <2> SUFFICES ASSUME NEW d \in moved, outcome[d].status # "failed"
      PROVE  /\ Row(d)'.status # "failed"
             /\ \A e \in Calls \ {d} : Key(e)' = Key(d)' => stage'[e] \notin Taking
    BY <1>1 DEF Kept
  <2>1. Row(d)'.status # "failed"
    BY <1>3, <1>4 DEF Single, Kept
  <2>2. ASSUME NEW e \in Calls \ {d}, Key(e)' = Key(d)'
        PROVE  stage'[e] \notin Taking
    <3>1. CASE e = c
      BY <1>2, <3>1 DEF Taking, Owning
    <3>2. CASE e # c
      BY <1>2, <1>3, <1>4, <2>2, <3>2 DEF Single, Kept
    <3> QED BY <3>1, <3>2
  <2> QED BY <2>1, <2>2
<1> QED BY <1>5, <1>6, <1>7 DEF Single

\* Every other action is a step of one call that is under way: it writes the
\* row only if it takes the key, and takes it only if it has found it free.
LEMMA SingleStep ==
  ASSUME Inv, Single, NEW c \in Calls, stage[c] \in Waiting, request' = request,
         \A d \in Calls \ {c} : stage'[d] = stage[d] /\ outcome'[d] = outcome[d],
         moved \subseteq moved', moved' \subseteq moved \cup {c},
         \A k \in Keys : k # Key(c) => record'[k] = record[k],
         record' = record \/ stage[c] \in Taking,
         c \in moved' => stage'[c] \in {"load", "save", "ended", "dead"},
         c \in moved' => c \in moved \/ stage[c] = "operation",
         stage'[c] \in {"findOneOrFail", "operation"} =>
           Row(c)'.status # "failed",
         stage'[c] \in Taking =>
           \/ stage[c] \in Taking
           \/ stage[c] = "findOne"
              /\ (Row(c) = NoRow \/ Row(c).status = "failed"),
         c \in moved /\ outcome[c].status = "failed" =>
           outcome'[c].status = "failed",
         c \in moved' /\ outcome'[c].status # "failed" =>
           Row(c)'.status # "failed"
  PROVE  Single'
<1>1. \A d \in Calls : Key(d)' = Key(d)
  BY DEF Key
<1>2. moved \subseteq Calls /\ \A d \in moved : Row(d) # NoRow /\ Key(d) \in Keys
  BY DEF Inv, TypeOK, Asked, Bound, Requests, Key
<1>3. \A d \in Calls : stage[d] # "idle" => Key(d) \in Keys
  BY DEF Inv, Asked, Requests, Key
<1>4. Alone'
  BY <1>1 DEF Single, Alone
<1>5. Past'
  BY <1>2 DEF Single, Past
<1>6. Ready'
  <2> SUFFICES ASSUME NEW d \in Calls, d # c,
                      stage[d] \in {"findOneOrFail", "operation"}
      PROVE  Row(d)'.status # "failed"
    BY DEF Ready
  <2>1. Key(d) # Key(c) /\ Key(d) \in Keys
    BY <1>3 DEF Single, Alone, Waiting
  <2> QED BY <1>1, <2>1 DEF Single, Ready, Row
<1>7. Kept'
  <2> SUFFICES ASSUME NEW d \in moved', outcome'[d].status # "failed"
      PROVE  /\ Row(d)'.status # "failed"
             /\ \A e \in Calls \ {d} : Key(e) = Key(d) => stage'[e] \notin Taking
    BY <1>1, <1>2 DEF Kept
  <2>1. CASE d = c
    <3>1. ASSUME NEW e \in Calls \ {c}, Key(e) = Key(c)
          PROVE  stage[e] \notin Taking
      BY <3>1 DEF Single, Alone, Taking, Owning, Waiting
    <3> QED BY <2>1, <3>1
  <2>2. CASE d # c
    <3>1. d \in moved /\ outcome[d].status # "failed" /\ d \in Calls
      BY <1>2, <2>2
    <3>2. /\ Row(d) # NoRow /\ Row(d).status # "failed"
          /\ \A e \in Calls \ {d} : Key(e) = Key(d) => stage[e] \notin Taking
      BY <1>2, <3>1 DEF Single, Kept
    <3>3. CASE Key(d) = Key(c)
      <4>1. stage[c] \notin Taking /\ record' = record
        BY <2>2, <3>2, <3>3
      <4>2. stage'[c] \notin Taking
        BY <3>2, <3>3, <4>1 DEF Row
      <4>3. Row(d)' = Row(d)
        BY <1>1, <3>1, <4>1 DEF Row
      <4>4. ASSUME NEW e \in Calls \ {d}, Key(e) = Key(d)
            PROVE  stage'[e] \notin Taking
        BY <3>2, <4>2, <4>4
      <4> QED BY <3>2, <4>3, <4>4
    <3>4. CASE Key(d) # Key(c)
      BY <1>1, <1>2, <3>1, <3>2, <3>4 DEF Row
    <3> QED BY <3>3, <3>4
  <2> QED BY <2>1, <2>2
<1>8. Sole'
  <2>1. ASSUME NEW d \in moved, d # c, Key(d) = Key(c), c \in moved'
        PROVE  "failed" \in {outcome'[c].status, outcome'[d].status}
    <3>1. CASE c \in moved
      BY <1>2, <2>1, <3>1 DEF Single, Sole
    <3>2. CASE c \notin moved
      <4>1. outcome[d].status = "failed"
        BY <2>1, <3>2 DEF Single, Kept, Taking, Owning
      <4> QED BY <1>2, <2>1, <4>1
    <3> QED BY <3>1, <3>2
  <2>2. ASSUME NEW d \in moved, NEW e \in moved, d # c, e # c, d # e,
               Key(d) = Key(e)
        PROVE  "failed" \in {outcome'[d].status, outcome'[e].status}
    BY <1>2, <2>2 DEF Single, Sole
  <2> SUFFICES ASSUME NEW d \in moved', NEW e \in moved', d # e, Key(d) = Key(e)
      PROVE  "failed" \in {outcome'[d].status, outcome'[e].status}
    BY <1>1, <1>2 DEF Sole
  <2>3. CASE d = c
    BY <2>1, <2>3
  <2>4. CASE e = c
    BY <2>1, <2>4
  <2> QED BY <2>2, <2>3, <2>4
<1> QED BY <1>4, <1>5, <1>6, <1>7, <1>8 DEF Single

-----------------------------------------------------------------------------
\* One lemma per group of actions.

\* The steps that write no row and do not touch the outcome.
LEMMA QuietSingle ==
  ASSUME Inv, Single, NEW c \in Calls,
         Find(c) \/ FindDuplicate(c) \/ FindOneOrFail(c) \/ Load(c) \/ Die(c)
  PROVE  Single'
<1>1. /\ stage[c] \in Waiting
      /\ UNCHANGED <<record, request, outcome, moved>>
      /\ \A d \in Calls \ {c} : stage'[d] = stage[d]
  BY DEF Find, FindDuplicate, FindOneOrFail, Load, Die, Goto, Respond, Waiting,
         Inv, TypeOK
<1>2. \/ stage[c] = "findOne" /\ stage'[c] = "insert" /\ Row(c) = NoRow
      \/ stage[c] = "findOne" /\ stage'[c] = "update" /\ Row(c).status = "failed"
      \/ stage[c] = "findOneOrFail" /\ stage'[c] = "operation"
      \/ stage[c] = "load" /\ stage'[c] = "save"
      \/ stage'[c] \in {"ended", "dead"}
  BY DEF Find, FindDuplicate, FindOneOrFail, Load, Die, Goto, Respond,
         Inv, TypeOK
<1>3. c \in moved =>
        /\ stage[c] \in {"load", "save", "ended", "dead"}
        /\ outcome[c].status # "failed" => Row(c).status # "failed"
  BY DEF Single, Past, Kept
<1>4. stage[c] = "findOneOrFail" => Row(c).status # "failed"
  BY DEF Single, Ready
<1>5. Row(c)' = Row(c)
  BY <1>1 DEF Row, Key
<1> QED BY <1>1, <1>2, <1>3, <1>4, <1>5, SingleStep DEF Taking, Owning

\* A call takes the key, or is told that the row exists.
LEMMA TakeSingle ==
  ASSUME Inv, Single, NEW c \in Calls, Update(c) \/ Insert(c)
  PROVE  Single'
<1>1. /\ stage[c] \in {"update", "insert"} /\ c \notin moved
      /\ UNCHANGED <<request, outcome, moved>>
      /\ \A d \in Calls \ {c} : stage'[d] = stage[d]
  BY DEF Update, Insert, Goto, Inv, TypeOK, Single, Past
<1>2. CASE record' = Taken(c) /\ stage' = [stage EXCEPT ![c] = "findOneOrFail"]
  <2>1. Row(c) # NoRow => Row(c).hash = Hash(c)
    BY <1>1, <1>2 DEF Insert, Update, Goto, Inv, TypeOK, Bound
  <2>2. /\ Taken(c)[Key(c)].status = "processing"
        /\ \A k \in Keys : k # Key(c) => Taken(c)[k] = record[k]
    BY <1>1, <2>1, TakenFacts
  <2>3. stage'[c] = "findOneOrFail" /\ Row(c)'.status # "failed"
    BY <1>1, <1>2, <2>2 DEF Inv, TypeOK, Row, Key
  <2> QED BY <1>1, <1>2, <2>2, <2>3, SingleStep DEF Waiting, Taking, Owning
<1>3. CASE record' = record /\ stage' = [stage EXCEPT ![c] = "findDuplicate"]
  <2>1. stage'[c] = "findDuplicate"
    BY <1>3 DEF Inv, TypeOK
  <2> QED BY <1>1, <1>3, <2>1, SingleStep DEF Waiting, Taking, Owning
<1> QED BY <1>2, <1>3 DEF Update, Insert, Goto

\* The operation commits, as the first one that does or after lost results.
LEMMA OperateSingle ==
  ASSUME Inv, Single, NEW c \in Calls, NEW o, Operate(c, o)
  PROVE  Single'
<1>1. /\ stage[c] = "operation" /\ c \notin moved
      /\ UNCHANGED <<record, request>>
      /\ moved \subseteq moved' /\ moved' \subseteq moved \cup {c}
      /\ stage'[c] = "load"
      /\ \A d \in Calls \ {c} : stage'[d] = stage[d] /\ outcome'[d] = outcome[d]
  BY DEF Operate, Goto, Inv, TypeOK, Single, Past
<1>2. Row(c)' = Row(c) /\ Row(c).status # "failed"
  BY <1>1 DEF Row, Key, Single, Ready
<1> QED BY <1>1, <1>2, SingleStep DEF Waiting, Taking, Owning

\* Saving a result does not make the row FAILED.
LEMMA SavedResult ==
  ASSUME Inv, Single, NEW c \in Calls, stage[c] = "save",
         c \in moved, outcome[c].status # "failed"
  PROVE  Saved(c)[Key(c)].status # "failed"
<1>1. Row(c).status # "failed" /\ Key(c) \in Keys
  BY RequestFacts DEF Single, Kept
<1> QED BY <1>1 DEF Saved, Inv, TypeOK

LEMMA SaveSingle ==
  ASSUME Inv, Single, NEW c \in Calls, Save(c)
  PROVE  Single'
<1>1. /\ stage[c] = "save" /\ record' = Saved(c)
      /\ UNCHANGED <<request, outcome, moved>>
      /\ stage'[c] = "ended"
      /\ \A d \in Calls \ {c} : stage'[d] = stage[d]
  BY DEF Save, Respond, Inv, TypeOK
<1>2. \A k \in Keys : k # Key(c) => Saved(c)[k] = record[k]
  BY <1>1, SavedFacts
<1>3. c \in moved /\ outcome[c].status # "failed" => Row(c)'.status # "failed"
  BY <1>1, SavedResult DEF Row, Key
<1> QED BY <1>1, <1>2, <1>3, SingleStep DEF Waiting, Taking, Owning

\* An error loses the result of a movement, or leaves it to be saved.
LEMMA ThrowSingle ==
  ASSUME Inv, Single, NEW c \in Calls, NEW took \in BOOLEAN, Throw(c, took)
  PROVE  Single'
<1>1. /\ stage[c] \in Waiting /\ record' = Written(c, took)
      /\ request' = request
      /\ moved \subseteq moved' /\ moved' \subseteq moved \cup {c}
      /\ c \in moved' => c \in moved \/ stage[c] = "operation"
      /\ \A d \in Calls \ {c} : stage'[d] = stage[d] /\ outcome'[d] = outcome[d]
  BY DEF Throw, Goto, Respond, Inv, TypeOK
<1>2. \A k \in Keys : k # Key(c) => record'[k] = record[k]
  BY <1>1, WrittenFacts
<1>3. record' = record \/ stage[c] \in Taking
  BY <1>1 DEF Written, Taking, Owning
<1>4. c \in moved => stage[c] \in {"load", "save", "ended", "dead"}
  BY DEF Single, Past
<1>5. CASE stage[c] = "insert" /\ stage'[c] = "findDuplicate"
  BY <1>1, <1>2, <1>3, <1>4, <1>5, SingleStep DEF Taking, Owning
<1>6. CASE /\ Caught(c) /\ stage'[c] = "load"
           /\ outcome'[c].status = "failed"
  BY <1>1, <1>2, <1>3, <1>4, <1>6, SingleStep DEF Caught, Taking, Owning
<1>7. CASE ~Caught(c) /\ stage'[c] = "ended" /\ outcome' = outcome
  <2>1. c \in moved => outcome[c].status = "failed"
    BY <1>1, <1>4, <1>7 DEF Caught, Inv, Decided, TypeOK, Outcomes, NoOutcome,
       Completed, Failed, Waiting
  <2>2. c \in moved' => c \in moved
    BY <1>1, <1>7 DEF Caught
  <2> QED BY <1>1, <1>2, <1>3, <1>7, <2>1, <2>2, SingleStep DEF Taking, Owning
<1> QED BY <1>5, <1>6, <1>7 DEF Throw, Goto, Respond, Failed, Inv, TypeOK

LEMMA NextSingle ==
  ASSUME ~Overlap
  PROVE  Inv /\ Single /\ [Next]_vars => Single'
<1> SUFFICES ASSUME Inv, Single, [Next]_vars PROVE Single'
  OBVIOUS
<1>1. ASSUME NEW c \in Calls, NEW k \in Keys, NEW p \in Payloads, Call(c, k, p)
      PROVE  Single'
  BY <1>1, CallSingle
<1>2. ASSUME NEW c \in Calls, Step(c) \/ Die(c) PROVE Single'
  BY <1>2, QuietSingle, TakeSingle, OperateSingle, SaveSingle DEF Step
<1>3. ASSUME NEW c \in Calls, NEW took \in BOOLEAN, Throw(c, took) PROVE Single'
  BY <1>3, ThrowSingle
<1>4. CASE UNCHANGED vars
  BY <1>4 DEF vars, Single, Alone, Past, Ready, Kept, Sole, Row, Key
<1> QED BY <1>1, <1>2, <1>3, <1>4 DEF Next

-----------------------------------------------------------------------------
(***************************************************************************)
(* As long as nothing has failed: an owner has the row to itself, what it  *)
(* loads is what it overwrites, and a movement that is answered is the     *)
(* body of its COMPLETED row.                                              *)
(***************************************************************************)
Calm(c) ==
    /\ stage[c] \notin {"findDuplicate", "dead"}
    /\ stage[c] = "idle" => request[c] = NoRequest
    /\ stage[c] # "ended" => answer[c] = None
    /\ stage[c] = "insert" => Row(c) = NoRow
    /\ stage[c] \in Owning =>
         Row(c).status = "processing" /\ Row(c).body = NoBody
    /\ stage[c] = "save" => loaded[c] = Row(c)
    /\ c \in moved => outcome[c] = Completed(c)
    /\ c \in moved /\ stage[c] = "ended" =>
         Row(c).status = "completed" /\ Row(c).body = c

Smooth == faults = 0 => \A c \in Calls : Calm(c)

LEMMA InitSmooth == Init => Smooth
BY DEF Init, Smooth, Calm, Owning

\* A step of one call leaves the others calm: it writes only the row of its
\* own key, which belongs to nobody else.
LEMMA OthersCalm ==
  ASSUME Inv, Single, NEW c \in Calls, stage[c] \in Waiting,
         NEW d \in Calls, d # c, Calm(d), request' = request,
         stage'[d] = stage[d], outcome'[d] = outcome[d],
         loaded'[d] = loaded[d], answer'[d] = answer[d],
         d \in moved' => d \in moved,
         \A k \in Keys : k # Key(c) => record'[k] = record[k],
         record' = record \/ stage[c] \in Taking
  PROVE  Calm(d)'
<1>1. \/ stage[d] = "idle"
      \/ Key(d) \in Keys
  BY DEF Inv, Asked, Requests, Key
<1>2. CASE record' = record
  BY <1>2 DEF Calm, Row, Key
<1>3. CASE stage[d] # "idle" /\ Key(d) # Key(c)
  <2>1. Row(d)' = Row(d)
    BY <1>1, <1>3 DEF Row, Key
  <2> QED BY <2>1 DEF Calm
<1>4. CASE stage[d] # "idle" /\ Key(d) = Key(c) /\ stage[c] \in Taking
  <2>1. stage[d] \notin Waiting
    BY <1>4 DEF Single, Alone
  <2>2. d \in moved => outcome[d].status = "failed"
    BY <1>4 DEF Single, Kept
  <2>3. d \notin moved
    BY <2>2 DEF Calm, Completed
  <2> QED BY <2>1, <2>3 DEF Calm, Waiting, Owning
<1>5. CASE stage[d] = "idle"
  <2>1. d \notin moved
    BY <1>5 DEF Inv, Asked
  <2> QED BY <1>5, <2>1 DEF Calm, Owning
<1> QED BY <1>2, <1>3, <1>4, <1>5

\* Everybody is calm if the call that makes a step is.
LEMMA SmoothStep ==
  ASSUME Inv, Single, Smooth, faults = 0, NEW c \in Calls, stage[c] \in Waiting,
         request' = request,
         \A d \in Calls \ {c} : stage'[d] = stage[d] /\ outcome'[d] = outcome[d]
                         /\ loaded'[d] = loaded[d] /\ answer'[d] = answer[d],
         moved' \subseteq moved \cup {c},
         \A k \in Keys : k # Key(c) => record'[k] = record[k],
         record' = record \/ stage[c] \in Taking,
         Calm(c)'
  PROVE  Smooth'
<1>1. ASSUME NEW d \in Calls, d # c PROVE Calm(d)'
  <2>1. Calm(d)
    BY DEF Smooth
  <2>2. d \in moved' => d \in moved
    BY <1>1
  <2>3. /\ stage'[d] = stage[d] /\ outcome'[d] = outcome[d]
        /\ loaded'[d] = loaded[d] /\ answer'[d] = answer[d]
    BY <1>1
  <2> QED BY <1>1, <2>1, <2>2, <2>3, OthersCalm
<1> QED BY <1>1 DEF Smooth

\* Nobody has moved for a key that a call still means to run.
LEMMA NotYetMoved ==
  ASSUME Inv, Single, Smooth, faults = 0, NEW c \in Calls,
         stage[c] \in Taking, c \notin moved
  PROVE  MovedFor(Key(c)) = {}
<1> SUFFICES ASSUME NEW d \in moved, Key(d) = Key(c) PROVE FALSE
  BY DEF MovedFor
<1>1. d \in Calls /\ outcome[d].status = "completed"
  BY DEF Inv, TypeOK, Smooth, Calm, Completed
<1> QED BY <1>1 DEF Single, Kept

\* The one movement of a key is its effect.
LEMMA TheMover ==
  ASSUME Inv, Single, Smooth, faults = 0, NEW c \in moved
  PROVE  MovedFor(Key(c)) = {c} /\ Effect[Key(c)] = c /\ Key(c) \in Keys
<1>1. moved \subseteq Calls /\ stage[c] # "idle" /\ Key(c) \in Keys
  BY RequestFacts DEF Inv, TypeOK, Asked
<1>2. ASSUME NEW d \in moved PROVE outcome[d].status # "failed"
  <2>1. d \in Calls
    BY <1>1
  <2>2. outcome[d] = Completed(d)
    BY <2>1 DEF Smooth, Calm
  <2> QED BY <2>2 DEF Completed
<1>3. MovedFor(Key(c)) = {c}
  BY <1>2 DEF Single, Sole, MovedFor
<1> QED BY <1>1, <1>3 DEF Effect

\* A COMPLETED row has the effect of its key for its body.
LEMMA CompletedRow ==
  ASSUME Inv, Single, Smooth, faults = 0, NEW k \in Keys,
         record[k] # NoRow, record[k].status = "completed"
  PROVE  /\ Effect[k] = record[k].body /\ Effect[k] \in moved
         /\ Key(Effect[k]) = k /\ Hash(Effect[k]) = record[k].hash
<1>1. PICK d \in moved : Key(d) = k /\ Hash(d) = record[k].hash
  BY DEF Inv, Backed
<1>2. Effect[k] = d /\ d \in Calls
  BY <1>1, TheMover DEF Inv, TypeOK
<1>3. stage[d] = "ended"
  <2>1. stage[d] \in {"load", "save", "ended"}
    BY <1>2 DEF Single, Past, Smooth, Calm
  <2>2. stage[d] \notin {"load", "save"}
    BY <1>1, <1>2 DEF Smooth, Calm, Row, Owning
  <2> QED BY <2>1, <2>2
<1> QED BY <1>1, <1>2, <1>3 DEF Smooth, Calm, Row

\* Nobody finds a row in progress.
LEMMA NoneInProgress ==
  ASSUME Inv, Single, InProgress, faults = 0, NEW c \in Calls,
         stage[c] = "findOne", Row(c) # NoRow
  PROVE  Row(c).status # "processing"
<1> SUFFICES ASSUME Row(c).status = "processing" PROVE FALSE
  OBVIOUS
<1>1. Key(c) \in Keys
  BY RequestFacts
<1>2. PICK d \in Calls : Key(d) = Key(c) /\ Works(d)
  BY <1>1 DEF InProgress, Row
<1>3. stage[d] \in Waiting /\ d # c
  BY <1>2 DEF Works, Waiting
<1> QED BY <1>2, <1>3 DEF Single, Alone, Waiting

-----------------------------------------------------------------------------
\* As long as nothing fails, each action leaves its call calm.

LEMMA CallSmooth ==
  ASSUME Inv, Smooth, NEW c \in Calls, NEW k \in Keys, NEW p \in Payloads,
         Call(c, k, p)
  PROVE  Smooth'
<1>1. /\ stage[c] = "idle" /\ stage'[c] = "findOne" /\ c \notin moved
      /\ UNCHANGED <<record, branch, outcome, loaded, answer, moved, faults>>
      /\ \A d \in Calls \ {c} : stage'[d] = stage[d] /\ request'[d] = request[d]
  BY DEF Call, Goto, Inv, TypeOK, Asked
<1> SUFFICES ASSUME faults = 0, NEW d \in Calls PROVE Calm(d)'
  BY <1>1 DEF Smooth
<1>2. Calm(d)
  BY DEF Smooth
<1>3. CASE d = c
  BY <1>1, <1>2, <1>3 DEF Calm, Owning
<1>4. CASE d # c
  BY <1>1, <1>2, <1>4 DEF Calm, Row, Key
<1> QED BY <1>3, <1>4

\* The steps that write no row.
LEMMA QuietSmooth ==
  ASSUME Inv, Single, Smooth, faults = 0, NEW c \in Calls,
         Find(c) \/ FindDuplicate(c) \/ FindOneOrFail(c) \/ Load(c)
  PROVE  Smooth'
<1>1. /\ stage[c] \in Waiting \ {"findDuplicate"}
      /\ UNCHANGED <<record, request, outcome, moved>>
      /\ \A d \in Calls \ {c} : stage'[d] = stage[d] /\ loaded'[d] = loaded[d]
                                /\ answer'[d] = answer[d]
  BY DEF Find, FindDuplicate, FindOneOrFail, Load, Goto, Respond, Waiting,
         Inv, TypeOK, Smooth, Calm
<1>2. Calm(c)
  BY DEF Smooth
<1>3. Row(c)' = Row(c)
  BY <1>1 DEF Row, Key
<1>4. c \in moved => stage[c] \in {"load", "save"}
  BY <1>1 DEF Single, Past, Waiting
<1>5. \/ /\ stage[c] = "findOne" /\ answer' = answer
         /\ stage'[c] = "insert" /\ Row(c) = NoRow
      \/ stage[c] = "findOne" /\ stage'[c] = "update" /\ answer' = answer
      \/ stage[c] = "findOne" /\ stage'[c] = "ended"
      \/ /\ stage[c] = "findOneOrFail" /\ stage'[c] = "operation"
         /\ answer' = answer
      \/ /\ stage[c] = "load" /\ stage'[c] = "save" /\ loaded'[c] = Row(c)
         /\ answer' = answer
  BY <1>1 DEF Find, FindDuplicate, FindOneOrFail, Load, Goto, Respond,
              Inv, TypeOK
<1>6. Calm(c)'
  BY <1>1, <1>2, <1>3, <1>4, <1>5 DEF Calm, Owning
<1> QED BY <1>1, <1>6, SmoothStep

LEMMA TakeSmooth ==
  ASSUME Inv, Single, Smooth, faults = 0, NEW c \in Calls, Update(c) \/ Insert(c)
  PROVE  Smooth'
<1>1. /\ stage[c] \in {"update", "insert"} /\ c \notin moved
      /\ UNCHANGED <<request, outcome, moved, loaded, answer>>
      /\ \A d \in Calls \ {c} : stage'[d] = stage[d]
  BY DEF Update, Insert, Goto, Inv, TypeOK, Single, Past
<1>2. Calm(c)
  BY DEF Smooth
<1>3. /\ record' = Taken(c) /\ stage'[c] = "findOneOrFail"
      /\ Row(c) # NoRow => Row(c).hash = Hash(c)
  BY <1>1, <1>2 DEF Update, Insert, Goto, Inv, TypeOK, Bound, Calm
<1>4. Key(c) \in Keys /\ \A k \in Keys : k # Key(c) => Taken(c)[k] = record[k]
  BY <1>1, <1>3, RequestFacts, TakenFacts
<1>5. Row(c)'.status = "processing" /\ Row(c)'.body = NoBody
  BY <1>1, <1>3, <1>4 DEF Taken, Row, Key, Inv, TypeOK
<1>6. Calm(c)'
  BY <1>1, <1>2, <1>3, <1>5 DEF Calm
<1> QED BY <1>1, <1>3, <1>4, <1>6, SmoothStep DEF Waiting, Taking

LEMMA OperateSmooth ==
  ASSUME Inv, Single, Smooth, faults = 0, NEW c \in Calls,
         NEW o \in Outcomes, Operate(c, o)
  PROVE  Smooth'
<1>1. /\ stage[c] = "operation" /\ c \notin moved /\ stage'[c] = "load"
      /\ UNCHANGED <<record, request, loaded, answer>>
      /\ outcome'[c] = o
      /\ moved' = IF o = Completed(c) THEN moved \cup {c} ELSE moved
      /\ \A d \in Calls \ {c} : stage'[d] = stage[d] /\ outcome'[d] = outcome[d]
  BY DEF Operate, Goto, Inv, TypeOK, Single, Past
<1>2. Calm(c)
  BY DEF Smooth
<1>3. Row(c)' = Row(c)
  BY <1>1 DEF Row, Key
<1>4. Calm(c)'
  BY <1>1, <1>2, <1>3 DEF Calm, Owning
<1> QED BY <1>1, <1>4, SmoothStep DEF Waiting

LEMMA SaveSmooth ==
  ASSUME Inv, Single, Smooth, faults = 0, NEW c \in Calls, Save(c)
  PROVE  Smooth'
<1>1. /\ stage[c] = "save" /\ record' = Saved(c) /\ stage'[c] = "ended"
      /\ UNCHANGED <<request, outcome, moved, loaded>>
      /\ \A d \in Calls \ {c} : stage'[d] = stage[d] /\ answer'[d] = answer[d]
  BY DEF Save, Respond, Inv, TypeOK
<1>2. Calm(c)
  BY DEF Smooth
<1>3. Key(c) \in Keys /\ \A k \in Keys : k # Key(c) => Saved(c)[k] = record[k]
  BY <1>1, RequestFacts, SavedFacts
<1>4. c \in moved => Row(c)'.status = "completed" /\ Row(c)'.body = c
  <2>1. loaded[c].status = "processing" /\ loaded[c].body = NoBody
    BY <1>1, <1>2 DEF Calm, Owning
  <2>2. c # NoBody
    BY BodiesAssumption
  <2> QED BY <1>1, <1>2, <1>3, <2>1, <2>2
          DEF Calm, Completed, Saved, Row, Key, Inv, TypeOK
<1>5. Calm(c)'
  BY <1>1, <1>2, <1>4 DEF Calm, Owning
<1> QED BY <1>1, <1>3, <1>5, SmoothStep DEF Waiting, Taking, Owning

LEMMA NextSmooth == Inv /\ Single /\ Smooth /\ [Next]_vars => Smooth'
<1> SUFFICES ASSUME Inv, Single, Smooth, [Next]_vars, faults' = 0
    PROVE  Smooth'
  BY DEF Smooth
<1>0. faults \in Nat
  BY FaultsAssumption DEF Inv, TypeOK
<1>1. CASE UNCHANGED vars
  BY <1>1 DEF vars, Smooth, Calm, Row, Key
<1>2. ASSUME NEW c \in Calls, NEW k \in Keys, NEW p \in Payloads, Call(c, k, p)
      PROVE  Smooth'
  BY <1>2, CallSmooth
<1>3. ASSUME NEW c \in Calls, Step(c) PROVE Smooth'
  <2>1. faults = 0
    BY <1>3 DEF Step, Find, Update, Insert, FindDuplicate, FindOneOrFail,
                Operate, Load, Save
  <2> QED BY <1>3, <2>1, QuietSmooth, TakeSmooth, OperateSmooth, SaveSmooth
          DEF Step
<1>4. ASSUME NEW c \in Calls,
             Die(c) \/ \E took \in BOOLEAN : Throw(c, took)
      PROVE  FALSE
  BY <1>0, <1>4 DEF Die, Throw
<1> QED BY <1>1, <1>2, <1>3, <1>4 DEF Next

-----------------------------------------------------------------------------
\* The refinement, step by step.

LEMMA InitMaps == Init => Promise!Init
BY DEF Init, Promise!Init, Effect, MovedFor, Reply, None

\* A call under way waits for its reply in the abstract specification too.
LEMMA PendingMaps ==
  ASSUME Inv, NEW c \in Calls, stage[c] # "idle", answer[c] = None
  PROVE  Promise!Pending(c) /\ Promise!Of(c) = Effect[Key(c)]
<1>1. request[c] # NoRequest
  BY RequestAssumption DEF Inv, Asked
<1>2. Reply[c] = NoBody
  BY DEF Reply, None
<1> QED BY <1>1, <1>2 DEF Promise!Pending, Promise!Of, Key

\* An answer that is no success is the abstract Refuse, if nothing has moved
\* for this request.
LEMMA RefusalMaps ==
  ASSUME Inv, NEW c \in Calls, stage[c] # "idle", answer[c] = None,
         NEW a \in {Conflict, Mismatch, Error},
         answer' = [answer EXCEPT ![c] = a], UNCHANGED <<request, moved>>,
         Effect[Key(c)] = NoBody \/ Hash(Effect[Key(c)]) # Hash(c)
  PROVE  Promise!Refuse(c)
<1>1. ~Promise!Matches(c)
  BY PendingMaps DEF Promise!Matches, Hash
<1>2. Effect' = Effect
  BY DEF Effect, MovedFor, Key
<1>3. Reply' = [Reply EXCEPT ![c] = NoRow]
  <2>1. a.kind # "none" /\ a.kind # "ok"
    BY DEF Conflict, Mismatch, Error
  <2>2. answer'[c] = a /\ \A d \in Calls \ {c} : answer'[d] = answer[d]
    BY DEF Inv, TypeOK
  <2> DEFINE R(x) == CASE x.kind = "none" -> NoBody
                       [] x.kind = "ok" -> x.body
                       [] OTHER -> NoRow
  <2>3. R(a) = NoRow
    BY <2>1
  <2>4. /\ Reply = [d \in Calls |-> R(answer[d])]
        /\ Reply' = [d \in Calls |-> R(answer'[d])]
    BY DEF Reply
  <2> HIDE DEF R
  <2> QED BY <2>2, <2>3, <2>4
<1> QED BY <1>1, <1>2, <1>3, PendingMaps DEF Promise!Refuse

\* A success with the effect of the key, which has moved for this request, is
\* the abstract Succeed.
LEMMA SuccessMaps ==
  ASSUME Inv, NEW c \in Calls, stage[c] # "idle", answer[c] = None,
         NEW d \in moved, Effect[Key(c)] = d, request[d] = request[c],
         answer' = [answer EXCEPT ![c] = Ok(d)], UNCHANGED <<request, moved>>
  PROVE  Promise!Succeed(c)
<1>1. Promise!Matches(c)
  BY PendingMaps, BodiesAssumption DEF Promise!Matches, Inv, TypeOK
<1>2. Effect' = Effect
  BY DEF Effect, MovedFor, Key
<1>3. Reply' = [Reply EXCEPT ![c] = d]
  BY DEF Reply, Ok, Inv, TypeOK
<1> QED BY <1>1, <1>2, <1>3, PendingMaps DEF Promise!Succeed

\* A step that answers nobody and moves nothing is none of the abstract ones.
LEMMA QuietMaps ==
  ASSUME UNCHANGED <<request, moved, answer>>
  PROVE  UNCHANGED Promise!vars
BY DEF Promise!vars, Effect, MovedFor, Reply, Key

LEMMA CallMaps ==
  ASSUME Inv, Smooth, faults = 0, NEW c \in Calls, NEW k \in Keys,
         NEW p \in Payloads, Call(c, k, p)
  PROVE  Promise!Ask(c, k, p)
<1>1. /\ stage[c] = "idle" /\ c \notin moved /\ UNCHANGED <<moved, answer>>
      /\ request' = [request EXCEPT ![c] = [key |-> k, payload |-> p]]
  BY DEF Call, Goto, Inv, Asked
<1>2. request[c] = NoRequest
  BY <1>1 DEF Smooth, Calm
<1>3. \A x \in Keys : MovedFor(x)' = MovedFor(x)
  BY <1>1 DEF MovedFor, Key, Inv, TypeOK
<1>4. Effect' = Effect
  <2> DEFINE Pick(S) == IF S = {} THEN NoBody ELSE CHOOSE d \in S : TRUE
  <2>1. /\ Effect = [x \in Keys |-> Pick(MovedFor(x))]
        /\ Effect' = [x \in Keys |-> Pick(MovedFor(x)')]
    BY DEF Effect
  <2> HIDE DEF Pick
  <2> QED BY <1>3, <2>1
<1>5. Reply' = Reply
  BY <1>1 DEF Reply
<1> QED BY <1>1, <1>2, <1>4, <1>5 DEF Promise!Ask

\* The first look-up replays the effect, or refuses another payload.
LEMMA FindMaps ==
  ASSUME Inv, Single, Smooth, InProgress, faults = 0, NEW c \in Calls, Find(c)
  PROVE  [Promise!Next]_(Promise!vars)
<1>1. /\ stage[c] = "findOne" /\ answer[c] = None /\ UNCHANGED <<request, moved>>
  BY DEF Find, Smooth, Calm
<1>2. CASE UNCHANGED answer
  BY <1>1, <1>2, QuietMaps
<1>3. CASE Row(c) # NoRow /\ Row(c).hash # Hash(c) /\ Respond(c, Mismatch)
  <2>1. ASSUME NEW d \in moved, Key(d) = Key(c) PROVE Hash(d) # Hash(c)
    BY <1>3, <2>1 DEF Inv, TypeOK, Bound, Row
  <2>2. Effect[Key(c)] = NoBody \/ Hash(Effect[Key(c)]) # Hash(c)
    <3>1. CASE MovedFor(Key(c)) = {}
      BY <1>1, <3>1, RequestFacts DEF Effect
    <3>2. CASE MovedFor(Key(c)) # {}
      <4>1. PICK d \in moved : Key(d) = Key(c)
        BY <3>2 DEF MovedFor
      <4> QED BY <2>1, <4>1, TheMover
    <3> QED BY <3>1, <3>2
  <2> QED BY <1>1, <1>3, <2>2, RefusalMaps DEF Respond, Promise!Next
<1>4. CASE /\ Row(c) # NoRow /\ Row(c).hash = Hash(c)
           /\ Row(c).status = "completed" /\ Respond(c, Ok(Row(c).body))
  <2>1. Key(c) \in Keys
    BY <1>1, RequestFacts
  <2>2. /\ Effect[Key(c)] = Row(c).body /\ Effect[Key(c)] \in moved
        /\ Key(Effect[Key(c)]) = Key(c) /\ Hash(Effect[Key(c)]) = Hash(c)
    BY <1>4, <2>1, CompletedRow DEF Row
  <2>3. request[Effect[Key(c)]] = request[c]
    BY <1>1, <2>2, SameRequest DEF Inv, TypeOK, Asked
  <2> QED BY <1>1, <1>4, <2>2, <2>3, SuccessMaps DEF Respond, Promise!Next
<1> QED BY <1>1, <1>2, <1>3, <1>4, NoneInProgress DEF Find, Goto

\* A commit is the abstract TakeEffect.
LEMMA OperateMaps ==
  ASSUME Inv, Single, Smooth, faults = 0, NEW c \in Calls,
         NEW o \in Outcomes, Operate(c, o)
  PROVE  [Promise!Next]_(Promise!vars)
<1>1. /\ stage[c] = "operation" /\ c \notin moved /\ answer[c] = None
      /\ UNCHANGED <<request, answer>>
      /\ moved' = IF o = Completed(c) THEN moved \cup {c} ELSE moved
  BY DEF Operate, Goto, Single, Past, Smooth, Calm
<1>2. CASE moved' = moved
  BY <1>1, <1>2, QuietMaps
<1>3. CASE moved' = moved \cup {c}
  <2>1. MovedFor(Key(c)) = {} /\ Key(c) \in Keys
    BY <1>1, NotYetMoved, RequestFacts DEF Taking, Owning
  <2>2. \A k \in Keys : MovedFor(k)' = IF k = Key(c) THEN {c} ELSE MovedFor(k)
    BY <1>1, <1>3, <2>1 DEF MovedFor, Key
  <2>3. Effect' = [Effect EXCEPT ![Key(c)] = c]
    <3> DEFINE Pick(S) == IF S = {} THEN NoBody ELSE CHOOSE d \in S : TRUE
    <3>1. /\ Effect = [k \in Keys |-> Pick(MovedFor(k))]
          /\ Effect' = [k \in Keys |-> Pick(MovedFor(k)')]
      BY DEF Effect
    <3>2. Pick({c}) = c
      OBVIOUS
    <3> HIDE DEF Pick
    <3> QED BY <2>1, <2>2, <3>1, <3>2
  <2>4. Effect[Key(c)] = NoBody
    BY <2>1 DEF Effect
  <2>5. Reply' = Reply
    BY <1>1 DEF Reply
  <2>6. Promise!TakeEffect(c)
    BY <1>1, <2>3, <2>4, <2>5, PendingMaps DEF Promise!TakeEffect, Key
  <2> QED BY <2>6 DEF Promise!Next
<1> QED BY <1>1, <1>2, <1>3

\* A call that has moved is answered with its result, one that has not with
\* an error.
LEMMA SaveMaps ==
  ASSUME Inv, Single, Smooth, faults = 0, NEW c \in Calls, Save(c)
  PROVE  [Promise!Next]_(Promise!vars)
<1>1. /\ stage[c] = "save" /\ answer[c] = None /\ UNCHANGED <<request, moved>>
      /\ answer' = [answer EXCEPT
                      ![c] = IF outcome[c] = Completed(c) THEN Ok(c) ELSE Error]
  BY DEF Save, Respond, Smooth, Calm
<1>2. CASE c \in moved
  <2>1. outcome[c] = Completed(c) /\ Effect[Key(c)] = c
    BY <1>2, TheMover DEF Smooth, Calm
  <2>2. Promise!Succeed(c)
    BY <1>1, <1>2, <2>1, SuccessMaps
  <2> QED BY <2>2 DEF Promise!Next
<1>3. CASE c \notin moved
  <2>1. outcome[c] # Completed(c)
    BY <1>3 DEF Inv, Decided, Completed
  <2>2. Effect[Key(c)] = NoBody
    BY <1>1, <1>3, NotYetMoved, RequestFacts DEF Taking, Owning, Effect
  <2>3. Promise!Refuse(c)
    BY <1>1, <2>1, <2>2, RefusalMaps
  <2> QED BY <2>3 DEF Promise!Next
<1> QED BY <1>2, <1>3

LEMMA NextMaps ==
  Inv /\ Single /\ Smooth /\ InProgress /\ [Next]_vars
    => [Promise!Next \/ faults' > 0]_(Promise!vars)
<1> SUFFICES ASSUME Inv, Single, Smooth, InProgress, [Next]_vars, ~(faults' > 0)
    PROVE  [Promise!Next]_(Promise!vars)
  OBVIOUS
<1>0. faults \in Nat
  BY FaultsAssumption DEF Inv, TypeOK
<1>1. CASE UNCHANGED vars
  BY <1>1, QuietMaps DEF vars
<1>2. ASSUME NEW c \in Calls, NEW k \in Keys, NEW p \in Payloads, Call(c, k, p)
      PROVE  Promise!Next
  <2>1. faults = 0
    BY <1>0, <1>2 DEF Call
  <2> QED BY <1>2, <2>1, CallMaps DEF Promise!Next
<1>3. ASSUME NEW c \in Calls, Step(c) PROVE [Promise!Next]_(Promise!vars)
  <2>1. faults = 0
    BY <1>0, <1>3 DEF Step, Find, Update, Insert, FindDuplicate, FindOneOrFail,
                Operate, Load, Save
  <2>2. stage[c] # "findDuplicate"
    BY <2>1 DEF Smooth, Calm
  <2>3. CASE Update(c) \/ Insert(c) \/ FindOneOrFail(c) \/ Load(c)
    BY <2>3, QuietMaps DEF Update, Insert, FindOneOrFail, Load, Goto
  <2> QED BY <1>3, <2>1, <2>2, <2>3, FindMaps, OperateMaps, SaveMaps
          DEF Step, FindDuplicate
<1>4. ASSUME NEW c \in Calls,
             Die(c) \/ \E took \in BOOLEAN : Throw(c, took)
      PROVE  FALSE
  BY <1>0, <1>4 DEF Die, Throw
<1> QED BY <1>1, <1>2, <1>3, <1>4 DEF Next

-----------------------------------------------------------------------------
LEMMA InitInProgress == Init => InProgress
BY DEF Init, InProgress

(***************************************************************************)
(* If clients wait for an answer before they retry, then until the first   *)
(* fault every key is good for one effect, in a single step, and every     *)
(* call is answered with it or refused.                                    *)
(***************************************************************************)
THEOREM KeepsItsPromise ==
  ASSUME ~Overlap
  PROVE  Spec => ImplementsOncePerKey
<1>1. Init => Inv /\ Single /\ Smooth /\ InProgress /\ Promise!Init
  BY InitInv, InitSingle, InitSmooth, InitInProgress, InitMaps
<1>2. Inv /\ Single /\ Smooth /\ InProgress /\ [Next]_vars
        => Inv' /\ Single' /\ Smooth' /\ InProgress'
  BY NextInv, NextSingle, NextSmooth, InProgressNext
<1>3. Inv /\ Single /\ Smooth /\ InProgress /\ [Next]_vars
        => [Promise!Next \/ faults' > 0]_(Promise!vars)
  BY NextMaps
<1> QED BY <1>1, <1>2, <1>3, PTL DEF Spec, ImplementsOncePerKey

(***************************************************************************)
(* Money moves twice for one key only if the result of a movement is lost: *)
(* the commit, or saving COMPLETED, is reported as an error.  No other     *)
(* failure makes a retry dangerous, as long as clients wait.               *)
(***************************************************************************)
THEOREM OnceUnlessLost ==
  ASSUME ~Overlap
  PROVE  Spec => [](\A c, d \in moved : c # d /\ Key(c) = Key(d) =>
                      "failed" \in {outcome[c].status, outcome[d].status})
<1>1. Init => Inv /\ Single
  BY InitInv, InitSingle
<1>2. Inv /\ Single /\ [Next]_vars => Inv' /\ Single'
  BY NextInv, NextSingle
<1>3. Single => Sole
  BY DEF Single
<1> QED BY <1>1, <1>2, <1>3, PTL DEF Spec, Sole
=============================================================================

---------------------------- MODULE LedgerApiProofs ----------------------------
(***************************************************************************)
(* Theorems of LedgerApi, put together from those of its parts: every step *)
(* of an endpoint is a step of Idempotency, or none, and a step of Ledger, *)
(* or none, so that the invariants of both hold of the composition.  With  *)
(* clients that wait for an answer before they retry, the keys then take   *)
(* the place of the requests of the atomic ledger.                         *)
(***************************************************************************)
EXTENDS LedgerApi, TLAPS

\* The parts with their theorems.
SP == INSTANCE OncePerKeyProofs WITH moved <- completed

LP == INSTANCE LedgerProofs WITH
        Requests <- Calls, Movements <- Payloads, stage <- phase

-----------------------------------------------------------------------------
\* The parts of LedgerApi and those of the theorems are the same.

LEMMA ServiceConstants ==
  /\ Overlap \in BOOLEAN /\ MaxFaults \in Nat
  /\ NoBody \notin Calls \cup Errors /\ Calls \cap Errors = {}
  /\ NoRow \notin SP!Rows
  /\ SP!NoRequest \notin SP!Requests
BY ServiceAssumption
DEF SP!Rows, SP!Requests, SP!NoRequest, SP!Bodies,
    Service!Rows, Service!Requests, Service!Bodies

LEMMA LedgerConstants ==
  /\ AccountCount \in Nat /\ BalanceCap \in Nat /\ ExactLimit \in Nat
  /\ External \notin LP!Accounts
  /\ Payloads \subseteq
       [from : LP!Parties, to : LP!Parties, amount : Nat \ {0},
        currency : Currencies]
  /\ \A m \in Payloads :
       /\ m.from \in LP!Accounts \/ m.to \in LP!Accounts
       /\ LP!Num(m.amount) = m.amount
  /\ Absent \notin LP!Profiles
  /\ Nothing \notin Payloads
  /\ Free \notin Calls
<1>1. /\ Ledger!Accounts = LP!Accounts /\ Ledger!Parties = LP!Parties
      /\ Ledger!Profiles = LP!Profiles
      /\ \A m : Ledger!Rows(m) = {m.from, m.to} \cap LP!Accounts
  BY DEF LP!Accounts, LP!Parties, LP!Profiles, LP!Statuses, Ledger!Accounts,
         Ledger!Parties, Ledger!Profiles, Ledger!Statuses, Ledger!Rows
<1>2. \A n : Ledger!Num(n) = LP!Num(n)
  BY DEF LP!Num, LP!Spacing, LP!Spacings, Ledger!Num, Ledger!Spacing,
         Ledger!Spacings
<1> QED BY <1>1, <1>2, LedgerAssumption

LEMMA SameServiceData ==
  /\ Service!Waiting = SP!Waiting
  /\ Service!None = SP!None /\ Service!NoOutcome = SP!NoOutcome
  /\ Service!NoRequest = SP!NoRequest /\ Service!Outcomes = SP!Outcomes
  /\ Service!Error = SP!Error /\ Service!Conflict = SP!Conflict
  /\ Service!Mismatch = SP!Mismatch
  /\ \A b : Service!Ok(b) = SP!Ok(b)
  /\ \A c : /\ Service!Key(c) = SP!Key(c) /\ Service!Hash(c) = SP!Hash(c)
            /\ Service!Row(c) = SP!Row(c)
            /\ Service!Completed(c) = SP!Completed(c)
            /\ Service!Failed(c) = SP!Failed(c)
            /\ Service!Taken(c) = SP!Taken(c)
            /\ Service!Saved(c) = SP!Saved(c)
            /\ Service!Caught(c) <=> SP!Caught(c)
<1>1. /\ Service!Waiting = SP!Waiting
      /\ Service!None = SP!None /\ Service!NoOutcome = SP!NoOutcome
      /\ Service!NoRequest = SP!NoRequest
      /\ Service!Error = SP!Error /\ Service!Conflict = SP!Conflict
      /\ Service!Mismatch = SP!Mismatch
      /\ \A b : Service!Ok(b) = SP!Ok(b)
  BY DEF Service!Waiting, SP!Waiting, Service!None, SP!None,
         Service!NoOutcome, SP!NoOutcome, Service!NoRequest, SP!NoRequest,
         Service!Error, SP!Error, Service!Conflict, SP!Conflict,
         Service!Mismatch, SP!Mismatch, Service!Ok, SP!Ok
<1>2. \A c : /\ Service!Key(c) = SP!Key(c) /\ Service!Hash(c) = SP!Hash(c)
             /\ Service!Row(c) = SP!Row(c)
             /\ Service!Completed(c) = SP!Completed(c)
             /\ Service!Failed(c) = SP!Failed(c)
  BY DEF Service!Key, SP!Key, Service!Hash, SP!Hash, Service!Row, SP!Row,
         Service!Completed, SP!Completed, Service!Failed, SP!Failed
<1>3. Service!Outcomes = SP!Outcomes
  BY <1>1, <1>2 DEF Service!Outcomes, SP!Outcomes
<1>4. \A c : /\ Service!Taken(c) = SP!Taken(c)
             /\ Service!Saved(c) = SP!Saved(c)
             /\ Service!Caught(c) <=> SP!Caught(c)
  BY <1>2 DEF Service!Taken, SP!Taken, Service!Saved, SP!Saved,
              Service!Caught, SP!Caught
<1> QED BY <1>1, <1>2, <1>3, <1>4

LEMMA SameService ==
  /\ Service!Init <=> SP!Init
  /\ Service!vars = SP!vars /\ Service!vars' = SP!vars'
  /\ Service!Next <=> SP!Next
<1>1. Service!Init <=> SP!Init
  BY SameServiceData DEF Service!Init, SP!Init
<1>2. Service!vars = SP!vars /\ Service!vars' = SP!vars'
  BY DEF Service!vars, SP!vars
<1>3. /\ \A c, s : Service!Goto(c, s) <=> SP!Goto(c, s)
      /\ \A c, a : Service!Respond(c, a) <=> SP!Respond(c, a)
  BY DEF Service!Goto, SP!Goto, Service!Respond, SP!Respond
<1>4. \A c, k, p : Service!Call(c, k, p) <=> SP!Call(c, k, p)
  BY <1>3, SameServiceData DEF Service!Call, SP!Call
<1>5. \A c : Service!Find(c) <=> SP!Find(c)
  BY <1>3, SameServiceData DEF Service!Find, SP!Find
<1>6. \A c : Service!Update(c) <=> SP!Update(c)
  BY <1>3, SameServiceData DEF Service!Update, SP!Update
<1>7. \A c : Service!Insert(c) <=> SP!Insert(c)
  BY <1>3, SameServiceData DEF Service!Insert, SP!Insert
<1>8. \A c : Service!FindDuplicate(c) <=> SP!FindDuplicate(c)
  BY <1>3, SameServiceData DEF Service!FindDuplicate, SP!FindDuplicate
<1>9. \A c : Service!FindOneOrFail(c) <=> SP!FindOneOrFail(c)
  BY <1>3, SameServiceData DEF Service!FindOneOrFail, SP!FindOneOrFail
<1>10. \A c, o : Service!Operate(c, o) <=> SP!Operate(c, o)
  BY <1>3, SameServiceData DEF Service!Operate, SP!Operate
<1>11. \A c : Service!Load(c) <=> SP!Load(c)
  BY <1>3, SameServiceData DEF Service!Load, SP!Load
<1>12. \A c : Service!Save(c) <=> SP!Save(c)
  BY <1>3, SameServiceData DEF Service!Save, SP!Save
<1>13. \A c, t : Service!Written(c, t) = SP!Written(c, t)
  BY SameServiceData DEF Service!Written, SP!Written
<1>14. \A c, t : Service!Throw(c, t) <=> SP!Throw(c, t)
  BY <1>3, <1>13, SameServiceData DEF Service!Throw, SP!Throw
<1>15. \A c : Service!Die(c) <=> SP!Die(c)
  BY <1>3, SameServiceData DEF Service!Die, SP!Die
<1>16. \A c : Service!Step(c) <=> SP!Step(c)
  BY <1>5, <1>6, <1>7, <1>8, <1>9, <1>10, <1>11, <1>12, SameServiceData
  DEF Service!Step, SP!Step
<1>17. Service!Next <=> SP!Next
  BY <1>4, <1>14, <1>15, <1>16 DEF Service!Next, SP!Next
<1> QED BY <1>1, <1>2, <1>17

LEMMA SameLedgerData ==
  /\ Ledger!Accounts = LP!Accounts /\ Ledger!Profiles = LP!Profiles
  /\ Ledger!NoCopy = LP!NoCopy
  /\ Ledger!tables = LP!tables
  /\ \A m : Ledger!Rows(m) = LP!Rows(m) /\ Ledger!Lines(m) = LP!Lines(m)
  /\ \A m, a : Ledger!Delta(m, a) = LP!Delta(m, a)
  /\ \A n : Ledger!Num(n) = LP!Num(n)
  /\ \A r : Ledger!Held(r) = LP!Held(r)
  /\ \A m, rows, prof, bal :
       Ledger!Acceptable(m, rows, prof, bal) <=> LP!Acceptable(m, rows, prof, bal)
<1>1. Ledger!Accounts = LP!Accounts /\ Ledger!Profiles = LP!Profiles
  BY DEF Ledger!Accounts, LP!Accounts, Ledger!Profiles, LP!Profiles,
         Ledger!Statuses, LP!Statuses
<1>2. /\ Ledger!NoCopy = LP!NoCopy
      /\ Ledger!tables = LP!tables
  BY <1>1 DEF Ledger!NoCopy, LP!NoCopy, Ledger!tables, LP!tables
<1>3. /\ \A m : Ledger!Rows(m) = LP!Rows(m) /\ Ledger!Lines(m) = LP!Lines(m)
      /\ \A m, a : Ledger!Delta(m, a) = LP!Delta(m, a)
      /\ \A n : Ledger!Num(n) = LP!Num(n)
      /\ \A r : Ledger!Held(r) = LP!Held(r)
  BY <1>1 DEF Ledger!Rows, LP!Rows, Ledger!Lines, LP!Lines, Ledger!Delta,
              LP!Delta, Ledger!Num, LP!Num, Ledger!Spacing, LP!Spacing,
              Ledger!Spacings, LP!Spacings, Ledger!Held, LP!Held
<1>4. \A m, rows, prof, bal :
        Ledger!Acceptable(m, rows, prof, bal) <=> LP!Acceptable(m, rows, prof, bal)
  BY <1>1, <1>3 DEF Ledger!Acceptable, LP!Acceptable
<1> QED BY <1>1, <1>2, <1>3, <1>4

LEMMA SameBalanced == \A lines : Ledger!Balanced(lines) <=> LP!Balanced(lines)
BY DEF Ledger!Balanced, LP!Balanced, Ledger!Total, LP!Total,
       Ledger!MapThenSumSet, LP!MapThenSumSet, Ledger!MapThenFoldSet, LP!MapThenFoldSet

LEMMA SameLedger ==
  /\ Ledger!Init <=> LP!Init
  /\ Ledger!vars = LP!vars /\ Ledger!vars' = LP!vars'
  /\ Ledger!Next <=> LP!Next
  /\ \A c, a : Ledger!Commit(c, a) <=> LP!Commit(c, a)
<1>1. Ledger!Init <=> LP!Init
  BY SameLedgerData DEF Ledger!Init, LP!Init
<1>2. \A c, a : Ledger!Finish(c, a) <=> LP!Finish(c, a)
  BY SameLedgerData DEF Ledger!Finish, LP!Finish
<1>3. \A c, a : Ledger!NextRow(c, a) <=> LP!NextRow(c, a)
  BY SameLedgerData DEF Ledger!NextRow, LP!NextRow
<1>4. \A c : /\ Ledger!Loaded(c) <=> LP!Loaded(c)
             /\ Ledger!Passes(c) <=> LP!Passes(c)
  BY SameLedgerData DEF Ledger!Loaded, LP!Loaded, Ledger!Passes, LP!Passes
<1>5. \A c, a : Ledger!Moved(c, a) = LP!Moved(c, a)
  BY SameLedgerData DEF Ledger!Moved, LP!Moved
<1>6. \A c : Ledger!Storable(c) <=> LP!Storable(c)
  BY <1>5, SameBalanced, SameLedgerData DEF Ledger!Storable, LP!Storable
<1>7. \A a, p : Ledger!CreateAccount(a, p) <=> LP!CreateAccount(a, p)
  BY DEF Ledger!CreateAccount, LP!CreateAccount
<1>8. \A c, m : Ledger!Begin(c, m) <=> LP!Begin(c, m)
  BY SameLedgerData DEF Ledger!Begin, LP!Begin, Ledger!tables, LP!tables
<1>9. \A c, a : Ledger!LockRow(c, a) <=> LP!LockRow(c, a)
  BY <1>3, SameLedgerData DEF Ledger!LockRow, LP!LockRow, Ledger!tables, LP!tables
<1>10. \A c : Ledger!Write(c) <=> LP!Write(c)
  BY <1>4, <1>5, <1>6, SameLedgerData DEF Ledger!Write, LP!Write, Ledger!tables, LP!tables
<1>11. \A c : /\ Ledger!Reject(c) <=> LP!Reject(c)
              /\ Ledger!Refuse(c) <=> LP!Refuse(c)
              /\ Ledger!Abort(c) <=> LP!Abort(c)
  BY <1>2, <1>4, <1>6, SameLedgerData
  DEF Ledger!Reject, LP!Reject, Ledger!Refuse, LP!Refuse, Ledger!Abort, LP!Abort,
      Ledger!tables, LP!tables
<1>12. \A c, a : Ledger!Commit(c, a) <=> LP!Commit(c, a)
  BY <1>2, SameLedgerData DEF Ledger!Commit, LP!Commit
<1>13. Ledger!Next <=> LP!Next
  BY <1>7, <1>8, <1>9, <1>10, <1>11, <1>12, SameLedgerData DEF Ledger!Next, LP!Next
<1>14. Ledger!vars = LP!vars /\ Ledger!vars' = LP!vars'
  BY DEF Ledger!vars, LP!vars
<1> QED BY <1>1, <1>12, <1>13, <1>14

-----------------------------------------------------------------------------
\* Every step of an endpoint is one of each part, or leaves the part alone.

LEMMA ServiceStep ==
  [Next]_vars => [SP!Next]_(SP!vars)
<1> SUFFICES ASSUME [Next]_vars PROVE Service!Next \/ UNCHANGED Service!vars
  BY SameService
<1>1. ASSUME UNCHANGED wrapper, UNCHANGED completed
      PROVE  UNCHANGED Service!vars
  BY <1>1 DEF wrapper, Service!vars
<1>2. CASE UNCHANGED vars
  BY <1>1, <1>2 DEF vars, ledger
<1>3. CASE CreateAccount
  BY <1>1, <1>3 DEF CreateAccount, Ledger!CreateAccount
<1>4. ASSUME NEW c \in Calls, Call(c) PROVE Service!Next
  BY <1>4, AcceptsAssumption DEF Call, Service!Next
<1>5. ASSUME NEW c \in Calls, Wrap(c) PROVE Service!Next
  BY <1>5 DEF Wrap, Service!Next, Service!Step
<1>6. ASSUME NEW c \in Calls, Throws(c) PROVE Service!Next
  BY <1>6 DEF Throws, Service!Next, Service!Step, Service!Outcomes
<1>7. ASSUME NEW c \in Calls, Begin(c) PROVE Service!Next \/ UNCHANGED Service!vars
  BY <1>1, <1>6, <1>7 DEF Begin, Ledger!Begin, Ledger!tables
<1>8. ASSUME NEW c \in Calls, Work(c) PROVE UNCHANGED Service!vars
  BY <1>1, <1>8 DEF Work, Ledger!Write, Ledger!LockRow, Ledger!tables
<1>9. ASSUME NEW c \in Calls, Commit(c) PROVE Service!Next
  BY <1>9 DEF Commit, Returns, Service!Next, Service!Step, Service!Outcomes
<1>10. ASSUME NEW c \in Calls, Reject(c) \/ Abort(c) PROVE Service!Next
  BY <1>6, <1>10 DEF Reject, Abort
<1>11. ASSUME NEW c \in Calls, LoseCommit(c) \/ Throw(c) PROVE Service!Next
  BY <1>11 DEF LoseCommit, Throw, Service!Next
<1>12. ASSUME NEW c \in Calls, Die(c) PROVE Service!Next
  BY <1>12 DEF Die, Service!Next
<1> QED BY <1>2, <1>3, <1>4, <1>5, <1>7, <1>8, <1>9, <1>10, <1>11, <1>12
        DEF Next, Step

LEMMA LedgerStep ==
  SP!Inv /\ [Next]_vars => [LP!Next]_(LP!vars)
<1> SUFFICES ASSUME SP!Inv, [Next]_vars PROVE Ledger!Next \/ UNCHANGED Ledger!vars
  BY SameLedger
<1>1. ASSUME UNCHANGED ledger PROVE UNCHANGED Ledger!vars
  BY <1>1 DEF ledger, Ledger!vars
<1>2. CASE UNCHANGED vars
  BY <1>1, <1>2 DEF vars
<1>3. CASE CreateAccount
  BY <1>3 DEF CreateAccount, Ledger!Next
<1>4. ASSUME NEW c \in Calls, Call(c) \/ Wrap(c) \/ Throw(c)
      PROVE  UNCHANGED Ledger!vars
  BY <1>1, <1>4 DEF Call, Wrap, Throw
<1>5. ASSUME NEW c \in Calls, Begin(c) PROVE Ledger!Next
  <2>1. Service!Hash(c) \in Payloads
    BY <1>5 DEF Begin, Operating, Service!Hash, SP!Inv, SP!Asked, SP!Requests
  <2> QED BY <1>5, <2>1 DEF Begin, Ledger!Next
<1>6. ASSUME NEW c \in Calls, Work(c) PROVE Ledger!Next
  BY <1>6 DEF Work, Ledger!Next
<1>7. ASSUME NEW c \in Calls, Commit(c) \/ LoseCommit(c) PROVE Ledger!Next
  BY <1>7 DEF Commit, LoseCommit, Ledger!Next
<1>8. ASSUME NEW c \in Calls, Reject(c) \/ Abort(c) PROVE Ledger!Next
  BY <1>8 DEF Reject, Abort, Ledger!Next
<1>9. ASSUME NEW c \in Calls, Die(c) PROVE Ledger!Next \/ UNCHANGED Ledger!vars
  BY <1>1, <1>9 DEF Die, Ledger!Next
<1> QED BY <1>2, <1>3, <1>4, <1>5, <1>6, <1>7, <1>8, <1>9 DEF Next, Step

LEMMA InitParts == Init => SP!Init /\ SP!Inv /\ SP!Single /\ LP!Init /\ LP!Inv
BY SameService, SameLedger, SP!InitInv, SP!InitSingle, LP!InitInv,
   ServiceConstants, LedgerConstants
DEF Init

LEMMA NextParts == SP!Inv /\ LP!Inv /\ [Next]_vars => SP!Inv' /\ LP!Inv'
BY ServiceStep, LedgerStep, SP!NextInv, LP!NextInv, ServiceConstants,
   LedgerConstants

(***************************************************************************)
(* An endpoint does what its parts do: all that is proved of Idempotency   *)
(* and of Ledger is true of their composition.                             *)
(***************************************************************************)
THEOREM Composition == Spec => Service!Spec /\ Ledger!Spec
<1>1. Init => Service!Init /\ SP!Inv /\ Ledger!Init /\ LP!Inv
  BY InitParts DEF Init
<1>2. SP!Inv /\ LP!Inv /\ [Next]_vars => SP!Inv' /\ LP!Inv'
  BY NextParts
<1>3. SP!Inv /\ [Next]_vars
        => [Service!Next]_(Service!vars) /\ [Ledger!Next]_(Ledger!vars)
  BY ServiceStep, LedgerStep, SameService, SameLedger
<1> QED BY <1>1, <1>2, <1>3, PTL DEF Spec, Service!Spec, Ledger!Spec

-----------------------------------------------------------------------------
\* The database transaction of a call is open only during its operation, and
\* makes the movement that the call asks for.
Linked ==
    \A c \in Calls :
      phase[c] \in {"locking", "written"} =>
        stage[c] = "operation" /\ movement[c] = request[c].payload

\* Every step of LedgerApi but one is a step of one call.
LEMMA LinkedStep ==
  ASSUME Linked, NEW c \in Calls,
         \A d \in Calls \ {c} :
           /\ stage'[d] = stage[d] /\ request'[d] = request[d]
           /\ phase'[d] = phase[d] /\ movement'[d] = movement[d],
         phase'[c] \in {"locking", "written"} =>
           stage'[c] = "operation" /\ movement'[c] = request'[c].payload
  PROVE  Linked'
BY DEF Linked

LEMMA NextLinked == SP!Inv /\ LP!Inv /\ Linked /\ [Next]_vars => Linked'
<1> SUFFICES ASSUME SP!Inv, LP!Inv, Linked, [Next]_vars PROVE Linked'
  OBVIOUS
<1>0. /\ DOMAIN stage = Calls /\ DOMAIN request = Calls
      /\ DOMAIN phase = Calls /\ DOMAIN movement = Calls
  BY DEF SP!Inv, SP!TypeOK, LP!Inv, LP!TypeOK
<1>1. CASE UNCHANGED <<stage, request, phase, movement>>
  BY <1>1 DEF Linked
<1>2. CASE CreateAccount
  BY <1>1, <1>2 DEF CreateAccount, Ledger!CreateAccount, wrapper
<1>3. ASSUME NEW c \in Calls, Call(c) \/ Wrap(c) \/ Throw(c) PROVE Linked'
  <2>1. stage[c] # "operation" /\ UNCHANGED <<phase, movement>>
    BY <1>3 DEF Call, Wrap, Throw, Operating, ledger, Service!Call, Service!Find,
       Service!Update, Service!Insert, Service!FindDuplicate,
       Service!FindOneOrFail, Service!Load, Service!Save
  <2>2. phase[c] \notin {"locking", "written"}
    BY <2>1 DEF Linked
  <2>3. \A d \in Calls \ {c} : stage'[d] = stage[d] /\ request'[d] = request[d]
    BY <1>0, <1>3 DEF Call, Wrap, Throw, Service!Call, Service!Find,
       Service!Update, Service!Insert, Service!FindDuplicate,
       Service!FindOneOrFail, Service!Load, Service!Save, Service!Throw,
       Service!Goto, Service!Respond
  <2> QED BY <2>1, <2>2, <2>3, LinkedStep
<1>4. ASSUME NEW c \in Calls, Begin(c) PROVE Linked'
  <2>1. /\ stage[c] = "operation" /\ movement'[c] = request[c].payload
        /\ \A d \in Calls \ {c} : phase'[d] = phase[d] /\ movement'[d] = movement[d]
    BY <1>0, <1>4 DEF Begin, Operating, Ledger!Begin, Service!Hash
  <2>2. \/ UNCHANGED <<stage, request>>
        \/ /\ phase'[c] = "rejected" /\ request' = request
           /\ \A d \in Calls \ {c} : stage'[d] = stage[d]
    BY <1>0, <1>4 DEF Begin, Throws, Service!Operate, Service!Goto, wrapper
  <2> QED BY <2>1, <2>2, LinkedStep
<1>5. ASSUME NEW c \in Calls, Work(c) PROVE Linked'
  <2>1. /\ UNCHANGED <<stage, request, movement>>
        /\ phase[c] = "locking"
        /\ \A d \in Calls \ {c} : phase'[d] = phase[d]
    BY <1>0, <1>5 DEF Work, wrapper, Ledger!Write, Ledger!Loaded, Ledger!LockRow,
                     Ledger!NextRow
  <2> QED BY <2>1, LinkedStep DEF Linked
<1>6. ASSUME NEW c \in Calls,
             Commit(c) \/ Reject(c) \/ Abort(c) \/ LoseCommit(c) \/ Die(c)
      PROVE  Linked'
  <2>1. request' = request /\ \A d \in Calls \ {c} : stage'[d] = stage[d]
    BY <1>0, <1>6 DEF Commit, Returns, Reject, Abort, LoseCommit, Die, Throws,
       Service!Operate, Service!Throw, Service!Die, Service!Goto, Service!Respond
  <2>2. /\ movement' = movement /\ phase'[c] \notin {"locking", "written"}
        /\ \A d \in Calls \ {c} : phase'[d] = phase[d]
    BY <1>0, <1>6 DEF Commit, Reject, Abort, LoseCommit, Die, Ledger!Commit,
       Ledger!Reject, Ledger!Refuse, Ledger!Abort, Ledger!Finish, ledger
  <2> QED BY <2>1, <2>2, LinkedStep
<1> QED BY <1>1, <1>2, <1>3, <1>4, <1>5, <1>6 DEF Next, Step, vars, wrapper, ledger

-----------------------------------------------------------------------------
\* The replies.

LEMMA SameMapping ==
  /\ Service!Effect = SP!Effect /\ Service!Reply = SP!Reply
  /\ Service!Effect' = SP!Effect' /\ Service!Reply' = SP!Reply'
BY DEF Service!Effect, SP!Effect, Service!Reply, SP!Reply,
       Service!MovedFor, SP!MovedFor, Service!Key, SP!Key

LEMMA SamePromise ==
  /\ Service!Promise!Init <=> SP!Promise!Init
  /\ Service!Promise!vars = SP!Promise!vars
  /\ Service!Promise!vars' = SP!Promise!vars'
  /\ Service!Promise!Next <=> SP!Promise!Next
<1>1. Service!Promise!Init <=> SP!Promise!Init
  BY SameMapping, SameServiceData DEF Service!Promise!Init, SP!Promise!Init
<1>2. /\ Service!Promise!vars = SP!Promise!vars
      /\ Service!Promise!vars' = SP!Promise!vars'
  BY SameMapping DEF Service!Promise!vars, SP!Promise!vars
<1>3. \A c, k, p : Service!Promise!Ask(c, k, p) <=> SP!Promise!Ask(c, k, p)
  BY SameMapping, SameServiceData DEF Service!Promise!Ask, SP!Promise!Ask
<1>4. \A c : /\ Service!Promise!Of(c) = SP!Promise!Of(c)
             /\ Service!Promise!Pending(c) <=> SP!Promise!Pending(c)
             /\ Service!Promise!Matches(c) <=> SP!Promise!Matches(c)
  BY SameMapping, SameServiceData
  DEF Service!Promise!Of, SP!Promise!Of, Service!Promise!Pending,
      SP!Promise!Pending, Service!Promise!Matches, SP!Promise!Matches
<1>5. \A c : /\ Service!Promise!TakeEffect(c) <=> SP!Promise!TakeEffect(c)
             /\ Service!Promise!Succeed(c) <=> SP!Promise!Succeed(c)
             /\ Service!Promise!Refuse(c) <=> SP!Promise!Refuse(c)
  BY <1>4, SameMapping
  DEF Service!Promise!TakeEffect, SP!Promise!TakeEffect,
      Service!Promise!Succeed, SP!Promise!Succeed,
      Service!Promise!Refuse, SP!Promise!Refuse
<1>6. Service!Promise!Next <=> SP!Promise!Next
  BY <1>3, <1>5 DEF Service!Promise!Next, SP!Promise!Next
<1> QED BY <1>1, <1>2, <1>6

(***************************************************************************)
(* As long as nothing has failed, every call of an endpoint is answered as *)
(* OncePerKey promises, what the ledger commits being the effects.         *)
(***************************************************************************)
THEOREM RepliesKept ==
  ASSUME ~Overlap
  PROVE  Spec => RepliesAreKept
<1>1. SP!Spec => SP!ImplementsOncePerKey
  BY SP!KeepsItsPromise, ServiceConstants
<1>2. Service!Spec <=> SP!Spec
  <2>1. /\ Service!Init <=> SP!Init
        /\ [Service!Next]_(Service!vars) <=> [SP!Next]_(SP!vars)
    BY SameService
  <2> QED BY <2>1, PTL DEF Service!Spec, SP!Spec
<1>3. SP!ImplementsOncePerKey => Service!ImplementsOncePerKey
  <2>1. /\ Service!Promise!Init <=> SP!Promise!Init
        /\ [Service!Promise!Next \/ faults' > 0]_(Service!Promise!vars)
             <=> [SP!Promise!Next \/ faults' > 0]_(SP!Promise!vars)
    BY SamePromise
  <2> QED BY <2>1, PTL DEF Service!ImplementsOncePerKey, SP!ImplementsOncePerKey
<1> QED BY <1>1, <1>2, <1>3, Composition, PTL DEF RepliesAreKept

-----------------------------------------------------------------------------
\* The keys as the requests of the atomic ledger.

\* No journal sum passes the range in which JavaScript numbers are exact.
WithinExact == \A a \in Ledger!Accounts : posted[a] <= ExactLimit

LEMMA SamePerKeyData ==
  /\ PerKey!Accounts = LP!Accounts /\ PerKey!Profiles = LP!Profiles
  /\ \A m : PerKey!Rows(m) = LP!Rows(m)
  /\ \A m, a : PerKey!Delta(m, a) = LP!Delta(m, a)
  /\ \A m, rows, prof, bal :
       PerKey!Acceptable(m, rows, prof, bal) <=> LP!Acceptable(m, rows, prof, bal)
<1>1. PerKey!Accounts = LP!Accounts /\ PerKey!Profiles = LP!Profiles
  BY DEF PerKey!Accounts, LP!Accounts, PerKey!Profiles, LP!Profiles,
         PerKey!Statuses, LP!Statuses
<1>2. /\ \A m : PerKey!Rows(m) = LP!Rows(m)
      /\ \A m, a : PerKey!Delta(m, a) = LP!Delta(m, a)
  BY <1>1 DEF PerKey!Rows, LP!Rows, PerKey!Delta, LP!Delta
<1> QED BY <1>1, <1>2 DEF PerKey!Acceptable, LP!Acceptable

\* The step at which a key that has not moved moves: what is then applied.
LEMMA AppliedStep ==
  ASSUME SP!Inv, NEW c \in Calls, stage[c] = "operation", c \notin completed,
         request' = request, completed' = completed \cup {c},
         MovedFor(request[c].key) = {}
  PROVE  /\ Applied[request[c].key] = Nothing
         /\ Applied' = [Applied EXCEPT ![request[c].key] = request[c].payload]
         /\ request[c].key \in Keys /\ request[c].payload \in Payloads
<1> DEFINE key == request[c].key
           Pick(S) == IF S = {} THEN Nothing
                      ELSE request[CHOOSE d \in S : TRUE].payload
<1>1. key \in Keys /\ request[c].payload \in Payloads
  BY DEF SP!Inv, SP!Asked, SP!Requests
<1>2. /\ Applied = [k \in Keys |-> Pick(MovedFor(k))]
      /\ Applied' = [k \in Keys |-> Pick(MovedFor(k)')]
  BY DEF Applied
<1>3. \A k \in Keys : MovedFor(k)' = IF k = key THEN {c} ELSE MovedFor(k)
  BY DEF MovedFor
<1>4. Pick({}) = Nothing /\ Pick({c}) = request[c].payload
  OBVIOUS
<1> HIDE DEF Pick, key
<1>5. Applied[key] = Nothing
  BY <1>1, <1>2, <1>4 DEF key
<1>6. Applied' = [Applied EXCEPT ![key] = request[c].payload]
  BY <1>1, <1>2, <1>3, <1>4
<1> QED BY <1>1, <1>5, <1>6 DEF key

\* What leaves the money and the requests of the calls that moved it alone.
LEMMA AppliedStays ==
  ASSUME completed' = completed,
         \A c \in completed : request'[c] = request[c]
  PROVE  Applied' = Applied
<1> DEFINE Pick(S, r) == IF S = {} THEN Nothing ELSE r[CHOOSE d \in S : TRUE].payload
<1>1. \A k \in Keys : MovedFor(k)' = MovedFor(k) /\ MovedFor(k) \subseteq completed
  BY DEF MovedFor
<1>2. \A S : S \subseteq completed => Pick(S, request') = Pick(S, request)
  OBVIOUS
<1>3. /\ Applied = [k \in Keys |-> Pick(MovedFor(k), request)]
      /\ Applied' = [k \in Keys |-> Pick(MovedFor(k)', request')]
  BY DEF Applied
<1> HIDE DEF Pick
<1> QED BY <1>1, <1>2, <1>3

\* A key moves once as long as no result is lost: another movement for the key
\* would have kept its row, and this call from its operation.
LEMMA FirstOfItsKey ==
  ASSUME SP!Inv, SP!Single, LP!Inv, ~ResultLost, NEW c \in Calls,
         stage[c] = "operation", c \notin completed
  PROVE  MovedFor(request[c].key) = {}
<1> SUFFICES ASSUME NEW d \in completed, request[d].key = request[c].key
    PROVE  FALSE
  BY DEF MovedFor
<1>1. outcome[d].status # "failed" /\ d # c /\ d \in Calls
  BY DEF ResultLost, SP!Inv, SP!TypeOK
<1>2. stage[c] \notin SP!Taking
  BY <1>1 DEF SP!Single, SP!Kept, SP!Key
<1> QED BY <1>2 DEF SP!Taking, SP!Owning

\* A commit of the ledger is the abstract Apply for its key.
LEMMA CommitApplies ==
  ASSUME SP!Inv, SP!Single, LP!Inv, Linked, LP!BalanceMatchesLedger,
         LP!WithinExact', ~ResultLost,
         NEW c \in Calls, NEW a \in {"committed", "failed"},
         Ledger!Commit(c, a), request' = request
  PROVE  PerKey!Next
<1>1. LP!Commit(c, a)
  BY SameLedger
<1>2. phase[c] = "written" /\ completed' = completed \cup {c} /\ profile' = profile
  BY <1>1 DEF LP!Commit
<1>3. stage[c] = "operation" /\ movement[c] = request[c].payload
  BY <1>2 DEF Linked
<1>4. /\ c \notin completed
      /\ movement[c].from # movement[c].to
      /\ LP!Acceptable(movement[c], found[c], profile, balance)
      /\ \A x \in found[c] : profile[x] # Absent
  BY <1>2 DEF LP!Inv, LP!Footprint, LP!Running, LP!DecisionsStand, LP!Active
<1>5. found[c] = {x \in LP!Rows(movement[c]) : profile[x] # Absent}
  BY <1>4 DEF LP!Acceptable
<1>6. balance' = [x \in LP!Accounts |-> balance[x] + LP!Delta(movement[c], x)]
  <2>1. \A x \in LP!Accounts : balance'[x] = balance[x] + LP!Delta(movement[c], x)
    BY <1>1, LP!CommitMovesBoth, LedgerConstants
  <2> QED BY <1>1, <2>1 DEF LP!Commit
<1>7. /\ Applied[request[c].key] = Nothing
      /\ Applied' = [Applied EXCEPT ![request[c].key] = request[c].payload]
      /\ request[c].key \in Keys /\ request[c].payload \in Payloads
  BY <1>2, <1>3, <1>4, FirstOfItsKey, AppliedStep
<1>8. PerKey!Apply(request[c].key, request[c].payload)
  BY <1>2, <1>3, <1>4, <1>5, <1>6, <1>7, SamePerKeyData DEF PerKey!Apply
<1> QED BY <1>7, <1>8 DEF PerKey!Next

LEMMA NextApplies ==
  SP!Inv /\ SP!Single /\ LP!Inv /\ Linked /\ LP!BalanceMatchesLedger
    /\ LP!WithinExact' /\ [Next]_vars
    => [PerKey!Next \/ ResultLost]_(PerKey!vars)
<1> SUFFICES ASSUME SP!Inv, SP!Single, LP!Inv, Linked, LP!BalanceMatchesLedger,
                    LP!WithinExact', [Next]_vars, ~ResultLost
    PROVE  PerKey!Next \/ UNCHANGED PerKey!vars
  OBVIOUS
<1>1. ASSUME UNCHANGED <<profile, balance, completed>>,
             \A c \in completed : request'[c] = request[c]
      PROVE  UNCHANGED PerKey!vars
  BY <1>1, AppliedStays DEF PerKey!vars
<1>2. CASE UNCHANGED vars
  BY <1>1, <1>2 DEF vars, wrapper, ledger
<1>3. CASE CreateAccount
  <2>1. PICK a \in Ledger!Accounts, p \in Ledger!Profiles : Ledger!CreateAccount(a, p)
    BY <1>3 DEF CreateAccount
  <2>2. Applied' = Applied
    BY <1>3, <2>1, AppliedStays DEF CreateAccount, Ledger!CreateAccount, wrapper
  <2>3. PerKey!Open(a, p)
    BY <2>1, <2>2 DEF Ledger!CreateAccount, PerKey!Open
  <2> QED BY <2>3, SamePerKeyData, SameLedgerData DEF PerKey!Next
<1>4. ASSUME NEW c \in Calls, Call(c) PROVE UNCHANGED PerKey!vars
  <2>1. stage[c] = "idle" /\ \A d \in Calls \ {c} : request'[d] = request[d]
    BY <1>4 DEF Call, Service!Call, SP!Inv, SP!TypeOK
  <2>2. c \notin completed /\ completed \subseteq Calls
    BY <2>1 DEF SP!Inv, SP!Asked, SP!TypeOK
  <2> QED BY <1>1, <1>4, <2>1, <2>2 DEF Call, ledger
<1>5. ASSUME NEW c \in Calls, Wrap(c) \/ Throw(c) PROVE UNCHANGED PerKey!vars
  BY <1>1, <1>5 DEF Wrap, Throw, ledger, Service!Find, Service!Update,
     Service!Insert, Service!FindDuplicate, Service!FindOneOrFail,
     Service!Load, Service!Save, Service!Throw
<1>6. ASSUME NEW c \in Calls, Begin(c) \/ Work(c) PROVE UNCHANGED PerKey!vars
  <2>1. UNCHANGED <<profile, balance, completed>>
    BY <1>6 DEF Begin, Work, Ledger!Begin, Ledger!Write, Ledger!LockRow, Ledger!tables
  <2>2. request' = request
    BY <1>6 DEF Begin, Work, Throws, Service!Operate, wrapper
  <2> QED BY <1>1, <2>1, <2>2
<1>7. ASSUME NEW c \in Calls, Commit(c) \/ LoseCommit(c) PROVE PerKey!Next
  <2>1. request' = request
    BY <1>7 DEF Commit, LoseCommit, Returns, Service!Operate, Service!Throw
  <2> QED BY <1>7, <2>1, CommitApplies DEF Commit, LoseCommit
<1>8. ASSUME NEW c \in Calls, Reject(c) \/ Abort(c) \/ Die(c)
      PROVE  UNCHANGED PerKey!vars
  <2>1. UNCHANGED <<profile, balance, completed>>
    BY <1>8 DEF Reject, Abort, Die, Ledger!Reject, Ledger!Refuse, Ledger!Abort,
       Ledger!tables, ledger
  <2>2. request' = request
    BY <1>8 DEF Reject, Abort, Die, Throws, Service!Operate, Service!Die
  <2> QED BY <1>1, <2>1, <2>2
<1> QED BY <1>2, <1>3, <1>4, <1>5, <1>6, <1>7, <1>8 DEF Next, Step

(***************************************************************************)
(* "retries must not duplicate money movement", of the balances: with      *)
(* clients that wait for an answer before they retry, the keys are         *)
(* requests of the atomic ledger, through any faults, unless the result of *)
(* a movement that committed is lost.                                      *)
(***************************************************************************)
THEOREM OncePerKeyUnlessLost ==
  ASSUME ~Overlap
  PROVE  Spec /\ []WithinExact => AtomicUnlessLost
<1> DEFINE I == /\ SP!Inv /\ SP!Single /\ LP!Inv /\ Linked
                /\ LP!BalanceMatchesLedger
<1>1. Init => I /\ PerKey!Init
  <2> SUFFICES ASSUME Init PROVE I /\ PerKey!Init
    OBVIOUS
  <2>1. SP!Inv /\ SP!Single /\ LP!Init /\ LP!Inv
    BY InitParts
  <2>2. Linked /\ LP!BalanceMatchesLedger
    BY <2>1 DEF LP!Init, Linked, LP!BalanceMatchesLedger
  <2>3. PerKey!Init
    BY <2>1, SamePerKeyData DEF LP!Init, PerKey!Init, Applied, MovedFor
  <2> QED BY <2>1, <2>2, <2>3
<1>2. WithinExact => LP!WithinExact
  BY SameLedgerData DEF WithinExact, LP!WithinExact
<1>3. I /\ LP!WithinExact' /\ [Next]_vars => I'
  <2> SUFFICES ASSUME I, LP!WithinExact', [Next]_vars PROVE I'
    OBVIOUS
  <2>1. SP!Inv' /\ LP!Inv' /\ Linked'
    BY NextParts, NextLinked
  <2>2. SP!Single'
    BY ServiceStep, SP!NextSingle, ServiceConstants
  <2>3. LP!BalanceMatchesLedger'
    BY LedgerStep, LP!MatchNext, LedgerConstants
  <2> QED BY <2>1, <2>2, <2>3
<1>4. I /\ LP!WithinExact' /\ [Next]_vars
        => [PerKey!Next \/ ResultLost]_(PerKey!vars)
  BY NextApplies
<1> HIDE DEF I
<1> QED BY <1>1, <1>2, <1>3, <1>4, PTL DEF Spec, AtomicUnlessLost
-----------------------------------------------------------------------------
\* What a call has committed is the movement that it asked for.
Made == \A c \in completed : movement[c] = request[c].payload

LEMMA NextMade ==
  SP!Inv /\ LP!Inv /\ Linked /\ Made /\ [Next]_vars => Made'
<1> SUFFICES ASSUME SP!Inv, LP!Inv, Linked, Made, [Next]_vars PROVE Made'
  OBVIOUS
<1>0. /\ completed \subseteq Calls
      /\ DOMAIN request = Calls /\ DOMAIN movement = Calls
      /\ \A c \in completed : /\ phase[c] \in {"committed", "failed"}
                              /\ stage[c] # "idle"
  BY DEF SP!Inv, SP!TypeOK, SP!Asked, LP!Inv, LP!TypeOK, LP!Footprint
<1>1. CASE UNCHANGED <<completed, movement, request>>
  BY <1>1 DEF Made
<1>2. CASE UNCHANGED vars \/ CreateAccount
  BY <1>1, <1>2 DEF vars, wrapper, ledger, CreateAccount, Ledger!CreateAccount
<1>3. ASSUME NEW c \in Calls, Call(c) PROVE Made'
  <2>1. stage[c] = "idle" /\ \A d \in Calls \ {c} : request'[d] = request[d]
    BY <1>0, <1>3 DEF Call, Service!Call
  <2>2. UNCHANGED <<completed, movement>>
    BY <1>3 DEF Call, ledger
  <2> QED BY <1>0, <2>1, <2>2 DEF Made
<1>4. ASSUME NEW c \in Calls, Begin(c) PROVE Made'
  <2>1. phase[c] = "idle" /\ \A d \in Calls \ {c} : movement'[d] = movement[d]
    BY <1>0, <1>4 DEF Begin, Ledger!Begin
  <2>2. UNCHANGED <<completed, request>>
    BY <1>4 DEF Begin, Throws, Service!Operate, wrapper, Ledger!Begin, Ledger!tables
  <2> QED BY <1>0, <2>1, <2>2 DEF Made
<1>5. ASSUME NEW c \in Calls, Commit(c) \/ LoseCommit(c) PROVE Made'
  <2>1. /\ UNCHANGED <<movement, request>>
        /\ completed' = completed \cup {c} /\ phase[c] = "written"
    BY <1>5 DEF Commit, LoseCommit, Returns, Service!Operate, Service!Throw,
                Ledger!Commit, Ledger!Finish
  <2> QED BY <2>1 DEF Made, Linked
<1>6. ASSUME NEW c \in Calls, Wrap(c) \/ Throw(c)
      PROVE  UNCHANGED <<completed, movement, request>>
  BY <1>6 DEF Wrap, Throw, ledger, Service!Find, Service!Update,
     Service!Insert, Service!FindDuplicate, Service!FindOneOrFail,
     Service!Load, Service!Save, Service!Throw
<1>7. ASSUME NEW c \in Calls, Work(c)
      PROVE  UNCHANGED <<completed, movement, request>>
  BY <1>7 DEF Work, wrapper, Ledger!Write, Ledger!LockRow, Ledger!tables
<1>8. ASSUME NEW c \in Calls, Reject(c) \/ Abort(c) \/ Die(c)
      PROVE  UNCHANGED <<completed, movement, request>>
  <2>1. UNCHANGED <<completed, movement>>
    BY <1>8 DEF Reject, Abort, Die, Ledger!Reject, Ledger!Refuse, Ledger!Abort,
       Ledger!Finish, Ledger!tables, ledger
  <2>2. UNCHANGED request
    BY <1>8 DEF Reject, Abort, Die, Throws, Service!Operate, Service!Die
  <2> QED BY <2>1, <2>2
<1> QED BY <1>1, <1>2, <1>3, <1>4, <1>5, <1>6, <1>7, <1>8 DEF Next, Step

(***************************************************************************)
(* No client is told of a success that the ledger does not hold in full,   *)
(* whatever fails and even if clients retry before they have an answer.    *)
(***************************************************************************)
THEOREM SuccessRecorded == Spec => []SuccessIsRecorded
<1> DEFINE I == SP!Inv /\ LP!Inv /\ Linked /\ Made
<1>1. Init => I
  <2> SUFFICES ASSUME Init PROVE I
    OBVIOUS
  <2>1. SP!Inv /\ LP!Init /\ LP!Inv
    BY InitParts
  <2> QED BY <2>1 DEF LP!Init, Linked, Made
<1>2. I /\ [Next]_vars => I'
  BY NextParts, NextLinked, NextMade
<1>3. I => SuccessIsRecorded
  <2> SUFFICES ASSUME I, NEW c \in Calls, answer[c].kind = "ok"
               PROVE  \E d \in completed :
                        /\ request[d] = request[c] /\ d \in outbox
                        /\ entries[d] = Ledger!Lines(request[c].payload)
    BY DEF SuccessIsRecorded
  <2>1. PICK d \in completed : request[d] = request[c]
    BY DEF SP!Inv, SP!SuccessMeansMoved
  <2>2. d \in outbox /\ entries[d] = LP!Lines(movement[d])
    BY DEF LP!Inv, LP!TypeOK, LP!Footprint
  <2>3. movement[d] = request[c].payload
    BY <2>1 DEF Made
  <2>4. Ledger!Lines(movement[d]) = LP!Lines(movement[d])
    BY DEF Ledger!Lines, LP!Lines
  <2> QED BY <2>1, <2>2, <2>3, <2>4
<1> HIDE DEF I
<1> QED BY <1>1, <1>2, <1>3, PTL DEF Spec

=============================================================================

----------------------------- MODULE LedgerProofs -----------------------------
(***************************************************************************)
(* Theorems of Ledger for every number of accounts and requests and every  *)
(* set of movements.  Inv is the inductive invariant: the locks, the       *)
(* copies and the stages of a request belong together.  It needs no bound  *)
(* on amounts; the theorems that compare the balance column with the       *)
(* journal assume in addition that no journal sum passes ExactLimit, the   *)
(* range in which a JavaScript number is an exact integer.                 *)
(***************************************************************************)
EXTENDS Ledger, WellFoundedInduction, TLAPS

Active(r) == stage[r] \in {"locking", "written"}

\* A lock is held by a running request, on a row that it found.
LocksHeld ==
    \A a \in Accounts, r \in Requests :
      lock[a] = r => Active(r) /\ a \in found[r]

\* The rows a request holds lie below the rows it has yet to lock.
LockOrder ==
    \A r \in Requests : stage[r] = "locking" =>
      \A b \in Held(r), c \in found[r] \ Held(r) : b < c

\* What a running request knows of itself.
Running ==
    \A r \in Requests :
      /\ Active(r) =>
           /\ movement[r] \in Movements
           /\ movement[r].from # movement[r].to
           /\ \A a \in found[r] : profile[a] # Absent
      /\ stage[r] = "written" =>
           /\ found[r] \subseteq Held(r)
           /\ Balanced(Lines(movement[r]))

\* Only a request that ended, and not by a rejection, has left rows.
Footprint ==
    \A r \in Requests :
      /\ r \in completed => stage[r] \in {"committed", "failed"}
      /\ stage[r] = "committed" => r \in completed
      /\ r \in completed => movement[r] \in Movements
      /\ r \in completed <=> r \in outbox
      /\ r \in completed =>
           /\ entries[r] = Lines(movement[r])
           /\ Balanced(entries[r])
      /\ r \notin completed => entries[r] = {}

Solvent == \A a \in Accounts : balance[a] >= 0

Inv ==
    /\ TypeOK
    /\ LocksHeld
    /\ LockOrder
    /\ Running
    /\ DecisionsStand
    /\ Footprint
    /\ Solvent

-----------------------------------------------------------------------------
\* Facts about the data.

\* Rounding to a JavaScript number keeps integers integers, does not cross
\* zero, and is the identity up to ExactLimit.
LEMMA NumFacts ==
  ASSUME NEW n \in Int
  PROVE  /\ Num(n) \in Int
         /\ n >= 0 => Num(n) >= 0
         /\ n <= ExactLimit => Num(n) = n
<1> DEFINE d == Spacing(n)
<1>1. ExactLimit \in Nat
  BY LimitsAssumption
<1>2. d \in Spacings
  <2> DEFINE Wide == {e \in Spacings : n <= ExactLimit * e \/ e = 2048}
  <2>1. \E e \in Wide : \A f \in Wide : e <= f
    BY <1>1 DEF Spacings
  <2> QED BY <2>1 DEF Spacing, Spacings
<1>3. /\ n \div d \in Int
      /\ n >= 0 => n \div d >= 0
  BY <1>2 DEF Spacings
<1>4. /\ d * (n \div d) \in Int /\ d * (n \div d + 1) \in Int
      /\ n >= 0 => d * (n \div d) >= 0 /\ d * (n \div d + 1) >= 0
  <2> DEFINE low == n \div d
  <2> HIDE DEF low, d
  <2>1. low \in Int /\ (n >= 0 => low >= 0)
    BY <1>3 DEF low
  <2>2. /\ d * low \in Int /\ d * (low + 1) \in Int
        /\ n >= 0 => d * low >= 0 /\ d * (low + 1) >= 0
    BY <1>2, <2>1 DEF Spacings
  <2> QED BY <2>2 DEF low
<1> HIDE DEF d
<1> QED BY <1>1, <1>4 DEF Num, d

\* A movement changes its own rows only, by a whole amount.
LEMMA MovementFacts ==
  ASSUME NEW m \in Movements
  PROVE  /\ m.from \in Parties /\ m.to \in Parties
         /\ m.amount \in Nat /\ m.amount > 0
         /\ Rows(m) \subseteq Accounts
         /\ \A a \in Accounts : Delta(m, a) \in Int
         /\ \A a \in Accounts : a \notin Rows(m) => Delta(m, a) = 0
         /\ Lines(m) \in SUBSET [account : Parties, amount : Nat,
                                 type : {"debit", "credit"}]
         /\ Lines(m) # {}
<1>1. m \in [from : Parties, to : Parties, amount : Nat \ {0},
             currency : Currencies]
  BY MovementsAssumption
<1>2. m.from \in Parties /\ m.to \in Parties /\ m.amount \in Nat /\ m.amount > 0
  BY <1>1
<1>3. \A a \in Accounts : Delta(m, a) \in Int
  BY <1>2 DEF Delta
<1>4. \A a \in Accounts : a \notin Rows(m) => Delta(m, a) = 0
  BY DEF Delta, Rows
<1>5. Lines(m) \in SUBSET [account : Parties, amount : Nat,
                           type : {"debit", "credit"}]
  BY <1>2 DEF Lines
<1>6. Lines(m) # {}
  BY DEF Lines
<1> QED BY <1>2, <1>3, <1>4, <1>5, <1>6 DEF Rows

\* A movement that passed the funds check leaves no account below zero.
LEMMA MoveStaysSolvent ==
  ASSUME NEW m \in Movements, NEW rows, NEW prof, NEW bal \in [Accounts -> Int],
         Acceptable(m, rows, prof, bal), m.from # m.to,
         NEW a \in Accounts, bal[a] >= 0
  PROVE  bal[a] + Delta(m, a) >= 0
<1>1. m.amount \in Nat
  BY MovementFacts
<1>2. CASE a = m.from
  <2>1. bal[a] >= m.amount
    BY <1>2 DEF Acceptable
  <2>2. Delta(m, a) = 0 - m.amount
    BY <1>2 DEF Delta
  <2> QED BY <1>1, <2>1, <2>2
<1>3. CASE a # m.from
  <2>1. Delta(m, a) >= 0 /\ Delta(m, a) \in Int
    BY <1>1, <1>3 DEF Delta
  <2> QED BY <2>1
<1> QED BY <1>2, <1>3
-----------------------------------------------------------------------------
\* Init and one lemma per action: each keeps the inductive invariant.

LEMMA InitInv == Init => Inv
<1> SUFFICES ASSUME Init PROVE Inv
  OBVIOUS
<1>1. TypeOK
  BY DEF Init, TypeOK, NoCopy, Stages
<1>2. LocksHeld
  BY DistinguishedAssumption DEF Init, LocksHeld
<1>3. LockOrder /\ Running /\ DecisionsStand
  BY DEF Init, LockOrder, Running, DecisionsStand, Active
<1>4. Footprint /\ Solvent
  BY DEF Init, Footprint, Solvent
<1> QED BY <1>1, <1>2, <1>3, <1>4 DEF Inv

\* CreateAccount: no row that a running request found is touched.
LEMMA CreateAccountInv ==
  ASSUME Inv, NEW x \in Accounts, NEW p \in Profiles, CreateAccount(x, p)
  PROVE  Inv'
<1> USE DEF CreateAccount
<1>1. TypeOK'
  BY DEF Inv, TypeOK
<1>2. LocksHeld' /\ LockOrder' /\ Footprint' /\ Solvent'
  BY DEF Inv, LocksHeld, LockOrder, Footprint, Solvent, Active, Held
<1>3. Running'
  <2>1. \A a \in Accounts : profile[a] # Absent => profile'[a] # Absent
    BY DistinguishedAssumption DEF Inv, TypeOK
  <2> QED BY <2>1 DEF Inv, TypeOK, Running, Active, Held
<1>4. DecisionsStand'
  <2>1. \A a \in Accounts : profile[a] # Absent => profile'[a] = profile[a]
    BY DEF Inv, TypeOK
  <2>2. \A r \in Requests : stage[r] = "written" =>
          \A a \in found[r] : profile'[a] = profile[a]
    BY <2>1 DEF Inv, TypeOK, Running, Active
  <2>3. \A r \in Requests : stage[r] = "written" =>
          Acceptable(movement[r], found[r], profile', balance)
    BY <2>2 DEF Inv, DecisionsStand, Acceptable
  <2> QED BY <2>3 DEF Inv, DecisionsStand, Held
<1> QED BY <1>1, <1>2, <1>3, <1>4 DEF Inv

\* Begin: the request holds nothing yet.
LEMMA BeginInv ==
  ASSUME Inv, NEW r \in Requests, NEW m \in Movements, Begin(r, m)
  PROVE  Inv'
<1>0. UNCHANGED <<profile, balance, posted, entries, completed, outbox,
                  lock, copy>>
  BY DEF Begin, tables
<1>1. TypeOK'
  <2>1. stage' \in [Requests -> Stages]
    BY DEF Begin, Inv, TypeOK, Stages, Ended
  <2>2. {a \in Rows(m) : profile[a] # Absent} \in SUBSET Accounts
    BY MovementFacts
  <2>3. found' \in [Requests -> SUBSET Accounts]
    BY <2>2 DEF Begin, Inv, TypeOK
  <2>4. movement' \in [Requests -> Movements \cup {Nothing}]
    BY DEF Begin, Inv, TypeOK
  <2> QED BY <1>0, <2>1, <2>3, <2>4 DEF Inv, TypeOK
<1>2. \A a \in Accounts : lock[a] # r
  BY DEF Inv, LocksHeld, Active, Begin
<1>3. LocksHeld'
  BY <1>0, <1>2 DEF Inv, TypeOK, LocksHeld, Active, Begin
<1>4. LockOrder'
  BY <1>0, <1>2 DEF Inv, TypeOK, LockOrder, Held, Begin
<1>5. Running'
  BY <1>0, <1>2 DEF Inv, TypeOK, Running, Active, Held, Begin
<1>6. DecisionsStand'
  BY <1>0, <1>2 DEF Inv, TypeOK, DecisionsStand, Held, Begin
<1>7. Footprint' /\ Solvent'
  BY <1>0 DEF Inv, TypeOK, Footprint, Solvent, Begin
<1> QED BY <1>1, <1>3, <1>4, <1>5, <1>6, <1>7 DEF Inv

\* LockRow: the row was free, and lies above the rows already held.
LEMMA LockRowInv ==
  ASSUME Inv, NEW r \in Requests, NEW x \in Accounts, LockRow(r, x)
  PROVE  Inv'
<1>0. UNCHANGED <<profile, balance, posted, entries, completed, outbox,
                  stage, movement, found>>
  BY DEF LockRow, tables
<1> USE DEF LockRow, NextRow
<1>1. TypeOK'
  BY <1>0 DEF Inv, TypeOK
<1>2. LocksHeld'
  BY <1>0 DEF Inv, TypeOK, LocksHeld, Active
<1>3. LockOrder'
  <2> SUFFICES ASSUME NEW q \in Requests, stage[q] = "locking",
                      NEW b \in Held(q)', NEW c \in found[q] \ Held(q)'
               PROVE  b < c
    BY <1>0 DEF LockOrder
  <2>0. b \in Accounts /\ c \in Accounts
    BY <1>0 DEF Inv, TypeOK, Held
  <2>1. c \in found[q] \ Held(q)
    BY DistinguishedAssumption, <2>0 DEF Inv, TypeOK, Held
  <2>2. CASE b \in Held(q)
    BY <2>1, <2>2 DEF Inv, LockOrder
  <2>3. CASE b \notin Held(q)
    <3>1. q = r /\ b = x
      BY <2>0, <2>3 DEF Inv, TypeOK, Held
    <3>2. c # x
      BY <2>0, <3>1 DEF Inv, TypeOK, Held
    <3> QED BY <2>0, <2>1, <3>1, <3>2, LimitsAssumption, AccountsAssumption
            DEF Accounts
  <2> QED BY <2>2, <2>3
<1>4. Running'
  BY <1>0, DistinguishedAssumption DEF Inv, TypeOK, Running, Active, Held
<1>5. DecisionsStand'
  <2>1. \A q \in Requests, a \in Accounts :
          lock'[a] = q => \/ lock[a] = q /\ copy'[q][a] = copy[q][a]
                          \/ q = r /\ a = x /\ copy'[q][a] = balance[a]
    BY DEF Inv, TypeOK
  <2>2. \A q \in Requests : stage[q] = "locking" =>
          \A a \in Held(q)' : copy'[q][a] = balance[a]
    BY <1>0, <2>1 DEF Inv, TypeOK, DecisionsStand, Held
  <2>3. \A q \in Requests : stage[q] = "written" => copy'[q] = copy[q]
    BY DEF Inv, TypeOK
  <2> QED BY <1>0, <2>2, <2>3 DEF Inv, DecisionsStand
<1>6. Footprint' /\ Solvent'
  BY <1>0 DEF Inv, Footprint, Solvent
<1> QED BY <1>1, <1>2, <1>3, <1>4, <1>5, <1>6 DEF Inv

\* Reject, Refuse and Abort: a running request ends and leaves nothing.
LEMMA RollbackInv ==
  ASSUME Inv, NEW r \in Requests, NEW answer \in {"rejected", "failed"},
         Active(r), Finish(r, answer), UNCHANGED tables
  PROVE  Inv'
<1>0. UNCHANGED <<profile, balance, posted, entries, completed, outbox,
                  movement>>
  BY DEF Finish, tables
<1> USE DEF Finish
<1>1. TypeOK'
  BY <1>0 DEF Inv, TypeOK, Stages, Ended, NoCopy
<1>2. \A q \in Requests : q # r => Held(q)' = Held(q)
  BY DistinguishedAssumption DEF Held, Inv, TypeOK
<1>3. \A q \in Requests : q # r =>
        /\ stage'[q] = stage[q] /\ found'[q] = found[q]
        /\ copy'[q] = copy[q]
  BY DEF Inv, TypeOK
<1>4. stage'[r] = answer /\ found'[r] = {}
  BY DEF Inv, TypeOK
<1>5. LocksHeld'
  BY <1>3, DistinguishedAssumption DEF Inv, TypeOK, LocksHeld, Active
<1>6. LockOrder'
  BY <1>2, <1>3, <1>4 DEF Inv, LockOrder
<1>7. Running'
  BY <1>0, <1>2, <1>3, <1>4 DEF Inv, Running, Active
<1>8. DecisionsStand'
  BY <1>0, <1>2, <1>3, <1>4 DEF Inv, DecisionsStand
<1>9. Footprint' /\ Solvent'
  BY <1>0, <1>3, <1>4 DEF Inv, Footprint, Solvent, Active
<1> QED BY <1>1, <1>5, <1>6, <1>7, <1>8, <1>9 DEF Inv

\* Write: the copies become the moved balances; the checks just passed.
LEMMA WriteInv ==
  ASSUME Inv, NEW r \in Requests, Write(r)
  PROVE  Inv'
<1>0. UNCHANGED <<profile, balance, posted, entries, completed, outbox,
                  lock, movement, found>>
  BY DEF Write, tables
<1>1. /\ stage[r] = "locking" /\ found[r] \subseteq Held(r)
      /\ Acceptable(movement[r], found[r], profile, copy[r])
      /\ Balanced(Lines(movement[r]))
      /\ movement[r] \in Movements
  BY DEF Write, Loaded, Passes, Storable, Inv, Running, Active
<1>2. stage' = [stage EXCEPT ![r] = "written"]
  BY DEF Write
<1>3. copy' = [copy EXCEPT ![r] = [a \in Accounts |->
                 IF a \in found[r] THEN Moved(r, a) ELSE 0]]
  BY DEF Write
<1>4. \A a \in found[r] : a \in Accounts /\ copy[r][a] = balance[a]
  BY <1>1 DEF Inv, TypeOK, DecisionsStand
<1>5. \A a \in found[r] : Moved(r, a) \in Int
  BY <1>1, <1>4, MovementFacts, NumFacts DEF Inv, TypeOK, Moved
<1>6. TypeOK'
  <2>1. copy' \in [Requests -> [Accounts -> Int]]
    BY <1>3, <1>5 DEF Inv, TypeOK
  <2>2. stage' \in [Requests -> Stages]
    BY <1>2 DEF Inv, TypeOK, Stages
  <2> QED BY <1>0, <2>1, <2>2 DEF Inv, TypeOK
<1>7. LocksHeld' /\ LockOrder' /\ Solvent'
  BY <1>0, <1>1, <1>2
     DEF Inv, TypeOK, LocksHeld, LockOrder, Solvent, Active, Held
<1>8. Running'
  BY <1>0, <1>1, <1>2 DEF Inv, TypeOK, Running, Active, Held
<1>9. DecisionsStand'
  <2>1. Acceptable(movement[r], found[r], profile, balance)
    BY <1>1, <1>4, MovementFacts DEF Acceptable, Rows
  <2>2. \A a \in found[r] :
          copy'[r][a] = Num(balance[a] + Delta(movement[r], a))
    BY <1>3, <1>4 DEF Inv, TypeOK, Moved
  <2>3. \A q \in Requests : q # r => copy'[q] = copy[q] /\ stage'[q] = stage[q]
    BY <1>2, <1>3 DEF Inv, TypeOK
  <2>4. stage'[r] = "written"
    BY <1>2 DEF Inv, TypeOK
  <2> QED BY <1>0, <2>1, <2>2, <2>3, <2>4 DEF Inv, DecisionsStand, Held
<1>10. Footprint'
  BY <1>0, <1>1, <1>2 DEF Inv, TypeOK, Footprint
<1> QED BY <1>6, <1>7, <1>8, <1>9, <1>10 DEF Inv

\* Commit: the committed rows are the ones the request had locked.
LEMMA CommitInv ==
  ASSUME Inv, NEW r \in Requests, NEW answer \in {"committed", "failed"},
         Commit(r, answer)
  PROVE  Inv'
<1> USE DEF Commit, Finish
<1>0. UNCHANGED <<profile, movement>>
  OBVIOUS
<1>1. /\ stage[r] = "written" /\ found[r] \subseteq Held(r)
      /\ movement[r] \in Movements /\ movement[r].from # movement[r].to
      /\ Balanced(Lines(movement[r]))
      /\ Acceptable(movement[r], found[r], profile, balance)
      /\ \A a \in found[r] :
           copy[r][a] = Num(balance[a] + Delta(movement[r], a))
  BY DEF Inv, Running, DecisionsStand, Active
<1>2. \A q \in Requests : q # r =>
        /\ stage'[q] = stage[q] /\ found'[q] = found[q]
        /\ copy'[q] = copy[q] /\ entries'[q] = entries[q]
        /\ Held(q)' = Held(q)
  BY DistinguishedAssumption DEF Inv, TypeOK, Held
<1>3. stage'[r] = answer /\ found'[r] = {} /\ entries'[r] = Lines(movement[r])
  BY DEF Inv, TypeOK
<1>4. TypeOK'
  <2>1. /\ balance' \in [Accounts -> Int]
        /\ posted' \in [Accounts -> Int]
        /\ entries' \in [Requests -> SUBSET [account : Parties, amount : Nat,
                                             type : {"debit", "credit"}]]
    BY <1>1, MovementFacts DEF Inv, TypeOK
  <2>2. completed' \subseteq Requests /\ outbox' \subseteq Requests
    BY DEF Inv, TypeOK
  <2>3. stage' \in [Requests -> Stages]
    BY DEF Inv, TypeOK, Stages, Ended
  <2>4. /\ lock' \in [Accounts -> Requests \cup {Free}]
        /\ found' \in [Requests -> SUBSET Accounts]
        /\ copy' \in [Requests -> [Accounts -> Int]]
    BY DEF Inv, TypeOK, NoCopy
  <2> QED BY <1>0, <2>1, <2>2, <2>3, <2>4 DEF Inv, TypeOK
<1>5. LocksHeld'
  BY <1>2, DistinguishedAssumption DEF Inv, TypeOK, LocksHeld, Active
<1>6. LockOrder'
  BY <1>2, <1>3 DEF Inv, LockOrder
<1>7. Running'
  BY <1>0, <1>2, <1>3 DEF Inv, Running, Active
<1>8. \A q \in Requests, a \in Accounts :
        q # r /\ a \in Held(q) => balance'[a] = balance[a]
  BY <1>1 DEF Inv, TypeOK, Held
<1>9. DecisionsStand'
  <2>1. \A q \in Requests : q # r /\ stage[q] = "locking" =>
          \A a \in Held(q) : copy'[q][a] = balance'[a]
    BY <1>2, <1>8 DEF Inv, DecisionsStand, Held
  <2>2. \A q \in Requests : q # r /\ stage[q] = "written" =>
          \A a \in found[q] : balance'[a] = balance[a]
    BY <1>8 DEF Inv, Running, Held
  <2>3. ASSUME NEW q \in Requests, q # r, stage[q] = "written"
        PROVE  /\ Acceptable(movement[q], found[q], profile, balance')
               /\ \A a \in found[q] :
                    copy'[q][a] = Num(balance'[a] + Delta(movement[q], a))
    <3>1. Acceptable(movement[q], found[q], profile, balance)
      BY <2>3 DEF Inv, DecisionsStand
    <3>2. movement[q].from \in Accounts => movement[q].from \in found[q]
      BY <3>1 DEF Acceptable, Rows
    <3>3. Acceptable(movement[q], found[q], profile, balance')
      BY <2>2, <2>3, <3>1, <3>2 DEF Acceptable
    <3>4. ASSUME NEW a \in found[q]
          PROVE  copy'[q][a] = Num(balance'[a] + Delta(movement[q], a))
      <4>1. copy[q][a] = Num(balance[a] + Delta(movement[q], a))
        BY <2>3 DEF Inv, DecisionsStand
      <4>2. copy'[q] = copy[q] /\ balance'[a] = balance[a]
        BY <1>2, <2>2, <2>3
      <4> QED BY <4>1, <4>2
    <3> QED BY <3>3, <3>4
  <2> SUFFICES ASSUME NEW q \in Requests
      PROVE  /\ stage'[q] = "locking" =>
                  \A a \in Held(q)' : copy'[q][a] = balance'[a]
             /\ stage'[q] = "written" =>
                  /\ Acceptable(movement'[q], found'[q], profile', balance')
                  /\ \A a \in found'[q] :
                       copy'[q][a] = Num(balance'[a] + Delta(movement'[q], a))
    BY DEF DecisionsStand
  <2>4. CASE q = r
    BY <1>3, <2>4
  <2>5. CASE q # r
    BY <1>0, <1>2, <2>1, <2>3, <2>5
  <2> QED BY <2>4, <2>5
<1>10. Footprint'
  BY <1>0, <1>1, <1>2, <1>3 DEF Inv, TypeOK, Footprint
<1>11. Solvent'
  <2> SUFFICES ASSUME NEW a \in Accounts PROVE balance'[a] >= 0
    BY DEF Solvent
  <2>1. balance[a] \in Int /\ balance[a] >= 0
    BY DEF Inv, TypeOK, Solvent
  <2>2. CASE a \in found[r]
    <3>1. balance'[a] = Num(balance[a] + Delta(movement[r], a))
      BY <1>1, <2>2 DEF Inv, TypeOK
    <3>2. balance \in [Accounts -> Int]
      BY DEF Inv, TypeOK
    <3>3. balance[a] + Delta(movement[r], a) >= 0
      BY <1>1, <2>1, <3>2, MoveStaysSolvent
    <3>4. balance[a] + Delta(movement[r], a) \in Int
      BY <1>1, <2>1, MovementFacts
    <3> QED BY <3>1, <3>3, <3>4, NumFacts
  <2>3. CASE a \notin found[r]
    BY <2>1, <2>3
  <2> QED BY <2>2, <2>3
<1> QED BY <1>4, <1>5, <1>6, <1>7, <1>9, <1>10, <1>11 DEF Inv

LEMMA NextInv == Inv /\ [Next]_vars => Inv'
<1> SUFFICES ASSUME Inv, [Next]_vars PROVE Inv'
  OBVIOUS
<1>1. CASE UNCHANGED vars
  BY <1>1 DEF vars, Inv, TypeOK, LocksHeld, LockOrder, Running, DecisionsStand,
              Footprint, Solvent, Active, Held
<1>2. CASE \E a \in Accounts, p \in Profiles : CreateAccount(a, p)
  BY <1>2, CreateAccountInv
<1>3. CASE \E r \in Requests, m \in Movements : Begin(r, m)
  BY <1>3, BeginInv
<1>4. CASE \E r \in Requests, a \in Accounts : LockRow(r, a)
  BY <1>4, LockRowInv
<1>5. ASSUME NEW r \in Requests, Reject(r) \/ Refuse(r) \/ Abort(r)
      PROVE  Inv'
  <2>1. Active(r) /\ UNCHANGED tables
    BY <1>5 DEF Reject, Refuse, Abort, Loaded, Active
  <2>2. Finish(r, "rejected") \/ Finish(r, "failed")
    BY <1>5 DEF Reject, Refuse, Abort
  <2> QED BY <2>1, <2>2, RollbackInv
<1>6. CASE \E r \in Requests : Write(r)
  BY <1>6, WriteInv
<1>7. CASE \E r \in Requests, answer \in {"committed", "failed"} :
             Commit(r, answer)
  BY <1>7, CommitInv
<1> QED BY <1>1, <1>2, <1>3, <1>4, <1>5, <1>6, <1>7 DEF Next

\* The inductive invariant holds of every execution.
THEOREM InvHolds == Spec => []Inv
<1> QED BY InitInv, NextInv, PTL DEF Spec

-----------------------------------------------------------------------------
\* Consequences for every execution.

\* Every variable keeps its type, whatever requests do.
THEOREM Typing == Spec => []TypeOK
<1>1. Inv => TypeOK
  BY DEF Inv
<1> QED BY <1>1, InvHolds, PTL

\* No request commits a decision made on a row that has changed since.
THEOREM NoStaleDecision == Spec => []DecisionsStand
<1>1. Inv => DecisionsStand
  BY DEF Inv
<1> QED BY <1>1, InvHolds, PTL

\* A request leaves its transaction, journal lines and outbox row together.
THEOREM WholeTransactions == Spec => []AllOrNothing
<1>1. Inv => AllOrNothing
  <2> SUFFICES ASSUME Inv, NEW r \in Requests
               PROVE  /\ r \in completed <=> r \in outbox
                      /\ r \in completed <=> entries[r] # {}
                      /\ r \in completed =>
                           /\ entries[r] = Lines(movement[r])
                           /\ Balanced(entries[r])
                      /\ stage[r] = "committed" => r \in completed
                      /\ stage[r] = "rejected" => r \notin completed
    BY DEF AllOrNothing
  <2>1. r \in completed => Lines(movement[r]) # {}
    BY MovementFacts DEF Inv, Footprint
  <2> QED BY <2>1 DEF Inv, Footprint
<1> QED BY <1>1, InvHolds, PTL

\* Among natural numbers one is the least.
LEMMA LeastNumber ==
  ASSUME NEW T, T \subseteq Nat, T # {}
  PROVE  \E n \in T : \A k \in T : n <= k
<1> DEFINE Less == OpToRel(<, Nat)
<1>1. \E n \in T : \A k \in T : ~ (<<k, n>> \in Less)
  BY NatLessThanWellFounded, WFMin
<1>2. \A n, k \in Nat : ~ (<<k, n>> \in Less) => n <= k
  BY DEF OpToRel
<1> HIDE DEF Less
<1> QED BY <1>1, <1>2

(***************************************************************************)
(* Requests never wait in a circle.  Among the rows that the members of a  *)
(* circle wait for, one is the highest; but its holder is a member too,    *)
(* and waits for a row above all that it holds.                            *)
(***************************************************************************)
LEMMA HighestAccount ==
  ASSUME NEW A, A \subseteq Accounts, A # {}
  PROVE  \E a \in A : \A b \in A : b <= a
<1> DEFINE T == {AccountCount - a : a \in A}
<1>1. A \subseteq Int /\ \A a \in A : a <= AccountCount
  BY AccountsAssumption DEF Accounts
<1>2. T \subseteq Nat /\ T # {}
  BY <1>1, AccountsAssumption
<1>3. \E t \in T : \A u \in T : t <= u
  <2> HIDE DEF T
  <2> QED BY <1>2, LeastNumber
<1>4. PICK a \in A : \A b \in A : AccountCount - a <= AccountCount - b
  BY <1>3
<1> QED BY <1>1, <1>4, AccountsAssumption

LEMMA InvNoCircle == Inv => NoCircularWait
<1> SUFFICES ASSUME Inv, NEW R \in SUBSET Requests, R # {},
                    \A r \in R : \E s \in R : WaitsFor(r, s)
             PROVE  FALSE
  BY DEF NoCircularWait
<1> DEFINE A == {a \in Accounts : \E r \in R : NextRow(r, a)}
<1>1. A # {}
  BY DEF WaitsFor
<1>2. PICK a \in A : \A b \in A : b <= a
  BY <1>1, HighestAccount
<1>3. PICK r \in R : NextRow(r, a)
  OBVIOUS
<1>4. PICK s \in R : WaitsFor(r, s)
  OBVIOUS
<1>5. lock[a] = s
  <2>1. PICK x \in Accounts : NextRow(r, x) /\ lock[x] = s
    BY <1>4 DEF WaitsFor
  <2>2. a <= x /\ x <= a
    BY <1>3, <2>1 DEF NextRow
  <2> QED BY <2>1, <2>2, AccountsAssumption DEF Accounts
<1>6. PICK c \in Accounts : NextRow(s, c)
  BY DEF WaitsFor
<1>7. a < c
  BY <1>5, <1>6 DEF Inv, LockOrder, NextRow, Held
<1>8. c <= a
  BY <1>2, <1>6
<1> QED BY <1>7, <1>8, AccountsAssumption DEF Accounts

THEOREM NoCircle == Spec => []NoCircularWait
<1> QED BY InvNoCircle, InvHolds, PTL

(***************************************************************************)
(* As long as somebody is running, somebody can go on: of the running      *)
(* requests one waits for none of them, and only they hold locks.          *)
(***************************************************************************)
THEOREM NoStandstill == Spec => []SomeoneGoesOn
<1>1. Inv => SomeoneGoesOn
  <2> SUFFICES ASSUME Inv, NEW q \in Requests, Active(q)
               PROVE  \E r \in Requests : GoesOn(r)
    BY DEF SomeoneGoesOn, Active
  <2> DEFINE R == {r \in Requests : Active(r)}
  <2>1. PICK r \in R : \A s \in R : ~WaitsFor(r, s)
    <3>1. R \in (SUBSET Requests) \ {{}}
      OBVIOUS
    <3> HIDE DEF R
    <3> QED BY <3>1, InvNoCircle DEF NoCircularWait
  <2>2. CASE stage[r] = "written" \/ found[r] \subseteq Held(r)
    BY <2>2 DEF GoesOn, Loaded, Active
  <2>3. CASE stage[r] = "locking" /\ ~(found[r] \subseteq Held(r))
    <3> DEFINE A == found[r] \ Held(r)
    <3>1. A \subseteq Accounts /\ A # {}
      BY <2>3 DEF Inv, TypeOK
    <3>2. PICK a \in A : \A b \in A : a <= b
      <4>1. A \subseteq Nat
        BY <3>1, AccountsAssumption DEF Accounts
      <4> HIDE DEF A
      <4> QED BY <3>1, <4>1, LeastNumber
    <3>3. NextRow(r, a) /\ a \in Accounts
      BY <2>3, <3>1, <3>2 DEF NextRow
    <3>4. lock[a] \notin R
      BY <2>1, <3>3 DEF WaitsFor
    <3>5. lock[a] = Free
      BY <3>3, <3>4 DEF Inv, TypeOK, LocksHeld
    <3> QED BY <3>3, <3>5 DEF GoesOn
  <2> QED BY <2>2, <2>3 DEF Active
<1> QED BY <1>1, InvHolds, PTL

-----------------------------------------------------------------------------
(***************************************************************************)
(* The balance column and the journal.  The column holds JavaScript        *)
(* numbers, so these results are for executions in which no journal sum    *)
(* passes ExactLimit; beyond it they are false (run LedgerLargeNumbers).   *)
(***************************************************************************)
WithinExact == \A a \in Accounts : posted[a] <= ExactLimit

\* A commit moves the column and the journal by the same amount.
LEMMA CommitMovesBoth ==
  ASSUME Inv, BalanceMatchesLedger, WithinExact',
         NEW r \in Requests, NEW answer \in {"committed", "failed"},
         Commit(r, answer), NEW a \in Accounts
  PROVE  /\ balance'[a] = balance[a] + Delta(movement[r], a)
         /\ posted'[a] = posted[a] + Delta(movement[r], a)
<1>1. /\ movement[r] \in Movements
      /\ found[r] = Rows(movement[r])
      /\ \A b \in found[r] :
           copy[r][b] = Num(balance[b] + Delta(movement[r], b))
  BY DEF Inv, Running, DecisionsStand, Active, Commit, Acceptable
<1>2. posted'[a] = posted[a] + Delta(movement[r], a)
  BY DEF Commit
<1>3. balance[a] = posted[a] /\ balance[a] \in Int
  BY DEF BalanceMatchesLedger, Inv, TypeOK
<1>4. Delta(movement[r], a) \in Int
  BY <1>1, MovementFacts
<1>5. balance[a] + Delta(movement[r], a) <= ExactLimit
  BY <1>2, <1>3 DEF WithinExact
<1>6. CASE a \in found[r]
  <2>1. balance'[a] = Num(balance[a] + Delta(movement[r], a))
    BY <1>1, <1>6 DEF Commit
  <2> QED BY <1>2, <1>3, <1>4, <1>5, <2>1, NumFacts
<1>7. CASE a \notin found[r]
  <2>1. Delta(movement[r], a) = 0
    BY <1>1, <1>7, MovementFacts
  <2>2. balance'[a] = balance[a]
    BY <1>7 DEF Commit
  <2> QED BY <1>2, <1>3, <2>1, <2>2
<1> QED BY <1>6, <1>7

\* Only Commit changes the column, the journal or the set of completed ones.
LEMMA OthersLeaveMoney ==
  ASSUME Next,
         \A r \in Requests, answer \in {"committed", "failed"} :
           ~Commit(r, answer)
  PROVE  UNCHANGED <<balance, posted, completed>>
  BY DEF Next, CreateAccount, Begin, LockRow, Reject, Write, Refuse, Abort,
         tables

LEMMA MatchNext ==
  Inv /\ BalanceMatchesLedger /\ WithinExact' /\ [Next]_vars
    => BalanceMatchesLedger'
<1> SUFFICES ASSUME Inv, BalanceMatchesLedger, WithinExact', [Next]_vars
             PROVE  BalanceMatchesLedger'
  OBVIOUS
<1>1. CASE \E r \in Requests, answer \in {"committed", "failed"} :
             Commit(r, answer)
  BY <1>1, CommitMovesBoth DEF BalanceMatchesLedger
<1>2. CASE UNCHANGED <<balance, posted, completed>>
  BY <1>2 DEF BalanceMatchesLedger
<1> QED BY <1>1, <1>2, OthersLeaveMoney DEF vars

\* Every balance equals the sum of its journal lines.
THEOREM BalancesReconcile == Spec /\ []WithinExact => []BalanceMatchesLedger
<1>1. Init => BalanceMatchesLedger
  BY DEF Init, BalanceMatchesLedger
<1> QED BY <1>1, MatchNext, InvHolds, PTL DEF Spec

\* No account is overdrawn, neither in its column nor in its journal.
THEOREM Overdraft == Spec /\ []WithinExact => []NoOverdraft
<1>1. Inv /\ BalanceMatchesLedger => NoOverdraft
  BY DEF Inv, Solvent, BalanceMatchesLedger, NoOverdraft
<1> QED BY <1>1, BalancesReconcile, InvHolds, PTL

\* Both ledgers are about the same accounts and movements.
LEMMA SameData ==
  /\ Atomic!Accounts = Accounts
  /\ Atomic!Profiles = Profiles
  /\ \A m : Atomic!Rows(m) = Rows(m)
  /\ \A m, a : Atomic!Delta(m, a) = Delta(m, a)
  /\ \A m, rows, prof, bal :
       Atomic!Acceptable(m, rows, prof, bal) <=> Acceptable(m, rows, prof, bal)
<1>1. Atomic!Accounts = Accounts
  BY DEF Atomic!Accounts, Accounts
<1>2. Atomic!Profiles = Profiles
  BY DEF Atomic!Profiles, Profiles, Atomic!Statuses, Statuses
<1>3. \A m : Atomic!Rows(m) = Rows(m)
  BY <1>1 DEF Atomic!Rows, Rows
<1>4. \A m, a : Atomic!Delta(m, a) = Delta(m, a)
  BY DEF Atomic!Delta, Delta
<1>5. \A m, rows, prof, bal :
        Atomic!Acceptable(m, rows, prof, bal) <=> Acceptable(m, rows, prof, bal)
  BY <1>1, <1>3 DEF Atomic!Acceptable, Acceptable
<1> QED BY <1>1, <1>2, <1>3, <1>4, <1>5

\* Initially nobody has moved anything, in both ledgers.
LEMMA InitMaps == Init => Atomic!Init
  BY SameData DEF Init, Atomic!Init, Applied

\* A commit is the abstract Apply, on rows that are current at that moment.
LEMMA CommitMaps ==
  ASSUME Inv, BalanceMatchesLedger, WithinExact',
         NEW r \in Requests, NEW answer \in {"committed", "failed"},
         Commit(r, answer)
  PROVE  Atomic!Apply(r, movement[r])
<1>1. /\ stage[r] = "written" /\ movement[r] \in Movements
      /\ movement[r].from # movement[r].to
      /\ Acceptable(movement[r], found[r], profile, balance)
      /\ \A a \in found[r] : profile[a] # Absent
  BY DEF Commit, Inv, Running, DecisionsStand, Active
<1>2. r \notin completed
  BY <1>1 DEF Inv, Footprint
<1>3. Applied[r] = Nothing
  BY <1>2 DEF Applied
<1>4. found[r] = {a \in Rows(movement[r]) : profile[a] # Absent}
  BY <1>1 DEF Acceptable
<1>5. balance' = [a \in Accounts |-> balance[a] + Delta(movement[r], a)]
  <2>1. \A a \in Accounts : balance'[a] = balance[a] + Delta(movement[r], a)
    BY CommitMovesBoth
  <2> QED BY <2>1 DEF Commit
<1>6. Applied' = [Applied EXCEPT ![r] = movement[r]]
  BY DEF Applied, Commit, Finish
<1>7. UNCHANGED profile
  BY DEF Commit
<1> QED BY <1>1, <1>3, <1>4, <1>5, <1>6, <1>7, SameData DEF Atomic!Apply

LEMMA NextMaps ==
  Inv /\ BalanceMatchesLedger /\ WithinExact' /\ [Next]_vars
    => [Atomic!Next]_(Atomic!vars)
<1> SUFFICES ASSUME Inv, BalanceMatchesLedger, WithinExact', [Next]_vars
             PROVE  [Atomic!Next]_(Atomic!vars)
  OBVIOUS
<1>1. CASE UNCHANGED vars
  BY <1>1 DEF vars, Atomic!vars, Applied
<1>2. CASE \E a \in Accounts, p \in Profiles : CreateAccount(a, p)
  <2>1. UNCHANGED Applied
    BY <1>2 DEF CreateAccount, Applied
  <2>2. \E a \in Accounts, p \in Profiles : Atomic!Open(a, p)
    BY <1>2, <2>1 DEF CreateAccount, Atomic!Open
  <2> QED BY <2>2, SameData DEF Atomic!Next
<1>3. ASSUME NEW r \in Requests, NEW m \in Movements, Begin(r, m)
      PROVE  UNCHANGED Atomic!vars
  <2>1. r \notin completed
    BY <1>3 DEF Begin, Inv, Footprint
  <2>2. UNCHANGED Applied
    BY <1>3, <2>1 DEF Begin, tables, Applied, Inv, TypeOK
  <2> QED BY <1>3, <2>2 DEF Begin, tables, Atomic!vars
<1>4. CASE \E r \in Requests, a \in Accounts : LockRow(r, a)
  BY <1>4 DEF LockRow, tables, Atomic!vars, Applied
<1>5. CASE \E r \in Requests : Reject(r) \/ Write(r) \/ Refuse(r) \/ Abort(r)
  BY <1>5 DEF Reject, Write, Refuse, Abort, Finish, tables, Atomic!vars, Applied
<1>6. ASSUME NEW r \in Requests, NEW answer \in {"committed", "failed"},
             Commit(r, answer)
      PROVE  Atomic!Next
  <2>1. movement[r] \in Movements
    BY <1>6 DEF Commit, Inv, Running, Active
  <2> QED BY <1>6, <2>1, CommitMaps DEF Atomic!Next
<1> QED BY <1>1, <1>2, <1>3, <1>4, <1>5, <1>6 DEF Next

(***************************************************************************)
(* The lock-based ledger implements the atomic one: every execution looks  *)
(* like one in which each request happened in a single step.               *)
(***************************************************************************)
THEOREM Refinement == Spec /\ []WithinExact => ImplementsAtomic
<1> QED BY InitMaps, NextMaps, BalancesReconcile, InvHolds, PTL
        DEF Spec, ImplementsAtomic, Atomic!Spec
=============================================================================

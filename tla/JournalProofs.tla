---------------------------- MODULE JournalProofs ----------------------------
(***************************************************************************)
(* The sums over ledger_entries, for every number of lines.                *)
(*                                                                         *)
(* MapThenSumSet takes one member after the other out of a set.  That it   *)
(* is well defined, and adds a weight per member in whatever order, is     *)
(* shown by minimal counterexample: of the subsets for which it fails, one *)
(* is smallest (EverySubset).  With it: the two lines of a movement        *)
(* balance, and `posted' is the sum that reconciliation computes.          *)
(***************************************************************************)
EXTENDS LedgerProofs, FiniteSetTheorems

-----------------------------------------------------------------------------
\* Sums over finite sets.

\* A set of subsets of S that holds a set whenever it holds all of its proper
\* subsets, holds every subset of S: its smallest absentee would be in it.
LEMMA EverySubset ==
  ASSUME NEW S, IsFiniteSet(S), NEW Q,
         \A s \in SUBSET S : (\A t \in SUBSET s : t # s => t \in Q) => s \in Q
  PROVE  \A s \in SUBSET S : s \in Q
<1> DEFINE Sizes == {Cardinality(s) : s \in (SUBSET S) \ Q}
<1> SUFFICES ASSUME (SUBSET S) \ Q # {} PROVE FALSE
  OBVIOUS
<1>1. \A s \in SUBSET S : IsFiniteSet(s) /\ Cardinality(s) \in Nat
  BY FS_Subset, FS_CardinalityType
<1>2. \E n \in Sizes : \A k \in Sizes : n <= k
  <2>1. Sizes \subseteq Nat /\ Sizes # {}
    BY <1>1
  <2> HIDE DEF Sizes
  <2> QED BY <2>1, LeastNumber
<1>3. PICK s \in (SUBSET S) \ Q :
        \A t \in (SUBSET S) \ Q : Cardinality(s) <= Cardinality(t)
  BY <1>2
<1>4. ASSUME NEW t \in SUBSET s, t # s PROVE t \in Q
  <2>1. t \in SUBSET S
    OBVIOUS
  <2>2. /\ Cardinality(t) <= Cardinality(s)
        /\ Cardinality(t) # Cardinality(s)
    BY <1>1, <1>4, FS_Subset
  <2>3. ~ (Cardinality(s) <= Cardinality(t))
    BY <1>1, <2>1, <2>2
  <2> QED BY <1>3, <2>1, <2>3
<1> QED BY <1>3, <1>4

\* f sums the weights w over every subset of S, one member at a time.
Sums(f, w, S) ==
    f = [s \in SUBSET S |->
           IF s = {} THEN 0
           ELSE LET x == CHOOSE x \in s : TRUE IN w[x] + f[s \ {x}]]

\* The sum of a set begins with the member that CHOOSE picks.
LEMMA SumsUnrolled ==
  ASSUME NEW S, NEW w, NEW f, Sums(f, w, S)
  PROVE  /\ f[{}] = 0
         /\ \A s \in SUBSET S : s # {} =>
              LET x == CHOOSE x \in s : TRUE
              IN  x \in s /\ f[s] = w[x] + f[s \ {x}]
BY DEF Sums

\* The sums are integers, depend on the members only, and may be taken in any
\* order.
LEMMA SumsFacts ==
  ASSUME NEW S, IsFiniteSet(S), NEW w, \A x \in S : w[x] \in Int,
         NEW T \in SUBSET S,
         NEW f, Sums(f, w, S), NEW g, Sums(g, w, T),
         NEW s \in SUBSET S
  PROVE  /\ f[s] \in Int
         /\ s \in SUBSET T => f[s] = g[s]
         /\ \A y \in s : f[s] = w[y] + f[s \ {y}]
<1> DEFINE P(u) == /\ f[u] \in Int
                   /\ u \in SUBSET T => f[u] = g[u]
                   /\ \A y \in u : f[u] = w[y] + f[u \ {y}]
           Q == {u \in SUBSET S : P(u)}
<1>1. P({})
  BY SumsUnrolled
<1>2. ASSUME NEW u \in SUBSET S, u # {}, \A t \in SUBSET u : t # u => P(t)
      PROVE  P(u)
  <2> DEFINE x == CHOOSE x \in u : TRUE
  <2>1. x \in u /\ w[x] \in Int /\ f[u] = w[x] + f[u \ {x}]
    BY <1>2, SumsUnrolled
  <2>2. u \in SUBSET T => g[u] = w[x] + g[u \ {x}]
    BY <1>2, SumsUnrolled
  <2> HIDE DEF x
  <2>3. f[u \ {x}] \in Int /\ (u \in SUBSET T => f[u \ {x}] = g[u \ {x}])
    BY <1>2, <2>1
  <2>4. ASSUME NEW y \in u, y # x PROVE f[u] = w[y] + f[u \ {y}]
    <3> DEFINE v == u \ {x, y}
    <3>1. v = (u \ {x}) \ {y} /\ v = (u \ {y}) \ {x}
      OBVIOUS
    <3>2. f[u \ {x}] = w[y] + f[v]
      BY <1>2, <2>1, <2>4, <3>1
    <3>3. f[u \ {y}] = w[x] + f[v]
      BY <1>2, <2>1, <2>4, <3>1
    <3>4. f[v] \in Int /\ w[y] \in Int
      BY <1>2, <2>1
    <3> QED BY <2>1, <3>2, <3>3, <3>4
  <2>5. \A y \in u : f[u] = w[y] + f[u \ {y}]
    BY <2>1, <2>4
  <2>6. f[u] \in Int
    BY <2>1, <2>3
  <2>7. u \in SUBSET T => f[u] = g[u]
    BY <2>1, <2>2, <2>3
  <2> QED BY <2>5, <2>6, <2>7
<1>3. ASSUME NEW u \in SUBSET S, \A t \in SUBSET u : t # u => t \in Q
      PROVE  u \in Q
  <2> HIDE DEF P
  <2>1. \A t \in SUBSET u : t # u => P(t)
    BY <1>3
  <2> QED BY <1>1, <1>2, <2>1
<1>4. s \in Q
  <2> HIDE DEF Q
  <2> QED BY <1>3, EverySubset
<1> QED BY <1>4

\* There are such sums: a larger set is summed from its smaller ones.
LEMMA SumsExist ==
  ASSUME NEW S, IsFiniteSet(S), NEW w, \A x \in S : w[x] \in Int
  PROVE  \E f : Sums(f, w, S)
<1> DEFINE Q == {s \in SUBSET S : \E f : Sums(f, w, s)}
<1>1. ASSUME NEW s \in SUBSET S, \A t \in SUBSET s : t # s => t \in Q
      PROVE  s \in Q
  <2> DEFINE part(t) == CHOOSE g : Sums(g, w, t)
             f == [t \in SUBSET s |->
                     IF t = {} THEN 0
                     ELSE LET x == CHOOSE x \in t : TRUE
                          IN  w[x] + part(t \ {x})[t \ {x}]]
  <2>1. \A t \in SUBSET s : t # s => Sums(part(t), w, t)
    BY <1>1
  <2>2. ASSUME NEW t \in SUBSET s, t # s PROVE f[t] = part(t)[t]
    <3>1. CASE t = {}
      BY <2>1, <2>2, <3>1, SumsUnrolled
    <3>2. CASE t # {}
      <4> DEFINE x == CHOOSE x \in t : TRUE
      <4>1. x \in t
        BY <3>2
      <4>2. f[t] = w[x] + part(t \ {x})[t \ {x}]
        BY <3>2
      <4>3. part(t)[t] = w[x] + part(t)[t \ {x}]
        <5>1. Sums(part(t), w, t)
          BY <2>1, <2>2
        <5> HIDE DEF part
        <5> QED BY <3>2, <5>1, SumsUnrolled
      <4>4. Sums(part(t), w, t) /\ Sums(part(t \ {x}), w, t \ {x})
        BY <2>1, <2>2, <4>1
      <4>5. IsFiniteSet(t) /\ \A z \in t : w[z] \in Int
        BY FS_Subset
      <4> HIDE DEF x, part, f
      <4>6. part(t)[t \ {x}] = part(t \ {x})[t \ {x}]
        BY <4>4, <4>5, SumsFacts
      <4> QED BY <4>2, <4>3, <4>6
    <3> QED BY <3>1, <3>2
  <2>3. ASSUME NEW t \in SUBSET s, t # {}
        PROVE  LET x == CHOOSE x \in t : TRUE IN f[t] = w[x] + f[t \ {x}]
    <3> DEFINE x == CHOOSE x \in t : TRUE
    <3>1. t \ {x} \in SUBSET s /\ t \ {x} # s
      BY <2>3
    <3>2. f[t] = w[x] + part(t \ {x})[t \ {x}]
      BY <2>3
    <3>3. f[t \ {x}] = part(t \ {x})[t \ {x}]
      <4> HIDE DEF f
      <4> QED BY <2>2, <3>1
    <3> QED BY <3>2, <3>3
  <2>4. f[{}] = 0 /\ f = [t \in SUBSET s |-> f[t]]
    OBVIOUS
  <2>5. Sums(f, w, s)
    <3> HIDE DEF f
    <3> QED BY <2>3, <2>4 DEF Sums
  <2> HIDE DEF f
  <2> QED BY <2>5
<1>2. S \in Q
  <2> HIDE DEF Q
  <2> QED BY <1>1, EverySubset
<1> QED BY <1>2

\* The sum of the weights of a finite set, as MapThenSumSet defines it.
SumOver(w, S) == LET f == CHOOSE f : Sums(f, w, S) IN f[S]

\* Nothing sums up to zero, and one more member adds its weight.
LEMMA SumOverFacts ==
  ASSUME NEW S, IsFiniteSet(S), NEW w, \A x \in S : w[x] \in Int
  PROVE  /\ SumOver(w, {}) = 0
         /\ SumOver(w, S) \in Int
         /\ \A y : y \notin S /\ w[y] \in Int =>
              SumOver(w, S \cup {y}) = SumOver(w, S) + w[y]
<1> DEFINE sums(T) == CHOOSE f : Sums(f, w, T)
<1>1. \A T : IsFiniteSet(T) /\ (\A x \in T : w[x] \in Int) =>
              Sums(sums(T), w, T)
  BY SumsExist
<1>2. \A T : SumOver(w, T) = sums(T)[T]
  BY DEF SumOver
<1> HIDE DEF sums
<1>3. SumOver(w, {}) = 0
  <2>1. Sums(sums({}), w, {})
    BY <1>1, FS_EmptySet
  <2> QED BY <1>2, <2>1, SumsUnrolled
<1>4. SumOver(w, S) \in Int
  <2>1. Sums(sums(S), w, S)
    BY <1>1
  <2>2. sums(S)[S] \in Int
    BY <2>1, SumsFacts
  <2> QED BY <1>2, <2>2
<1>5. ASSUME NEW y, y \notin S, w[y] \in Int
      PROVE  SumOver(w, S \cup {y}) = SumOver(w, S) + w[y]
  <2> DEFINE T == S \cup {y}
  <2>1. IsFiniteSet(T) /\ (\A x \in T : w[x] \in Int) /\ S \in SUBSET T
    BY <1>5, FS_AddElement
  <2>2. Sums(sums(T), w, T) /\ Sums(sums(S), w, S)
    BY <1>1, <2>1
  <2>3. T \ {y} = S /\ y \in T
    BY <1>5
  <2> HIDE DEF T
  <2>4. sums(T)[T] = w[y] + sums(T)[T \ {y}]
    BY <2>1, <2>2, <2>3, SumsFacts
  <2>5. sums(T)[S] = sums(S)[S] /\ sums(S)[S] \in Int
    BY <2>1, <2>2, SumsFacts
  <2>6. SumOver(w, T) = sums(T)[T] /\ SumOver(w, S) = sums(S)[S]
    BY <1>2
  <2>7. sums(T)[T] = w[y] + sums(S)[S]
    BY <2>3, <2>4, <2>5
  <2>8. SumOver(w, T) = SumOver(w, S) + w[y]
    BY <1>5, <2>5, <2>6, <2>7
  <2> QED BY <2>8 DEF T
<1> QED BY <1>3, <1>4, <1>5

-----------------------------------------------------------------------------
\* The two lines of a movement.

Line == [account : Parties, amount : Nat, type : {"debit", "credit"}]

\* The total of one side is such a sum.
LEMMA TotalIsSum ==
  ASSUME NEW lines \in SUBSET Line, NEW type
  PROVE  Total(lines, type) =
           SumOver([l \in Line |-> l.amount], {l \in lines : l.type = type})
<1> DEFINE w == [l \in Line |-> l.amount]
           S == {l \in lines : l.type = type}
<1>1. \A f : Sums(f, w, S) <=>
        f = [s \in SUBSET S |->
               IF s = {} THEN 0
               ELSE LET x == CHOOSE x \in s : TRUE
                    IN  x.amount + f[s \ {x}]]
  <2>1. \A s \in SUBSET S : s # {} =>
          LET x == CHOOSE x \in s : TRUE IN w[x] = x.amount
    OBVIOUS
  <2> QED BY <2>1 DEF Sums
<1> QED BY <1>1 DEF Total, MapThenSumSet, MapThenFoldSet, SumOver

DebitLine(m) == [account |-> m.from, type |-> "debit", amount |-> m.amount]
CreditLine(m) == [account |-> m.to, type |-> "credit", amount |-> m.amount]

\* Lines writes one line on each side, of the same amount.
LEMMA TwoLines ==
  ASSUME NEW m \in Movements
  PROVE  /\ Lines(m) = {DebitLine(m), CreditLine(m)}
         /\ DebitLine(m) \in Line /\ CreditLine(m) \in Line
         /\ m.amount \in Int
  BY MovementFacts DEF Lines, DebitLine, CreditLine, Line

(***************************************************************************)
(* The journal lines of every movement balance: createEntries never throws *)
(* UnbalancedLedgerEntriesException on what the service methods give it.   *)
(***************************************************************************)
THEOREM MovementsBalance == \A m \in Movements : Balanced(Lines(m))
<1> SUFFICES ASSUME NEW m \in Movements PROVE Balanced(Lines(m))
  OBVIOUS
<1> DEFINE w == [l \in Line |-> l.amount]
<1>1. ASSUME NEW l \in Line PROVE SumOver(w, {l}) = l.amount
  <2>1. IsFiniteSet({}) /\ (\A x \in {} : w[x] \in Int) /\ l \notin {}
    BY FS_EmptySet
  <2>2. w[l] = l.amount /\ w[l] \in Int /\ {} \cup {l} = {l}
    BY DEF Line
  <2> HIDE DEF w
  <2>3. SumOver(w, {}) = 0 /\ SumOver(w, {} \cup {l}) = SumOver(w, {}) + w[l]
    BY <2>1, <2>2, SumOverFacts
  <2> QED BY <2>2, <2>3
<1>2. /\ {l \in Lines(m) : l.type = "debit"} = {DebitLine(m)}
      /\ {l \in Lines(m) : l.type = "credit"} = {CreditLine(m)}
  <2>1. DebitLine(m).type = "debit" /\ CreditLine(m).type = "credit"
    BY DEF DebitLine, CreditLine
  <2>2. Lines(m) = {DebitLine(m), CreditLine(m)}
    BY TwoLines
  <2> QED BY <2>1, <2>2
<1>3. Lines(m) \in SUBSET Line
  BY TwoLines
<1>4. Total(Lines(m), "debit") = SumOver(w, {DebitLine(m)})
  BY <1>2, <1>3, TotalIsSum
<1>5. Total(Lines(m), "credit") = SumOver(w, {CreditLine(m)})
  BY <1>2, <1>3, TotalIsSum
<1> HIDE DEF w
<1> QED BY <1>1, <1>4, <1>5, TwoLines DEF Balanced, DebitLine, CreditLine

-----------------------------------------------------------------------------
\* The journal of an account.

Amounts == [x \in Requests \X Line |-> x[2].amount]

\* The lines of an account are of type Line, whichever request wrote them,
\* and their sum is the one that SumOverFacts is about.
JournalSums ==
  \A a, type :
    /\ LinesOf(a, type) =
         {x \in Requests \X Line :
            x[2] \in entries[x[1]] /\ x[2].account = a /\ x[2].type = type}
    /\ SumOf(a, type) = SumOver(Amounts, LinesOf(a, type))

LEMMA JournalSumsHold == TypeOK => JournalSums
<1> SUFFICES ASSUME TypeOK, NEW a, NEW type
             PROVE  /\ LinesOf(a, type) =
                         {x \in Requests \X Line :
                            /\ x[2] \in entries[x[1]]
                            /\ x[2].account = a /\ x[2].type = type}
                    /\ SumOf(a, type) = SumOver(Amounts, LinesOf(a, type))
  BY DEF JournalSums
<1> DEFINE S == LinesOf(a, type)
<1>1. S = {x \in Requests \X Line :
             x[2] \in entries[x[1]] /\ x[2].account = a /\ x[2].type = type}
  BY DEF TypeOK, LinesOf, Line
<1>2. \A f : Sums(f, Amounts, S) <=>
        f = [s \in SUBSET S |->
               IF s = {} THEN 0
               ELSE LET x == CHOOSE x \in s : TRUE
                    IN  x[2].amount + f[s \ {x}]]
  <2>1. \A s \in SUBSET S : s # {} =>
          LET x == CHOOSE x \in s : TRUE IN Amounts[x] = x[2].amount
    BY <1>1 DEF Amounts
  <2> QED BY <2>1 DEF Sums
<1>3. SumOf(a, type) = SumOver(Amounts, S)
  <2> HIDE DEF S
  <2>1. SumOf(a, type) = MapThenSumSet(LAMBDA x : x[2].amount, S)
    BY DEF SumOf, S
  <2> QED BY <1>2, <2>1 DEF MapThenSumSet, MapThenFoldSet, SumOver
<1> QED BY <1>1, <1>3

\* The inductive invariant: finitely many lines, and their sum.
JournalInv ==
    /\ \A a \in Accounts, type \in {"debit", "credit"} :
         IsFiniteSet(LinesOf(a, type))
    /\ PostedIsTheSum

\* A commit adds the line of its movement on each side, and nothing else.
LEMMA CommitAddsLines ==
  ASSUME Inv, TypeOK', NEW r \in Requests,
         NEW answer \in {"committed", "failed"}, Commit(r, answer),
         NEW a \in Accounts
  PROVE  LET m == movement[r]
             d == <<r, DebitLine(m)>>
             c == <<r, CreditLine(m)>>
         IN  /\ m \in Movements
             /\ d \notin LinesOf(a, "debit") /\ c \notin LinesOf(a, "credit")
             /\ LinesOf(a, "debit")' =
                  LinesOf(a, "debit") \cup (IF a = m.from THEN {d} ELSE {})
             /\ LinesOf(a, "credit")' =
                  LinesOf(a, "credit") \cup (IF a = m.to THEN {c} ELSE {})
<1> DEFINE m == movement[r]
           d == <<r, DebitLine(m)>>
           c == <<r, CreditLine(m)>>
<1>1. m \in Movements /\ entries[r] = {}
  BY DEF Commit, Inv, Running, Active, Footprint
<1>2. entries' = [entries EXCEPT ![r] = {DebitLine(m), CreditLine(m)}]
  BY <1>1, TwoLines DEF Commit
<1>3. TypeOK
  BY DEF Inv
<1>4. \A type : LinesOf(a, type) =
        {x \in Requests \X Line :
           x[2] \in entries[x[1]] /\ x[2].account = a /\ x[2].type = type}
  BY <1>3, JournalSumsHold DEF JournalSums
<1>5. \A type : LinesOf(a, type)' =
        {x \in Requests \X Line :
           x[2] \in entries'[x[1]] /\ x[2].account = a /\ x[2].type = type}
  <2>1. (TypeOK => JournalSums)'
    BY JournalSumsHold, PTL
  <2> QED BY <2>1 DEF JournalSums
<1> QED BY <1>1, <1>2, <1>3, <1>4, <1>5, TwoLines
        DEF DebitLine, CreditLine, TypeOK

\* One more line adds its amount.
LEMMA OneMore ==
  ASSUME NEW S, IsFiniteSet(S), S \subseteq Requests \X Line,
         NEW x \in Requests \X Line, x \notin S
  PROVE  /\ IsFiniteSet(S \cup {x})
         /\ SumOver(Amounts, S) \in Int
         /\ SumOver(Amounts, S \cup {x}) = SumOver(Amounts, S) + x[2].amount
<1>1. \A y \in Requests \X Line : Amounts[y] \in Int
  BY DEF Amounts, Line
<1>2. Amounts[x] = x[2].amount
  BY DEF Amounts
<1> QED BY <1>1, <1>2, SumOverFacts, FS_AddElement

\* So both sides grow by what the movement puts there.
LEMMA CommitKeepsJournal ==
  ASSUME Inv, TypeOK', JournalInv, NEW r \in Requests,
         NEW answer \in {"committed", "failed"}, Commit(r, answer)
  PROVE  JournalInv'
<1> DEFINE m == movement[r]
           d == <<r, DebitLine(m)>>
           c == <<r, CreditLine(m)>>
<1>1. /\ m \in Movements /\ m.amount \in Int
      /\ d \in Requests \X Line /\ d[2].amount = m.amount
      /\ c \in Requests \X Line /\ c[2].amount = m.amount
  <2>1. m \in Movements
    BY DEF Commit, Inv, Running, Active
  <2> QED BY <2>1, TwoLines DEF DebitLine, CreditLine
<1>2. \A a, type : SumOf(a, type)' = SumOver(Amounts, LinesOf(a, type)')
  <2>1. (TypeOK => JournalSums)'
    BY JournalSumsHold, PTL
  <2> QED BY <2>1 DEF JournalSums
<1>3. \A a, type : /\ SumOf(a, type) = SumOver(Amounts, LinesOf(a, type))
                   /\ LinesOf(a, type) \subseteq Requests \X Line
  BY JournalSumsHold DEF JournalSums, Inv
<1>4. ASSUME NEW a \in Accounts
      PROVE  /\ IsFiniteSet(LinesOf(a, "debit")')
             /\ SumOf(a, "debit") \in Int
             /\ SumOf(a, "debit")' =
                  SumOf(a, "debit") + (IF a = m.from THEN m.amount ELSE 0)
  <2>1. /\ d \notin LinesOf(a, "debit")
        /\ LinesOf(a, "debit")' =
             LinesOf(a, "debit") \cup (IF a = m.from THEN {d} ELSE {})
    BY CommitAddsLines
  <2>2. IsFiniteSet(LinesOf(a, "debit"))
    BY DEF JournalInv
  <2> DEFINE S == LinesOf(a, "debit")
             T == LinesOf(a, "debit")'
  <2>3. S \subseteq Requests \X Line
    BY <1>3
  <2>4. T = IF a = m.from THEN S \cup {d} ELSE S
    BY <2>1
  <2>5. IsFiniteSet(S) /\ d \notin S
    BY <2>1, <2>2
  <2> HIDE DEF d, S, T
  <2>6. /\ IsFiniteSet(S \cup {d})
        /\ SumOver(Amounts, S) \in Int
        /\ SumOver(Amounts, S \cup {d}) = SumOver(Amounts, S) + m.amount
    BY <1>1, <2>3, <2>5, OneMore
  <2>7. /\ IsFiniteSet(T)
        /\ SumOver(Amounts, T) = SumOver(Amounts, S)
             + (IF a = m.from THEN m.amount ELSE 0)
    BY <2>4, <2>5, <2>6
  <2> QED BY <1>2, <1>3, <2>6, <2>7 DEF S, T
<1>5. ASSUME NEW a \in Accounts
      PROVE  /\ IsFiniteSet(LinesOf(a, "credit")')
             /\ SumOf(a, "credit") \in Int
             /\ SumOf(a, "credit")' =
                  SumOf(a, "credit") + (IF a = m.to THEN m.amount ELSE 0)
  <2>1. /\ c \notin LinesOf(a, "credit")
        /\ LinesOf(a, "credit")' =
             LinesOf(a, "credit") \cup (IF a = m.to THEN {c} ELSE {})
    BY CommitAddsLines
  <2>2. IsFiniteSet(LinesOf(a, "credit"))
    BY DEF JournalInv
  <2> DEFINE S == LinesOf(a, "credit")
             T == LinesOf(a, "credit")'
  <2>3. S \subseteq Requests \X Line
    BY <1>3
  <2>4. T = IF a = m.to THEN S \cup {c} ELSE S
    BY <2>1
  <2>5. IsFiniteSet(S) /\ c \notin S
    BY <2>1, <2>2
  <2> HIDE DEF c, S, T
  <2>6. /\ IsFiniteSet(S \cup {c})
        /\ SumOver(Amounts, S) \in Int
        /\ SumOver(Amounts, S \cup {c}) = SumOver(Amounts, S) + m.amount
    BY <1>1, <2>3, <2>5, OneMore
  <2>7. /\ IsFiniteSet(T)
        /\ SumOver(Amounts, T) = SumOver(Amounts, S)
             + (IF a = m.to THEN m.amount ELSE 0)
    BY <2>4, <2>5, <2>6
  <2> QED BY <1>2, <1>3, <2>6, <2>7 DEF S, T
<1>6. PostedIsTheSum'
  <2> SUFFICES ASSUME NEW a \in Accounts
               PROVE  posted'[a] = SumOf(a, "credit")' - SumOf(a, "debit")'
    BY DEF PostedIsTheSum
  <2>1. posted[a] = SumOf(a, "credit") - SumOf(a, "debit")
    BY DEF JournalInv, PostedIsTheSum
  <2>2. posted'[a] = posted[a] + Delta(m, a)
    BY DEF Commit
  <2> QED BY <1>1, <1>4, <1>5, <2>1, <2>2 DEF Delta
<1> QED BY <1>4, <1>5, <1>6 DEF JournalInv

\* Only Commit writes lines.
LEMMA JournalNext == Inv /\ Inv' /\ JournalInv /\ [Next]_vars => JournalInv'
<1> SUFFICES ASSUME Inv, Inv', JournalInv, [Next]_vars PROVE JournalInv'
  OBVIOUS
<1>1. CASE \E r \in Requests, answer \in {"committed", "failed"} :
             Commit(r, answer)
  BY <1>1, CommitKeepsJournal DEF Inv
<1>2. CASE UNCHANGED <<posted, entries>>
  <2>1. \A a, type : LinesOf(a, type)' = LinesOf(a, type)
    BY <1>2 DEF LinesOf
  <2>2. JournalSums /\ JournalSums'
    <3>1. (TypeOK => JournalSums)'
      BY JournalSumsHold, PTL
    <3> QED BY <3>1, JournalSumsHold DEF Inv
  <2>3. \A a, type : SumOf(a, type)' = SumOf(a, type)
    BY <2>1, <2>2 DEF JournalSums
  <2> QED BY <1>2, <2>1, <2>3 DEF JournalInv, PostedIsTheSum
<1>3. CASE \A r \in Requests, answer \in {"committed", "failed"} :
             ~Commit(r, answer)
  <2>1. UNCHANGED <<posted, entries>>
    BY <1>3 DEF Next, CreateAccount, Begin, LockRow, Reject, Write, Refuse,
                Abort, tables, vars
  <2> QED BY <1>2, <2>1
<1> QED BY <1>1, <1>3

\* No lines, no sums.
LEMMA JournalInit == Init => JournalInv
<1> SUFFICES ASSUME Init PROVE JournalInv
  OBVIOUS
<1>1. \A a, type : LinesOf(a, type) = {}
  BY DEF Init, LinesOf
<1>2. TypeOK
  BY InitInv DEF Inv
<1>3. \A a, type : SumOf(a, type) = 0
  <2>1. \A a, type : SumOf(a, type) = SumOver(Amounts, {})
    BY <1>1, <1>2, JournalSumsHold DEF JournalSums
  <2>2. SumOver(Amounts, {}) = 0
    BY FS_EmptySet, SumOverFacts
  <2> QED BY <2>1, <2>2
<1>4. PostedIsTheSum
  BY <1>3 DEF Init, PostedIsTheSum
<1> QED BY <1>1, <1>4, FS_EmptySet DEF JournalInv

(***************************************************************************)
(* The running sum of an account is at any time the sum over the lines     *)
(* that committed transactions have left for it, credits minus debits.     *)
(***************************************************************************)
THEOREM PostedIsSummed == Spec => []PostedIsTheSum
<1>1. JournalInv => PostedIsTheSum
  BY DEF JournalInv
<1> QED BY <1>1, JournalInit, JournalNext, InvHolds, PTL DEF Spec

(***************************************************************************)
(* And so is the balance column, while numbers are exact: what             *)
(* reconciliation compares is equal, whatever requests are doing.          *)
(***************************************************************************)
THEOREM BalanceIsSummed ==
  Spec /\ []WithinExact =>
    [](\A a \in Accounts : balance[a] = SumOf(a, "credit") - SumOf(a, "debit"))
<1>1. BalanceMatchesLedger /\ PostedIsTheSum =>
        \A a \in Accounts : balance[a] = SumOf(a, "credit") - SumOf(a, "debit")
  BY DEF BalanceMatchesLedger, PostedIsTheSum
<1> QED BY <1>1, PostedIsSummed, BalancesReconcile, PTL

=============================================================================

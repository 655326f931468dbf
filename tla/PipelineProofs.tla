---------------------------- MODULE PipelineProofs ----------------------------
(***************************************************************************)
(* Theorems of WebhookPipeline for any number of events, subscribers,      *)
(* instances, attempts and faults: its typing, the bound on POSTs, and     *)
(* that a delivery that is over stays as it is.                            *)
(*                                                                         *)
(* Inv says what the queue and the rows never lose: a job the queue knows, *)
(* or that is about to be added, is for an existing delivery and an        *)
(* attempt that is allowed; a worker that owns a job is the only one.      *)
(***************************************************************************)
EXTENDS WebhookPipeline, FiniteSetTheorems, TLAPS

Exists(d) == delivery[d] # None

\* A job that may be added or run: its delivery is there, its attempt allowed.
Allowed(j) == Exists(j[1]) /\ j[2] <= MaxAttempts

Pending(d) == Exists(d) /\ delivery[d].status = "pending"

\* A pending delivery has an attempt left.
AttemptsLeft == \A d \in Deliveries : Pending(d) => delivery[d].attempts < MaxAttempts

\* A dispatcher at work has a batch, and means the event it is at.
Dispatches(i) ==
    /\ ~At(i, "idle") => dispatcher[i].batch # {}
    /\ At(i, "deliveries") =>
         \A s \in dispatcher[i].subs : <<Current(i), s>> \in Matching
    /\ \A j \in dispatcher[i].todo : Allowed(j)
    /\ At(i, "write") => dispatcher[i].write \in Updates

\* A worker at work has a job; the job that it owns is active.
Works(i) ==
    /\ ~Does(i, "idle") => worker[i].job \in Jobs /\ Exists(Target(i))
    /\ worker[i].owns => ~Does(i, "idle") /\ job[worker[i].job] = "active"
    /\ Does(i, "enqueue") => worker[i].attempts < MaxAttempts
    /\ Does(i, "writeStatus") => worker[i].write \in Updates

\* What the queue knows, and when a job may still be given to a worker.
Queued ==
    \A j \in Jobs :
      /\ job[j] # "unknown" => Allowed(j)
      /\ job[j] # "kept" => stalls[j] <= 1

OneOwner ==
    \A i, k \in Instances :
      worker[i].owns /\ worker[k].owns /\ worker[i].job = worker[k].job => i = k

Inv ==
    /\ TypeOK
    /\ AttemptsLeft
    /\ \A i \in Instances : Dispatches(i) /\ Works(i)
    /\ Queued
    /\ OneOwner

-----------------------------------------------------------------------------
(***************************************************************************)
(* Every POST takes a job from those still to be run, or a worker from     *)
(* those about to POST; only a crash, a lost lock or a forgotten job adds  *)
(* one.                                                                    *)
(***************************************************************************)
Unused(d) ==
    {n \in 1..MaxAttempts : job[<<d, n>>] \in {"unknown", "delayed", "waiting"}}

About(d) ==
    {i \in Instances : worker[i].at \in {"find", "post"} /\ worker[i].job[1] = d}

Spent ==
    \A d \in Deliveries :
      posts[d] + Cardinality(Unused(d)) + Cardinality(About(d))
        <= MaxAttempts + crashes + lostLocks + evictions

-----------------------------------------------------------------------------
(***************************************************************************)
(* A delivery that is over is left alone because whoever sends it has      *)
(* found it pending, or has recorded its success and was told otherwise.   *)
(* With one instance that is so whatever fails.  With several it rests on  *)
(* the job ids: job n is run once, and while attempt n - 1 is the last one *)
(* recorded.                                                               *)
(***************************************************************************)
Sending(i) == worker[i].at \in {"post", "saveSuccess", "saveFailure"}

\* The worker that is to record a success has had a 2xx.
Heard == \A i \in Instances : Does(i, "saveSuccess") => Target(i) \in accepted

SendsPending ==
    \A i \in Instances : Sending(i) => Pending(Target(i)) \/ Misread(i, Target(i))

OneInstance == \A i, k \in Instances : i = k

NothingDies == MaxCrashes = 0 /\ MaxStalls = 0 /\ MaxEvictions = 0

\* Attempt n - 1 of job n has been recorded, and if it is the last, it failed.
Reached(j) ==
    /\ Exists(j[1])
    /\ delivery[j[1]].attempts >= j[2] - 1
    /\ delivery[j[1]].attempts = j[2] - 1 => Pending(j[1])

\* The attempt of the job has not been recorded.
Open(j) == Exists(j[1]) => delivery[j[1]].attempts < j[2]

QueueNumbered ==
    \A j \in Jobs :
      /\ job[j] # "unknown" => Reached(j)
      /\ job[j] \in {"unknown", "delayed", "waiting"} => Open(j)

\* Nothing dies, so a worker owns its job; it saves the attempt that the job says.
WorkNumbered(i) ==
    ~Does(i, "idle") =>
      /\ worker[i].owns
      /\ Does(i, "find") \/ worker[i].attempts = worker[i].job[2]
      /\ Does(i, "find") \/ Sending(i) =>
           Open(worker[i].job) \/ Misread(i, Target(i))
      /\ Does(i, "enqueue") => Reached(NextJob(i))

Numbered ==
    /\ QueueNumbered
    /\ \A i \in Instances :
         WorkNumbered(i) /\ \A j \in dispatcher[i].todo : Reached(j)
-----------------------------------------------------------------------------
LEMMA InitInv == Init => Inv
<1> SUFFICES ASSUME Init PROVE Inv
  OBVIOUS
<1>1. NoBatch \in Dispatchers
  BY DEF NoBatch, Dispatchers, DispatcherSteps
<1>2. NoJob \in Workers
  BY BoundsAssumption DEF NoJob, Workers, WorkerSteps
<1>3. TypeOK
  BY <1>1, <1>2, BoundsAssumption DEF Init, TypeOK, OutboxStatuses
<1>4. AttemptsLeft /\ Queued
  BY DEF Init, AttemptsLeft, Queued, Pending, Exists
<1>5. \A i \in Instances : dispatcher[i] = NoBatch /\ worker[i] = NoJob
  BY DEF Init
<1>6. \A i \in Instances : Dispatches(i) /\ Works(i)
  BY <1>5 DEF Dispatches, Works, At, Does, NoBatch, NoJob
<1>7. OneOwner
  BY <1>5 DEF OneOwner, NoJob
<1> QED BY <1>3, <1>4, <1>6, <1>7 DEF Inv

-----------------------------------------------------------------------------
\* The operators of the model.

LEMMA Pairs ==
  /\ \A d \in Deliveries :
       d[1] \in Events /\ d[2] \in Subs /\ d = <<d[1], d[2]>>
  /\ \A j \in Jobs :
       j[1] \in Deliveries /\ j[2] \in 1..MaxAttempts + 1 /\ j = <<j[1], j[2]>>
  /\ \A d \in Deliveries, n \in 1..MaxAttempts + 1 : <<d, n>> \in Jobs
  BY BoundsAssumption DEF Deliveries, Jobs

\* A nonempty set of naturals has a least member; a bounded one a largest.
LEMMA LeastMember ==
  ASSUME NEW S \in SUBSET Nat, S # {}
  PROVE  \E n \in S : \A m \in S : n <= m
<1> DEFINE R == OpToRel(<, Nat)
<1>1. \E n \in S : \A m \in S : <<m, n>> \notin R
  BY NatLessThanWellFounded, WFMin, Zenon
<1>2. \A m, n \in S : m < n => <<m, n>> \in R
  BY DEF OpToRel
<1>3. PICK n \in S : \A m \in S : <<m, n>> \notin R
  BY <1>1
<1>4. \A m \in S : ~(m < n)
  BY <1>2, <1>3
<1>5. \A m \in S : n <= m
  BY <1>4
<1> QED BY <1>5

LEMMA OldestMember ==
  ASSUME NEW S \in SUBSET Nat, S # {}
  PROVE  Oldest(S) \in S /\ \A m \in S : Oldest(S) <= m
  BY LeastMember DEF Oldest

LEMMA LargestMember ==
  ASSUME NEW S \in SUBSET Nat, S # {}, NEW b \in Nat, \A m \in S : m <= b
  PROVE  Largest(S) \in S /\ \A m \in S : m <= Largest(S)
<1> DEFINE T == {b - m : m \in S}
<1>1. T \in SUBSET Nat /\ T # {}
  <2>1. \A m \in S : b - m \in Nat
    OBVIOUS
  <2> QED BY <2>1
<1>2. PICK n \in T : \A m \in T : n <= m
  BY <1>1, LeastMember
<1>3. PICK x \in S : n = b - x
  BY <1>2
<1>4. ASSUME NEW m \in S PROVE m <= x
  <2>1. b - x <= b - m
    BY <1>2, <1>3
  <2> QED BY <2>1
<1> QED BY <1>4 DEF Largest

LEMMA CurrentType ==
  ASSUME TypeOK, NEW i \in Instances, dispatcher[i].batch # {}
  PROVE  Current(i) \in Events /\ Current(i) \in dispatcher[i].batch
<1>1. dispatcher[i].batch \in SUBSET Events
  BY DEF TypeOK, Dispatchers
<1> QED BY <1>1, OldestMember, BoundsAssumption DEF Current

LEMMA StatusType ==
  ASSUME TypeOK, NEW e \in Events
  PROVE  StatusFor(e) \in Updates
<1> DEFINE counts == {delivery[d].attempts : d \in Of(e)}
<1>1. \A d \in Of(e) : delivery[d] \in DeliveryRows
  BY DEF TypeOK, Of
<1>2. \A d \in Of(e) : delivery[d].attempts \in 0..MaxAttempts
  BY <1>1 DEF DeliveryRows
<1>3. CASE Of(e) = {}
  BY <1>3 DEF StatusFor, Updates, OutboxStatuses
<1>4. CASE Of(e) # {}
  <2>1. counts \in SUBSET Nat /\ counts # {} /\ \A m \in counts : m <= MaxAttempts
    BY <1>2, <1>4, BoundsAssumption
  <2>2. Largest(counts) \in Nat
    BY <2>1, LargestMember, BoundsAssumption
  <2> QED BY <2>2 DEF StatusFor, Updates, OutboxStatuses
<1> QED BY <1>3, <1>4

LEMMA WriteType ==
  ASSUME TypeOK, NEW e \in Events, NEW row \in Updates, WriteStatus(e, row)
  PROVE  /\ outbox' \in [Events -> [status : OutboxStatuses, retry : Nat]]
         /\ due' \subseteq Events
  BY DEF WriteStatus, Updates, TypeOK

\* A job that the queue gets to know was to be added.
LEMMA AddType ==
  ASSUME TypeOK, Queued, NEW added \in SUBSET Jobs, NEW state \in {"waiting", "delayed"},
         \A j \in added : Allowed(j), Add(added, state),
         UNCHANGED <<delivery, stalls>>
  PROVE  /\ job' \in [Jobs -> {"unknown", "delayed", "waiting", "active", "kept"}]
         /\ Queued'
         /\ \A j \in Jobs : job[j] = "active" => job'[j] = "active"
<1>1. \A j \in Jobs : job'[j] = IF j \in added /\ job[j] = "unknown" THEN state ELSE job[j]
  BY DEF Add
<1>2. job' \in [Jobs -> {"unknown", "delayed", "waiting", "active", "kept"}]
  BY DEF Add, TypeOK
<1>3. Queued'
  BY <1>1 DEF Queued, Allowed, Exists
<1> QED BY <1>1, <1>2, <1>3

-----------------------------------------------------------------------------
\* A step of one dispatcher, or of one worker, leaves the others as they are.

LEMMA Replace ==
  ASSUME NEW S, NEW f \in [Instances -> S], NEW i \in Instances, NEW row \in S,
         NEW g, g = [f EXCEPT ![i] = row]
  PROVE  /\ g \in [Instances -> S]
         /\ g[i] = row
         /\ \A k \in Instances \ {i} : g[k] = f[k]
  OBVIOUS

JobsKept ==
    /\ job' \in [Jobs -> {"unknown", "delayed", "waiting", "active", "kept"}]
    /\ stalls' \in [Jobs -> 0..2]
    /\ Queued'

RowsKept ==
    /\ outbox' \in [Events -> [status : OutboxStatuses, retry : Nat]]
    /\ due' \subseteq Events
    /\ delivery' \in [Deliveries -> {None} \cup DeliveryRows]
    /\ AttemptsLeft'
    /\ \A d \in Deliveries : Exists(d) => Exists(d)'

HistoryTyped ==
    /\ posts \in [Deliveries -> Nat]
    /\ accepted \subseteq Deliveries
    /\ failures \in [Events -> Nat]

LEMMA JobsUnchanged ==
  ASSUME Inv, UNCHANGED <<delivery, job, stalls>>
  PROVE  JobsKept
  BY DEF Inv, TypeOK, JobsKept, Queued, Allowed, Exists

LEMMA RowsUnchanged ==
  ASSUME Inv, UNCHANGED <<outbox, due, delivery>>
  PROVE  RowsKept
  BY DEF Inv, TypeOK, RowsKept, AttemptsLeft, Pending, Exists

LEMMA RowWritten ==
  ASSUME Inv, NEW e \in Events, NEW row \in Updates, WriteStatus(e, row),
         UNCHANGED delivery
  PROVE  RowsKept
  BY WriteType DEF Inv, TypeOK, RowsKept, AttemptsLeft, Pending, Exists

LEMMA DispatcherTo ==
  ASSUME Inv, NEW i \in Instances, NEW row \in Dispatchers,
         dispatcher' = [dispatcher EXCEPT ![i] = row],
         row.at # "idle" => row.batch # {},
         row.at = "deliveries" =>
           \A s \in row.subs : <<Oldest(row.batch), s>> \in Matching,
         \A j \in row.todo : delivery'[j[1]] # None /\ j[2] <= MaxAttempts,
         row.at = "write" => row.write \in Updates,
         RowsKept, JobsKept,
         \A j \in Jobs : job[j] = "active" => job'[j] = "active",
         errors' \in Nat, HistoryTyped',
         UNCHANGED <<active, resting, worker, crashes, lostLocks, evictions>>
  PROVE  Inv'
<1>1. /\ dispatcher' \in [Instances -> Dispatchers]
      /\ dispatcher'[i] = row
      /\ \A k \in Instances \ {i} : dispatcher'[k] = dispatcher[k]
  BY Replace DEF Inv, TypeOK
<1>2. TypeOK'
  BY <1>1 DEF Inv, TypeOK, JobsKept, RowsKept, HistoryTyped
<1>3. Dispatches(i)'
  BY <1>1 DEF Dispatches, At, Current, Allowed, Exists
<1>4. ASSUME NEW k \in Instances \ {i} PROVE Dispatches(k)'
  <2>1. dispatcher[k].todo \subseteq Jobs
    BY DEF Inv, TypeOK, Dispatchers
  <2>2. \A j \in dispatcher[k].todo : Allowed(j)'
    BY <2>1, Pairs DEF Inv, Dispatches, Allowed, RowsKept
  <2> QED BY <1>1, <2>2 DEF Inv, Dispatches, At, Current
<1>5. ASSUME NEW k \in Instances PROVE Works(k)'
  BY Pairs DEF Inv, Works, Does, Target, RowsKept
<1>6. OneOwner'
  BY DEF Inv, OneOwner
<1> QED BY <1>2, <1>3, <1>4, <1>5, <1>6 DEF Inv, RowsKept, JobsKept

LEMMA WorkerTo ==
  ASSUME Inv, NEW i \in Instances, NEW row \in Workers,
         worker' = [worker EXCEPT ![i] = row],
         row.at # "idle" => row.job \in Jobs /\ Exists(row.job[1]),
         row.owns =>
           /\ row.at # "idle" /\ job'[row.job] = "active"
           /\ \/ worker[i].owns /\ worker[i].job = row.job
              \/ job[row.job] # "active",
         row.at = "enqueue" => row.attempts < MaxAttempts,
         row.at = "writeStatus" => row.write \in Updates,
         RowsKept, JobsKept,
         \A j \in Jobs : job[j] = "active" =>
           job'[j] = "active" \/ (worker[i].owns /\ worker[i].job = j),
         resting' \subseteq Jobs, HistoryTyped',
         {errors, crashes, lostLocks}' \subseteq Nat,
         \/ UNCHANGED dispatcher
         \/ dispatcher' = [dispatcher EXCEPT ![i] = NoBatch],
         UNCHANGED <<active, evictions>>
  PROVE  Inv'
<1>1. /\ worker' \in [Instances -> Workers]
      /\ worker'[i] = row
      /\ \A k \in Instances \ {i} : worker'[k] = worker[k]
  BY Replace DEF Inv, TypeOK
<1>2. /\ dispatcher' \in [Instances -> Dispatchers]
      /\ \A k \in Instances :
           dispatcher'[k] = dispatcher[k] \/ dispatcher'[k] = NoBatch
  <2>1. NoBatch \in Dispatchers
    BY DEF NoBatch, Dispatchers, DispatcherSteps
  <2> QED BY <2>1 DEF Inv, TypeOK
<1>3. TypeOK'
  BY <1>1, <1>2 DEF Inv, TypeOK, JobsKept, RowsKept, HistoryTyped
<1>4. Works(i)'
  BY <1>1, Pairs DEF Works, Does, Target, RowsKept
<1>5. ASSUME NEW k \in Instances \ {i} PROVE Works(k)'
  <2>1. worker[k].owns => job'[worker[k].job] = "active"
    BY DEF Inv, Works, OneOwner
  <2> QED BY <1>1, <2>1, Pairs DEF Inv, Works, Does, Target, RowsKept
<1>6. ASSUME NEW k \in Instances PROVE Dispatches(k)'
  <2>1. CASE dispatcher'[k] = NoBatch
    BY <2>1 DEF Dispatches, At, NoBatch
  <2>2. CASE dispatcher'[k] = dispatcher[k]
    <3>1. dispatcher[k].todo \subseteq Jobs
      BY DEF Inv, TypeOK, Dispatchers
    <3>2. \A j \in dispatcher[k].todo : Allowed(j)'
      BY <3>1, Pairs DEF Inv, Dispatches, Allowed, RowsKept
    <3> QED BY <2>2, <3>2 DEF Inv, Dispatches, At, Current
  <2> QED BY <1>2, <2>1, <2>2
<1>7. OneOwner'
  <2> SUFFICES ASSUME NEW k \in Instances \ {i}, worker[k].owns, row.owns
               PROVE  worker[k].job # row.job
    BY <1>1 DEF Inv, OneOwner
  <2> QED BY DEF Inv, Works, OneOwner
<1> QED BY <1>3, <1>4, <1>5, <1>6, <1>7 DEF Inv, RowsKept, JobsKept

-----------------------------------------------------------------------------
\* The outside world and the queue.

LEMMA CommitEventInv ==
  ASSUME Inv, NEW e \in Events, CommitEvent(e) \/ Elapse(e)
  PROVE  Inv'
<1>1. UNCHANGED <<active, delivery, queue, dispatcher, worker, history, budget>>
  BY DEF CommitEvent, Elapse
<1>2. TypeOK'
  BY <1>1 DEF CommitEvent, Elapse, Inv, TypeOK, OutboxStatuses, queue, history, budget
<1>3. /\ AttemptsLeft' /\ Queued' /\ OneOwner'
      /\ \A k \in Instances : Dispatches(k)' /\ Works(k)'
  BY <1>1
  DEF Inv, AttemptsLeft, Queued, OneOwner, Pending, Exists, Allowed, Dispatches,
      Works, At, Does, Current, Target, queue
<1> QED BY <1>2, <1>3 DEF Inv

LEMMA RegisterWebhookInv ==
  ASSUME Inv, NEW s \in Subs, RegisterWebhook(s)
  PROVE  Inv'
<1>1. UNCHANGED <<rows, delivery, queue, dispatcher, worker, history, budget>>
  BY DEF RegisterWebhook
<1>2. TypeOK'
  BY <1>1 DEF RegisterWebhook, Inv, TypeOK, rows, queue, history, budget
<1>3. /\ AttemptsLeft' /\ Queued' /\ OneOwner'
      /\ \A k \in Instances : Dispatches(k)' /\ Works(k)'
  BY <1>1
  DEF Inv, AttemptsLeft, Queued, OneOwner, Pending, Exists, Allowed, Dispatches,
      Works, At, Does, Current, Target, queue
<1> QED BY <1>2, <1>3 DEF Inv

LEMMA BackoffOverInv ==
  ASSUME Inv, NEW j \in Jobs, BackoffOver(j)
  PROVE  Inv'
<1>1. /\ UNCHANGED <<rows, active, delivery, stalls, dispatcher, worker, history, budget>>
      /\ resting' \subseteq Jobs
      /\ \A h \in Jobs : job'[h] = IF h = j /\ job[h] = "delayed" THEN "waiting" ELSE job[h]
      /\ job' \in [Jobs -> {"unknown", "delayed", "waiting", "active", "kept"}]
  BY DEF BackoffOver, Inv, TypeOK
<1>2. TypeOK'
  BY <1>1 DEF Inv, TypeOK, rows, history, budget
<1>3. Queued'
  BY <1>1 DEF Inv, Queued, Allowed, Exists
<1>4. \A k \in Instances : Dispatches(k)'
  BY <1>1 DEF Inv, Dispatches, At, Current, Allowed, Exists
<1>5. \A k \in Instances : Works(k)'
  BY <1>1 DEF Inv, Works, Does, Target, Exists
<1>6. AttemptsLeft' /\ OneOwner'
  BY <1>1 DEF Inv, AttemptsLeft, OneOwner, Pending, Exists
<1> QED BY <1>2, <1>3, <1>4, <1>5, <1>6 DEF Inv

LEMMA EvictInv ==
  ASSUME Inv, NEW j \in Jobs, Evict(j)
  PROVE  Inv'
<1>1. /\ UNCHANGED <<rows, active, delivery, resting, dispatcher, worker, history,
                     errors, crashes, lostLocks>>
      /\ job[j] = "kept" /\ evictions' = evictions + 1
      /\ job' = [job EXCEPT ![j] = "unknown"] /\ stalls' = [stalls EXCEPT ![j] = 0]
  BY DEF Evict
<1>2. TypeOK'
  BY <1>1 DEF Inv, TypeOK, rows, history
<1>3. Queued'
  BY <1>1 DEF Inv, TypeOK, Queued, Allowed, Exists
<1>4. \A k \in Instances : Dispatches(k)'
  BY <1>1 DEF Inv, Dispatches, At, Current, Allowed, Exists
<1>5. \A k \in Instances : Works(k)'
  BY <1>1 DEF Inv, TypeOK, Works, Does, Target, Exists
<1>6. AttemptsLeft' /\ OneOwner'
  BY <1>1 DEF Inv, AttemptsLeft, OneOwner, Pending, Exists
<1> QED BY <1>2, <1>3, <1>4, <1>5, <1>6 DEF Inv

-----------------------------------------------------------------------------
\* The dispatcher.

LEMMA PollInv ==
  ASSUME Inv, NEW i \in Instances, Poll(i)
  PROVE  Inv'
<1> DEFINE row == [NoBatch EXCEPT !.at = "mark", !.batch = Batch,
                     !.retry = [e \in Events |-> outbox[e].retry]]
<1>1. /\ UNCHANGED <<rows, active, delivery, queue, worker, history, budget>>
      /\ dispatcher' = [dispatcher EXCEPT ![i] = row]
      /\ Batch # {}
  BY DEF Poll
<1>2. Batch \subseteq Events /\ \A e \in Events : outbox[e].retry \in Nat
  BY DEF Batch, Inv, TypeOK
<1>3. row \in Dispatchers /\ row.at = "mark" /\ row.batch # {} /\ row.todo = {}
  BY <1>1, <1>2 DEF NoBatch, Dispatchers, DispatcherSteps
<1> HIDE DEF row
<1>4. RowsKept /\ JobsKept /\ errors' \in Nat /\ HistoryTyped'
  BY <1>1, RowsUnchanged, JobsUnchanged DEF Inv, TypeOK, rows, queue, budget, history, HistoryTyped
<1> QED BY <1>1, <1>3, <1>4, DispatcherTo DEF queue, budget

\* What NextEvent leaves of the batch.
LEMMA NextEventRow ==
  ASSUME Inv, NEW i \in Instances, NextEvent(i)
  PROVE  \E row \in Dispatchers :
           /\ dispatcher' = [dispatcher EXCEPT ![i] = row]
           /\ row.at = "idle" \/ (row.at = "mark" /\ row.batch # {})
           /\ row.todo = {}
<1> DEFINE rest == dispatcher[i].batch \ {Current(i)}
           next == [NoBatch EXCEPT !.at = "mark", !.batch = rest,
                                   !.retry = dispatcher[i].retry]
<1>1. /\ rest \in SUBSET Events
      /\ dispatcher[i].retry \in [Events -> Nat]
  BY DEF Inv, TypeOK, Dispatchers
<1>2. dispatcher' = [dispatcher EXCEPT ![i] = IF rest = {} THEN NoBatch ELSE next]
  BY DEF NextEvent
<1>3. NoBatch \in Dispatchers /\ NoBatch.at = "idle" /\ NoBatch.todo = {}
  BY DEF NoBatch, Dispatchers, DispatcherSteps
<1> HIDE DEF rest
<1>4. next \in Dispatchers /\ next.at = "mark" /\ next.batch = rest /\ next.todo = {}
  BY <1>1 DEF NoBatch, Dispatchers, DispatcherSteps
<1> HIDE DEF next
<1> DEFINE row == IF rest = {} THEN NoBatch ELSE next
<1>5. /\ row \in Dispatchers
      /\ row.at = "idle" \/ (row.at = "mark" /\ row.batch # {})
      /\ row.todo = {}
  BY <1>3, <1>4
<1>6. dispatcher' = [dispatcher EXCEPT ![i] = row]
  BY <1>2
<1> HIDE DEF row
<1> QED BY <1>5, <1>6

\* A write of the current event's row that ends its dispatch.
LEMMA WriteNextInv ==
  ASSUME Inv, NEW i \in Instances, ~At(i, "idle"), NEW update \in Updates,
         WriteStatus(Current(i), update), NextEvent(i),
         UNCHANGED <<active, delivery, queue, worker, history, budget>>
  PROVE  Inv'
<1>1. Current(i) \in Events
  BY CurrentType DEF Inv, Dispatches
<1>2. RowsKept /\ JobsKept /\ errors' \in Nat /\ HistoryTyped'
  BY <1>1, RowWritten, JobsUnchanged DEF Inv, TypeOK, queue, budget, history, HistoryTyped
<1>3. PICK row \in Dispatchers :
           /\ dispatcher' = [dispatcher EXCEPT ![i] = row]
           /\ row.at = "idle" \/ (row.at = "mark" /\ row.batch # {})
           /\ row.todo = {}
  BY NextEventRow
<1> QED BY <1>2, <1>3, DispatcherTo DEF queue, budget

LEMMA UpdateOutboxInv ==
  ASSUME Inv, NEW i \in Instances, UpdateOutbox(i)
  PROVE  Inv'
<1>1. dispatcher[i].write \in Updates /\ ~At(i, "idle")
  BY DEF UpdateOutbox, Inv, Dispatches, At
<1> QED BY <1>1, WriteNextInv DEF UpdateOutbox

LEMMA RetriedType ==
  ASSUME TypeOK, NEW i \in Instances, Current(i) \in Events
  PROVE  Retried(i) \in Updates
<1> DEFINE n == dispatcher[i].retry[Current(i)] + 1
<1>1. n \in Nat
  BY DEF TypeOK, Dispatchers
<1>2. Retried(i) = [status |-> IF n < OutboxMax THEN "pending" ELSE "failed", retry |-> n]
  BY DEF Retried
<1> HIDE DEF n
<1> QED BY <1>1, <1>2 DEF Updates, OutboxStatuses

LEMMA MarkForRetryInv ==
  ASSUME Inv, NEW i \in Instances, MarkForRetry(i)
  PROVE  Inv'
<1>1. ~At(i, "idle")
  BY DEF MarkForRetry, At
<1>2. Retried(i) \in Updates
  BY <1>1, CurrentType, RetriedType DEF Inv, Dispatches
<1>3. /\ WriteStatus(Current(i), Retried(i)) /\ NextEvent(i)
      /\ UNCHANGED <<active, delivery, queue, worker, history, budget>>
  BY DEF MarkForRetry
<1> QED BY <1>1, <1>2, <1>3, WriteNextInv

LEMMA MarkProcessingInv ==
  ASSUME Inv, NEW i \in Instances, MarkProcessing(i)
  PROVE  Inv'
<1> DEFINE update == [status |-> "processing", retry |-> None]
           row == [dispatcher[i] EXCEPT !.at = "subscriptions"]
<1>1. /\ UNCHANGED <<active, delivery, queue, worker, history, budget>>
      /\ dispatcher' = [dispatcher EXCEPT ![i].at = "subscriptions"]
      /\ ~At(i, "idle") /\ WriteStatus(Current(i), update)
  BY DEF MarkProcessing, At
<1>2. dispatcher' = [dispatcher EXCEPT ![i] = row] /\ dispatcher[i] \in Dispatchers
  BY <1>1 DEF Inv, TypeOK
<1>3. /\ row \in Dispatchers /\ row.at = "subscriptions"
      /\ row.batch = dispatcher[i].batch /\ row.todo = dispatcher[i].todo
  BY <1>2 DEF Dispatchers, DispatcherSteps
<1> HIDE DEF row
<1>4. Current(i) \in Events
  BY <1>1, CurrentType DEF Inv, Dispatches
<1>5. update \in Updates
  BY DEF Updates, OutboxStatuses
<1> HIDE DEF update
<1>6. RowsKept /\ JobsKept /\ errors' \in Nat /\ HistoryTyped'
  BY <1>1, <1>4, <1>5, RowWritten, JobsUnchanged DEF Inv, TypeOK, queue, budget, history, HistoryTyped
<1>7. row.batch # {} /\ \A j \in row.todo : delivery'[j[1]] # None /\ j[2] <= MaxAttempts
  BY <1>1, <1>3 DEF Inv, Dispatches, Allowed, Exists
<1> QED BY <1>1, <1>2, <1>3, <1>6, <1>7, DispatcherTo DEF queue, budget

LEMMA FindSubscriptionsInv ==
  ASSUME Inv, NEW i \in Instances, FindSubscriptions(i)
  PROVE  Inv'
<1> DEFINE matches == {s \in active : <<Current(i), s>> \in Matching}
           row == [dispatcher[i] EXCEPT !.at = "deliveries", !.subs = matches]
<1>1. /\ UNCHANGED <<rows, active, delivery, queue, worker, history, budget>>
      /\ dispatcher' = [dispatcher EXCEPT ![i].at = "deliveries", ![i].subs = matches]
      /\ ~At(i, "idle")
  BY DEF FindSubscriptions, At
<1>2. dispatcher' = [dispatcher EXCEPT ![i] = row] /\ dispatcher[i] \in Dispatchers
  BY <1>1 DEF Inv, TypeOK
<1>3. matches \subseteq Subs /\ \A s \in matches : <<Current(i), s>> \in Matching
  BY DEF Inv, TypeOK
<1> HIDE DEF matches
<1>4. /\ row \in Dispatchers /\ row.at = "deliveries" /\ row.subs = matches
      /\ row.batch = dispatcher[i].batch /\ row.todo = dispatcher[i].todo
  BY <1>2, <1>3 DEF Dispatchers, DispatcherSteps
<1> HIDE DEF row
<1>5. RowsKept /\ JobsKept /\ errors' \in Nat /\ HistoryTyped'
  BY <1>1, RowsUnchanged, JobsUnchanged DEF Inv, TypeOK, rows, queue, budget, history, HistoryTyped
<1>6. row.batch # {} /\ \A j \in row.todo : delivery'[j[1]] # None /\ j[2] <= MaxAttempts
  BY <1>1, <1>4 DEF Inv, Dispatches, Allowed, Exists
<1>7. \A s \in row.subs : <<Oldest(row.batch), s>> \in Matching
  BY <1>3, <1>4 DEF Current
<1> QED BY <1>1, <1>2, <1>4, <1>5, <1>6, <1>7, DispatcherTo DEF queue, budget

LEMMA FindDeliveriesInv ==
  ASSUME Inv, NEW i \in Instances, FindDeliveries(i)
  PROVE  Inv'
<1> DEFINE e == Current(i)
           missing == {d \in {e} \X dispatcher[i].subs : delivery[d] = None}
           todo == Unsent(e)
           update == [status |-> "published", retry |-> None]
           row(step) == [dispatcher[i] EXCEPT !.at = step, !.subs = {},
                           !.missing = missing, !.todo = todo, !.write = update]
<1>1. /\ UNCHANGED <<rows, active, delivery, queue, worker, history, budget>>
      /\ At(i, "deliveries")
  BY DEF FindDeliveries
<1>2. PICK step \in {"create", "write", "status", "enqueue"} :
        dispatcher' = [dispatcher EXCEPT ![i].at = step, ![i].subs = {},
          ![i].missing = missing, ![i].todo = todo, ![i].write = update]
  BY DEF FindDeliveries
<1>3. dispatcher[i].batch # {} /\ e \in Events
  BY <1>1, CurrentType DEF Inv, Dispatches, At
<1>4. missing \subseteq Deliveries
  BY <1>1, <1>3 DEF Inv, Dispatches, Deliveries
<1>5. \A d \in Of(e) : delivery[d].status = "pending" =>
        /\ <<d, delivery[d].attempts + 1>> \in Jobs
        /\ Exists(d) /\ delivery[d].attempts + 1 <= MaxAttempts
  <2>1. \A d \in Of(e) : delivery[d] \in DeliveryRows /\ d \in Deliveries /\ Exists(d)
    BY DEF Inv, TypeOK, Of, Exists
  <2> QED BY <2>1, Pairs, BoundsAssumption DEF Inv, AttemptsLeft, Pending, DeliveryRows
<1>6. todo \subseteq Jobs /\ \A j \in todo : Exists(j[1]) /\ j[2] <= MaxAttempts
  BY <1>5 DEF Unsent
<1>7. update \in Updates
  BY DEF Updates, OutboxStatuses
<1>8. dispatcher' = [dispatcher EXCEPT ![i] = row(step)] /\ dispatcher[i] \in Dispatchers
  BY <1>2 DEF Inv, TypeOK
<1> HIDE DEF missing, todo, update
<1>9. /\ row(step) \in Dispatchers
      /\ row(step).batch = dispatcher[i].batch /\ row(step).todo = todo
      /\ row(step).at = step /\ row(step).write = update
  BY <1>4, <1>6, <1>7, <1>8 DEF Dispatchers, DispatcherSteps
<1> HIDE DEF row
<1>10. RowsKept /\ JobsKept /\ errors' \in Nat /\ HistoryTyped'
  BY <1>1, RowsUnchanged, JobsUnchanged DEF Inv, TypeOK, rows, queue, budget, history, HistoryTyped
<1>11. \A j \in row(step).todo : delivery'[j[1]] # None /\ j[2] <= MaxAttempts
  BY <1>1, <1>6, <1>9 DEF Exists
<1> QED BY <1>1, <1>3, <1>7, <1>8, <1>9, <1>10, <1>11, DispatcherTo DEF queue, budget

\* The dispatcher in the catch block of an event.
LEMMA FailsRow ==
  ASSUME Inv, NEW i \in Instances, ~At(i, "idle"), DispatchFails(i)
  PROVE  /\ \E row \in Dispatchers :
              /\ dispatcher' = [dispatcher EXCEPT ![i] = row]
              /\ row.at = "retry" /\ row.batch # {} /\ row.todo = {}
         /\ failures' \in [Events -> Nat]
<1> DEFINE row == [NoBatch EXCEPT !.at = "retry", !.batch = dispatcher[i].batch,
                                  !.retry = dispatcher[i].retry]
<1>1. /\ dispatcher[i].batch \in SUBSET Events /\ dispatcher[i].batch # {}
      /\ dispatcher[i].retry \in [Events -> Nat]
  BY DEF Inv, TypeOK, Dispatchers, Dispatches
<1>2. /\ row \in Dispatchers /\ row.at = "retry" /\ row.todo = {}
      /\ row.batch = dispatcher[i].batch
  BY <1>1 DEF NoBatch, Dispatchers, DispatcherSteps
<1>3. /\ dispatcher' = [dispatcher EXCEPT ![i] = row]
      /\ failures' = [failures EXCEPT ![Current(i)] = @ + 1]
  BY DEF DispatchFails
<1> HIDE DEF row
<1>4. failures' \in [Events -> Nat]
  BY <1>3, CurrentType DEF Inv, TypeOK, Dispatches
<1> QED BY <1>1, <1>2, <1>3, <1>4

LEMMA CreateDeliveriesInv ==
  ASSUME Inv, NEW i \in Instances, CreateDeliveries(i)
  PROVE  Inv'
<1> DEFINE missing == dispatcher[i].missing
           new == [status |-> "pending", attempts |-> 0]
           todo == dispatcher[i].todo \cup {<<d, 1>> : d \in missing}
           done == [dispatcher[i] EXCEPT !.at = "enqueue", !.missing = {}, !.todo = todo]
<1>1. /\ UNCHANGED <<rows, active, queue, worker, posts, accepted, budget>>
      /\ At(i, "create")
  BY DEF CreateDeliveries
<1>2. /\ dispatcher[i] \in Dispatchers /\ missing \subseteq Deliveries
      /\ dispatcher[i].batch # {} /\ dispatcher[i].todo \subseteq Jobs
      /\ \A j \in dispatcher[i].todo : Exists(j[1]) /\ j[2] <= MaxAttempts
  BY <1>1 DEF Inv, TypeOK, Dispatchers, Dispatches, Allowed, At
<1>3. errors' \in Nat
  BY <1>1 DEF Inv, TypeOK, budget
<1>4. CASE \A d \in missing : delivery[d] = None
  <2>1. /\ delivery' = [d \in Deliveries |-> IF d \in missing THEN new ELSE delivery[d]]
        /\ dispatcher' = [dispatcher EXCEPT ![i].at = "enqueue", ![i].missing = {},
                            ![i].todo = @ \cup {<<d, 1>> : d \in missing}]
    BY <1>4 DEF CreateDeliveries
  <2>2. dispatcher' = [dispatcher EXCEPT ![i] = done]
    BY <2>1 DEF Inv, TypeOK
  <2>3. todo \subseteq Jobs /\ \A j \in todo : j[2] <= MaxAttempts
    BY <1>2, Pairs, BoundsAssumption
  <2>4. \A j \in todo : Exists(j[1]) \/ j[1] \in missing
    BY <1>2
  <2>5. new \in DeliveryRows /\ new # None
    BY NoneAssumption, BoundsAssumption DEF DeliveryRows
  <2>6. \A d \in Deliveries : Exists(d) => Exists(d)'
    BY <2>1, <2>5 DEF Exists
  <2>7. \A j \in todo : delivery'[j[1]] # None
    BY <2>1, <2>3, <2>4, <2>5, Pairs DEF Exists
  <2>8. AttemptsLeft'
    BY <2>1, BoundsAssumption DEF Inv, AttemptsLeft, Pending, Exists
  <2>9. delivery' \in [Deliveries -> {None} \cup DeliveryRows]
    BY <2>1, <2>5 DEF Inv, TypeOK
  <2>10. RowsKept
    BY <1>1, <2>6, <2>8, <2>9 DEF Inv, TypeOK, RowsKept, rows
  <2>11. JobsKept
    BY <1>1, <2>6, Pairs DEF Inv, TypeOK, JobsKept, Queued, Allowed, queue
  <2>12. UNCHANGED failures
    BY <1>4 DEF CreateDeliveries
  <2> HIDE DEF missing, todo
  <2>13. /\ done \in Dispatchers /\ done.at = "enqueue" /\ done.todo = todo
         /\ done.batch = dispatcher[i].batch
    BY <1>2, <2>3 DEF Dispatchers, DispatcherSteps
  <2> HIDE DEF done
  <2>14. HistoryTyped'
    BY <1>1, <2>12 DEF Inv, TypeOK, HistoryTyped
  <2> QED BY <1>1, <1>2, <1>3, <2>2, <2>3, <2>7, <2>10, <2>11, <2>13, <2>14, DispatcherTo
          DEF queue, budget
<1>5. CASE ~ \A d \in missing : delivery[d] = None
  <2>1. DispatchFails(i) /\ UNCHANGED delivery
    BY <1>5 DEF CreateDeliveries
  <2>2. ~At(i, "idle")
    BY <1>1 DEF At
  <2>3. PICK row \in Dispatchers :
          /\ dispatcher' = [dispatcher EXCEPT ![i] = row]
          /\ row.at = "retry" /\ row.batch # {} /\ row.todo = {}
    BY <2>1, <2>2, FailsRow
  <2>4. RowsKept /\ JobsKept
    BY <1>1, <2>1, RowsUnchanged, JobsUnchanged DEF rows, queue
  <2>5. HistoryTyped'
    BY <1>1, <2>1, <2>2, FailsRow DEF Inv, TypeOK, HistoryTyped
  <2> QED BY <1>1, <1>3, <2>3, <2>4, <2>5, DispatcherTo DEF queue, budget
<1> QED BY <1>4, <1>5

\* A dispatcher's enqueueing, or the part of it that got through.
LEMMA TodoAdded ==
  ASSUME Inv, NEW i \in Instances, NEW added \in SUBSET dispatcher[i].todo,
         Add(added, "waiting"),
         UNCHANGED <<delivery, stalls>>
  PROVE  /\ JobsKept
         /\ \A j \in Jobs : job[j] = "active" => job'[j] = "active"
<1>1. added \in SUBSET Jobs /\ \A j \in added : Allowed(j)
  BY DEF Inv, TypeOK, Dispatchers, Dispatches
<1>2. TypeOK /\ Queued
  BY DEF Inv
<1>3. /\ job' \in [Jobs -> {"unknown", "delayed", "waiting", "active", "kept"}]
      /\ Queued'
      /\ \A j \in Jobs : job[j] = "active" => job'[j] = "active"
  BY <1>1, <1>2, AddType
<1>4. stalls' \in [Jobs -> 0..2]
  BY <1>2 DEF TypeOK
<1> QED BY <1>3, <1>4 DEF JobsKept

LEMMA EnqueueDeliveriesInv ==
  ASSUME Inv, NEW i \in Instances, EnqueueDeliveries(i)
  PROVE  Inv'
<1>1. /\ Add(dispatcher[i].todo, "waiting") /\ NextEvent(i)
      /\ UNCHANGED <<rows, active, delivery, resting, stalls, worker, history, budget>>
  BY DEF EnqueueDeliveries
<1>2. /\ RowsKept /\ JobsKept
      /\ \A j \in Jobs : job[j] = "active" => job'[j] = "active"
  BY <1>1, TodoAdded, RowsUnchanged DEF rows
<1>3. PICK row \in Dispatchers :
           /\ dispatcher' = [dispatcher EXCEPT ![i] = row]
           /\ row.at = "idle" \/ (row.at = "mark" /\ row.batch # {})
           /\ row.todo = {}
  BY <1>1, NextEventRow
<1>4. errors' \in Nat /\ HistoryTyped'
  BY <1>1 DEF Inv, TypeOK, budget, history, HistoryTyped
<1> QED BY <1>1, <1>2, <1>3, <1>4, DispatcherTo DEF budget

LEMMA ReadStatusInv ==
  ASSUME Inv, NEW i \in Instances, ReadStatus(i)
  PROVE  Inv'
<1> DEFINE update == StatusFor(Current(i))
           row == [dispatcher[i] EXCEPT !.at = "write", !.write = update]
<1>1. /\ UNCHANGED <<rows, active, delivery, queue, worker, history, budget>>
      /\ dispatcher' = [dispatcher EXCEPT ![i].at = "write", ![i].write = update]
      /\ ~At(i, "idle")
  BY DEF ReadStatus, At
<1>2. dispatcher' = [dispatcher EXCEPT ![i] = row] /\ dispatcher[i] \in Dispatchers
  BY <1>1 DEF Inv, TypeOK
<1>3. update \in Updates
  BY <1>1, CurrentType, StatusType DEF Inv, Dispatches
<1> HIDE DEF update
<1>4. /\ row \in Dispatchers /\ row.at = "write" /\ row.write = update
      /\ row.batch = dispatcher[i].batch /\ row.todo = dispatcher[i].todo
  BY <1>2, <1>3 DEF Dispatchers, DispatcherSteps
<1> HIDE DEF row
<1>5. RowsKept /\ JobsKept /\ errors' \in Nat /\ HistoryTyped'
  BY <1>1, RowsUnchanged, JobsUnchanged DEF Inv, TypeOK, rows, queue, budget, history, HistoryTyped
<1>6. row.batch # {} /\ \A j \in row.todo : delivery'[j[1]] # None /\ j[2] <= MaxAttempts
  BY <1>1, <1>4 DEF Inv, Dispatches, Allowed, Exists
<1> QED BY <1>1, <1>2, <1>3, <1>4, <1>5, <1>6, DispatcherTo DEF queue, budget

LEMMA DispatcherThrowsInv ==
  ASSUME Inv, NEW i \in Instances, DispatcherThrows(i)
  PROVE  Inv'
<1>1. /\ UNCHANGED <<active, delivery, resting, stalls, worker, posts, accepted,
                     crashes, lostLocks, evictions>>
      /\ ~At(i, "idle") /\ errors' = errors + 1
  BY DEF DispatcherThrows
<1>2. PICK added \in SUBSET dispatcher[i].todo : Add(added, "waiting")
  BY DEF DispatcherThrows
<1>3. /\ JobsKept
      /\ \A j \in Jobs : job[j] = "active" => job'[j] = "active"
  BY <1>1, <1>2, TodoAdded
<1>4. Current(i) \in Events /\ Retried(i) \in Updates
  BY <1>1, CurrentType, RetriedType DEF Inv, Dispatches
<1>5. RowsKept
  <2>1. CASE UNCHANGED rows
    BY <1>1, <2>1, RowsUnchanged DEF rows
  <2>2. CASE At(i, "write") /\ WriteStatus(Current(i), dispatcher[i].write)
    <3>1. dispatcher[i].write \in Updates
      BY <2>2 DEF Inv, Dispatches
    <3> QED BY <1>1, <1>4, <2>2, <3>1, RowWritten
  <2>3. CASE At(i, "retry") /\ WriteStatus(Current(i), Retried(i))
    BY <1>1, <1>4, <2>3, RowWritten
  <2> QED BY <2>1, <2>2, <2>3 DEF DispatcherThrows
<1>6. errors' \in Nat
  BY <1>1 DEF Inv, TypeOK
<1>7. CASE At(i, "retry")
  <2>1. dispatcher' = [dispatcher EXCEPT ![i] = NoBatch] /\ UNCHANGED failures
    BY <1>7 DEF DispatcherThrows
  <2>2. NoBatch \in Dispatchers /\ NoBatch.at = "idle" /\ NoBatch.todo = {}
    BY DEF NoBatch, Dispatchers, DispatcherSteps
  <2>3. HistoryTyped'
    BY <1>1, <2>1 DEF Inv, TypeOK, HistoryTyped
  <2> QED BY <1>1, <1>3, <1>5, <1>6, <2>1, <2>2, <2>3, DispatcherTo
<1>8. CASE ~At(i, "retry")
  <2>1. DispatchFails(i)
    BY <1>8 DEF DispatcherThrows
  <2>2. PICK row \in Dispatchers :
          /\ dispatcher' = [dispatcher EXCEPT ![i] = row]
          /\ row.at = "retry" /\ row.batch # {} /\ row.todo = {}
    BY <1>1, <2>1, FailsRow
  <2>3. HistoryTyped'
    BY <1>1, <2>1, FailsRow DEF Inv, TypeOK, HistoryTyped
  <2> QED BY <1>1, <1>3, <1>5, <1>6, <2>2, <2>3, DispatcherTo
<1> QED BY <1>7, <1>8

-----------------------------------------------------------------------------
\* The worker.

\* A job that the queue knows changes its state.
LEMMA JobMoved ==
  ASSUME Inv, RowsKept, NEW j \in Jobs, job[j] # "unknown",
         NEW state \in {"waiting", "active", "kept"},
         job' = [job EXCEPT ![j] = state],
         job[j] # "kept" \/ state = "kept", UNCHANGED stalls
  PROVE  /\ JobsKept
         /\ job'[j] = state
         /\ \A h \in Jobs \ {j} : job'[h] = job[h]
<1>1. /\ job' \in [Jobs -> {"unknown", "delayed", "waiting", "active", "kept"}]
      /\ job'[j] = state
      /\ \A h \in Jobs \ {j} : job'[h] = job[h]
  BY DEF Inv, TypeOK
<1>2. Queued'
  BY <1>1, Pairs DEF Inv, Queued, Allowed, RowsKept
<1> QED BY <1>1, <1>2 DEF Inv, TypeOK, JobsKept

LEMMA JobsStay ==
  ASSUME Inv, RowsKept, UNCHANGED <<job, stalls>>
  PROVE  JobsKept
<1>1. Queued'
  BY Pairs DEF Inv, Queued, Allowed, RowsKept
<1> QED BY <1>1 DEF Inv, TypeOK, JobsKept

LEMMA FinishInv ==
  ASSUME Inv, NEW i \in Instances, ~Does(i, "idle"), Finish(i), RowsKept,
         errors' \in Nat,
         UNCHANGED <<active, dispatcher, history, crashes, lostLocks, evictions>>
  PROVE  Inv'
<1>1. worker' = [worker EXCEPT ![i] = NoJob] /\ UNCHANGED <<resting, stalls>>
  BY DEF Finish
<1>2. NoJob \in Workers /\ NoJob.at = "idle" /\ NoJob.owns = FALSE
  BY BoundsAssumption DEF NoJob, Workers, WorkerSteps
<1>3. /\ JobsKept
      /\ \A j \in Jobs : job[j] = "active" =>
           job'[j] = "active" \/ (worker[i].owns /\ worker[i].job = j)
  <2>1. CASE worker[i].owns
    <3>1. job' = [job EXCEPT ![worker[i].job] = "kept"]
      BY <2>1 DEF Finish
    <3>2. worker[i].job \in Jobs /\ job[worker[i].job] = "active"
      BY <2>1 DEF Inv, Works
    <3> QED BY <1>1, <2>1, <3>1, <3>2, JobMoved
  <2>2. CASE ~worker[i].owns
    <3>1. UNCHANGED <<job, stalls>>
      BY <1>1, <2>2 DEF Finish
    <3> QED BY <3>1, JobsStay
  <2> QED BY <2>1, <2>2
<1>4. /\ resting' \subseteq Jobs /\ HistoryTyped'
      /\ {errors, crashes, lostLocks}' \subseteq Nat
  BY <1>1 DEF Inv, TypeOK, history, HistoryTyped
<1> QED BY <1>1, <1>2, <1>3, <1>4, WorkerTo

LEMMA TakeJobInv ==
  ASSUME Inv, NEW i \in Instances, NEW j \in Jobs, TakeJob(i, j)
  PROVE  Inv'
<1> DEFINE row == [NoJob EXCEPT !.at = "find", !.job = j, !.owns = TRUE]
<1>1. /\ job[j] = "waiting" /\ job' = [job EXCEPT ![j] = "active"]
      /\ worker' = [worker EXCEPT ![i] = row]
      /\ UNCHANGED <<rows, active, delivery, resting, stalls, dispatcher, history, budget>>
  BY DEF TakeJob
<1>2. row \in Workers /\ row.at = "find" /\ row.job = j
  <2>1. NoJob \in Workers
    BY BoundsAssumption DEF NoJob, Workers, WorkerSteps
  <2> QED BY <2>1 DEF Workers, WorkerSteps
<1> HIDE DEF row
<1>3. RowsKept
  BY <1>1, RowsUnchanged DEF rows
<1>4. JobsKept /\ job'[j] = "active" /\ \A h \in Jobs \ {j} : job'[h] = job[h]
  BY <1>1, <1>3, JobMoved
<1>5. Exists(j[1])
  BY <1>1 DEF Inv, Queued, Allowed
<1>6. /\ resting' \subseteq Jobs /\ HistoryTyped'
      /\ {errors, crashes, lostLocks}' \subseteq Nat
  BY <1>1 DEF Inv, TypeOK, budget, history, HistoryTyped
<1>7. \A h \in Jobs : job[h] = "active" => job'[h] = "active"
  BY <1>1, <1>4
<1> QED BY <1>1, <1>2, <1>3, <1>4, <1>5, <1>6, <1>7, WorkerTo DEF budget

\* A worker goes on with its job, and the queue is left alone or gets one more.
LEMMA GoesOn ==
  ASSUME Inv, NEW i \in Instances, ~Does(i, "idle"), NEW row \in Workers,
         worker' = [worker EXCEPT ![i] = row],
         row.at # "idle", row.job = worker[i].job, row.owns = worker[i].owns,
         row.at = "enqueue" => row.attempts < MaxAttempts,
         row.at = "writeStatus" => row.write \in Updates,
         RowsKept, JobsKept,
         \A j \in Jobs : job[j] = "active" => job'[j] = "active",
         resting' \subseteq Jobs, HistoryTyped', errors' \in Nat,
         UNCHANGED <<active, dispatcher, crashes, lostLocks, evictions>>
  PROVE  Inv'
<1>1. row.job \in Jobs /\ Exists(row.job[1])
  BY DEF Inv, Works, Target
<1>2. row.owns => job'[row.job] = "active"
  BY DEF Inv, Works
<1>3. {errors, crashes, lostLocks}' \subseteq Nat
  BY DEF Inv, TypeOK
<1> QED BY <1>1, <1>2, <1>3, WorkerTo

LEMMA FindDeliveryInv ==
  ASSUME Inv, NEW i \in Instances, FindDelivery(i)
  PROVE  Inv'
<1> DEFINE n == delivery[Target(i)].attempts + 1
           row == [worker[i] EXCEPT !.at = "post", !.attempts = n]
<1>1. /\ UNCHANGED <<rows, active, delivery, dispatcher, history, budget>>
      /\ ~Does(i, "idle")
  BY DEF FindDelivery, Does
<1>2. RowsKept /\ errors' \in Nat
  BY <1>1, RowsUnchanged DEF Inv, TypeOK, rows, budget
<1>3. CASE delivery[Target(i)].status = "pending"
  <2>1. /\ worker' = [worker EXCEPT ![i].at = "post", ![i].attempts = n]
        /\ UNCHANGED queue
    BY <1>3 DEF FindDelivery
  <2>2. worker' = [worker EXCEPT ![i] = row] /\ worker[i] \in Workers
    BY <2>1 DEF Inv, TypeOK
  <2>3. Target(i) \in Deliveries /\ Exists(Target(i))
    BY <1>1, Pairs DEF Inv, Works, Target
  <2>4. n \in 0..MaxAttempts
    <3>1. delivery[Target(i)] \in DeliveryRows
      BY <2>3 DEF Inv, TypeOK, Exists
    <3> QED BY <1>3, <2>3, <3>1, BoundsAssumption
            DEF Inv, AttemptsLeft, Pending, DeliveryRows
  <2> HIDE DEF n
  <2>5. /\ row \in Workers /\ row.at = "post" /\ row.job = worker[i].job
        /\ row.owns = worker[i].owns
    BY <2>2, <2>4 DEF Workers, WorkerSteps
  <2> HIDE DEF row
  <2>6. /\ JobsKept /\ resting' \subseteq Jobs /\ HistoryTyped'
        /\ UNCHANGED job
    BY <1>1, <1>2, <2>1, JobsStay DEF Inv, TypeOK, queue, history, HistoryTyped
  <2> QED BY <1>1, <1>2, <2>2, <2>5, <2>6, GoesOn DEF budget
<1>4. CASE delivery[Target(i)].status # "pending"
  <2>1. Finish(i)
    BY <1>4 DEF FindDelivery
  <2> QED BY <1>1, <1>2, <2>1, FinishInv DEF budget
<1> QED BY <1>3, <1>4

\* A worker's step that changes nothing but where the worker is.
LEMMA GotoInv ==
  ASSUME Inv, NEW i \in Instances, ~Does(i, "idle"), NEW step \in WorkerSteps \ {"idle"},
         Goto(i, step), step = "enqueue" => worker[i].attempts < MaxAttempts,
         step # "writeStatus",
         RowsKept, JobsKept,
         \A j \in Jobs : job[j] = "active" => job'[j] = "active",
         resting' \subseteq Jobs, HistoryTyped', errors' \in Nat,
         UNCHANGED <<active, dispatcher, crashes, lostLocks, evictions>>
  PROVE  Inv'
<1> DEFINE row == [worker[i] EXCEPT !.at = step]
<1>1. worker' = [worker EXCEPT ![i] = row] /\ worker[i] \in Workers
  BY DEF Goto, Inv, TypeOK
<1>2. /\ row \in Workers /\ row.at = step /\ row.job = worker[i].job
      /\ row.owns = worker[i].owns /\ row.attempts = worker[i].attempts
  BY <1>1 DEF Workers, WorkerSteps
<1> HIDE DEF row
<1> QED BY <1>1, <1>2, GoesOn

LEMMA PostInv ==
  ASSUME Inv, NEW i \in Instances, NEW ok \in BOOLEAN, Post(i, ok)
  PROVE  Inv'
<1> DEFINE step == IF ok THEN "saveSuccess" ELSE "saveFailure"
<1>1. /\ UNCHANGED <<rows, active, delivery, queue, dispatcher, failures, budget>>
      /\ posts' = [posts EXCEPT ![Target(i)] = @ + 1]
      /\ accepted' = IF ok THEN accepted \cup {Target(i)} ELSE accepted
      /\ ~Does(i, "idle") /\ Goto(i, step)
  BY DEF Post, Does
<1>2. Target(i) \in Deliveries
  BY <1>1, Pairs DEF Inv, Works, Target
<1>3. /\ RowsKept /\ errors' \in Nat /\ HistoryTyped'
      /\ resting' \subseteq Jobs
  BY <1>1, <1>2, RowsUnchanged DEF Inv, TypeOK, rows, budget, queue, history, HistoryTyped
<1>4. JobsKept /\ UNCHANGED job
  BY <1>1, <1>3, JobsStay DEF queue
<1>5. step \in WorkerSteps \ {"idle"} /\ step # "enqueue" /\ step # "writeStatus"
  BY DEF WorkerSteps
<1> QED BY <1>1, <1>3, <1>4, <1>5, GotoInv DEF budget

\* The write of an attempt: the row exists before and after.
LEMMA DeliverySaved ==
  ASSUME Inv, NEW i \in Instances, ~Does(i, "idle"),
         NEW status \in {"pending", "success", "failed"}, SaveDelivery(i, status),
         status = "pending" => Retries(i), UNCHANGED <<outbox, due>>
  PROVE  /\ RowsKept
         /\ Target(i) \in Deliveries
         /\ delivery' = [delivery EXCEPT ![Target(i)] =
              [status |-> status, attempts |-> worker[i].attempts]]
<1> DEFINE new == [status |-> status, attempts |-> worker[i].attempts]
<1>1. Target(i) \in Deliveries
  BY Pairs DEF Inv, Works, Target
<1>2. new \in DeliveryRows /\ new # None
  BY NoneAssumption DEF Inv, TypeOK, Workers, DeliveryRows
<1>3. delivery' = [delivery EXCEPT ![Target(i)] = new]
  BY DEF SaveDelivery
<1>4. /\ delivery' \in [Deliveries -> {None} \cup DeliveryRows]
      /\ \A d \in Deliveries : Exists(d) => Exists(d)'
  BY <1>1, <1>2, <1>3 DEF Inv, TypeOK, Exists
<1>5. AttemptsLeft'
  BY <1>1, <1>3 DEF Inv, TypeOK, AttemptsLeft, Pending, Exists, Retries
<1> QED BY <1>1, <1>3, <1>4, <1>5 DEF Inv, TypeOK, RowsKept

LEMMA SaveSuccessInv ==
  ASSUME Inv, NEW i \in Instances, SaveSuccess(i)
  PROVE  Inv'
<1>1. /\ UNCHANGED <<rows, active, queue, dispatcher, history, budget>>
      /\ ~Does(i, "idle") /\ Goto(i, "readStatus") /\ SaveDelivery(i, "success")
  BY DEF SaveSuccess, Does
<1>2. RowsKept
  BY <1>1, DeliverySaved DEF rows
<1>3. JobsKept /\ UNCHANGED job
  BY <1>1, <1>2, JobsStay DEF queue
<1>4. errors' \in Nat /\ HistoryTyped' /\ resting' \subseteq Jobs
  BY <1>1 DEF Inv, TypeOK, queue, budget, history, HistoryTyped
<1> QED BY <1>1, <1>2, <1>3, <1>4, GotoInv DEF budget, WorkerSteps

LEMMA NextJobType ==
  ASSUME Inv, NEW i \in Instances, ~Does(i, "idle")
  PROVE  /\ NextJob(i) \in Jobs
         /\ NextJob(i)[1] = Target(i) /\ NextJob(i)[2] = worker[i].attempts + 1
<1>1. Target(i) \in Deliveries
  BY Pairs DEF Inv, Works, Target
<1>2. worker[i].attempts \in 0..MaxAttempts
  BY DEF Inv, TypeOK, Workers
<1> QED BY <1>1, <1>2, BoundsAssumption DEF NextJob, Jobs

LEMMA SaveFailureInv ==
  ASSUME Inv, NEW i \in Instances, SaveFailure(i)
  PROVE  Inv'
<1> DEFINE status == IF Retries(i) THEN "pending" ELSE "failed"
           step == IF Retries(i) THEN "enqueue" ELSE "readStatus"
<1>1. /\ UNCHANGED <<rows, active, job, stalls, dispatcher, history, budget>>
      /\ ~Does(i, "idle") /\ Goto(i, step) /\ SaveDelivery(i, status)
      /\ resting' = IF Retries(i) THEN resting \cup {NextJob(i)} ELSE resting
  BY DEF SaveFailure, Does
<1>2. RowsKept
  BY <1>1, DeliverySaved DEF rows
<1>3. JobsKept /\ UNCHANGED job
  BY <1>1, <1>2, JobsStay
<1>4. errors' \in Nat /\ HistoryTyped' /\ resting' \subseteq Jobs
  BY <1>1, NextJobType DEF Inv, TypeOK, budget, history, HistoryTyped
<1>5. /\ step \in WorkerSteps \ {"idle"} /\ step # "writeStatus"
      /\ step = "enqueue" => worker[i].attempts < MaxAttempts
  BY DEF WorkerSteps, Retries
<1> QED BY <1>1, <1>2, <1>3, <1>4, <1>5, GotoInv DEF budget

LEMMA EnqueueRetryInv ==
  ASSUME Inv, NEW i \in Instances, EnqueueRetry(i)
  PROVE  Inv'
<1> DEFINE state == IF NextJob(i) \in resting THEN "delayed" ELSE "waiting"
<1>1. /\ UNCHANGED <<rows, active, delivery, resting, stalls, dispatcher, history, budget>>
      /\ ~Does(i, "idle") /\ Does(i, "enqueue") /\ Goto(i, "readStatus")
      /\ Add({NextJob(i)}, state)
  BY DEF EnqueueRetry, Does
<1>2. NextJob(i) \in Jobs /\ Allowed(NextJob(i))
  <2>1. worker[i].attempts < MaxAttempts /\ Exists(Target(i))
    BY <1>1 DEF Inv, Works
  <2>2. worker[i].attempts \in 0..MaxAttempts
    BY DEF Inv, TypeOK, Workers
  <2> QED BY <1>1, <2>1, <2>2, NextJobType, BoundsAssumption DEF Allowed
<1>3. TypeOK /\ Queued
  BY DEF Inv
<1>4. state \in {"waiting", "delayed"}
  OBVIOUS
<1>5. /\ job' \in [Jobs -> {"unknown", "delayed", "waiting", "active", "kept"}]
      /\ Queued'
      /\ \A j \in Jobs : job[j] = "active" => job'[j] = "active"
  BY <1>1, <1>2, <1>3, <1>4, AddType
<1>6. RowsKept /\ JobsKept
  BY <1>1, <1>3, <1>5, RowsUnchanged DEF TypeOK, JobsKept, rows
<1>7. errors' \in Nat /\ HistoryTyped' /\ resting' \subseteq Jobs
  BY <1>1 DEF Inv, TypeOK, budget, history, HistoryTyped
<1> QED BY <1>1, <1>5, <1>6, <1>7, GotoInv DEF budget, WorkerSteps

LEMMA ReadOutcomeInv ==
  ASSUME Inv, NEW i \in Instances, ReadOutcome(i)
  PROVE  Inv'
<1> DEFINE update == StatusFor(Target(i)[1])
           row == [worker[i] EXCEPT !.at = "writeStatus", !.write = update]
<1>1. /\ UNCHANGED <<rows, active, delivery, queue, dispatcher, history, budget>>
      /\ ~Does(i, "idle")
      /\ worker' = [worker EXCEPT ![i].at = "writeStatus", ![i].write = update]
  BY DEF ReadOutcome, Does
<1>2. update \in Updates
  BY <1>1, Pairs, StatusType DEF Inv, Works, Target
<1>3. worker' = [worker EXCEPT ![i] = row] /\ worker[i] \in Workers
  BY <1>1 DEF Inv, TypeOK
<1> HIDE DEF update
<1>4. /\ row \in Workers /\ row.at = "writeStatus" /\ row.write = update
      /\ row.job = worker[i].job /\ row.owns = worker[i].owns
  BY <1>2, <1>3 DEF Workers, WorkerSteps
<1> HIDE DEF row
<1>5. RowsKept
  BY <1>1, RowsUnchanged DEF rows
<1>6. /\ JobsKept /\ UNCHANGED job
      /\ errors' \in Nat /\ HistoryTyped' /\ resting' \subseteq Jobs
  BY <1>1, <1>5, JobsStay DEF Inv, TypeOK, budget, queue, history, HistoryTyped
<1> QED BY <1>1, <1>2, <1>3, <1>4, <1>5, <1>6, GoesOn DEF budget

LEMMA WriteOutcomeInv ==
  ASSUME Inv, NEW i \in Instances, WriteOutcome(i)
  PROVE  Inv'
<1>1. /\ UNCHANGED <<active, delivery, dispatcher, history, budget>>
      /\ ~Does(i, "idle") /\ Does(i, "writeStatus") /\ Finish(i)
      /\ WriteStatus(Target(i)[1], worker[i].write)
  BY DEF WriteOutcome, Does
<1>2. Target(i)[1] \in Events /\ worker[i].write \in Updates
  BY <1>1, Pairs DEF Inv, Works, Target
<1>3. RowsKept /\ errors' \in Nat
  BY <1>1, <1>2, RowWritten DEF Inv, TypeOK, budget
<1> QED BY <1>1, <1>3, FinishInv DEF budget

LEMMA WorkerThrowsInv ==
  ASSUME Inv, NEW i \in Instances, WorkerThrows(i)
  PROVE  Inv'
<1>1. /\ UNCHANGED <<rows, active, dispatcher, history, crashes, lostLocks, evictions>>
      /\ ~Does(i, "idle") /\ errors' = errors + 1
  BY DEF WorkerThrows, Does
<1>2. errors' \in Nat
  BY <1>1 DEF Inv, TypeOK
<1>3. CASE Does(i, "saveSuccess")
  <2>1. /\ Goto(i, "saveFailure") /\ UNCHANGED queue
        /\ SaveDelivery(i, "success") \/ UNCHANGED delivery
    BY <1>3 DEF WorkerThrows
  <2>2. RowsKept
    BY <1>1, <2>1, DeliverySaved, RowsUnchanged DEF rows
  <2>3. /\ JobsKept /\ UNCHANGED job
        /\ HistoryTyped' /\ resting' \subseteq Jobs
    BY <1>1, <2>1, <2>2, JobsStay DEF Inv, TypeOK, queue, history, HistoryTyped
  <2> QED BY <1>1, <1>2, <2>1, <2>2, <2>3, GotoInv DEF WorkerSteps
<1>4. CASE ~Does(i, "saveSuccess")
  <2>1. Finish(i) /\ UNCHANGED delivery
    BY <1>4 DEF WorkerThrows
  <2>2. RowsKept
    BY <1>1, <2>1, RowsUnchanged DEF rows
  <2> QED BY <1>1, <1>2, <2>1, <2>2, FinishInv
<1> QED BY <1>3, <1>4

-----------------------------------------------------------------------------
\* Processes that die, and locks that are lost.

LEMMA StalledJob ==
  ASSUME Inv, NEW i \in Instances, worker[i].owns, Stalled(i), RowsKept
  PROVE  /\ JobsKept /\ UNCHANGED resting
         /\ \A j \in Jobs : j # worker[i].job => job'[j] = job[j]
         /\ job'[worker[i].job] \in {"waiting", "kept"}
<1> DEFINE j == worker[i].job
           state == IF stalls[j] < 1 THEN "waiting" ELSE "kept"
<1>1. j \in Jobs /\ job[j] = "active"
  BY DEF Inv, Works
<1>2. stalls[j] \in 0..2 /\ stalls[j] <= 1
  BY <1>1 DEF Inv, TypeOK, Queued
<1>3. /\ stalls' = [stalls EXCEPT ![j] = @ + 1]
      /\ job' = [job EXCEPT ![j] = state] /\ UNCHANGED resting
  BY DEF Stalled
<1> HIDE DEF j
<1>4. /\ job' \in [Jobs -> {"unknown", "delayed", "waiting", "active", "kept"}]
      /\ stalls' \in [Jobs -> 0..2]
  BY <1>1, <1>2, <1>3 DEF Inv, TypeOK
<1>5. /\ job'[j] = state /\ stalls'[j] = stalls[j] + 1
      /\ \A h \in Jobs : h # j => job'[h] = job[h] /\ stalls'[h] = stalls[h]
  BY <1>1, <1>3 DEF Inv, TypeOK
<1>6. Queued'
  BY <1>1, <1>2, <1>5, Pairs DEF Inv, Queued, Allowed, RowsKept
<1> QED BY <1>3, <1>4, <1>5, <1>6 DEF JobsKept, j

LEMMA CrashInv ==
  ASSUME Inv, NEW i \in Instances, Crash(i)
  PROVE  Inv'
<1>1. /\ UNCHANGED <<rows, active, delivery, history, errors, lostLocks, evictions>>
      /\ crashes' = crashes + 1
      /\ dispatcher' = [dispatcher EXCEPT ![i] = NoBatch]
      /\ worker' = [worker EXCEPT ![i] = NoJob]
  BY DEF Crash
<1>2. NoJob \in Workers /\ NoJob.at = "idle" /\ NoJob.owns = FALSE
  BY BoundsAssumption DEF NoJob, Workers, WorkerSteps
<1>3. RowsKept
  BY <1>1, RowsUnchanged DEF rows
<1>4. /\ JobsKept /\ UNCHANGED resting
      /\ \A j \in Jobs : job[j] = "active" =>
           job'[j] = "active" \/ (worker[i].owns /\ worker[i].job = j)
  <2>1. CASE worker[i].owns
    BY <1>3, <2>1, StalledJob DEF Crash
  <2>2. CASE ~worker[i].owns
    BY <1>3, <2>2, JobsStay DEF Crash, queue
  <2> QED BY <2>1, <2>2
<1>5. /\ resting' \subseteq Jobs /\ HistoryTyped'
      /\ {errors, crashes, lostLocks}' \subseteq Nat
  BY <1>1, <1>4 DEF Inv, TypeOK, history, HistoryTyped
<1> QED BY <1>1, <1>2, <1>3, <1>4, <1>5, WorkerTo

LEMMA LoseLockInv ==
  ASSUME Inv, NEW i \in Instances, LoseLock(i)
  PROVE  Inv'
<1> DEFINE row == [worker[i] EXCEPT !.owns = FALSE]
<1>1. /\ UNCHANGED <<rows, active, delivery, dispatcher, history, errors, crashes, evictions>>
      /\ worker[i].owns /\ Stalled(i) /\ lostLocks' = lostLocks + 1
      /\ worker' = [worker EXCEPT ![i] = row] /\ worker[i] \in Workers
  BY DEF LoseLock, Inv, TypeOK
<1>2. /\ row \in Workers /\ row.at = worker[i].at /\ row.job = worker[i].job
      /\ row.owns = FALSE /\ row.attempts = worker[i].attempts
      /\ row.write = worker[i].write
  BY <1>1 DEF Workers
<1> HIDE DEF row
<1>3. /\ row.at # "idle" => row.job \in Jobs /\ Exists(row.job[1])
      /\ row.at = "enqueue" => row.attempts < MaxAttempts
      /\ row.at = "writeStatus" => row.write \in Updates
  BY <1>2 DEF Inv, Works, Does, Target
<1>4. RowsKept
  BY <1>1, RowsUnchanged DEF rows
<1>5. /\ JobsKept /\ UNCHANGED resting
      /\ \A j \in Jobs : job[j] = "active" =>
           job'[j] = "active" \/ (worker[i].owns /\ worker[i].job = j)
  BY <1>1, <1>4, StalledJob
<1>6. /\ resting' \subseteq Jobs /\ HistoryTyped'
      /\ {errors, crashes, lostLocks}' \subseteq Nat
  BY <1>1, <1>5 DEF Inv, TypeOK, history, HistoryTyped
<1> QED BY <1>1, <1>2, <1>3, <1>4, <1>5, <1>6, WorkerTo

-----------------------------------------------------------------------------
LEMMA DispatcherStepInv ==
  ASSUME Inv, NEW i \in Instances, DispatcherStep(i) \/ DispatcherThrows(i)
  PROVE  Inv'
BY PollInv, MarkProcessingInv, FindSubscriptionsInv, FindDeliveriesInv,
   CreateDeliveriesInv, EnqueueDeliveriesInv, ReadStatusInv, UpdateOutboxInv,
   MarkForRetryInv, DispatcherThrowsInv
DEF DispatcherStep

LEMMA WorkerStepInv ==
  ASSUME Inv, NEW i \in Instances, WorkerStep(i) \/ WorkerThrows(i)
  PROVE  Inv'
BY TakeJobInv, FindDeliveryInv, PostInv, SaveSuccessInv, SaveFailureInv,
   EnqueueRetryInv, ReadOutcomeInv, WriteOutcomeInv, WorkerThrowsInv
DEF WorkerStep

LEMMA StepInv == Inv /\ [Next]_vars => Inv'
<1> SUFFICES ASSUME Inv, [Next]_vars PROVE Inv'
  OBVIOUS
<1>1. ASSUME NEW e \in Events, CommitEvent(e) \/ Elapse(e) PROVE Inv'
  BY <1>1, CommitEventInv
<1>2. ASSUME NEW s \in Subs, RegisterWebhook(s) PROVE Inv'
  BY <1>2, RegisterWebhookInv
<1>3. ASSUME NEW j \in Jobs, BackoffOver(j) \/ Evict(j) PROVE Inv'
  BY <1>3, BackoffOverInv, EvictInv
<1>4. ASSUME NEW i \in Instances, DispatcherStep(i) \/ DispatcherThrows(i) PROVE Inv'
  BY <1>4, DispatcherStepInv
<1>5. ASSUME NEW i \in Instances, WorkerStep(i) \/ WorkerThrows(i) PROVE Inv'
  BY <1>5, WorkerStepInv
<1>6. ASSUME NEW i \in Instances, Crash(i) \/ LoseLock(i) PROVE Inv'
  BY <1>6, CrashInv, LoseLockInv
<1>7. ASSUME UNCHANGED vars PROVE Inv'
  <2>1. TypeOK'
    BY <1>7 DEF vars, Inv, TypeOK
  <2> QED BY <1>7, <2>1
      DEF vars, Inv, AttemptsLeft, Queued, OneOwner, Pending, Exists, Allowed,
          Dispatches, Works, At, Does, Current, Target
<1> QED BY <1>1, <1>2, <1>3, <1>4, <1>5, <1>6, <1>7 DEF Next

(***************************************************************************)
(* Inv always holds, and with it the typing of the tables, of the queue    *)
(* and of every process: among others that no job and no delivery ever     *)
(* has an attempt beyond queue.webhookMaxAttempts.                         *)
(***************************************************************************)
THEOREM Invariance == Spec => []Inv
BY InitInv, StepInv, PTL DEF Spec

(***************************************************************************)
(* Every table row, job, batch and worker has the shape that the code gives *)
(* it; the retry counts of the outbox stay natural numbers, without bound. *)
(***************************************************************************)
THEOREM Typing == Spec => []TypeOK
<1>1. Inv => TypeOK
  BY DEF Inv
<1> QED BY <1>1, Invariance, PTL

-----------------------------------------------------------------------------
\* How many POSTs: what a step adds to posts it takes from Unused or About.

Fresh(state) == state \in {"unknown", "delayed", "waiting"}
Before(step) == step \in {"find", "post"}

LEMMA Within ==
  ASSUME NEW S, IsFiniteSet(S), NEW x, NEW T \in SUBSET (S \cup {x})
  PROVE  IsFiniteSet(T) /\ Cardinality(T) <= Cardinality(S) + 1
<1>1. Cardinality(S) \in Nat
  BY FS_CardinalityType
<1>2. IsFiniteSet(S \cup {x}) /\ Cardinality(S \cup {x}) <= Cardinality(S) + 1
  BY <1>1, FS_AddElement
<1>3. IsFiniteSet(T) /\ Cardinality(T) <= Cardinality(S \cup {x})
  BY <1>2, FS_Subset
<1>4. Cardinality(T) \in Nat /\ Cardinality(S \cup {x}) \in Nat
  BY <1>2, <1>3, FS_CardinalityType
<1> QED BY <1>1, <1>2, <1>3, <1>4

LEMMA Finite ==
  ASSUME TypeOK, NEW d \in Deliveries
  PROVE  /\ IsFiniteSet(Unused(d)) /\ Cardinality(Unused(d)) \in Nat
         /\ IsFiniteSet(About(d)) /\ Cardinality(About(d)) \in Nat
         /\ posts[d] \in Nat /\ {crashes, lostLocks, evictions} \subseteq Nat
<1>1. IsFiniteSet(1..MaxAttempts)
  BY FS_Interval, BoundsAssumption
<1>2. IsFiniteSet(Instances)
  BY BoundsAssumption
<1>3. IsFiniteSet(Unused(d))
  BY <1>1, FS_Subset DEF Unused
<1>4. IsFiniteSet(About(d))
  BY <1>2, FS_Subset DEF About
<1> QED BY <1>3, <1>4, FS_CardinalityType DEF TypeOK

LEMMA InitSpent == Init => Spent
<1> SUFFICES ASSUME Init, NEW d \in Deliveries
             PROVE  posts[d] + Cardinality(Unused(d)) + Cardinality(About(d))
                      <= MaxAttempts + crashes + lostLocks + evictions
  BY DEF Spent
<1>1. Unused(d) = 1..MaxAttempts
  BY Pairs, BoundsAssumption DEF Init, Unused
<1>2. About(d) = {}
  BY DEF Init, About, NoJob
<1>3. Cardinality(Unused(d)) = MaxAttempts
  BY <1>1, FS_Interval, BoundsAssumption
<1>4. Cardinality(About(d)) = 0
  BY <1>2, FS_EmptySet
<1> QED BY <1>3, <1>4, BoundsAssumption DEF Init

\* No job becomes one still to be run, and no worker one about to POST.
LEMMA SpentKept ==
  ASSUME Inv, Inv', Spent, UNCHANGED <<posts, crashes, lostLocks, evictions>>,
         \A j \in Jobs : Fresh(job'[j]) => Fresh(job[j]),
         \A i \in Instances : Before(worker'[i].at) =>
           Before(worker[i].at) /\ worker'[i].job = worker[i].job
  PROVE  Spent'
<1> SUFFICES ASSUME NEW d \in Deliveries
             PROVE  posts[d] + Cardinality(Unused(d)') + Cardinality(About(d)')
                      <= MaxAttempts + crashes + lostLocks + evictions
  BY DEF Spent
<1>1. Unused(d)' \subseteq Unused(d)
  BY Pairs, BoundsAssumption DEF Unused, Fresh
<1>2. About(d)' \subseteq About(d)
  BY DEF About, Before
<1>3. /\ Cardinality(Unused(d)') <= Cardinality(Unused(d))
      /\ Cardinality(About(d)') <= Cardinality(About(d))
  BY <1>1, <1>2, Finite, FS_Subset DEF Inv
<1>4. Cardinality(Unused(d)') \in Nat /\ Cardinality(About(d)') \in Nat
  BY <1>1, <1>2, Finite, FS_Subset, FS_CardinalityType DEF Inv
<1>5. /\ posts[d] \in Nat /\ Cardinality(Unused(d)) \in Nat
      /\ Cardinality(About(d)) \in Nat
      /\ crashes \in Nat /\ lostLocks \in Nat /\ evictions \in Nat
  BY Finite DEF Inv
<1> QED BY <1>3, <1>4, <1>5, BoundsAssumption DEF Spent

LEMMA Sums ==
  ASSUME NEW m \in Nat, NEW p \in Nat, NEW u \in Nat, NEW v \in Nat,
         NEW a \in Nat, NEW b \in Nat, NEW x \in Nat, NEW y \in Nat, NEW z \in Nat,
         NEW k \in Nat, NEW l \in Nat, NEW n \in Nat,
         p + u + a <= m + x + y + z, v <= u + 1, b <= a, k + l + n = x + y + z + 1
  PROVE  p + v + b <= m + k + l + n
  OBVIOUS

\* One job may be run once more, and a crash, a lost lock or an eviction says so.
LEMMA SpentMore ==
  ASSUME Inv, Inv', Spent, UNCHANGED posts, NEW j \in Jobs,
         crashes' + lostLocks' + evictions' = crashes + lostLocks + evictions + 1,
         \A h \in Jobs \ {j} : Fresh(job'[h]) => Fresh(job[h]),
         \A i \in Instances : Before(worker'[i].at) =>
           Before(worker[i].at) /\ worker'[i].job = worker[i].job
  PROVE  Spent'
<1> SUFFICES ASSUME NEW d \in Deliveries
             PROVE  posts[d] + Cardinality(Unused(d)') + Cardinality(About(d)')
                      <= MaxAttempts + crashes' + lostLocks' + evictions'
  BY DEF Spent
<1>1. Unused(d)' \subseteq Unused(d) \cup {j[2]}
  <2>1. \A n \in 1..MaxAttempts : <<d, n>> = j => n = j[2]
    BY Pairs
  <2> QED BY <2>1, Pairs, BoundsAssumption DEF Unused, Fresh
<1>2. About(d)' \subseteq About(d)
  BY DEF About, Before
<1>3. Cardinality(Unused(d)') <= Cardinality(Unused(d)) + 1
  BY <1>1, Finite, Within DEF Inv
<1>4. Cardinality(About(d)') <= Cardinality(About(d))
  BY <1>2, Finite, FS_Subset DEF Inv
<1>5. Cardinality(Unused(d)') \in Nat /\ Cardinality(About(d)') \in Nat
  BY <1>1, <1>2, Finite, Within, FS_Subset, FS_CardinalityType DEF Inv
<1>6. /\ posts[d] \in Nat /\ Cardinality(Unused(d)) \in Nat
      /\ Cardinality(About(d)) \in Nat
      /\ crashes \in Nat /\ lostLocks \in Nat /\ evictions \in Nat
  BY Finite DEF Inv
<1>7. crashes' \in Nat /\ lostLocks' \in Nat /\ evictions' \in Nat
  BY DEF Inv, TypeOK
<1>8. posts[d] + Cardinality(Unused(d)) + Cardinality(About(d))
        <= MaxAttempts + crashes + lostLocks + evictions
  BY DEF Spent
<1>9. MaxAttempts \in Nat
  BY BoundsAssumption
<1> QED BY <1>3, <1>4, <1>5, <1>6, <1>7, <1>8, <1>9, Sums

LEMMA DispatcherSpent ==
  ASSUME Inv, Inv', Spent, NEW i \in Instances, DispatcherStep(i) \/ DispatcherThrows(i)
  PROVE  Spent'
<1>1. UNCHANGED <<worker, posts, crashes, lostLocks, evictions>>
  BY DEF DispatcherStep, Poll, MarkProcessing, FindSubscriptions, FindDeliveries,
         CreateDeliveries, EnqueueDeliveries, ReadStatus, UpdateOutbox, MarkForRetry,
         DispatcherThrows, history, budget
<1>2. UNCHANGED job \/ \E added : Add(added, "waiting")
  BY DEF DispatcherStep, Poll, MarkProcessing, FindSubscriptions, FindDeliveries,
         CreateDeliveries, EnqueueDeliveries, ReadStatus, UpdateOutbox, MarkForRetry,
         DispatcherThrows, queue
<1>3. \A j \in Jobs : Fresh(job'[j]) => Fresh(job[j])
  BY <1>2 DEF Add, Fresh
<1> QED BY <1>1, <1>3, SpentKept

LEMMA EnvironmentSpent ==
  ASSUME Inv, Inv', Spent,
         \/ \E e \in Events : CommitEvent(e) \/ Elapse(e)
         \/ \E s \in Subs : RegisterWebhook(s)
         \/ \E j \in Jobs : BackoffOver(j)
         \/ UNCHANGED vars
  PROVE  Spent'
<1>1. UNCHANGED <<worker, posts, crashes, lostLocks, evictions>>
  BY DEF CommitEvent, Elapse, RegisterWebhook, BackoffOver, vars, history, budget
<1>2. \A j \in Jobs : Fresh(job'[j]) => Fresh(job[j])
  <2>1. CASE UNCHANGED job
    BY <2>1
  <2>2. CASE \E j \in Jobs : BackoffOver(j)
    BY <2>2 DEF BackoffOver, Fresh, Inv, TypeOK
  <2> QED BY <2>1, <2>2 DEF CommitEvent, Elapse, RegisterWebhook, vars, queue
<1> QED BY <1>1, <1>2, SpentKept

LEMMA TakeJobSpent ==
  ASSUME Inv, Inv', Spent, NEW i \in Instances, NEW j \in Jobs, TakeJob(i, j)
  PROVE  Spent'
<1>1. /\ UNCHANGED <<posts, crashes, lostLocks, evictions>>
      /\ job[j] = "waiting" /\ job'[j] = "active"
      /\ \A h \in Jobs : h # j => job'[h] = job[h]
      /\ \A k \in Instances : k # i => worker'[k] = worker[k]
      /\ worker'[i].job = j
  BY DEF TakeJob, Inv, TypeOK, NoJob, history, budget
<1> SUFFICES ASSUME NEW d \in Deliveries
             PROVE  posts[d] + Cardinality(Unused(d)') + Cardinality(About(d)')
                      <= MaxAttempts + crashes + lostLocks + evictions
  BY <1>1 DEF Spent
<1>2. /\ posts[d] \in Nat /\ Cardinality(Unused(d)) \in Nat
      /\ Cardinality(About(d)) \in Nat
      /\ crashes \in Nat /\ lostLocks \in Nat /\ evictions \in Nat
      /\ IsFiniteSet(Unused(d)) /\ IsFiniteSet(About(d)) /\ MaxAttempts \in Nat
  BY Finite, BoundsAssumption DEF Inv
<1>3. posts[d] + Cardinality(Unused(d)) + Cardinality(About(d))
        <= MaxAttempts + crashes + lostLocks + evictions
  BY DEF Spent
<1>4. CASE d = j[1]
  <2>1. j[2] \in Unused(d)
    BY <1>1, <1>4, Pairs, BoundsAssumption DEF Inv, Queued, Allowed, Unused
  <2>2. Unused(d)' \subseteq Unused(d) \ {j[2]}
    BY <1>1, <1>4, Pairs, BoundsAssumption DEF Unused
  <2>3. About(d)' \subseteq About(d) \cup {i}
    BY <1>1 DEF About
  <2>4. /\ IsFiniteSet(Unused(d) \ {j[2]})
        /\ Cardinality(Unused(d) \ {j[2]}) = Cardinality(Unused(d)) - 1
    BY <1>2, <2>1, FS_RemoveElement
  <2>5. /\ Cardinality(Unused(d)') <= Cardinality(Unused(d)) - 1
        /\ Cardinality(Unused(d)') \in Nat
    BY <2>2, <2>4, FS_Subset, FS_CardinalityType
  <2>6. /\ Cardinality(About(d)') <= Cardinality(About(d)) + 1
        /\ Cardinality(About(d)') \in Nat
    BY <1>2, <2>3, Within, FS_CardinalityType
  <2> QED BY <1>2, <1>3, <2>5, <2>6
<1>5. CASE d # j[1]
  <2>1. Unused(d)' \subseteq Unused(d)
    BY <1>1, <1>5, Pairs, BoundsAssumption DEF Unused
  <2>2. About(d)' \subseteq About(d)
    BY <1>1, <1>5 DEF About
  <2>3. /\ Cardinality(Unused(d)') <= Cardinality(Unused(d))
        /\ Cardinality(Unused(d)') \in Nat
    BY <1>2, <2>1, FS_Subset, FS_CardinalityType
  <2>4. /\ Cardinality(About(d)') <= Cardinality(About(d))
        /\ Cardinality(About(d)') \in Nat
    BY <1>2, <2>2, FS_Subset, FS_CardinalityType
  <2> QED BY <1>2, <1>3, <2>3, <2>4
<1> QED BY <1>4, <1>5

LEMMA PostSpent ==
  ASSUME Inv, Inv', Spent, NEW i \in Instances, NEW ok \in BOOLEAN, Post(i, ok)
  PROVE  Spent'
<1>1. /\ UNCHANGED <<job, crashes, lostLocks, evictions>>
      /\ worker[i].at = "post" /\ worker'[i].at \in {"saveSuccess", "saveFailure"}
      /\ \A k \in Instances : k # i => worker'[k] = worker[k]
      /\ \A d \in Deliveries :
           posts'[d] = IF d = worker[i].job[1] THEN posts[d] + 1 ELSE posts[d]
  BY DEF Post, Goto, Does, Target, Inv, TypeOK, queue, history, budget
<1> SUFFICES ASSUME NEW d \in Deliveries
             PROVE  posts'[d] + Cardinality(Unused(d)') + Cardinality(About(d)')
                      <= MaxAttempts + crashes + lostLocks + evictions
  BY <1>1 DEF Spent
<1>2. /\ posts[d] \in Nat /\ Cardinality(Unused(d)) \in Nat
      /\ Cardinality(About(d)) \in Nat
      /\ crashes \in Nat /\ lostLocks \in Nat /\ evictions \in Nat
      /\ IsFiniteSet(Unused(d)) /\ IsFiniteSet(About(d)) /\ MaxAttempts \in Nat
  BY Finite, BoundsAssumption DEF Inv
<1>3. posts[d] + Cardinality(Unused(d)) + Cardinality(About(d))
        <= MaxAttempts + crashes + lostLocks + evictions
  BY DEF Spent
<1>4. Unused(d)' = Unused(d)
  BY <1>1 DEF Unused
<1>5. About(d)' \subseteq About(d) \ {i}
  BY <1>1 DEF About
<1>6. /\ IsFiniteSet(About(d) \ {i})
      /\ Cardinality(About(d) \ {i}) =
           IF i \in About(d) THEN Cardinality(About(d)) - 1 ELSE Cardinality(About(d))
  BY <1>2, FS_RemoveElement
<1>7. /\ Cardinality(About(d)') <= Cardinality(About(d) \ {i})
      /\ Cardinality(About(d)') \in Nat
  BY <1>5, <1>6, FS_Subset, FS_CardinalityType
<1>8. i \in About(d) <=> d = worker[i].job[1]
  BY <1>1 DEF About
<1> QED BY <1>1, <1>2, <1>3, <1>4, <1>6, <1>7, <1>8

\* Every other step of a worker leaves a job that it had, or has added a job
\* that was still to be run.
LEMMA WorkerSpent ==
  ASSUME Inv, Inv', Spent, NEW i \in Instances,
         \/ FindDelivery(i) \/ SaveSuccess(i) \/ SaveFailure(i) \/ EnqueueRetry(i)
         \/ ReadOutcome(i) \/ WriteOutcome(i) \/ WorkerThrows(i)
  PROVE  Spent'
<1>1. UNCHANGED <<posts, crashes, lostLocks, evictions>>
  BY DEF FindDelivery, SaveSuccess, SaveFailure, EnqueueRetry, ReadOutcome,
         WriteOutcome, WorkerThrows, history, budget
<1>2. \/ UNCHANGED job
      \/ \E j, state : Add({j}, state) /\ state \in {"delayed", "waiting"}
      \/ Finish(i)
  BY DEF FindDelivery, SaveSuccess, SaveFailure, EnqueueRetry, ReadOutcome,
         WriteOutcome, WorkerThrows, queue
<1>3. \A j \in Jobs : Fresh(job'[j]) => Fresh(job[j])
  <2>1. CASE Finish(i)
    BY <2>1 DEF Finish, Fresh, Inv, TypeOK
  <2> QED BY <1>2, <2>1 DEF Add, Fresh
<1>4. \A k \in Instances : k # i => worker'[k] = worker[k]
  BY DEF FindDelivery, SaveSuccess, SaveFailure, EnqueueRetry, ReadOutcome,
         WriteOutcome, WorkerThrows, Finish, Goto, Inv, TypeOK
<1>5. Before(worker'[i].at) => Before(worker[i].at) /\ worker'[i].job = worker[i].job
  <2>1. CASE Finish(i)
    <3>1. worker'[i].at = "idle"
      BY <2>1 DEF Finish, NoJob, Inv, TypeOK
    <3> QED BY <3>1 DEF Before
  <2>2. CASE FindDelivery(i) /\ ~Finish(i)
    <3>1. PICK n : worker' = [worker EXCEPT ![i].at = "post", ![i].attempts = n]
      BY <2>2 DEF FindDelivery
    <3>2. worker'[i].job = worker[i].job
      BY <3>1 DEF Inv, TypeOK
    <3> QED BY <2>2, <3>2 DEF FindDelivery, Does, Before
  <2>3. ASSUME NEW step \in {"readStatus", "enqueue", "saveFailure"}, Goto(i, step)
        PROVE  ~Before(worker'[i].at)
    BY <2>3 DEF Goto, Before, Inv, TypeOK
  <2>4. CASE SaveSuccess(i) \/ SaveFailure(i) \/ EnqueueRetry(i)
    BY <2>3, <2>4 DEF SaveSuccess, SaveFailure, EnqueueRetry
  <2>5. CASE ReadOutcome(i)
    <3>1. worker'[i].at = "writeStatus"
      BY <2>5 DEF ReadOutcome, Inv, TypeOK
    <3> QED BY <3>1 DEF Before
  <2>6. CASE WorkerThrows(i) /\ ~Finish(i)
    BY <2>3, <2>6 DEF WorkerThrows
  <2> QED BY <2>1, <2>2, <2>4, <2>5, <2>6 DEF WriteOutcome
<1> QED BY <1>1, <1>3, <1>4, <1>5, SpentKept

LEMMA FaultSpent ==
  ASSUME Inv, Inv', Spent, NEW i \in Instances, Crash(i) \/ LoseLock(i)
  PROVE  Spent'
<1>1. /\ UNCHANGED <<delivery, posts, evictions>>
      /\ \A k \in Instances : Before(worker'[k].at) =>
           Before(worker[k].at) /\ worker'[k].job = worker[k].job
      /\ \/ crashes' = crashes + 1 /\ lostLocks' = lostLocks
         \/ crashes' = crashes /\ lostLocks' = lostLocks + 1
  <2>1. CASE Crash(i)
    <3>1. \A k \in Instances :
            worker'[k] = worker[k] \/ worker'[k].at = "idle"
      BY <2>1 DEF Crash, NoJob, Inv, TypeOK
    <3> QED BY <2>1, <3>1 DEF Crash, Before, history
  <2>2. CASE LoseLock(i)
    <3>1. \A k \in Instances :
            worker'[k].at = worker[k].at /\ worker'[k].job = worker[k].job
      BY <2>2 DEF LoseLock, Inv, TypeOK
    <3> QED BY <2>2, <3>1 DEF LoseLock, history
  <2> QED BY <2>1, <2>2
<1>2. crashes' + lostLocks' + evictions' = crashes + lostLocks + evictions + 1
  <2>1. crashes \in Nat /\ lostLocks \in Nat /\ evictions \in Nat
    BY DEF Inv, TypeOK
  <2> QED BY <1>1, <2>1
<1>3. CASE worker[i].owns
  <2>1. RowsKept /\ Stalled(i) /\ worker[i].job \in Jobs
    BY <1>3, RowsUnchanged DEF Crash, LoseLock, Inv, Works, rows
  <2>2. \A h \in Jobs : h # worker[i].job => job'[h] = job[h]
    BY <1>3, <2>1, StalledJob
  <2> QED BY <1>1, <1>2, <2>1, <2>2, SpentMore
<1>4. CASE ~worker[i].owns
  <2>1. UNCHANGED job /\ crashes' = crashes + 1 /\ lostLocks' = lostLocks
    BY <1>4 DEF Crash, LoseLock, queue
  <2>2. CASE Jobs = {}
    <3>1. \A d \in Deliveries : <<d, 1>> \in Jobs
      BY Pairs, BoundsAssumption
    <3> QED BY <2>2, <3>1 DEF Spent
  <2>3. CASE Jobs # {}
    <3>1. PICK j \in Jobs : TRUE
      BY <2>3
    <3> QED BY <1>1, <1>2, <2>1, <3>1, SpentMore
  <2> QED BY <2>2, <2>3
<1> QED BY <1>3, <1>4

LEMMA EvictSpent ==
  ASSUME Inv, Inv', Spent, NEW j \in Jobs, Evict(j)
  PROVE  Spent'
<1>1. /\ UNCHANGED <<worker, posts, crashes, lostLocks>> /\ evictions' = evictions + 1
      /\ \A h \in Jobs \ {j} : job'[h] = job[h]
  BY DEF Evict, Inv, TypeOK, history
<1>2. crashes' + lostLocks' + evictions' = crashes + lostLocks + evictions + 1
  BY <1>1 DEF Inv, TypeOK
<1> QED BY <1>1, <1>2, SpentMore

LEMMA StepSpent == Inv /\ Inv' /\ Spent /\ [Next]_vars => Spent'
<1> SUFFICES ASSUME Inv, Inv', Spent, [Next]_vars PROVE Spent'
  OBVIOUS
<1>1. ASSUME \/ \E e \in Events : CommitEvent(e) \/ Elapse(e)
             \/ \E s \in Subs : RegisterWebhook(s)
             \/ \E j \in Jobs : BackoffOver(j)
             \/ UNCHANGED vars
      PROVE  Spent'
  BY <1>1, EnvironmentSpent
<1>2. ASSUME NEW j \in Jobs, Evict(j) PROVE Spent'
  BY <1>2, EvictSpent
<1>3. ASSUME NEW i \in Instances, DispatcherStep(i) \/ DispatcherThrows(i) PROVE Spent'
  BY <1>3, DispatcherSpent
<1>4. ASSUME NEW i \in Instances, WorkerStep(i) \/ WorkerThrows(i) PROVE Spent'
  BY <1>4, TakeJobSpent, PostSpent, WorkerSpent DEF WorkerStep
<1>5. ASSUME NEW i \in Instances, Crash(i) \/ LoseLock(i) PROVE Spent'
  BY <1>5, FaultSpent
<1> QED BY <1>1, <1>2, <1>3, <1>4, <1>5 DEF Next

LEMMA SpentBounds == Inv /\ Spent => PostsBounded
<1> SUFFICES ASSUME Inv, Spent, NEW d \in Deliveries
             PROVE  posts[d] <= MaxAttempts + crashes + lostLocks + evictions
  BY DEF PostsBounded
<1>1. /\ posts[d] \in Nat /\ Cardinality(Unused(d)) \in Nat
      /\ Cardinality(About(d)) \in Nat
      /\ crashes \in Nat /\ lostLocks \in Nat /\ evictions \in Nat
      /\ MaxAttempts \in Nat
  BY Finite, BoundsAssumption DEF Inv
<1>2. posts[d] + Cardinality(Unused(d)) + Cardinality(About(d))
        <= MaxAttempts + crashes + lostLocks + evictions
  BY DEF Spent
<1> QED BY <1>1, <1>2

(***************************************************************************)
(* PostsBounded: an endpoint gets no more POSTs for a delivery than there  *)
(* are attempts, crashes, lost locks and forgotten jobs, with any number   *)
(* of instances and whatever errors interrupt them.                        *)
(***************************************************************************)
THEOREM RetriesAreBounded == Spec => []PostsBounded
<1>1. Init => Spent
  BY InitSpent
<1>2. Inv /\ Inv' /\ Spent /\ [Next]_vars => Spent'
  BY StepSpent
<1>3. Inv /\ Spent => PostsBounded
  BY SpentBounds
<1> QED BY <1>1, <1>2, <1>3, Invariance, PTL DEF Spec

-----------------------------------------------------------------------------
\* Who sends has found the delivery pending, with one instance.

\* A step that leaves the worker and the rows that are there alone.
RowsAdded ==
    \A d \in Deliveries :
      \/ delivery'[d] = delivery[d]
      \/ delivery[d] = None /\ delivery'[d] = [status |-> "pending", attempts |-> 0]

LEMMA OthersLeaveRows ==
  ASSUME \/ \E e \in Events : CommitEvent(e) \/ Elapse(e)
         \/ \E s \in Subs : RegisterWebhook(s)
         \/ \E j \in Jobs : BackoffOver(j) \/ Evict(j)
         \/ \E i \in Instances : DispatcherStep(i) \/ DispatcherThrows(i)
         \/ UNCHANGED vars
  PROVE  RowsAdded /\ UNCHANGED <<worker, posts, accepted>>
<1>1. UNCHANGED <<worker, posts, accepted>>
  BY DEF CommitEvent, Elapse, RegisterWebhook, BackoffOver, Evict, DispatcherStep, Poll,
         MarkProcessing, FindSubscriptions, FindDeliveries, CreateDeliveries,
         EnqueueDeliveries, ReadStatus, UpdateOutbox, MarkForRetry, DispatcherThrows,
         vars, history
<1>2. UNCHANGED delivery \/ \E i \in Instances : CreateDeliveries(i)
  BY DEF CommitEvent, Elapse, RegisterWebhook, BackoffOver, Evict, DispatcherStep, Poll,
         MarkProcessing, FindSubscriptions, FindDeliveries,
         EnqueueDeliveries, ReadStatus, UpdateOutbox, MarkForRetry, DispatcherThrows, vars
<1>3. CASE UNCHANGED delivery
  BY <1>1, <1>3 DEF RowsAdded
<1>4. ASSUME NEW i \in Instances, CreateDeliveries(i) PROVE RowsAdded
  <2> DEFINE missing == dispatcher[i].missing
             new == [status |-> "pending", attempts |-> 0]
  <2>1. CASE \A d \in missing : delivery[d] = None
    <3>1. delivery' = [d \in Deliveries |-> IF d \in missing THEN new ELSE delivery[d]]
      BY <1>4, <2>1 DEF CreateDeliveries
    <3> HIDE DEF missing, new
    <3>2. \A d \in Deliveries :
            delivery'[d] = delivery[d] \/ (delivery[d] = None /\ delivery'[d] = new)
      BY <2>1, <3>1
    <3> QED BY <3>2 DEF RowsAdded, new
  <2>2. CASE ~ \A d \in missing : delivery[d] = None
    <3>1. UNCHANGED delivery
      BY <1>4, <2>2 DEF CreateDeliveries
    <3> QED BY <3>1 DEF RowsAdded
  <2> QED BY <2>1, <2>2
<1> QED BY <1>1, <1>2, <1>3, <1>4

LEMMA WorkerActs ==
  ASSUME Inv, [Next]_vars, NEW i \in Instances
  PROVE  \/ UNCHANGED worker[i]
         \/ WorkerStep(i) \/ WorkerThrows(i) \/ Crash(i) \/ LoseLock(i)
<1>1. ASSUME NEW k \in Instances, k # i,
             WorkerStep(k) \/ WorkerThrows(k) \/ Crash(k) \/ LoseLock(k)
      PROVE  UNCHANGED worker[i]
  BY <1>1 DEF WorkerStep, TakeJob, Post, FindDelivery, SaveSuccess, SaveFailure,
         EnqueueRetry, ReadOutcome, WriteOutcome, WorkerThrows, Crash, LoseLock,
         Finish, Goto, Inv, TypeOK
<1>2. \/ UNCHANGED worker
      \/ \E k \in Instances : WorkerStep(k) \/ WorkerThrows(k) \/ Crash(k) \/ LoseLock(k)
  BY DEF Next, CommitEvent, Elapse, RegisterWebhook, BackoffOver, Evict, DispatcherStep,
         Poll, MarkProcessing, FindSubscriptions, FindDeliveries, CreateDeliveries,
         EnqueueDeliveries, ReadStatus, UpdateOutbox, MarkForRetry, DispatcherThrows, vars
<1> QED BY <1>1, <1>2

\* Answers that came stay known.
LEMMA AcceptedGrows ==
  ASSUME [Next]_vars
  PROVE  accepted \subseteq accepted'
<1>1. ASSUME \/ \E e \in Events : CommitEvent(e) \/ Elapse(e)
             \/ \E s \in Subs : RegisterWebhook(s)
             \/ \E j \in Jobs : BackoffOver(j) \/ Evict(j)
             \/ \E i \in Instances : DispatcherStep(i) \/ DispatcherThrows(i)
             \/ UNCHANGED vars
      PROVE  UNCHANGED accepted
  BY <1>1, OthersLeaveRows
<1>2. ASSUME NEW i \in Instances, NEW ok \in BOOLEAN, Post(i, ok)
      PROVE  accepted \subseteq accepted'
  BY <1>2 DEF Post
<1>3. ASSUME NEW i \in Instances,
             \/ \E j \in Jobs : TakeJob(i, j)
             \/ FindDelivery(i) \/ SaveSuccess(i) \/ SaveFailure(i) \/ EnqueueRetry(i)
             \/ ReadOutcome(i) \/ WriteOutcome(i)
             \/ WorkerThrows(i) \/ Crash(i) \/ LoseLock(i)
      PROVE  UNCHANGED accepted
  BY <1>3 DEF TakeJob, FindDelivery, SaveSuccess, SaveFailure, EnqueueRetry, ReadOutcome,
              WriteOutcome, WorkerThrows, Crash, LoseLock, history
<1> QED BY <1>1, <1>2, <1>3 DEF Next, WorkerStep

\* The last step of a worker that is sending.
LEMMA SendingFrom ==
  ASSUME Inv, NEW i \in Instances, WorkerStep(i) \/ WorkerThrows(i), Sending(i)'
  PROVE  /\ worker'[i].job = worker[i].job
         /\ \/ /\ Does(i, "find") /\ delivery[Target(i)].status = "pending"
               /\ worker'[i].at = "post" /\ UNCHANGED delivery
               /\ worker'[i].attempts = delivery[Target(i)].attempts + 1
            \/ /\ \E ok \in BOOLEAN : Post(i, ok)
               /\ worker'[i].at \in {"saveSuccess", "saveFailure"}
               /\ worker'[i].attempts = worker[i].attempts
               /\ worker'[i].at = "saveSuccess" => Target(i) \in accepted'
            \/ /\ Does(i, "saveSuccess") /\ worker'[i].at = "saveFailure"
               /\ worker'[i].attempts = worker[i].attempts
               /\ SaveDelivery(i, "success") \/ UNCHANGED delivery
<1>1. CASE Finish(i) \/ \E j \in Jobs : TakeJob(i, j)
  <2>1. Finish(i) => worker'[i].at = "idle"
    BY DEF Finish, NoJob, Inv, TypeOK
  <2>2. ASSUME NEW j \in Jobs, TakeJob(i, j) PROVE worker'[i].at = "find"
    BY <2>2 DEF TakeJob, NoJob, Inv, TypeOK
  <2> QED BY <1>1, <2>1, <2>2 DEF Sending
<1>2. CASE FindDelivery(i) /\ ~Finish(i)
  <2> DEFINE n == delivery[Target(i)].attempts + 1
  <2>1. worker' = [worker EXCEPT ![i].at = "post", ![i].attempts = n]
    BY <1>2 DEF FindDelivery
  <2> HIDE DEF n
  <2>2. worker'[i] = [worker[i] EXCEPT !.at = "post", !.attempts = n]
    BY <2>1 DEF Inv, TypeOK
  <2>3. worker[i] \in Workers
    BY DEF Inv, TypeOK
  <2>4. worker'[i].job = worker[i].job /\ worker'[i].at = "post" /\ worker'[i].attempts = n
    BY <2>2, <2>3 DEF Workers
  <2> QED BY <1>2, <2>4 DEF FindDelivery, n
<1>3. ASSUME NEW step, Goto(i, step)
      PROVE  /\ worker'[i].at = step /\ worker'[i].job = worker[i].job
             /\ worker'[i].attempts = worker[i].attempts
  BY <1>3 DEF Goto, Inv, TypeOK
<1>4. CASE SaveSuccess(i) \/ SaveFailure(i) \/ EnqueueRetry(i)
  <2>1. worker'[i].at \in {"enqueue", "readStatus"}
    BY <1>3, <1>4 DEF SaveSuccess, SaveFailure, EnqueueRetry
  <2> QED BY <2>1 DEF Sending
<1>5. CASE ReadOutcome(i)
  <2>1. worker'[i].at = "writeStatus"
    BY <1>5 DEF ReadOutcome, Inv, TypeOK
  <2> QED BY <2>1 DEF Sending
<1>6. ASSUME NEW ok \in BOOLEAN, Post(i, ok)
      PROVE  /\ worker'[i].job = worker[i].job
             /\ worker'[i].at \in {"saveSuccess", "saveFailure"}
             /\ worker'[i].attempts = worker[i].attempts
             /\ worker'[i].at = "saveSuccess" => Target(i) \in accepted'
  <2>1. /\ Goto(i, IF ok THEN "saveSuccess" ELSE "saveFailure")
        /\ ok => Target(i) \in accepted'
    BY <1>6 DEF Post
  <2> QED BY <1>3, <2>1
<1>7. CASE WorkerThrows(i) /\ ~Finish(i)
  <2>1. /\ Does(i, "saveSuccess") /\ Goto(i, "saveFailure")
        /\ SaveDelivery(i, "success") \/ UNCHANGED delivery
    BY <1>7 DEF WorkerThrows
  <2> QED BY <1>3, <2>1
<1> QED BY <1>1, <1>2, <1>4, <1>5, <1>6, <1>7 DEF WorkerStep, WriteOutcome

LEMMA HeardStep ==
  ASSUME Inv, Heard, [Next]_vars
  PROVE  Heard'
<1> SUFFICES ASSUME NEW i \in Instances, Does(i, "saveSuccess")'
             PROVE  Target(i)' \in accepted'
  BY DEF Heard
<1>1. accepted \subseteq accepted'
  BY AcceptedGrows
<1>2. ASSUME worker'[i].at = worker[i].at, worker'[i].job = worker[i].job
      PROVE  Target(i)' \in accepted'
  BY <1>1, <1>2 DEF Heard, Does, Target
<1>3. ASSUME WorkerStep(i) \/ WorkerThrows(i) PROVE Target(i)' \in accepted'
  <2>1. worker'[i].at = "saveSuccess" /\ Sending(i)'
    BY DEF Does, Sending
  <2>2. worker'[i].job = worker[i].job /\ Target(i) \in accepted'
    BY <1>3, <2>1, SendingFrom
  <2> QED BY <2>2 DEF Target
<1>4. ASSUME Crash(i) PROVE FALSE
  <2>1. worker'[i].at = "idle"
    BY <1>4 DEF Crash, NoJob, Inv, TypeOK
  <2> QED BY <2>1 DEF Does
<1>5. ASSUME LoseLock(i)
      PROVE  worker'[i].at = worker[i].at /\ worker'[i].job = worker[i].job
  BY <1>5 DEF LoseLock, Inv, TypeOK
<1> QED BY <1>2, <1>3, <1>4, <1>5, WorkerActs

\* Any run: a worker that is to record a success has had a 2xx.
LEMMA HeardAlways == Spec => []Heard
<1>1. Init => Heard
  BY DEF Init, Heard, Does, NoJob
<1>2. Inv /\ Heard /\ [Next]_vars => Heard'
  BY HeardStep
<1> QED BY <1>1, <1>2, Invariance, PTL DEF Spec

LEMMA SendsPendingKept ==
  ASSUME Inv, SendsPending, RowsAdded, UNCHANGED accepted, NEW i \in Instances,
         Sending(i), worker'[i] = worker[i]
  PROVE  Pending(Target(i))' \/ Misread(i, Target(i))'
<1>1. Target(i) \in Deliveries /\ Exists(Target(i))
  BY Pairs DEF Inv, Works, Target, Sending, Does
<1>2. delivery'[Target(i)] = delivery[Target(i)] /\ Target(i)' = Target(i)
  BY <1>1 DEF RowsAdded, Exists, Target
<1> QED BY <1>2 DEF SendsPending, Pending, Exists, Misread, Does

LEMMA OneInstanceStep ==
  ASSUME OneInstance, Inv, Heard, SendsPending, [Next]_vars
  PROVE  SendsPending'
<1> SUFFICES ASSUME NEW i \in Instances, Sending(i)'
             PROVE  Pending(Target(i))' \/ Misread(i, Target(i))'
  BY DEF SendsPending
<1>1. ASSUME \/ \E e \in Events : CommitEvent(e) \/ Elapse(e)
             \/ \E s \in Subs : RegisterWebhook(s)
             \/ \E j \in Jobs : BackoffOver(j) \/ Evict(j)
             \/ \E k \in Instances : DispatcherStep(k) \/ DispatcherThrows(k)
             \/ UNCHANGED vars
      PROVE  Pending(Target(i))' \/ Misread(i, Target(i))'
  <2>1. RowsAdded /\ worker'[i] = worker[i] /\ UNCHANGED accepted
    BY <1>1, OthersLeaveRows
  <2>2. Sending(i)
    BY <2>1 DEF Sending
  <2> QED BY <2>1, <2>2, SendsPendingKept
<1>2. ASSUME WorkerStep(i) \/ WorkerThrows(i)
      PROVE  Pending(Target(i))' \/ Misread(i, Target(i))'
  <2>1. /\ worker'[i].job = worker[i].job
        /\ \/ /\ Does(i, "find") /\ delivery[Target(i)].status = "pending"
              /\ UNCHANGED delivery
           \/ \E ok \in BOOLEAN : Post(i, ok)
           \/ /\ Does(i, "saveSuccess") /\ worker'[i].at = "saveFailure"
              /\ worker'[i].attempts = worker[i].attempts
              /\ SaveDelivery(i, "success") \/ UNCHANGED delivery
    BY <1>2, SendingFrom
  <2>2. Target(i)' = Target(i)
    BY <2>1 DEF Target
  <2>3. Pending(Target(i))
    BY <2>1 DEF SendsPending, Pending, Inv, Works, Sending, Does, Post, Misread
  <2>4. CASE UNCHANGED delivery
    BY <2>2, <2>3, <2>4 DEF Pending, Exists
  <2>5. CASE \E ok \in BOOLEAN : Post(i, ok)
    BY <2>4, <2>5 DEF Post
  <2>6. CASE /\ Does(i, "saveSuccess") /\ worker'[i].at = "saveFailure"
             /\ worker'[i].attempts = worker[i].attempts
             /\ SaveDelivery(i, "success")
    <3>1. Target(i) \in Deliveries /\ Target(i) \in accepted
      BY <2>6, Pairs DEF Inv, Works, Does, Target, Heard
    <3>2. delivery'[Target(i)] = [status |-> "success", attempts |-> worker[i].attempts]
      BY <2>6, <3>1 DEF SaveDelivery, Inv, TypeOK
    <3>3. Target(i) \in accepted'
      BY <3>1, AcceptedGrows
    <3> QED BY <2>2, <2>6, <3>2, <3>3 DEF Misread, Does
  <2> QED BY <2>1, <2>4, <2>5, <2>6
<1>3. ASSUME Crash(i) PROVE FALSE
  <2>1. worker'[i].at = "idle"
    BY <1>3 DEF Crash, NoJob, Inv, TypeOK
  <2> QED BY <2>1 DEF Sending
<1>4. ASSUME LoseLock(i) PROVE Pending(Target(i))' \/ Misread(i, Target(i))'
  <2>1. /\ worker'[i].job = worker[i].job /\ worker'[i].at = worker[i].at
        /\ worker'[i].attempts = worker[i].attempts
        /\ UNCHANGED <<delivery, accepted>>
    BY <1>4 DEF LoseLock, Inv, TypeOK, history
  <2> QED BY <2>1 DEF SendsPending, Sending, Pending, Exists, Target, Misread, Does
<1> QED BY <1>1, <1>2, <1>3, <1>4 DEF Next, OneInstance

-----------------------------------------------------------------------------
\* With several instances, the number of the job says so, if nothing dies.

LEMMA InitNumbered == Init => Numbered
<1> SUFFICES ASSUME Init PROVE Numbered
  OBVIOUS
<1>1. \A j \in Jobs : job[j] = "unknown" /\ Open(j)
  BY Pairs DEF Init, Open, Exists
<1>2. \A i \in Instances : dispatcher[i].todo = {} /\ worker[i].at = "idle"
  BY DEF Init, NoBatch, NoJob
<1> QED BY <1>1, <1>2 DEF Numbered, QueueNumbered, WorkNumbered, Does

LEMMA AddedKeep ==
  ASSUME Inv, RowsAdded, NEW j \in Jobs
  PROVE  (Reached(j) => Reached(j)') /\ (Open(j) => Open(j)')
<1>1. j[1] \in Deliveries /\ j[2] \in 1..MaxAttempts + 1 /\ MaxAttempts \in Nat
  BY Pairs, BoundsAssumption
<1>2. CASE delivery'[j[1]] = delivery[j[1]]
  BY <1>2 DEF Reached, Open, Exists, Pending
<1>3. CASE /\ delivery[j[1]] = None
           /\ delivery'[j[1]] = [status |-> "pending", attempts |-> 0]
  BY <1>1, <1>3 DEF Reached, Open, Exists
<1> QED BY <1>1, <1>2, <1>3 DEF RowsAdded

\* A worker that is left alone stays numbered.
LEMMA WorkerKept ==
  ASSUME Inv, NEW i \in Instances, WorkNumbered(i), worker'[i] = worker[i],
         \A j \in Jobs : Reached(j) => Reached(j)',
         \A j \in Jobs : Does(i, "find") \/ Sending(i) =>
           (j = worker[i].job /\ Open(j) => Open(j)'),
         Misread(i, Target(i)) => Misread(i, Target(i))'
  PROVE  WorkNumbered(i)'
<1>1. CASE Does(i, "idle")
  BY <1>1 DEF WorkNumbered, Does
<1>2. CASE ~Does(i, "idle")
  <2>1. worker[i].job \in Jobs /\ NextJob(i) \in Jobs
    BY <1>2, NextJobType DEF Inv, Works
  <2>2. NextJob(i)' = NextJob(i)
    BY DEF NextJob, Target
  <2>3. Does(i, "enqueue") => Reached(NextJob(i))'
    <3>1. \A j \in Jobs : j = NextJob(i) /\ Reached(j) => Reached(NextJob(i))'
      BY <2>2 DEF Reached, Exists, Pending
    <3> QED BY <1>2, <2>1, <3>1 DEF WorkNumbered
  <2>4. Does(i, "find") \/ Sending(i) =>
          Open(worker[i].job)' \/ Misread(i, Target(i))'
    BY <1>2, <2>1 DEF WorkNumbered
  <2> QED BY <1>2, <2>2, <2>3, <2>4 DEF WorkNumbered, Does, Sending, Reached, Open,
             Exists, Pending
<1> QED BY <1>1, <1>2

\* The jobs that FindDeliveries or CreateDeliveries means to enqueue.
LEMMA TodoReached ==
  ASSUME Inv, Inv', Numbered, NEW i \in Instances, DispatcherStep(i) \/ DispatcherThrows(i),
         RowsAdded, NEW j \in dispatcher'[i].todo
  PROVE  Reached(j)'
<1>1. j \in Jobs
  BY DEF Inv, TypeOK, Dispatchers
<1>2. CASE j \in dispatcher[i].todo
  BY <1>1, <1>2, AddedKeep DEF Numbered
<1>3. CASE FindDeliveries(i)
  <2>1. j \in Unsent(Current(i)) /\ UNCHANGED delivery
    <3>1. PICK step, missing, write :
            dispatcher' = [dispatcher EXCEPT ![i].at = step, ![i].subs = {},
              ![i].missing = missing, ![i].todo = Unsent(Current(i)), ![i].write = write]
      BY <1>3 DEF FindDeliveries
    <3>2. dispatcher'[i].todo = Unsent(Current(i))
      BY <3>1 DEF Inv, TypeOK
    <3> QED BY <1>3, <3>2 DEF FindDeliveries
  <2>2. PICK d \in Of(Current(i)) :
          delivery[d].status = "pending" /\ j = <<d, delivery[d].attempts + 1>>
    BY <2>1 DEF Unsent
  <2>3. d \in Deliveries /\ delivery[d] # None /\ delivery[d] \in DeliveryRows
    BY DEF Of, Inv, TypeOK
  <2>4. delivery[d].attempts \in Nat
    BY <2>3, BoundsAssumption DEF DeliveryRows
  <2> QED BY <2>1, <2>2, <2>3, <2>4 DEF Reached, Exists, Pending
<1>4. CASE CreateDeliveries(i) /\ j \notin dispatcher[i].todo
  <2> DEFINE missing == dispatcher[i].missing
  <2>1. CASE \A d \in missing : delivery[d] = None
    <3>1. /\ delivery' = [d \in Deliveries |->
               IF d \in missing THEN [status |-> "pending", attempts |-> 0]
               ELSE delivery[d]]
          /\ dispatcher' = [dispatcher EXCEPT ![i].at = "enqueue", ![i].missing = {},
                              ![i].todo = @ \cup {<<d, 1>> : d \in missing}]
      BY <1>4, <2>1 DEF CreateDeliveries
    <3>2. missing \subseteq Deliveries
      BY DEF Inv, TypeOK, Dispatchers
    <3>3. dispatcher'[i].todo = dispatcher[i].todo \cup {<<d, 1>> : d \in missing}
      BY <3>1 DEF Inv, TypeOK
    <3>4. PICK d \in missing : j = <<d, 1>>
      BY <1>4, <3>3
    <3>5. delivery'[d] = [status |-> "pending", attempts |-> 0]
      BY <3>1, <3>2
    <3>6. delivery'[d] # None
      BY <3>5, NoneAssumption, BoundsAssumption DEF DeliveryRows
    <3> QED BY <3>4, <3>5, <3>6 DEF Reached, Exists, Pending
  <2>2. CASE ~ \A d \in missing : delivery[d] = None
    <3>1. dispatcher'[i].todo = {}
      BY <1>4, <2>2 DEF CreateDeliveries, DispatchFails, NoBatch, Inv, TypeOK
    <3> QED BY <3>1
  <2> QED BY <2>1, <2>2
<1>5. CASE EnqueueDeliveries(i) \/ UpdateOutbox(i) \/ MarkForRetry(i)
  <2>1. PICK row \in Dispatchers : dispatcher' = [dispatcher EXCEPT ![i] = row] /\ row.todo = {}
    BY <1>5, NextEventRow DEF EnqueueDeliveries, UpdateOutbox, MarkForRetry
  <2> QED BY <2>1 DEF Inv, TypeOK
<1>6. CASE Poll(i) \/ DispatcherThrows(i)
  <2>1. dispatcher'[i].todo = {}
    <3>1. Poll(i) => dispatcher'[i].todo = {}
      BY DEF Poll, NoBatch, Inv, TypeOK
    <3>2. DispatcherThrows(i) => dispatcher'[i].todo = {}
      <4>1. CASE At(i, "retry")
        BY <4>1 DEF DispatcherThrows, NoBatch, Inv, TypeOK
      <4>2. CASE ~At(i, "retry")
        BY <4>2 DEF DispatcherThrows, DispatchFails, NoBatch, Inv, TypeOK
      <4> QED BY <4>1, <4>2
    <3> QED BY <1>6, <3>1, <3>2
  <2> QED BY <2>1
<1>7. CASE MarkProcessing(i) \/ FindSubscriptions(i) \/ ReadStatus(i)
  <2>1. MarkProcessing(i) => dispatcher'[i].todo = dispatcher[i].todo
    BY DEF MarkProcessing, Inv, TypeOK
  <2>2. FindSubscriptions(i) => dispatcher'[i].todo = dispatcher[i].todo
    BY DEF FindSubscriptions, Inv, TypeOK
  <2>3. ReadStatus(i) => dispatcher'[i].todo = dispatcher[i].todo
    BY DEF ReadStatus, Inv, TypeOK
  <2> QED BY <1>2, <1>7, <2>1, <2>2, <2>3
<1> QED BY <1>2, <1>3, <1>4, <1>5, <1>6, <1>7 DEF DispatcherStep

LEMMA OthersNumbered ==
  ASSUME Inv, Inv', Numbered,
         \/ \E e \in Events : CommitEvent(e) \/ Elapse(e)
         \/ \E s \in Subs : RegisterWebhook(s)
         \/ \E j \in Jobs : BackoffOver(j)
         \/ \E i \in Instances : DispatcherStep(i) \/ DispatcherThrows(i)
         \/ UNCHANGED vars
  PROVE  Numbered'
<1>1. RowsAdded /\ UNCHANGED <<worker, accepted>>
  BY OthersLeaveRows
<1>2. \A j \in Jobs : (Reached(j) => Reached(j)') /\ (Open(j) => Open(j)')
  BY <1>1, AddedKeep
<1>3. /\ \A j \in Jobs : job'[j] # "unknown" =>
           job[j] # "unknown" \/ \E i \in Instances : j \in dispatcher[i].todo
      /\ \A j \in Jobs : Fresh(job'[j]) => Fresh(job[j])
  <2>1. \/ UNCHANGED job
        \/ \E j \in Jobs : BackoffOver(j)
        \/ \E i \in Instances : \E added \in SUBSET dispatcher[i].todo : Add(added, "waiting")
    BY DEF CommitEvent, Elapse, RegisterWebhook, DispatcherStep, Poll, MarkProcessing,
           FindSubscriptions, FindDeliveries, CreateDeliveries, EnqueueDeliveries,
           ReadStatus, UpdateOutbox, MarkForRetry, DispatcherThrows, vars, queue
  <2>2. CASE \E j \in Jobs : BackoffOver(j)
    BY <2>2 DEF BackoffOver, Fresh, Inv, TypeOK
  <2>3. CASE \E i \in Instances : \E added \in SUBSET dispatcher[i].todo : Add(added, "waiting")
    BY <2>3 DEF Add, Fresh
  <2> QED BY <2>1, <2>2, <2>3
<1>4. QueueNumbered'
  BY <1>2, <1>3 DEF Numbered, QueueNumbered, Fresh
<1>5. ASSUME NEW i \in Instances PROVE WorkNumbered(i)'
  <2>1. ASSUME Misread(i, Target(i)) PROVE Misread(i, Target(i))'
    <3>1. Target(i) \in Deliveries /\ Exists(Target(i))
      BY <2>1, Pairs DEF Inv, Works, Target, Misread, Does
    <3>2. delivery'[Target(i)] = delivery[Target(i)] /\ Target(i)' = Target(i)
      BY <1>1, <3>1 DEF RowsAdded, Exists, Target
    <3> QED BY <1>1, <2>1, <3>2 DEF Misread, Does
  <2> QED BY <1>1, <1>2, <2>1, WorkerKept DEF Numbered
<1>6. ASSUME NEW i \in Instances, NEW j \in dispatcher'[i].todo PROVE Reached(j)'
  <2>1. j \in Jobs
    BY DEF Inv, TypeOK, Dispatchers
  <2>2. CASE j \in dispatcher[i].todo
    BY <1>2, <2>1, <2>2 DEF Numbered
  <2>3. CASE DispatcherStep(i) \/ DispatcherThrows(i)
    BY <1>1, <2>3, TodoReached
  <2>4. ASSUME NEW k \in Instances, k # i, DispatcherStep(k) \/ DispatcherThrows(k)
        PROVE  dispatcher'[i] = dispatcher[i]
    BY <2>4 DEF DispatcherStep, Poll, MarkProcessing, FindSubscriptions, FindDeliveries,
           CreateDeliveries, EnqueueDeliveries, ReadStatus, UpdateOutbox, MarkForRetry,
           DispatcherThrows, DispatchFails, NextEvent, Inv, TypeOK
  <2>5. ASSUME UNCHANGED dispatcher PROVE dispatcher'[i] = dispatcher[i]
    BY <2>5
  <2> QED BY <2>2, <2>3, <2>4, <2>5 DEF CommitEvent, Elapse, RegisterWebhook, BackoffOver, vars
<1> QED BY <1>4, <1>5, <1>6 DEF Numbered

\* A worker's step that writes no attempt.
LEMMA WorkerNumbered ==
  ASSUME Inv, Inv', Numbered, NEW i \in Instances, UNCHANGED <<delivery, dispatcher>>,
         accepted \subseteq accepted',
         \A k \in Instances \ {i} : worker'[k] = worker[k],
         WorkNumbered(i)',
         \A j \in Jobs : job'[j] # "unknown" => job[j] # "unknown" \/ Reached(j),
         \A j \in Jobs : Fresh(job'[j]) => Fresh(job[j])
  PROVE  Numbered'
<1>1. \A j \in Jobs : (Reached(j) => Reached(j)') /\ (Open(j) => Open(j)')
  BY DEF Reached, Open, Exists, Pending
<1>2. QueueNumbered'
  BY <1>1 DEF Numbered, QueueNumbered, Fresh
<1>3. ASSUME NEW k \in Instances \ {i} PROVE WorkNumbered(k)'
  <2>1. Misread(k, Target(k)) => Misread(k, Target(k))'
    BY DEF Misread, Does, Target
  <2> QED BY <1>1, <2>1, WorkerKept DEF Numbered
<1>4. ASSUME NEW k \in Instances, NEW j \in dispatcher'[k].todo PROVE Reached(j)'
  BY <1>1 DEF Numbered, Inv, TypeOK, Dispatchers
<1> QED BY <1>2, <1>3, <1>4 DEF Numbered

LEMMA FinishNumbered ==
  ASSUME Inv, Inv', Numbered, NEW i \in Instances, Finish(i),
         UNCHANGED <<delivery, dispatcher, accepted>>
  PROVE  Numbered'
<1>1. worker' = [worker EXCEPT ![i] = NoJob]
  BY DEF Finish
<1>2. WorkNumbered(i)'
  BY <1>1 DEF NoJob, WorkNumbered, Does, Inv, TypeOK
<1>3. \A k \in Instances \ {i} : worker'[k] = worker[k]
  BY <1>1 DEF Inv, TypeOK
<1>4. /\ \A j \in Jobs : job'[j] # "unknown" => job[j] # "unknown" \/ Reached(j)
      /\ \A j \in Jobs : Fresh(job'[j]) => Fresh(job[j])
  BY DEF Finish, Fresh, Inv, TypeOK, Works
<1> QED BY <1>2, <1>3, <1>4, WorkerNumbered

LEMMA TakeJobNumbered ==
  ASSUME Inv, Inv', Numbered, NEW i \in Instances, NEW j \in Jobs, TakeJob(i, j)
  PROVE  Numbered'
<1>1. /\ worker'[i].at = "find" /\ worker'[i].job = j /\ worker'[i].owns
      /\ \A k \in Instances \ {i} : worker'[k] = worker[k]
      /\ UNCHANGED <<delivery, dispatcher, accepted>>
  BY DEF TakeJob, NoJob, Inv, TypeOK, history
<1>2. Open(j)'
  BY <1>1 DEF TakeJob, Numbered, QueueNumbered, Open, Exists
<1>3. WorkNumbered(i)'
  BY <1>1, <1>2 DEF WorkNumbered, Does, Open, Exists
<1>4. /\ \A h \in Jobs : job'[h] # "unknown" => job[h] # "unknown" \/ Reached(h)
      /\ \A h \in Jobs : Fresh(job'[h]) => Fresh(job[h])
  BY DEF TakeJob, Fresh, Inv, TypeOK
<1> QED BY <1>1, <1>3, <1>4, WorkerNumbered

LEMMA FindDeliveryNumbered ==
  ASSUME Inv, Inv', Numbered, NEW i \in Instances, FindDelivery(i)
  PROVE  Numbered'
<1>1. UNCHANGED <<delivery, dispatcher, accepted>> /\ Does(i, "find")
  BY DEF FindDelivery, history
<1>2. CASE Finish(i)
  BY <1>1, <1>2, FinishNumbered
<1>3. CASE ~Finish(i)
  <2> DEFINE n == delivery[Target(i)].attempts + 1
             j == worker[i].job
  <2>1. /\ worker' = [worker EXCEPT ![i].at = "post", ![i].attempts = n]
        /\ UNCHANGED job /\ delivery[Target(i)].status = "pending"
    BY <1>3 DEF FindDelivery, queue
  <2>2. j \in Jobs /\ job[j] = "active" /\ Exists(Target(i)) /\ Open(j) /\ worker[i].owns
    BY <1>1 DEF Numbered, WorkNumbered, Inv, Works, Does, Misread
  <2>3. Reached(j)
    BY <2>2 DEF Numbered, QueueNumbered
  <2>4. n = j[2]
    <3>1. Target(i) \in Deliveries /\ j[2] \in Nat
      BY <2>2, Pairs, BoundsAssumption DEF Target
    <3>2. delivery[Target(i)].attempts \in Nat
      BY <2>2, <3>1, BoundsAssumption DEF Inv, TypeOK, Exists, DeliveryRows
    <3> QED BY <2>2, <2>3, <3>1, <3>2 DEF Reached, Open, Target
  <2> HIDE DEF n
  <2>5. /\ worker'[i].at = "post" /\ worker'[i].attempts = n /\ worker'[i].job = j
        /\ worker'[i].owns
        /\ \A k \in Instances \ {i} : worker'[k] = worker[k]
    BY <2>1, <2>2 DEF Inv, TypeOK
  <2>6. WorkNumbered(i)'
    BY <1>1, <2>2, <2>4, <2>5 DEF WorkNumbered, Does, Open, Exists
  <2> QED BY <1>1, <2>1, <2>5, <2>6, WorkerNumbered
<1> QED BY <1>2, <1>3

LEMMA PostNumbered ==
  ASSUME Inv, Inv', Numbered, NEW i \in Instances,
         \/ \E ok \in BOOLEAN : Post(i, ok)
         \/ WorkerThrows(i) /\ ~Finish(i) /\ UNCHANGED delivery
  PROVE  Numbered'
<1>1. /\ UNCHANGED <<delivery, dispatcher, job>> /\ accepted \subseteq accepted'
      /\ Sending(i) /\ ~Does(i, "saveFailure")
      /\ \E step \in {"saveSuccess", "saveFailure"} : Goto(i, step)
  BY DEF Post, WorkerThrows, Sending, Does, queue, history
<1>2. /\ worker'[i].at \in {"saveSuccess", "saveFailure"}
      /\ worker'[i].job = worker[i].job /\ worker'[i].owns = worker[i].owns
      /\ worker'[i].attempts = worker[i].attempts
      /\ \A k \in Instances \ {i} : worker'[k] = worker[k]
  BY <1>1 DEF Goto, Inv, TypeOK
<1>3. Open(worker[i].job)
  BY <1>1 DEF Numbered, WorkNumbered, Sending, Does, Misread
<1>4. WorkNumbered(i)'
  BY <1>1, <1>2, <1>3 DEF Numbered, WorkNumbered, Sending, Does, Open, Exists
<1> QED BY <1>1, <1>2, <1>4, WorkerNumbered

LEMMA OutcomeNumbered ==
  ASSUME Inv, Inv', Numbered, NEW i \in Instances, EnqueueRetry(i) \/ ReadOutcome(i)
  PROVE  Numbered'
<1>1. /\ UNCHANGED <<delivery, dispatcher, accepted>>
      /\ worker[i].at \in {"enqueue", "readStatus"}
  BY DEF EnqueueRetry, ReadOutcome, Does, history
<1>2. /\ worker'[i].at \in {"readStatus", "writeStatus"}
      /\ worker'[i].job = worker[i].job /\ worker'[i].owns = worker[i].owns
      /\ worker'[i].attempts = worker[i].attempts
      /\ \A k \in Instances \ {i} : worker'[k] = worker[k]
  <2>1. CASE EnqueueRetry(i)
    BY <2>1 DEF EnqueueRetry, Goto, Inv, TypeOK
  <2>2. CASE ReadOutcome(i)
    BY <2>2 DEF ReadOutcome, Inv, TypeOK
  <2> QED BY <2>1, <2>2
<1>3. WorkNumbered(i)'
  BY <1>1, <1>2 DEF Numbered, WorkNumbered, Sending, Does
<1>4. /\ \A j \in Jobs : job'[j] # "unknown" => job[j] # "unknown" \/ Reached(j)
      /\ \A j \in Jobs : Fresh(job'[j]) => Fresh(job[j])
  BY DEF EnqueueRetry, ReadOutcome, Add, Fresh, Numbered, WorkNumbered, Does, queue
<1> QED BY <1>1, <1>2, <1>3, <1>4, WorkerNumbered

\* Attempt n is saved by job n alone, and it is then the last one recorded.
LEMMA SaveNumbered ==
  ASSUME Inv, Inv', Heard, Numbered, NEW i \in Instances,
         \/ SaveSuccess(i) \/ SaveFailure(i)
         \/ WorkerThrows(i) /\ ~Finish(i) /\ SaveDelivery(i, "success")
  PROVE  Numbered'
<1>1. /\ Sending(i) /\ ~Does(i, "idle") /\ ~Does(i, "find")
      /\ UNCHANGED <<dispatcher, job, accepted>>
  BY DEF SaveSuccess, SaveFailure, WorkerThrows, Sending, Does, queue, history
<1>2. PICK j \in Jobs : j = worker[i].job
  BY <1>1 DEF Inv, Works
<1> DEFINE d == j[1]
           n == j[2]
<1>3. /\ d \in Deliveries /\ n = worker[i].attempts /\ n \in 1..MaxAttempts
      /\ worker[i].owns /\ job[j] = "active" /\ Exists(d)
  BY <1>2, <1>1, Pairs, BoundsAssumption
  DEF Inv, TypeOK, Workers, Works, Numbered, WorkNumbered, Target
<1>4. /\ delivery[d].attempts \in Nat /\ MaxAttempts \in Nat
      /\ \/ delivery[d].attempts = n - 1 /\ Pending(d)
         \/ delivery[d].attempts = n /\ delivery[d].status = "success"
  <2>1. delivery[d].attempts \in Nat /\ MaxAttempts \in Nat
    BY <1>3, BoundsAssumption DEF Inv, TypeOK, Exists, DeliveryRows
  <2>2. Reached(j) /\ (Open(j) \/ Misread(i, d))
    BY <1>2, <1>1, <1>3 DEF Numbered, QueueNumbered, WorkNumbered, Target
  <2>3. CASE Open(j)
    BY <1>3, <2>1, <2>2, <2>3 DEF Reached, Open
  <2>4. CASE Misread(i, d)
    BY <1>3, <2>1, <2>4 DEF Misread
  <2> QED BY <2>1, <2>2, <2>3, <2>4
<1>5. PICK status \in {"success", "pending", "failed"},
           step \in {"enqueue", "readStatus", "saveFailure"} :
        /\ delivery' = [delivery EXCEPT ![d] = [status |-> status, attempts |-> n]]
        /\ Goto(i, step)
        /\ step = "enqueue" => status = "pending"
        /\ step = "saveFailure" => status = "success" /\ d \in accepted
  <2>1. CASE SaveSuccess(i)
    BY <1>2, <1>3, <2>1 DEF SaveSuccess, SaveDelivery, Target
  <2>2. CASE SaveFailure(i)
    BY <1>2, <1>3, <2>2 DEF SaveFailure, SaveDelivery, Target
  <2>3. CASE WorkerThrows(i) /\ ~Finish(i) /\ SaveDelivery(i, "success")
    <3>1. Does(i, "saveSuccess") /\ Goto(i, "saveFailure")
      BY <2>3 DEF WorkerThrows
    <3> QED BY <1>2, <1>3, <2>3, <3>1 DEF SaveDelivery, Target, Heard
  <2> QED BY <2>1, <2>2, <2>3
<1> DEFINE row == [status |-> status, attempts |-> n]
<1>6. row # None /\ row.status = status /\ row.attempts = n
  BY <1>3, NoneAssumption DEF DeliveryRows
<1>7. /\ worker'[i].at = step /\ worker'[i].job = j
       /\ worker'[i].owns = worker[i].owns /\ worker'[i].attempts = n
       /\ \A k \in Instances \ {i} : worker'[k] = worker[k]
  <2>1. worker' = [worker EXCEPT ![i].at = step]
    BY <1>5 DEF Goto
  <2> HIDE DEF n
  <2>2. worker \in [Instances -> Workers]
    BY DEF Inv, TypeOK
  <2>3. /\ worker'[i] = [worker[i] EXCEPT !.at = step]
        /\ \A k \in Instances \ {i} : worker'[k] = worker[k]
    BY <2>1, <2>2
  <2>4. worker[i] \in Workers /\ n = worker[i].attempts
    BY <1>3, <2>2
  <2> QED BY <1>2, <2>3, <2>4 DEF Workers
<1>8. delivery' = [delivery EXCEPT ![d] = row]
  BY <1>5
<1> HIDE DEF row
<1>9. delivery'[d] = row /\ \A x \in Deliveries : x # d => delivery'[x] = delivery[x]
  BY <1>3, <1>8 DEF Inv, TypeOK
<1>10. /\ \A x \in Deliveries : x # d => delivery'[x] = delivery[x]
       /\ delivery'[d].attempts = n /\ Exists(d)'
       /\ worker'[i].at = "enqueue" => Pending(d)'
       /\ worker'[i].at = "saveFailure" => Misread(i, d)'
       /\ worker'[i].at \in {"enqueue", "readStatus", "saveFailure"}
  <2>1. /\ delivery'[d].attempts = n /\ Exists(d)'
        /\ worker'[i].at = "enqueue" => Pending(d)'
    BY <1>5, <1>6, <1>7, <1>9 DEF Exists, Pending
  <2>2. worker'[i].at = "saveFailure" => Misread(i, d)'
    BY <1>1, <1>2, <1>5, <1>7, <1>9 DEF Misread, Does, Target, row
  <2> QED BY <1>5, <1>7, <1>9, <2>1, <2>2
<1> HIDE DEF d, n
<1>11. ASSUME NEW h \in Jobs, Reached(h) PROVE Reached(h)'
  <2>1. h[1] \in Deliveries /\ h[2] \in Nat
    BY Pairs, BoundsAssumption
  <2>2. CASE h[1] # d
    BY <1>10, <1>11, <2>1, <2>2 DEF Reached, Exists, Pending
  <2>3. CASE h[1] = d
    <3>1. n >= h[2] - 1 /\ n # h[2] - 1
      BY <1>3, <1>4, <1>11, <2>1, <2>3 DEF Reached, Pending
    <3>2. Exists(h[1])' /\ delivery'[h[1]].attempts = n
      BY <1>10, <2>3 DEF Exists
    <3> QED BY <3>1, <3>2 DEF Reached
  <2> QED BY <2>2, <2>3
<1>12. ASSUME NEW h \in Jobs, h # j, Open(h) PROVE Open(h)'
  <2>1. h[1] \in Deliveries /\ h[2] \in Nat /\ h = <<h[1], h[2]>> /\ j = <<d, n>>
    BY Pairs, BoundsAssumption DEF d, n
  <2>2. CASE h[1] # d
    BY <1>10, <1>12, <2>1, <2>2 DEF Open, Exists
  <2>3. CASE h[1] = d
    <3>1. n - 1 < h[2] /\ h[2] # n
      BY <1>3, <1>4, <1>12, <2>1, <2>3 DEF Open
    <3> QED BY <1>3, <1>10, <2>1, <2>3, <3>1 DEF Open
  <2> QED BY <2>2, <2>3
<1>13. QueueNumbered'
  BY <1>1, <1>3, <1>11, <1>12 DEF Numbered, QueueNumbered
<1>14. WorkNumbered(i)'
  <2>1. worker'[i].at = "enqueue" => Reached(NextJob(i))'
    <3>1. NextJob(i)' = <<d, n + 1>>
      BY <1>3, <1>7 DEF NextJob, Target, d, n
    <3> QED BY <1>3, <1>10, <3>1 DEF Reached, Pending, Exists
  <2>2. Target(i)' = d
    BY <1>7 DEF Target, d
  <2>3. worker'[i].at = "saveFailure" => Misread(i, Target(i))'
    BY <1>10, <2>2 DEF Misread
  <2> QED BY <1>3, <1>7, <1>10, <2>1, <2>3 DEF WorkNumbered, Sending, Does, n
<1>15. ASSUME NEW k \in Instances \ {i} PROVE WorkNumbered(k)'
  <2>1. WorkNumbered(k)
    BY DEF Numbered
  <2>2. Does(k, "find") \/ Sending(k) => worker[k].job # j
    BY <1>2, <1>3, <2>1 DEF WorkNumbered, Does, Sending, Inv, OneOwner
  <2>3. ASSUME Misread(k, Target(k)) PROVE Misread(k, Target(k))'
    <3>1. /\ worker[k].job \in Jobs /\ Target(k) \in Deliveries
          /\ worker[k].attempts = worker[k].job[2] /\ Sending(k)
      BY <2>1, <2>3, Pairs DEF Misread, WorkNumbered, Sending, Does, Inv, Works, Target
    <3>2. Target(k) # d
      <4>1. SUFFICES ASSUME Target(k) = d PROVE FALSE
        OBVIOUS
      <4>2. delivery[d].status = "success" /\ delivery[d].attempts = worker[k].attempts
        BY <2>3, <4>1 DEF Misread
      <4>3. worker[k].attempts = n
        BY <1>4, <4>2 DEF Pending
      <4>4. worker[k].job = <<d, n>> /\ j = <<d, n>>
        BY <3>1, <4>1, <4>3, Pairs DEF Target, d, n
      <4> QED BY <2>2, <3>1, <4>4
    <3>3. delivery'[Target(k)] = delivery[Target(k)]
      BY <1>10, <3>1, <3>2
    <3> QED BY <1>1, <1>7, <2>3, <3>3 DEF Misread, Does, Target
  <2> QED BY <1>7, <1>11, <1>12, <2>1, <2>2, <2>3, WorkerKept
<1>16. ASSUME NEW k \in Instances, NEW h \in dispatcher'[k].todo PROVE Reached(h)'
  BY <1>1, <1>11 DEF Numbered, Inv, TypeOK, Dispatchers
<1> QED BY <1>13, <1>14, <1>15, <1>16 DEF Numbered

LEMMA NumberedStep ==
  ASSUME NothingDies, Inv, Inv', Heard, Numbered, [Next]_vars
  PROVE  Numbered'
<1>1. crashes \in Nat /\ lostLocks \in Nat /\ evictions \in Nat
  BY DEF Inv, TypeOK
<1>2. ASSUME \/ \E e \in Events : CommitEvent(e) \/ Elapse(e)
             \/ \E s \in Subs : RegisterWebhook(s)
             \/ \E j \in Jobs : BackoffOver(j)
             \/ \E i \in Instances : DispatcherStep(i) \/ DispatcherThrows(i)
             \/ UNCHANGED vars
      PROVE  Numbered'
  BY <1>2, OthersNumbered
<1>3. ASSUME NEW j \in Jobs, Evict(j) PROVE FALSE
  BY <1>1, <1>3 DEF Evict, NothingDies
<1>4. ASSUME NEW i \in Instances, Crash(i) \/ LoseLock(i) PROVE FALSE
  BY <1>1, <1>4 DEF Crash, LoseLock, NothingDies
<1>5. ASSUME NEW i \in Instances, WriteOutcome(i) \/ (WorkerThrows(i) /\ Finish(i))
      PROVE  Numbered'
  <2>1. Finish(i) /\ UNCHANGED <<dispatcher, accepted>>
    BY <1>5 DEF WriteOutcome, WorkerThrows, history
  <2>2. worker'[i].at = "idle"
    BY <2>1 DEF Finish, NoJob, Inv, TypeOK
  <2>3. ASSUME Goto(i, "saveFailure") PROVE FALSE
    <3>1. worker'[i].at = "saveFailure"
      BY <2>3 DEF Goto, Inv, TypeOK
    <3> QED BY <2>2, <3>1
  <2>4. UNCHANGED delivery
    BY <1>5, <2>3 DEF WriteOutcome, WorkerThrows
  <2> QED BY <2>1, <2>4, FinishNumbered
<1>6. ASSUME NEW i \in Instances, WorkerThrows(i) PROVE Numbered'
  <2>1. Finish(i) \/ SaveDelivery(i, "success") \/ UNCHANGED delivery
    BY <1>6 DEF WorkerThrows
  <2> QED BY <1>5, <1>6, <2>1, PostNumbered, SaveNumbered
<1>7. ASSUME NEW i \in Instances, WorkerStep(i) PROVE Numbered'
  BY <1>5, <1>7, TakeJobNumbered, FindDeliveryNumbered, PostNumbered, OutcomeNumbered,
     SaveNumbered
  DEF WorkerStep
<1> QED BY <1>2, <1>3, <1>4, <1>6, <1>7 DEF Next

LEMMA NumberedSends == Inv /\ Numbered => SendsPending
<1> SUFFICES ASSUME Inv, Numbered, NEW i \in Instances, Sending(i)
             PROVE  Pending(Target(i)) \/ Misread(i, Target(i))
  BY DEF SendsPending
<1> DEFINE j == worker[i].job
<1>1. ~Does(i, "idle")
  BY DEF Sending, Does
<1>2. /\ j \in Jobs /\ job[j] = "active" /\ Exists(Target(i))
      /\ Open(j) \/ Misread(i, Target(i))
  BY <1>1 DEF Inv, Works, Numbered, WorkNumbered
<1>3. Reached(j)
  BY <1>2 DEF Numbered, QueueNumbered
<1>4. delivery[Target(i)].attempts \in Nat /\ j[2] \in Nat
  BY <1>2, Pairs, BoundsAssumption DEF Target, Inv, TypeOK, Exists, DeliveryRows
<1> QED BY <1>2, <1>3, <1>4 DEF Reached, Open, Target

-----------------------------------------------------------------------------
LEMMA FinalStep ==
  ASSUME Inv, SendsPending, [Next]_vars, NEW d \in Deliveries, Terminal(d)
  PROVE  /\ posts'[d] = posts[d]
         /\ delivery'[d] = delivery[d] \/ \E i \in Instances : Misread(i, d)
<1>1. CASE \/ \E e \in Events : CommitEvent(e) \/ Elapse(e)
           \/ \E s \in Subs : RegisterWebhook(s)
           \/ \E j \in Jobs : BackoffOver(j) \/ Evict(j)
           \/ \E i \in Instances : DispatcherStep(i) \/ DispatcherThrows(i)
           \/ UNCHANGED vars
  BY <1>1, OthersLeaveRows DEF RowsAdded, Terminal
<1>2. ASSUME NEW i \in Instances, Sending(i) PROVE Target(i) # d \/ Misread(i, d)
  BY <1>2 DEF SendsPending, Pending, Terminal
<1>3. ASSUME NEW i \in Instances, NEW ok \in BOOLEAN, Post(i, ok)
      PROVE  posts'[d] = posts[d] /\ delivery'[d] = delivery[d]
  <2>1. Target(i) # d
    BY <1>2, <1>3 DEF Post, Sending, Does, Misread
  <2> QED BY <1>3, <2>1 DEF Post, Inv, TypeOK
<1>4. ASSUME NEW i \in Instances, NEW status, Sending(i), SaveDelivery(i, status)
      PROVE  delivery'[d] = delivery[d] \/ Misread(i, d)
  BY <1>2, <1>4 DEF SaveDelivery, Inv, TypeOK
<1>5. ASSUME NEW i \in Instances, SaveSuccess(i) \/ SaveFailure(i)
      PROVE  posts'[d] = posts[d] /\ (delivery'[d] = delivery[d] \/ Misread(i, d))
  <2>1. Sending(i) /\ UNCHANGED posts /\ \E status : SaveDelivery(i, status)
    BY <1>5 DEF SaveSuccess, SaveFailure, Sending, Does, history
  <2> QED BY <1>4, <2>1
<1>6. ASSUME NEW i \in Instances, WorkerThrows(i)
      PROVE  posts'[d] = posts[d] /\ (delivery'[d] = delivery[d] \/ Misread(i, d))
  <2>1. /\ UNCHANGED posts
        /\ UNCHANGED delivery \/ (Sending(i) /\ SaveDelivery(i, "success"))
    BY <1>6 DEF WorkerThrows, Sending, Does, history
  <2> QED BY <1>4, <2>1
<1>7. ASSUME NEW i \in Instances,
             \/ \E j \in Jobs : TakeJob(i, j)
             \/ FindDelivery(i) \/ EnqueueRetry(i) \/ ReadOutcome(i) \/ WriteOutcome(i)
             \/ Crash(i) \/ LoseLock(i)
      PROVE  posts'[d] = posts[d] /\ delivery'[d] = delivery[d]
  BY <1>7 DEF TakeJob, FindDelivery, EnqueueRetry, ReadOutcome, WriteOutcome, Crash,
              LoseLock, history
<1> QED BY <1>1, <1>3, <1>5, <1>6, <1>7 DEF Next, WorkerStep

\* SendsPending in each of the two cases.
LEMMA SendsPendingAlways ==
  ASSUME OneInstance \/ NothingDies
  PROVE  Spec => []SendsPending
<1>1. CASE OneInstance
  <2>1. Init => SendsPending
    BY DEF Init, SendsPending, Sending, NoJob
  <2>2. Inv /\ Heard /\ SendsPending /\ [Next]_vars => SendsPending'
    BY <1>1, OneInstanceStep
  <2> QED BY <2>1, <2>2, Invariance, HeardAlways, PTL DEF Spec
<1>2. CASE NothingDies
  <2>1. Init => Numbered
    BY InitNumbered
  <2>2. Inv /\ Inv' /\ Heard /\ Numbered /\ [Next]_vars => Numbered'
    BY <1>2, NumberedStep
  <2>3. Inv /\ Numbered => SendsPending
    BY NumberedSends
  <2> QED BY <2>1, <2>2, <2>3, Invariance, HeardAlways, PTL DEF Spec
<1> QED BY <1>1, <1>2

(***************************************************************************)
(* TerminalUnlessMisread, "duplicate queue jobs must not redeliver         *)
(* terminal webhook deliveries": holds with one instance, whatever fails,  *)
(* and with any number of them as long as nothing dies and no job is       *)
(* forgotten.  What is exempt is the success whose own worker was told     *)
(* that it was not saved.  Otherwise it does not hold: a job that is run   *)
(* again may send the attempt that another worker is sending, and each     *)
(* overwrites the other's end.                                             *)
(***************************************************************************)
THEOREM DeliveriesAreFinal ==
  ASSUME OneInstance \/ NothingDies
  PROVE  Spec => TerminalUnlessMisread
<1>1. Inv /\ SendsPending /\ [Next]_vars =>
        [\A d \in Deliveries : Terminal(d) =>
           /\ posts'[d] = posts[d]
           /\ delivery'[d] = delivery[d] \/ \E i \in Instances : Misread(i, d)]_vars
  BY FinalStep
<1> QED BY <1>1, Invariance, SendsPendingAlways, PTL DEF Spec, TerminalUnlessMisread
=============================================================================

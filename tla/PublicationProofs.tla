--------------------------- MODULE PublicationProofs ---------------------------
(***************************************************************************)
(* Theorems of WebhookPipeline about the outbox: what the status of an     *)
(* event says of the deliveries to those who had subscribed before it.     *)
(*                                                                         *)
(* Both rest on evidence that nothing takes back: an answer that came, a   *)
(* POST that was sent, a dispatch that failed.  A row of a delivery may be *)
(* overwritten; what an update of the outbox row was decided on has        *)
(* happened all the same.                                                  *)
(***************************************************************************)
EXTENDS PipelineProofs

Done(e) == Owed(e) \subseteq accepted
Over(e) == \A d \in Owed(e) : d \in accepted \/ posts[d] >= MaxAttempts

-----------------------------------------------------------------------------
(***************************************************************************)
(* A row says no more than what has happened, and neither does a worker    *)
(* that is about to write one.                                             *)
(***************************************************************************)
RowRecorded(d) ==
    Exists(d) =>
      /\ delivery[d].attempts <= posts[d]
      /\ delivery[d].status = "success" => d \in accepted
      /\ delivery[d].status = "failed" => delivery[d].attempts = MaxAttempts

WorkRecorded(i) ==
    /\ Does(i, "post") => worker[i].attempts <= posts[Target(i)] + 1
    /\ Does(i, "saveSuccess") \/ Does(i, "saveFailure") =>
         worker[i].attempts <= posts[Target(i)]

Recorded ==
    /\ \A d \in Deliveries : RowRecorded(d)
    /\ \A i \in Instances : WorkRecorded(i)

-----------------------------------------------------------------------------
(***************************************************************************)
(* The rows of an event's early subscribers are created together: who      *)
(* creates some has found none of them, and inserts all in one save.       *)
(***************************************************************************)
Together == \A e \in Events : Of(e) # {} => \A d \in Owed(e) : Exists(d)

\* What a dispatcher has found out about the early subscribers.
Plans(i) ==
    /\ At(i, "deliveries") => \A d \in Owed(Current(i)) : d[2] \in dispatcher[i].subs
    /\ At(i, "create") =>
         /\ \A d \in dispatcher[i].missing : d[1] = Current(i)
         /\ \A d \in Owed(Current(i)) : Exists(d) \/ d \in dispatcher[i].missing
    /\ At(i, "status") => Of(Current(i)) # {}

Planned ==
    /\ EarlySubs \subseteq active
    /\ Together
    /\ \A i \in Instances : Plans(i)

-----------------------------------------------------------------------------
\* What a decided update of an outbox row may say, however late it is written.
Truthful(update, e) ==
    /\ update.status = "published" => Done(e)
    /\ update.status = "failed" => Over(e)
    /\ update.status # "failed" => update.retry = None

Told ==
    /\ \A i \in Instances :
         /\ At(i, "write") => Truthful(dispatcher[i].write, Current(i))
         /\ Does(i, "writeStatus") => Truthful(worker[i].write, Target(i)[1])
    /\ \A e \in Events : outbox[e].status = "published" => Done(e)

-----------------------------------------------------------------------------
(***************************************************************************)
(* A retryCount stems from failures of that event's own dispatch, or from  *)
(* attempts of deliveries that are over.                                   *)
(***************************************************************************)
Counted(n, e) == n <= failures[e] \/ Over(e)

Counts ==
    /\ \A i \in Instances :
         /\ \A e \in Events : Counted(dispatcher[i].retry[e], e)
         /\ At(i, "retry") => Counted(dispatcher[i].retry[Current(i)] + 1, Current(i))
    /\ \A e \in Events : Counted(outbox[e].retry, e)
    /\ \A e \in Events :
         outbox[e].status = "failed" => Over(e) \/ failures[e] >= OutboxMax

-----------------------------------------------------------------------------
\* What a step does to the evidence, a delivery, a dispatcher, an outbox row.

LEMMA HistoryGrows ==
  ASSUME Inv, [Next]_vars
  PROVE  /\ accepted \subseteq accepted'
         /\ \A d \in Deliveries : posts[d] \in Nat /\ posts'[d] \in Nat /\ posts[d] <= posts'[d]
         /\ \A e \in Events :
              failures[e] \in Nat /\ failures'[e] \in Nat /\ failures[e] <= failures'[e]
<1>1. /\ posts \in [Deliveries -> Nat] /\ failures \in [Events -> Nat]
      /\ posts' \in [Deliveries -> Nat] /\ failures' \in [Events -> Nat]
  BY StepInv DEF Inv, TypeOK
<1>2. \/ UNCHANGED posts
      \/ \E i \in Instances : posts' = [posts EXCEPT ![Target(i)] = @ + 1]
  BY DEF Next, CommitEvent, Elapse, RegisterWebhook, BackoffOver, Evict, DispatcherStep,
         Poll, MarkProcessing, FindSubscriptions, FindDeliveries, CreateDeliveries,
         EnqueueDeliveries, ReadStatus, UpdateOutbox, MarkForRetry, DispatcherThrows,
         WorkerStep, TakeJob, Post, FindDelivery, SaveSuccess, SaveFailure, EnqueueRetry,
         ReadOutcome, WriteOutcome, WorkerThrows, Crash, LoseLock, vars, history
<1>3. \/ UNCHANGED failures
      \/ \E i \in Instances : failures' = [failures EXCEPT ![Current(i)] = @ + 1]
  BY DEF Next, CommitEvent, Elapse, RegisterWebhook, BackoffOver, Evict, DispatcherStep,
         Poll, MarkProcessing, FindSubscriptions, FindDeliveries, CreateDeliveries,
         EnqueueDeliveries, ReadStatus, UpdateOutbox, MarkForRetry, DispatcherThrows,
         DispatchFails, WorkerStep, TakeJob, Post, FindDelivery, SaveSuccess, SaveFailure,
         EnqueueRetry, ReadOutcome, WriteOutcome, WorkerThrows, Crash, LoseLock, vars,
         history
<1>4. \A d \in Deliveries : posts'[d] = posts[d] \/ posts'[d] = posts[d] + 1
  BY <1>1, <1>2
<1>5. \A e \in Events : failures'[e] = failures[e] \/ failures'[e] = failures[e] + 1
  BY <1>1, <1>3
<1> QED BY <1>1, <1>4, <1>5, AcceptedGrows

\* A row is new and pending, or its worker has written it.
LEMMA RowChanges ==
  ASSUME Inv, [Next]_vars, NEW d \in Deliveries
  PROVE  \/ delivery'[d] = delivery[d]
         \/ delivery[d] = None /\ delivery'[d] = [status |-> "pending", attempts |-> 0]
         \/ \E i \in Instances, status \in {"success", "pending", "failed"} :
              /\ Target(i) = d /\ Exists(d)
              /\ Does(i, "saveSuccess") \/ Does(i, "saveFailure")
              /\ status = "success" => Does(i, "saveSuccess")
              /\ status = "failed" => ~Retries(i)
              /\ delivery'[d] = [status |-> status, attempts |-> worker[i].attempts]
<1>1. CASE \/ \E e \in Events : CommitEvent(e) \/ Elapse(e)
           \/ \E s \in Subs : RegisterWebhook(s)
           \/ \E j \in Jobs : BackoffOver(j) \/ Evict(j)
           \/ \E i \in Instances : DispatcherStep(i) \/ DispatcherThrows(i)
           \/ UNCHANGED vars
  BY <1>1, OthersLeaveRows DEF RowsAdded
<1>2. ASSUME NEW i \in Instances, NEW status \in {"success", "pending", "failed"},
             Does(i, "saveSuccess") \/ Does(i, "saveFailure"), SaveDelivery(i, status)
      PROVE  \/ delivery'[d] = delivery[d]
             \/ /\ Target(i) = d /\ Exists(d)
                /\ delivery'[d] = [status |-> status, attempts |-> worker[i].attempts]
  <2>1. Exists(Target(i))
    BY <1>2 DEF Does, Inv, Works
  <2> QED BY <1>2, <2>1 DEF SaveDelivery, Inv, TypeOK
<1>3. ASSUME NEW i \in Instances, SaveSuccess(i) \/ SaveFailure(i) \/ WorkerThrows(i)
      PROVE  \/ UNCHANGED delivery
             \/ \E status \in {"success", "pending", "failed"} :
                  /\ Does(i, "saveSuccess") \/ Does(i, "saveFailure")
                  /\ status = "success" => Does(i, "saveSuccess")
                  /\ status = "failed" => ~Retries(i)
                  /\ SaveDelivery(i, status)
  BY <1>3 DEF SaveSuccess, SaveFailure, WorkerThrows
<1>4. ASSUME NEW i \in Instances, SaveSuccess(i) \/ SaveFailure(i) \/ WorkerThrows(i)
      PROVE  \/ delivery'[d] = delivery[d]
             \/ \E status \in {"success", "pending", "failed"} :
                  /\ Target(i) = d /\ Exists(d)
                  /\ Does(i, "saveSuccess") \/ Does(i, "saveFailure")
                  /\ status = "success" => Does(i, "saveSuccess")
                  /\ status = "failed" => ~Retries(i)
                  /\ delivery'[d] = [status |-> status, attempts |-> worker[i].attempts]
  BY <1>2, <1>3, <1>4
<1>5. ASSUME NEW i \in Instances,
             \/ \E j \in Jobs : TakeJob(i, j)
             \/ \E ok \in BOOLEAN : Post(i, ok)
             \/ FindDelivery(i) \/ EnqueueRetry(i) \/ ReadOutcome(i) \/ WriteOutcome(i)
             \/ Crash(i) \/ LoseLock(i)
      PROVE  UNCHANGED delivery
  BY <1>5 DEF TakeJob, Post, FindDelivery, EnqueueRetry, ReadOutcome, WriteOutcome,
              Crash, LoseLock
<1> QED BY <1>1, <1>4, <1>5 DEF Next, WorkerStep

LEMMA RowsStay ==
  ASSUME Inv, [Next]_vars, NEW d \in Deliveries, Exists(d)
  PROVE  Exists(d)'
<1>1. ASSUME NEW i \in Instances, NEW status \in {"success", "pending", "failed"},
             delivery'[d] = [status |-> status, attempts |-> worker[i].attempts]
      PROVE  delivery'[d] # None
  BY <1>1, NoneAssumption DEF DeliveryRows, Inv, TypeOK, Workers
<1> QED BY <1>1, RowChanges DEF Exists

\* A new row is one of those that its creator has found missing, and they all
\* are new.
LEMMA RowsAppear ==
  ASSUME Inv, [Next]_vars, NEW d \in Deliveries, ~Exists(d), Exists(d)'
  PROVE  \E i \in Instances :
           /\ CreateDeliveries(i) /\ At(i, "create") /\ d \in dispatcher[i].missing
           /\ \A x \in dispatcher[i].missing : ~Exists(x) /\ Exists(x)'
<1>1. ASSUME NEW i \in Instances, CreateDeliveries(i)
      PROVE  /\ At(i, "create") /\ d \in dispatcher[i].missing
             /\ \A x \in dispatcher[i].missing : ~Exists(x) /\ Exists(x)'
  <2> DEFINE missing == dispatcher[i].missing
             new == [status |-> "pending", attempts |-> 0]
  <2>1. CASE \A x \in missing : delivery[x] = None
    <3>1. /\ delivery' = [x \in Deliveries |-> IF x \in missing THEN new ELSE delivery[x]]
          /\ At(i, "create")
      BY <1>1, <2>1 DEF CreateDeliveries
    <3>2. missing \subseteq Deliveries
      BY DEF Inv, TypeOK, Dispatchers
    <3>3. new # None
      BY NoneAssumption, BoundsAssumption DEF DeliveryRows
    <3> HIDE DEF new
    <3> QED BY <2>1, <3>1, <3>2, <3>3 DEF Exists
  <2>2. CASE ~ \A x \in missing : delivery[x] = None
    <3>1. UNCHANGED delivery
      BY <1>1, <2>2 DEF CreateDeliveries
    <3> QED BY <3>1 DEF Exists
  <2> QED BY <2>1, <2>2
<1>2. \/ UNCHANGED delivery
      \/ \E i \in Instances : CreateDeliveries(i)
      \/ \E i \in Instances :
           \/ SaveSuccess(i) \/ SaveFailure(i)
           \/ Does(i, "saveSuccess") /\ SaveDelivery(i, "success")
  BY DEF Next, CommitEvent, Elapse, RegisterWebhook, BackoffOver, Evict, DispatcherStep,
         Poll, MarkProcessing, FindSubscriptions, FindDeliveries, EnqueueDeliveries,
         ReadStatus, UpdateOutbox, MarkForRetry, DispatcherThrows, WorkerStep, TakeJob,
         Post, FindDelivery, EnqueueRetry, ReadOutcome, WriteOutcome, WorkerThrows,
         Crash, LoseLock, vars
<1>3. ASSUME NEW i \in Instances,
             \/ SaveSuccess(i) \/ SaveFailure(i)
             \/ Does(i, "saveSuccess") /\ SaveDelivery(i, "success")
      PROVE  FALSE
  <2>1. Exists(Target(i)) /\ \E row : delivery' = [delivery EXCEPT ![Target(i)] = row]
    BY <1>3 DEF SaveSuccess, SaveFailure, SaveDelivery, Does, Inv, Works
  <2> QED BY <2>1 DEF Exists, Inv, TypeOK
<1> QED BY <1>1, <1>2, <1>3 DEF Exists

LEMMA DispatcherActs ==
  ASSUME Inv, [Next]_vars, NEW i \in Instances
  PROVE  \/ UNCHANGED dispatcher[i]
         \/ DispatcherStep(i) \/ DispatcherThrows(i) \/ Crash(i)
<1>1. ASSUME NEW k \in Instances, k # i,
             DispatcherStep(k) \/ DispatcherThrows(k) \/ Crash(k)
      PROVE  UNCHANGED dispatcher[i]
  BY <1>1 DEF DispatcherStep, Poll, MarkProcessing, FindSubscriptions, FindDeliveries,
         CreateDeliveries, EnqueueDeliveries, ReadStatus, UpdateOutbox, MarkForRetry,
         DispatcherThrows, DispatchFails, Crash, NextEvent, Inv, TypeOK
<1>2. \/ UNCHANGED dispatcher
      \/ \E k \in Instances : DispatcherStep(k) \/ DispatcherThrows(k) \/ Crash(k)
  BY DEF Next, CommitEvent, Elapse, RegisterWebhook, BackoffOver, Evict, WorkerStep,
         TakeJob, Post, FindDelivery, SaveSuccess, SaveFailure, EnqueueRetry,
         ReadOutcome, WriteOutcome, WorkerThrows, LoseLock, vars
<1> QED BY <1>1, <1>2

\* Where each step of a dispatcher leads, and what it takes along.

LEMMA FindSubscriptionsTo ==
  ASSUME Inv, NEW i \in Instances, FindSubscriptions(i)
  PROVE  /\ dispatcher'[i].at = "deliveries"
         /\ dispatcher'[i].batch = dispatcher[i].batch
         /\ dispatcher'[i].retry = dispatcher[i].retry
         /\ dispatcher'[i].subs = {s \in active : <<Current(i), s>> \in Matching}
  BY DEF FindSubscriptions, Inv, TypeOK

LEMMA FindDeliveriesTo ==
  ASSUME Inv, NEW i \in Instances, FindDeliveries(i),
         NEW missing, missing = {d \in {Current(i)} \X dispatcher[i].subs : delivery[d] = None}
  PROVE  /\ At(i, "deliveries")
         /\ dispatcher'[i].batch = dispatcher[i].batch
         /\ dispatcher'[i].retry = dispatcher[i].retry
         /\ dispatcher'[i].missing = missing
         /\ dispatcher'[i].at \in {"create", "write", "status", "enqueue"}
         /\ dispatcher'[i].at = "write" => missing = {} /\ Of(Current(i)) = {}
         /\ dispatcher'[i].at = "status" => Of(Current(i)) # {}
         /\ dispatcher'[i].write = [status |-> "published", retry |-> None]
<1> DEFINE todo == Unsent(Current(i))
           step == CASE missing # {} -> "create"
                     [] missing = {} /\ Of(Current(i)) = {} -> "write"
                     [] missing = {} /\ Of(Current(i)) # {} /\ todo = {} -> "status"
                     [] OTHER -> "enqueue"
           update == [status |-> "published", retry |-> None]
<1>1. dispatcher' = [dispatcher EXCEPT ![i].at = step, ![i].subs = {},
        ![i].missing = missing, ![i].todo = todo, ![i].write = update]
  BY DEF FindDeliveries
<1>2. /\ step \in {"create", "write", "status", "enqueue"}
      /\ step = "write" => missing = {} /\ Of(Current(i)) = {}
      /\ step = "status" => Of(Current(i)) # {}
  OBVIOUS
<1> HIDE DEF step, todo, update
<1>3. /\ dispatcher'[i].batch = dispatcher[i].batch
      /\ dispatcher'[i].retry = dispatcher[i].retry
      /\ dispatcher'[i].missing = missing /\ dispatcher'[i].at = step
      /\ dispatcher'[i].write = update
  <2>1. dispatcher'[i] = [dispatcher[i] EXCEPT !.at = step, !.subs = {},
          !.missing = missing, !.todo = todo, !.write = update]
    BY <1>1 DEF Inv, TypeOK
  <2>2. dispatcher[i] \in Dispatchers
    BY DEF Inv, TypeOK
  <2> QED BY <2>1, <2>2 DEF Dispatchers
<1> QED BY <1>2, <1>3 DEF FindDeliveries, update

LEMMA FailsTo ==
  ASSUME Inv, NEW i \in Instances, DispatchFails(i)
  PROVE  /\ dispatcher'[i].at = "retry"
         /\ dispatcher'[i].batch = dispatcher[i].batch
         /\ dispatcher'[i].retry = dispatcher[i].retry
<1> DEFINE row == [NoBatch EXCEPT !.at = "retry", !.batch = dispatcher[i].batch,
                                  !.retry = dispatcher[i].retry]
<1>1. /\ row.at = "retry" /\ row.batch = dispatcher[i].batch
      /\ row.retry = dispatcher[i].retry
  BY DEF NoBatch
<1>2. dispatcher' = [dispatcher EXCEPT ![i] = row]
  BY DEF DispatchFails
<1> HIDE DEF row
<1> QED BY <1>1, <1>2 DEF Inv, TypeOK

LEMMA CreateDeliveriesTo ==
  ASSUME Inv, NEW i \in Instances, CreateDeliveries(i)
  PROVE  /\ dispatcher'[i].at \in {"enqueue", "retry"}
         /\ dispatcher'[i].batch = dispatcher[i].batch
         /\ dispatcher'[i].retry = dispatcher[i].retry
         /\ dispatcher'[i].at = "retry" => DispatchFails(i)
<1>1. CASE \A d \in dispatcher[i].missing : delivery[d] = None
  <2>1. PICK todo : dispatcher' = [dispatcher EXCEPT ![i].at = "enqueue", ![i].missing = {},
                                     ![i].todo = todo]
    BY <1>1 DEF CreateDeliveries
  <2> QED BY <2>1 DEF Inv, TypeOK
<1>2. CASE ~ \A d \in dispatcher[i].missing : delivery[d] = None
  <2>1. DispatchFails(i)
    BY <1>2 DEF CreateDeliveries
  <2> QED BY <2>1, FailsTo
<1> QED BY <1>1, <1>2

LEMMA ReadStatusTo ==
  ASSUME Inv, NEW i \in Instances, ReadStatus(i)
  PROVE  /\ At(i, "status") /\ dispatcher'[i].at = "write"
         /\ dispatcher'[i].batch = dispatcher[i].batch
         /\ dispatcher'[i].retry = dispatcher[i].retry
         /\ dispatcher'[i].write = StatusFor(Current(i))
  BY DEF ReadStatus, Inv, TypeOK

\* The batch is over, or goes on with its retry counts.
LEMMA BatchGoesOn ==
  ASSUME Inv, NEW i \in Instances, NextEvent(i)
  PROVE  /\ dispatcher'[i].at \in {"idle", "mark"}
         /\ \A e \in Events : \/ dispatcher'[i].retry[e] = 0
                              \/ dispatcher'[i].retry[e] = dispatcher[i].retry[e]
<1> DEFINE rest == dispatcher[i].batch \ {Current(i)}
           next == [NoBatch EXCEPT !.at = "mark", !.batch = rest,
                                   !.retry = dispatcher[i].retry]
<1>1. dispatcher' = [dispatcher EXCEPT ![i] = IF rest = {} THEN NoBatch ELSE next]
  BY DEF NextEvent
<1>2. NoBatch.at = "idle" /\ \A e \in Events : NoBatch.retry[e] = 0
  BY DEF NoBatch
<1> HIDE DEF rest
<1>3. next.at = "mark" /\ next.retry = dispatcher[i].retry
  BY DEF NoBatch
<1> HIDE DEF next
<1>4. dispatcher'[i] = NoBatch \/ dispatcher'[i] = next
  BY <1>1 DEF Inv, TypeOK
<1> QED BY <1>2, <1>3, <1>4

LEMMA DispatcherGoes ==
  ASSUME Inv, NEW i \in Instances, DispatcherStep(i) \/ DispatcherThrows(i) \/ Crash(i)
  PROVE  /\ dispatcher'[i].at = "deliveries" => FindSubscriptions(i)
         /\ dispatcher'[i].at \in {"create", "status"} => FindDeliveries(i)
         /\ dispatcher'[i].at = "write" => FindDeliveries(i) \/ ReadStatus(i)
         /\ dispatcher'[i].at = "retry" => CreateDeliveries(i) \/ DispatcherThrows(i)
<1>1. Poll(i) => dispatcher'[i].at = "mark"
  BY DEF Poll, NoBatch, Inv, TypeOK
<1>2. MarkProcessing(i) => dispatcher'[i].at = "subscriptions"
  BY DEF MarkProcessing, Inv, TypeOK
<1>3. FindDeliveries(i) => dispatcher'[i].at \in {"create", "write", "status", "enqueue"}
  BY FindDeliveriesTo
<1>4. EnqueueDeliveries(i) \/ UpdateOutbox(i) \/ MarkForRetry(i) =>
        dispatcher'[i].at \in {"idle", "mark"}
  BY BatchGoesOn DEF EnqueueDeliveries, UpdateOutbox, MarkForRetry
<1>5. DispatcherThrows(i) => dispatcher'[i].at \in {"idle", "retry"}
  <2>1. dispatcher' = [dispatcher EXCEPT ![i] = NoBatch] => dispatcher'[i].at = "idle"
    BY DEF NoBatch, Inv, TypeOK
  <2> QED BY <2>1, FailsTo DEF DispatcherThrows
<1>6. Crash(i) => dispatcher'[i].at = "idle"
  BY DEF Crash, NoBatch, Inv, TypeOK
<1>7. FindSubscriptions(i) => dispatcher'[i].at = "deliveries"
  BY FindSubscriptionsTo
<1>8. CreateDeliveries(i) => dispatcher'[i].at \in {"enqueue", "retry"}
  BY CreateDeliveriesTo
<1>9. ReadStatus(i) => dispatcher'[i].at = "write"
  BY ReadStatusTo
<1> QED BY <1>1, <1>2, <1>3, <1>4, <1>5, <1>6, <1>7, <1>8, <1>9 DEF DispatcherStep

-----------------------------------------------------------------------------
\* The rows say no more than what has happened.

LEMMA InitRecorded == Init => Recorded
<1> SUFFICES ASSUME Init PROVE Recorded
  OBVIOUS
<1>1. \A d \in Deliveries : ~Exists(d)
  BY DEF Init, Exists
<1>2. \A i \in Instances : worker[i].at = "idle"
  BY DEF Init, NoJob
<1> QED BY <1>1, <1>2 DEF Recorded, RowRecorded, WorkRecorded, Does

LEMMA RowRecordedStep ==
  ASSUME Inv, Heard, Recorded, [Next]_vars, NEW d \in Deliveries
  PROVE  RowRecorded(d)'
<1>1. accepted \subseteq accepted' /\ posts[d] \in Nat /\ posts'[d] \in Nat /\ posts[d] <= posts'[d]
  BY HistoryGrows
<1>2. Exists(d) => delivery[d].attempts \in Nat
  BY BoundsAssumption DEF Exists, Inv, TypeOK, DeliveryRows
<1>3. CASE delivery'[d] = delivery[d]
  BY <1>1, <1>2, <1>3 DEF Recorded, RowRecorded, Exists
<1>4. CASE delivery'[d] = [status |-> "pending", attempts |-> 0]
  BY <1>1, <1>4 DEF RowRecorded
<1>5. ASSUME NEW i \in Instances, NEW status \in {"success", "pending", "failed"},
             Target(i) = d,
             Does(i, "saveSuccess") \/ Does(i, "saveFailure"),
             status = "success" => Does(i, "saveSuccess"),
             status = "failed" => ~Retries(i),
             delivery'[d] = [status |-> status, attempts |-> worker[i].attempts]
      PROVE  RowRecorded(d)'
  <2>1. /\ worker[i].attempts \in 0..MaxAttempts /\ MaxAttempts \in Nat
        /\ worker[i].attempts <= posts[d]
    BY <1>5, BoundsAssumption DEF Recorded, WorkRecorded, Inv, TypeOK, Workers
  <2>2. status = "failed" => worker[i].attempts = MaxAttempts
    BY <1>5, <2>1 DEF Retries
  <2>3. status = "success" => d \in accepted'
    BY <1>1, <1>5 DEF Heard
  <2> QED BY <1>1, <1>5, <2>1, <2>2, <2>3 DEF RowRecorded
<1> QED BY <1>3, <1>4, <1>5, RowChanges

LEMMA WorkRecordedStep ==
  ASSUME Inv, Recorded, [Next]_vars, NEW i \in Instances
  PROVE  WorkRecorded(i)'
<1> SUFFICES ASSUME Sending(i)' PROVE WorkRecorded(i)'
  BY DEF WorkRecorded, Sending, Does
<1> DEFINE d == Target(i)
<1>1. worker[i].at # "idle" =>
        d \in Deliveries /\ posts[d] \in Nat /\ posts'[d] \in Nat /\ posts[d] <= posts'[d]
  BY HistoryGrows, Pairs DEF Inv, Works, Target, Does
<1>2. worker[i].attempts \in Nat
  BY BoundsAssumption DEF Inv, TypeOK, Workers
<1>3. ASSUME worker'[i].at = worker[i].at, worker'[i].job = worker[i].job,
             worker'[i].attempts = worker[i].attempts
      PROVE  WorkRecorded(i)'
  BY <1>1, <1>2, <1>3 DEF Recorded, WorkRecorded, Does, Target
<1>4. CASE WorkerStep(i) \/ WorkerThrows(i)
  <2>1. Target(i)' = d
    BY <1>4, SendingFrom DEF Target
  <2>2. CASE /\ Does(i, "find") /\ worker'[i].at = "post"
             /\ worker'[i].attempts = delivery[d].attempts + 1
    <3>1. Exists(d) /\ d \in Deliveries
      BY <1>1, <2>2 DEF Inv, Works, Does
    <3>2. delivery[d].attempts \in Nat /\ delivery[d].attempts <= posts[d]
      BY <3>1, BoundsAssumption DEF Recorded, RowRecorded, Exists, Inv, TypeOK, DeliveryRows
    <3> QED BY <1>1, <2>1, <2>2, <3>2 DEF WorkRecorded, Does
  <2>3. CASE /\ \E ok \in BOOLEAN : Post(i, ok)
             /\ worker'[i].at \in {"saveSuccess", "saveFailure"}
             /\ worker'[i].attempts = worker[i].attempts
    <3>1. Does(i, "post") /\ posts' = [posts EXCEPT ![d] = @ + 1]
      BY <2>3 DEF Post
    <3>2. d \in Deliveries /\ worker[i].attempts <= posts[d] + 1
      BY <1>1, <3>1 DEF Recorded, WorkRecorded, Does
    <3>3. posts'[d] = posts[d] + 1
      BY <3>1, <3>2 DEF Inv, TypeOK
    <3> QED BY <2>1, <2>3, <3>2, <3>3 DEF WorkRecorded, Does
  <2>4. CASE /\ Does(i, "saveSuccess") /\ worker'[i].at = "saveFailure"
             /\ worker'[i].attempts = worker[i].attempts
    <3>1. worker[i].attempts <= posts[d] /\ worker[i].at # "idle"
      BY <2>4 DEF Recorded, WorkRecorded, Does
    <3> QED BY <1>1, <1>2, <2>1, <2>4, <3>1 DEF WorkRecorded, Does
  <2> QED BY <1>4, <2>2, <2>3, <2>4, SendingFrom
<1>5. CASE Crash(i)
  <2>1. worker'[i].at = "idle"
    BY <1>5 DEF Crash, NoJob, Inv, TypeOK
  <2> QED BY <2>1 DEF Sending
<1>6. CASE LoseLock(i)
  <2>1. /\ worker'[i].at = worker[i].at /\ worker'[i].job = worker[i].job
        /\ worker'[i].attempts = worker[i].attempts
    BY <1>6 DEF LoseLock, Inv, TypeOK
  <2> QED BY <1>3, <2>1
<1>7. CASE UNCHANGED worker[i]
  BY <1>3, <1>7
<1> QED BY <1>4, <1>5, <1>6, <1>7, WorkerActs

LEMMA RecordedAlways == Spec => []Recorded
<1>1. Init => Recorded
  BY InitRecorded
<1>2. Inv /\ Heard /\ Recorded /\ [Next]_vars => Recorded'
  BY RowRecordedStep, WorkRecordedStep DEF Recorded
<1> QED BY <1>1, <1>2, Invariance, HeardAlways, PTL DEF Spec

-----------------------------------------------------------------------------
\* The rows of the early subscribers.

LEMMA InitPlanned == Init => Planned
<1> SUFFICES ASSUME Init PROVE Planned
  OBVIOUS
<1>1. \A e \in Events : Of(e) = {}
  BY DEF Init, Of
<1>2. \A i \in Instances : dispatcher[i].at = "idle"
  BY DEF Init, NoBatch
<1>3. EarlySubs \subseteq active
  BY DEF Init
<1> QED BY <1>1, <1>2, <1>3 DEF Planned, Together, Plans, At

LEMMA TogetherStep ==
  ASSUME Inv, Planned, [Next]_vars
  PROVE  Together'
<1> SUFFICES ASSUME NEW e \in Events, NEW x \in Of(e)', NEW d \in Owed(e)
             PROVE  Exists(d)'
  BY DEF Together, Owed
<1>1. x \in Deliveries /\ x[1] = e /\ Exists(x)' /\ d \in Deliveries
  BY DEF Of, Exists, Owed
<1>2. CASE Exists(x)
  <2>1. Exists(d)
    BY <1>1, <1>2 DEF Planned, Together, Of, Exists
  <2> QED BY <1>1, <2>1, RowsStay
<1>3. CASE ~Exists(x)
  <2>1. PICK i \in Instances :
          /\ CreateDeliveries(i) /\ At(i, "create") /\ x \in dispatcher[i].missing
          /\ \A y \in dispatcher[i].missing : ~Exists(y) /\ Exists(y)'
    BY <1>1, <1>3, RowsAppear
  <2>2. Exists(d) \/ d \in dispatcher[i].missing
    BY <1>1, <2>1 DEF Planned, Plans
  <2> QED BY <1>1, <2>1, <2>2, RowsStay
<1> QED BY <1>2, <1>3

LEMMA PlansStep ==
  ASSUME Inv, Planned, [Next]_vars, NEW i \in Instances
  PROVE  Plans(i)'
<1>1. \A d \in Deliveries : Exists(d) => Exists(d)'
  BY RowsStay
<1>2. \A e \in Events : Of(e) # {} => Of(e)' # {}
  BY <1>1 DEF Of, Exists
<1>3. ASSUME UNCHANGED dispatcher[i] PROVE Plans(i)'
  <2>1. Current(i)' = Current(i)
    BY <1>3 DEF Current
  <2>2. At(i, "status") => Of(Current(i))' # {}
    <3>1. At(i, "status") => Current(i) \in Events
      BY CurrentType DEF Inv, Dispatches, At
    <3> QED BY <1>2, <2>1, <3>1 DEF Planned, Plans, Of
  <2> QED BY <1>1, <1>3, <2>1, <2>2 DEF Planned, Plans, At, Owed, Exists
<1>4. ASSUME DispatcherStep(i) \/ DispatcherThrows(i) \/ Crash(i) PROVE Plans(i)'
  <2>1. CASE FindSubscriptions(i)
    <3>1. /\ dispatcher'[i].at = "deliveries" /\ Current(i)' = Current(i)
          /\ dispatcher'[i].subs = {s \in active : <<Current(i), s>> \in Matching}
      BY <2>1, FindSubscriptionsTo DEF Current
    <3>2. \A d \in Owed(Current(i)) : d[2] \in active /\ <<Current(i), d[2]>> \in Matching
      BY Pairs DEF Owed, Planned, Deliveries
    <3>3. \A d \in Owed(Current(i)) : d[2] \in dispatcher'[i].subs
      BY <3>1, <3>2
    <3> QED BY <3>1, <3>3 DEF Plans, At, Owed
  <2>2. CASE FindDeliveries(i)
    <3> DEFINE missing == {d \in {Current(i)} \X dispatcher[i].subs : delivery[d] = None}
    <3>1. /\ At(i, "deliveries") /\ Current(i)' = Current(i)
          /\ dispatcher'[i].missing = missing
          /\ dispatcher'[i].at \in {"create", "write", "status", "enqueue"}
          /\ dispatcher'[i].at = "status" => Of(Current(i)) # {}
      BY <2>2, FindDeliveriesTo DEF Current
    <3>2. UNCHANGED delivery
      BY <2>2 DEF FindDeliveries
    <3>3. \A d \in Owed(Current(i)) : Exists(d) \/ d \in missing
      BY <3>1, Pairs DEF Planned, Plans, Owed, Exists
    <3>4. \A d \in missing : d[1] = Current(i)
      OBVIOUS
    <3>5. Of(Current(i))' = Of(Current(i))
      BY <3>1, <3>2 DEF Of
    <3>6. \A d \in Owed(Current(i)) : Exists(d)' \/ d \in missing
      BY <3>2, <3>3 DEF Exists
    <3> HIDE DEF missing
    <3> QED BY <3>1, <3>4, <3>5, <3>6 DEF Plans, At, Owed
  <2>3. CASE ~FindSubscriptions(i) /\ ~FindDeliveries(i)
    BY <1>4, <2>3, DispatcherGoes DEF Plans, At
  <2> QED BY <2>1, <2>2, <2>3
<1> QED BY <1>3, <1>4, DispatcherActs

LEMMA PlannedStep == Inv /\ Planned /\ [Next]_vars => Planned'
<1> SUFFICES ASSUME Inv, Planned, [Next]_vars PROVE Planned'
  OBVIOUS
<1>1. active \subseteq active'
  BY DEF Next, CommitEvent, Elapse, RegisterWebhook, BackoffOver, Evict, DispatcherStep,
         Poll, MarkProcessing, FindSubscriptions, FindDeliveries, CreateDeliveries,
         EnqueueDeliveries, ReadStatus, UpdateOutbox, MarkForRetry, DispatcherThrows,
         WorkerStep, TakeJob, Post, FindDelivery, SaveSuccess, SaveFailure, EnqueueRetry,
         ReadOutcome, WriteOutcome, WorkerThrows, Crash, LoseLock, vars
<1> QED BY <1>1, TogetherStep, PlansStep DEF Planned

-----------------------------------------------------------------------------
\* What the updates of outbox rows say.

LEMMA OverStays ==
  ASSUME Inv, [Next]_vars, NEW e
  PROVE  (Done(e) => Done(e)') /\ (Over(e) => Over(e)')
<1>1. \A d \in Owed(e) : d \in Deliveries
  BY DEF Owed
<1>2. Owed(e)' = Owed(e)
  BY DEF Owed
<1> QED BY <1>1, <1>2, HistoryGrows, BoundsAssumption DEF Done, Over

LEMMA TruthStays ==
  ASSUME Inv, [Next]_vars, NEW e, NEW update, Truthful(update, e)
  PROVE  Truthful(update, e)'
  BY OverStays DEF Truthful

LEMMA StatusIsTruthful ==
  ASSUME Inv, Recorded, Planned, NEW e \in Events, Of(e) # {}
  PROVE  Truthful(StatusFor(e), e)
<1>1. \A d \in Owed(e) : d \in Of(e) /\ Exists(d) /\ RowRecorded(d)
  BY DEF Planned, Together, Of, Owed, Exists, Recorded
<1>2. CASE \A d \in Of(e) : delivery[d].status = "success"
  <2>1. Done(e)
    BY <1>1, <1>2 DEF Done, RowRecorded
  <2> QED BY <1>2, <2>1 DEF StatusFor, Truthful
<1>3. CASE /\ ~ \A d \in Of(e) : delivery[d].status = "success"
           /\ \A d \in Of(e) : delivery[d].status # "pending"
  <2>1. ASSUME NEW d \in Owed(e) PROVE d \in accepted \/ posts[d] >= MaxAttempts
    <3>1. /\ d \in Deliveries /\ posts[d] \in Nat /\ MaxAttempts \in Nat
          /\ delivery[d].status \in {"success", "failed"}
      BY <1>1, <1>3, BoundsAssumption DEF Of, Exists, Inv, TypeOK, DeliveryRows
    <3> QED BY <1>1, <3>1 DEF RowRecorded
  <2> QED BY <1>3, <2>1 DEF StatusFor, Truthful, Over
<1>4. CASE /\ ~ \A d \in Of(e) : delivery[d].status = "success"
           /\ ~ \A d \in Of(e) : delivery[d].status # "pending"
  BY <1>4 DEF StatusFor, Truthful
<1> QED BY <1>2, <1>3, <1>4

Written(e, update) ==
    /\ outbox'[e].status = update.status
    /\ outbox'[e].retry = IF update.retry = None THEN outbox[e].retry ELSE update.retry

LEMMA WritesRow ==
  ASSUME TypeOK, NEW e \in Events, NEW c \in Events, NEW update \in Updates,
         WriteStatus(c, update)
  PROVE  outbox'[e] = outbox[e] \/ (e = c /\ Written(e, update))
  BY DEF WriteStatus, Written, Updates, TypeOK

LEMMA OutboxChanges ==
  ASSUME Inv, [Next]_vars, NEW e \in Events
  PROVE  \/ outbox'[e] = outbox[e]
         \/ outbox'[e].status \in {"pending", "processing"} /\ outbox'[e].retry = outbox[e].retry
         \/ \E i \in Instances :
              At(i, "write") /\ e = Current(i) /\ Written(e, dispatcher[i].write)
         \/ \E i \in Instances :
              Does(i, "writeStatus") /\ e = Target(i)[1] /\ Written(e, worker[i].write)
         \/ \E i \in Instances :
              At(i, "retry") /\ e = Current(i) /\ Written(e, Retried(i))
<1>1. \A i \in Instances : ~At(i, "idle") => Current(i) \in Events
  BY CurrentType DEF Inv, Dispatches
<1>2. ASSUME NEW f \in Events, CommitEvent(f)
      PROVE  \/ outbox'[e] = outbox[e]
             \/ outbox'[e].status = "pending" /\ outbox'[e].retry = outbox[e].retry
  BY <1>2 DEF CommitEvent, Inv, TypeOK
<1>3. ASSUME NEW i \in Instances, MarkProcessing(i)
      PROVE  \/ outbox'[e] = outbox[e]
             \/ outbox'[e].status = "processing" /\ outbox'[e].retry = outbox[e].retry
  <2> DEFINE update == [status |-> "processing", retry |-> None]
  <2>1. WriteStatus(Current(i), update) /\ Current(i) \in Events
    BY <1>1, <1>3 DEF MarkProcessing, At
  <2>2. update \in Updates /\ update.status = "processing" /\ update.retry = None
    BY DEF Updates, OutboxStatuses
  <2> HIDE DEF update
  <2> QED BY <2>1, <2>2, WritesRow DEF Written, Inv
<1>4. ASSUME NEW i \in Instances, At(i, "write"),
             WriteStatus(Current(i), dispatcher[i].write)
      PROVE  \/ outbox'[e] = outbox[e]
             \/ At(i, "write") /\ e = Current(i) /\ Written(e, dispatcher[i].write)
  BY <1>1, <1>4, WritesRow DEF At, Inv, Dispatches
<1>5. ASSUME NEW i \in Instances, WriteOutcome(i)
      PROVE  \/ outbox'[e] = outbox[e]
             \/ Does(i, "writeStatus") /\ e = Target(i)[1] /\ Written(e, worker[i].write)
  <2>1. Target(i)[1] \in Events /\ worker[i].write \in Updates
    BY <1>5, Pairs DEF WriteOutcome, Does, Inv, Works, Target
  <2> QED BY <1>5, <2>1, WritesRow DEF WriteOutcome, Inv
<1>6. ASSUME NEW i \in Instances, At(i, "retry"), WriteStatus(Current(i), Retried(i))
      PROVE  \/ outbox'[e] = outbox[e]
             \/ At(i, "retry") /\ e = Current(i) /\ Written(e, Retried(i))
  <2>1. Current(i) \in Events
    BY <1>1, <1>6 DEF At
  <2>2. Retried(i) \in Updates
    <3>1. dispatcher[i].retry[Current(i)] + 1 \in Nat
      BY <2>1 DEF Inv, TypeOK, Dispatchers
    <3> QED BY <3>1 DEF Retried, Updates, OutboxStatuses
  <2> QED BY <1>6, <2>1, <2>2, WritesRow DEF Inv
<1>7. \/ UNCHANGED outbox
      \/ \E f \in Events : CommitEvent(f)
      \/ \E i \in Instances :
           \/ MarkProcessing(i) \/ WriteOutcome(i)
           \/ At(i, "write") /\ WriteStatus(Current(i), dispatcher[i].write)
           \/ At(i, "retry") /\ WriteStatus(Current(i), Retried(i))
  BY DEF Next, Elapse, RegisterWebhook, BackoffOver, Evict, DispatcherStep, Poll,
         FindSubscriptions, FindDeliveries, CreateDeliveries, EnqueueDeliveries,
         ReadStatus, UpdateOutbox, MarkForRetry, DispatcherThrows, WorkerStep, TakeJob,
         Post, FindDelivery, SaveSuccess, SaveFailure, EnqueueRetry, ReadOutcome,
         WorkerThrows, Crash, LoseLock, vars, rows
<1> QED BY <1>2, <1>3, <1>4, <1>5, <1>6, <1>7

LEMMA InitTold == Init => Told
<1> SUFFICES ASSUME Init PROVE Told
  OBVIOUS
<1>1. \A i \in Instances : dispatcher[i].at = "idle" /\ worker[i].at = "idle"
  BY DEF Init, NoBatch, NoJob
<1>2. \A e \in Events : outbox[e].status = "absent"
  BY DEF Init
<1> QED BY <1>1, <1>2 DEF Told, At, Does

LEMMA DispatcherTold ==
  ASSUME Inv, Recorded, Planned, Told, [Next]_vars, NEW i \in Instances, At(i, "write")'
  PROVE  Truthful(dispatcher[i].write, Current(i))'
<1>1. CASE UNCHANGED dispatcher[i]
  <2> DEFINE update == dispatcher[i].write
             e == Current(i)
  <2>1. Truthful(update, e)
    BY <1>1 DEF Told, At
  <2>2. \A u, f : u = update /\ f = e => Truthful(u, f)'
    BY <2>1, TruthStays
  <2>3. Current(i)' = e /\ dispatcher'[i].write = update
    BY <1>1 DEF Current
  <2> QED BY <2>2, <2>3 DEF Truthful, Done, Over, Owed
<1>2. CASE DispatcherStep(i) \/ DispatcherThrows(i) \/ Crash(i)
  <2>1. CASE FindDeliveries(i)
    <3> DEFINE missing == {d \in {Current(i)} \X dispatcher[i].subs : delivery[d] = None}
    <3>1. /\ At(i, "deliveries") /\ Current(i)' = Current(i)
          /\ missing = {} /\ Of(Current(i)) = {}
          /\ dispatcher'[i].write = [status |-> "published", retry |-> None]
      BY <2>1, FindDeliveriesTo DEF Current, At
    <3>2. \A d \in Owed(Current(i)) : d \in missing \/ d \in Of(Current(i))
      BY <3>1, Pairs DEF Planned, Plans, Owed, Of
    <3>3. Owed(Current(i)) = {}
      BY <3>1, <3>2
    <3>4. Done(Current(i))'
      BY <3>1, <3>3 DEF Done, Owed
    <3> QED BY <3>1, <3>4 DEF Truthful
  <2>2. CASE ReadStatus(i)
    <3>1. /\ At(i, "status") /\ Current(i)' = Current(i)
          /\ dispatcher'[i].write = StatusFor(Current(i))
          /\ UNCHANGED <<posts, accepted>>
      BY <2>2, ReadStatusTo DEF Current, ReadStatus, history
    <3>2. Current(i) \in Events /\ Of(Current(i)) # {}
      BY <3>1, CurrentType DEF Inv, Dispatches, At, Planned, Plans
    <3>3. Truthful(StatusFor(Current(i)), Current(i))
      BY <3>2, StatusIsTruthful
    <3> QED BY <3>1, <3>3 DEF Truthful, Done, Over, Owed
  <2> QED BY <1>2, <2>1, <2>2, DispatcherGoes DEF At
<1> QED BY <1>1, <1>2, DispatcherActs

\* A worker comes to write a status from reading it.
LEMMA WriteStatusFrom ==
  ASSUME Inv, NEW i \in Instances,
         WorkerStep(i) \/ WorkerThrows(i) \/ Crash(i) \/ LoseLock(i),
         Does(i, "writeStatus")'
  PROVE  /\ worker'[i].job = worker[i].job
         /\ \/ ReadOutcome(i) /\ worker'[i].write = StatusFor(Target(i)[1])
            \/ Does(i, "writeStatus") /\ worker'[i].write = worker[i].write
<1>1. CASE Finish(i) \/ Crash(i) \/ \E j \in Jobs : TakeJob(i, j)
  <2>1. Finish(i) \/ Crash(i) => worker'[i].at = "idle"
    BY DEF Finish, Crash, NoJob, Inv, TypeOK
  <2>2. ASSUME NEW j \in Jobs, TakeJob(i, j) PROVE worker'[i].at = "find"
    BY <2>2 DEF TakeJob, NoJob, Inv, TypeOK
  <2> QED BY <1>1, <2>1, <2>2 DEF Does
<1>2. CASE FindDelivery(i) /\ ~Finish(i)
  <2>1. PICK n : worker' = [worker EXCEPT ![i].at = "post", ![i].attempts = n]
    BY <1>2 DEF FindDelivery
  <2> QED BY <2>1 DEF Does, Inv, TypeOK
<1>3. ASSUME NEW step \in WorkerSteps \ {"writeStatus"}, Goto(i, step) PROVE FALSE
  BY <1>3 DEF Goto, Does, Inv, TypeOK
<1>4. CASE \/ SaveSuccess(i) \/ SaveFailure(i) \/ EnqueueRetry(i)
           \/ \E ok \in BOOLEAN : Post(i, ok)
           \/ WorkerThrows(i) /\ ~Finish(i)
  BY <1>3, <1>4 DEF SaveSuccess, SaveFailure, EnqueueRetry, Post, WorkerThrows, WorkerSteps
<1>5. CASE ReadOutcome(i)
  BY <1>5 DEF ReadOutcome, Inv, TypeOK
<1>6. CASE LoseLock(i)
  BY <1>6 DEF LoseLock, Does, Inv, TypeOK
<1> QED BY <1>1, <1>2, <1>4, <1>5, <1>6 DEF WorkerStep, WriteOutcome

LEMMA WorkerTold ==
  ASSUME Inv, Recorded, Planned, Told, [Next]_vars, NEW i \in Instances,
         Does(i, "writeStatus")'
  PROVE  Truthful(worker[i].write, Target(i)[1])'
<1>1. CASE /\ worker'[i].job = worker[i].job /\ worker'[i].write = worker[i].write
           /\ Does(i, "writeStatus")
  <2>1. Truthful(worker[i].write, Target(i)[1])
    BY <1>1 DEF Told
  <2>2. \A u, f : u = worker[i].write /\ f = Target(i)[1] => Truthful(u, f)'
    BY <2>1, TruthStays
  <2> QED BY <1>1, <2>2 DEF Target, Truthful, Done, Over, Owed
<1>2. CASE /\ worker'[i].job = worker[i].job /\ ReadOutcome(i)
           /\ worker'[i].write = StatusFor(Target(i)[1])
  <2>1. /\ Target(i) \in Deliveries /\ Exists(Target(i))
        /\ UNCHANGED <<posts, accepted>>
    BY <1>2, Pairs DEF ReadOutcome, Does, Inv, Works, Target, history
  <2>2. Target(i)[1] \in Events /\ Of(Target(i)[1]) # {}
    BY <2>1, Pairs DEF Of, Exists
  <2>3. Truthful(StatusFor(Target(i)[1]), Target(i)[1])
    BY <2>2, StatusIsTruthful
  <2>4. Target(i)' = Target(i)
    BY <1>2 DEF Target
  <2> QED BY <1>2, <2>1, <2>3, <2>4 DEF Truthful, Done, Over, Owed
<1>3. CASE UNCHANGED worker[i]
  BY <1>1, <1>3 DEF Does
<1>4. CASE WorkerStep(i) \/ WorkerThrows(i) \/ Crash(i) \/ LoseLock(i)
  BY <1>1, <1>2, <1>4, WriteStatusFrom
<1> QED BY <1>3, <1>4, WorkerActs

LEMMA ToldStep == Inv /\ Recorded /\ Planned /\ Told /\ [Next]_vars => Told'
<1> SUFFICES ASSUME Inv, Recorded, Planned, Told, [Next]_vars PROVE Told'
  OBVIOUS
<1>1. ASSUME NEW e \in Events, outbox'[e].status = "published" PROVE Done(e)'
  <2>1. Done(e)
    BY <1>1, OutboxChanges DEF Told, Truthful, Written, Retried
  <2> QED BY <2>1, OverStays
<1> QED BY <1>1, DispatcherTold, WorkerTold DEF Told

LEMMA ToldAlways == Spec => []Told
<1>1. Spec => []Planned
  BY InitPlanned, PlannedStep, Invariance, PTL DEF Spec
<1>2. Spec => []Told
  BY <1>1, InitTold, ToldStep, Invariance, RecordedAlways, PTL DEF Spec
<1> QED BY <1>2

(***************************************************************************)
(* PublishedIsDelivered: an event is PUBLISHED only when the endpoints of  *)
(* all those who had subscribed before it have answered with a 2xx,        *)
(* whatever dies, throws or is forgotten, with any number of instances.    *)
(***************************************************************************)
THEOREM PublicationIsDelivery == Spec => []PublishedIsDelivered
<1>1. Told => PublishedIsDelivered
  BY DEF Told, PublishedIsDelivered, Done
<1> QED BY <1>1, ToldAlways, PTL

-----------------------------------------------------------------------------
\* The retry counts.

LEMMA InitCounts == Init => Counts
<1> SUFFICES ASSUME Init PROVE Counts
  OBVIOUS
<1>1. \A e \in Events : failures[e] = 0
  BY DEF Init
<1>2. \A i \in Instances :
        dispatcher[i].at = "idle" /\ \A e \in Events : dispatcher[i].retry[e] = 0
  BY DEF Init, NoBatch
<1>3. \A e \in Events : outbox[e].status = "absent" /\ outbox[e].retry = 0
  BY DEF Init
<1>4. \A i \in Instances : ~At(i, "retry")
  BY <1>2 DEF At
<1> QED BY <1>1, <1>2, <1>3, <1>4 DEF Counts, Counted

LEMMA CountStays ==
  ASSUME Inv, [Next]_vars, NEW e \in Events, NEW n \in Nat, Counted(n, e)
  PROVE  Counted(n, e)'
  BY HistoryGrows, OverStays DEF Counted

LEMMA RetryFrom ==
  ASSUME Inv, NEW i \in Instances, DispatcherStep(i) \/ DispatcherThrows(i) \/ Crash(i),
         NEW e \in Events
  PROVE  dispatcher'[i].retry[e] \in {0, dispatcher[i].retry[e], outbox[e].retry}
<1>1. Poll(i) => dispatcher'[i].retry[e] = outbox[e].retry
  BY DEF Poll, NoBatch, Inv, TypeOK
<1>2. MarkProcessing(i) => dispatcher'[i].retry = dispatcher[i].retry
  BY DEF MarkProcessing, Inv, TypeOK
<1>3. FindSubscriptions(i) \/ FindDeliveries(i) \/ CreateDeliveries(i) \/ ReadStatus(i) =>
        dispatcher'[i].retry = dispatcher[i].retry
  BY FindSubscriptionsTo, FindDeliveriesTo, CreateDeliveriesTo, ReadStatusTo
<1>4. EnqueueDeliveries(i) \/ UpdateOutbox(i) \/ MarkForRetry(i) =>
        dispatcher'[i].retry[e] \in {0, dispatcher[i].retry[e]}
  BY BatchGoesOn DEF EnqueueDeliveries, UpdateOutbox, MarkForRetry
<1>5. DispatcherThrows(i) \/ Crash(i) => dispatcher'[i].retry[e] \in {0, dispatcher[i].retry[e]}
  <2>1. NoBatch.retry[e] = 0
    BY DEF NoBatch
  <2>2. ASSUME Crash(i) PROVE dispatcher'[i] = NoBatch
    BY <2>2 DEF Crash, Inv, TypeOK
  <2>3. ASSUME DispatcherThrows(i)
        PROVE  dispatcher'[i] = NoBatch \/ dispatcher'[i].retry = dispatcher[i].retry
    BY <2>3, FailsTo DEF DispatcherThrows, Inv, TypeOK
  <2> QED BY <2>1, <2>2, <2>3
<1> QED BY <1>1, <1>2, <1>3, <1>4, <1>5 DEF DispatcherStep

LEMMA CountedRetry ==
  ASSUME Inv, Counts, [Next]_vars, NEW i \in Instances, NEW e \in Events
  PROVE  Counted(dispatcher[i].retry[e], e)'
<1>1. dispatcher[i].retry[e] \in Nat /\ outbox[e].retry \in Nat
  BY DEF Inv, TypeOK, Dispatchers
<1>2. dispatcher'[i].retry[e] \in {0, dispatcher[i].retry[e], outbox[e].retry}
  BY RetryFrom, DispatcherActs
<1>3. \A n \in {0, dispatcher[i].retry[e], outbox[e].retry} : n \in Nat /\ Counted(n, e)
  BY <1>1 DEF Counts, Counted, Inv, TypeOK
<1>4. \A n \in {0, dispatcher[i].retry[e], outbox[e].retry} : Counted(n, e)'
  BY <1>3, CountStays
<1> QED BY <1>2, <1>4 DEF Counted, Over, Owed

LEMMA CountedMark ==
  ASSUME Inv, Counts, [Next]_vars, NEW i \in Instances,
         At(i, "retry")'
  PROVE  Counted(dispatcher[i].retry[Current(i)] + 1, Current(i))'
<1>1. CASE UNCHANGED dispatcher[i]
  <2>1. /\ Current(i) \in Events /\ Current(i)' = Current(i)
        /\ Counted(dispatcher[i].retry[Current(i)] + 1, Current(i))
    BY <1>1, CurrentType DEF Counts, At, Current, Inv, Dispatches
  <2>2. dispatcher[i].retry[Current(i)] + 1 \in Nat
    BY <2>1 DEF Inv, TypeOK, Dispatchers
  <2>3. \A e \in Events, n \in Nat :
          e = Current(i) /\ n = dispatcher[i].retry[Current(i)] + 1 => Counted(n, e)'
    BY <2>1, <2>2, CountStays
  <2> QED BY <1>1, <2>1, <2>2, <2>3 DEF Counted, Over, Owed
<1>2. CASE DispatcherStep(i) \/ DispatcherThrows(i) \/ Crash(i)
  <2>1. DispatchFails(i) /\ ~At(i, "idle")
    <3>1. CASE CreateDeliveries(i)
      BY <3>1, CreateDeliveriesTo DEF CreateDeliveries, At
    <3>2. CASE DispatcherThrows(i)
      <4>1. ASSUME dispatcher' = [dispatcher EXCEPT ![i] = NoBatch] PROVE FALSE
        <5>1. dispatcher'[i].at = "idle"
          BY <4>1 DEF NoBatch, Inv, TypeOK
        <5> QED BY <5>1 DEF At
      <4> QED BY <3>2, <4>1 DEF DispatcherThrows
    <3> QED BY <1>2, <3>1, <3>2, DispatcherGoes DEF At
  <2>2. /\ dispatcher[i].batch # {}
        /\ dispatcher'[i].batch = dispatcher[i].batch
        /\ dispatcher'[i].retry = dispatcher[i].retry
    BY <2>1, FailsTo DEF Inv, Dispatches
  <2>3. PICK e \in Events : e = Current(i) /\ e = Current(i)'
    BY <2>2, CurrentType DEF Inv, Current
  <2>4. failures[e] \in Nat /\ failures'[e] = failures[e] + 1
    BY <2>1, <2>3 DEF DispatchFails, Inv, TypeOK
  <2>5. dispatcher[i].retry[e] \in Nat /\ Counted(dispatcher[i].retry[e], e)
    BY <2>3 DEF Counts, Inv, TypeOK, Dispatchers
  <2>6. Over(e) => Over(e)'
    BY OverStays
  <2> QED BY <2>2, <2>3, <2>4, <2>5, <2>6 DEF Counted, Over, Owed
<1> QED BY <1>1, <1>2, DispatcherActs

LEMMA CountedRow ==
  ASSUME Inv, Told, Counts, [Next]_vars, NEW e \in Events
  PROVE  /\ Counted(outbox[e].retry, e)'
         /\ outbox'[e].status = "failed" => Over(e)' \/ failures'[e] >= OutboxMax
<1> DEFINE Fails(u) == /\ Counted(u.retry, e)
                       /\ u.status = "failed" => Over(e) \/ failures[e] >= OutboxMax
<1>1. outbox[e].retry \in Nat /\ OutboxMax \in Nat /\ failures[e] \in Nat
  BY BoundsAssumption DEF Inv, TypeOK
<1>2. outbox'[e].retry \in Nat
  <2>1. Inv'
    BY StepInv
  <2> QED BY <2>1 DEF Inv, TypeOK
<1>3. Fails(outbox[e])
  BY DEF Counts
<1>4. ASSUME NEW update, Truthful(update, e), Written(e, update)
      PROVE  Fails(outbox'[e])
  <2>1. CASE update.status = "failed"
    BY <1>4, <2>1 DEF Truthful, Counted
  <2>2. CASE update.status # "failed"
    BY <1>3, <1>4, <2>2 DEF Truthful, Written
  <2> QED BY <2>1, <2>2
<1>5. ASSUME NEW i \in Instances, At(i, "retry"), e = Current(i), Written(e, Retried(i))
      PROVE  Fails(outbox'[e])
  <2> DEFINE n == dispatcher[i].retry[e] + 1
  <2>1. n \in Nat /\ Counted(n, e)
    BY <1>5 DEF Counts, Inv, TypeOK, Dispatchers
  <2>2. /\ outbox'[e].status = IF n < OutboxMax THEN "pending" ELSE "failed"
        /\ outbox'[e].retry = IF n = None THEN outbox[e].retry ELSE n
    BY <1>5 DEF Written, Retried
  <2> HIDE DEF n
  <2> QED BY <1>1, <1>3, <2>1, <2>2 DEF Counted
<1>6. Fails(outbox'[e])
  BY <1>3, <1>4, <1>5, OutboxChanges DEF Told
<1> QED BY <1>1, <1>2, <1>6, CountStays, OverStays DEF Counted

LEMMA CountsStep == Inv /\ Told /\ Counts /\ [Next]_vars => Counts'
<1> SUFFICES ASSUME Inv, Told, Counts, [Next]_vars PROVE Counts'
  OBVIOUS
<1> QED BY CountedRetry, CountedMark, CountedRow DEF Counts

(***************************************************************************)
(* FailedIsOver: an event is given up only when each of its early          *)
(* subscribers has accepted it or has been sent every POST it may get, or  *)
(* when its own dispatch has failed outboxMaxAttempts times; no update     *)
(* that is written late and no other event's failures end it sooner.       *)
(***************************************************************************)
THEOREM GivingUpIsOver == Spec => []FailedIsOver
<1>1. Spec => []Counts
  BY InitCounts, CountsStep, Invariance, ToldAlways, PTL DEF Spec
<1>2. Counts => FailedIsOver
  BY DEF Counts, FailedIsOver, Over
<1> QED BY <1>1, <1>2, PTL
=============================================================================

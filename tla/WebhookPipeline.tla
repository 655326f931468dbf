--------------------------- MODULE WebhookPipeline ---------------------------
(***************************************************************************)
(* From a committed outbox row to the subscribers' endpoints.              *)
(*                                                                         *)
(* Every API instance runs a dispatcher (JobsService.processOutboxBatch on *)
(* a timer) that turns outbox rows into webhook_deliveries rows and        *)
(* BullMQ jobs, and a worker (WebhookDeliveryProcessor) that takes jobs,   *)
(* POSTs, and writes the outcome back.  They share two tables and a queue  *)
(* and no lock.  One action is one awaited call with the code up to the    *)
(* next await.                                                             *)
(*                                                                         *)
(* Time is abstracted to what has elapsed: `due' are the rows whose next   *)
(* retry has come, or that are stale, and `resting' the attempts whose     *)
(* backoff is not over.  Either may elapse at any moment, because any call *)
(* may take arbitrarily long.                                              *)
(***************************************************************************)
EXTENDS Integers, FiniteSets

CONSTANTS
    Events,        \* outbox rows: numbers, in order of createdAt
    Subs,          \* webhook subscriptions
    EarlySubs,     \* those registered before the first event
    Matching,      \* <<event, subscription>> of the same eventType
    Instances,     \* API processes
    MaxAttempts,   \* queue.webhookMaxAttempts
    OutboxMax,     \* queue.outboxMaxAttempts
    BatchSize,     \* queue.outboxBatchSize
    MaxErrors,     \* how many database or queue calls may throw
    MaxCrashes,    \* how many processes may die
    MaxStalls,     \* how many live workers may lose the lock on a job
    MaxEvictions,  \* how many finished jobs may drop out of the 100 kept
    MaxFaults,     \* how many of all these in one behaviour
    None

ASSUME BoundsAssumption ==
    /\ Events \subseteq Nat
    /\ {MaxAttempts, OutboxMax, BatchSize} \subseteq Nat \ {0}
    /\ {MaxErrors, MaxCrashes, MaxStalls, MaxEvictions, MaxFaults}
         \subseteq Nat
    /\ EarlySubs \subseteq Subs
    /\ Matching \subseteq Events \X Subs
    /\ IsFiniteSet(Instances)

Deliveries == Matching
DeliveryRows == [status : {"pending", "success", "failed"},
                 attempts : 0..MaxAttempts]
OutboxStatuses == {"absent", "pending", "processing", "published", "failed"}

ASSUME NoneAssumption == None \notin DeliveryRows

\* jobId `${deliveryId}-attempt-${attempt}'; the last one is never to be used.
Jobs == Deliveries \X (1..MaxAttempts + 1)

VARIABLES
    outbox,      \* event -> status and retryCount of its outbox_events row
    due,         \* events whose row a poll selects if its status allows
    active,      \* subscriptions registered and ACTIVE
    delivery,    \* <<event, subscription>> -> its row, or None
    resting,     \* jobIds whose delivery is not to be retried yet
    job,         \* jobId -> unknown to the queue, delayed, waiting, active, kept
    stalls,      \* jobId -> how often it was found stalled
    dispatcher,  \* instance -> where processOutboxBatch is
    worker,      \* instance -> where its current job is
    \* What has happened; no step of the program reads these.
    posts,       \* <<event, subscription>> -> POSTs that were sent
    accepted,    \* the <<event, subscription>> whose endpoint has answered 2xx
    failures,    \* event -> dispatches of it that have failed
    errors, crashes, lostLocks, evictions

vars == <<outbox, due, active, delivery, resting, job, stalls, dispatcher, worker, posts,
          accepted, failures, errors, crashes, lostLocks, evictions>>

budget == <<errors, crashes, lostLocks, evictions>>
history == <<posts, accepted, failures>>
MayFail == errors + crashes + lostLocks + evictions < MaxFaults
queue == <<resting, job, stalls>>
rows == <<outbox, due>>

NoBatch == [at |-> "idle", batch |-> {}, retry |-> [e \in Events |-> 0],
            subs |-> {}, missing |-> {}, todo |-> {}, write |-> None]
NoJob == [at |-> "idle", job |-> None, owns |-> FALSE, attempts |-> 0,
          write |-> None]

Init ==
    /\ outbox = [e \in Events |-> [status |-> "absent", retry |-> 0]]
    /\ due = Events
    /\ active = EarlySubs
    /\ delivery = [d \in Deliveries |-> None]
    /\ resting = {}
    /\ job = [j \in Jobs |-> "unknown"]
    /\ stalls = [j \in Jobs |-> 0]
    /\ dispatcher = [i \in Instances |-> NoBatch]
    /\ worker = [i \in Instances |-> NoJob]
    /\ posts = [d \in Deliveries |-> 0]
    /\ accepted = {}
    /\ failures = [e \in Events |-> 0]
    /\ errors = 0 /\ crashes = 0 /\ lostLocks = 0 /\ evictions = 0

\* A money movement commits, and its outbox row with it.
CommitEvent(e) ==
    /\ outbox[e].status = "absent"
    /\ outbox' = [outbox EXCEPT ![e].status = "pending"]
    /\ UNCHANGED <<due, active, delivery, queue, dispatcher, worker, history, budget>>

\* registerWebhook with status ACTIVE; an inactive one is never read.
RegisterWebhook(s) ==
    /\ s \notin active
    /\ active' = active \cup {s}
    /\ UNCHANGED <<rows, delivery, queue, dispatcher, worker, history, budget>>

-----------------------------------------------------------------------------
\* What both sides do: updateOutboxStatus and enqueueDelivery.

Of(e) == {d \in Deliveries : d[1] = e /\ delivery[d] # None}

Largest(S) == CHOOSE n \in S : \A m \in S : m <= n

\* Mutant of StatusFor: one success is enough to publish.
StatusForAnySuccess(e) ==
    IF Of(e) = {} \/ \E d \in Of(e) : delivery[d].status = "success"
    THEN [status |-> "published", retry |-> None]
    ELSE [status |-> "processing", retry |-> None]

(***************************************************************************)
(* updateOutboxStatus reads the deliveries and then writes the row: first  *)
(* the update it decides on, retry being None where it is left alone.      *)
(***************************************************************************)
StatusFor(e) ==
    IF \A d \in Of(e) : delivery[d].status = "success"
    THEN [status |-> "published", retry |-> None]
    ELSE IF \A d \in Of(e) : delivery[d].status # "pending"
    THEN [status |-> "failed",
          retry |-> Largest({delivery[d].attempts : d \in Of(e)})]
    ELSE [status |-> "processing", retry |-> None]

\* Every write sets updatedAt: the row is not stale for a while.
WriteStatus(e, row) ==
    /\ outbox' = [outbox EXCEPT ![e] =
         [row EXCEPT !.retry = IF @ = None THEN outbox[e].retry ELSE @]]
    /\ due' = due \ {e}

\* Mutant of Add: without a jobId every call adds a job.
AddAgain(jobs, state) ==
    job' = [j \in Jobs |-> IF j \in jobs THEN state ELSE job[j]]

\* Queue.add, with a delay or without, ignores a jobId that the queue knows,
\* finished jobs included.
Add(jobs, state) ==
    job' = [j \in Jobs |->
              IF j \in jobs /\ job[j] = "unknown" THEN state ELSE job[j]]

-----------------------------------------------------------------------------
\* The dispatcher of instance i.

At(i, step) == dispatcher[i].at = step
Oldest(batch) == CHOOSE e \in batch : \A f \in batch : e <= f
Current(i) == Oldest(dispatcher[i].batch)

\* Mutant of Eligible: stale PROCESSING rows are not looked at again.
EligiblePending(e) == e \in due /\ outbox[e].status = "pending"

\* PENDING and its retry due, or PROCESSING and not written for a while.
Eligible(e) == e \in due /\ outbox[e].status \in {"pending", "processing"}

\* The oldest of them, up to the batch size.
Batch ==
    LET found == {e \in Events : Eligible(e)} IN
    {e \in found : Cardinality({f \in found : f < e}) < BatchSize}

\* The timer fires and no batch is running here: getProcessableEvents.
Poll(i) ==
    /\ At(i, "idle")
    /\ Batch # {}
    /\ dispatcher' = [dispatcher EXCEPT ![i] =
         [NoBatch EXCEPT !.at = "mark", !.batch = Batch,
            !.retry = [e \in Events |-> outbox[e].retry]]]
    /\ UNCHANGED <<rows, active, delivery, queue, worker, history, budget>>

\* nextRetryAt, or the moment from which the row counts as stale, has come.
Elapse(e) ==
    /\ e \notin due
    /\ outbox[e].status \in {"pending", "processing"}
    /\ due' = due \cup {e}
    /\ UNCHANGED <<outbox, active, delivery, queue, dispatcher, worker, history,
                   budget>>

\* The batch goes on with its next event, or is over.
NextEvent(i) ==
    LET rest == dispatcher[i].batch \ {Current(i)} IN
    dispatcher' = [dispatcher EXCEPT ![i] =
      IF rest = {} THEN NoBatch
      ELSE [NoBatch EXCEPT !.at = "mark", !.batch = rest,
                           !.retry = dispatcher[i].retry]]

MarkProcessing(i) ==
    /\ At(i, "mark")
    /\ WriteStatus(Current(i), [status |-> "processing", retry |-> None])
    /\ dispatcher' = [dispatcher EXCEPT ![i].at = "subscriptions"]
    /\ UNCHANGED <<active, delivery, queue, worker, history, budget>>

FindSubscriptions(i) ==
    /\ At(i, "subscriptions")
    /\ dispatcher' = [dispatcher EXCEPT ![i].at = "deliveries",
         ![i].subs = {s \in active : <<Current(i), s>> \in Matching}]
    /\ UNCHANGED <<rows, active, delivery, queue, worker, history, budget>>

\* Mutant of Unsent: only deliveries created just now are enqueued.
UnsentNone(e) == {}

\* The pending deliveries found, each with the number of its next attempt.
Unsent(e) ==
    {<<d, delivery[d].attempts + 1>> :
        d \in {x \in Of(e) : delivery[x].status = "pending"}}

\* The existing deliveries; what is missing and what is to be enqueued.
FindDeliveries(i) ==
    /\ At(i, "deliveries")
    /\ LET e == Current(i)
           missing == {d \in {e} \X dispatcher[i].subs : delivery[d] = None}
           todo == Unsent(e)
           step == CASE missing # {} -> "create"
                     [] missing = {} /\ Of(e) = {} -> "write"
                     [] missing = {} /\ Of(e) # {} /\ todo = {} -> "status"
                     [] OTHER -> "enqueue"
       IN dispatcher' = [dispatcher EXCEPT ![i].at = step,
                           ![i].subs = {}, ![i].missing = missing,
                           ![i].todo = todo, ![i].write =
                             [status |-> "published", retry |-> None]]
    /\ UNCHANGED <<rows, active, delivery, queue, worker, history, budget>>

\* A call of processEvent has thrown: its catch block is to mark the event.
DispatchFails(i) ==
    /\ failures' = [failures EXCEPT ![Current(i)] = @ + 1]
    /\ dispatcher' = [dispatcher EXCEPT ![i] =
         [NoBatch EXCEPT !.at = "retry", !.batch = dispatcher[i].batch,
                         !.retry = dispatcher[i].retry]]

\* One save of all missing rows; the unique constraint refuses all of them
\* when another instance has inserted one meanwhile.
CreateDeliveries(i) ==
    /\ At(i, "create")
    /\ LET missing == dispatcher[i].missing IN
       IF \A d \in missing : delivery[d] = None
       THEN /\ delivery' = [d \in Deliveries |->
                 IF d \in missing THEN [status |-> "pending", attempts |-> 0]
                 ELSE delivery[d]]
            /\ dispatcher' = [dispatcher EXCEPT ![i].at = "enqueue",
                 ![i].missing = {},
                 ![i].todo = @ \cup {<<d, 1>> : d \in missing}]
            /\ UNCHANGED failures
       ELSE DispatchFails(i) /\ UNCHANGED delivery
    /\ UNCHANGED <<rows, active, queue, worker, posts, accepted, budget>>

EnqueueDeliveries(i) ==
    /\ At(i, "enqueue")
    /\ Add(dispatcher[i].todo, "waiting")
    /\ NextEvent(i)
    /\ UNCHANGED <<rows, active, delivery, resting, stalls, worker, history, budget>>

ReadStatus(i) ==
    /\ At(i, "status")
    /\ dispatcher' = [dispatcher EXCEPT ![i].at = "write",
                                        ![i].write = StatusFor(Current(i))]
    /\ UNCHANGED <<rows, active, delivery, queue, worker, history, budget>>

UpdateOutbox(i) ==
    /\ At(i, "write")
    /\ WriteStatus(Current(i), dispatcher[i].write)
    /\ NextEvent(i)
    /\ UNCHANGED <<active, delivery, queue, worker, history, budget>>

\* Mutant of Retried: the last attempt is counted as one too many.
RetriedSooner(i) ==
    LET retry == dispatcher[i].retry[Current(i)] + 1 IN
    [status |-> IF retry + 1 < OutboxMax THEN "pending" ELSE "failed",
     retry |-> retry]

\* One retry more than Poll has read, or the end.
Retried(i) ==
    LET retry == dispatcher[i].retry[Current(i)] + 1 IN
    [status |-> IF retry < OutboxMax THEN "pending" ELSE "failed",
     retry |-> retry]

\* markOutboxEventForRetry.
MarkForRetry(i) ==
    /\ At(i, "retry")
    /\ WriteStatus(Current(i), Retried(i))
    /\ NextEvent(i)
    /\ UNCHANGED <<active, delivery, queue, worker, history, budget>>

(***************************************************************************)
(* A call of the dispatcher throws, before it takes effect or after: an    *)
(* enqueue may have added some jobs, a write of the outbox row may have    *)
(* been committed.  (Of a mark or a save that has, the next call throws.)  *)
(* An error of the retry mark gives the whole batch up.                    *)
(***************************************************************************)
DispatcherThrows(i) ==
    /\ ~At(i, "idle")
    /\ errors < MaxErrors /\ MayFail
    /\ errors' = errors + 1
    /\ \E added \in SUBSET dispatcher[i].todo :
         /\ At(i, "enqueue") \/ added = {}
         /\ Add(added, "waiting")
    /\ \/ UNCHANGED rows
       \/ At(i, "write") /\ WriteStatus(Current(i), dispatcher[i].write)
       \/ At(i, "retry") /\ WriteStatus(Current(i), Retried(i))
    /\ IF At(i, "retry")
       THEN dispatcher' = [dispatcher EXCEPT ![i] = NoBatch] /\ UNCHANGED failures
       ELSE DispatchFails(i)
    /\ UNCHANGED <<active, delivery, resting, stalls, worker, posts, accepted,
                   crashes, lostLocks, evictions>>

-----------------------------------------------------------------------------
\* The worker of instance i.

Does(i, step) == worker[i].at = step
Target(i) == worker[i].job[1]
Goto(i, step) == worker' = [worker EXCEPT ![i].at = step]

\* The job is over, done or failed; the queue keeps its id.  A worker that
\* has lost its lock on the job cannot change the state of the job.
Finish(i) ==
    /\ job' = IF worker[i].owns
              THEN [job EXCEPT ![worker[i].job] = "kept"] ELSE job
    /\ worker' = [worker EXCEPT ![i] = NoJob]
    /\ UNCHANGED <<resting, stalls>>

TakeJob(i, j) ==
    /\ Does(i, "idle")
    /\ job[j] = "waiting"
    /\ job' = [job EXCEPT ![j] = "active"]
    /\ worker' = [worker EXCEPT ![i] =
         [NoJob EXCEPT !.at = "find", !.job = j, !.owns = TRUE]]
    /\ UNCHANGED <<rows, active, delivery, resting, stalls, dispatcher, history, budget>>

\* Read the delivery; a terminal one is skipped.
FindDelivery(i) ==
    /\ Does(i, "find")
    /\ LET row == delivery[Target(i)] IN
       IF row.status = "pending"
       THEN /\ worker' = [worker EXCEPT ![i].at = "post",
                                        ![i].attempts = row.attempts + 1]
            /\ UNCHANGED queue
       ELSE Finish(i)
    /\ UNCHANGED <<rows, active, delivery, dispatcher, history, budget>>

\* The POST, and whether a 2xx response comes back.
Post(i, ok) ==
    /\ Does(i, "post")
    /\ posts' = [posts EXCEPT ![Target(i)] = @ + 1]
    /\ accepted' = IF ok THEN accepted \cup {Target(i)} ELSE accepted
    /\ Goto(i, IF ok THEN "saveSuccess" ELSE "saveFailure")
    /\ UNCHANGED <<rows, active, delivery, queue, dispatcher, failures, budget>>

\* Mutant of Retries: one attempt too many.
RetriesOnceMore(i) == worker[i].attempts <= MaxAttempts

Retries(i) == worker[i].attempts < MaxAttempts

\* The job of the attempt after this one.
NextJob(i) == <<Target(i), worker[i].attempts + 1>>

SaveDelivery(i, status) ==
    delivery' = [delivery EXCEPT ![Target(i)] =
      [status |-> status, attempts |-> worker[i].attempts]]

SaveSuccess(i) ==
    /\ Does(i, "saveSuccess")
    /\ SaveDelivery(i, "success")
    /\ Goto(i, "readStatus")
    /\ UNCHANGED <<rows, active, queue, dispatcher, history, budget>>

SaveFailure(i) ==
    /\ Does(i, "saveFailure")
    /\ SaveDelivery(i, IF Retries(i) THEN "pending" ELSE "failed")
    /\ resting' = IF Retries(i) THEN resting \cup {NextJob(i)} ELSE resting
    /\ Goto(i, IF Retries(i) THEN "enqueue" ELSE "readStatus")
    /\ UNCHANGED <<rows, active, job, stalls, dispatcher, history, budget>>

\* nextRetryAt - now is the delay; it may have passed already.
EnqueueRetry(i) ==
    /\ Does(i, "enqueue")
    /\ Add({NextJob(i)}, IF NextJob(i) \in resting THEN "delayed" ELSE "waiting")
    /\ Goto(i, "readStatus")
    /\ UNCHANGED <<rows, active, delivery, resting, stalls, dispatcher, history, budget>>

ReadOutcome(i) ==
    /\ Does(i, "readStatus")
    /\ worker' = [worker EXCEPT ![i].at = "writeStatus",
                                ![i].write = StatusFor(Target(i)[1])]
    /\ UNCHANGED <<rows, active, delivery, queue, dispatcher, history, budget>>

WriteOutcome(i) ==
    /\ Does(i, "writeStatus")
    /\ WriteStatus(Target(i)[1], worker[i].write)
    /\ Finish(i)
    /\ UNCHANGED <<active, delivery, dispatcher, history, budget>>

(***************************************************************************)
(* A call of the worker throws.  An error of the success update, which may *)
(* have been committed all the same, is taken for a failed POST; any other *)
(* fails the job.  (Of any other that has taken effect, the next throws.)  *)
(***************************************************************************)
WorkerThrows(i) ==
    /\ worker[i].at \notin {"idle", "post"}
    /\ errors < MaxErrors /\ MayFail
    /\ errors' = errors + 1
    /\ IF Does(i, "saveSuccess")
       THEN /\ SaveDelivery(i, "success") \/ UNCHANGED delivery
            /\ Goto(i, "saveFailure")
            /\ UNCHANGED queue
       ELSE Finish(i) /\ UNCHANGED delivery
    /\ UNCHANGED <<rows, active, dispatcher, history, crashes, lostLocks,
                   evictions>>

-----------------------------------------------------------------------------
\* The queue finds the job of instance i stalled: once it is given to a
\* worker again, the second time it is failed.
Stalled(i) ==
    LET j == worker[i].job IN
    /\ stalls' = [stalls EXCEPT ![j] = @ + 1]
    /\ job' = [job EXCEPT ![j] = IF stalls[j] < 1 THEN "waiting" ELSE "kept"]
    /\ UNCHANGED resting

\* The process of instance i dies and is restarted; its timers start anew.
Crash(i) ==
    /\ crashes < MaxCrashes /\ MayFail
    /\ crashes' = crashes + 1
    /\ dispatcher' = [dispatcher EXCEPT ![i] = NoBatch]
    /\ worker' = [worker EXCEPT ![i] = NoJob]
    /\ IF worker[i].owns THEN Stalled(i) ELSE UNCHANGED queue
    /\ UNCHANGED <<rows, active, delivery, history, errors, lostLocks,
                   evictions>>

\* A live worker fails to renew its lock in time, and goes on regardless.
LoseLock(i) ==
    /\ worker[i].owns
    /\ lostLocks < MaxStalls /\ MayFail
    /\ lostLocks' = lostLocks + 1
    /\ worker' = [worker EXCEPT ![i].owns = FALSE]
    /\ Stalled(i)
    /\ UNCHANGED <<rows, active, delivery, dispatcher, history, errors, crashes,
                   evictions>>

\* nextRetryAt has come, and with it the end of the job's delay.
BackoffOver(j) ==
    /\ j \in resting
    /\ resting' = resting \ {j}
    /\ job' = [job EXCEPT ![j] = IF @ = "delayed" THEN "waiting" ELSE @]
    /\ UNCHANGED <<rows, active, delivery, stalls, dispatcher, worker, history,
                   budget>>

\* A hundred later jobs have finished: the queue forgets this one.
Evict(j) ==
    /\ job[j] = "kept"
    /\ evictions < MaxEvictions /\ MayFail
    /\ evictions' = evictions + 1
    /\ job' = [job EXCEPT ![j] = "unknown"]
    /\ stalls' = [stalls EXCEPT ![j] = 0]
    /\ UNCHANGED <<rows, active, delivery, resting, dispatcher, worker, history,
                   errors, crashes, lostLocks>>

DispatcherStep(i) ==
    \/ Poll(i) \/ MarkProcessing(i) \/ FindSubscriptions(i)
    \/ FindDeliveries(i) \/ CreateDeliveries(i) \/ EnqueueDeliveries(i)
    \/ ReadStatus(i) \/ UpdateOutbox(i) \/ MarkForRetry(i)

WorkerStep(i) ==
    \/ \E j \in Jobs : TakeJob(i, j)
    \/ FindDelivery(i) \/ \E ok \in BOOLEAN : Post(i, ok)
    \/ SaveSuccess(i) \/ SaveFailure(i) \/ EnqueueRetry(i)
    \/ ReadOutcome(i) \/ WriteOutcome(i)

Next ==
    \/ \E e \in Events : CommitEvent(e) \/ Elapse(e)
    \/ \E s \in Subs : RegisterWebhook(s)
    \/ \E j \in Jobs : BackoffOver(j) \/ Evict(j)
    \/ \E i \in Instances : DispatcherStep(i) \/ WorkerStep(i)
    \/ \E i \in Instances :
         DispatcherThrows(i) \/ WorkerThrows(i) \/ Crash(i) \/ LoseLock(i)

Spec == Init /\ [][Next]_vars

\* The timer keeps firing, time passes and a process goes on with what it has
\* begun; no failure, eviction, commit or registration is ever due. Each of
\* these steps changes the variable of its subscript.
FairSpec ==
    /\ Spec
    /\ \A i \in Instances :
         WF_dispatcher(DispatcherStep(i)) /\ WF_worker(WorkerStep(i))
    /\ \A e \in Events : WF_due(Elapse(e))
    /\ WF_resting(\E j \in Jobs : BackoffOver(j))
-----------------------------------------------------------------------------
DispatcherSteps == {"idle", "mark", "subscriptions", "deliveries", "create",
                    "enqueue", "status", "write", "retry"}
WorkerSteps == {"idle", "find", "post", "saveSuccess", "saveFailure", "enqueue",
                "readStatus", "writeStatus"}
Updates == [status : OutboxStatuses, retry : {None} \cup Nat]

Dispatchers ==
    [at : DispatcherSteps, batch : SUBSET Events, retry : [Events -> Nat],
     subs : SUBSET Subs, missing : SUBSET Deliveries, todo : SUBSET Jobs,
     write : {None} \cup Updates]
Workers ==
    [at : WorkerSteps, job : {None} \cup Jobs, owns : BOOLEAN,
     attempts : 0..MaxAttempts, write : {None} \cup Updates]

(***************************************************************************)
(* retryCount has no bound: a failed row that a stale dispatcher or worker *)
(* sets back to PROCESSING keeps its count, and counts on from there.      *)
(***************************************************************************)
TypeOK ==
    /\ outbox \in [Events -> [status : OutboxStatuses, retry : Nat]]
    /\ due \subseteq Events
    /\ active \subseteq Subs
    /\ delivery \in [Deliveries -> {None} \cup DeliveryRows]
    /\ job \in [Jobs -> {"unknown", "delayed", "waiting", "active", "kept"}]
    /\ resting \subseteq Jobs
    /\ stalls \in [Jobs -> 0..2]
    /\ dispatcher \in [Instances -> Dispatchers]
    /\ worker \in [Instances -> Workers]
    /\ posts \in [Deliveries -> Nat]
    /\ accepted \subseteq Deliveries
    /\ failures \in [Events -> Nat]
    /\ {errors, crashes, lostLocks, evictions} \subseteq Nat

(***************************************************************************)
(* Retries are bounded: an endpoint is sent at most one POST per allowed   *)
(* attempt, and one more for every crash or lost lock, which give a job to *)
(* a worker again, and for every finished job the queue forgot, which a    *)
(* dispatcher may add again.  Errors add none, whatever they interrupt.    *)
(***************************************************************************)
PostsBounded ==
    \A d \in Deliveries :
        posts[d] <= MaxAttempts + crashes + lostLocks + evictions

(***************************************************************************)
(* "duplicate queue jobs must not redeliver terminal webhook deliveries":  *)
(* nothing is POSTed for a delivery that has succeeded or failed for good, *)
(* and its outcome is never overwritten.                                   *)
(***************************************************************************)
Terminal(d) == delivery[d] # None /\ delivery[d].status # "pending"

TerminalIsFinal ==
    [][\A d \in Deliveries : Terminal(d) =>
         posts'[d] = posts[d] /\ delivery'[d] = delivery[d]]_vars

(***************************************************************************)
(* As long as no job is run twice at once, one thing alone reopens such a  *)
(* delivery: the worker that has recorded the success is told that its     *)
(* update failed, and records a failed POST over it.                       *)
(***************************************************************************)
Misread(i, d) ==
    /\ Does(i, "saveFailure") /\ Target(i) = d
    /\ d \in accepted
    /\ delivery[d] = [status |-> "success", attempts |-> worker[i].attempts]

TerminalUnlessMisread ==
    [][\A d \in Deliveries : Terminal(d) =>
         /\ posts'[d] = posts[d]
         /\ delivery'[d] = delivery[d] \/ \E i \in Instances : Misread(i, d)]_vars

(***************************************************************************)
(* An event that is PUBLISHED has reached everybody who had subscribed     *)
(* before it, whether there is a delivery for them or not: each of their   *)
(* endpoints has answered with a 2xx.                                      *)
(***************************************************************************)
Owed(e) == {d \in Deliveries : d[1] = e /\ d[2] \in EarlySubs}

PublishedIsDelivered ==
    \A e \in Events : outbox[e].status = "published" => Owed(e) \subseteq accepted

(***************************************************************************)
(* An event is given up only when each of them has accepted it or has been *)
(* sent every POST it is allowed, or when its own dispatch has failed      *)
(* outboxMaxAttempts times: neither a stale retryCount nor another event's *)
(* errors end it sooner.                                                   *)
(***************************************************************************)
FailedIsOver ==
    \A e \in Events : outbox[e].status = "failed" =>
      \/ \A d \in Owed(e) : d \in accepted \/ posts[d] >= MaxAttempts
      \/ failures[e] >= OutboxMax

(***************************************************************************)
(* "retry webhook delivery with backoff": no attempt is POSTed before the  *)
(* backoff after the failure of the one before it is over.                 *)
(***************************************************************************)
BackoffKept ==
    [][\A d \in Deliveries : posts'[d] # posts[d] =>
         <<d, delivery[d].attempts + 1>> \notin resting]_vars

(***************************************************************************)
(* "failures after commit do not lose events": every committed event is    *)
(* PUBLISHED or FAILED in the end.                                         *)
(***************************************************************************)
Settled(e) == outbox[e].status \in {"published", "failed"}

EventsSettle ==
    \A e \in Events : outbox[e].status = "pending" ~> Settled(e)

(***************************************************************************)
(* Again and again everything is settled that has been committed, but      *)
(* for one cause: a job that is over while its attempt is not recorded,    *)
(* whose id is kept and blocks every further enqueueing.  An event with    *)
(* such a delivery stays PROCESSING, and a whole batch of them, as often   *)
(* stale as the poll comes, keeps younger events from being polled.        *)
(* Crashes, stale statuses, lost locks and all other errors are recovered. *)
(***************************************************************************)
Blocked(d) ==
    /\ delivery[d] # None /\ ~Terminal(d)
    /\ job[<<d, delivery[d].attempts + 1>>] = "kept"

Stuck(e) == \E d \in Of(e) : Blocked(d)
Crowded(e) == Cardinality({f \in Events : f < e /\ Stuck(f)}) >= BatchSize

Quiet ==
    \A e \in Events :
      \/ outbox[e].status = "absent" \/ Stuck(e) \/ Crowded(e)
      \/ Settled(e) /\ \A d \in Owed(e) : Terminal(d)

SettlesUnlessBlocked == []<>Quiet
=============================================================================

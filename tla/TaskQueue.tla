----------------------------- MODULE TaskQueue -----------------------------
(***************************************************************************)
(* The queue of background work (src/taskqueue.cc, src/rec-taskqueue.cc):  *)
(* refreshing cache entries that are almost expired, resolving names found *)
(* on the way, probing servers for DoT.                                    *)
(*                                                                         *)
(* The queue and the set that limits the rate of resolve tasks share one   *)
(* lock; the statistics are atomic counters outside of it.  Workers are    *)
(* mthreads of any thread.  An action is what happens under one lock, or   *)
(* one update of a counter.  A worker that runs a task resolves names, so  *)
(* it may push tasks itself meanwhile.                                     *)
(***************************************************************************)
EXTENDS Integers, Sequences, FiniteSets

CONSTANTS
  Workers,
  Names,       \* what tasks are about: name, type, netmask, address
  NoJob,       \* a worker without a task
  RatePeriod,  \* seconds an entry stays in the rate limit set (60)
  ResolveTime, \* seconds until the deadline of a resolve task (60)
  PurgeEvery,  \* the rate limit set is purged on each such insert (1024)
  MaxLag,      \* bound: how old the `now' of a pusher can be
  MaxNow,      \* bound: the last instant of the clock
  MaxPushes    \* bound: pushes the queue accepts

ASSUME TaskQueueAssumption ==
  /\ IsFiniteSet(Workers)
  /\ RatePeriod \in Nat /\ ResolveTime \in Nat
  /\ PurgeEvery \in Nat \ {0}
  /\ MaxLag \in Nat /\ MaxNow \in Nat /\ MaxPushes \in Nat

Times == 0 .. MaxNow
\* numeric_limits<time_t>::max(), the deadline of a DoT probe
Forever == MaxNow + RatePeriod + ResolveTime + 1

\* Who pushed it: pushAlmostExpiredTask, pushResolveTask or pushTryDoTTask.  The
\* function and the refresh mode that come with it are part of the key.
Kinds == {"refresh", "resolve", "dot"}
Tasks == [kind : Kinds, name : Names]
Jobs  == [task : Tasks, deadline : Nat]

VARIABLES
  now,
  queue,        \* d_queue in its sequenced order
  d_pushes, d_expired,
  rateLimitSet, \* entries [task, ttd]
  d_count,      \* of the rate limit set, modulo PurgeEvery
  almost,       \* s_almost_expired_tasks
  resolved,     \* s_resolve_tasks
  at, job,      \* per worker: where it is in runTaskOnce, and its task
  counting,     \* per worker: pushed a task that is yet to be counted
  accepted,     \* history: when the rate limit last let a task pass, or -1
  removed       \* history: tasks taken by taskQueueClear and taskQueuePop

queueVars == <<queue, d_pushes, d_expired>>
rateVars  == <<rateLimitSet, d_count>>
history   == <<accepted, removed>>
vars == <<now, queueVars, rateVars, almost, resolved, at, job, counting, history>>

Stats0 == [pushed |-> 0, run |-> 0, exceptions |-> 0]

Init ==
  /\ now = 0
  /\ queue = <<>> /\ d_pushes = 0 /\ d_expired = 0
  /\ rateLimitSet = {} /\ d_count = 0
  /\ almost = Stats0 /\ resolved = Stats0
  /\ at = [w \in Workers |-> "idle"]
  /\ job = [w \in Workers |-> NoJob]
  /\ counting = [w \in Workers |-> FALSE]
  /\ accepted = [task \in Tasks |-> -1]
  /\ removed = 0

----------------------------------------------------------------------------
(* TaskQueue and TimedSet *)

Queued(task) == \E i \in DOMAIN queue : queue[i].task = task

\* TaskQueue::push: nothing happens to a task that is already there, the deadline
\* of the new one included.
Push(task, deadline) ==
  IF Queued(task)
  THEN UNCHANGED queueVars
  ELSE /\ d_pushes < MaxPushes
       /\ queue' = Append(queue, [task |-> task, deadline |-> deadline])
       /\ d_pushes' = d_pushes + 1
       /\ UNCHANGED d_expired

PurgedEarly(set, t) == {entry \in set : entry.ttd > t}

\* TimedSet::purge
Purged(set, t) == {entry \in set : entry.ttd >= t}

Limited(set, task) == \E entry \in set : entry.task = task

ExpiresBefore(t) == t - RatePeriod

Expires(t) == t + RatePeriod

\* TimedSet::insert: what the periodic purge leaves, and if the task is still
\* there, what another purge leaves.
PeriodicallyPurged(t) ==
  IF (d_count + 1) % PurgeEvery = 0 THEN Purged(rateLimitSet, t) ELSE rateLimitSet

BeforeInsert(task, t) ==
  IF Limited(PeriodicallyPurged(t), task)
  THEN Purged(rateLimitSet, t) ELSE PeriodicallyPurged(t)

----------------------------------------------------------------------------
(* Pushing *)

Pusher(w) == at[w] \in {"idle", "running"} /\ ~counting[w]

CountsAlways(task) == TRUE

\* Whether push() returned true.
Counts(task) == ~Queued(task)

\* pushAlmostExpiredTask and pushTryDoTTask: ++pushed comes after the lock.
PushUnlimited(w, task, deadline) ==
  /\ Pusher(w)
  /\ Push(task, deadline)
  /\ counting' = [counting EXCEPT ![w] = Counts(task)]
  /\ UNCHANGED <<now, rateVars, almost, resolved, at, job, history>>

\* The deadline is when the cache entry ends, or the end of its stale time.
PushAlmostExpired(w, name, deadline) ==
  PushUnlimited(w, [kind |-> "refresh", name |-> name], deadline)

PushTryDoT(w, name) ==
  PushUnlimited(w, [kind |-> "dot", name |-> name], Forever)

\* ++s_almost_expired_tasks.pushed, for both of them.
CountPush(w) ==
  /\ counting[w]
  /\ counting' = [counting EXCEPT ![w] = FALSE]
  /\ almost' = [almost EXCEPT !.pushed = @ + 1]
  /\ UNCHANGED <<now, queueVars, rateVars, resolved, at, job, history>>

\* pushResolveTask.  t is the caller's d_now, taken when its resolving began.
PushResolve(w, name, t) ==
  /\ Pusher(w)
  /\ LET task == [kind |-> "resolve", name |-> name]
         set  == BeforeInsert(task, t)
     IN  /\ d_count' = (d_count + 1) % PurgeEvery
         /\ IF Limited(set, task)
            THEN /\ rateLimitSet' = set
                 /\ UNCHANGED <<queueVars, resolved, accepted>>
            ELSE /\ rateLimitSet' = set \cup {[task |-> task, ttd |-> Expires(t)]}
                 /\ Push(task, t + ResolveTime)
                 /\ resolved' = [resolved EXCEPT
                                   !.pushed = IF Queued(task) THEN @ ELSE @ + 1]
                 /\ accepted' = [accepted EXCEPT ![task] = now]
  /\ UNCHANGED <<now, almost, at, job, counting, removed>>

----------------------------------------------------------------------------
(* Running *)

HasTwoTasks == Len(queue) > 1

HasTask == queue # <<>>

\* runTaskOnce: take the oldest task.  An empty queue changes nothing.
Pop(w) ==
  /\ at[w] = "idle" /\ ~counting[w]
  /\ HasTask
  /\ job' = [job EXCEPT ![w] = Head(queue)]
  /\ queue' = Tail(queue)
  /\ at' = [at EXCEPT ![w] = "popped"]
  /\ UNCHANGED <<now, d_pushes, d_expired, rateVars, almost, resolved, counting,
                 history>>

\* ResolveTask::run: look at the clock.
Run(w) ==
  /\ at[w] = "popped"
  /\ at' = [at EXCEPT ![w] = IF job[w].deadline >= now THEN "running" ELSE "late"]
  /\ UNCHANGED <<now, queueVars, rateVars, almost, resolved, job, counting, history>>

CountedRunOnly(stats, ok) ==
  IF ok THEN [stats EXCEPT !.run = @ + 1] ELSE stats

Counted(stats, ok) ==
  IF ok THEN [stats EXCEPT !.run = @ + 1] ELSE [stats EXCEPT !.exceptions = @ + 1]

\* resolveInternal and tryDoT: count by the refresh mode of the task.
RunDone(w, ok) ==
  /\ at[w] = "running" /\ ~counting[w]
  /\ IF job[w].task.kind = "refresh"
     THEN almost' = Counted(almost, ok) /\ UNCHANGED resolved
     ELSE resolved' = Counted(resolved, ok) /\ UNCHANGED almost
  /\ at' = [at EXCEPT ![w] = "idle"]
  /\ job' = [job EXCEPT ![w] = NoJob]
  /\ UNCHANGED <<now, queueVars, rateVars, counting, accepted, removed>>

\* incExpired, under a lock of its own.
IncExpired(w) ==
  /\ at[w] = "late"
  /\ d_expired' = d_expired + 1
  /\ at' = [at EXCEPT ![w] = "idle"]
  /\ job' = [job EXCEPT ![w] = NoJob]
  /\ UNCHANGED <<now, queue, d_pushes, rateVars, almost, resolved, counting, history>>

----------------------------------------------------------------------------
(* The two operations for the rest of the program *)

TaskQueueClear ==
  /\ queue # <<>> \/ rateLimitSet # {}
  /\ removed' = removed + Len(queue)
  /\ queue' = <<>>
  /\ rateLimitSet' = {}
  /\ accepted' = [task \in Tasks |-> -1]
  /\ UNCHANGED <<now, d_pushes, d_expired, d_count, almost, resolved, at, job,
                 counting>>

\* The caller has seen that there is a task (front() of an empty list otherwise).
TaskQueuePop ==
  /\ queue # <<>>
  /\ removed' = removed + 1
  /\ queue' = Tail(queue)
  /\ UNCHANGED <<now, d_pushes, d_expired, rateVars, almost, resolved, at, job,
                 counting, accepted>>

Tick ==
  /\ now < MaxNow
  /\ now' = now + 1
  /\ UNCHANGED <<queueVars, rateVars, almost, resolved, at, job, counting, history>>

----------------------------------------------------------------------------
WorkerStep(w) ==
  \/ CountPush(w)
  \/ Pop(w)
  \/ Run(w)
  \/ \E ok \in BOOLEAN : RunDone(w, ok)
  \/ IncExpired(w)

Pushing(w) ==
  \E name \in Names :
    \/ \E deadline \in Times : PushAlmostExpired(w, name, deadline)
    \/ PushTryDoT(w, name)
    \/ \E t \in Times : t <= now /\ now <= t + MaxLag /\ PushResolve(w, name, t)

Next ==
  \/ \E w \in Workers : WorkerStep(w) \/ Pushing(w)
  \/ TaskQueueClear \/ TaskQueuePop \/ Tick

Spec == Init /\ [][Next]_vars

\* "TaskQueue is run always" (src/rec-main.cc:2602), and resolving ends.
Fairness == \A w \in Workers : WF_vars(WorkerStep(w))

FairSpec == Spec /\ Fairness

----------------------------------------------------------------------------
(* Properties *)

Stats == [pushed : Nat, run : Nat, exceptions : Nat]

\* The variables have their types.
TypeOK ==
  /\ now \in Times
  /\ queue \in Seq(Jobs)
  /\ d_pushes \in 0 .. MaxPushes /\ d_expired \in Nat
  /\ rateLimitSet \subseteq [task : Tasks, ttd : Nat]
  /\ d_count \in 0 .. PurgeEvery - 1
  /\ almost \in Stats /\ resolved \in Stats
  /\ at \in [Workers -> {"idle", "popped", "running", "late"}]
  /\ job \in [Workers -> Jobs \cup {NoJob}]
  /\ counting \in [Workers -> BOOLEAN]
  /\ accepted \in [Tasks -> Times \cup {-1}]
  /\ removed \in Nat

Busy == {w \in Workers : at[w] # "idle"}

\* No task is lost, done twice or counted twice: what was pushed is queued, being
\* run, expired, run, ended by an exception, or was taken away.
Conservation ==
  d_pushes = Len(queue) + Cardinality(Busy) + d_expired + removed
               + almost.run + almost.exceptions + resolved.run + resolved.exceptions

\* The two statistics of pushes together are the pushes of the queue, but for
\* the workers between releasing the lock and counting.
PushesCounted ==
  d_pushes = almost.pushed + resolved.pushed
               + Cardinality({w \in Workers : counting[w]})

\* A name is in the queue and in the rate limit set at most once.
OnceQueued ==
  /\ \A i, j \in DOMAIN queue : queue[i].task = queue[j].task => i = j
  /\ \A e, f \in rateLimitSet : e.task = f.task => e = f

\* Between two times the rate limit lets a task pass lie more than RatePeriod
\* seconds, less what the clocks of the pushers lag behind.
RateLimited ==
  [][\A task \in Tasks :
       (accepted[task] >= 0 /\ accepted'[task] # accepted[task] /\ accepted'[task] >= 0)
         => now - accepted[task] > RatePeriod - MaxLag]_vars

\* "Insertion fails if it's already there, no problem since we're already scheduled"
\* (src/taskqueue.cc:33): a resolve task that the rate limit lets pass and that is
\* there already is still going to run.
ScheduledWillRun ==
  [][\A task \in Tasks :
       (accepted'[task] # accepted[task] /\ accepted'[task] >= 0)
         => \A i \in DOMAIN queue :
              queue[i].task = task => queue[i].deadline >= now]_vars

\* A task that is queued leaves the queue.
QueueDrains == \A task \in Tasks : Queued(task) ~> ~Queued(task)
=============================================================================

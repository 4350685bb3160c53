-------------------------- MODULE TaskQueueProofs --------------------------
(***************************************************************************)
(* Proofs about TaskQueue, for any workers, names, periods and bounds.     *)
(*                                                                         *)
(* The invariant IInv says that the variables have their types, that a     *)
(* worker that is busy has a task, that tasks and their statistics balance *)
(* and that the rate limit set remembers whom it has let pass.             *)
(***************************************************************************)
EXTENDS TaskQueue, TLAPS, FiniteSetTheorems

\* A worker that is not idle has a task.
JobsHeld == \A w \in Workers : at[w] # "idle" => job[w] \in Jobs

\* A task the rate limit let pass is remembered until its time is over.
Remembered ==
  \A task \in Tasks :
    accepted[task] >= 0 =>
      \/ now > accepted[task] + RatePeriod - MaxLag
      \/ \E entry \in rateLimitSet :
           entry.task = task /\ entry.ttd >= accepted[task] + RatePeriod - MaxLag

TInv == TypeOK /\ JobsHeld

USE TaskQueueAssumption

-----------------------------------------------------------------------------
(* Types *)

\* What a push does to the queue.
LEMMA PushType ==
  ASSUME TypeOK, NEW task \in Tasks, NEW deadline \in Nat, Push(task, deadline)
  PROVE  /\ queue' \in Seq(Jobs) /\ d_pushes' \in 0 .. MaxPushes /\ d_expired' = d_expired
         /\ IF Queued(task) THEN queue' = queue /\ d_pushes' = d_pushes
            ELSE /\ queue' = Append(queue, [task |-> task, deadline |-> deadline])
                 /\ Len(queue') = Len(queue) + 1
                 /\ d_pushes' = d_pushes + 1
<1>1. CASE Queued(task)
  BY <1>1 DEF Push, queueVars, TypeOK
<1>2. CASE ~Queued(task)
  <2>1. [task |-> task, deadline |-> deadline] \in Jobs
    BY DEF Jobs
  <2>2. /\ d_pushes < MaxPushes
        /\ queue' = Append(queue, [task |-> task, deadline |-> deadline])
        /\ d_pushes' = d_pushes + 1
        /\ d_expired' = d_expired
    BY <1>2 DEF Push
  <2>3. queue \in Seq(Jobs) /\ d_pushes \in 0 .. MaxPushes
    BY DEF TypeOK
  <2>4. queue' \in Seq(Jobs) /\ Len(queue') = Len(queue) + 1
    BY <2>1, <2>2, <2>3
  <2> QED
    BY <1>2, <2>2, <2>3, <2>4
<1> QED
  BY <1>1, <1>2

\* Counting keeps the statistics ones.
LEMMA StatsType ==
  ASSUME NEW stats \in Stats
  PROVE  /\ [stats EXCEPT !.pushed = @ + 1] \in Stats
         /\ \A ok \in BOOLEAN : Counted(stats, ok) \in Stats
<1>1. stats.pushed \in Nat /\ stats.run \in Nat /\ stats.exceptions \in Nat
  BY DEF Stats
<1>2. stats = [pushed |-> stats.pushed, run |-> stats.run,
               exceptions |-> stats.exceptions]
  BY DEF Stats
<1>3. /\ [stats EXCEPT !.pushed = @ + 1]
           = [pushed |-> stats.pushed + 1, run |-> stats.run,
              exceptions |-> stats.exceptions]
      /\ [stats EXCEPT !.run = @ + 1]
           = [pushed |-> stats.pushed, run |-> stats.run + 1,
              exceptions |-> stats.exceptions]
      /\ [stats EXCEPT !.exceptions = @ + 1]
           = [pushed |-> stats.pushed, run |-> stats.run,
              exceptions |-> stats.exceptions + 1]
  BY DEF Stats
<1> QED
  BY <1>1, <1>3 DEF Counted, Stats

\* The rate limit set stays one of tasks and times.
LEMMA InsertType ==
  ASSUME TypeOK, NEW task \in Tasks, NEW t \in Times
  PROVE  /\ BeforeInsert(task, t) \subseteq rateLimitSet
         /\ [task |-> task, ttd |-> Expires(t)] \in [task : Tasks, ttd : Nat]
  BY DEF BeforeInsert, PeriodicallyPurged, Purged, Expires, Times

\* A step that pushes is one of two.
LEMMA PushCases ==
  ASSUME NEW w \in Workers, Pushing(w)
  PROVE  \/ \E task \in Tasks, deadline \in Nat : PushUnlimited(w, task, deadline)
         \/ \E name \in Names, t \in Times :
              t <= now /\ now <= t + MaxLag /\ PushResolve(w, name, t)
<1>1. PICK name \in Names :
        \/ \E deadline \in Times : PushAlmostExpired(w, name, deadline)
        \/ PushTryDoT(w, name)
        \/ \E t \in Times : t <= now /\ now <= t + MaxLag /\ PushResolve(w, name, t)
  BY DEF Pushing
<1>2. Forever \in Nat /\ Times \subseteq Nat
  BY DEF Forever, Times
<1>3. \A kind \in Kinds : [kind |-> kind, name |-> name] \in Tasks
  BY DEF Tasks
<1>4. CASE \E deadline \in Times : PushAlmostExpired(w, name, deadline)
  BY <1>2, <1>3, <1>4 DEF PushAlmostExpired, Kinds
<1>5. CASE PushTryDoT(w, name)
  BY <1>2, <1>3, <1>5 DEF PushTryDoT, Kinds
<1> QED
  BY <1>1, <1>4, <1>5

LEMMA TypeInit == Init => TInv
  BY DEF Init, TInv, TypeOK, JobsHeld, Times, Stats, Stats0, Kinds

LEMMA TypeNext == TInv /\ [Next]_vars => TInv'
<1> SUFFICES ASSUME TInv, [Next]_vars PROVE TypeOK' /\ JobsHeld'
  BY DEF TInv
<1> USE DEF TInv
<1>1. ASSUME NEW w \in Workers, CountPush(w) PROVE TypeOK' /\ JobsHeld'
  <2>1. almost' \in Stats
    BY <1>1, StatsType DEF CountPush, TypeOK
  <2>2. counting' \in [Workers -> BOOLEAN]
    BY <1>1 DEF CountPush, TypeOK
  <2> QED
    BY <1>1, <2>1, <2>2 DEF CountPush, TypeOK, JobsHeld, queueVars, rateVars, history
<1>2. ASSUME NEW w \in Workers, Pop(w) PROVE TypeOK' /\ JobsHeld'
  <2>1. Head(queue) \in Jobs /\ Tail(queue) \in Seq(Jobs)
    BY <1>2 DEF Pop, HasTask, TypeOK
  <2> QED
    BY <1>2, <2>1 DEF Pop, TypeOK, JobsHeld, rateVars, history
<1>3. ASSUME NEW w \in Workers, Run(w) PROVE TypeOK' /\ JobsHeld'
  BY <1>3 DEF Run, TypeOK, JobsHeld, queueVars, rateVars, history
<1>4. ASSUME NEW w \in Workers, NEW ok \in BOOLEAN, RunDone(w, ok)
      PROVE TypeOK' /\ JobsHeld'
  <2>1. almost' \in Stats /\ resolved' \in Stats
    BY <1>4, StatsType DEF RunDone, TypeOK
  <2> QED
    BY <1>4, <2>1 DEF RunDone, TypeOK, JobsHeld, queueVars, rateVars
<1>5. ASSUME NEW w \in Workers, IncExpired(w) PROVE TypeOK' /\ JobsHeld'
  BY <1>5 DEF IncExpired, TypeOK, JobsHeld, rateVars, history
<1>6. ASSUME NEW w \in Workers, NEW task \in Tasks, NEW deadline \in Nat,
             PushUnlimited(w, task, deadline)
      PROVE TypeOK' /\ JobsHeld'
  <2>1. queue' \in Seq(Jobs) /\ d_pushes' \in 0 .. MaxPushes /\ d_expired' = d_expired
    BY <1>6, PushType DEF PushUnlimited
  <2>2. counting' \in [Workers -> BOOLEAN]
    BY <1>6 DEF PushUnlimited, TypeOK, Counts
  <2> QED
    BY <1>6, <2>1, <2>2 DEF PushUnlimited, TypeOK, JobsHeld, rateVars, history
<1>7. ASSUME NEW w \in Workers, NEW name \in Names, NEW t \in Times,
             PushResolve(w, name, t)
      PROVE TypeOK' /\ JobsHeld'
  <2> DEFINE task == [kind |-> "resolve", name |-> name]
             set == BeforeInsert(task, t)
  <2>1. task \in Tasks /\ t + ResolveTime \in Nat
    BY DEF Tasks, Kinds, Times
  <2>2. set \subseteq rateLimitSet
        /\ [task |-> task, ttd |-> Expires(t)] \in [task : Tasks, ttd : Nat]
    BY <2>1, InsertType
  <2>3. d_count' \in 0 .. PurgeEvery - 1
    BY <1>7 DEF PushResolve, TypeOK
  <2>4. CASE Limited(set, task)
    <3>1. rateLimitSet' = set /\ UNCHANGED <<queue, d_pushes, d_expired, resolved, accepted>>
      BY <1>7, <2>4 DEF PushResolve, queueVars
    <3>2. rateLimitSet' \subseteq [task : Tasks, ttd : Nat]
      BY <2>2, <3>1 DEF TypeOK
    <3> QED
      BY <1>7, <2>3, <3>1, <3>2 DEF PushResolve, TypeOK, JobsHeld
  <2>5. CASE ~Limited(set, task)
    <3>1. /\ rateLimitSet' = set \cup {[task |-> task, ttd |-> Expires(t)]}
          /\ Push(task, t + ResolveTime)
          /\ resolved' = [resolved EXCEPT !.pushed = IF Queued(task) THEN @ ELSE @ + 1]
          /\ accepted' = [accepted EXCEPT ![task] = now]
      BY <1>7, <2>5 DEF PushResolve
    <3>2. rateLimitSet' \subseteq [task : Tasks, ttd : Nat]
      BY <2>2, <3>1 DEF TypeOK
    <3>3. queue' \in Seq(Jobs) /\ d_pushes' \in 0 .. MaxPushes /\ d_expired' = d_expired
      BY <2>1, <3>1, PushType
    <3>4. resolved' \in Stats
      <4>1. resolved \in Stats
        BY DEF TypeOK
      <4>2. resolved' = [resolved EXCEPT !.pushed = @ + 1] \/ resolved' = resolved
        BY <3>1, <4>1 DEF Stats
      <4> QED
        BY <4>1, <4>2, StatsType
    <3>5. accepted' \in [Tasks -> Times \cup {-1}]
      BY <3>1 DEF TypeOK
    <3> QED
      BY <1>7, <2>3, <3>2, <3>3, <3>4, <3>5 DEF PushResolve, TypeOK, JobsHeld
  <2> QED
    BY <2>4, <2>5
<1>8. CASE TaskQueueClear
  BY <1>8 DEF TaskQueueClear, TypeOK, JobsHeld
<1>9. CASE TaskQueuePop
  <2>1. Tail(queue) \in Seq(Jobs)
    BY <1>9 DEF TaskQueuePop, TypeOK
  <2> QED
    BY <1>9, <2>1 DEF TaskQueuePop, TypeOK, JobsHeld, rateVars
<1>10. CASE Tick
  BY <1>10 DEF Tick, TypeOK, JobsHeld, Times, queueVars, rateVars, history
<1>11. CASE UNCHANGED vars
  BY <1>11 DEF vars, TypeOK, JobsHeld, queueVars, rateVars, history
<1> QED
  BY <1>1, <1>2, <1>3, <1>4, <1>5, <1>6, <1>7, <1>8, <1>9, <1>10, <1>11, PushCases
     DEF Next, WorkerStep

-----------------------------------------------------------------------------
(* The balance of tasks *)

\* Runs that ended, of both statistics.
Ended == almost.run + almost.exceptions + resolved.run + resolved.exceptions

\* Conservation, with the runs that ended as one number.
Balanced == d_pushes = Len(queue) + Cardinality(Busy) + d_expired + removed + Ended

Counters == {w \in Workers : counting[w]}

\* The workers that are busy, and those that are yet to count, can be counted.
LEMMA WorkersCounted ==
  TInv => /\ IsFiniteSet(Busy) /\ Cardinality(Busy) \in Nat
          /\ IsFiniteSet(Counters) /\ Cardinality(Counters) \in Nat
<1>1. Busy \subseteq Workers /\ Counters \subseteq Workers
  BY DEF Busy, Counters
<1>2. IsFiniteSet(Busy) /\ IsFiniteSet(Counters)
  BY <1>1, FS_Subset
<1> QED
  BY <1>2, FS_CardinalityType

\* Everything that Conservation and PushesCounted add up is a number.
LEMMA Numbers ==
  TInv => /\ Len(queue) \in Nat /\ d_pushes \in Nat /\ d_expired \in Nat
          /\ removed \in Nat
          /\ almost.pushed \in Nat /\ almost.run \in Nat /\ almost.exceptions \in Nat
          /\ resolved.pushed \in Nat /\ resolved.run \in Nat
          /\ resolved.exceptions \in Nat
  BY DEF TInv, TypeOK, Stats

\* A push that is not absorbed adds one task and one push to count.
LEMMA PushBalances ==
  ASSUME TInv, NEW task \in Tasks, NEW deadline \in Nat, Push(task, deadline)
  PROVE  /\ \/ Queued(task) /\ Len(queue') = Len(queue) /\ d_pushes' = d_pushes
            \/ ~Queued(task) /\ Len(queue') = Len(queue) + 1 /\ d_pushes' = d_pushes + 1
         /\ d_expired' = d_expired
<1>1. TypeOK
  BY DEF TInv
<1> QED
  BY <1>1, PushType

LEMMA EndedNumber == TInv => Ended \in Nat
<1> SUFFICES ASSUME TInv PROVE Ended \in Nat
  OBVIOUS
<1>1. /\ almost.run \in Nat /\ almost.exceptions \in Nat
      /\ resolved.run \in Nat /\ resolved.exceptions \in Nat
  BY Numbers
<1>2. \A a, b, c, d \in Nat : a + b + c + d \in Nat
  OBVIOUS
<1> QED
  BY <1>1, <1>2, Zenon DEF Ended

LEMMA BalancedConserves == TInv /\ Balanced => Conservation
<1> SUFFICES ASSUME TInv, Balanced PROVE Conservation
  OBVIOUS
<1> DEFINE a == almost.run      b == almost.exceptions
           c == resolved.run    d == resolved.exceptions
<1>1. a \in Nat /\ b \in Nat /\ c \in Nat /\ d \in Nat
  BY Numbers
<1>2. PICK kept \in Nat : kept = Len(queue) + Cardinality(Busy) + d_expired + removed
  BY Numbers, WorkersCounted
<1>3. d_pushes = kept + (a + b + c + d)
  BY <1>2, Zenon DEF Balanced, Ended
<1>4. kept + (a + b + c + d) = kept + a + b + c + d
  <2> HIDE DEF a, b, c, d
  <2> QED
    BY <1>1
<1> QED
  BY <1>2, <1>3, <1>4, Zenon DEF Conservation

\* A counter that is raised raises the sum.
LEMMA EndedRaised ==
  ASSUME TInv,
         \/ almost'.run = almost.run + 1 /\ almost'.exceptions = almost.exceptions
            /\ resolved'.run = resolved.run /\ resolved'.exceptions = resolved.exceptions
         \/ almost'.run = almost.run /\ almost'.exceptions = almost.exceptions + 1
            /\ resolved'.run = resolved.run /\ resolved'.exceptions = resolved.exceptions
         \/ almost'.run = almost.run /\ almost'.exceptions = almost.exceptions
            /\ resolved'.run = resolved.run + 1 /\ resolved'.exceptions = resolved.exceptions
         \/ almost'.run = almost.run /\ almost'.exceptions = almost.exceptions
            /\ resolved'.run = resolved.run /\ resolved'.exceptions = resolved.exceptions + 1
  PROVE  Ended' = Ended + 1
<1> DEFINE a == almost.run      b == almost.exceptions
           c == resolved.run    d == resolved.exceptions
<1>1. a \in Nat /\ b \in Nat /\ c \in Nat /\ d \in Nat
  BY Numbers
<1>2. \/ Ended' = (a + 1) + b + c + d
      \/ Ended' = a + (b + 1) + c + d
      \/ Ended' = a + b + (c + 1) + d
      \/ Ended' = a + b + c + (d + 1)
  BY Zenon DEF Ended
<1>3. Ended = a + b + c + d
  BY Zenon DEF Ended
<1> HIDE DEF a, b, c, d
<1> QED
  BY <1>1, <1>2, <1>3

LEMMA BalancedInit == Init => Balanced
<1> SUFFICES ASSUME Init PROVE Balanced
  OBVIOUS
<1>1. Busy = {}
  BY DEF Init, Busy
<1> QED
  BY <1>1, FS_EmptySet DEF Init, Balanced, Ended, Stats0

LEMMA BalancedNext ==
  ASSUME TInv, Balanced, [Next]_vars
  PROVE  Balanced'
<1> USE Numbers, WorkersCounted, EndedNumber
<1>1. ASSUME NEW w \in Workers, CountPush(w) PROVE Balanced'
  <2>1. Busy' = Busy
    BY <1>1 DEF CountPush, Busy
  <2>2. almost'.run = almost.run /\ almost'.exceptions = almost.exceptions
    BY <1>1 DEF CountPush, TInv, TypeOK, Stats
  <2>3. Ended' = Ended
    BY <1>1, <2>2 DEF CountPush, Ended
  <2> QED
    BY <1>1, <2>1, <2>3 DEF CountPush, Balanced, queueVars, history
<1>2. ASSUME NEW w \in Workers, Pop(w) PROVE Balanced'
  <2>1. Busy' = Busy \cup {w} /\ w \notin Busy
    BY <1>2 DEF Pop, Busy, TInv, TypeOK
  <2>2. Cardinality(Busy') = Cardinality(Busy) + 1
    BY <2>1, FS_AddElement
  <2>3. Len(queue') = Len(queue) - 1
    BY <1>2 DEF Pop, HasTask, TInv, TypeOK
  <2>4. UNCHANGED <<d_pushes, d_expired, removed>> /\ Ended' = Ended
    BY <1>2 DEF Pop, history, Ended
  <2> QED
    BY <2>2, <2>3, <2>4 DEF Balanced
<1>3. ASSUME NEW w \in Workers, Run(w) PROVE Balanced'
  <2>1. Busy' = Busy
    BY <1>3 DEF Run, Busy, TInv, TypeOK
  <2>2. Ended' = Ended
    BY <1>3 DEF Run, Ended
  <2> QED
    BY <1>3, <2>1, <2>2 DEF Run, Balanced, queueVars, history
<1>4. ASSUME NEW w \in Workers, NEW ok \in BOOLEAN, RunDone(w, ok)
      PROVE Balanced'
  <2>1. Busy' = Busy \ {w} /\ w \in Busy
    BY <1>4 DEF RunDone, Busy, TInv, TypeOK
  <2>2. Cardinality(Busy') = Cardinality(Busy) - 1
    BY <2>1, FS_RemoveElement
  <2>3. UNCHANGED <<queue, d_pushes, d_expired, removed>>
    BY <1>4 DEF RunDone, queueVars
  <2>4. Ended' = Ended + 1
    <3>1. almost \in Stats /\ resolved \in Stats
      BY DEF TInv, TypeOK
    <3>2. \A stats \in Stats :
            \/ /\ Counted(stats, ok).run = stats.run + 1
               /\ Counted(stats, ok).exceptions = stats.exceptions
            \/ /\ Counted(stats, ok).run = stats.run
               /\ Counted(stats, ok).exceptions = stats.exceptions + 1
      <4>1. CASE ok
        BY <4>1 DEF Counted, Stats
      <4>2. CASE ~ok
        BY <4>2 DEF Counted, Stats
      <4> QED
        BY <4>1, <4>2
    <3>3. CASE job[w].task.kind = "refresh"
      <4>1. almost' = Counted(almost, ok) /\ resolved' = resolved
        BY <1>4, <3>3 DEF RunDone
      <4>2. \/ almost'.run = almost.run + 1 /\ almost'.exceptions = almost.exceptions
            \/ almost'.run = almost.run /\ almost'.exceptions = almost.exceptions + 1
        BY <3>1, <3>2, <4>1
      <4>3. resolved'.run = resolved.run /\ resolved'.exceptions = resolved.exceptions
        BY <4>1
      <4> QED
        BY <4>2, <4>3, EndedRaised
    <3>4. CASE job[w].task.kind # "refresh"
      <4>1. resolved' = Counted(resolved, ok) /\ almost' = almost
        BY <1>4, <3>4 DEF RunDone
      <4>2. \/ /\ resolved'.run = resolved.run + 1
               /\ resolved'.exceptions = resolved.exceptions
            \/ /\ resolved'.run = resolved.run
               /\ resolved'.exceptions = resolved.exceptions + 1
        BY <3>1, <3>2, <4>1
      <4>3. almost'.run = almost.run /\ almost'.exceptions = almost.exceptions
        BY <4>1
      <4> QED
        BY <4>2, <4>3, EndedRaised
    <3> QED
      BY <3>3, <3>4
  <2> QED
    BY <2>2, <2>3, <2>4 DEF Balanced
<1>5. ASSUME NEW w \in Workers, IncExpired(w) PROVE Balanced'
  <2>1. Busy' = Busy \ {w} /\ w \in Busy
    BY <1>5 DEF IncExpired, Busy, TInv, TypeOK
  <2>2. Cardinality(Busy') = Cardinality(Busy) - 1
    BY <2>1, FS_RemoveElement
  <2>3. Ended' = Ended
    BY <1>5 DEF IncExpired, Ended
  <2> QED
    BY <1>5, <2>2, <2>3 DEF IncExpired, Balanced, history
<1>6. ASSUME NEW w \in Workers, NEW task \in Tasks, NEW deadline \in Nat,
             PushUnlimited(w, task, deadline)
      PROVE Balanced'
  <2>1. Busy' = Busy
    BY <1>6 DEF PushUnlimited, Busy
  <2>2. /\ \/ Len(queue') = Len(queue) /\ d_pushes' = d_pushes
           \/ Len(queue') = Len(queue) + 1 /\ d_pushes' = d_pushes + 1
        /\ d_expired' = d_expired
    BY <1>6, PushBalances DEF PushUnlimited
  <2>3. removed' = removed /\ Ended' = Ended
    BY <1>6 DEF PushUnlimited, history, Ended
  <2> QED
    BY <2>1, <2>2, <2>3, SMTT(30) DEF Balanced
<1>7. ASSUME NEW w \in Workers, NEW name \in Names, NEW t \in Times,
             PushResolve(w, name, t)
      PROVE Balanced'
  <2> DEFINE task == [kind |-> "resolve", name |-> name]
  <2>1. task \in Tasks /\ t + ResolveTime \in Nat
    BY DEF Tasks, Kinds, Times
  <2>2. Busy' = Busy
    BY <1>7 DEF PushResolve, Busy
  <2>3. resolved'.run = resolved.run /\ resolved'.exceptions = resolved.exceptions
    BY <1>7 DEF PushResolve, TInv, TypeOK, Stats
  <2>4. Push(task, t + ResolveTime) \/ UNCHANGED <<queue, d_pushes, d_expired>>
    BY <1>7 DEF PushResolve, queueVars
  <2> HIDE DEF task
  <2>5. /\ \/ Len(queue') = Len(queue) /\ d_pushes' = d_pushes
           \/ Len(queue') = Len(queue) + 1 /\ d_pushes' = d_pushes + 1
        /\ d_expired' = d_expired
    BY <2>1, <2>4, PushBalances
  <2>6. removed' = removed /\ Ended' = Ended
    BY <1>7, <2>3 DEF PushResolve, Ended
  <2> QED
    BY <2>2, <2>5, <2>6, SMTT(30) DEF Balanced
<1>8. CASE TaskQueueClear
  <2>1. Busy' = Busy /\ Len(queue') = 0 /\ Ended' = Ended
    BY <1>8 DEF TaskQueueClear, Busy, Ended
  <2> QED
    BY <1>8, <2>1 DEF TaskQueueClear, Balanced
<1>9. CASE TaskQueuePop
  <2>1. Busy' = Busy /\ Ended' = Ended
    BY <1>9 DEF TaskQueuePop, Busy, Ended
  <2>2. Len(queue') = Len(queue) - 1
    BY <1>9 DEF TaskQueuePop, TInv, TypeOK
  <2> QED
    BY <1>9, <2>1, <2>2 DEF TaskQueuePop, Balanced
<1>10. CASE Tick \/ UNCHANGED vars
  <2>1. Busy' = Busy /\ Ended' = Ended
    BY <1>10 DEF Tick, vars, Busy, Ended
  <2> QED
    BY <1>10, <2>1 DEF Tick, vars, Balanced, queueVars, history
<1> QED
  BY <1>1, <1>2, <1>3, <1>4, <1>5, <1>6, <1>7, <1>8, <1>9, <1>10, PushCases
     DEF Next, WorkerStep

-----------------------------------------------------------------------------
(* The balance of pushes *)

LEMMA PushesCountedInit == Init => PushesCounted
<1> SUFFICES ASSUME Init PROVE PushesCounted
  OBVIOUS
<1>1. {w \in Workers : counting[w]} = {}
  BY DEF Init
<1>2. d_pushes = 0 /\ almost.pushed = 0 /\ resolved.pushed = 0
  BY DEF Init, Stats0
<1> QED
  BY <1>1, <1>2, FS_EmptySet DEF PushesCounted

LEMMA PushesCountedNext ==
  ASSUME TInv, PushesCounted, [Next]_vars
  PROVE  PushesCounted'
<1> USE Numbers, WorkersCounted
<1>0. PushesCounted <=> d_pushes = almost.pushed + resolved.pushed + Cardinality(Counters)
  BY DEF PushesCounted, Counters
<1>00. PushesCounted' <=> d_pushes' = almost'.pushed + resolved'.pushed
                                        + Cardinality(Counters')
  BY DEF PushesCounted, Counters
<1>1. ASSUME NEW w \in Workers, CountPush(w) PROVE PushesCounted'
  <2>1. Counters' = Counters \ {w} /\ w \in Counters
    BY <1>1 DEF CountPush, Counters, TInv, TypeOK
  <2>2. Cardinality(Counters') = Cardinality(Counters) - 1
    BY <2>1, FS_RemoveElement
  <2>3. /\ almost'.pushed = almost.pushed + 1 /\ resolved'.pushed = resolved.pushed
        /\ d_pushes' = d_pushes
    BY <1>1 DEF CountPush, TInv, TypeOK, Stats, queueVars
  <2> QED
    BY <1>0, <1>00, <2>2, <2>3
<1>2. ASSUME NEW w \in Workers, Pop(w) \/ Run(w) \/ IncExpired(w) PROVE PushesCounted'
  BY <1>2 DEF Pop, Run, IncExpired, PushesCounted, queueVars, history
<1>3. ASSUME NEW w \in Workers, NEW ok \in BOOLEAN, RunDone(w, ok)
      PROVE PushesCounted'
  <2>1. almost'.pushed = almost.pushed /\ resolved'.pushed = resolved.pushed
    BY <1>3 DEF RunDone, Counted, TInv, TypeOK, Stats
  <2>2. Counters' = Counters /\ d_pushes' = d_pushes
    BY <1>3 DEF RunDone, Counters, queueVars
  <2> QED
    BY <1>0, <1>00, <2>1, <2>2
<1>4. ASSUME NEW w \in Workers, NEW task \in Tasks, NEW deadline \in Nat,
             PushUnlimited(w, task, deadline)
      PROVE PushesCounted'
  <2>1. almost'.pushed = almost.pushed /\ resolved'.pushed = resolved.pushed
    BY <1>4 DEF PushUnlimited
  <2>2. w \notin Counters /\ Push(task, deadline)
    BY <1>4 DEF PushUnlimited, Pusher, Counters
  <2>3. counting' = [counting EXCEPT ![w] = ~Queued(task)]
    BY <1>4 DEF PushUnlimited, Counts
  <2>4. CASE Queued(task)
    <3>1. Counters' = Counters
      BY <2>2, <2>3, <2>4 DEF Counters, TInv, TypeOK
    <3> QED
      BY <1>0, <1>00, <2>1, <2>2, <2>4, <3>1, PushBalances
  <2>5. CASE ~Queued(task)
    <3>1. Counters' = Counters \cup {w}
      BY <2>3, <2>5 DEF Counters, TInv, TypeOK
    <3>2. Cardinality(Counters') = Cardinality(Counters) + 1
      BY <2>2, <3>1, FS_AddElement
    <3> QED
      BY <1>0, <1>00, <2>1, <2>2, <2>5, <3>2, PushBalances
  <2> QED
    BY <2>4, <2>5
<1>5. ASSUME NEW w \in Workers, NEW name \in Names, NEW t \in Times,
             PushResolve(w, name, t)
      PROVE PushesCounted'
  <2> DEFINE task == [kind |-> "resolve", name |-> name]
  <2>1. task \in Tasks /\ t + ResolveTime \in Nat
    BY DEF Tasks, Kinds, Times
  <2>2. Counters' = Counters /\ almost'.pushed = almost.pushed
    BY <1>5 DEF PushResolve, Counters
  <2>3. \/ UNCHANGED <<d_pushes, resolved>>
        \/ /\ Push(task, t + ResolveTime)
           /\ resolved' = [resolved EXCEPT !.pushed = IF Queued(task) THEN @ ELSE @ + 1]
    BY <1>5 DEF PushResolve, queueVars
  <2>4. resolved \in Stats
    BY DEF TInv, TypeOK
  <2> HIDE DEF task
  <2>5. CASE UNCHANGED <<d_pushes, resolved>>
    BY <2>2, <2>5 DEF PushesCounted, Counters
  <2>6. CASE /\ Push(task, t + ResolveTime)
             /\ resolved' = [resolved EXCEPT !.pushed = IF Queued(task) THEN @ ELSE @ + 1]
    <3>1. CASE Queued(task)
      <4>1. resolved'.pushed = resolved.pushed
        BY <2>4, <2>6, <3>1 DEF Stats
      <4> QED
        BY <1>0, <1>00, <2>1, <2>2, <2>6, <3>1, <4>1, PushBalances
    <3>2. CASE ~Queued(task)
      <4>1. resolved'.pushed = resolved.pushed + 1
        BY <2>4, <2>6, <3>2 DEF Stats
      <4>2. d_pushes' = d_pushes + 1
        BY <2>1, <2>6, <3>2, PushBalances
      <4> QED
        BY <1>0, <1>00, <2>2, <4>1, <4>2
    <3> QED
      BY <3>1, <3>2
  <2> QED
    BY <2>3, <2>5, <2>6
<1>6. CASE TaskQueueClear \/ TaskQueuePop \/ Tick \/ UNCHANGED vars
  BY <1>6 DEF TaskQueueClear, TaskQueuePop, Tick, vars, PushesCounted, queueVars, history
<1> QED
  BY <1>1, <1>2, <1>3, <1>4, <1>5, <1>6, PushCases DEF Next, WorkerStep

-----------------------------------------------------------------------------
(* Once in the queue, once in the rate limit set *)

OnceInQueue == \A i, j \in DOMAIN queue : queue[i].task = queue[j].task => i = j
OnceLimited == \A e, f \in rateLimitSet : e.task = f.task => e = f

\* Taking the first task leaves the others apart.
LEMMA TailOnce ==
  ASSUME NEW S, NEW q \in Seq(S), q # <<>>,
         \A i, j \in DOMAIN q : q[i].task = q[j].task => i = j
  PROVE  \A i, j \in DOMAIN Tail(q) : Tail(q)[i].task = Tail(q)[j].task => i = j
<1>1. /\ Tail(q) \in Seq(S) /\ Len(Tail(q)) = Len(q) - 1
      /\ DOMAIN Tail(q) = 1 .. Len(Tail(q)) /\ DOMAIN q = 1 .. Len(q)
      /\ \A i \in 1 .. Len(Tail(q)) : Tail(q)[i] = q[i + 1]
  OBVIOUS
<1> SUFFICES ASSUME NEW i \in 1 .. Len(Tail(q)), NEW j \in 1 .. Len(Tail(q)),
                    Tail(q)[i].task = Tail(q)[j].task
             PROVE  i = j
  BY <1>1
<1>2. i + 1 \in DOMAIN q /\ j + 1 \in DOMAIN q
  BY <1>1
<1>3. q[i + 1].task = q[j + 1].task
  BY <1>1
<1> QED
  BY <1>2, <1>3

\* A push keeps them apart.
LEMMA PushOnce ==
  ASSUME TInv, OnceInQueue, NEW task \in Tasks, NEW deadline \in Nat,
         Push(task, deadline)
  PROVE  OnceInQueue'
<1>1. CASE Queued(task)
  BY <1>1, PushType DEF TInv, OnceInQueue
<1>2. CASE ~Queued(task)
  <2> DEFINE new == [task |-> task, deadline |-> deadline]
  <2>1. new \in Jobs /\ new.task = task
    BY DEF Jobs
  <2>2. queue \in Seq(Jobs) /\ queue' = Append(queue, new)
    BY <1>2, PushType DEF TInv, TypeOK
  <2> HIDE DEF new
  <2>3. /\ DOMAIN queue = 1 .. Len(queue)
        /\ DOMAIN queue' = 1 .. Len(queue) + 1
        /\ \A i \in 1 .. Len(queue) : queue'[i] = queue[i]
        /\ queue'[Len(queue) + 1] = new
    BY <2>1, <2>2
  <2>4. \A i \in 1 .. Len(queue) : queue[i].task # task
    BY <1>2, <2>3 DEF Queued
  <2>5. ASSUME NEW i \in 1 .. Len(queue) + 1, NEW j \in 1 .. Len(queue) + 1,
               queue'[i].task = queue'[j].task
        PROVE  i = j
    <3>1. CASE i \in 1 .. Len(queue) /\ j \in 1 .. Len(queue)
      BY <2>3, <2>5, <3>1 DEF OnceInQueue
    <3>2. CASE i \in 1 .. Len(queue) /\ j = Len(queue) + 1
      BY <2>1, <2>3, <2>4, <2>5, <3>2
    <3>3. CASE i = Len(queue) + 1 /\ j \in 1 .. Len(queue)
      BY <2>1, <2>3, <2>4, <2>5, <3>3
    <3>4. CASE i = Len(queue) + 1 /\ j = Len(queue) + 1
      BY <3>4
    <3> QED
      BY <2>2, <3>1, <3>2, <3>3, <3>4
  <2> QED
    BY <2>3, <2>5 DEF OnceInQueue
<1> QED
  BY <1>1, <1>2

LEMMA OnceQueuedNext ==
  ASSUME TInv, OnceQueued, [Next]_vars
  PROVE  OnceQueued'
<1>0. OnceInQueue /\ OnceLimited
  BY DEF OnceQueued, OnceInQueue, OnceLimited
<1>1. OnceInQueue'
  <2>1. ASSUME NEW w \in Workers, Pop(w) PROVE OnceInQueue'
    BY <1>0, <2>1, TailOnce DEF Pop, HasTask, OnceInQueue, TInv, TypeOK
  <2>2. CASE TaskQueuePop
    BY <1>0, <2>2, TailOnce DEF TaskQueuePop, OnceInQueue, TInv, TypeOK
  <2>3. ASSUME NEW w \in Workers, NEW task \in Tasks, NEW deadline \in Nat,
               PushUnlimited(w, task, deadline)
        PROVE  OnceInQueue'
    BY <1>0, <2>3, PushOnce DEF PushUnlimited
  <2>4. ASSUME NEW w \in Workers, NEW name \in Names, NEW t \in Times,
               PushResolve(w, name, t)
        PROVE  OnceInQueue'
    <3> DEFINE task == [kind |-> "resolve", name |-> name]
    <3>1. task \in Tasks /\ t + ResolveTime \in Nat
      BY DEF Tasks, Kinds, Times
    <3>2. Push(task, t + ResolveTime) \/ queue' = queue
      BY <2>4 DEF PushResolve, queueVars
    <3> HIDE DEF task
    <3>3. CASE Push(task, t + ResolveTime)
      BY <1>0, <3>1, <3>3, PushOnce
    <3>4. CASE queue' = queue
      BY <1>0, <3>4 DEF OnceInQueue
    <3> QED
      BY <3>2, <3>3, <3>4
  <2>5. CASE TaskQueueClear
    BY <2>5 DEF TaskQueueClear, OnceInQueue
  <2>6. CASE queue' = queue
    BY <1>0, <2>6 DEF OnceInQueue
  <2>7. ASSUME NEW w \in Workers, CountPush(w) \/ Run(w) \/ IncExpired(w)
                 \/ \E ok \in BOOLEAN : RunDone(w, ok)
        PROVE  queue' = queue
    BY <2>7 DEF CountPush, Run, IncExpired, RunDone, queueVars
  <2>8. CASE Tick \/ UNCHANGED vars
    BY <2>6, <2>8 DEF Tick, vars, queueVars
  <2> QED
    BY <2>1, <2>2, <2>3, <2>4, <2>5, <2>6, <2>7, <2>8, PushCases DEF Next, WorkerStep
<1>2. OnceLimited'
  <2>1. ASSUME NEW w \in Workers, NEW name \in Names, NEW t \in Times,
               PushResolve(w, name, t)
        PROVE  OnceLimited'
    <3> DEFINE task == [kind |-> "resolve", name |-> name]
               set == BeforeInsert(task, t)
               new == [task |-> task, ttd |-> Expires(t)]
    <3>1. set \subseteq rateLimitSet
      BY DEF BeforeInsert, PeriodicallyPurged, Purged
    <3>2. CASE Limited(set, task)
      BY <1>0, <2>1, <3>1, <3>2 DEF PushResolve, OnceLimited
    <3>3. CASE ~Limited(set, task)
      <4>1. rateLimitSet' = set \cup {new}
        BY <2>1, <3>3 DEF PushResolve
      <4>2. \A entry \in set : entry.task # task
        BY <3>3 DEF Limited
      <4>3. new.task = task
        OBVIOUS
      <4> HIDE DEF new, set, task
      <4> QED
        BY <1>0, <3>1, <4>1, <4>2, <4>3 DEF OnceLimited
    <3> QED
      BY <3>2, <3>3
  <2>2. CASE TaskQueueClear
    BY <2>2 DEF TaskQueueClear, OnceLimited
  <2>3. CASE rateLimitSet' = rateLimitSet
    BY <1>0, <2>3 DEF OnceLimited
  <2>4. ASSUME NEW w \in Workers, WorkerStep(w) PROVE rateLimitSet' = rateLimitSet
    BY <2>4 DEF WorkerStep, CountPush, Pop, Run, RunDone, IncExpired, rateVars
  <2>5. ASSUME NEW w \in Workers, NEW task \in Tasks, NEW deadline \in Nat,
               PushUnlimited(w, task, deadline)
        PROVE  rateLimitSet' = rateLimitSet
    BY <2>5 DEF PushUnlimited, rateVars
  <2>6. CASE TaskQueuePop \/ Tick \/ UNCHANGED vars
    BY <2>3, <2>6 DEF TaskQueuePop, Tick, vars, rateVars
  <2> QED
    BY <2>1, <2>2, <2>3, <2>4, <2>5, <2>6, PushCases DEF Next
<1> QED
  BY <1>1, <1>2 DEF OnceQueued, OnceInQueue, OnceLimited

-----------------------------------------------------------------------------
(* The rate limit *)

\* What a purge takes from the set has an end before the purger's time.
LEMMA PurgeKeeps ==
  ASSUME TypeOK, NEW task \in Tasks, NEW t \in Times
  PROVE  \A entry \in rateLimitSet :
           entry.ttd >= t => entry \in BeforeInsert(task, t)
  BY DEF BeforeInsert, PeriodicallyPurged, Purged

\* What an insertion by a task does: the set, and whom it remembers.
LEMMA RememberedPush ==
  ASSUME TInv, Remembered, NEW w \in Workers, NEW name \in Names, NEW t \in Times,
         t <= now, now <= t + MaxLag, PushResolve(w, name, t)
  PROVE  Remembered'
<1> DEFINE task == [kind |-> "resolve", name |-> name]
           set == BeforeInsert(task, t)
           new == [task |-> task, ttd |-> Expires(t)]
<1>1. task \in Tasks /\ TypeOK
  BY DEF Tasks, Kinds, TInv
<1>2. /\ now \in Nat /\ t \in Nat /\ now' = now
      /\ accepted \in [Tasks -> Times \cup {-1}] /\ Times \subseteq Int
      /\ rateLimitSet \subseteq [task : Tasks, ttd : Nat]
  BY DEF TInv, TypeOK, Times, PushResolve
<1>3. \A entry \in rateLimitSet : entry.ttd >= t => entry \in set
  BY <1>1, PurgeKeeps
<1>4. set \subseteq rateLimitSet'
  BY DEF PushResolve
<1>5. \/ accepted' = accepted
      \/ accepted' = [accepted EXCEPT ![task] = now] /\ new \in rateLimitSet'
  BY DEF PushResolve
<1>6. new.task = task /\ new.ttd = t + RatePeriod
  BY DEF Expires
<1> HIDE DEF new, set, task
<1> SUFFICES ASSUME NEW other \in Tasks, accepted'[other] >= 0
             PROVE  \/ now' > accepted'[other] + RatePeriod - MaxLag
                    \/ \E entry \in rateLimitSet' :
                         /\ entry.task = other
                         /\ entry.ttd >= accepted'[other] + RatePeriod - MaxLag
  BY DEF Remembered
<1>7. CASE accepted'[other] = accepted[other]
  <2>1. CASE now > accepted[other] + RatePeriod - MaxLag
    BY <1>2, <1>7, <2>1
  <2>2. CASE ~(now > accepted[other] + RatePeriod - MaxLag)
    <3>1. PICK entry \in rateLimitSet :
            entry.task = other /\ entry.ttd >= accepted[other] + RatePeriod - MaxLag
      BY <1>7, <2>2 DEF Remembered
    <3>2. CASE entry.ttd >= t
      BY <1>3, <1>4, <1>7, <3>1, <3>2
    <3>3. CASE entry.ttd < t
      <4>1. entry.ttd \in Nat /\ accepted[other] \in Int
        <5>1. accepted[other] \in Times \cup {-1} /\ entry \in rateLimitSet
          BY <1>2
        <5>2. accepted[other] \in Int
          BY <5>1, TaskQueueAssumption DEF Times
        <5>3. entry.ttd \in Nat
          BY <1>2, <5>1
        <5> QED
          BY <5>2, <5>3
      <4>2. RatePeriod \in Nat /\ MaxLag \in Nat
        BY TaskQueueAssumption
      <4>3. entry.ttd >= accepted[other] + RatePeriod - MaxLag
        BY <3>1
      <4> DEFINE a == accepted[other]
                 e == entry.ttd
      <4>4. a \in Int /\ e \in Nat /\ e >= a + RatePeriod - MaxLag /\ e < t
        BY <3>3, <4>1, <4>3
      <4>5. accepted'[other] = a
        BY <1>7
      <4> HIDE DEF a, e
      <4>6. now > a + RatePeriod - MaxLag
        BY <1>2, <4>2, <4>4
      <4> QED
        BY <1>2, <4>5, <4>6
    <3> QED
      BY <1>2, <3>2, <3>3
  <2> QED
    BY <2>1, <2>2
<1>8. CASE accepted'[other] # accepted[other]
  <2>1. /\ other = task /\ accepted'[other] = now /\ new \in rateLimitSet'
    BY <1>1, <1>2, <1>5, <1>8
  <2> QED
    BY <1>2, <1>6, <2>1
<1> QED
  BY <1>7, <1>8

LEMMA RememberedNext ==
  ASSUME TInv, Remembered, [Next]_vars
  PROVE  Remembered'
<1>1. CASE now' = now /\ accepted' = accepted /\ rateLimitSet' = rateLimitSet
  BY <1>1 DEF Remembered
<1>2. ASSUME NEW w \in Workers, WorkerStep(w)
      PROVE  now' = now /\ accepted' = accepted /\ rateLimitSet' = rateLimitSet
  BY <1>2 DEF WorkerStep, CountPush, Pop, Run, RunDone, IncExpired, rateVars, history
<1>3. ASSUME NEW w \in Workers, NEW task \in Tasks, NEW deadline \in Nat,
             PushUnlimited(w, task, deadline)
      PROVE  now' = now /\ accepted' = accepted /\ rateLimitSet' = rateLimitSet
  BY <1>3 DEF PushUnlimited, rateVars, history
<1>4. CASE TaskQueueClear
  BY <1>4 DEF TaskQueueClear, Remembered
<1>5. CASE TaskQueuePop \/ UNCHANGED vars
  BY <1>1, <1>5 DEF TaskQueuePop, vars, rateVars, history
<1>6. CASE Tick
  <2>1. /\ now \in Nat /\ now' = now + 1
        /\ accepted' = accepted /\ rateLimitSet' = rateLimitSet
        /\ accepted \in [Tasks -> Times \cup {-1}] /\ Times \subseteq Int
    BY <1>6 DEF Tick, TInv, TypeOK, Times, rateVars, history
  <2> SUFFICES ASSUME NEW task \in Tasks, accepted[task] >= 0
               PROVE  \/ now + 1 > accepted[task] + RatePeriod - MaxLag
                      \/ \E entry \in rateLimitSet :
                           /\ entry.task = task
                           /\ entry.ttd >= accepted[task] + RatePeriod - MaxLag
    BY <2>1 DEF Remembered
  <2>2. accepted[task] \in Int /\ RatePeriod \in Nat /\ MaxLag \in Nat
    <3>1. accepted[task] \in Times \cup {-1}
      BY <2>1
    <3>2. accepted[task] \in Int
      BY <3>1, TaskQueueAssumption DEF Times
    <3> QED
      BY <3>2, TaskQueueAssumption
  <2>3. \/ now > accepted[task] + RatePeriod - MaxLag
        \/ \E entry \in rateLimitSet :
             /\ entry.task = task
             /\ entry.ttd >= accepted[task] + RatePeriod - MaxLag
    BY DEF Remembered
  <2>4. CASE now > accepted[task] + RatePeriod - MaxLag
    BY <2>1, <2>2, <2>4
  <2> QED
    BY <2>3, <2>4
<1> QED
  BY <1>1, <1>2, <1>3, <1>4, <1>5, <1>6, RememberedPush, PushCases DEF Next

\* A task is let pass again only when the set has forgotten it.
LEMMA RateLimitedStep ==
  ASSUME TInv, Remembered, [Next]_vars, NEW task \in Tasks,
         accepted[task] >= 0, accepted'[task] # accepted[task], accepted'[task] >= 0
  PROVE  now - accepted[task] > RatePeriod - MaxLag
<1>1. accepted' # accepted
  OBVIOUS
<1>2. ~TaskQueueClear
  BY DEF TaskQueueClear
<1>3. PICK w \in Workers, name \in Names, t \in Times :
        t <= now /\ now <= t + MaxLag /\ PushResolve(w, name, t)
  <2>1. ~(TaskQueuePop \/ Tick \/ UNCHANGED vars)
    BY <1>1 DEF TaskQueuePop, Tick, vars, history
  <2>2. ASSUME NEW w \in Workers, WorkerStep(w) PROVE FALSE
    BY <1>1, <2>2 DEF WorkerStep, CountPush, Pop, Run, RunDone, IncExpired, history
  <2>3. ASSUME NEW w \in Workers, NEW other \in Tasks, NEW deadline \in Nat,
               PushUnlimited(w, other, deadline)
        PROVE  FALSE
    BY <1>1, <2>3 DEF PushUnlimited, history
  <2> QED
    BY <1>2, <2>1, <2>2, <2>3, PushCases DEF Next
<1> DEFINE mine == [kind |-> "resolve", name |-> name]
<1>4. task = mine /\ ~Limited(BeforeInsert(mine, t), mine)
  BY <1>1, <1>3 DEF PushResolve, TInv, TypeOK
<1>5. /\ now \in Nat /\ t \in Nat /\ accepted[task] \in Int
      /\ rateLimitSet \subseteq [task : Tasks, ttd : Nat]
  BY DEF TInv, TypeOK, Times
<1>6. \A entry \in rateLimitSet : entry.task = task => entry.ttd < t
  <2>1. TypeOK /\ mine \in Tasks
    BY <1>4 DEF TInv
  <2>2. \A entry \in rateLimitSet :
          entry.ttd >= t => entry \in BeforeInsert(mine, t)
    BY <2>1, PurgeKeeps
  <2>3. \A entry \in BeforeInsert(mine, t) : entry.task # task
    BY <1>4 DEF Limited
  <2> HIDE DEF mine
  <2> QED
    BY <1>5, <2>2, <2>3
<1>7. CASE now > accepted[task] + RatePeriod - MaxLag
  BY <1>5, <1>7
<1>8. CASE ~(now > accepted[task] + RatePeriod - MaxLag)
  <2>1. PICK entry \in rateLimitSet :
          entry.task = task /\ entry.ttd >= accepted[task] + RatePeriod - MaxLag
    BY <1>8 DEF Remembered
  <2> QED
    BY <1>3, <1>5, <1>6, <2>1
<1> QED
  BY <1>7, <1>8

-----------------------------------------------------------------------------
(* The theorems *)

\* The inductive invariant.
IInv == TInv /\ Balanced /\ PushesCounted /\ OnceQueued /\ Remembered

LEMMA InitIInv == Init => IInv
<1>1. Init => OnceQueued /\ Remembered
  BY DEF Init, OnceQueued, Remembered
<1> QED
  BY <1>1, TypeInit, BalancedInit, PushesCountedInit DEF IInv

LEMMA NextIInv == IInv /\ [Next]_vars => IInv'
  BY TypeNext, BalancedNext, PushesCountedNext, OnceQueuedNext, RememberedNext DEF IInv

LEMMA Invariance == Spec => []IInv
  BY InitIInv, NextIInv, PTL DEF Spec

\* The variables of the task queue keep their types, for any constants.
THEOREM TypeCorrect == Spec => []TypeOK
<1>1. IInv => TypeOK
  BY DEF IInv, TInv
<1> QED
  BY <1>1, Invariance, PTL

\* No task is lost, run twice or counted twice (ResolveTask::run, runTaskOnce and the
\* statistics of rec-taskqueue.cc), however many workers interleave.
THEOREM TasksConserved == Spec => []Conservation
<1>1. IInv => Conservation
  BY BalancedConserves DEF IInv
<1> QED
  BY <1>1, Invariance, PTL

\* Every push is counted once, in one of the two statistics, by the time its pusher
\* goes on.
THEOREM EveryPushCounted == Spec => []PushesCounted
<1>1. IInv => PushesCounted
  BY DEF IInv
<1> QED
  BY <1>1, Invariance, PTL

\* A task is in the queue and in the rate limit set at most once.
THEOREM NoDuplicates == Spec => []OnceQueued
<1>1. IInv => OnceQueued
  BY DEF IInv
<1> QED
  BY <1>1, Invariance, PTL

\* The rate limit holds for any period, any lag of clocks and any rhythm of purges.
THEOREM RateIsLimited == Spec => RateLimited
<1>1. IInv /\ [Next]_vars =>
        [\A task \in Tasks :
           (accepted[task] >= 0 /\ accepted'[task] # accepted[task] /\ accepted'[task] >= 0)
             => now - accepted[task] > RatePeriod - MaxLag]_vars
  BY RateLimitedStep DEF IInv
<1> QED
  BY <1>1, Invariance, PTL DEF Spec, RateLimited
=============================================================================

------------------------------ MODULE MTasker ------------------------------
(***************************************************************************)
(* The cooperative scheduler of the recursor (src/mtasker.hh): one kernel  *)
(* context that runs the event loop of src/main_test.cc, and mthreads that *)
(* run until they give the processor back by waiting, yielding or ending.  *)
(*                                                                         *)
(* Only one context executes at a time: `running' says which.  While an    *)
(* mthread runs, `frame' remembers the kernel code that switched to it and *)
(* that goes on when it gives control back.                                *)
(***************************************************************************)
EXTENDS Integers, Sequences, FiniteSets

CONSTANTS
  Keys,            \* event keys (EventKey)
  Vals,            \* event values (EventVal)
  NoKey, NoVal,    \* the key and the value before any event
  Timeouts,        \* the timeouts waitEvent is called with; 0 is "none"
  DefDelay,        \* the main loop's longest poll (500 ms)
  MaxCachedStacks, \* d_maxCachedStacks
  MaxThreads,      \* bound: mthreads made in a behaviour
  MaxYields,       \* bound: calls of yield() in a behaviour
  MaxNow           \* bound: the last instant of the clock

ASSUME MTaskerAssumption ==
  /\ Timeouts \subseteq Nat
  /\ DefDelay \in Nat /\ MaxCachedStacks \in Nat
  /\ MaxYields \in Nat
  /\ MaxThreads \in Nat \ {0} /\ MaxNow \in Nat \ {0}

Kernel  == -1
Tids    == 0 .. MaxThreads - 1

\* enum waitstatusenum
Error   == -1
TimeOut == 0
Answer  == 1

Waiters == [key : Keys, ttd : Nat, tid : Tids]

VARIABLES
  now,             \* gettimeofday
  running,         \* the context that executes: Kernel or a tid
  frame,           \* where the kernel is, or what it left to run an mthread
  scanNow,         \* the `now' the timeout scan of schedule() was called with
  pollEnd,         \* when the timer of the current FDMultiplexer::run() fires
  d_runQueue, d_zombiesQueue,
  d_threads,       \* the keys of the map d_threads
  d_threadsCount, d_maxtid, d_tid,
  d_waiters,
  d_cachedStacks,  \* how many stacks are cached
  d_used, d_waitstatus, d_eventkey, d_waitval,
  pc,              \* per mthread: where its stack is
  waiter,          \* per mthread: the local `waiter' of its last waitEvent
  ret,             \* per mthread: what its last waitEvent returned
  yields           \* calls of yield() so far (for the bound)

handover == <<d_used, d_waitstatus, d_eventkey, d_waitval>>
threads  == <<d_threads, d_threadsCount, d_maxtid, d_cachedStacks>>
clocks   == <<now, scanNow, pollEnd>>
vars == <<clocks, running, frame, d_runQueue, d_zombiesQueue, threads, d_tid,
          d_waiters, handover, pc, waiter, ret, yields>>

NoWaiter == [key |-> NoKey, ttd |-> 0, tid |-> 0]
NoRet    == [status |-> Error, key |-> NoKey, val |-> NoVal]

\* MTasker() and the locals of main() before its loop.
Init ==
  /\ now = 1 /\ scanNow = 1 /\ pollEnd = 1
  /\ running = Kernel /\ frame = "schedule"
  /\ d_runQueue = <<>> /\ d_zombiesQueue = <<>>
  /\ d_threads = {} /\ d_threadsCount = 0 /\ d_maxtid = 0 /\ d_tid = 0
  /\ d_waiters = {} /\ d_cachedStacks = 0
  /\ d_used = TRUE /\ d_waitstatus = Error
  /\ d_eventkey = NoKey /\ d_waitval = NoVal
  /\ pc = [t \in Tids |-> "none"]
  /\ waiter = [t \in Tids |-> NoWaiter]
  /\ ret = [t \in Tids |-> NoRet]
  /\ yields = 0

----------------------------------------------------------------------------
(* Switches between the kernel and an mthread *)

KernelAt(f) == running = Kernel /\ frame = f

HasWaiterNever(key) == FALSE

\* d_waiters.count(key)
HasWaiter(key) == \E w \in d_waiters : w.key = key

\* The kernel, at f, switches to the mthread t.
SwitchTo(t, f) ==
  /\ d_tid' = t
  /\ running' = t
  /\ frame' = f

HandOverNoKey(w, status) ==
  d_waitstatus' = status /\ d_used' = FALSE /\ UNCHANGED d_eventkey

\* Leave the status and the key for w to pick up.
HandOver(w, status) ==
  /\ d_waitstatus' = status
  /\ d_eventkey' = w.key
  /\ d_used' = FALSE

\* Wake w.  The waitpoint is erased before the switch.
Wake(w, status, f) ==
  /\ HandOver(w, status)
  /\ d_waiters' = d_waiters \ {w}
  /\ SwitchTo(w.tid, f)
  /\ pc' = [pc EXCEPT ![w.tid] = "returning"]

NotPopped(q) == q

\* What is left of the run queue q when control is back in the kernel: schedule()
\* pops the front only behind the switch.
AfterSwitch(q) == IF frame = "run" THEN Tail(q) ELSE q

\* The running mthread gives control back, q being the run queue it leaves.
\* The kernel goes on where it was: sendEvent() returns to its caller, the scan
\* goes on.
SwitchToKernel(q) ==
  /\ running' = Kernel
  /\ d_runQueue' = AfterSwitch(q)
  /\ frame' = CASE frame = "run"  -> "schedule"
                [] frame = "send" -> "poll"
                [] frame = "scan" -> "scan"

----------------------------------------------------------------------------
(* The kernel: the main loop, schedule(), and what handlers call from poll *)

StackTakenAnyway == d_cachedStacks - 1

\* getUContext: a cached stack if there is one.
StackTaken == IF d_cachedStacks = 0 THEN 0 ELSE d_cachedStacks - 1

\* makeThread, called by the handler of a client's question.
MakeThread ==
  /\ KernelAt("poll")
  /\ d_maxtid < MaxThreads
  /\ d_threads' = d_threads \cup {d_maxtid}
  /\ d_threadsCount' = d_threadsCount + 1
  /\ d_runQueue' = Append(d_runQueue, d_maxtid)
  /\ d_maxtid' = d_maxtid + 1
  /\ d_cachedStacks' = StackTaken
  /\ pc' = [pc EXCEPT ![d_maxtid] = "ready"]
  /\ UNCHANGED <<clocks, running, frame, d_zombiesQueue, d_tid, d_waiters,
                 handover, waiter, ret, yields>>

\* sendEvent for a key that has a waiter; for any other key it returns 0 and
\* changes nothing.
SendEvent(key, val) ==
  /\ KernelAt("poll")
  /\ \E w \in d_waiters : w.key = key /\ Wake(w, Answer, "send")
  /\ d_waitval' = val
  /\ UNCHANGED <<clocks, d_runQueue, d_zombiesQueue, threads, waiter, ret,
                 yields>>

\* schedule(), first branch: run the front of the run queue.
ScheduleRun ==
  /\ KernelAt("schedule")
  /\ d_runQueue # <<>>
  /\ SwitchTo(Head(d_runQueue), "run")
  /\ pc' = [pc EXCEPT ![Head(d_runQueue)] = "active"]
  /\ UNCHANGED <<clocks, d_runQueue, d_zombiesQueue, threads, d_waiters,
                 handover, waiter, ret, yields>>

ForgetUncounted(t) == d_threads' = d_threads \ {t} /\ UNCHANGED d_threadsCount

Forget(t) ==
  /\ d_threads' = d_threads \ {t}
  /\ d_threadsCount' = d_threadsCount - 1

\* schedule(), second branch: bury one mthread that ended.
ScheduleReap ==
  /\ KernelAt("schedule")
  /\ d_runQueue = <<>>
  /\ d_zombiesQueue # <<>>
  /\ Forget(Head(d_zombiesQueue))
  /\ d_cachedStacks' = IF d_cachedStacks < MaxCachedStacks
                       THEN d_cachedStacks + 1 ELSE d_cachedStacks
  /\ d_zombiesQueue' = Tail(d_zombiesQueue)
  /\ pc' = [pc EXCEPT ![Head(d_zombiesQueue)] = "gone"]
  /\ UNCHANGED <<clocks, running, frame, d_runQueue, d_maxtid, d_tid,
                 d_waiters, handover, waiter, ret, yields>>

\* schedule(), third branch: start the scan of the waiters by ttd.
ScheduleScan ==
  /\ KernelAt("schedule")
  /\ d_runQueue = <<>> /\ d_zombiesQueue = <<>>
  /\ frame' = "scan"
  /\ scanNow' = now
  /\ UNCHANGED <<now, pollEnd, running, d_runQueue, d_zombiesQueue, threads,
                 d_tid, d_waiters, handover, pc, waiter, ret, yields>>

ExpiredUntimed(w) == w.ttd < scanNow

ExpiredBehindUntimed(w) ==
  w.ttd # 0 /\ w.ttd < scanNow /\ \A v \in d_waiters : v.ttd # 0

\* i->ttd.tv_sec && i->ttd < now
Expired(w) == w.ttd # 0 /\ w.ttd < scanNow

NextExpired(w) == Expired(w) /\ \A v \in d_waiters : Expired(v) => w.ttd <= v.ttd

\* One round of the scan.  The iterator of the code survives the switch: the
\* waiters added meanwhile have a ttd past scanNow, so what it still visits is
\* what is expired, in the order of ttd (equal ones in any order here).
ScanWake ==
  /\ KernelAt("scan")
  /\ \E w \in d_waiters :
       /\ NextExpired(w)
       /\ Wake(w, TimeOut, "scan")
  /\ UNCHANGED <<clocks, d_runQueue, d_zombiesQueue, threads, d_waitval,
                 waiter, ret, yields>>

DelayUncapped(w, defusecs) ==
  IF w.ttd = 0 \/ w.ttd > now THEN defusecs ELSE 0

\* nextWaiterDelayUsec(defusecs) with w the first waiter by ttd, the only one it
\* looks at; a waiter without a timeout comes before all others.
NextWaiterDelay(w, defusecs) ==
  CASE w.ttd = 0      -> defusecs
    [] w.ttd # 0 /\ w.ttd <= now -> 0
    [] OTHER -> IF w.ttd - now < defusecs THEN w.ttd - now ELSE defusecs

FirstByTtd(w) == \A v \in d_waiters : w.ttd <= v.ttd

\* schedule() returns false; the main loop calls FDMultiplexer::run().
Poll ==
  /\ KernelAt("scan")
  /\ \A w \in d_waiters : ~Expired(w)
  /\ frame' = "poll"
  /\ IF d_waiters = {}
     THEN pollEnd' = now + DefDelay
     ELSE \E w \in d_waiters :
            FirstByTtd(w) /\ pollEnd' = now + NextWaiterDelay(w, DefDelay)
  /\ UNCHANGED <<now, scanNow, running, d_runQueue, d_zombiesQueue, threads,
                 d_tid, d_waiters, handover, pc, waiter, ret, yields>>

\* run() returns when its timer fires, not when it has dispatched events (at the
\* end of the modelled time it always may).
PollReturn ==
  /\ KernelAt("poll")
  /\ now >= pollEnd \/ now = MaxNow
  /\ frame' = "schedule"
  /\ UNCHANGED <<clocks, running, d_runQueue, d_zombiesQueue, threads, d_tid,
                 d_waiters, handover, pc, waiter, ret, yields>>

----------------------------------------------------------------------------
(* The mthreads *)

Active(t) == running = t /\ pc[t] = "active"

\* waitEvent up to the switch.  The waiter takes its tid from d_tid.
WaitEvent(t, key, timeout) ==
  /\ Active(t)
  /\ ~HasWaiter(key)
  /\ now + timeout < MaxNow
  /\ LET w == [key |-> key, tid |-> d_tid,
               ttd |-> IF timeout = 0 THEN 0 ELSE now + timeout]
     IN  /\ d_waiters' = d_waiters \cup {w}
         /\ waiter' = [waiter EXCEPT ![t] = w]
  /\ pc' = [pc EXCEPT ![t] = "waiting"]
  /\ SwitchToKernel(d_runQueue)
  /\ UNCHANGED <<clocks, d_zombiesQueue, threads, d_tid, handover, ret, yields>>

\* waitEvent on a key that has a waiter returns -1 at once.
WaitEventError(t, key) ==
  /\ Active(t)
  /\ HasWaiter(key)
  /\ ret' = [ret EXCEPT ![t] = [status |-> Error, key |-> key, val |-> @.val]]
  /\ UNCHANGED <<clocks, running, frame, d_runQueue, d_zombiesQueue, threads,
                 d_tid, d_waiters, handover, pc, waiter, yields>>

\* waitEvent behind the switch.
WaitReturn(t) ==
  /\ running = t /\ pc[t] = "returning"
  /\ ret' = [ret EXCEPT ![t] =
               [status |-> d_waitstatus, key |-> d_eventkey,
                val |-> IF d_waitstatus = Answer THEN d_waitval ELSE @.val]]
  /\ d_tid' = waiter[t].tid
  /\ d_used' = TRUE
  /\ pc' = [pc EXCEPT ![t] = "active"]
  /\ UNCHANGED <<clocks, running, frame, d_runQueue, d_zombiesQueue, threads,
                 d_waiters, d_waitstatus, d_eventkey, d_waitval, waiter, yields>>

NotRequeued == d_runQueue

Requeued == Append(d_runQueue, d_tid)

\* yield()
Yield(t) ==
  /\ Active(t)
  /\ yields < MaxYields
  /\ yields' = yields + 1
  /\ SwitchToKernel(Requeued)
  /\ pc' = [pc EXCEPT ![t] = "ready"]
  /\ UNCHANGED <<clocks, d_zombiesQueue, threads, d_tid, d_waiters, handover,
                 waiter, ret>>

\* The start function returns; the wrapper of makeThread queues the zombie.
Finish(t) ==
  /\ Active(t)
  /\ d_zombiesQueue' = Append(d_zombiesQueue, t)
  /\ SwitchToKernel(d_runQueue)
  /\ pc' = [pc EXCEPT ![t] = "zombie"]
  /\ UNCHANGED <<clocks, threads, d_tid, d_waiters, handover, waiter, ret,
                 yields>>

\* The clock moves whoever executes.
Tick ==
  /\ now < MaxNow
  /\ now' = now + 1
  /\ UNCHANGED <<scanNow, pollEnd, running, frame, d_runQueue, d_zombiesQueue,
                 threads, d_tid, d_waiters, handover, pc, waiter, ret, yields>>

----------------------------------------------------------------------------
KernelStep == ScheduleRun \/ ScheduleReap \/ ScheduleScan \/ ScanWake \/ Poll
                          \/ PollReturn

MThreadStep(t) ==
  /\ running = t
  /\ \/ WaitReturn(t)
     \/ \E key \in Keys :
          \/ WaitEventError(t, key)
          \/ \E timeout \in Timeouts : WaitEvent(t, key, timeout)
     \/ Yield(t)
     \/ Finish(t)

Handlers == MakeThread \/ \E w \in d_waiters, val \in Vals : SendEvent(w.key, val)

Next == KernelStep \/ Handlers \/ (\E t \in Tids : MThreadStep(t)) \/ Tick

Spec == Init /\ [][Next]_vars

\* Cooperation: an mthread that runs gives control back (no handler of the
\* recursor loops for ever).  The kernel never blocks, time passes, and the
\* timer of run() is seen by the event base however many sockets are ready.
GiveUp(t) == \/ \E key \in Keys, timeout \in Timeouts : WaitEvent(t, key, timeout)
             \/ Yield(t)
             \/ Finish(t)

Fairness ==
  /\ WF_vars(KernelStep)
  /\ SF_vars(PollReturn)
  /\ WF_vars(Tick)
  /\ \A t \in Tids : WF_vars(WaitReturn(t)) /\ WF_vars(GiveUp(t))

FairSpec == Spec /\ Fairness

----------------------------------------------------------------------------
(* Properties *)

Frames == {"schedule", "run", "send", "scan", "poll"}
PCs == {"none", "ready", "active", "returning", "waiting", "zombie", "gone"}

\* The variables have their types.
TypeOK ==
  /\ now \in Nat /\ scanNow \in Nat /\ pollEnd \in Nat
  /\ running \in Tids \cup {Kernel}
  /\ frame \in Frames
  /\ d_runQueue \in Seq(Tids) /\ d_zombiesQueue \in Seq(Tids)
  /\ d_threads \subseteq Tids
  /\ d_threadsCount \in Int
  /\ d_maxtid \in 0 .. MaxThreads /\ d_tid \in Tids
  /\ d_waiters \subseteq Waiters
  /\ d_cachedStacks \in 0 .. MaxCachedStacks
  /\ d_used \in BOOLEAN
  /\ d_waitstatus \in {Error, TimeOut, Answer}
  /\ d_eventkey \in Keys \cup {NoKey} /\ d_waitval \in Vals \cup {NoVal}
  /\ pc \in [Tids -> PCs]
  /\ waiter \in [Tids -> Waiters \cup {NoWaiter}]
  /\ ret \in [Tids -> [status : {Error, TimeOut, Answer},
                       key : Keys \cup {NoKey}, val : Vals \cup {NoVal}]]
  /\ yields \in Nat

\* Who executes: the kernel, with no mthread in the middle of anything, or one
\* mthread, the one d_tid names, with a kernel frame below it.
OneRunning ==
  /\ running = Kernel => frame \in {"schedule", "scan", "poll"}
  /\ running # Kernel => /\ frame \in {"run", "send", "scan"}
                         /\ d_tid = running
                         /\ pc[running] \in {"active", "returning"}
  /\ \A t \in Tids : pc[t] \in {"active", "returning"} => t = running

\* What wakes an mthread is picked up by that mthread and by no other: d_used is
\* FALSE only while the mthread woken last has not read the status and key left
\* for it, and that key is its own (assert(!d_used) in waitEvent cannot fail).
Handshake ==
  /\ d_used = FALSE <=> running # Kernel /\ pc[running] = "returning"
  /\ d_used = FALSE => /\ d_waitstatus \in {TimeOut, Answer}
                       /\ d_eventkey = waiter[running].key
                       /\ waiter[running].tid = running

\* d_waiters and the stacks of the mthreads tell the same story: a waitpoint
\* for each mthread that waits, of its own, and no two on one key.
WaitersMatch ==
  /\ \A w \in d_waiters : pc[w.tid] = "waiting" /\ waiter[w.tid] = w
  /\ \A t \in Tids : pc[t] = "waiting" => waiter[t] \in d_waiters
                                          /\ waiter[t].tid = t
  /\ \A v, w \in d_waiters : v.key = w.key => v = w

\* The run queue without the entry schedule() has yet to pop.
EffectiveRunQueue ==
  IF frame = "run" THEN Tail(d_runQueue) ELSE d_runQueue

Occurrences(q, t) == Cardinality({i \in DOMAIN q : q[i] = t})

\* No mthread is lost, and none can be switched to twice: each one that was
\* made and not buried is in exactly one place, on the processor, in the run
\* queue, among the waiters or among the zombies.
OnePlace ==
  \A t \in d_threads :
    Occurrences(EffectiveRunQueue, t) + Occurrences(d_zombiesQueue, t)
      + Cardinality({w \in d_waiters : w.tid = t})
      + (IF running = t THEN 1 ELSE 0) = 1

\* numProcesses(), by which questions are refused and timeouts shortened,
\* counts the mthreads that still hold a stack, those that ended included.
CountExact == d_threadsCount = Cardinality(d_threads)

\* waitEvent reports a timeout only when there was one and it has passed.
NoEarlyTimeout ==
  [][\A t \in Tids :
       (pc[t] = "waiting" /\ pc'[t] = "returning" /\ d_waitstatus' = TimeOut)
         => waiter[t].ttd # 0 /\ waiter[t].ttd < now]_vars

\* Timeouts are delivered in the order of the deadlines: who is woken by the
\* scan has waited for the earliest one.
OrderedTimeouts ==
  [][\A t, u \in Tids :
       (/\ pc[t] = "waiting" /\ pc'[t] = "returning" /\ d_waitstatus' = TimeOut
        /\ pc[u] = "waiting" /\ waiter[u].ttd # 0)
         => waiter[t].ttd <= waiter[u].ttd]_vars

\* When every waiter has a timeout, the main loop does not plan to sleep past
\* the first deadline.
PollMeetsDeadline ==
  [][(KernelAt("scan") /\ frame' = "poll"
        /\ \A w \in d_waiters : w.ttd # 0)
       => \A w \in d_waiters : pollEnd' <= w.ttd \/ pollEnd' = now]_vars

\* A wait with a timeout ends, whatever the other mthreads wait for.
TimedWaitEnds ==
  \A t \in Tids :
    (pc[t] = "waiting" /\ waiter[t].ttd # 0) ~> pc[t] # "waiting"

\* An mthread in the run queue gets to run.
ReadyRuns == \A t \in Tids : pc[t] = "ready" ~> pc[t] = "active"
=============================================================================

--------------------------- MODULE UdpQueryProofs ---------------------------
(***************************************************************************)
(* Proofs about UdpQuery, for any questions, ids, descriptors and bounds.  *)
(*                                                                         *)
(* A step of UdpQuery is a step of the scheduler or leaves it alone        *)
(* (StepOfScheduler), so what MTaskerProofs shows of the scheduler holds   *)
(* here as well, and is cited rather than proved again.                    *)
(***************************************************************************)
EXTENDS UdpQuery, FiniteSetTheorems, TLAPS

\* The scheduler again, with its invariant and the lemmas about it.
P == INSTANCE MTaskerProofs WITH
       Keys <- PacketKeys \cup SleepKeys, Vals <- Packets,
       NoVal <- NoPacket, MaxYields <- 0, Timeouts <- 1 .. MaxNow

USE UdpQueryAssumption

-----------------------------------------------------------------------------
(* The scheduler below *)

\* The values given to the constants of the scheduler are as it assumes.
LEMMA SchedulerAssumption ==
  /\ 1 .. MaxNow \subseteq Nat
  /\ DefDelay \in Nat /\ MaxCachedStacks \in Nat
  /\ 0 \in Nat
  /\ MaxThreads \in Nat \ {0} /\ MaxNow \in Nat \ {0}
  OBVIOUS

LEMMA SameInit == MT!Init => P!Init
  BY DEF MT!Init, P!Init, MT!Tids, P!Tids, MT!Kernel, P!Kernel, MT!NoRet, P!NoRet,
         MT!NoWaiter, P!NoWaiter, MT!Error, P!Error

LEMMA SameInvariant ==
  P!IInv => MT!TypeOK /\ MT!OneRunning /\ MT!Handshake /\ MT!WaitersMatch
  BY DEF P!IInv, P!TypeOK, MT!TypeOK, P!OneRunning, MT!OneRunning, P!Handshake, MT!Handshake,
         P!WaitersMatch, MT!WaitersMatch, P!Tids, MT!Tids, P!Kernel, MT!Kernel,
         P!Error, MT!Error, P!TimeOut, MT!TimeOut, P!Answer, MT!Answer,
         P!Waiters, MT!Waiters, P!NoWaiter, MT!NoWaiter, P!Frames, MT!Frames,
         P!PCs, MT!PCs

LEMMA SameStep == [MT!Next]_(MT!vars) => [P!Next]_(P!vars)
  BY DEF P!Next, MT!Next, P!vars, MT!vars, P!KernelStep, MT!KernelStep, P!Handlers,
         MT!Handlers, P!MThreadStep, MT!MThreadStep, P!Tick, MT!Tick, P!ScheduleRun,
         MT!ScheduleRun, P!ScheduleReap, MT!ScheduleReap, P!ScheduleScan,
         MT!ScheduleScan, P!ScanWake, MT!ScanWake, P!Poll, MT!Poll, P!PollReturn,
         MT!PollReturn, P!MakeThread, MT!MakeThread, P!SendEvent, MT!SendEvent,
         P!WaitEvent, MT!WaitEvent, P!WaitEventError, MT!WaitEventError, P!WaitReturn,
         MT!WaitReturn, P!Yield, MT!Yield, P!Finish, MT!Finish, P!KernelAt, MT!KernelAt,
         P!HasWaiter, MT!HasWaiter, P!SwitchTo, MT!SwitchTo, P!HandOver, MT!HandOver,
         P!Wake, MT!Wake, P!AfterSwitch, MT!AfterSwitch, P!SwitchToKernel,
         MT!SwitchToKernel, P!StackTaken, MT!StackTaken, P!Forget, MT!Forget, P!Expired,
         MT!Expired, P!NextExpired, MT!NextExpired, P!NextWaiterDelay,
         MT!NextWaiterDelay, P!FirstByTtd, MT!FirstByTtd, P!Active, MT!Active,
         P!Requeued, MT!Requeued, P!Kernel, MT!Kernel, P!Tids, MT!Tids, P!Error,
         MT!Error, P!TimeOut, MT!TimeOut, P!Answer, MT!Answer, P!handover, MT!handover,
         P!threads, MT!threads, P!clocks, MT!clocks

\* Nobody who waits is in a queue.
NextReady ==
  /\ d_runQueue # <<>> /\ frame # "run" => pc[Head(d_runQueue)] = "ready"
  /\ d_zombiesQueue # <<>> => pc[Head(d_zombiesQueue)] = "zombie"
  /\ d_maxtid < MaxThreads => pc[d_maxtid] = "none"

\* What MTaskerProofs knows of the scheduler.
SchedulerInv ==
  MT!TypeOK /\ MT!OneRunning /\ MT!Handshake /\ MT!WaitersMatch /\ NextReady

LEMMA SchedulerKnown == P!IInv => SchedulerInv
<1> SUFFICES ASSUME P!IInv PROVE NextReady
  BY SameInvariant DEF SchedulerInv
<1>1. P!TypeOK /\ P!QueuesMatch /\ P!ThreadsMatch
  BY DEF P!IInv
<1>2. d_runQueue # <<>> /\ frame # "run" => pc[Head(d_runQueue)] = "ready"
  BY <1>1 DEF P!TypeOK, P!QueuesMatch, P!First
<1>3. d_zombiesQueue # <<>> => pc[Head(d_zombiesQueue)] = "zombie"
  BY <1>1 DEF P!TypeOK, P!QueuesMatch
<1>4. d_maxtid < MaxThreads => pc[d_maxtid] = "none"
  BY <1>1 DEF P!TypeOK, P!ThreadsMatch, P!Tids
<1> QED
  BY <1>2, <1>3, <1>4 DEF NextReady

-----------------------------------------------------------------------------
(* Types *)

HandlerRecords ==
  [at : {"resend", "close"}, key : PacketKeys, packet : Packets,
   todo : SUBSET (ChainFds \X Ids), fd : Fds \cup {Closed}, head : Nat,
   ecs : Subnets \cup {NoSubnet}]

AskedRecords ==
  [state : {"none", "failed", "timeout"}]
    \cup [state : {"waiting"}, q : Questions, ecs : Subnets, head : Nat]
    \cup [state : {"answered", "slow", "spoofed"}, q : Questions, ecs : Subnets, head : Nat,
          packet : Packets \cup {NoPacket}]

Types ==
  /\ now <= MaxNow
  /\ watch \in [Fds -> PacketKeys \cup {Closed}]
  /\ pident \in [MT!Tids -> Pidents]
  /\ handler = Idle \/ handler \in HandlerRecords
  /\ asked \in [MT!Tids -> AskedRecords]
  /\ asks \in 0 .. MaxAsks

\* An mthread that waits, or has been woken and not looked, waits for what it asked.
AskedMatch ==
  \A t \in MT!Tids :
    IF pc[t] \in {"waiting", "returning"}
    THEN \/ asked[t].state = "waiting" /\ waiter[t].key \in PacketKeys
                                       /\ waiter[t].key.q = asked[t].q
         \/ asked[t].state = "none" /\ waiter[t].key \in SleepKeys
    ELSE asked[t].state # "waiting"

\* The places of a chain are counted down from -1, none given out twice.
Counted(chain, n) ==
  /\ IsFiniteSet(chain) /\ Cardinality(chain) <= n
  /\ MaxChainLength > 0 => Cardinality(chain) <= MaxChainLength
  /\ \A x \in chain : -x[1] <= Cardinality(chain)
  /\ \A x, y \in chain : x[1] = y[1] => x = y

ChainCounted == \A t \in MT!Tids : Counted(pident[t].chain, asks)

LEMMA NothingCounted == \A n \in Nat : Counted({}, n)
  BY FS_EmptySet DEF Counted

LEMMA CountedMore ==
  ASSUME NEW chain, NEW m \in Nat, NEW n \in Nat, m <= n, Counted(chain, m)
  PROVE  Counted(chain, n)
  BY FS_CardinalityType DEF Counted

LEMMA KeyKinds ==
  /\ \A key \in PacketKeys : IsQuery(key) /\ key.fd \in Fds \cup ChainFds /\ key.q \in Questions
                             /\ key.id \in Ids
  /\ \A key \in SleepKeys : ~IsQuery(key)
  /\ \A fd \in Fds : fd \in Nat
  /\ \A fd \in ChainFds : fd \in Int /\ fd < 0 /\ -fd \in 1 .. MaxAsks
<1>1. \A key \in PacketKeys : IsQuery(key) /\ key.fd \in Fds \cup ChainFds /\ key.q \in Questions
                             /\ key.id \in Ids
  BY DEF PacketKeys, IsQuery
<1>2. \A key \in SleepKeys : ~IsQuery(key)
  BY DEF SleepKeys, IsQuery
<1>3. \A fd \in ChainFds : fd \in Int /\ fd < 0 /\ -fd \in 1 .. MaxAsks
  BY DEF ChainFds
<1> QED
  BY <1>1, <1>2, <1>3

\* The place of a new member of a chain, and the chain with it.
LEMMA ChainGrows ==
  ASSUME Types, ChainCounted, NEW t \in MT!Tids, NEW id \in Ids, asks < MaxAsks,
         ~(MaxChainLength > 0 /\ Cardinality(pident[t].chain) >= MaxChainLength)
  PROVE  LET fd    == NextPlace(pident[t].chain)
             chain == pident[t].chain \cup {<<fd, id>>}
         IN  /\ fd \in ChainFds /\ Counted(chain, asks + 1)
             /\ chain \in SUBSET (ChainFds \X Ids)
<1> DEFINE old   == pident[t].chain
           fd    == NextPlace(old)
           chain == old \cup {<<fd, id>>}
<1>1. /\ IsFiniteSet(old) /\ Cardinality(old) \in Nat /\ Cardinality(old) <= asks
      /\ MaxChainLength > 0 => Cardinality(old) < MaxChainLength
      /\ \A x \in old : -x[1] <= Cardinality(old)
      /\ \A x, y \in old : x[1] = y[1] => x = y
  BY FS_CardinalityType DEF ChainCounted, Counted, Types
<1>2. old \in SUBSET (ChainFds \X Ids)
  BY DEF Types, Pidents
<1>3. fd = -(Cardinality(old) + 1) /\ fd \in ChainFds
  BY <1>1 DEF NextPlace, ChainFds, Types
<1>4. \A x \in old : x[1] \in Int
  BY <1>2 DEF ChainFds
<1>5. <<fd, id>> \notin old
  BY <1>1, <1>3, <1>4
<1>6. IsFiniteSet(chain) /\ Cardinality(chain) = Cardinality(old) + 1
  BY <1>1, <1>5, FS_AddElement
<1>7. \A x \in chain : -x[1] <= Cardinality(chain)
  BY <1>1, <1>3, <1>4, <1>6
<1>8. \A x, y \in chain : x[1] = y[1] => x = y
  BY <1>1, <1>3, <1>4
<1>9. Cardinality(chain) <= asks + 1
      /\ (MaxChainLength > 0 => Cardinality(chain) <= MaxChainLength)
  BY <1>1, <1>6 DEF Types
<1>10. chain \in SUBSET (ChainFds \X Ids)
  BY <1>2, <1>3
<1> QED
  BY <1>3, <1>6, <1>7, <1>8, <1>9, <1>10 DEF Counted

-----------------------------------------------------------------------------
(* Steps of the scheduler *)

\* One step of Next is one of these.
LEMMA Steps ==
  ASSUME [Next]_vars
  PROVE  \/ UNCHANGED vars
         \/ MainLoop \/ Tick \/ ResendOne \/ WakeHead \/ CloseSocket
         \/ \E fd \in Open : \/ RecvError(fd)
                             \/ \E id \in Ids : \/ RecvNameless(fd, id)
                                                \/ \E q \in Questions : RecvAnswer(fd, q, id)
         \/ \E t \in MT!Tids, q \in Questions, ecs \in Subnets :
              \/ AskSendFails(t, q, ecs)
              \/ \E wait \in WaitTimes :
                   \/ AskChainLimit(t, q, ecs, wait)
                   \/ \E id \in Ids : \/ AskChained(t, q, ecs, id, wait)
                                      \/ \E fd \in Fds : AskAnew(t, q, ecs, id, fd, wait)
         \/ \E t \in MT!Tids : \/ Receive(t) \/ SleepReturn(t) \/ Finish(t)
                               \/ \E jitter \in WaitTimes \cup {0} : Sleep(t, jitter)
  BY DEF Next, HandlerStep, Arrival, MThreadStep, Ask

\* What an mthread waits with is among the keys and timeouts of the scheduler.
LEMMA WaitIsStep ==
  ASSUME SchedulerInv, NEW t \in MT!Tids, NEW key \in PacketKeys \cup SleepKeys,
         NEW timeout \in Nat \ {0}, MT!WaitEvent(t, key, timeout)
  PROVE  MT!Next
<1>1. timeout \in 1 .. MaxNow
  BY DEF SchedulerInv, MT!TypeOK, MT!WaitEvent
<1> QED
  BY <1>1 DEF MT!Next, MT!MThreadStep, MT!WaitEvent, MT!Active

LEMMA StepOfScheduler ==
  ASSUME SchedulerInv, Types, ChainCounted, [Next]_vars
  PROVE  [MT!Next]_(MT!vars)
<1>1. UNCHANGED mtVars => UNCHANGED MT!vars
  BY DEF mtVars, MT!vars, MT!clocks, MT!threads, MT!handover
<1>2. CASE UNCHANGED vars
  BY <1>1, <1>2 DEF vars
<1>3. CASE MainLoop \/ Tick
  BY <1>3 DEF MainLoop, Tick, MT!Next, MT!Handlers
<1>4. CASE ResendOne
  BY <1>1, <1>4 DEF ResendOne, HandlerAt, Chained, Find, Types, HandlerRecords, Idle,
                    MT!Next, MT!Handlers
<1>5. CASE WakeHead
  BY <1>1, <1>5 DEF WakeHead, HandlerAt, Types, HandlerRecords, Idle, MT!HasWaiter,
                    MT!Next, MT!Handlers
<1>6. CASE CloseSocket
  BY <1>1, <1>6 DEF CloseSocket
<1>7. ASSUME NEW fd \in Open,
             \/ RecvError(fd)
             \/ \E id \in Ids : \/ RecvNameless(fd, id)
                                \/ \E q \in Questions : RecvAnswer(fd, q, id)
      PROVE  UNCHANGED MT!vars
  BY <1>1, <1>7 DEF RecvError, RecvNameless, RecvAnswer
<1>8. ASSUME NEW t \in MT!Tids, NEW q \in Questions, NEW ecs \in Subnets,
             \/ AskSendFails(t, q, ecs)
             \/ \E wait \in WaitTimes : AskChainLimit(t, q, ecs, wait)
      PROVE  UNCHANGED MT!vars
  BY <1>1, <1>8 DEF AskSendFails, AskChainLimit
<1>9. ASSUME NEW t \in MT!Tids, NEW q \in Questions, NEW ecs \in Subnets,
             NEW wait \in WaitTimes, NEW id \in Ids, AskChained(t, q, ecs, id, wait)
      PROVE  MT!Next
  <2>1. PICK head \in ChainHeads(q, ecs) :
          LET chain == pident[head.tid].chain
              key   == [q |-> q, fd |-> NextPlace(chain), id |-> id]
          IN  ~ChainFull(head) /\ (MT!WaitEventError(t, key) \/ MT!WaitEvent(t, key, wait))
    BY <1>9 DEF AskChained, WaitsChained
  <2>2. head.tid \in MT!Tids
    BY DEF ChainHeads, Heads, QueryWaiters, SchedulerInv, MT!TypeOK, MT!Waiters
  <2>3. NextPlace(pident[head.tid].chain) \in ChainFds
    BY <1>9, <2>1, <2>2, ChainGrows DEF AskChained, Starts, ChainFull, Types
  <2>4. [q |-> q, fd |-> NextPlace(pident[head.tid].chain), id |-> id] \in PacketKeys
    BY <2>3 DEF PacketKeys
  <2> QED
    BY <2>1, <2>4, WaitIsStep DEF MT!Next, MT!MThreadStep, MT!WaitEventError, MT!Active
<1>10. ASSUME NEW t \in MT!Tids, NEW q \in Questions, NEW ecs \in Subnets,
              NEW wait \in WaitTimes, NEW id \in Ids, NEW fd \in Fds,
              AskAnew(t, q, ecs, id, fd, wait)
       PROVE  MT!Next
  <2> DEFINE key == [q |-> q, fd |-> fd, id |-> id]
  <2>1. key \in PacketKeys
    BY DEF PacketKeys
  <2>2. MT!WaitEventError(t, key) \/ MT!WaitEvent(t, key, wait)
    BY <1>10 DEF AskAnew
  <2> QED
    BY <2>1, <2>2, WaitIsStep DEF MT!Next, MT!MThreadStep, MT!WaitEventError, MT!Active
<1>11. ASSUME NEW t \in MT!Tids, Receive(t) \/ SleepReturn(t) \/ Finish(t)
       PROVE  MT!Next
  BY <1>11 DEF Receive, SleepReturn, Finish, MT!Next, MT!MThreadStep, MT!WaitReturn,
               MT!Finish, MT!Active
<1>12. ASSUME NEW t \in MT!Tids, NEW jitter \in WaitTimes \cup {0}, Sleep(t, jitter)
       PROVE  MT!Next
  <2>1. [sleeper |-> t] \in SleepKeys
    BY DEF SleepKeys, MT!Tids
  <2>2. jitter > 0 /\ MT!WaitEvent(t, [sleeper |-> t], jitter)
    BY <1>12 DEF Sleep, Sleeps
  <2>3. jitter \in Nat \ {0}
    BY <2>2
  <2> QED
    BY <2>1, <2>2, <2>3, WaitIsStep
<1> QED
  BY <1>2, <1>3, <1>4, <1>5, <1>6, <1>7, <1>8, <1>9, <1>10, <1>11, <1>12, Steps

\* What the scheduler's operations do to the waiters.
LEMMA Waits ==
  ASSUME SchedulerInv, NEW t \in MT!Tids, NEW key, NEW timeout \in Nat,
         MT!WaitEvent(t, key, timeout)
  PROVE  /\ running = t /\ pc[t] = "active" /\ ~MT!HasWaiter(key)
         /\ \E w : /\ w.key = key /\ w.tid = t /\ w \notin d_waiters
                   /\ d_waiters' = d_waiters \cup {w}
                   /\ waiter' = [waiter EXCEPT ![t] = w]
         /\ pc' = [pc EXCEPT ![t] = "waiting"]
         /\ running' = MT!Kernel
         /\ frame = "send" => frame' = "poll"
         /\ UNCHANGED <<now, d_waitstatus, d_eventkey>>
<1>1. d_tid = t
  BY DEF SchedulerInv, MT!OneRunning, MT!WaitEvent, MT!Active, MT!Tids, MT!Kernel
<1>2. PICK w : /\ w = [key |-> key, tid |-> t, ttd |-> IF timeout = 0 THEN 0 ELSE now + timeout]
               /\ d_waiters' = d_waiters \cup {w} /\ waiter' = [waiter EXCEPT ![t] = w]
  BY <1>1 DEF MT!WaitEvent
<1>3. w.key = key /\ w.tid = t
  BY <1>2
<1>4. w \notin d_waiters
  BY <1>3 DEF MT!WaitEvent, MT!HasWaiter
<1> QED
  BY <1>2, <1>3, <1>4 DEF MT!WaitEvent, MT!Active, MT!SwitchToKernel, MT!clocks, MT!handover

\* The part of it most steps need: the thread gets a waiter of the key and waits.
LEMMA WaitMoves ==
  ASSUME SchedulerInv, NEW t \in MT!Tids, NEW key, NEW timeout \in Nat,
         MT!WaitEvent(t, key, timeout)
  PROVE  \E w : /\ w.key = key /\ waiter' = [waiter EXCEPT ![t] = w]
                /\ pc' = [pc EXCEPT ![t] = "waiting"] /\ now' = now
<1>1. PICK w : w.key = key /\ waiter' = [waiter EXCEPT ![t] = w]
  BY Waits
<1>2. pc' = [pc EXCEPT ![t] = "waiting"] /\ now' = now
  BY Waits
<1> QED
  BY <1>1, <1>2

\* ... with one of the timeouts a question may be given.
LEMMA AskWaits ==
  ASSUME SchedulerInv, NEW t \in MT!Tids, NEW key, NEW wait \in WaitTimes,
         MT!WaitEvent(t, key, wait)
  PROVE  \E w : /\ w.key = key /\ waiter' = [waiter EXCEPT ![t] = w]
                /\ pc' = [pc EXCEPT ![t] = "waiting"] /\ now' = now
<1>1. wait \in Nat
  BY UdpQueryAssumption
<1> QED
  BY <1>1, WaitMoves

LEMMA Sends ==
  ASSUME SchedulerInv, NEW key, NEW val, MT!SendEvent(key, val)
  PROVE  /\ running = MT!Kernel /\ frame = "poll"
         /\ \E w \in d_waiters : /\ w.key = key /\ w.tid \in MT!Tids
                                 /\ d_waiters' = d_waiters \ {w}
                                 /\ pc' = [pc EXCEPT ![w.tid] = "returning"]
                                 /\ running' = w.tid
         /\ frame' = "send" /\ d_waitstatus' = MT!Answer /\ d_eventkey' = key
         /\ UNCHANGED <<now, waiter>>
  BY DEF SchedulerInv, MT!TypeOK, MT!Waiters, MT!SendEvent, MT!KernelAt, MT!Wake, MT!HandOver,
         MT!SwitchTo, MT!clocks

\* What the main loop does: it leaves the waiters alone, or its scan wakes one.
LEMMA Loops ==
  ASSUME SchedulerInv, MainLoop
  PROVE  /\ running = MT!Kernel /\ handler.at = "idle" /\ UNCHANGED udpVars
         /\ UNCHANGED <<now, waiter>>
         /\ \/ /\ UNCHANGED d_waiters
               /\ \A t \in MT!Tids : pc[t] \in {"waiting", "returning"}
                                       <=> pc'[t] \in {"waiting", "returning"}
               /\ \A t \in MT!Tids : pc'[t] # "returning"
            \/ /\ \E w \in d_waiters : /\ w.tid \in MT!Tids
                                       /\ d_waiters' = d_waiters \ {w}
                                       /\ pc' = [pc EXCEPT ![w.tid] = "returning"]
                                       /\ running' = w.tid
               /\ d_waitstatus' = MT!TimeOut
<1>1. running = MT!Kernel /\ handler.at = "idle" /\ UNCHANGED udpVars
  BY DEF MainLoop, MT!KernelStep, MT!MakeThread, MT!ScheduleRun, MT!ScheduleReap,
         MT!ScheduleScan, MT!ScanWake, MT!Poll, MT!PollReturn, MT!KernelAt
<1>2. \A t \in MT!Tids : pc[t] # "returning"
  BY <1>1 DEF SchedulerInv, MT!OneRunning, MT!Tids, MT!Kernel
<1>3. CASE MT!ScanWake
  BY <1>1, <1>3 DEF MT!ScanWake, MT!Wake, MT!HandOver, MT!SwitchTo, MT!clocks, SchedulerInv,
                    MT!TypeOK, MT!Waiters
<1>4. CASE MT!ScheduleScan \/ MT!Poll \/ MT!PollReturn
  BY <1>1, <1>2, <1>4 DEF MT!ScheduleScan, MT!Poll, MT!PollReturn, MT!clocks
<1>5. CASE MT!ScheduleRun
  <2>1. Head(d_runQueue) \in MT!Tids /\ pc[Head(d_runQueue)] = "ready"
    BY <1>5 DEF MT!ScheduleRun, MT!KernelAt, SchedulerInv, MT!TypeOK, NextReady
  <2> QED
    BY <1>1, <1>2, <1>5, <2>1 DEF MT!ScheduleRun, MT!SwitchTo, MT!clocks, SchedulerInv, MT!TypeOK
<1>6. CASE MT!ScheduleReap
  <2>1. Head(d_zombiesQueue) \in MT!Tids /\ pc[Head(d_zombiesQueue)] = "zombie"
    BY <1>6 DEF MT!ScheduleReap, SchedulerInv, MT!TypeOK, NextReady
  <2> QED
    BY <1>1, <1>2, <1>6, <2>1 DEF MT!ScheduleReap, MT!clocks, SchedulerInv, MT!TypeOK
<1>7. CASE MT!MakeThread
  <2>1. d_maxtid \in MT!Tids /\ pc[d_maxtid] = "none"
    BY <1>7 DEF MT!MakeThread, SchedulerInv, MT!TypeOK, NextReady, MT!Tids
  <2> QED
    BY <1>1, <1>2, <1>7, <2>1 DEF MT!MakeThread, MT!clocks, SchedulerInv, MT!TypeOK
<1> QED
  BY <1>1, <1>3, <1>4, <1>5, <1>6, <1>7 DEF MainLoop, MT!KernelStep

-----------------------------------------------------------------------------
(* The types, and what mthreads wait for *)

LEMMA ChainHeadsKnown ==
  ASSUME SchedulerInv, NEW q, NEW ecs, NEW head \in ChainHeads(q, ecs)
  PROVE  /\ head \in d_waiters /\ head.tid \in MT!Tids
         /\ pc[head.tid] = "waiting" /\ waiter[head.tid] = head
         /\ IsQuery(head.key) /\ head.key.fd >= 0 /\ head.key.q = q
         /\ pident[head.tid].ecs = ecs /\ ~pident[head.tid].closed
  BY DEF ChainHeads, Heads, QueryWaiters, SchedulerInv, MT!TypeOK, MT!Waiters, MT!WaitersMatch

\* AskChained, onto `head', by its two ends: the mthread waits, or finds its key taken.
ChainsOnto(head, t, q, ecs, id, wait) ==
  LET chain == pident[head.tid].chain
      key   == [q |-> q, fd |-> NextPlace(chain), id |-> id]
      more  == chain \cup {<<NextPlace(chain), id>>}
  IN  \/ /\ MT!WaitEventError(t, key)
         /\ pident' = [pident EXCEPT ![head.tid].chain = more]
         /\ asked' = [asked EXCEPT ![t] = [state |-> "failed"]]
      \/ /\ MT!WaitEvent(t, key, wait)
         /\ pident' = [pident EXCEPT ![head.tid].chain = more, ![t] = NewPident(ecs)]
         /\ asked' = [asked EXCEPT ![t] = Asking(q, ecs, asked[head.tid].head)]

LEMMA ChainedSteps ==
  ASSUME SchedulerInv, Types, ChainCounted, NEW t \in MT!Tids, NEW q \in Questions,
         NEW ecs \in Subnets, NEW wait \in WaitTimes, NEW id \in Ids,
         AskChained(t, q, ecs, id, wait)
  PROVE  /\ asks < MaxAsks /\ asks' = asks + 1 /\ UNCHANGED <<watch, d_numsocks, handler>>
         /\ MT!Active(t)
         /\ \E head \in ChainHeads(q, ecs) :
              /\ head.tid # t /\ ~ChainFull(head)
              /\ NextPlace(pident[head.tid].chain) \in ChainFds
              /\ ChainsOnto(head, t, q, ecs, id, wait)
<1>1. asks < MaxAsks /\ asks' = asks + 1 /\ UNCHANGED <<watch, d_numsocks, handler>>
      /\ MT!Active(t)
  BY DEF AskChained, Starts
<1>2. PICK head \in ChainHeads(q, ecs) :
        ~ChainFull(head) /\ ChainsOnto(head, t, q, ecs, id, wait)
  BY DEF AskChained, WaitsChained, ChainsOnto
<1>3. head.tid \in MT!Tids /\ head.tid # t
  BY <1>1, ChainHeadsKnown DEF MT!Active
<1>4. NextPlace(pident[head.tid].chain) \in ChainFds
  BY <1>1, <1>2, <1>3, ChainGrows DEF ChainFull
<1> QED
  BY <1>1, <1>2, <1>3, <1>4

LEMMA NewPidentTyped ==
  ASSUME Types, SchedulerInv, NEW ecs \in Subnets
  PROVE  NewPident(ecs) \in Pidents
<1>1. now \in 0 .. MaxNow
  BY DEF Types, SchedulerInv, MT!TypeOK
<1>2. {} \in SUBSET (ChainFds \X Ids) /\ 0 \in 0 .. NearMissLimit + 1
  OBVIOUS
<1> QED
  BY <1>1, <1>2 DEF NewPident, NoPident, Pidents

\* What handling a packet for the waiter w leaves.
LEMMA DeliverTyped ==
  ASSUME Types, SchedulerInv, AskedMatch, NEW w \in QueryWaiters, NEW packet \in Packets,
         NEW todo \in SUBSET (ChainFds \X Ids), NEW closeFd \in Fds \cup {Closed},
         Deliver(w, packet, todo, closeFd)
  PROVE  /\ handler' \in HandlerRecords /\ handler'.at = "resend"
         /\ handler'.key = w.key /\ handler'.head = asked[w.tid].head
<1>1. w.tid \in MT!Tids /\ pc[w.tid] = "waiting" /\ waiter[w.tid] = w
  BY DEF QueryWaiters, SchedulerInv, MT!TypeOK, MT!Waiters, MT!WaitersMatch
<1>2. w.key \in PacketKeys /\ asked[w.tid].state = "waiting"
  BY <1>1, KeyKinds DEF QueryWaiters, AskedMatch
<1>3. asked[w.tid].head \in Nat
  BY <1>1, <1>2 DEF Types, AskedRecords
<1>4. pident[w.tid].ecs \in Subnets \cup {NoSubnet}
  BY <1>1 DEF Types, Pidents
<1> QED
  BY <1>2, <1>3, <1>4 DEF Deliver, HandlerRecords

\* Chains keep their members and their subnets.
ChainsKept ==
  /\ pident' \in [MT!Tids -> Pidents]
  /\ \A t \in MT!Tids : /\ pident'[t].chain = pident[t].chain
                        /\ pident'[t].ecs = pident[t].ecs
                        /\ pident[t].closed => pident'[t].closed

LEMMA ClosingKeeps ==
  ASSUME Types, NEW u \in MT!Tids, pident' = [pident EXCEPT ![u].closed = TRUE]
  PROVE  ChainsKept
<1> DEFINE p == pident[u]
<1>1. p \in Pidents
  BY DEF Types
<1>2. /\ [p EXCEPT !.closed = TRUE] \in Pidents
      /\ [p EXCEPT !.closed = TRUE].chain = p.chain
      /\ [p EXCEPT !.closed = TRUE].ecs = p.ecs
      /\ [p EXCEPT !.closed = TRUE].closed
  BY <1>1 DEF Pidents
<1>3. pident' = [pident EXCEPT ![u] = [p EXCEPT !.closed = TRUE]]
  OBVIOUS
<1> QED
  BY <1>2, <1>3 DEF Types, ChainsKept

LEMMA MissesKeep ==
  ASSUME Types, NEW fd, NEW q, CountNearMisses(fd, q)
  PROVE  ChainsKept
<1>1. ASSUME NEW p \in Pidents, p.nearMisses <= NearMissLimit
      PROVE  /\ [p EXCEPT !.nearMisses = @ + 1] \in Pidents
             /\ [p EXCEPT !.nearMisses = @ + 1].chain = p.chain
             /\ [p EXCEPT !.nearMisses = @ + 1].ecs = p.ecs
             /\ [p EXCEPT !.nearMisses = @ + 1].closed = p.closed
  <2>1. p.nearMisses + 1 \in 0 .. NearMissLimit + 1
    BY <1>1 DEF Pidents
  <2> QED
    BY <2>1 DEF Pidents
<1> DEFINE Seen(t) ==
      IF /\ pc[t] = "waiting" /\ waiter[t] \in Heads
         /\ waiter[t].key.fd = fd /\ waiter[t].key.q = q
         /\ NearMissLimit > 0 /\ pident[t].nearMisses <= NearMissLimit
      THEN [pident[t] EXCEPT !.nearMisses = @ + 1]
      ELSE pident[t]
<1>2. pident' = [t \in MT!Tids |-> Seen(t)]
  BY DEF CountNearMisses
<1>3. ASSUME NEW t \in MT!Tids
      PROVE  /\ Seen(t) \in Pidents
             /\ Seen(t).chain = pident[t].chain
             /\ Seen(t).ecs = pident[t].ecs
             /\ pident[t].closed => Seen(t).closed
  <2>1. pident[t] \in Pidents
    BY DEF Types
  <2> QED
    BY <1>1, <2>1
<1> HIDE DEF Seen
<1> QED
  BY <1>2, <1>3 DEF ChainsKept

\* A packet changes, at most, whether a chain is closed and how many near misses a head
\* has seen.
LEMMA PacketsLeave ==
  ASSUME Types, SchedulerInv, AskedMatch, NEW fd \in Open,
         \/ RecvError(fd)
         \/ \E id \in Ids : \/ RecvNameless(fd, id)
                            \/ \E q \in Questions : RecvAnswer(fd, q, id)
  PROVE  /\ UNCHANGED <<mtVars, asked, asks>>
         /\ ChainsKept
         /\ handler' = handler \/ handler' \in HandlerRecords
<1>1. UNCHANGED <<mtVars, asked, asks>>
  BY DEF RecvError, RecvNameless, RecvAnswer
<1>2. CASE RecvError(fd)
  <2> DEFINE packet == [kind |-> "error", q |-> watch[fd].q, fd |-> fd, id |-> watch[fd].id]
  <2>1. watch[fd] \in PacketKeys /\ fd \in Fds
    BY DEF Open, Types
  <2>2. packet \in Packets
    BY <2>1, KeyKinds DEF Packets
  <2>3. CASE Find(watch[fd]) # {}
    <3>1. PICK w \in Find(watch[fd]) : DoResends(w, packet, Closed)
      BY <1>2, <2>3 DEF RecvError
    <3>2. w \in QueryWaiters /\ w.tid \in MT!Tids
      BY <2>1, KeyKinds DEF Find, QueryWaiters, SchedulerInv, MT!TypeOK, MT!Waiters
    <3>3. pident[w.tid].chain \in SUBSET (ChainFds \X Ids)
      BY <3>2 DEF Types, Pidents
    <3>4. handler' \in HandlerRecords
      BY <2>2, <3>1, <3>2, <3>3, DeliverTyped DEF DoResends
    <3> QED
      BY <1>1, <3>1, <3>2, <3>4, ClosingKeeps DEF DoResends
  <2>4. CASE Find(watch[fd]) = {}
    BY <1>1, <1>2, <2>4 DEF RecvError, Types, ChainsKept
  <2> QED
    BY <2>3, <2>4
<1>3. ASSUME NEW id \in Ids, RecvNameless(fd, id)
      PROVE  /\ ChainsKept
             /\ handler' = handler \/ handler' \in HandlerRecords
  <2>1. PICK w \in QueryWaiters :
          LET key    == [q |-> w.key.q, fd |-> fd, id |-> id]
              packet == [kind |-> "nameless", q |-> w.key.q, fd |-> fd, id |-> id]
          IN  \/ Find(key) # {} /\ (\E v \in Find(key) : Deliver(v, packet, {}, fd))
                                /\ UNCHANGED pident
              \/ CountNearMisses(fd, w.key.q) /\ UNCHANGED handler
    BY <1>3 DEF RecvNameless
  <2> DEFINE key    == [q |-> w.key.q, fd |-> fd, id |-> id]
             packet == [kind |-> "nameless", q |-> w.key.q, fd |-> fd, id |-> id]
  <2>2. CASE CountNearMisses(fd, w.key.q) /\ UNCHANGED handler
    BY <2>2, MissesKeep
  <2>3. CASE (\E v \in Find(key) : Deliver(v, packet, {}, fd)) /\ UNCHANGED pident
    <3>1. PICK v \in Find(key) : Deliver(v, packet, {}, fd)
      BY <2>3
    <3>2. w.key \in PacketKeys /\ fd \in Fds
      BY KeyKinds DEF QueryWaiters, SchedulerInv, MT!TypeOK, MT!Waiters, Open
    <3>3. packet \in Packets /\ key \in PacketKeys
      BY <3>2, KeyKinds DEF Packets, PacketKeys
    <3>4. v \in QueryWaiters
      BY <3>3, KeyKinds DEF Find, QueryWaiters
    <3>5. handler' \in HandlerRecords
      BY <3>1, <3>2, <3>3, <3>4, DeliverTyped
    <3> QED
      BY <2>3, <3>5 DEF Types, ChainsKept
  <2> QED
    BY <2>1, <2>2, <2>3
<1>4. ASSUME NEW id \in Ids, NEW q \in Questions, RecvAnswer(fd, q, id)
      PROVE  /\ ChainsKept
             /\ handler' = handler \/ handler' \in HandlerRecords
  <2> DEFINE key    == [q |-> q, fd |-> fd, id |-> id]
             packet == [kind |-> "answer", q |-> q, fd |-> fd, id |-> id]
  <2>1. \/ \E w \in Find(key) : DoResends(w, packet, fd)
        \/ CountNearMisses(fd, q) /\ UNCHANGED handler
    BY <1>4 DEF RecvAnswer
  <2>2. CASE CountNearMisses(fd, q) /\ UNCHANGED handler
    BY <2>2, MissesKeep
  <2>3. CASE \E w \in Find(key) : DoResends(w, packet, fd)
    <3>1. PICK w \in Find(key) : DoResends(w, packet, fd)
      BY <2>3
    <3>2. fd \in Fds /\ packet \in Packets /\ key \in PacketKeys
      BY DEF Packets, PacketKeys, Open
    <3>3. w \in QueryWaiters /\ w.tid \in MT!Tids
      BY <3>2, KeyKinds DEF Find, QueryWaiters, SchedulerInv, MT!TypeOK, MT!Waiters
    <3>4. pident[w.tid].chain \in SUBSET (ChainFds \X Ids)
      BY <3>3 DEF Types, Pidents
    <3>5. handler' \in HandlerRecords
      BY <3>1, <3>2, <3>3, <3>4, DeliverTyped DEF DoResends
    <3> QED
      BY <3>1, <3>3, <3>5, ClosingKeeps DEF DoResends
  <2> QED
    BY <2>1, <2>2, <2>3
<1> QED
  BY <1>1, <1>2, <1>3, <1>4

\* The parts every other invariant of this module rests on.
Basics == Types /\ AskedMatch /\ ChainCounted

LEMMA BasicsInit == Init => Basics
<1> SUFFICES ASSUME Init PROVE Basics
  OBVIOUS
<1> USE DEF Init, MT!Init
<1>1. NoPident \in Pidents
  <2>1. {} \in SUBSET (ChainFds \X Ids) /\ 0 \in 0 .. MaxNow /\ 0 \in 0 .. NearMissLimit + 1
    OBVIOUS
  <2> QED
    BY <2>1 DEF NoPident, Pidents
<1>2. Types
  <2>1. NotAsked \in AskedRecords
    BY DEF NotAsked, AskedRecords
  <2>2. 1 <= MaxNow /\ 0 \in 0 .. MaxAsks
    OBVIOUS
  <2>3. pident \in [MT!Tids -> Pidents] /\ asked \in [MT!Tids -> AskedRecords]
    BY <1>1, <2>1
  <2>4. watch \in [Fds -> PacketKeys \cup {Closed}]
    OBVIOUS
  <2>5. now = 1 /\ asks = 0 /\ handler = Idle
    OBVIOUS
  <2> QED
    BY <2>2, <2>3, <2>4, <2>5 DEF Types
<1>3. AskedMatch
  BY DEF AskedMatch, NotAsked
<1>4. ChainCounted
  <2>1. \A t \in MT!Tids : pident[t].chain = {}
    BY DEF NoPident
  <2> QED
    BY <2>1, NothingCounted DEF ChainCounted
<1> QED
  BY <1>2, <1>3, <1>4 DEF Basics

\* What an mthread notes of its request.
LEMMA AskingTyped ==
  ASSUME NEW q \in Questions, NEW ecs \in Subnets, NEW head \in Nat
  PROVE  Asking(q, ecs, head) \in AskedRecords /\ Asking(q, ecs, head).state = "waiting"
         /\ Asking(q, ecs, head).q = q
  BY DEF Asking, AskedRecords

LEMMA StatesTyped ==
  \A s \in {"none", "failed", "timeout"} : [state |-> s] \in AskedRecords
  BY DEF AskedRecords

\* A chain that stays as it is remains counted when more is asked.
LEMMA CountedStays ==
  ASSUME Types, ChainCounted, asks' \in Nat, asks' >= asks,
         \A t \in MT!Tids : pident'[t].chain \in {pident[t].chain, {}}
  PROVE  ChainCounted'
<1>1. asks \in Nat
  BY DEF Types
<1>2. ASSUME NEW t \in MT!Tids
      PROVE  Counted(pident'[t].chain, asks')
  <2>1. Counted(pident[t].chain, asks')
    BY <1>1, CountedMore DEF ChainCounted
  <2>2. Counted({}, asks')
    BY NothingCounted
  <2> QED
    BY <2>1, <2>2
<1> QED
  BY <1>2 DEF ChainCounted

\* AskedMatch is left alone by what wakes an mthread that waits.
LEMMA WokenMatches ==
  ASSUME SchedulerInv, AskedMatch, UNCHANGED <<asked, waiter>>,
         \A t \in MT!Tids : pc[t] \in {"waiting", "returning"}
                              <=> pc'[t] \in {"waiting", "returning"}
  PROVE  AskedMatch'
  BY DEF AskedMatch

LEMMA BasicsNext ==
  ASSUME SchedulerInv, Basics, [Next]_vars
  PROVE  Basics'
<1>0. Types /\ AskedMatch /\ ChainCounted
  BY DEF Basics
<1>1. CASE UNCHANGED vars
  <2>1. UNCHANGED <<now, pc, waiter, watch, pident, handler, asked, asks>>
    BY <1>1 DEF vars, mtVars, udpVars
  <2> QED
    BY <1>0, <2>1 DEF Basics, Types, AskedMatch, ChainCounted
<1>2. CASE MainLoop
  <2>1. UNCHANGED <<now, waiter, watch, pident, handler, asked, asks>>
    BY <1>2, Loops DEF udpVars
  <2>2. \A t \in MT!Tids : pc[t] \in {"waiting", "returning"}
                             <=> pc'[t] \in {"waiting", "returning"}
    <3>1. CASE \E w \in d_waiters : w.tid \in MT!Tids
                                      /\ pc' = [pc EXCEPT ![w.tid] = "returning"]
      BY <3>1 DEF SchedulerInv, MT!WaitersMatch, MT!TypeOK
    <3> QED
      BY <1>2, <3>1, Loops
  <2>3. AskedMatch'
    BY <1>0, <2>1, <2>2, WokenMatches
  <2> QED
    BY <1>0, <2>1, <2>3 DEF Basics, Types, ChainCounted
<1>3. CASE Tick
  <2>1. UNCHANGED <<pc, waiter, watch, pident, handler, asked, asks>> /\ now' <= MaxNow
    BY <1>3 DEF Tick, MT!Tick, udpVars, SchedulerInv, MT!TypeOK
  <2> QED
    BY <1>0, <2>1 DEF Basics, Types, AskedMatch, ChainCounted
<1>4. CASE ResendOne
  <2>1. PICK entry \in handler.todo :
          /\ LET key == [q |-> handler.key.q, fd |-> entry[1], id |-> entry[2]]
             IN  UNCHANGED mtVars \/ (\E w \in Chained(key) : MT!SendEvent(w.key, handler.packet))
          /\ handler' = [handler EXCEPT !.todo = @ \ {entry}]
          /\ UNCHANGED <<watch, pident, asked, asks>> /\ handler.at = "resend"
    BY <1>4 DEF ResendOne, HandlerAt
  <2>2. handler' \in HandlerRecords
    BY <1>0, <2>1 DEF Types, Idle, HandlerRecords
  <2>3. /\ UNCHANGED <<now, waiter>>
        /\ \A t \in MT!Tids : pc[t] \in {"waiting", "returning"}
                                <=> pc'[t] \in {"waiting", "returning"}
    <3>1. CASE UNCHANGED mtVars
      BY <3>1 DEF mtVars
    <3>2. CASE \E w \in d_waiters : MT!SendEvent(w.key, handler.packet)
      BY <3>2, Sends DEF SchedulerInv, MT!WaitersMatch, MT!TypeOK
    <3> QED
      BY <2>1, <3>1, <3>2 DEF Chained, Find
  <2>4. AskedMatch'
    BY <1>0, <2>1, <2>3, WokenMatches
  <2> QED
    BY <1>0, <2>1, <2>2, <2>3, <2>4 DEF Basics, Types, ChainCounted
<1>5. CASE WakeHead
  <2>1. /\ handler.at = "resend" /\ UNCHANGED <<watch, pident, asked, asks>>
        /\ handler' = Idle \/ handler' = [handler EXCEPT !.at = "close"]
        /\ UNCHANGED mtVars \/ MT!SendEvent(handler.key, handler.packet)
    BY <1>5 DEF WakeHead, HandlerAt
  <2>2. handler' = Idle \/ handler' \in HandlerRecords
    BY <1>0, <2>1 DEF Types, Idle, HandlerRecords
  <2>3. /\ UNCHANGED <<now, waiter>>
        /\ \A t \in MT!Tids : pc[t] \in {"waiting", "returning"}
                                <=> pc'[t] \in {"waiting", "returning"}
    <3>1. CASE UNCHANGED mtVars
      BY <3>1 DEF mtVars
    <3>2. CASE MT!SendEvent(handler.key, handler.packet)
      BY <3>2, Sends DEF SchedulerInv, MT!WaitersMatch, MT!TypeOK
    <3> QED
      BY <2>1, <3>1, <3>2
  <2>4. AskedMatch'
    BY <1>0, <2>1, <2>3, WokenMatches
  <2> QED
    BY <1>0, <2>1, <2>2, <2>3, <2>4 DEF Basics, Types, ChainCounted
<1>6. CASE CloseSocket
  <2>1. /\ UNCHANGED <<now, pc, waiter, pident, asked, asks>> /\ handler' = Idle
        /\ watch' = [watch EXCEPT ![handler.fd] = Closed]
    BY <1>6 DEF CloseSocket, ReturnSocket, mtVars
  <2> QED
    BY <1>0, <2>1 DEF Basics, Types, AskedMatch, ChainCounted
<1>7. ASSUME NEW fd \in Open,
             \/ RecvError(fd)
             \/ \E id \in Ids : \/ RecvNameless(fd, id)
                                \/ \E q \in Questions : RecvAnswer(fd, q, id)
      PROVE  Basics'
  <2>1. /\ UNCHANGED <<mtVars, asked, asks>> /\ ChainsKept
        /\ handler' = handler \/ handler' \in HandlerRecords
    BY <1>0, <1>7, PacketsLeave
  <2>2. UNCHANGED <<now, pc, waiter>>
    BY <2>1 DEF mtVars
  <2>3. watch' \in [Fds -> PacketKeys \cup {Closed}]
    BY <1>0, <1>7 DEF RecvError, ReturnSocket, RecvNameless, RecvAnswer, Types
  <2>4. ChainCounted'
    BY <1>0, <2>1, CountedStays DEF ChainsKept, Types
  <2> QED
    BY <1>0, <2>1, <2>2, <2>3, <2>4 DEF Basics, Types, AskedMatch, ChainsKept
<1>8. ASSUME NEW t \in MT!Tids, NEW q \in Questions, NEW ecs \in Subnets,
             \/ AskSendFails(t, q, ecs)
             \/ \E wait \in WaitTimes : AskChainLimit(t, q, ecs, wait)
      PROVE  Basics'
  <2>1. /\ UNCHANGED <<now, pc, waiter, watch, pident, handler>> /\ MT!Active(t)
        /\ asks < MaxAsks /\ asks' = asks + 1
        /\ asked' = [asked EXCEPT ![t] = [state |-> "failed"]]
    BY <1>8 DEF AskSendFails, AskChainLimit, Starts, mtVars
  <2>2. Types'
    BY <1>0, <2>1, StatesTyped DEF Types
  <2>3. AskedMatch'
    BY <1>0, <2>1 DEF AskedMatch, MT!Active, Types
  <2>4. ChainCounted'
    BY <1>0, <2>1, CountedStays DEF Types
  <2> QED
    BY <2>2, <2>3, <2>4 DEF Basics
<1>9. ASSUME NEW t \in MT!Tids, NEW q \in Questions, NEW ecs \in Subnets,
             NEW wait \in WaitTimes, NEW id \in Ids, AskChained(t, q, ecs, id, wait)
      PROVE  Basics'
  <2>1. /\ asks < MaxAsks /\ asks' = asks + 1 /\ UNCHANGED <<watch, d_numsocks, handler>>
        /\ MT!Active(t)
    BY <1>0, <1>9, ChainedSteps
  <2>2. PICK head \in ChainHeads(q, ecs) :
          /\ head.tid # t /\ ~ChainFull(head)
          /\ NextPlace(pident[head.tid].chain) \in ChainFds
          /\ ChainsOnto(head, t, q, ecs, id, wait)
    BY <1>0, <1>9, ChainedSteps
  <2> DEFINE chain == pident[head.tid].chain
             key   == [q |-> q, fd |-> NextPlace(chain), id |-> id]
             more  == chain \cup {<<NextPlace(chain), id>>}
  <2>3. head.tid \in MT!Tids /\ pc[head.tid] = "waiting" /\ waiter[head.tid] = head
        /\ IsQuery(head.key)
    BY ChainHeadsKnown
  <2>4. asked[head.tid].head \in Nat
    BY <1>0, <2>3, KeyKinds DEF AskedMatch, Types, AskedRecords
  <2>5. Counted(more, asks + 1) /\ more \in SUBSET (ChainFds \X Ids)
    BY <1>0, <2>1, <2>2, <2>3, ChainGrows DEF ChainFull
  <2>6. [pident[head.tid] EXCEPT !.chain = more] \in Pidents
        /\ [pident[head.tid] EXCEPT !.chain = more].chain = more
    <3>1. pident[head.tid] \in Pidents
      BY <1>0, <2>3 DEF Types
    <3> QED
      BY <2>5, <3>1 DEF Pidents
  <2>7. NewPident(ecs) \in Pidents /\ NewPident(ecs).chain = {}
    BY <1>0, NewPidentTyped DEF NewPident, NoPident
  <2>14. key \in PacketKeys /\ key.q = q
    BY <2>2 DEF PacketKeys
  <2>15. \/ /\ MT!WaitEventError(t, key)
            /\ pident' = [pident EXCEPT ![head.tid] = [pident[head.tid] EXCEPT !.chain = more]]
            /\ asked' = [asked EXCEPT ![t] = [state |-> "failed"]]
         \/ /\ MT!WaitEvent(t, key, wait)
            /\ pident' = [pident EXCEPT ![head.tid] = [pident[head.tid] EXCEPT !.chain = more],
                                        ![t] = NewPident(ecs)]
            /\ asked' = [asked EXCEPT ![t] = Asking(q, ecs, asked[head.tid].head)]
    BY <2>2 DEF ChainsOnto
  <2> DEFINE changed == [pident[head.tid] EXCEPT !.chain = more]
  <2> HIDE DEF chain, key, more, changed
  <2>8. /\ pident' \in [MT!Tids -> Pidents]
        /\ pident'[head.tid].chain = more
        /\ \A u \in MT!Tids \ {head.tid} : pident'[u].chain \in {pident[u].chain, {}}
    <3>1. changed \in Pidents /\ changed.chain = more
      BY <2>6 DEF changed
    <3>2. \/ pident' = [pident EXCEPT ![head.tid] = changed]
          \/ pident' = [pident EXCEPT ![head.tid] = changed, ![t] = NewPident(ecs)]
      BY <2>15 DEF changed
    <3> QED
      BY <1>0, <2>2, <2>3, <2>7, <3>1, <3>2 DEF Types
  <2>9. ChainCounted'
    <3>1. asks \in Nat /\ asks + 1 \in Nat /\ asks <= asks + 1
      BY <1>0 DEF Types
    <3>2. \A u \in MT!Tids : Counted(pident[u].chain, asks + 1)
      BY <1>0, <3>1, CountedMore DEF ChainCounted
    <3>3. ASSUME NEW u \in MT!Tids PROVE Counted(pident'[u].chain, asks + 1)
      <4>1. CASE u = head.tid
        BY <2>5, <2>8, <4>1
      <4>2. CASE u # head.tid
        BY <2>8, <3>1, <3>2, <4>2, NothingCounted
      <4> QED
        BY <4>1, <4>2
    <3> QED
      BY <2>1, <3>3 DEF ChainCounted
  <2>10. UNCHANGED <<now>>
    BY <2>15 DEF MT!WaitEventError, MT!WaitEvent, MT!clocks
  <2>11. asked' \in [MT!Tids -> AskedRecords]
    BY <1>0, <2>4, <2>15, StatesTyped, AskingTyped DEF Types
  <2>12. Types'
    BY <1>0, <2>1, <2>8, <2>10, <2>11 DEF Types
  <2>13. AskedMatch'
    <3>1. CASE /\ MT!WaitEventError(t, key)
               /\ asked' = [asked EXCEPT ![t] = [state |-> "failed"]]
      <4>1. UNCHANGED <<pc, waiter>>
        BY <3>1 DEF MT!WaitEventError
      <4> QED
        BY <1>0, <2>1, <3>1, <4>1 DEF AskedMatch, Types, MT!Active
    <3>2. CASE /\ MT!WaitEvent(t, key, wait)
               /\ asked' = [asked EXCEPT ![t] = Asking(q, ecs, asked[head.tid].head)]
      <4>1. PICK w : /\ w.key = key /\ waiter' = [waiter EXCEPT ![t] = w]
                     /\ pc' = [pc EXCEPT ![t] = "waiting"] /\ now' = now
        <5>1. MT!WaitEvent(t, key, wait)
          BY <3>2
        <5> HIDE DEF key
        <5> QED
          BY <5>1, AskWaits
      <4> QED
        BY <1>0, <2>4, <2>14, <3>2, <4>1, AskingTyped
        DEF AskedMatch, Types, SchedulerInv, MT!TypeOK
    <3> QED
      BY <2>15, <3>1, <3>2
  <2> QED
    BY <2>9, <2>12, <2>13 DEF Basics
<1>10. ASSUME NEW t \in MT!Tids, NEW q \in Questions, NEW ecs \in Subnets,
              NEW wait \in WaitTimes, NEW id \in Ids, NEW fd \in Fds,
              AskAnew(t, q, ecs, id, fd, wait)
       PROVE  Basics'
  <2> DEFINE key == [q |-> q, fd |-> fd, id |-> id]
  <2>1. /\ asks < MaxAsks /\ asks' = asks + 1 /\ UNCHANGED handler /\ MT!Active(t)
        /\ \/ /\ MT!WaitEventError(t, key)
              /\ asked' = [asked EXCEPT ![t] = [state |-> "failed"]]
              /\ UNCHANGED <<watch, pident>>
           \/ /\ MT!WaitEvent(t, key, wait)
              /\ watch' = [watch EXCEPT ![fd] = key]
              /\ pident' = [pident EXCEPT ![t] = NewPident(ecs)]
              /\ asked' = [asked EXCEPT ![t] = Asking(q, ecs, asks)]
    BY <1>10 DEF AskAnew, Starts
  <2>2. key \in PacketKeys /\ key.q = q
    BY DEF PacketKeys
  <2>3. NewPident(ecs) \in Pidents /\ NewPident(ecs).chain = {}
    BY <1>0, NewPidentTyped DEF NewPident, NoPident
  <2>4. asks \in Nat
    BY <1>0 DEF Types
  <2> HIDE DEF key
  <2>5. CASE /\ MT!WaitEventError(t, key)
             /\ asked' = [asked EXCEPT ![t] = [state |-> "failed"]]
             /\ UNCHANGED <<watch, pident>>
    <3>1. UNCHANGED <<now, pc, waiter>>
      BY <2>5 DEF MT!WaitEventError, MT!clocks
    <3>2. Types'
      BY <1>0, <2>1, <2>5, <3>1, StatesTyped DEF Types
    <3>3. AskedMatch'
      BY <1>0, <2>1, <2>5, <3>1 DEF AskedMatch, MT!Active, Types
    <3>4. ChainCounted'
      BY <1>0, <2>1, <2>5, CountedStays DEF Types
    <3> QED
      BY <3>2, <3>3, <3>4 DEF Basics
  <2>6. CASE /\ MT!WaitEvent(t, key, wait)
             /\ watch' = [watch EXCEPT ![fd] = key]
             /\ pident' = [pident EXCEPT ![t] = NewPident(ecs)]
             /\ asked' = [asked EXCEPT ![t] = Asking(q, ecs, asks)]
    <3>1. PICK w : /\ w.key = key /\ waiter' = [waiter EXCEPT ![t] = w]
                   /\ pc' = [pc EXCEPT ![t] = "waiting"] /\ now' = now
      <4>1. MT!WaitEvent(t, key, wait)
        BY <2>6
      <4> QED
        BY <4>1, AskWaits
    <3>2. Types'
      BY <1>0, <2>1, <2>2, <2>3, <2>4, <2>6, <3>1, AskingTyped DEF Types
    <3>3. AskedMatch'
      BY <1>0, <2>2, <2>4, <2>6, <3>1, AskingTyped
      DEF AskedMatch, Types, SchedulerInv, MT!TypeOK
    <3>4. \A u \in MT!Tids : pident'[u].chain \in {pident[u].chain, {}}
      BY <1>0, <2>3, <2>6 DEF Types
    <3>5. ChainCounted'
      BY <1>0, <2>1, <3>4, CountedStays DEF Types
    <3> QED
      BY <3>2, <3>3, <3>5 DEF Basics
  <2> QED
    BY <2>1, <2>5, <2>6
<1>11. ASSUME NEW t \in MT!Tids, Receive(t)
       PROVE  Basics'
  <2>1. /\ running = t /\ pc[t] = "returning" /\ asked[t].state = "waiting"
        /\ pc' = [pc EXCEPT ![t] = "active"] /\ UNCHANGED <<now, waiter, handler, asks>>
        /\ pident' = [pident EXCEPT ![t] = NoPident]
        /\ \E fd : watch' = [watch EXCEPT ![fd] = Closed] \/ watch' = watch
    BY <1>11 DEF Receive, MT!WaitReturn, MT!clocks, ReturnSocket
  <2>2. \E r \in AskedRecords : r.state # "waiting" /\ asked' = [asked EXCEPT ![t] = r]
    <3>1. d_waitval \in Packets \cup {NoPacket}
      BY DEF SchedulerInv, MT!TypeOK
    <3>2. asked[t].q \in Questions /\ asked[t].ecs \in Subnets /\ asked[t].head \in Nat
      BY <1>0, <2>1 DEF Types, AskedRecords
    <3>3. \A s \in {"answered", "slow", "spoofed"} :
            [state |-> s, q |-> asked[t].q, ecs |-> asked[t].ecs, head |-> asked[t].head,
             packet |-> d_waitval] \in AskedRecords
      BY <3>1, <3>2 DEF AskedRecords
    <3>4. PICK verdict \in {"failed", "spoofed", "answered", "timeout"} :
            asked' = [asked EXCEPT ![t] =
              IF verdict \in {"failed", "timeout"} THEN [state |-> verdict]
              ELSE [state |-> IF verdict = "answered" /\ TooSlow(t)
                              THEN "slow" ELSE verdict,
                    q |-> @.q, ecs |-> @.ecs, head |-> @.head,
                    packet |-> d_waitval]]
      BY <1>11 DEF Receive, Verdict
    <3>5. CASE verdict \in {"failed", "timeout"}
      BY <3>4, <3>5, StatesTyped
    <3>6. CASE verdict \in {"spoofed", "answered"}
      <4> DEFINE s == IF verdict = "answered" /\ TooSlow(t) THEN "slow" ELSE verdict
                 r == [state |-> s, q |-> asked[t].q, ecs |-> asked[t].ecs,
                       head |-> asked[t].head, packet |-> d_waitval]
      <4>1. r \in AskedRecords /\ r.state # "waiting"
        BY <3>3, <3>6
      <4>2. asked' = [asked EXCEPT ![t] = r]
        BY <1>0, <3>4, <3>6 DEF Types
      <4> QED
        BY <4>1, <4>2
    <3> QED
      BY <3>4, <3>5, <3>6
  <2>3. NoPident \in Pidents /\ NoPident.chain = {}
    <3>1. {} \in SUBSET (ChainFds \X Ids) /\ 0 \in 0 .. MaxNow /\ 0 \in 0 .. NearMissLimit + 1
      OBVIOUS
    <3> QED
      BY <3>1 DEF NoPident, Pidents
  <2>4. Types'
    BY <1>0, <2>1, <2>2, <2>3 DEF Types
  <2>5. AskedMatch'
    BY <1>0, <2>1, <2>2 DEF AskedMatch, Types, SchedulerInv, MT!TypeOK
  <2>6. \A u \in MT!Tids : pident'[u].chain \in {pident[u].chain, {}}
    BY <1>0, <2>1, <2>3 DEF Types
  <2>7. ChainCounted'
    BY <1>0, <2>1, <2>6, CountedStays DEF Types
  <2> QED
    BY <2>4, <2>5, <2>7 DEF Basics
<1>12. ASSUME NEW t \in MT!Tids, SleepReturn(t)
       PROVE  Basics'
  <2>1. /\ pc[t] = "returning" /\ asked[t].state = "none" /\ pc' = [pc EXCEPT ![t] = "active"]
        /\ UNCHANGED <<now, waiter, watch, pident, handler, asked, asks>>
    BY <1>12 DEF SleepReturn, MT!WaitReturn, MT!clocks, udpVars
  <2>2. AskedMatch'
    BY <1>0, <2>1 DEF AskedMatch, SchedulerInv, MT!TypeOK
  <2> QED
    BY <1>0, <2>1, <2>2 DEF Basics, Types, ChainCounted
<1>13. ASSUME NEW t \in MT!Tids, Finish(t)
       PROVE  Basics'
  <2>1. /\ pc[t] = "active" /\ pc' = [pc EXCEPT ![t] = "zombie"]
        /\ asked' = [asked EXCEPT ![t] = NotAsked]
        /\ UNCHANGED <<now, waiter, watch, pident, handler, asks>>
    BY <1>13 DEF Finish, MT!Finish, MT!Active, MT!clocks
  <2>2. AskedMatch'
    BY <1>0, <2>1 DEF AskedMatch, NotAsked, Types, SchedulerInv, MT!TypeOK
  <2>3. Types'
    BY <1>0, <2>1, StatesTyped DEF Types, NotAsked
  <2> QED
    BY <1>0, <2>1, <2>2, <2>3 DEF Basics, ChainCounted
<1>14. ASSUME NEW t \in MT!Tids, NEW jitter \in WaitTimes \cup {0}, Sleep(t, jitter)
       PROVE  Basics'
  <2>1. /\ MT!WaitEvent(t, [sleeper |-> t], jitter) /\ jitter \in Nat
        /\ asked' = [asked EXCEPT ![t] = NotAsked]
        /\ UNCHANGED <<watch, pident, handler, asks>>
    BY <1>14 DEF Sleep
  <2>2. PICK w : /\ w.key = [sleeper |-> t] /\ waiter' = [waiter EXCEPT ![t] = w]
                 /\ pc' = [pc EXCEPT ![t] = "waiting"] /\ now' = now
    BY <2>1, WaitMoves
  <2>3. [sleeper |-> t] \in SleepKeys
    BY DEF SleepKeys, MT!Tids
  <2>4. AskedMatch'
    BY <1>0, <2>1, <2>2, <2>3 DEF AskedMatch, NotAsked, Types, SchedulerInv, MT!TypeOK
  <2>5. Types'
    BY <1>0, <2>1, <2>2, StatesTyped DEF Types, NotAsked
  <2> QED
    BY <1>0, <2>1, <2>4, <2>5 DEF Basics, ChainCounted
<1> QED
  BY <1>1, <1>2, <1>3, <1>4, <1>5, <1>6, <1>7, <1>8, <1>9, <1>10, <1>11, <1>12, <1>13, <1>14,
     Steps

-----------------------------------------------------------------------------
(* Sockets *)

Returning(t) == pc[t] = "returning"

\* Keys whose socket is about to be closed: by the handler, whose head has been woken,
\* or by an mthread that has timed out.
ClosingKeys ==
  {key \in PacketKeys :
     /\ key.fd >= 0
     /\ \/ handler.at = "close" /\ key = handler.key
        \/ \E t \in MT!Tids : Returning(t) /\ d_waitstatus = MT!TimeOut /\ key = waiter[t].key}

\* A head that is about to be told of an error of its socket, which is closed already.
Bereft(key) == handler.at = "resend" /\ handler.fd = Closed /\ key = handler.key

HasHead(key) == \E w \in Heads : w.key = key

Owner(key) == (HasHead(key) /\ ~Bereft(key)) \/ key \in ClosingKeys

\* While the handler is under way, what runs was woken by it, and its head waits until
\* its own turn comes.
HandlerKnown ==
  /\ handler.at # "idle" =>
       /\ running = MT!Kernel => frame = "poll"
       /\ running # MT!Kernel => frame = "send"
       /\ \A t \in MT!Tids : Returning(t) => d_waitstatus = MT!Answer
  /\ handler.at = "resend" => HasHead(handler.key) /\ handler.fd \in {Closed, handler.key.fd}
  /\ handler.at = "close" => handler.key.fd \in Fds /\ handler.fd = handler.key.fd

\* Each open socket is watched for the one request that will close it or be closed
\* behind.
Owned ==
  /\ \A fd \in Open : watch[fd].fd = fd /\ Owner(watch[fd])
  /\ \A key \in PacketKeys : Owner(key) => key.fd \in Fds /\ watch[key.fd] = key
  /\ \A key \in ClosingKeys : ~MT!HasWaiter(key)
  /\ d_numsocks = Cardinality(Open)

LEMMA HeadsKnown ==
  ASSUME SchedulerInv, NEW w \in Heads
  PROVE  /\ w \in d_waiters /\ w.tid \in MT!Tids /\ pc[w.tid] = "waiting" /\ waiter[w.tid] = w
         /\ w.key \in PacketKeys /\ w.key.fd \in Fds
         /\ \A v \in d_waiters : v.key = w.key => v = w
<1>1. w \in d_waiters /\ IsQuery(w.key) /\ w.key.fd >= 0
  BY DEF Heads, QueryWaiters
<1>2. w.tid \in MT!Tids /\ pc[w.tid] = "waiting" /\ waiter[w.tid] = w
      /\ w.key \in PacketKeys \cup SleepKeys
      /\ \A v \in d_waiters : v.key = w.key => v = w
  BY <1>1 DEF SchedulerInv, MT!TypeOK, MT!Waiters, MT!WaitersMatch
<1>3. w.key \in PacketKeys
  BY <1>1, <1>2, KeyKinds
<1>4. w.key.fd \in Fds
  BY <1>1, <1>3, KeyKinds
<1> QED
  BY <1>1, <1>2, <1>3, <1>4

LEMMA HeadHasWaiter == ASSUME NEW key, HasHead(key) PROVE MT!HasWaiter(key)
  BY DEF HasHead, Heads, QueryWaiters, MT!HasWaiter

\* Only the mthread that runs may be coming back from a wait.
LEMMA NoneReturning ==
  ASSUME SchedulerInv, NEW t \in MT!Tids, Returning(t)
  PROVE  running = t /\ t # MT!Kernel /\ pc[t] # "active"
  BY DEF SchedulerInv, MT!OneRunning, Returning, MT!Tids, MT!Kernel

\* A step that changes neither sockets nor who owns them.
LEMMA OwnedStays ==
  ASSUME Types, Owned, UNCHANGED <<watch, d_numsocks>>,
         \A key \in PacketKeys : Owner(key)' <=> Owner(key),
         \A key \in ClosingKeys' : ~MT!HasWaiter(key)'
  PROVE  Owned'
<1>1. \A fd \in Open : watch[fd] \in PacketKeys
  BY DEF Open, Types
<1> QED
  BY <1>1 DEF Owned, Open

\* A step that keeps the waiters with a socket and what is being closed.
LEMMA SocketsStay ==
  ASSUME Types, Owned, UNCHANGED <<watch, d_numsocks, handler>>, Heads' = Heads,
         ClosingKeys' = ClosingKeys,
         \A key \in ClosingKeys : MT!HasWaiter(key)' => MT!HasWaiter(key)
  PROVE  Owned'
<1>1. \A key \in PacketKeys : Owner(key)' <=> Owner(key)
  BY DEF Owner, HasHead, Bereft
<1> QED
  BY <1>1, OwnedStays DEF Owned

\* Nothing is being closed while the handler is not about to and nobody comes back.
LEMMA NothingClosing ==
  ASSUME handler.at # "close", \A t \in MT!Tids : ~Returning(t)
  PROVE  ClosingKeys = {}
  BY DEF ClosingKeys

\* A waiter without a socket comes or goes.
LEMMA HeadsStay ==
  ASSUME NEW w, ~IsQuery(w.key) \/ ~(w.key.fd >= 0),
         d_waiters' = d_waiters \cup {w} \/ d_waiters' = d_waiters \ {w}
  PROVE  Heads' = Heads
  BY DEF Heads, QueryWaiters

\* The handler's part, while mthreads run.
LEMMA HandlerStays ==
  ASSUME HandlerKnown, UNCHANGED handler, \A w \in Heads : w \in Heads',
         \/ UNCHANGED <<running, frame>>
         \/ /\ running # MT!Kernel /\ running' = MT!Kernel
            /\ frame = "send" => frame' = "poll",
         \A t \in MT!Tids : Returning(t)' => Returning(t) /\ UNCHANGED d_waitstatus
  PROVE  HandlerKnown'
  BY DEF HandlerKnown, HasHead

LEMMA OwnedInit == Init => HandlerKnown /\ Owned
<1> SUFFICES ASSUME Init PROVE HandlerKnown /\ Owned
  OBVIOUS
<1>1. handler.at = "idle" /\ d_waiters = {} /\ Open = {} /\ d_numsocks = 0
      /\ \A t \in MT!Tids : ~Returning(t)
  BY DEF Init, MT!Init, Idle, Open, Returning
<1>2. HandlerKnown
  BY <1>1 DEF HandlerKnown
<1>3. ClosingKeys = {} /\ \A key : ~HasHead(key)
  BY <1>1, NothingClosing DEF HasHead, Heads, QueryWaiters
<1> QED
  BY <1>1, <1>2, <1>3, FS_EmptySet DEF Owned, Owner

\* The socket of a key that is being closed, and of no other, goes.
LEMMA SocketGoes ==
  ASSUME Types, Owned, NEW key \in PacketKeys, Owner(key), ReturnSocket(key.fd),
         \A k \in PacketKeys : Owner(k)' <=> Owner(k) /\ k # key,
         \A k \in ClosingKeys' : ~MT!HasWaiter(k)'
  PROVE  Owned'
<1>1. key.fd \in Fds /\ watch[key.fd] = key
  BY DEF Owned
<1>2. watch' = [watch EXCEPT ![key.fd] = Closed] /\ d_numsocks' = d_numsocks - 1
  BY DEF ReturnSocket
<1>3. Open' = Open \ {key.fd} /\ key.fd \in Open
  BY <1>1, <1>2 DEF Open, Types
<1>4. \A fd \in Open : watch[fd] \in PacketKeys
  BY DEF Open, Types
<1>5. ASSUME NEW fd \in Open'
      PROVE  watch'[fd] = watch[fd] /\ fd \in Open /\ watch[fd].fd = fd /\ watch[fd] # key
             /\ Owner(watch[fd])'
  BY <1>1, <1>2, <1>3, <1>4, <1>5 DEF Owned, Open, Types
<1>6. ASSUME NEW k \in PacketKeys, Owner(k)'
      PROVE  k.fd \in Fds /\ watch'[k.fd] = k
  BY <1>1, <1>2, <1>6 DEF Owned, Types
<1>7. IsFiniteSet(Open)
  BY FS_Subset DEF Open
<1>8. d_numsocks' = Cardinality(Open')
  BY <1>2, <1>3, <1>7, FS_RemoveElement, FS_CardinalityType DEF Owned
<1> QED
  BY <1>5, <1>6, <1>8 DEF Owned

\* A new socket, for a key nobody waits on.
LEMMA SocketComes ==
  ASSUME Types, Owned, NEW key \in PacketKeys, key.fd \in Fds, watch[key.fd] = Closed,
         watch' = [watch EXCEPT ![key.fd] = key], d_numsocks' = d_numsocks + 1,
         \A k \in PacketKeys : Owner(k)' <=> Owner(k) \/ k = key,
         \A k \in ClosingKeys' : ~MT!HasWaiter(k)'
  PROVE  Owned'
<1>1. Open' = Open \cup {key.fd} /\ key.fd \notin Open
  BY DEF Open, Types
<1>2. \A fd \in Open : watch[fd] \in PacketKeys /\ watch'[fd] = watch[fd]
  BY <1>1 DEF Open, Types
<1>3. watch'[key.fd] = key /\ Owner(key)'
  BY DEF Types
<1>4. ASSUME NEW fd \in Open
      PROVE  watch'[fd].fd = fd /\ Owner(watch[fd])'
  <2>1. watch[fd] \in PacketKeys /\ watch'[fd] = watch[fd]
    BY <1>2
  <2>2. watch[fd].fd = fd /\ Owner(watch[fd])
    BY DEF Owned
  <2>3. Owner(watch[fd])'
    BY <2>1, <2>2
  <2> QED
    BY <2>1, <2>2, <2>3
<1>5. \A fd \in Open' : watch'[fd].fd = fd /\ Owner(watch[fd])'
  BY <1>1, <1>3, <1>4
<1>6. ASSUME NEW k \in PacketKeys, Owner(k)'
      PROVE  k.fd \in Fds /\ watch'[k.fd] = k
  BY <1>6 DEF Owned, Types
<1>7. IsFiniteSet(Open)
  BY FS_Subset DEF Open
<1>8. d_numsocks = Cardinality(Open) /\ Cardinality(Open) \in Nat
  BY <1>7, FS_CardinalityType DEF Owned
<1>9. Cardinality(Open \cup {key.fd}) = Cardinality(Open) + 1
  BY <1>1, <1>7, FS_AddElement
<1>10. d_numsocks' = Cardinality(Open')
  BY <1>1, <1>8, <1>9
<1> QED
  BY <1>5, <1>6, <1>10 DEF Owned

\* Steps that touch neither sockets nor waits.
LEMMA Untouched ==
  ASSUME Types, HandlerKnown, Owned,
         UNCHANGED <<running, frame, pc, waiter, d_waiters, d_waitstatus,
                     watch, d_numsocks, handler>>
  PROVE  HandlerKnown' /\ Owned'
<1>1. Heads' = Heads
  BY DEF Heads, QueryWaiters
<1>2. HandlerKnown'
  BY <1>1 DEF HandlerKnown, HasHead, Returning
<1>3. ClosingKeys' = ClosingKeys
  BY DEF ClosingKeys, Returning
<1>4. \A key : MT!HasWaiter(key)' <=> MT!HasWaiter(key)
  BY DEF MT!HasWaiter
<1> QED
  BY <1>1, <1>2, <1>3, <1>4, SocketsStay

\* An mthread that goes on, waits without a socket of its own or ends.
LEMMA MThreadKeeps ==
  ASSUME Types, HandlerKnown, Owned, NEW t \in MT!Tids,
         UNCHANGED <<watch, d_numsocks, handler, d_waitstatus>>, Heads' = Heads,
         \A u \in MT!Tids : u # t => pc'[u] = pc[u] /\ waiter'[u] = waiter[u],
         pc'[t] # "returning",
         Returning(t) /\ d_waitstatus = MT!TimeOut
           => ~(waiter[t].key \in PacketKeys /\ waiter[t].key.fd >= 0),
         \A key \in PacketKeys : key.fd >= 0 /\ MT!HasWaiter(key)' => MT!HasWaiter(key),
         \/ UNCHANGED <<running, frame>>
         \/ /\ running # MT!Kernel /\ running' = MT!Kernel
            /\ frame = "send" => frame' = "poll"
  PROVE  HandlerKnown' /\ Owned'
<1>1. \A u \in MT!Tids : Returning(u)' => Returning(u) /\ waiter'[u] = waiter[u]
  BY DEF Returning
<1>2. \A u \in MT!Tids : Returning(u) => Returning(u)' \/ u = t
  BY DEF Returning
<1>3. HandlerKnown'
  BY <1>1, HandlerStays
<1>4. ClosingKeys' = ClosingKeys
  <2>1. ASSUME NEW key \in PacketKeys, key.fd >= 0
        PROVE  (\E u \in MT!Tids : Returning(u) /\ d_waitstatus = MT!TimeOut /\ key = waiter[u].key)'
               <=> \E u \in MT!Tids : Returning(u) /\ d_waitstatus = MT!TimeOut /\ key = waiter[u].key
    BY <1>1, <1>2, <2>1
  <2> QED
    BY <2>1 DEF ClosingKeys
<1>5. \A key \in ClosingKeys : MT!HasWaiter(key)' => MT!HasWaiter(key)
  BY DEF ClosingKeys
<1> QED
  BY <1>3, <1>4, <1>5, SocketsStay

\* The main loop: a scan that ends a wait on a socket leaves the socket to the mthread.
LEMMA LoopOwned ==
  ASSUME SchedulerInv, Types, HandlerKnown, Owned, MainLoop
  PROVE  HandlerKnown' /\ Owned'
<1>1. /\ running = MT!Kernel /\ handler.at = "idle" /\ UNCHANGED waiter
      /\ UNCHANGED <<watch, d_numsocks, handler>>
  BY Loops DEF udpVars
<1>2. HandlerKnown'
  BY <1>1 DEF HandlerKnown
<1>3. \A t \in MT!Tids : ~Returning(t)
  BY <1>1, NoneReturning DEF MT!Tids, MT!Kernel
<1>4. ClosingKeys = {}
  BY <1>1, <1>3, NothingClosing
<1>5. CASE UNCHANGED d_waiters /\ \A t \in MT!Tids : pc'[t] # "returning"
  <2>1. Heads' = Heads
    BY <1>5 DEF Heads, QueryWaiters
  <2>2. ClosingKeys' = {}
    BY <1>1, <1>5 DEF ClosingKeys, Returning
  <2> QED
    BY <1>1, <1>2, <1>4, <2>1, <2>2, SocketsStay
<1>6. CASE /\ \E w \in d_waiters : /\ w.tid \in MT!Tids
                                   /\ d_waiters' = d_waiters \ {w}
                                   /\ pc' = [pc EXCEPT ![w.tid] = "returning"]
           /\ d_waitstatus' = MT!TimeOut
  <2>1. PICK w \in d_waiters : /\ w.tid \in MT!Tids /\ d_waiters' = d_waiters \ {w}
                               /\ pc' = [pc EXCEPT ![w.tid] = "returning"]
    BY <1>6
  <2>2. waiter'[w.tid] = w /\ \A v \in d_waiters : v.key = w.key => v = w
    BY <1>1, <2>1 DEF SchedulerInv, MT!WaitersMatch
  <2>3. \A t \in MT!Tids : Returning(t)' <=> t = w.tid
    BY <1>3, <2>1 DEF Returning, SchedulerInv, MT!TypeOK
  <2>4. ClosingKeys' = {key \in PacketKeys : key.fd >= 0 /\ key = w.key}
    BY <1>1, <1>6, <2>1, <2>2, <2>3 DEF ClosingKeys
  <2>5. \A key \in PacketKeys : HasHead(key)' <=> HasHead(key) /\ key # w.key
    BY <2>1, <2>2 DEF HasHead, Heads, QueryWaiters
  <2>6. \A key \in PacketKeys : key.fd >= 0 /\ key = w.key => HasHead(key)
    BY <2>1, KeyKinds DEF HasHead, Heads, QueryWaiters
  <2>7. \A key \in PacketKeys : HasHead(key) => key.fd >= 0
    BY DEF HasHead, Heads
  <2>8. \A key \in PacketKeys : Owner(key)' <=> Owner(key)
    BY <1>1, <1>4, <2>4, <2>5, <2>6, <2>7 DEF Owner, Bereft
  <2>9. \A key \in ClosingKeys' : ~MT!HasWaiter(key)'
    BY <2>1, <2>2, <2>4 DEF MT!HasWaiter
  <2> QED
    BY <1>1, <1>2, <2>8, <2>9, OwnedStays
<1> QED
  BY <1>5, <1>6, Loops

\* The waiter an event wakes is the only one with its key.
LEMMA WokenByEvent ==
  ASSUME SchedulerInv, NEW key, NEW val, MT!SendEvent(key, val)
  PROVE  /\ running = MT!Kernel /\ frame = "poll" /\ frame' = "send"
         /\ \A t \in MT!Tids : ~Returning(t)
         /\ \A t \in MT!Tids : Returning(t)' => d_waitstatus' = MT!Answer
         /\ d_waitstatus' = MT!Answer /\ running' # MT!Kernel
         /\ \E w \in d_waiters : w.key = key /\ d_waiters' = d_waiters \ {w}
         /\ \A k : HasHead(k)' <=> HasHead(k) /\ k # key
         /\ ~MT!HasWaiter(key)'
<1>1. /\ running = MT!Kernel /\ frame = "poll" /\ frame' = "send" /\ d_waitstatus' = MT!Answer
      /\ \E w \in d_waiters : w.key = key /\ w.tid \in MT!Tids /\ d_waiters' = d_waiters \ {w}
                              /\ running' = w.tid
  BY Sends
<1>2. \A t \in MT!Tids : ~Returning(t)
  BY <1>1, NoneReturning DEF MT!Tids, MT!Kernel
<1>3. \A v, w \in d_waiters : v.key = w.key => v = w
  BY DEF SchedulerInv, MT!WaitersMatch
<1>4. \A k : HasHead(k)' <=> HasHead(k) /\ k # key
  BY <1>1, <1>3 DEF HasHead, Heads, QueryWaiters
<1>5. ~MT!HasWaiter(key)'
  BY <1>1, <1>3 DEF MT!HasWaiter
<1> QED
  BY <1>1, <1>2, <1>4, <1>5 DEF MT!Tids, MT!Kernel

\* A resend wakes an mthread that has no socket.
LEMMA ResendOwned ==
  ASSUME SchedulerInv, Types, HandlerKnown, Owned, ResendOne
  PROVE  HandlerKnown' /\ Owned'
<1>1. /\ handler.at = "resend" /\ handler \in HandlerRecords /\ running = MT!Kernel
      /\ frame = "poll" /\ UNCHANGED <<watch, d_numsocks>>
  BY DEF ResendOne, HandlerAt, MT!KernelAt, Types, Idle
<1>2. /\ handler'.at = "resend" /\ handler'.key = handler.key /\ handler'.fd = handler.fd
  BY <1>1 DEF ResendOne, HandlerRecords
<1>3. PICK key : /\ ~(key.fd >= 0)
                 /\ UNCHANGED mtVars \/ \E val : MT!SendEvent(key, val)
  <2>1. PICK entry \in handler.todo :
          \/ UNCHANGED mtVars
          \/ \E w \in Chained([q |-> handler.key.q, fd |-> entry[1], id |-> entry[2]]) :
               MT!SendEvent(w.key, handler.packet)
    BY DEF ResendOne
  <2>2. entry[1] \in ChainFds
    BY <1>1 DEF HandlerRecords
  <2>3. ~(entry[1] >= 0)
    BY <2>2, KeyKinds
  <2> QED
    BY <2>1, <2>3 DEF Chained, Find
<1>4. \A t \in MT!Tids : ~Returning(t)
  BY <1>1, NoneReturning DEF MT!Tids, MT!Kernel
<1>5. ClosingKeys = {}
  BY <1>1, <1>4, NothingClosing
<1>6. \A k : Bereft(k)' <=> Bereft(k)
  BY <1>1, <1>2 DEF Bereft
<1>7. CASE UNCHANGED mtVars
  <2>1. UNCHANGED <<running, frame, pc, d_waiters, d_waitstatus>>
    BY <1>7 DEF mtVars
  <2>2. \A k : HasHead(k)' <=> HasHead(k)
    BY <2>1 DEF HasHead, Heads, QueryWaiters
  <2>3. HandlerKnown'
    BY <1>1, <1>2, <2>1, <2>2 DEF HandlerKnown, Returning
  <2>4. ClosingKeys' = {}
    BY <1>2, <1>4, <2>1 DEF ClosingKeys, Returning
  <2>5. \A k \in PacketKeys : Owner(k)' <=> Owner(k)
    BY <1>5, <1>6, <2>2, <2>4 DEF Owner
  <2> QED
    BY <1>1, <2>3, <2>4, <2>5, OwnedStays
<1>8. ASSUME NEW val, MT!SendEvent(key, val)
      PROVE  HandlerKnown' /\ Owned'
  <2>1. /\ frame' = "send" /\ running' # MT!Kernel
        /\ \A t \in MT!Tids : Returning(t)' => d_waitstatus' = MT!Answer
        /\ \A k : HasHead(k)' <=> HasHead(k) /\ k # key
    BY <1>8, WokenByEvent
  <2>2. \A k : HasHead(k) => k # key
    BY <1>3 DEF HasHead, Heads
  <2>3. HandlerKnown'
    BY <1>1, <1>2, <2>1, <2>2 DEF HandlerKnown
  <2>4. ClosingKeys' = {}
    BY <1>2, <2>1 DEF ClosingKeys, MT!Answer, MT!TimeOut
  <2>5. \A k \in PacketKeys : Owner(k)' <=> Owner(k)
    BY <1>5, <1>6, <2>1, <2>2, <2>4 DEF Owner
  <2> QED
    BY <1>1, <2>3, <2>4, <2>5, OwnedStays
<1> QED
  BY <1>3, <1>7, <1>8

\* The head is woken; the handler will close its socket, unless that is gone already.
LEMMA WakeHeadOwned ==
  ASSUME SchedulerInv, Types, HandlerKnown, Owned, WakeHead
  PROVE  HandlerKnown' /\ Owned'
<1>0. PICK head : head = handler.key
  OBVIOUS
<1>1. /\ handler.at = "resend" /\ handler \in HandlerRecords /\ running = MT!Kernel
      /\ UNCHANGED <<watch, d_numsocks>>
      /\ handler' = IF handler.fd = Closed THEN Idle ELSE [handler EXCEPT !.at = "close"]
  BY DEF WakeHead, HandlerAt, MT!KernelAt, Types, Idle
<1>2. HasHead(head) /\ handler.fd \in {Closed, head.fd} /\ head \in PacketKeys
  BY <1>0, <1>1 DEF HandlerKnown, HandlerRecords
<1>3. head.fd >= 0 /\ head.fd \in Fds
  BY <1>2, HeadsKnown DEF HasHead, Heads
<1>4. MT!SendEvent(head, handler.packet)
  BY <1>0, <1>2, HeadHasWaiter DEF WakeHead
<1>5. /\ frame' = "send" /\ running' # MT!Kernel /\ d_waitstatus' = MT!Answer
      /\ \A t \in MT!Tids : ~Returning(t)
      /\ \A k : HasHead(k)' <=> HasHead(k) /\ k # head
      /\ ~MT!HasWaiter(head)'
  BY <1>4, WokenByEvent
<1>6. ClosingKeys = {}
  BY <1>1, <1>5, NothingClosing
<1>7. CASE handler.fd = Closed
  <2>1. handler' = Idle
    BY <1>1, <1>7
  <2>2. HandlerKnown' /\ ClosingKeys' = {} /\ \A k : ~Bereft(k)'
    BY <1>5, <2>1 DEF HandlerKnown, ClosingKeys, Bereft, Idle, MT!Answer, MT!TimeOut
  <2>3. \A k \in PacketKeys : Owner(k)' <=> Owner(k)
    BY <1>0, <1>1, <1>5, <1>6, <1>7, <2>2 DEF Owner, Bereft
  <2> QED
    BY <1>1, <2>2, <2>3, OwnedStays
<1>8. CASE handler.fd # Closed
  <2>1. handler.fd = head.fd
    BY <1>2, <1>8
  <2>2. handler'.at = "close" /\ handler'.key = head /\ handler'.fd = head.fd
    BY <1>0, <1>1, <1>8, <2>1 DEF HandlerRecords
  <2>3. HandlerKnown'
    BY <1>3, <1>5, <2>2 DEF HandlerKnown
  <2>4. ClosingKeys' = {head}
    BY <1>2, <1>3, <1>5, <2>2 DEF ClosingKeys, MT!Answer, MT!TimeOut
  <2>5. \A k \in PacketKeys : Owner(k)' <=> Owner(k)
    BY <1>0, <1>2, <1>5, <1>6, <1>8, <2>2, <2>4 DEF Owner, Bereft
  <2> QED
    BY <1>1, <1>5, <2>3, <2>4, <2>5, OwnedStays
<1> QED
  BY <1>7, <1>8

\* The handler closes the socket of the head it has woken.
LEMMA CloseOwned ==
  ASSUME SchedulerInv, Types, HandlerKnown, Owned, CloseSocket
  PROVE  HandlerKnown' /\ Owned'
<1>0. PICK head : head = handler.key
  OBVIOUS
<1>1. /\ handler.at = "close" /\ handler \in HandlerRecords /\ running = MT!Kernel
      /\ ReturnSocket(handler.fd) /\ handler' = Idle /\ UNCHANGED mtVars
  BY DEF CloseSocket, HandlerAt, MT!KernelAt, Types, Idle
<1>2. head \in PacketKeys /\ head.fd \in Fds /\ handler.fd = head.fd
  BY <1>0, <1>1 DEF HandlerKnown, HandlerRecords
<1>3. \A t \in MT!Tids : ~Returning(t) /\ ~Returning(t)'
  BY <1>1, NoneReturning DEF MT!Tids, MT!Kernel, mtVars, Returning
<1>4. ClosingKeys = {head} /\ ClosingKeys' = {}
  <2>1. head.fd >= 0
    <3>1. head.fd \in Nat
      BY <1>2, KeyKinds
    <3> QED
      BY <3>1
  <2>2. handler.at = "close" /\ \A t \in MT!Tids : ~Returning(t)
    BY <1>1, <1>3
  <2>3. \A key \in PacketKeys : key \in ClosingKeys <=> key = head
    BY <1>0, <2>1, <2>2 DEF ClosingKeys
  <2>4. ClosingKeys = {head}
    BY <1>2, <2>3 DEF ClosingKeys
  <2>5. ClosingKeys' = {}
    BY <1>1, <1>3 DEF ClosingKeys, Idle
  <2> QED
    BY <2>4, <2>5
<1>5. ~HasHead(head)
  BY <1>4, HeadHasWaiter DEF Owned
<1>6. \A k : HasHead(k)' <=> HasHead(k)
  BY <1>1 DEF mtVars, HasHead, Heads, QueryWaiters
<1>7. \A k : ~Bereft(k) /\ ~Bereft(k)'
  BY <1>1 DEF Bereft, Idle
<1>8. \A k \in PacketKeys : Owner(k)' <=> Owner(k) /\ k # head
  BY <1>4, <1>5, <1>6, <1>7 DEF Owner
<1>9. Owner(head)
  BY <1>4 DEF Owner
<1>10. HandlerKnown'
  BY <1>1 DEF HandlerKnown, Idle
<1> QED
  BY <1>1, <1>2, <1>4, <1>8, <1>9, <1>10, SocketGoes

\* A socket that fails is closed before its head is told; every open socket has a head
\* while the kernel polls.
LEMMA ErrorOwned ==
  ASSUME SchedulerInv, Types, HandlerKnown, Owned, NEW fd \in Open, RecvError(fd)
  PROVE  HandlerKnown' /\ Owned'
<1>0. PICK key : key = watch[fd]
  OBVIOUS
<1>1. /\ handler.at = "idle" /\ running = MT!Kernel /\ frame = "poll"
      /\ ReturnSocket(fd) /\ UNCHANGED mtVars
  BY DEF RecvError, HandlerAt, MT!KernelAt
<1>2. key \in PacketKeys /\ key.fd = fd /\ Owner(key)
  BY <1>0 DEF Open, Types, Owned
<1>3. \A t \in MT!Tids : ~Returning(t) /\ ~Returning(t)'
  BY <1>1, NoneReturning DEF MT!Tids, MT!Kernel, mtVars, Returning
<1>4. ClosingKeys = {} /\ \A k : ~Bereft(k)
  BY <1>1, <1>3, NothingClosing DEF Bereft
<1>5. HasHead(key)
  BY <1>2, <1>4 DEF Owner
<1>6. handler'.at = "resend" /\ handler'.key = key /\ handler'.fd = Closed
  <2>1. Find(key) # {}
    BY <1>5 DEF HasHead, Heads, QueryWaiters, Find
  <2>2. PICK w \in Find(key) : \E packet : DoResends(w, packet, Closed)
    BY <1>0, <2>1 DEF RecvError
  <2> QED
    BY <2>2 DEF Find, DoResends, Deliver
<1>7. \A k : HasHead(k)' <=> HasHead(k)
  BY <1>1 DEF mtVars, HasHead, Heads, QueryWaiters
<1>8. ClosingKeys' = {} /\ \A k : Bereft(k)' <=> k = key
  BY <1>3, <1>6 DEF ClosingKeys, Bereft
<1>9. \A k \in PacketKeys : Owner(k)' <=> Owner(k) /\ k # key
  BY <1>4, <1>7, <1>8 DEF Owner
<1>10. HandlerKnown'
  BY <1>1, <1>3, <1>5, <1>6, <1>7 DEF HandlerKnown, mtVars
<1> QED
  BY <1>1, <1>2, <1>8, <1>9, <1>10, SocketGoes

\* A packet is for the head of the socket it came in on, or for nobody.
LEMMA PacketOwned ==
  ASSUME SchedulerInv, Types, HandlerKnown, Owned, NEW fd \in Open,
         \E id \in Ids : \/ RecvNameless(fd, id)
                         \/ \E q \in Questions : RecvAnswer(fd, q, id)
  PROVE  HandlerKnown' /\ Owned'
<1>1. /\ handler.at = "idle" /\ running = MT!Kernel /\ frame = "poll"
      /\ UNCHANGED mtVars /\ UNCHANGED <<watch, d_numsocks>>
  BY DEF RecvNameless, RecvAnswer, HandlerAt, MT!KernelAt
<1>2. UNCHANGED <<running, frame, pc, waiter, d_waiters, d_waitstatus>>
  BY <1>1 DEF mtVars
<1>3. \/ UNCHANGED handler
      \/ \E q, id, packet, todo :
           \E w \in Find([q |-> q, fd |-> fd, id |-> id]) : Deliver(w, packet, todo, fd)
  <2>1. ASSUME NEW id \in Ids, NEW q \in Questions, RecvAnswer(fd, q, id)
        PROVE  \/ UNCHANGED handler
               \/ \E packet, todo : \E w \in Find([q |-> q, fd |-> fd, id |-> id]) :
                    Deliver(w, packet, todo, fd)
    BY <2>1 DEF RecvAnswer, DoResends
  <2>2. ASSUME NEW id \in Ids, RecvNameless(fd, id)
        PROVE  \/ UNCHANGED handler
               \/ \E q, packet, todo : \E w \in Find([q |-> q, fd |-> fd, id |-> id]) :
                    Deliver(w, packet, todo, fd)
    BY <2>2 DEF RecvNameless
  <2> QED
    BY <2>1, <2>2
<1>4. CASE UNCHANGED handler
  BY <1>1, <1>2, <1>4, Untouched
<1>5. ASSUME NEW q, NEW id, NEW packet, NEW todo,
             NEW w \in Find([q |-> q, fd |-> fd, id |-> id]), Deliver(w, packet, todo, fd)
      PROVE  HandlerKnown' /\ Owned'
  <2>1. w \in d_waiters /\ w.key = [q |-> q, fd |-> fd, id |-> id] /\ fd \in Fds
    BY DEF Find, Open
  <2>2. w.key.fd = fd /\ IsQuery(w.key)
    BY <2>1 DEF IsQuery
  <2>3. fd >= 0
    <3>1. fd \in Nat
      BY <2>1, KeyKinds
    <3> QED
      BY <3>1
  <2>4. HasHead(w.key)
    BY <2>1, <2>2, <2>3 DEF HasHead, Heads, QueryWaiters
  <2>5. handler'.at = "resend" /\ handler'.key = w.key /\ handler'.fd = fd
    BY <1>5 DEF Deliver
  <2>6. \A t \in MT!Tids : ~Returning(t) /\ ~Returning(t)'
    BY <1>1, <1>2, NoneReturning DEF MT!Tids, MT!Kernel, Returning
  <2>7. \A k : HasHead(k)' <=> HasHead(k)
    BY <1>2 DEF HasHead, Heads, QueryWaiters
  <2>8. ClosingKeys = {} /\ ClosingKeys' = {}
    BY <1>1, <2>5, <2>6 DEF ClosingKeys
  <2>9. \A k : ~Bereft(k) /\ ~Bereft(k)'
    BY <1>1, <2>1, <2>5 DEF Bereft
  <2>10. \A k \in PacketKeys : Owner(k)' <=> Owner(k)
    BY <2>7, <2>8, <2>9 DEF Owner
  <2>11. HandlerKnown'
    BY <1>1, <1>2, <2>2, <2>4, <2>5, <2>6, <2>7 DEF HandlerKnown
  <2> QED
    BY <1>1, <2>8, <2>10, <2>11, OwnedStays
<1> QED
  BY <1>3, <1>4, <1>5

\* A request of its own opens the socket it waits with.
LEMMA AnewOwned ==
  ASSUME SchedulerInv, Types, HandlerKnown, Owned, NEW t \in MT!Tids, NEW q \in Questions,
         NEW ecs \in Subnets, NEW id \in Ids, NEW fd \in Fds, NEW wait \in WaitTimes,
         AskAnew(t, q, ecs, id, fd, wait)
  PROVE  HandlerKnown' /\ Owned'
<1>0. PICK key : key = [q |-> q, fd |-> fd, id |-> id]
  OBVIOUS
<1>1. key \in PacketKeys /\ key.fd = fd /\ IsQuery(key)
  BY <1>0 DEF PacketKeys, IsQuery
<1>2. fd >= 0
  <2>1. fd \in Nat
    BY KeyKinds
  <2> QED
    BY <2>1
<1>3. watch[fd] = Closed /\ UNCHANGED handler
  BY DEF AskAnew
<1>4. CASE MT!WaitEventError(t, key) /\ UNCHANGED <<watch, d_numsocks>>
  <2>1. UNCHANGED <<running, frame, pc, waiter, d_waiters, d_waitstatus>>
    BY <1>4 DEF MT!WaitEventError, MT!handover
  <2> QED
    BY <1>3, <1>4, <2>1, Untouched
<1>5. CASE /\ MT!WaitEvent(t, key, wait) /\ ~MT!HasWaiter(key)
           /\ watch' = [watch EXCEPT ![fd] = key] /\ d_numsocks' = d_numsocks + 1
  <2>1. /\ running = t /\ pc[t] = "active" /\ running' = MT!Kernel
        /\ frame = "send" => frame' = "poll"
        /\ pc' = [pc EXCEPT ![t] = "waiting"] /\ UNCHANGED d_waitstatus
    BY <1>5, Waits
  <2>2. PICK w : w.key = key /\ d_waiters' = d_waiters \cup {w}
                 /\ waiter' = [waiter EXCEPT ![t] = w]
    BY <1>5, Waits
  <2>3. Heads' = Heads \cup {w}
    BY <1>1, <1>2, <2>2 DEF Heads, QueryWaiters
  <2>4. \A k : HasHead(k)' <=> HasHead(k) \/ k = key
    BY <2>2, <2>3 DEF HasHead
  <2>5. \A u \in MT!Tids : ~Returning(u) /\ ~Returning(u)'
    BY <2>1, NoneReturning DEF Returning, SchedulerInv, MT!TypeOK
  <2>6. ClosingKeys' = ClosingKeys
    BY <1>3, <2>5 DEF ClosingKeys
  <2>7. ~Bereft(key) /\ \A k : Bereft(k)' <=> Bereft(k)
    BY <1>3, <1>5, HeadHasWaiter DEF Bereft, HandlerKnown
  <2>8. \A k \in PacketKeys : Owner(k)' <=> Owner(k) \/ k = key
    BY <2>4, <2>6, <2>7 DEF Owner
  <2>9. key \notin ClosingKeys
    BY <1>1, <1>3 DEF Owned, Owner
  <2>10. \A k \in ClosingKeys' : ~MT!HasWaiter(k)'
    BY <2>2, <2>6, <2>9 DEF Owned, MT!HasWaiter, ClosingKeys
  <2>11. HandlerKnown'
    <3>1. running # MT!Kernel
      BY <2>1 DEF MT!Tids, MT!Kernel
    <3>2. \A v \in Heads : v \in Heads'
      BY <2>3
    <3> QED
      BY <1>3, <2>1, <2>5, <3>1, <3>2, HandlerStays
  <2> QED
    BY <1>1, <1>3, <1>5, <2>8, <2>10, <2>11, SocketComes
<1> QED
  BY <1>0, <1>4, <1>5 DEF AskAnew

\* What an mthread does that returned from its wait: it closes the socket itself when
\* the wait has timed out, and leaves it to the handler otherwise.
LEMMA ReceiveOwned ==
  ASSUME SchedulerInv, Types, AskedMatch, HandlerKnown, Owned, NEW t \in MT!Tids, Receive(t)
  PROVE  HandlerKnown' /\ Owned'
<1>0. PICK key : key = waiter[t].key
  OBVIOUS
<1>1. /\ running = t /\ Returning(t) /\ pc' = [pc EXCEPT ![t] = "active"]
      /\ UNCHANGED <<running, frame, d_waiters, waiter, d_waitstatus, handler>>
      /\ asked[t].state = "waiting"
  BY DEF Receive, MT!WaitReturn, Returning
<1>2. d_eventkey = key /\ d_waitstatus \in {MT!TimeOut, MT!Answer}
  BY <1>0, <1>1 DEF SchedulerInv, MT!Handshake, Returning, MT!Tids, MT!Kernel
<1>3. key \in PacketKeys
  BY <1>0, <1>1 DEF AskedMatch, Returning
<1>4. Heads' = Heads /\ \A k : HasHead(k)' <=> HasHead(k)
  BY <1>1 DEF HasHead, Heads, QueryWaiters
<1>5. \A k : MT!HasWaiter(k)' <=> MT!HasWaiter(k)
  BY <1>1 DEF MT!HasWaiter
<1>6. \A u \in MT!Tids : (Returning(u) <=> u = t) /\ ~Returning(u)'
  BY <1>1, NoneReturning DEF Returning, SchedulerInv, MT!TypeOK
<1>7. CASE d_waitstatus = MT!TimeOut /\ key.fd >= 0
  <2>1. ReturnSocket(key.fd)
    BY <1>2, <1>7 DEF Receive, Closes, MT!TimeOut, MT!Answer
  <2>2. handler.at = "idle"
    BY <1>1, <1>7 DEF HandlerKnown, MT!TimeOut, MT!Answer
  <2>3. \A k \in PacketKeys : k \in ClosingKeys <=> k = key
    BY <1>0, <1>1, <1>6, <1>7, <2>2 DEF ClosingKeys
  <2>4. ClosingKeys' = {}
    BY <1>1, <1>6, <2>2 DEF ClosingKeys
  <2>5. ~HasHead(key) /\ \A k : ~Bereft(k) /\ ~Bereft(k)'
    BY <1>1, <1>3, <2>2, <2>3, HeadHasWaiter DEF Owned, Bereft
  <2>6. \A k \in PacketKeys : Owner(k)' <=> Owner(k) /\ k # key
    BY <1>4, <2>3, <2>4, <2>5 DEF Owner
  <2>7. Owner(key)
    BY <1>3, <2>3 DEF Owner
  <2>8. HandlerKnown'
    BY <1>1, <2>2 DEF HandlerKnown
  <2> QED
    BY <1>3, <2>1, <2>4, <2>6, <2>7, <2>8, SocketGoes
<1>8. CASE ~(d_waitstatus = MT!TimeOut /\ key.fd >= 0)
  <2>1. UNCHANGED <<watch, d_numsocks>>
    <3>1. CASE d_waitstatus = MT!Answer
      BY <3>1 DEF Receive, Closes, Verdict
    <3>2. CASE ~(key.fd >= 0)
      BY <1>2, <3>2 DEF Receive, Closes
    <3> QED
      BY <1>2, <1>8, <3>1, <3>2
  <2>2. \A u \in MT!Tids : u # t => pc'[u] = pc[u] /\ waiter'[u] = waiter[u]
    BY <1>1 DEF SchedulerInv, MT!TypeOK
  <2>3. pc'[t] # "returning"
    BY <1>6 DEF Returning
  <2> QED
    BY <1>0, <1>1, <1>4, <1>5, <1>8, <2>1, <2>2, <2>3, MThreadKeeps
<1> QED
  BY <1>7, <1>8

\* A wait without a socket of its own, in a chain or asleep.
LEMMA WaitOwned ==
  ASSUME SchedulerInv, Types, HandlerKnown, Owned, NEW t \in MT!Tids, NEW key,
         NEW timeout \in Nat, MT!WaitEvent(t, key, timeout),
         ~IsQuery(key) \/ ~(key.fd >= 0), UNCHANGED <<watch, d_numsocks, handler>>
  PROVE  HandlerKnown' /\ Owned'
<1>1. /\ running = t /\ pc[t] = "active" /\ running' = MT!Kernel
      /\ frame = "send" => frame' = "poll"
      /\ pc' = [pc EXCEPT ![t] = "waiting"] /\ UNCHANGED d_waitstatus
  BY Waits
<1>2. PICK w : w.key = key /\ d_waiters' = d_waiters \cup {w}
               /\ waiter' = [waiter EXCEPT ![t] = w]
  BY Waits
<1>3. Heads' = Heads
  BY <1>2, HeadsStay
<1>4. pc'[t] # "returning" /\ ~Returning(t)
      /\ \A u \in MT!Tids : u # t => pc'[u] = pc[u] /\ waiter'[u] = waiter[u]
  BY <1>1, <1>2 DEF Returning, SchedulerInv, MT!TypeOK
<1>5. \A k \in PacketKeys : k.fd >= 0 /\ MT!HasWaiter(k)' => MT!HasWaiter(k)
  BY <1>2, KeyKinds DEF MT!HasWaiter
<1>6. running # MT!Kernel
  BY <1>1 DEF MT!Tids, MT!Kernel
<1> QED
  BY <1>1, <1>3, <1>4, <1>5, <1>6, MThreadKeeps

LEMMA OwnedNext ==
  ASSUME SchedulerInv, Basics, HandlerKnown, Owned, [Next]_vars
  PROVE  HandlerKnown' /\ Owned'
<1>0. Types /\ AskedMatch /\ ChainCounted
  BY DEF Basics
<1>1. CASE UNCHANGED vars \/ Tick
  <2>1. UNCHANGED <<running, frame, pc, waiter, d_waiters, d_waitstatus,
                    watch, d_numsocks, handler>>
    BY <1>1 DEF vars, mtVars, udpVars, Tick, MT!Tick, MT!handover
  <2> QED
    BY <1>0, <2>1, Untouched
<1>2. CASE MainLoop
  BY <1>0, <1>2, LoopOwned
<1>3. CASE ResendOne
  BY <1>0, <1>3, ResendOwned
<1>4. CASE WakeHead
  BY <1>0, <1>4, WakeHeadOwned
<1>5. CASE CloseSocket
  BY <1>0, <1>5, CloseOwned
<1>6. ASSUME NEW fd \in Open, RecvError(fd)
      PROVE  HandlerKnown' /\ Owned'
  BY <1>0, <1>6, ErrorOwned
<1>7. ASSUME NEW fd \in Open, \E id \in Ids : \/ RecvNameless(fd, id)
                                              \/ \E q \in Questions : RecvAnswer(fd, q, id)
      PROVE  HandlerKnown' /\ Owned'
  BY <1>0, <1>7, PacketOwned
<1>8. ASSUME NEW t \in MT!Tids, NEW q \in Questions, NEW ecs \in Subnets,
             \/ AskSendFails(t, q, ecs)
             \/ \E wait \in WaitTimes : AskChainLimit(t, q, ecs, wait)
      PROVE  HandlerKnown' /\ Owned'
  <2>1. UNCHANGED <<running, frame, pc, waiter, d_waiters, d_waitstatus,
                    watch, d_numsocks, handler>>
    BY <1>8 DEF AskSendFails, AskChainLimit, mtVars
  <2> QED
    BY <1>0, <2>1, Untouched
<1>9. ASSUME NEW t \in MT!Tids, NEW q \in Questions, NEW ecs \in Subnets,
             NEW wait \in WaitTimes, NEW id \in Ids, AskChained(t, q, ecs, id, wait)
      PROVE  HandlerKnown' /\ Owned'
  <2>1. UNCHANGED <<watch, d_numsocks, handler>>
    BY <1>0, <1>9, ChainedSteps
  <2>2. PICK fd \in ChainFds : LET key == [q |-> q, fd |-> fd, id |-> id]
                               IN  MT!WaitEventError(t, key) \/ MT!WaitEvent(t, key, wait)
    BY <1>0, <1>9, ChainedSteps DEF ChainsOnto
  <2> DEFINE key == [q |-> q, fd |-> fd, id |-> id]
  <2>3. CASE MT!WaitEventError(t, key)
    <3>1. UNCHANGED <<running, frame, pc, waiter, d_waiters, d_waitstatus>>
      BY <2>3 DEF MT!WaitEventError, MT!handover
    <3> QED
      BY <1>0, <2>1, <3>1, Untouched
  <2>4. CASE MT!WaitEvent(t, key, wait)
    <3>1. key.fd = fd /\ ~(fd >= 0)
      BY KeyKinds
    <3> QED
      BY <1>0, <2>1, <2>4, <3>1, WaitOwned
  <2> QED
    BY <2>2, <2>3, <2>4
<1>10. ASSUME NEW t \in MT!Tids, NEW q \in Questions, NEW ecs \in Subnets,
              NEW wait \in WaitTimes, NEW id \in Ids, NEW fd \in Fds,
              AskAnew(t, q, ecs, id, fd, wait)
       PROVE  HandlerKnown' /\ Owned'
  BY <1>0, <1>10, AnewOwned
<1>11. ASSUME NEW t \in MT!Tids, Receive(t)
       PROVE  HandlerKnown' /\ Owned'
  BY <1>0, <1>11, ReceiveOwned
<1>12. ASSUME NEW t \in MT!Tids, SleepReturn(t)
       PROVE  HandlerKnown' /\ Owned'
  <2>1. /\ Returning(t) /\ asked[t].state = "none" /\ pc' = [pc EXCEPT ![t] = "active"]
        /\ UNCHANGED <<running, frame, d_waiters, waiter, d_waitstatus, watch, d_numsocks, handler>>
    BY <1>12 DEF SleepReturn, MT!WaitReturn, udpVars, Returning
  <2>2. waiter[t].key \notin PacketKeys
    BY <1>0, <2>1, KeyKinds DEF AskedMatch, Returning
  <2>3. pc'[t] # "returning" /\ \A u \in MT!Tids : u # t => pc'[u] = pc[u]
    BY <2>1 DEF SchedulerInv, MT!TypeOK
  <2>4. Heads' = Heads /\ \A k : MT!HasWaiter(k)' <=> MT!HasWaiter(k)
    BY <2>1 DEF Heads, QueryWaiters, MT!HasWaiter
  <2> QED
    BY <1>0, <2>1, <2>2, <2>3, <2>4, MThreadKeeps
<1>13. ASSUME NEW t \in MT!Tids, Finish(t)
       PROVE  HandlerKnown' /\ Owned'
  <2>1. /\ running = t /\ pc[t] = "active" /\ pc' = [pc EXCEPT ![t] = "zombie"]
        /\ running' = MT!Kernel
        /\ frame = "send" => frame' = "poll"
        /\ UNCHANGED <<d_waiters, waiter, d_waitstatus, watch, d_numsocks, handler>>
    BY <1>13 DEF Finish, MT!Finish, MT!Active, MT!SwitchToKernel, MT!handover
  <2>2. running # MT!Kernel
    BY <2>1 DEF MT!Tids, MT!Kernel
  <2>3. ~Returning(t) /\ pc'[t] # "returning" /\ \A u \in MT!Tids : u # t => pc'[u] = pc[u]
    BY <2>1 DEF Returning, SchedulerInv, MT!TypeOK
  <2>4. Heads' = Heads /\ \A k : MT!HasWaiter(k)' <=> MT!HasWaiter(k)
    BY <2>1 DEF Heads, QueryWaiters, MT!HasWaiter
  <2> QED
    BY <1>0, <2>1, <2>2, <2>3, <2>4, MThreadKeeps
<1>14. ASSUME NEW t \in MT!Tids, NEW jitter \in WaitTimes \cup {0}, Sleep(t, jitter)
       PROVE  HandlerKnown' /\ Owned'
  <2>1. /\ MT!WaitEvent(t, [sleeper |-> t], jitter) /\ jitter \in Nat
        /\ UNCHANGED <<watch, d_numsocks, handler>>
    BY <1>14 DEF Sleep
  <2>2. ~IsQuery([sleeper |-> t])
    BY DEF IsQuery
  <2> QED
    BY <1>0, <2>1, <2>2, WaitOwned
<1> QED
  BY <1>1, <1>2, <1>3, <1>4, <1>5, <1>6, <1>7, <1>8, <1>9, <1>10, <1>11, <1>12, <1>13, <1>14,
     Steps

-----------------------------------------------------------------------------
(* Chains *)

Leads(t)   == pc[t] = "waiting" /\ asked[t].state = "waiting" /\ waiter[t].key.fd >= 0
Follows(t) == pc[t] = "waiting" /\ asked[t].state = "waiting" /\ waiter[t].key.fd < 0
Place(t)   == <<waiter[t].key.fd, waiter[t].key.id>>

\* Each head has a number of its own, the next one has not been given out.
Numbered ==
  /\ \A t \in MT!Tids : asked[t].state = "waiting" => asked[t].head < asks
  /\ \A t, u \in MT!Tids : Leads(t) /\ Leads(u) /\ asked[t].head = asked[u].head => t = u

\* The head knows who is chained onto it.
InChain ==
  \A t, u \in MT!Tids :
    Follows(t) /\ Leads(u) /\ asked[t].head = asked[u].head
      => asked[t].q = asked[u].q /\ Place(t) \in pident[u].chain

\* The head u that is being served and its chain: closed, and who is still in it will have
\* its turn.
ServedBy(u) ==
  /\ Leads(u) /\ waiter[u].key = handler.key /\ asked[u].head = handler.head
  /\ handler.packet.kind # "nameless" =>
       /\ pident[u].closed
       /\ \A t \in MT!Tids : Follows(t) /\ asked[t].head = handler.head
            => asked[t].q = handler.key.q /\ Place(t) \in handler.todo

Resending == handler.at = "resend" => \E u \in MT!Tids : ServedBy(u)

Served == Numbered /\ InChain /\ Resending

\* Steps after which nobody waits who did not before.
LEMMA ChainsStay ==
  ASSUME Types, Numbered, InChain, asks' \in Nat, asks' >= asks,
         \A t \in MT!Tids : asked'[t].state = "waiting" => asked'[t] = asked[t],
         \A t \in MT!Tids : pc'[t] = "waiting" /\ asked'[t].state = "waiting"
           => pc[t] = "waiting" /\ waiter'[t] = waiter[t]
              /\ pident[t].chain \subseteq pident'[t].chain
  PROVE  Numbered' /\ InChain'
<1>1. \A t \in MT!Tids : (Leads(t)' => Leads(t)) /\ (Follows(t)' => Follows(t))
  BY DEF Leads, Follows
<1>2. ASSUME NEW t \in MT!Tids, asked'[t].state = "waiting"
      PROVE  asked'[t].head < asks'
  <2>1. asked[t] \in AskedRecords /\ asked[t].state = "waiting"
    BY <1>2 DEF Types
  <2>2. asked[t].head \in Nat /\ asks \in Nat /\ asked[t].head < asks
    BY <2>1 DEF Types, AskedRecords, Numbered
  <2> QED
    BY <1>2, <2>2
<1>3. \A t, u \in MT!Tids : Leads(t)' /\ Leads(u)' /\ asked'[t].head = asked'[u].head => t = u
  BY <1>1 DEF Numbered, Leads
<1>4. ASSUME NEW t \in MT!Tids, NEW u \in MT!Tids, Follows(t)', Leads(u)',
             asked'[t].head = asked'[u].head
      PROVE  asked'[t].q = asked'[u].q /\ Place(t)' \in pident'[u].chain
  <2>1. /\ asked'[t] = asked[t] /\ asked'[u] = asked[u] /\ waiter'[t] = waiter[t]
        /\ pident[u].chain \subseteq pident'[u].chain
    BY <1>4 DEF Follows, Leads
  <2>2. asked[t].q = asked[u].q /\ Place(t) \in pident[u].chain
    BY <1>1, <1>4, <2>1 DEF InChain
  <2> QED
    BY <2>1, <2>2 DEF Place
<1> QED
  BY <1>2, <1>3, <1>4 DEF Numbered, InChain

\* The handler is not touched, nor is the head it serves.
LEMMA ResendingStays ==
  ASSUME Resending, UNCHANGED handler,
         \A u \in MT!Tids : Leads(u) =>
           /\ pc'[u] = pc[u] /\ waiter'[u] = waiter[u] /\ asked'[u] = asked[u]
           /\ pident[u].closed => pident'[u].closed,
         \A t \in MT!Tids : Follows(t)' /\ asked'[t].head = handler.head
           /\ handler.at = "resend" /\ handler.packet.kind # "nameless"
           => pc[t] = "waiting" /\ waiter'[t] = waiter[t] /\ asked'[t] = asked[t]
  PROVE  Resending'
<1> SUFFICES ASSUME handler.at = "resend" PROVE (\E u \in MT!Tids : ServedBy(u))'
  BY DEF Resending
<1>1. PICK u \in MT!Tids : ServedBy(u)
  BY DEF Resending
<1>2. Leads(u)' /\ waiter'[u] = waiter[u] /\ asked'[u] = asked[u]
  BY <1>1 DEF ServedBy, Leads
<1>3. ASSUME handler.packet.kind # "nameless"
      PROVE  /\ pident'[u].closed
             /\ \A t \in MT!Tids : Follows(t)' /\ asked'[t].head = handler.head
                  => asked'[t].q = handler.key.q /\ Place(t)' \in handler.todo
  <2>1. pident'[u].closed
    BY <1>1, <1>3 DEF ServedBy
  <2>2. ASSUME NEW t \in MT!Tids, Follows(t)', asked'[t].head = handler.head
        PROVE  asked'[t].q = handler.key.q /\ Place(t)' \in handler.todo
    <3>1. pc[t] = "waiting" /\ waiter'[t] = waiter[t] /\ asked'[t] = asked[t]
      BY <1>3, <2>2
    <3>2. Follows(t)
      BY <2>2, <3>1 DEF Follows
    <3> QED
      BY <1>1, <1>3, <2>2, <3>1, <3>2 DEF ServedBy, Place
  <2> QED
    BY <2>1, <2>2
<1> QED
  BY <1>1, <1>2, <1>3 DEF ServedBy

\* An mthread that does not wait for an answer when it is done; a chain may have grown.
LEMMA MThreadServed ==
  ASSUME Types, Served, NEW t \in MT!Tids, pc[t] # "waiting", asked'[t].state # "waiting",
         UNCHANGED handler, asks' \in Nat, asks' >= asks,
         \A u \in MT!Tids : u # t =>
           /\ pc'[u] = pc[u] /\ waiter'[u] = waiter[u] /\ asked'[u] = asked[u]
           /\ pident[u].chain \subseteq pident'[u].chain
           /\ pident[u].closed => pident'[u].closed
  PROVE  Served'
<1>1. Numbered' /\ InChain'
  BY ChainsStay DEF Served
<1>2. Resending'
  <2>1. \A u \in MT!Tids : Leads(u) \/ Follows(u)' => u # t
    BY DEF Leads, Follows
  <2>2. \A u \in MT!Tids : Follows(u)' /\ u # t => pc[u] = "waiting"
    BY DEF Follows
  <2> QED
    BY <2>1, <2>2, ResendingStays DEF Served
<1> QED
  BY <1>1, <1>2 DEF Served

\* Some are woken.
LEMMA WokenChains ==
  ASSUME Types, Served, UNCHANGED <<waiter, asked, asks, pident>>,
         \A t \in MT!Tids : pc'[t] = "waiting" => pc[t] = "waiting"
  PROVE  Numbered' /\ InChain'
  BY ChainsStay DEF Served, Types

\* doResends: the chain is closed, and all of it gets a turn.
LEMMA DeliverServed ==
  ASSUME SchedulerInv, Types, AskedMatch, Served, NEW w \in Heads, NEW packet, NEW closeFd,
         NEW todo, Deliver(w, packet, todo, closeFd), UNCHANGED <<mtVars, asked, asks>>,
         packet.kind # "nameless"
           => pident'[w.tid].closed /\ todo = pident[w.tid].chain
  PROVE  Resending'
<1> DEFINE u == w.tid
<1>1. /\ u \in MT!Tids /\ pc[u] = "waiting" /\ waiter[u] = w /\ w.key \in PacketKeys
      /\ w.key.fd >= 0
  BY HeadsKnown DEF Heads
<1>2. asked[u].state = "waiting"
  BY <1>1, KeyKinds DEF AskedMatch
<1>3. Leads(u)
  BY <1>1, <1>2 DEF Leads
<1>4. /\ handler'.at = "resend" /\ handler'.key = w.key /\ handler'.packet = packet
      /\ handler'.todo = todo /\ handler'.head = asked[u].head
  BY DEF Deliver
<1>5. UNCHANGED <<pc, waiter, asked>>
  BY DEF mtVars
<1>6. asked[u].q = w.key.q
  BY <1>1, <1>2 DEF AskedMatch
<1>7. ASSUME packet.kind # "nameless"
      PROVE  /\ pident'[u].closed
             /\ \A t \in MT!Tids : Follows(t) /\ asked[t].head = asked[u].head
                  => asked[t].q = w.key.q /\ Place(t) \in todo
  BY <1>1, <1>3, <1>6, <1>7 DEF Served, InChain
<1>8. ServedBy(u)'
  BY <1>1, <1>3, <1>4, <1>5, <1>7 DEF ServedBy, Leads, Follows, Place
<1> QED
  BY <1>1, <1>8 DEF Resending

LEMMA PacketServed ==
  ASSUME SchedulerInv, Types, AskedMatch, HandlerKnown, Owned, Served, NEW fd \in Open,
         \/ RecvError(fd)
         \/ \E id \in Ids : \/ RecvNameless(fd, id)
                            \/ \E q \in Questions : RecvAnswer(fd, q, id)
  PROVE  Served'
<1>1. UNCHANGED <<mtVars, asked, asks>> /\ ChainsKept
  BY PacketsLeave
<1>2. UNCHANGED <<pc, waiter>>
  BY <1>1 DEF mtVars
<1>3. Numbered' /\ InChain'
  BY <1>1, <1>2, ChainsStay DEF Served, ChainsKept, Types
<1>4. handler.at = "idle" /\ fd \in Fds /\ fd \in Nat
  BY KeyKinds DEF RecvError, RecvNameless, RecvAnswer, HandlerAt, Open
<1>5. fd >= 0
  BY <1>4
<1>6. ASSUME NEW q, NEW id, NEW w \in Find([q |-> q, fd |-> fd, id |-> id])
      PROVE  w \in Heads
  BY <1>5 DEF Find, Heads, QueryWaiters, IsQuery
<1>7. ASSUME UNCHANGED handler PROVE Resending'
  BY <1>4, <1>7 DEF Resending
<1>8. ASSUME NEW w \in Heads, NEW packet, NEW closeFd, DoResends(w, packet, closeFd)
      PROVE  Resending'
  <2>1. w.tid \in MT!Tids
    BY HeadsKnown
  <2>2. pident' = [pident EXCEPT ![w.tid].closed = TRUE]
        /\ Deliver(w, packet, pident[w.tid].chain, closeFd)
    BY <1>8 DEF DoResends
  <2>3. pident'[w.tid].closed
    <3>1. pident[w.tid] \in Pidents /\ pident'[w.tid] = [pident[w.tid] EXCEPT !.closed = TRUE]
      BY <2>1, <2>2 DEF Types
    <3> QED
      BY <3>1 DEF Pidents
  <2> QED
    BY <1>1, <2>2, <2>3, DeliverServed
<1>9. CASE RecvError(fd)
  <2>1. watch[fd] \in PacketKeys /\ watch[fd].fd = fd
    BY DEF Open, Types, Owned
  <2>2. \A w \in Find(watch[fd]) : w \in Heads
    BY <1>5, <2>1, KeyKinds DEF Find, Heads, QueryWaiters
  <2>3. \/ UNCHANGED handler
        \/ \E w \in Find(watch[fd]) : \E packet : DoResends(w, packet, Closed)
    BY <1>9 DEF RecvError
  <2> QED
    BY <1>3, <1>7, <1>8, <2>2, <2>3 DEF Served
<1>10. ASSUME NEW id \in Ids, NEW q \in Questions, RecvAnswer(fd, q, id)
       PROVE  Resending'
  <2>1. \/ UNCHANGED handler
        \/ \E w \in Find([q |-> q, fd |-> fd, id |-> id]) : \E packet : DoResends(w, packet, fd)
    BY <1>10 DEF RecvAnswer
  <2> QED
    BY <1>6, <1>7, <1>8, <2>1
<1>11. ASSUME NEW id \in Ids, RecvNameless(fd, id)
       PROVE  Resending'
  <2>1. \/ UNCHANGED handler
        \/ \E q : \E w \in Find([q |-> q, fd |-> fd, id |-> id]) :
             Deliver(w, [kind |-> "nameless", q |-> q, fd |-> fd, id |-> id], {}, fd)
    BY <1>11 DEF RecvNameless
  <2> QED
    BY <1>1, <1>6, <1>7, <2>1, DeliverServed
<1> QED
  BY <1>3, <1>9, <1>10, <1>11 DEF Served

\* One turn of the chain: who waits under the place is woken, so nobody who waits is
\* struck off the list.
LEMMA ResendServed ==
  ASSUME SchedulerInv, Types, AskedMatch, Served, ResendOne
  PROVE  Served'
<1>1. /\ handler.at = "resend" /\ handler \in HandlerRecords /\ UNCHANGED <<asked, asks, pident>>
      /\ running = MT!Kernel
  BY DEF ResendOne, HandlerAt, MT!KernelAt, Types, Idle
<1>2. PICK entry \in handler.todo :
        LET key == [q |-> handler.key.q, fd |-> entry[1], id |-> entry[2]]
        IN  /\ IF Chained(key) = {} THEN UNCHANGED mtVars
               ELSE \E w \in Chained(key) : MT!SendEvent(w.key, handler.packet)
            /\ handler' = [handler EXCEPT !.todo = @ \ {entry}]
  BY DEF ResendOne
<1>3. PICK key : key = [q |-> handler.key.q, fd |-> entry[1], id |-> entry[2]]
  OBVIOUS
<1>4. /\ handler'.at = "resend" /\ handler'.key = handler.key /\ handler'.head = handler.head
      /\ handler'.packet = handler.packet /\ handler'.todo = handler.todo \ {entry}
  BY <1>1, <1>2 DEF HandlerRecords
<1>5. /\ UNCHANGED waiter
      /\ \A t \in MT!Tids : pc'[t] = "waiting" => pc[t] = "waiting" /\ waiter[t].key # key
      /\ \A t \in MT!Tids : pc[t] = "waiting" /\ waiter[t].key # key => pc'[t] = "waiting"
  <2>1. CASE Chained(key) = {} /\ UNCHANGED mtVars
    <3>1. \A t \in MT!Tids : pc[t] = "waiting" => waiter[t].key # key
      BY <2>1 DEF Chained, Find, SchedulerInv, MT!WaitersMatch
    <3> QED
      BY <2>1, <3>1 DEF mtVars
  <2>2. CASE \E w \in Chained(key) : MT!SendEvent(w.key, handler.packet)
    <3>1. MT!SendEvent(key, handler.packet)
      BY <2>2 DEF Chained, Find
    <3>2. PICK w \in d_waiters : /\ w.key = key /\ w.tid \in MT!Tids
                                 /\ pc' = [pc EXCEPT ![w.tid] = "returning"]
      BY <3>1, Sends
    <3>3. UNCHANGED waiter
      BY <3>1, Sends
    <3>4. \A t \in MT!Tids : pc[t] = "waiting" =>
            waiter[t] \in d_waiters /\ (waiter[t].key = key => waiter[t] = w)
      BY <3>2 DEF SchedulerInv, MT!WaitersMatch
    <3>5. waiter[w.tid].key = key
      BY <3>2 DEF SchedulerInv, MT!WaitersMatch
    <3>6. \A t \in MT!Tids : pc[t] = "waiting" /\ waiter[t].key = key => t = w.tid
      BY <3>4 DEF SchedulerInv, MT!WaitersMatch
    <3> QED
      BY <3>2, <3>3, <3>5, <3>6 DEF SchedulerInv, MT!TypeOK
  <2> QED
    BY <1>2, <1>3, <2>1, <2>2
<1>6. Numbered' /\ InChain'
  BY <1>1, <1>5, WokenChains
<1>7. PICK u \in MT!Tids : ServedBy(u)
  BY <1>1 DEF Served, Resending
<1>8. waiter[u].key # key
  <2>1. entry[1] \in ChainFds
    BY <1>1 DEF HandlerRecords
  <2>2. ~(key.fd >= 0)
    BY <1>3, <2>1, KeyKinds
  <2> QED
    BY <1>7, <2>2 DEF ServedBy, Leads
<1>9. Leads(u)'
  BY <1>1, <1>5, <1>7, <1>8 DEF ServedBy, Leads
<1>10. ASSUME NEW t \in MT!Tids, handler.packet.kind # "nameless", Follows(t)',
              asked[t].head = handler.head
       PROVE  asked[t].q = handler.key.q /\ Place(t) \in handler.todo \ {entry}
  <2>1. Follows(t) /\ waiter[t].key # key
    BY <1>1, <1>5, <1>10 DEF Follows
  <2>2. asked[t].q = handler.key.q /\ Place(t) \in handler.todo
    BY <1>7, <1>10, <2>1 DEF ServedBy
  <2>3. waiter[t].key \in PacketKeys /\ waiter[t].key.q = handler.key.q
    BY <2>1, <2>2 DEF AskedMatch, Follows
  <2>4. waiter[t].key = [q |-> waiter[t].key.q, fd |-> waiter[t].key.fd, id |-> waiter[t].key.id]
    BY <2>3 DEF PacketKeys
  <2>5. Place(t) # entry
    BY <1>3, <2>1, <2>3, <2>4 DEF Place
  <2> QED
    BY <2>2, <2>5
<1>11. ServedBy(u)'
  BY <1>1, <1>4, <1>5, <1>7, <1>9, <1>10 DEF ServedBy, Place
<1> QED
  BY <1>6, <1>11 DEF Served, Resending

\* A new member of a chain; of the chain that is being resent there is none, for that
\* one is closed.
LEMMA ChainedServed ==
  ASSUME SchedulerInv, Types, AskedMatch, ChainCounted, Served, NEW t \in MT!Tids,
         NEW q \in Questions, NEW ecs \in Subnets, NEW wait \in WaitTimes, NEW id \in Ids,
         AskChained(t, q, ecs, id, wait)
  PROVE  Served'
<1>1. asks \in Nat /\ asks' = asks + 1 /\ UNCHANGED handler /\ MT!Active(t)
  BY ChainedSteps DEF Types
<1>2. pc[t] = "active"
  BY <1>1 DEF MT!Active
<1>3. PICK head \in ChainHeads(q, ecs) :
        /\ head.tid # t
        /\ NextPlace(pident[head.tid].chain) \in ChainFds
        /\ ChainsOnto(head, t, q, ecs, id, wait)
  BY ChainedSteps
<1>4. PICK u \in MT!Tids : u = head.tid
  BY <1>3, ChainHeadsKnown
<1>5. PICK chain, fd, key :
        /\ u = head.tid /\ chain = pident[u].chain /\ fd = NextPlace(chain)
        /\ key = [q |-> q, fd |-> fd, id |-> id]
  BY <1>4
<1>6. /\ pc[u] = "waiting" /\ waiter[u] = head /\ head.key.fd >= 0 /\ head.key.q = q
      /\ ~pident[u].closed /\ u # t
  BY <1>3, <1>5, ChainHeadsKnown
<1>7. asked[u].state = "waiting" /\ asked[u].q = q
  BY <1>3, <1>6, ChainHeadsKnown, KeyKinds DEF AskedMatch
<1>8. Leads(u)
  BY <1>6, <1>7 DEF Leads
<1>9. fd \in ChainFds /\ key.fd = fd /\ key.id = id /\ key.q = q /\ ~(fd >= 0) /\ fd < 0
  BY <1>3, <1>5, KeyKinds
<1>10. CASE /\ MT!WaitEventError(t, key)
           /\ pident' = [pident EXCEPT ![u].chain = chain \cup {<<fd, id>>}]
           /\ asked' = [asked EXCEPT ![t] = [state |-> "failed"]]
  <2>1. UNCHANGED <<pc, waiter>>
    BY <1>10 DEF MT!WaitEventError
  <2>2. \A v \in MT!Tids : pident[v].chain \subseteq pident'[v].chain
                           /\ (pident[v].closed => pident'[v].closed)
    BY <1>5, <1>10 DEF Types, Pidents
  <2>3. asked'[t].state = "failed"
    BY <1>10 DEF Types
  <2>4. \A v \in MT!Tids : v # t => asked'[v] = asked[v]
    BY <1>10 DEF Types
  <2> QED
    BY <1>1, <1>2, <2>1, <2>2, <2>3, <2>4, MThreadServed
<1>11. CASE /\ MT!WaitEvent(t, key, wait)
            /\ pident' = [pident EXCEPT ![u].chain = chain \cup {<<fd, id>>},
                                        ![t] = NewPident(ecs)]
            /\ asked' = [asked EXCEPT ![t] = Asking(q, ecs, asked[u].head)]
  <2>1. PICK w : /\ w.key = key /\ waiter' = [waiter EXCEPT ![t] = w]
                 /\ pc' = [pc EXCEPT ![t] = "waiting"] /\ now' = now
    <3>1. MT!WaitEvent(t, key, wait)
      BY <1>11
    <3> QED
      BY <3>1, AskWaits
  <2>2. \A v \in MT!Tids : v # t => pc'[v] = pc[v] /\ waiter'[v] = waiter[v]
                                    /\ asked'[v] = asked[v]
    BY <1>11, <2>1 DEF SchedulerInv, MT!TypeOK, Types
  <2>3. /\ pc'[t] = "waiting" /\ waiter'[t].key = key
        /\ asked'[t] = Asking(q, ecs, asked[u].head)
    BY <1>11, <2>1 DEF SchedulerInv, MT!TypeOK, Types
  <2>4. asked'[t].state = "waiting" /\ asked'[t].q = q /\ asked'[t].head = asked[u].head
    BY <2>3 DEF Asking
  <2>5. \A v \in MT!Tids : v # t => pident[v].chain \subseteq pident'[v].chain
                                    /\ (pident[v].closed => pident'[v].closed)
    BY <1>5, <1>11 DEF Types, Pidents
  <2>6. <<fd, id>> \in pident'[u].chain
    BY <1>5, <1>6, <1>11 DEF Types, Pidents
  <2>7. Follows(t)' /\ ~Leads(t)' /\ Place(t)' = <<fd, id>>
    BY <1>9, <2>3, <2>4 DEF Follows, Leads, Place
  <2>8. \A v \in MT!Tids : v # t => /\ Leads(v)' <=> Leads(v)
                                    /\ Follows(v)' <=> Follows(v)
                                    /\ Place(v)' = Place(v)
    BY <2>2 DEF Leads, Follows, Place
  <2>9. Numbered'
    <3>1. ASSUME NEW v \in MT!Tids, asked'[v].state = "waiting"
          PROVE  asked'[v].head < asks'
      <4>1. PICK x \in MT!Tids : asked[x].state = "waiting" /\ asked'[v].head = asked[x].head
        BY <1>7, <2>2, <2>4, <3>1
      <4>2. asked[x].head \in Nat
        BY <4>1 DEF Types, AskedRecords
      <4>3. asked[x].head < asks
        BY <4>1 DEF Served, Numbered
      <4> QED
        BY <1>1, <4>1, <4>2, <4>3
    <3>2. \A v, x \in MT!Tids : Leads(v)' /\ Leads(x)' /\ asked'[v].head = asked'[x].head
            => v = x
      BY <2>2, <2>7, <2>8 DEF Served, Numbered
    <3> QED
      BY <3>1, <3>2 DEF Numbered
  <2>10. InChain'
    <3>1. ASSUME NEW v \in MT!Tids, NEW x \in MT!Tids, Follows(v)', Leads(x)',
                 asked'[v].head = asked'[x].head
          PROVE  asked'[v].q = asked'[x].q /\ Place(v)' \in pident'[x].chain
      <4>1. x # t /\ Leads(x) /\ asked'[x] = asked[x]
        BY <2>2, <2>7, <2>8, <3>1
      <4>2. CASE v = t
        <5>1. x = u
          BY <1>8, <2>4, <3>1, <4>1, <4>2 DEF Served, Numbered
        <5> QED
          BY <1>7, <2>4, <2>6, <2>7, <4>1, <4>2, <5>1
      <4>3. CASE v # t
        BY <2>2, <2>5, <2>8, <3>1, <4>1, <4>3 DEF Served, InChain
      <4> QED
        BY <4>2, <4>3
    <3> QED
      BY <3>1 DEF InChain
  <2>11. Resending'
    <3>1. handler.at = "resend" /\ handler.packet.kind # "nameless"
            => asked[u].head # handler.head
      BY <1>6, <1>8 DEF Served, Resending, ServedBy, Numbered
    <3>2. \A v \in MT!Tids : Leads(v) => v # t
      BY <1>2 DEF Leads
    <3>3. \A v \in MT!Tids : v # t /\ Follows(v)' => pc[v] = "waiting"
      BY <2>2 DEF Follows
    <3> QED
      BY <1>1, <2>2, <2>4, <2>5, <3>1, <3>2, <3>3, ResendingStays DEF Served
  <2> QED
    BY <2>9, <2>10, <2>11 DEF Served
<1> QED
  BY <1>3, <1>5, <1>10, <1>11 DEF ChainsOnto

\* A new head has a new number.
LEMMA AnewServed ==
  ASSUME SchedulerInv, Types, AskedMatch, Served, NEW t \in MT!Tids,
         NEW q \in Questions, NEW ecs \in Subnets, NEW id \in Ids, NEW fd \in Fds,
         NEW wait \in WaitTimes, AskAnew(t, q, ecs, id, fd, wait)
  PROVE  Served'
<1>1. PICK key : key = [q |-> q, fd |-> fd, id |-> id]
  OBVIOUS
<1>2. /\ asks \in Nat /\ asks' = asks + 1 /\ UNCHANGED handler /\ pc[t] = "active"
  BY DEF AskAnew, Starts, MT!Active, Types
<1>3. CASE /\ MT!WaitEventError(t, key) /\ UNCHANGED pident
           /\ asked' = [asked EXCEPT ![t] = [state |-> "failed"]]
  <2>1. UNCHANGED <<pc, waiter>>
    BY <1>3 DEF MT!WaitEventError
  <2>2. asked'[t].state = "failed" /\ \A v \in MT!Tids : v # t => asked'[v] = asked[v]
    BY <1>3 DEF Types
  <2> QED
    BY <1>2, <1>3, <2>1, <2>2, MThreadServed
<1>4. CASE /\ MT!WaitEvent(t, key, wait)
           /\ pident' = [pident EXCEPT ![t] = NewPident(ecs)]
           /\ asked' = [asked EXCEPT ![t] = Asking(q, ecs, asks)]
  <2>1. PICK w : /\ w.key = key /\ waiter' = [waiter EXCEPT ![t] = w]
                 /\ pc' = [pc EXCEPT ![t] = "waiting"] /\ now' = now
    <3>1. MT!WaitEvent(t, key, wait)
      BY <1>4
    <3> QED
      BY <3>1, AskWaits
  <2>2. \A v \in MT!Tids : v # t => /\ pc'[v] = pc[v] /\ waiter'[v] = waiter[v]
                                    /\ asked'[v] = asked[v] /\ pident'[v] = pident[v]
    BY <1>4, <2>1 DEF SchedulerInv, MT!TypeOK, Types
  <2>3. /\ waiter'[t].key = key /\ asked'[t] = Asking(q, ecs, asks)
    BY <1>4, <2>1 DEF SchedulerInv, MT!TypeOK, Types
  <2>4. asked'[t].head = asks
    BY <2>3 DEF Asking
  <2>5. ~Follows(t)'
    <3>1. key.fd \in Nat
      BY <1>1, KeyKinds
    <3>2. ~(key.fd < 0)
      BY <3>1
    <3> QED
      BY <2>3, <3>2 DEF Follows
  <2>6. \A v \in MT!Tids : v # t => /\ Leads(v)' <=> Leads(v)
                                    /\ Follows(v)' <=> Follows(v)
                                    /\ Place(v)' = Place(v)
    BY <2>2 DEF Leads, Follows, Place
  <2>7. \A v \in MT!Tids : v # t /\ asked[v].state = "waiting"
          => asked'[v].head \in Nat /\ asked'[v].head < asks
    <3>1. ASSUME NEW v \in MT!Tids, asked[v].state = "waiting"
          PROVE  asked[v].head \in Nat /\ asked[v].head < asks
      BY <3>1 DEF Types, AskedRecords, Served, Numbered
    <3> QED
      BY <2>2, <3>1
  <2>8. \A v \in MT!Tids : Leads(v) \/ Follows(v) => asked[v].state = "waiting"
    BY DEF Leads, Follows
  <2>9. Numbered'
    <3>1. \A v \in MT!Tids : asked'[v].state = "waiting" => asked'[v].head < asks'
      BY <1>2, <2>2, <2>4, <2>7
    <3>2. \A v, x \in MT!Tids : Leads(v)' /\ Leads(x)' /\ asked'[v].head = asked'[x].head
            => v = x
      <4>1. \A v \in MT!Tids : v # t /\ Leads(v)' => asked'[v].head # asked'[t].head
        BY <1>2, <2>4, <2>6, <2>7, <2>8
      <4>2. \A v, x \in MT!Tids : v # t /\ x # t /\ Leads(v)' /\ Leads(x)'
                                    /\ asked'[v].head = asked'[x].head => v = x
        BY <2>2, <2>6 DEF Served, Numbered
      <4> QED
        BY <4>1, <4>2
    <3> QED
      BY <3>1, <3>2 DEF Numbered
  <2>10. InChain'
    <3>1. ASSUME NEW v \in MT!Tids, NEW x \in MT!Tids, Follows(v)', Leads(x)',
                 asked'[v].head = asked'[x].head
          PROVE  asked'[v].q = asked'[x].q /\ Place(v)' \in pident'[x].chain
      <4>1. v # t /\ Follows(v)
        BY <2>5, <2>6, <3>1
      <4>2. x # t
        BY <1>2, <2>4, <2>7, <2>8, <3>1, <4>1
      <4> QED
        BY <2>2, <2>6, <3>1, <4>1, <4>2 DEF Served, InChain
    <3> QED
      BY <3>1 DEF InChain
  <2>11. Resending'
    <3>1. \A v \in MT!Tids : Leads(v) => v # t
      BY <1>2 DEF Leads
    <3>2. \A v \in MT!Tids : Follows(v)' => v # t /\ pc[v] = "waiting"
      BY <2>2, <2>5 DEF Follows
    <3> QED
      BY <1>2, <2>2, <3>1, <3>2, ResendingStays DEF Served
  <2> QED
    BY <2>9, <2>10, <2>11 DEF Served
<1> QED
  BY <1>1, <1>3, <1>4 DEF AskAnew

LEMMA ServedInit == Init => Served
<1> SUFFICES ASSUME Init PROVE Served
  OBVIOUS
<1>1. handler.at = "idle" /\ \A t \in MT!Tids : asked[t].state = "none"
  BY DEF Init, Idle, NotAsked
<1> QED
  BY <1>1 DEF Served, Numbered, InChain, Resending, Leads, Follows

LEMMA ServedNext ==
  ASSUME SchedulerInv, Basics, HandlerKnown, Owned, Served, [Next]_vars
  PROVE  Served'
<1>0. Types /\ AskedMatch /\ ChainCounted
  BY DEF Basics
<1>1. CASE UNCHANGED vars \/ Tick
  <2>1. UNCHANGED <<pc, waiter, asked, asks, pident, handler>>
    BY <1>1 DEF vars, mtVars, udpVars, Tick, MT!Tick
  <2>2. Numbered' /\ InChain'
    BY <1>0, <2>1, WokenChains
  <2>3. Resending'
    BY <2>1, ResendingStays DEF Served, Follows
  <2> QED
    BY <2>2, <2>3 DEF Served
<1>2. CASE MainLoop
  <2>1. UNCHANGED <<waiter, asked, asks, pident, handler>> /\ handler.at = "idle"
    BY <1>2, Loops DEF udpVars
  <2>2. \A t \in MT!Tids : pc'[t] = "waiting" => pc[t] = "waiting"
    <3>1. running = MT!Kernel
      BY <1>2, Loops
    <3>2. \A t \in MT!Tids : pc[t] # "returning"
      BY <3>1, NoneReturning DEF Returning, MT!Tids, MT!Kernel
    <3>3. CASE \A t \in MT!Tids : pc[t] \in {"waiting", "returning"}
                                    <=> pc'[t] \in {"waiting", "returning"}
      BY <3>2, <3>3
    <3>4. CASE \E w \in d_waiters : pc' = [pc EXCEPT ![w.tid] = "returning"]
      BY <3>4 DEF SchedulerInv, MT!TypeOK
    <3> QED
      BY <1>2, <3>3, <3>4, Loops
  <2> QED
    BY <1>0, <2>1, <2>2, WokenChains DEF Served, Resending
<1>3. CASE ResendOne
  BY <1>0, <1>3, ResendServed
<1>4. CASE WakeHead
  <2>1. handler \in HandlerRecords /\ handler.at = "resend"
        /\ UNCHANGED <<asked, asks, pident>>
        /\ handler' = IF handler.fd = Closed THEN Idle ELSE [handler EXCEPT !.at = "close"]
    BY <1>0, <1>4 DEF WakeHead, HandlerAt, Types, Idle
  <2>2. handler'.at # "resend"
    BY <2>1 DEF Idle, HandlerRecords
  <2>3. UNCHANGED waiter /\ \A t \in MT!Tids : pc'[t] = "waiting" => pc[t] = "waiting"
    <3>1. CASE UNCHANGED mtVars
      BY <3>1 DEF mtVars
    <3>2. CASE MT!SendEvent(handler.key, handler.packet)
      <4>1. UNCHANGED waiter /\ \E w \in d_waiters : pc' = [pc EXCEPT ![w.tid] = "returning"]
        BY <3>2, Sends
      <4> QED
        BY <4>1 DEF SchedulerInv, MT!TypeOK
    <3> QED
      BY <1>4, <3>1, <3>2 DEF WakeHead
  <2> QED
    BY <1>0, <2>1, <2>2, <2>3, WokenChains DEF Served, Resending
<1>5. CASE CloseSocket
  <2>1. UNCHANGED <<pc, waiter, asked, asks, pident>> /\ handler'.at # "resend"
    BY <1>5 DEF CloseSocket, mtVars, Idle
  <2> QED
    BY <1>0, <2>1, WokenChains DEF Served, Resending
<1>6. ASSUME NEW fd \in Open,
             \/ RecvError(fd)
             \/ \E id \in Ids : \/ RecvNameless(fd, id)
                                \/ \E q \in Questions : RecvAnswer(fd, q, id)
      PROVE  Served'
  BY <1>0, <1>6, PacketServed
<1>7. ASSUME NEW t \in MT!Tids, NEW q \in Questions, NEW ecs \in Subnets,
             \/ AskSendFails(t, q, ecs)
             \/ \E wait \in WaitTimes : AskChainLimit(t, q, ecs, wait)
      PROVE  Served'
  <2>1. /\ pc[t] = "active" /\ asks \in Nat /\ asks' = asks + 1
        /\ asked' = [asked EXCEPT ![t] = [state |-> "failed"]]
        /\ UNCHANGED <<pc, waiter, pident, handler>>
    BY <1>0, <1>7 DEF AskSendFails, AskChainLimit, Starts, MT!Active, mtVars, Types
  <2>2. asked'[t].state = "failed" /\ \A v \in MT!Tids : v # t => asked'[v] = asked[v]
    BY <1>0, <2>1 DEF Types
  <2> QED
    BY <1>0, <2>1, <2>2, MThreadServed
<1>8. ASSUME NEW t \in MT!Tids, NEW q \in Questions, NEW ecs \in Subnets,
             NEW wait \in WaitTimes, NEW id \in Ids, AskChained(t, q, ecs, id, wait)
      PROVE  Served'
  BY <1>0, <1>8, ChainedServed
<1>9. ASSUME NEW t \in MT!Tids, NEW q \in Questions, NEW ecs \in Subnets,
             NEW wait \in WaitTimes, NEW id \in Ids, NEW fd \in Fds,
             AskAnew(t, q, ecs, id, fd, wait)
      PROVE  Served'
  BY <1>0, <1>9, AnewServed
<1>10. ASSUME NEW t \in MT!Tids, Receive(t) \/ SleepReturn(t) \/ Finish(t)
       PROVE  Served'
  <2>1. /\ pc[t] \in {"active", "returning"} /\ UNCHANGED <<waiter, handler, asks>>
        /\ \E s : pc' = [pc EXCEPT ![t] = s]
        /\ pident' = pident \/ pident' = [pident EXCEPT ![t] = NoPident]
    BY <1>10 DEF Receive, SleepReturn, Finish, MT!WaitReturn, MT!Finish, MT!Active, udpVars
  <2>2. \A v \in MT!Tids : v # t => pc'[v] = pc[v] /\ pident'[v] = pident[v]
    BY <1>0, <2>1 DEF Types, SchedulerInv, MT!TypeOK
  <2>3. \A v \in MT!Tids : v # t => asked'[v] = asked[v]
    BY <1>0, <1>10 DEF Receive, SleepReturn, Finish, udpVars, Types
  <2>4. asked'[t].state # "waiting"
    <3>1. CASE Receive(t)
      BY <1>0, <3>1 DEF Receive, Verdict, Types
    <3>2. CASE SleepReturn(t)
      BY <3>2 DEF SleepReturn, udpVars
    <3>3. CASE Finish(t)
      BY <1>0, <3>3 DEF Finish, NotAsked, Types
    <3> QED
      BY <1>10, <3>1, <3>2, <3>3
  <2> QED
    BY <1>0, <2>1, <2>2, <2>3, <2>4, MThreadServed DEF Types
<1>11. ASSUME NEW t \in MT!Tids, NEW jitter \in WaitTimes \cup {0}, Sleep(t, jitter)
       PROVE  Served'
  <2>1. /\ MT!WaitEvent(t, [sleeper |-> t], jitter) /\ jitter \in Nat
        /\ asked' = [asked EXCEPT ![t] = NotAsked]
        /\ UNCHANGED <<pident, handler, asks>>
    BY <1>11 DEF Sleep
  <2>2. pc[t] = "active" /\ \E w : waiter' = [waiter EXCEPT ![t] = w]
                                   /\ pc' = [pc EXCEPT ![t] = "waiting"]
    BY <2>1, Waits
  <2>3. \A v \in MT!Tids : v # t => /\ pc'[v] = pc[v] /\ waiter'[v] = waiter[v]
                                    /\ asked'[v] = asked[v]
    BY <1>0, <2>1, <2>2 DEF Types, SchedulerInv, MT!TypeOK
  <2>4. asked'[t].state = "none"
    BY <1>0, <2>1 DEF Types, NotAsked
  <2> QED
    BY <1>0, <2>1, <2>2, <2>3, <2>4, MThreadServed DEF Types
<1> QED
  BY <1>1, <1>2, <1>3, <1>4, <1>5, <1>6, <1>7, <1>8, <1>9, <1>10, <1>11, Steps

-----------------------------------------------------------------------------
(* The theorems *)

UInv == P!IInv /\ Basics /\ HandlerKnown /\ Owned /\ Served

LEMMA UInvInit == Init => UInv
<1>1. Init => P!IInv
  BY SameInit, SchedulerAssumption, P!InitIInv DEF Init
<1> QED
  BY <1>1, BasicsInit, OwnedInit, ServedInit DEF UInv

LEMMA UInvNext == UInv /\ [Next]_vars => UInv' /\ [MT!Next]_(MT!vars)
<1> SUFFICES ASSUME UInv, [Next]_vars PROVE UInv' /\ [MT!Next]_(MT!vars)
  OBVIOUS
<1>1. P!IInv /\ SchedulerInv /\ Basics /\ HandlerKnown /\ Owned /\ Served
  BY SchedulerKnown DEF UInv
<1>2. [MT!Next]_(MT!vars)
  BY <1>1, StepOfScheduler DEF Basics
<1>3. P!IInv'
  BY <1>1, <1>2, SameStep, SchedulerAssumption, P!NextIInv
<1>4. Basics'
  BY <1>1, BasicsNext
<1>5. HandlerKnown' /\ Owned'
  BY <1>1, OwnedNext
<1>6. Served'
  BY <1>1, ServedNext
<1> QED
  BY <1>2, <1>3, <1>4, <1>5, <1>6 DEF UInv

LEMMA UInvariance == Spec => []UInv
  BY UInvInit, UInvNext, PTL DEF Spec

\* The mthreads and handlers use the scheduler as MTasker specifies it: every step of
\* asendto, arecvfrom and handleUDPServerResponse is one of its operations, called
\* where it may be, or does not touch it.  What MTaskerProofs shows holds here too.
THEOREM ImplementsMTasker == Spec => UsesMTasker
<1>1. Init => MT!Init
  BY DEF Init
<1>2. UInv /\ [Next]_vars => [MT!Next]_(MT!vars)
  BY UInvNext
<1> QED
  BY <1>1, <1>2, UInvariance, PTL DEF Spec, UsesMTasker, MT!Spec

\* The variables of UdpQuery have their types; no more sockets are counted than there
\* are descriptors.
THEOREM UdpTypesCorrect == Spec => []TypeOK
<1>1. ASSUME UInv PROVE TypeOK
  <2>1. MT!TypeOK /\ Types /\ Owned
    BY <1>1, SchedulerKnown DEF UInv, Basics, SchedulerInv
  <2>2. IsFiniteSet(Open) /\ Cardinality(Open) <= Cardinality(Fds)
    BY FS_Subset DEF Open
  <2>3. d_numsocks \in 0 .. Cardinality(Fds)
    BY <2>1, <2>2, FS_CardinalityType DEF Owned
  <2>4. handler.at \in {"idle", "resend", "close"}
    BY <2>1 DEF Types, Idle, HandlerRecords
  <2>5. \A t \in MT!Tids : asked[t].state \in {"none", "waiting", "answered", "slow",
                                               "failed", "timeout", "spoofed"}
    <3>1. \A r \in AskedRecords : r.state \in {"none", "waiting", "answered", "slow",
                                               "failed", "timeout", "spoofed"}
      BY DEF AskedRecords
    <3> QED
      BY <2>1, <3>1 DEF Types
  <2> QED
    BY <2>1, <2>3, <2>4, <2>5 DEF TypeOK, Types
<1> QED
  BY <1>1, UInvariance, PTL

\* While the kernel polls, the open sockets are those of the requests that wait on one:
\* returnSocket is called for each socket once, by the handler or by the mthread whose
\* wait ended, and never for a request that still waits.
THEOREM SocketsAreOwned == Spec => []SocketsOwned
<1>1. ASSUME UInv, MT!KernelAt("poll"), handler.at = "idle"
      PROVE  /\ {watch[fd] : fd \in Open} = {w.key : w \in Heads}
             /\ \A fd \in Open : watch[fd].fd = fd
             /\ d_numsocks = Cardinality(Open)
  <2>1. SchedulerInv /\ Types /\ Owned
    BY <1>1, SchedulerKnown DEF UInv, Basics
  <2>2. \A t \in MT!Tids : ~Returning(t)
    BY <1>1, <2>1, NoneReturning DEF MT!KernelAt, MT!Tids, MT!Kernel
  <2>3. ClosingKeys = {} /\ \A k : ~Bereft(k)
    BY <1>1, <2>2, NothingClosing DEF Bereft
  <2>4. ASSUME NEW fd \in Open PROVE watch[fd] \in {w.key : w \in Heads}
    BY <2>1, <2>3 DEF Owned, Owner, HasHead
  <2>5. ASSUME NEW w \in Heads PROVE w.key \in {watch[fd] : fd \in Open}
    <3>1. w.key \in PacketKeys /\ w.key.fd \in Fds
      BY <2>1, HeadsKnown
    <3>2. watch[w.key.fd] = w.key
      BY <2>1, <2>3, <3>1 DEF Owned, Owner, HasHead
    <3> QED
      BY <3>1, <3>2 DEF Open
  <2> QED
    BY <2>1, <2>4, <2>5 DEF Owned
<1>2. UInv => SocketsOwned
  BY <1>1 DEF SocketsOwned
<1> QED
  BY <1>2, UInvariance, PTL

\* No chain grows past g_maxChainLength, and no two requests in it share a place: asendto
\* counts the places down from -1 and gives none out twice, though requests that ended
\* stay in authReqChain.
THEOREM PlacesInChains == Spec => []ChainPlaces
<1>1. UInv => ChainPlaces
  BY DEF UInv, Basics, ChainCounted, Counted, ChainPlaces
<1> QED
  BY <1>1, UInvariance, PTL

\* doResends leaves nobody behind: when the head's own turn comes, whoever was chained
\* onto it has been woken, though the mthreads woken before may have asked the same
\* again; the chain is closed first, so they are chained onto another head.
THEOREM ChainsAreServed == Spec => []ChainServed
<1>1. ASSUME UInv, handler.at = "resend", handler.todo = {},
             handler.packet.kind # "nameless"
      PROVE  ChainedOn(handler.head) = {}
  <2>1. PICK u \in MT!Tids : ServedBy(u)
    BY <1>1 DEF UInv, Served, Resending
  <2>2. ASSUME NEW t \in ChainedOn(handler.head) PROVE FALSE
    <3>1. t \in MT!Tids /\ Follows(t) /\ asked[t].head = handler.head
      BY DEF ChainedOn, Follows
    <3> QED
      BY <1>1, <2>1, <3>1 DEF ServedBy
  <2> QED
    BY <2>2
<1>2. UInv => ChainServed
  BY <1>1 DEF ChainServed
<1> QED
  BY <1>2, UInvariance, PTL
=============================================================================

--------------------------- MODULE MTaskerProofs ---------------------------
(***************************************************************************)
(* Proofs about MTasker, for any keys, values, timeouts and bounds.        *)
(*                                                                         *)
(* No property of the scheduler is inductive alone: that a woken mthread   *)
(* finds its own event depends on the waiters matching the stacks, which   *)
(* depends on schedule() running only mthreads whose stack is ready, which *)
(* depends on the queues.  IInv is all of it together.                     *)
(***************************************************************************)
EXTENDS MTasker, TLAPS, FiniteSetTheorems

\* The part of the run queue schedule() has yet to run.
First == IF frame = "run" THEN 2 ELSE 1

\* The mthreads in the queues are those whose stacks are there to be switched to,
\* or ended, each of them once; the front stays while schedule() runs it.
QueuesMatch ==
  /\ frame = "run" => d_runQueue # <<>>
  /\ \A i \in First .. Len(d_runQueue) : pc[d_runQueue[i]] = "ready"
  /\ \A i, j \in First .. Len(d_runQueue) : d_runQueue[i] = d_runQueue[j] => i = j
  /\ \A i \in 1 .. Len(d_zombiesQueue) : pc[d_zombiesQueue[i]] = "zombie"
  /\ \A i, j \in 1 .. Len(d_zombiesQueue) :
       d_zombiesQueue[i] = d_zombiesQueue[j] => i = j

\* d_threads holds the mthreads that were made and not buried.
ThreadsMatch ==
  /\ \A t \in Tids : t >= d_maxtid <=> pc[t] = "none"
  /\ \A t \in Tids : t \in d_threads <=> pc[t] \notin {"none", "gone"}

Counting == IsFiniteSet(d_threads) /\ CountExact

IInv == /\ TypeOK /\ scanNow <= now
        /\ OneRunning /\ Handshake /\ WaitersMatch
        /\ QueuesMatch /\ ThreadsMatch /\ Counting

USE MTaskerAssumption

-----------------------------------------------------------------------------
(* Init *)

\* The initial state satisfies the invariant.
LEMMA InitIInv == Init => IInv
<1> SUFFICES ASSUME Init PROVE IInv
  OBVIOUS
<1> USE DEF Init, Kernel, Tids, Error, TimeOut, Answer
<1>1. TypeOK /\ scanNow <= now
  BY DEF TypeOK, Frames, PCs, NoWaiter, NoRet
<1>2. OneRunning
  BY DEF OneRunning
<1>3. Handshake
  BY DEF Handshake
<1>4. WaitersMatch
  BY DEF WaitersMatch
<1>5. QueuesMatch
  BY DEF QueuesMatch, First
<1>6. ThreadsMatch
  BY DEF ThreadsMatch
<1>7. Counting
  BY FS_EmptySet DEF Counting, CountExact
<1> QED
  BY <1>1, <1>2, <1>3, <1>4, <1>5, <1>6, <1>7 DEF IInv

-----------------------------------------------------------------------------
(* Switching back to the kernel *)

\* An mthread that waits or ends leaves the run queue without what schedule() was
\* running.
LEMMA SwitchLeavesRest ==
  ASSUME TypeOK, OneRunning, QueuesMatch, running # Kernel,
         SwitchToKernel(d_runQueue)
  PROVE  /\ running' = Kernel
         /\ frame' \in {"schedule", "poll", "scan"}
         /\ d_runQueue' \in Seq(Tids)
         /\ Len(d_runQueue') = Len(d_runQueue) - (First - 1)
         /\ \A i \in 1 .. Len(d_runQueue') :
              \E k \in First .. Len(d_runQueue) :
                k = i + (First - 1) /\ d_runQueue'[i] = d_runQueue[k]
<1>1. CASE frame = "run"
  BY SMTT(30), <1>1 DEF SwitchToKernel, AfterSwitch, First, QueuesMatch, TypeOK
<1>2. CASE frame # "run"
  BY <1>2 DEF SwitchToKernel, AfterSwitch, First, OneRunning, TypeOK
<1> QED
  BY <1>1, <1>2

\* One that yields is behind that rest.
LEMMA SwitchAppends ==
  ASSUME TypeOK, OneRunning, QueuesMatch, running # Kernel,
         SwitchToKernel(Requeued)
  PROVE  /\ running' = Kernel
         /\ frame' \in {"schedule", "poll", "scan"}
         /\ d_runQueue' \in Seq(Tids)
         /\ Len(d_runQueue') = Len(d_runQueue) - (First - 1) + 1
         /\ \A i \in 1 .. Len(d_runQueue') - 1 :
              \E k \in First .. Len(d_runQueue) :
                k = i + (First - 1) /\ d_runQueue'[i] = d_runQueue[k]
         /\ d_runQueue'[Len(d_runQueue')] = d_tid
<1> DEFINE q == Append(d_runQueue, d_tid)
<1>1. /\ q \in Seq(Tids) /\ q # <<>>
      /\ Len(q) = Len(d_runQueue) + 1
      /\ \A i \in 1 .. Len(d_runQueue) : q[i] = d_runQueue[i]
      /\ q[Len(q)] = d_tid
  <2>1. d_runQueue \in Seq(Tids) /\ d_tid \in Tids
    BY DEF TypeOK
  <2> QED
    BY <2>1
<1>2. CASE frame = "run"
  <2>1. Len(d_runQueue) >= 1
    BY <1>2 DEF QueuesMatch, TypeOK
  <2>2. d_runQueue' = Tail(q) /\ frame' = "schedule" /\ running' = Kernel
    BY <1>2 DEF SwitchToKernel, AfterSwitch, Requeued
  <2>3. /\ Tail(q) \in Seq(Tids) /\ Len(Tail(q)) = Len(q) - 1
        /\ \A i \in 1 .. Len(q) - 1 : Tail(q)[i] = q[i + 1]
    BY <1>1
  <2>4. Len(d_runQueue') = Len(d_runQueue)
    BY <1>1, <2>2, <2>3 DEF TypeOK
  <2>5. \A i \in 1 .. Len(d_runQueue') - 1 : d_runQueue'[i] = d_runQueue[i + 1]
    BY <1>1, <2>2, <2>3, <2>4 DEF TypeOK
  <2>6. d_runQueue'[Len(d_runQueue')] = d_tid
    BY <1>1, <2>1, <2>2, <2>3, <2>4 DEF TypeOK
  <2>7. First = 2 /\ Len(d_runQueue) \in Nat
    BY <1>2 DEF First, TypeOK
  <2>8. \A i \in 1 .. Len(d_runQueue') - 1 :
          \E k \in First .. Len(d_runQueue) :
            k = i + (First - 1) /\ d_runQueue'[i] = d_runQueue[k]
    <3> SUFFICES ASSUME NEW i \in 1 .. Len(d_runQueue') - 1
                 PROVE  i + 1 \in 2 .. Len(d_runQueue)
      BY <2>5, <2>7
    <3> QED
      BY <2>4, <2>7
  <2>9. d_runQueue' \in Seq(Tids)
    BY <2>2, <2>3
  <2>10. Len(d_runQueue') = Len(d_runQueue) - (First - 1) + 1
    BY <2>4, <2>7
  <2>11. frame' \in {"schedule", "poll", "scan"}
    BY <2>2
  <2> QED
    BY <2>2, <2>6, <2>8, <2>9, <2>10, <2>11, Zenon
<1>3. CASE frame # "run"
  <2>1. d_runQueue' = q
    BY <1>3 DEF SwitchToKernel, AfterSwitch, Requeued
  <2>2. running' = Kernel /\ frame' \in {"schedule", "poll", "scan"}
    BY <1>3 DEF SwitchToKernel, OneRunning
  <2> HIDE DEF q
  <2> QED
    BY <1>1, <1>3, <2>1, <2>2 DEF First, TypeOK
<1> QED
  BY <1>2, <1>3

-----------------------------------------------------------------------------
(* The steps *)

\* Waking an mthread that waits leaves the types alone.
LEMMA WakeTyped ==
  ASSUME TypeOK, NEW w \in d_waiters, NEW status \in {TimeOut, Answer}, NEW f \in Frames,
         Wake(w, status, f), d_waitval' \in Vals \cup {NoVal},
         UNCHANGED <<clocks, d_runQueue, d_zombiesQueue, threads, waiter, ret, yields>>
  PROVE  TypeOK'
<1>1. w.key \in Keys /\ w.tid \in Tids
  BY DEF TypeOK, Waiters
<1>2. /\ d_waiters' = d_waiters \ {w} /\ running' = w.tid /\ d_tid' = w.tid /\ frame' = f
      /\ d_waitstatus' = status /\ d_eventkey' = w.key /\ d_used' = FALSE
      /\ pc' = [pc EXCEPT ![w.tid] = "returning"]
  BY DEF Wake, HandOver, SwitchTo
<1>3. pc' \in [Tids -> PCs]
  BY <1>1, <1>2 DEF TypeOK, PCs
<1>4. d_waiters' \subseteq Waiters /\ running' \in Tids \cup {Kernel} /\ d_tid' \in Tids
      /\ frame' \in Frames /\ d_eventkey' \in Keys \cup {NoKey} /\ d_used' \in BOOLEAN
      /\ d_waitstatus' \in {Error, TimeOut, Answer}
  BY <1>1, <1>2 DEF TypeOK
<1> QED
  BY <1>3, <1>4 DEF TypeOK, clocks, threads

\* Every step of the specification keeps the invariant.
LEMMA NextIInv == IInv /\ [Next]_vars => IInv'
<1> SUFFICES ASSUME IInv, [Next]_vars PROVE IInv'
  OBVIOUS
<1> USE DEF IInv, Kernel, Tids, KernelAt, Active
<1>1. CASE ScheduleRun
  <2> USE <1>1 DEF ScheduleRun, SwitchTo, clocks, threads, handover
  <2>0. Head(d_runQueue) \in Tids /\ pc[Head(d_runQueue)] = "ready"
    BY DEF TypeOK, QueuesMatch, First
  <2>1. TypeOK' /\ (scanNow <= now)'
    BY DEF TypeOK, Frames, PCs, Waiters, NoWaiter, NoRet, Error, TimeOut, Answer
  <2>2. OneRunning'
    BY DEF OneRunning, TypeOK, Waiters, Handshake, WaitersMatch, QueuesMatch
  <2>3. Handshake'
    BY DEF Handshake, TypeOK, Waiters, OneRunning, WaitersMatch, Error, TimeOut, Answer
  <2>4. WaitersMatch'
    BY DEF WaitersMatch, TypeOK, Waiters, OneRunning, Handshake, QueuesMatch, ThreadsMatch, First
  <2>5. QueuesMatch'
    BY SMTT(30) DEF QueuesMatch, First, TypeOK, Waiters, PCs, OneRunning, WaitersMatch, ThreadsMatch
  <2>6. ThreadsMatch'
    BY <2>0 DEF ThreadsMatch, TypeOK, PCs
  <2>7. Counting'
    BY DEF Counting, CountExact
  <2> QED
    BY <2>1, <2>2, <2>3, <2>4, <2>5, <2>6, <2>7
<1>2. CASE ScheduleReap
  <2> USE <1>2 DEF ScheduleReap, Forget, clocks, threads, handover
  <2>0. /\ Head(d_zombiesQueue) \in Tids /\ pc[Head(d_zombiesQueue)] = "zombie"
        /\ Tail(d_zombiesQueue) \in Seq(Tids)
    BY DEF TypeOK, QueuesMatch
  <2>stacks. d_cachedStacks' \in 0 .. MaxCachedStacks
    BY DEF TypeOK
  <2>made. d_threads' \subseteq Tids
    BY DEF TypeOK
  <2>count. d_threadsCount' \in Int
    BY DEF TypeOK
  <2>stackpcs. pc' \in [Tids -> PCs]
    BY <2>0 DEF TypeOK, PCs
  <2>1. TypeOK' /\ (scanNow <= now)'
    BY <2>0, <2>stacks, <2>made, <2>count, <2>stackpcs DEF TypeOK
  <2>2. OneRunning'
    BY DEF OneRunning, TypeOK, Waiters, Handshake, WaitersMatch, QueuesMatch
  <2>3. Handshake'
    BY DEF Handshake, TypeOK, Waiters, OneRunning, WaitersMatch, Error, TimeOut, Answer
  <2>4. WaitersMatch'
    BY DEF WaitersMatch, TypeOK, Waiters, OneRunning, Handshake, QueuesMatch, ThreadsMatch, First
  <2>5. QueuesMatch'
    BY DEF QueuesMatch, First, TypeOK, Waiters, PCs, OneRunning, WaitersMatch, ThreadsMatch
  <2>6. ThreadsMatch'
    BY <2>0 DEF ThreadsMatch, TypeOK, PCs
  <2>7. Counting'
    <3>1. Head(d_zombiesQueue) \in d_threads
      BY <2>0 DEF ThreadsMatch
    <3> QED
      BY <3>1, FS_RemoveElement DEF Counting, CountExact, TypeOK
  <2> QED
    BY <2>1, <2>2, <2>3, <2>4, <2>5, <2>6, <2>7
<1>3. CASE ScheduleScan
  <2> USE <1>3 DEF ScheduleScan, clocks, threads, handover
  <2>1. TypeOK' /\ (scanNow <= now)'
    BY DEF TypeOK, Frames, PCs, Waiters, NoWaiter, NoRet, Error, TimeOut, Answer
  <2>2. OneRunning'
    BY DEF OneRunning, TypeOK, Waiters, Handshake, WaitersMatch, QueuesMatch
  <2>3. Handshake'
    BY DEF Handshake, TypeOK, Waiters, OneRunning, WaitersMatch, Error, TimeOut, Answer
  <2>4. WaitersMatch'
    BY DEF WaitersMatch, TypeOK, Waiters, OneRunning, Handshake, QueuesMatch, ThreadsMatch, First
  <2>5. QueuesMatch'
    BY DEF QueuesMatch, First, TypeOK, Waiters, PCs, OneRunning, WaitersMatch, ThreadsMatch
  <2>6. ThreadsMatch'
    BY DEF ThreadsMatch, TypeOK, Waiters, PCs, OneRunning, WaitersMatch, QueuesMatch, First
  <2>7. Counting'
    BY DEF Counting, CountExact
  <2> QED
    BY <2>1, <2>2, <2>3, <2>4, <2>5, <2>6, <2>7
<1>4. CASE ScanWake
  <2> USE <1>4 DEF ScanWake, Wake, HandOver, SwitchTo, NextExpired, clocks, threads, handover
  <2>1. TypeOK' /\ (scanNow <= now)'
    <3>1. PICK w \in d_waiters : Wake(w, TimeOut, "scan")
      BY <1>4 DEF ScanWake
    <3>2. d_waitval' \in Vals \cup {NoVal}
      BY <1>4 DEF ScanWake, TypeOK
    <3>3. UNCHANGED <<clocks, d_runQueue, d_zombiesQueue, threads, waiter, ret, yields>>
      BY <1>4 DEF ScanWake
    <3>4. TypeOK'
      BY <3>1, <3>2, <3>3, WakeTyped DEF Frames
    <3> QED
      BY <3>3, <3>4 DEF clocks
  <2>2. OneRunning'
    BY DEF OneRunning, TypeOK, Waiters, Handshake, WaitersMatch, QueuesMatch
  <2>3. Handshake'
    BY DEF Handshake, TypeOK, Waiters, OneRunning, WaitersMatch, Error, TimeOut, Answer
  <2>4. WaitersMatch'
    BY DEF WaitersMatch, TypeOK, Waiters, OneRunning, Handshake, QueuesMatch, ThreadsMatch, First
  <2>5. QueuesMatch'
    BY DEF QueuesMatch, First, TypeOK, Waiters, PCs, OneRunning, WaitersMatch, ThreadsMatch
  <2>6. ThreadsMatch'
    BY DEF ThreadsMatch, TypeOK, Waiters, PCs, OneRunning, WaitersMatch, QueuesMatch, First
  <2>7. Counting'
    BY DEF Counting, CountExact
  <2> QED
    BY <2>1, <2>2, <2>3, <2>4, <2>5, <2>6, <2>7
<1>5. CASE Poll
  <2> USE <1>5 DEF Poll, clocks, threads, handover
  <2>0. pollEnd' \in Nat
    <3>1. CASE d_waiters = {}
      BY <3>1 DEF TypeOK
    <3>2. CASE d_waiters # {}
      <4>1. PICK w \in d_waiters : pollEnd' = now + NextWaiterDelay(w, DefDelay)
        BY <3>2
      <4>2. w.ttd \in Nat /\ now \in Nat
        BY DEF TypeOK, Waiters
      <4>3. NextWaiterDelay(w, DefDelay) \in Nat
        BY <4>2 DEF NextWaiterDelay
      <4> QED
        BY <4>1, <4>2, <4>3
    <3> QED
      BY <3>1, <3>2
  <2>1. TypeOK' /\ (scanNow <= now)'
    BY <2>0 DEF TypeOK, Frames
  <2>2. OneRunning'
    BY DEF OneRunning, TypeOK, Waiters, Handshake, WaitersMatch, QueuesMatch
  <2>3. Handshake'
    BY DEF Handshake, TypeOK, Waiters, OneRunning, WaitersMatch, Error, TimeOut, Answer
  <2>4. WaitersMatch'
    BY DEF WaitersMatch, TypeOK, Waiters, OneRunning, Handshake, QueuesMatch, ThreadsMatch, First
  <2>5. QueuesMatch'
    BY DEF QueuesMatch, First, TypeOK, Waiters, PCs, OneRunning, WaitersMatch, ThreadsMatch
  <2>6. ThreadsMatch'
    BY DEF ThreadsMatch, TypeOK, Waiters, PCs, OneRunning, WaitersMatch, QueuesMatch, First
  <2>7. Counting'
    BY DEF Counting, CountExact
  <2> QED
    BY <2>1, <2>2, <2>3, <2>4, <2>5, <2>6, <2>7
<1>6. CASE PollReturn
  <2> USE <1>6 DEF PollReturn, clocks, threads, handover
  <2>1. TypeOK' /\ (scanNow <= now)'
    BY DEF TypeOK, Frames, PCs, Waiters, NoWaiter, NoRet, Error, TimeOut, Answer
  <2>2. OneRunning'
    BY DEF OneRunning, TypeOK, Waiters, Handshake, WaitersMatch, QueuesMatch
  <2>3. Handshake'
    BY DEF Handshake, TypeOK, Waiters, OneRunning, WaitersMatch, Error, TimeOut, Answer
  <2>4. WaitersMatch'
    BY DEF WaitersMatch, TypeOK, Waiters, OneRunning, Handshake, QueuesMatch, ThreadsMatch, First
  <2>5. QueuesMatch'
    BY DEF QueuesMatch, First, TypeOK, Waiters, PCs, OneRunning, WaitersMatch, ThreadsMatch
  <2>6. ThreadsMatch'
    BY DEF ThreadsMatch, TypeOK, Waiters, PCs, OneRunning, WaitersMatch, QueuesMatch, First
  <2>7. Counting'
    BY DEF Counting, CountExact
  <2> QED
    BY <2>1, <2>2, <2>3, <2>4, <2>5, <2>6, <2>7
<1>7. CASE MakeThread
  <2> USE <1>7 DEF MakeThread, StackTaken, clocks, threads, handover
  <2>1. TypeOK' /\ (scanNow <= now)'
    BY DEF TypeOK, Frames, PCs, Waiters, NoWaiter, NoRet, Error, TimeOut, Answer
  <2>2. OneRunning'
    BY DEF OneRunning, TypeOK, Waiters, Handshake, WaitersMatch, QueuesMatch
  <2>3. Handshake'
    BY DEF Handshake, TypeOK, Waiters, OneRunning, WaitersMatch, Error, TimeOut, Answer
  <2>4. WaitersMatch'
    BY DEF WaitersMatch, TypeOK, Waiters, OneRunning, Handshake, QueuesMatch, ThreadsMatch, First
  <2>5. QueuesMatch'
    <3>1. /\ Len(d_runQueue') = Len(d_runQueue) + 1
          /\ \A i \in 1 .. Len(d_runQueue) : d_runQueue'[i] = d_runQueue[i]
          /\ d_runQueue'[Len(d_runQueue')] = d_maxtid
      BY DEF TypeOK
    <3>2. pc[d_maxtid] = "none" /\ d_maxtid \in Tids /\ frame = "poll"
      BY DEF ThreadsMatch, TypeOK
    <3>3. d_runQueue \in Seq(Tids) /\ d_zombiesQueue \in Seq(Tids)
      BY DEF TypeOK
    <3>4. \A i \in 1 .. Len(d_zombiesQueue) : d_zombiesQueue[i] # d_maxtid
      BY <3>2 DEF QueuesMatch
    <3>5. \A i \in 1 .. Len(d_runQueue) : d_runQueue[i] # d_maxtid
      BY <3>2 DEF QueuesMatch, First
    <3>6. \A i, j \in 1 .. Len(d_runQueue') :
            d_runQueue'[i] = d_runQueue'[j] => i = j
      BY <3>1, <3>2, <3>3, <3>5 DEF QueuesMatch, First
    <3>7. \A i \in 1 .. Len(d_runQueue') : pc'[d_runQueue'[i]] = "ready"
      BY <3>1, <3>2, <3>3, <3>5 DEF QueuesMatch, First, TypeOK
    <3>8. \A i \in 1 .. Len(d_zombiesQueue) : pc'[d_zombiesQueue[i]] = "zombie"
      BY <3>3, <3>4 DEF QueuesMatch, TypeOK
    <3> QED
      BY <3>2, <3>6, <3>7, <3>8 DEF QueuesMatch, First
  <2>6. ThreadsMatch'
    BY DEF ThreadsMatch, TypeOK, Waiters, PCs, OneRunning, WaitersMatch, QueuesMatch, First
  <2>7. Counting'
    <3>1. d_maxtid \notin d_threads
      BY DEF ThreadsMatch, QueuesMatch, TypeOK
    <3> QED
      BY <3>1, FS_AddElement DEF Counting, CountExact, TypeOK
  <2> QED
    BY <2>1, <2>2, <2>3, <2>4, <2>5, <2>6, <2>7
<1>8. ASSUME NEW key \in Keys, NEW val \in Vals, SendEvent(key, val)
      PROVE  IInv'
  <2> USE <1>8 DEF SendEvent, Wake, HandOver, SwitchTo, clocks, threads, handover
  <2>1. TypeOK' /\ (scanNow <= now)'
    <3>1. PICK w \in d_waiters : Wake(w, Answer, "send")
      BY <1>8 DEF SendEvent
    <3>2. d_waitval' \in Vals \cup {NoVal}
      BY <1>8 DEF SendEvent
    <3>3. UNCHANGED <<clocks, d_runQueue, d_zombiesQueue, threads, waiter, ret, yields>>
      BY <1>8 DEF SendEvent
    <3>4. TypeOK'
      BY <3>1, <3>2, <3>3, WakeTyped DEF Frames
    <3> QED
      BY <3>3, <3>4 DEF clocks
  <2>2. OneRunning'
    BY DEF OneRunning, TypeOK, Waiters, Handshake, WaitersMatch, QueuesMatch
  <2>3. Handshake'
    BY DEF Handshake, TypeOK, Waiters, OneRunning, WaitersMatch, Error, TimeOut, Answer
  <2>4. WaitersMatch'
    BY DEF WaitersMatch, TypeOK, Waiters, OneRunning, Handshake, QueuesMatch, ThreadsMatch, First
  <2>5. QueuesMatch'
    BY DEF QueuesMatch, First, TypeOK, Waiters, PCs, OneRunning, WaitersMatch, ThreadsMatch
  <2>6. ThreadsMatch'
    BY DEF ThreadsMatch, TypeOK, Waiters, PCs, OneRunning, WaitersMatch, QueuesMatch, First
  <2>7. Counting'
    BY DEF Counting, CountExact
  <2> QED
    BY <2>1, <2>2, <2>3, <2>4, <2>5, <2>6, <2>7
<1>9. ASSUME NEW t \in Tids, WaitReturn(t) PROVE IInv'
  <2> USE <1>9 DEF WaitReturn, clocks, threads, handover
  <2>1. TypeOK' /\ (scanNow <= now)'
    BY DEF TypeOK, Frames, PCs, Waiters, NoWaiter, NoRet, Error, TimeOut, Answer
  <2>2. OneRunning'
    BY DEF OneRunning, TypeOK, Waiters, Handshake, WaitersMatch, QueuesMatch
  <2>3. Handshake'
    BY DEF Handshake, TypeOK, Waiters, OneRunning, WaitersMatch, Error, TimeOut, Answer
  <2>4. WaitersMatch'
    BY DEF WaitersMatch, TypeOK, Waiters, OneRunning, Handshake, QueuesMatch, ThreadsMatch, First
  <2>5. QueuesMatch'
    BY DEF QueuesMatch, First, TypeOK, Waiters, PCs, OneRunning, WaitersMatch, ThreadsMatch
  <2>6. ThreadsMatch'
    BY DEF ThreadsMatch, TypeOK, Waiters, PCs, OneRunning, WaitersMatch, QueuesMatch, First
  <2>7. Counting'
    BY DEF Counting, CountExact
  <2> QED
    BY <2>1, <2>2, <2>3, <2>4, <2>5, <2>6, <2>7
<1>10. ASSUME NEW t \in Tids, NEW key \in Keys, WaitEventError(t, key)
      PROVE  IInv'
  <2> USE <1>10 DEF WaitEventError, clocks, threads, handover
  <2>1. TypeOK' /\ (scanNow <= now)'
    BY DEF TypeOK, Frames, PCs, Waiters, NoWaiter, NoRet, Error, TimeOut, Answer
  <2>2. OneRunning'
    BY DEF OneRunning, TypeOK, Waiters, Handshake, WaitersMatch, QueuesMatch
  <2>3. Handshake'
    BY DEF Handshake, TypeOK, Waiters, OneRunning, WaitersMatch, Error, TimeOut, Answer
  <2>4. WaitersMatch'
    BY DEF WaitersMatch, TypeOK, Waiters, OneRunning, Handshake, QueuesMatch, ThreadsMatch, First
  <2>5. QueuesMatch'
    BY DEF QueuesMatch, First, TypeOK, Waiters, PCs, OneRunning, WaitersMatch, ThreadsMatch
  <2>6. ThreadsMatch'
    BY DEF ThreadsMatch, TypeOK, Waiters, PCs, OneRunning, WaitersMatch, QueuesMatch, First
  <2>7. Counting'
    BY DEF Counting, CountExact
  <2> QED
    BY <2>1, <2>2, <2>3, <2>4, <2>5, <2>6, <2>7
<1>11. ASSUME NEW t \in Tids, NEW key \in Keys, NEW timeout \in Timeouts,
             WaitEvent(t, key, timeout)
      PROVE  IInv'
  <2> USE <1>11 DEF WaitEvent, HasWaiter, clocks, threads, handover
  <2>0. /\ running' = Kernel
        /\ frame' \in {"schedule", "poll", "scan"}
        /\ d_runQueue' \in Seq(Tids)
        /\ Len(d_runQueue') = Len(d_runQueue) - (First - 1)
        /\ \A i \in 1 .. Len(d_runQueue') :
             \E k \in First .. Len(d_runQueue) :
               k = i + (First - 1) /\ d_runQueue'[i] = d_runQueue[k]
    <3>1. running # Kernel
      OBVIOUS
    <3> QED
      BY <3>1, SwitchLeavesRest
  <2>1. TypeOK' /\ (scanNow <= now)'
    BY <2>0 DEF TypeOK, Frames, PCs, Waiters, NoWaiter, NoRet, Error, TimeOut, Answer
  <2>2. OneRunning'
    BY <2>0 DEF OneRunning, TypeOK, Waiters, Handshake, WaitersMatch, QueuesMatch
  <2>3. Handshake'
    BY <2>0 DEF Handshake, TypeOK, Waiters, OneRunning, WaitersMatch, Error, TimeOut, Answer
  <2>4. WaitersMatch'
    BY <2>0 DEF WaitersMatch, TypeOK, Waiters, OneRunning, Handshake, QueuesMatch, ThreadsMatch, First
  <2>5. QueuesMatch'
    <3>1. d_runQueue \in Seq(Tids) /\ d_zombiesQueue \in Seq(Tids) /\ First \in {1, 2}
      BY DEF TypeOK, First
    <3>2. First' = 1 /\ (frame' # "run")
      BY <2>0 DEF First
    <3>3. /\ \A i \in First .. Len(d_runQueue) : d_runQueue[i] # t
          /\ \A i \in 1 .. Len(d_zombiesQueue) : d_zombiesQueue[i] # t
      BY DEF QueuesMatch
    <3>4. \A i, j \in 1 .. Len(d_runQueue') :
            d_runQueue'[i] = d_runQueue'[j] => i = j
      BY <2>0, <3>1 DEF QueuesMatch
    <3>5. ASSUME NEW i \in 1 .. Len(d_runQueue')
          PROVE  pc'[d_runQueue'[i]] = "ready"
      <4>1. PICK k \in First .. Len(d_runQueue) : d_runQueue'[i] = d_runQueue[k]
        BY <2>0
      <4>2. d_runQueue[k] \in Tids /\ d_runQueue[k] # t
        BY <3>1, <3>3
      <4>3. pc[d_runQueue[k]] = "ready"
        BY DEF QueuesMatch
      <4> QED
        BY <4>1, <4>2, <4>3 DEF TypeOK
    <3>6. /\ \A i \in 1 .. Len(d_zombiesQueue') : pc'[d_zombiesQueue'[i]] = "zombie"
          /\ \A i, j \in 1 .. Len(d_zombiesQueue') :
               d_zombiesQueue'[i] = d_zombiesQueue'[j] => i = j
      BY <3>1, <3>3 DEF QueuesMatch, TypeOK
    <3> QED
      BY <3>2, <3>4, <3>5, <3>6 DEF QueuesMatch
  <2>6. ThreadsMatch'
    BY <2>0 DEF ThreadsMatch, TypeOK, Waiters, PCs, OneRunning, WaitersMatch, QueuesMatch, First
  <2>7. Counting'
    BY DEF Counting, CountExact
  <2> QED
    BY <2>1, <2>2, <2>3, <2>4, <2>5, <2>6, <2>7
<1>12. ASSUME NEW t \in Tids, Yield(t) PROVE IInv'
  <2> USE <1>12 DEF Yield, clocks, threads, handover
  <2>0. /\ running' = Kernel
        /\ frame' \in {"schedule", "poll", "scan"}
        /\ d_runQueue' \in Seq(Tids)
        /\ Len(d_runQueue') = Len(d_runQueue) - (First - 1) + 1
        /\ \A i \in 1 .. Len(d_runQueue') - 1 :
             \E k \in First .. Len(d_runQueue) :
               k = i + (First - 1) /\ d_runQueue'[i] = d_runQueue[k]
        /\ d_runQueue'[Len(d_runQueue')] = d_tid
    <3>1. running # Kernel
      OBVIOUS
    <3> QED
      BY <3>1, SwitchAppends
  <2>1. TypeOK' /\ (scanNow <= now)'
    BY SMTT(30), <2>0 DEF TypeOK, Frames, PCs, Waiters, NoWaiter, NoRet, Error, TimeOut, Answer
  <2>2. OneRunning'
    BY <2>0 DEF OneRunning, TypeOK, Waiters, Handshake, WaitersMatch, QueuesMatch
  <2>3. Handshake'
    BY <2>0 DEF Handshake, TypeOK, Waiters, OneRunning, WaitersMatch, Error, TimeOut, Answer
  <2>4. WaitersMatch'
    BY <2>0 DEF WaitersMatch, TypeOK, Waiters, OneRunning, Handshake, QueuesMatch, ThreadsMatch, First
  <2>5. QueuesMatch'
    <3>1. d_runQueue \in Seq(Tids) /\ d_zombiesQueue \in Seq(Tids) /\ First \in {1, 2}
      BY DEF TypeOK, First
    <3>2. First' = 1 /\ (frame' # "run")
      BY <2>0 DEF First
    <3>3. /\ \A i \in First .. Len(d_runQueue) : d_runQueue[i] # t
          /\ \A i \in 1 .. Len(d_zombiesQueue) : d_zombiesQueue[i] # t
      BY DEF QueuesMatch
    <3>tid. d_tid = t
      BY DEF OneRunning
    <3>len. Len(d_runQueue') \in Nat
      BY <2>0
    <3>4. ASSUME NEW i \in 1 .. Len(d_runQueue'), NEW j \in 1 .. Len(d_runQueue'),
                 d_runQueue'[i] = d_runQueue'[j]
          PROVE  i = j
      <4>1. CASE i = Len(d_runQueue') /\ j # Len(d_runQueue')
        <5>1. PICK k \in First .. Len(d_runQueue) : d_runQueue'[j] = d_runQueue[k]
          BY SMTT(30), <2>0, <3>len, <4>1
        <5> QED
          BY <2>0, <3>3, <3>4, <3>tid, <4>1, <5>1
      <4>2. CASE j = Len(d_runQueue') /\ i # Len(d_runQueue')
        <5>1. PICK k \in First .. Len(d_runQueue) : d_runQueue'[i] = d_runQueue[k]
          BY <2>0, <3>len, <4>2
        <5> QED
          BY <2>0, <3>3, <3>4, <3>tid, <4>2, <5>1
      <4>3. CASE i # Len(d_runQueue') /\ j # Len(d_runQueue')
        <5>1. PICK k \in First .. Len(d_runQueue) :
                k = i + (First - 1) /\ d_runQueue'[i] = d_runQueue[k]
          BY <2>0, <3>len, <4>3
        <5>2. PICK m \in First .. Len(d_runQueue) :
                m = j + (First - 1) /\ d_runQueue'[j] = d_runQueue[m]
          <6>1. j \in 1 .. Len(d_runQueue') - 1
            BY <3>len, <4>3
          <6> QED
            BY <2>0, <6>1
        <5>3. k = m
          BY <3>4, <5>1, <5>2 DEF QueuesMatch
        <5> QED
          BY <3>1, <3>len, <5>1, <5>2, <5>3
      <4> QED
        BY <4>1, <4>2, <4>3
    <3>5. ASSUME NEW i \in 1 .. Len(d_runQueue')
          PROVE  pc'[d_runQueue'[i]] = "ready"
      <4>1. CASE i = Len(d_runQueue')
        BY <2>0, <3>tid, <4>1 DEF TypeOK
      <4>2. CASE i # Len(d_runQueue')
        <5>1. PICK k \in First .. Len(d_runQueue) : d_runQueue'[i] = d_runQueue[k]
          BY <2>0, <3>len, <4>2
        <5>2. d_runQueue[k] \in Tids /\ d_runQueue[k] # t
          BY <3>1, <3>3
        <5>3. pc[d_runQueue[k]] = "ready"
          BY DEF QueuesMatch
        <5> QED
          BY <5>1, <5>2, <5>3 DEF TypeOK
      <4> QED
        BY <4>1, <4>2
    <3>6. /\ \A i \in 1 .. Len(d_zombiesQueue') : pc'[d_zombiesQueue'[i]] = "zombie"
          /\ \A i, j \in 1 .. Len(d_zombiesQueue') :
               d_zombiesQueue'[i] = d_zombiesQueue'[j] => i = j
      BY <3>1, <3>3 DEF QueuesMatch, TypeOK
    <3> QED
      BY <3>2, <3>4, <3>5, <3>6 DEF QueuesMatch
  <2>6. ThreadsMatch'
    BY <2>0 DEF ThreadsMatch, TypeOK, Waiters, PCs, OneRunning, WaitersMatch, QueuesMatch, First
  <2>7. Counting'
    BY DEF Counting, CountExact
  <2> QED
    BY <2>1, <2>2, <2>3, <2>4, <2>5, <2>6, <2>7
<1>13. ASSUME NEW t \in Tids, Finish(t) PROVE IInv'
  <2> USE <1>13 DEF Finish, clocks, threads, handover
  <2>0. /\ running' = Kernel
        /\ frame' \in {"schedule", "poll", "scan"}
        /\ d_runQueue' \in Seq(Tids)
        /\ Len(d_runQueue') = Len(d_runQueue) - (First - 1)
        /\ \A i \in 1 .. Len(d_runQueue') :
             \E k \in First .. Len(d_runQueue) :
               k = i + (First - 1) /\ d_runQueue'[i] = d_runQueue[k]
    <3>1. running # Kernel
      OBVIOUS
    <3> QED
      BY <3>1, SwitchLeavesRest
  <2>1. TypeOK' /\ (scanNow <= now)'
    BY <2>0 DEF TypeOK, Frames, PCs, Waiters, NoWaiter, NoRet, Error, TimeOut, Answer
  <2>2. OneRunning'
    BY <2>0 DEF OneRunning, TypeOK, Waiters, Handshake, WaitersMatch, QueuesMatch
  <2>3. Handshake'
    BY <2>0 DEF Handshake, TypeOK, Waiters, OneRunning, WaitersMatch, Error, TimeOut, Answer
  <2>4. WaitersMatch'
    BY <2>0 DEF WaitersMatch, TypeOK, Waiters, OneRunning, Handshake, QueuesMatch, ThreadsMatch, First
  <2>5. QueuesMatch'
    <3>1. d_runQueue \in Seq(Tids) /\ d_zombiesQueue \in Seq(Tids) /\ First \in {1, 2}
      BY DEF TypeOK, First
    <3>2. First' = 1 /\ (frame' # "run")
      BY <2>0 DEF First
    <3>3. /\ \A i \in First .. Len(d_runQueue) : d_runQueue[i] # t
          /\ \A i \in 1 .. Len(d_zombiesQueue) : d_zombiesQueue[i] # t
      BY DEF QueuesMatch
    <3>4. \A i, j \in 1 .. Len(d_runQueue') :
            d_runQueue'[i] = d_runQueue'[j] => i = j
      BY <2>0, <3>1 DEF QueuesMatch
    <3>5. ASSUME NEW i \in 1 .. Len(d_runQueue')
          PROVE  pc'[d_runQueue'[i]] = "ready"
      <4>1. PICK k \in First .. Len(d_runQueue) : d_runQueue'[i] = d_runQueue[k]
        BY <2>0
      <4>2. d_runQueue[k] \in Tids /\ d_runQueue[k] # t
        BY <3>1, <3>3
      <4>3. pc[d_runQueue[k]] = "ready"
        BY DEF QueuesMatch
      <4> QED
        BY <4>1, <4>2, <4>3 DEF TypeOK
    <3>appended. /\ Len(d_zombiesQueue') = Len(d_zombiesQueue) + 1
          /\ \A i \in 1 .. Len(d_zombiesQueue) :
               d_zombiesQueue'[i] = d_zombiesQueue[i]
          /\ d_zombiesQueue'[Len(d_zombiesQueue')] = t
      BY <3>1
    <3>6. /\ \A i \in 1 .. Len(d_zombiesQueue') : pc'[d_zombiesQueue'[i]] = "zombie"
          /\ \A i, j \in 1 .. Len(d_zombiesQueue') :
               d_zombiesQueue'[i] = d_zombiesQueue'[j] => i = j
      BY <3>appended, <3>1, <3>3 DEF QueuesMatch, TypeOK
    <3> QED
      BY <3>2, <3>4, <3>5, <3>6 DEF QueuesMatch
  <2>6. ThreadsMatch'
    BY <2>0 DEF ThreadsMatch, TypeOK, Waiters, PCs, OneRunning, WaitersMatch, QueuesMatch, First
  <2>7. Counting'
    BY DEF Counting, CountExact
  <2> QED
    BY <2>1, <2>2, <2>3, <2>4, <2>5, <2>6, <2>7
<1>14. CASE Tick
  <2> USE <1>14 DEF Tick, clocks, threads, handover
  <2>1. TypeOK' /\ (scanNow <= now)'
    BY DEF TypeOK, Frames, PCs, Waiters, NoWaiter, NoRet, Error, TimeOut, Answer
  <2>2. OneRunning'
    BY DEF OneRunning, TypeOK, Waiters, Handshake, WaitersMatch, QueuesMatch
  <2>3. Handshake'
    BY DEF Handshake, TypeOK, Waiters, OneRunning, WaitersMatch, Error, TimeOut, Answer
  <2>4. WaitersMatch'
    BY DEF WaitersMatch, TypeOK, Waiters, OneRunning, Handshake, QueuesMatch, ThreadsMatch, First
  <2>5. QueuesMatch'
    BY DEF QueuesMatch, First, TypeOK, Waiters, PCs, OneRunning, WaitersMatch, ThreadsMatch
  <2>6. ThreadsMatch'
    BY DEF ThreadsMatch, TypeOK, Waiters, PCs, OneRunning, WaitersMatch, QueuesMatch, First
  <2>7. Counting'
    BY DEF Counting, CountExact
  <2> QED
    BY <2>1, <2>2, <2>3, <2>4, <2>5, <2>6, <2>7
<1>15. CASE UNCHANGED vars
  BY <1>15 DEF vars, clocks, threads, handover, TypeOK, OneRunning, Handshake,
    WaitersMatch, QueuesMatch, First, ThreadsMatch, Counting, CountExact
<1>16. \A w \in d_waiters : w.key \in Keys
  BY DEF TypeOK, Waiters
<1> QED
  BY <1>1, <1>2, <1>3, <1>4, <1>5, <1>6, <1>7, <1>8, <1>9, <1>10, <1>11, <1>12, <1>13, <1>14, <1>15,
     <1>16
  DEF Next, KernelStep, Handlers, MThreadStep

-----------------------------------------------------------------------------
(* Theorems *)

\* The invariant holds in every reachable state.
LEMMA Invariance == Spec => []IInv
<1>1. Init => IInv
  BY InitIInv
<1>2. IInv /\ [Next]_vars => IInv'
  BY NextIInv
<1> QED
  BY <1>1, <1>2, PTL DEF Spec

\* The variables have their types.
THEOREM TypeCorrect == Spec => []TypeOK
<1>1. IInv => TypeOK
  BY DEF IInv
<1> QED
  BY <1>1, Invariance, PTL

\* One context executes at a time, the one that d_tid names.
THEOREM OneContext == Spec => []OneRunning
<1>1. IInv => OneRunning
  BY DEF IInv
<1> QED
  BY <1>1, Invariance, PTL

\* The event that wakes an mthread is read by that mthread and by no other.
THEOREM EventsArrive == Spec => []Handshake
<1>1. IInv => Handshake
  BY DEF IInv
<1> QED
  BY <1>1, Invariance, PTL

\* The waitpoints are those of the mthreads that wait, each with one.
THEOREM WaitpointsExact == Spec => []WaitersMatch
<1>1. IInv => WaitersMatch
  BY DEF IInv
<1> QED
  BY <1>1, Invariance, PTL

\* numProcesses() is the number of mthreads that hold a stack.
THEOREM ThreadsCounted == Spec => []CountExact
<1>1. IInv => CountExact
  BY DEF IInv, Counting
<1> QED
  BY <1>1, Invariance, PTL

\* A step that reports a timeout is the scan waking an expired waiter, the first
\* by ttd.
LEMMA TimeoutsAreScans ==
  ASSUME IInv, [Next]_vars, NEW t \in Tids,
         pc[t] = "waiting", pc'[t] = "returning", d_waitstatus' = TimeOut
  PROVE  waiter[t] \in d_waiters /\ NextExpired(waiter[t])
<1> USE DEF IInv, Kernel, Tids
<1>1. CASE ScanWake
  <2>1. PICK w \in d_waiters : NextExpired(w) /\ Wake(w, TimeOut, "scan")
    BY <1>1 DEF ScanWake
  <2>2. w.tid \in Tids /\ pc' = [pc EXCEPT ![w.tid] = "returning"]
    BY <2>1 DEF Wake, TypeOK, Waiters
  <2>3. w.tid = t
    BY <2>2 DEF TypeOK
  <2> QED
    BY <2>1, <2>3 DEF WaitersMatch
<1>2. ASSUME NEW w \in d_waiters, NEW val \in Vals, SendEvent(w.key, val) PROVE FALSE
  BY <1>2 DEF SendEvent, Wake, HandOver, TimeOut, Answer
<1>3. ASSUME ScheduleRun \/ ScheduleReap \/ MakeThread PROVE FALSE
  BY <1>3 DEF ScheduleRun, ScheduleReap, MakeThread, TypeOK
<1>4. ASSUME NEW u \in Tids, MThreadStep(u) PROVE FALSE
  BY <1>4 DEF MThreadStep, WaitReturn, WaitEventError, WaitEvent, Yield, Finish, TypeOK
<1>5. ASSUME \/ ScheduleScan \/ Poll \/ PollReturn \/ Tick \/ UNCHANGED vars PROVE FALSE
  BY <1>5 DEF ScheduleScan, Poll, PollReturn, Tick, vars
<1> QED
  BY <1>1, <1>2, <1>3, <1>4, <1>5 DEF Next, KernelStep, Handlers

\* waitEvent reports no timeout before its time.
THEOREM NoTimeoutEarly == Spec => NoEarlyTimeout
<1> DEFINE Step ==
      \A t \in Tids :
        (pc[t] = "waiting" /\ pc'[t] = "returning" /\ d_waitstatus' = TimeOut)
          => waiter[t].ttd # 0 /\ waiter[t].ttd < now
<1>1. IInv /\ [Next]_vars => Step
  <2> SUFFICES ASSUME IInv, [Next]_vars, NEW t \in Tids,
                      pc[t] = "waiting", pc'[t] = "returning", d_waitstatus' = TimeOut
               PROVE  waiter[t].ttd # 0 /\ waiter[t].ttd < now
    OBVIOUS
  <2>1. waiter[t] \in d_waiters /\ Expired(waiter[t])
    BY TimeoutsAreScans DEF NextExpired
  <2>2. waiter[t].ttd \in Nat /\ scanNow \in Nat /\ now \in Nat /\ scanNow <= now
    BY <2>1 DEF IInv, TypeOK, Waiters
  <2> QED
    BY <2>1, <2>2 DEF Expired
<1> QED
  BY <1>1, Invariance, PTL DEF Spec, NoEarlyTimeout

\* Timeouts are delivered in the order of the deadlines.
THEOREM TimeoutsInOrder == Spec => OrderedTimeouts
<1> DEFINE Step ==
      \A t, u \in Tids :
        (/\ pc[t] = "waiting" /\ pc'[t] = "returning" /\ d_waitstatus' = TimeOut
         /\ pc[u] = "waiting" /\ waiter[u].ttd # 0)
          => waiter[t].ttd <= waiter[u].ttd
<1>1. IInv /\ [Next]_vars => Step
  <2> SUFFICES ASSUME IInv, [Next]_vars, NEW t \in Tids, NEW u \in Tids,
                      pc[t] = "waiting", pc'[t] = "returning", d_waitstatus' = TimeOut,
                      pc[u] = "waiting", waiter[u].ttd # 0
               PROVE  waiter[t].ttd <= waiter[u].ttd
    OBVIOUS
  <2>1. waiter[t] \in d_waiters /\ NextExpired(waiter[t])
    BY TimeoutsAreScans
  <2>2. waiter[u] \in d_waiters
    BY DEF IInv, WaitersMatch
  <2>3. /\ waiter[t].ttd \in Nat /\ waiter[u].ttd \in Nat
        /\ scanNow \in Nat
    BY <2>1, <2>2 DEF IInv, TypeOK, Waiters
  <2> QED
    BY <2>1, <2>2, <2>3 DEF NextExpired, Expired
<1> QED
  BY <1>1, Invariance, PTL DEF Spec, OrderedTimeouts

\* The main loop never plans to sleep past a deadline when all waits have one.
THEOREM PollsMeetDeadlines == Spec => PollMeetsDeadline
<1> DEFINE Step ==
      (KernelAt("scan") /\ frame' = "poll" /\ \A w \in d_waiters : w.ttd # 0)
        => \A w \in d_waiters : pollEnd' <= w.ttd \/ pollEnd' = now
<1>1. IInv /\ [Next]_vars => Step
  <2> SUFFICES ASSUME IInv, [Next]_vars, KernelAt("scan"), frame' = "poll",
                      \A w \in d_waiters : w.ttd # 0,
                      NEW w \in d_waiters
               PROVE  pollEnd' <= w.ttd \/ pollEnd' = now
    OBVIOUS
  <2>1. Poll
    <3>1. ~UNCHANGED vars
      BY DEF vars, KernelAt
    <3>2. ~ScanWake
      BY DEF ScanWake, Wake, SwitchTo
    <3>3. ~ScheduleRun /\ ~ScheduleReap /\ ~ScheduleScan /\ ~PollReturn /\ ~MakeThread
      BY DEF ScheduleRun, ScheduleReap, ScheduleScan, PollReturn, MakeThread, KernelAt
    <3>4. \A v \in d_waiters, val \in Vals : ~SendEvent(v.key, val)
      BY DEF SendEvent, KernelAt
    <3>5. \A t \in Tids : ~MThreadStep(t)
      BY DEF MThreadStep, WaitReturn, WaitEventError, WaitEvent, Yield, Finish, Active,
             KernelAt, Kernel, Tids
    <3>6. ~Tick
      BY DEF Tick, KernelAt
    <3> QED
      BY <3>1, <3>2, <3>3, <3>4, <3>5, <3>6 DEF Next, KernelStep, Handlers
  <2>2. PICK v \in d_waiters :
          FirstByTtd(v) /\ pollEnd' = now + NextWaiterDelay(v, DefDelay)
    BY <2>1 DEF Poll
  <2>3. v.ttd \in Nat /\ w.ttd \in Nat /\ now \in Nat /\ v.ttd # 0 /\ v.ttd <= w.ttd
    BY <2>2 DEF IInv, TypeOK, Waiters, FirstByTtd
  <2> QED
    BY <2>2, <2>3 DEF NextWaiterDelay
<1> QED
  BY <1>1, Invariance, PTL DEF Spec, PollMeetsDeadline

-----------------------------------------------------------------------------
(* No mthread is lost *)

\* An mthread whose stack is ready, or that ended, is in its queue.
NoneMissing ==
  /\ \A t \in Tids :
       pc[t] = "ready" => \E i \in First .. Len(d_runQueue) : d_runQueue[i] = t
  /\ \A t \in Tids :
       pc[t] = "zombie" => \E i \in 1 .. Len(d_zombiesQueue) : d_zombiesQueue[i] = t

\* A step that leaves the queues alone makes nobody ready.
LEMMA SameQueues ==
  ASSUME NoneMissing, UNCHANGED <<d_runQueue, d_zombiesQueue>>,
         (frame = "run") <=> (frame' = "run"),
         \A t \in Tids : pc'[t] \in {"ready", "zombie"} => pc'[t] = pc[t]
  PROVE  NoneMissing'
  BY DEF NoneMissing, First

\* An mthread that gives control back leaves the others where they are.
LEMMA LeftBehind ==
  ASSUME TypeOK, OneRunning, QueuesMatch, NoneMissing, running # Kernel,
         SwitchToKernel(d_runQueue) \/ SwitchToKernel(Requeued),
         NEW t \in Tids, pc[t] = "ready"
  PROVE  /\ First' = 1
         /\ \E i \in 1 .. Len(d_runQueue') : d_runQueue'[i] = t
<1>1. First' = 1
  <2>1. frame' # "run"
    BY SwitchLeavesRest, SwitchAppends
  <2> QED
    BY <2>1 DEF First
<1>2. PICK k \in First .. Len(d_runQueue) : d_runQueue[k] = t
  BY DEF NoneMissing
<1>3. First \in {1, 2} /\ Len(d_runQueue) \in Nat
  BY DEF First, TypeOK
<1>4. CASE SwitchToKernel(d_runQueue)
  <2>1. /\ Len(d_runQueue') = Len(d_runQueue) - (First - 1)
        /\ \A i \in 1 .. Len(d_runQueue') :
             \E j \in First .. Len(d_runQueue) :
               j = i + (First - 1) /\ d_runQueue'[i] = d_runQueue[j]
    BY <1>4, SwitchLeavesRest
  <2>2. k - (First - 1) \in 1 .. Len(d_runQueue')
    BY <1>3, <2>1
  <2>3. d_runQueue'[k - (First - 1)] = d_runQueue[k]
    BY <1>3, <2>1, <2>2
  <2> QED
    BY <1>1, <1>2, <2>2, <2>3
<1>5. CASE SwitchToKernel(Requeued)
  <2>1. /\ Len(d_runQueue') = Len(d_runQueue) - (First - 1) + 1
        /\ \A i \in 1 .. Len(d_runQueue') - 1 :
             \E j \in First .. Len(d_runQueue) :
               j = i + (First - 1) /\ d_runQueue'[i] = d_runQueue[j]
    BY <1>5, SwitchAppends
  <2>2. /\ k - (First - 1) \in 1 .. Len(d_runQueue') - 1
        /\ k - (First - 1) \in 1 .. Len(d_runQueue')
    BY <1>3, <2>1
  <2>3. d_runQueue'[k - (First - 1)] = d_runQueue[k]
    BY <1>3, <2>1, <2>2
  <2> QED
    BY <1>1, <1>2, <2>2, <2>3
<1> QED
  BY <1>4, <1>5

LEMMA NoneMissingNext ==
  ASSUME IInv, NoneMissing, [Next]_vars
  PROVE  NoneMissing'
<1> USE DEF IInv, Kernel, KernelAt, Active
<1>0. /\ d_runQueue \in Seq(Tids) /\ d_zombiesQueue \in Seq(Tids)
      /\ pc \in [Tids -> PCs]
  BY DEF TypeOK
<1>1. CASE ScheduleRun
  <2> DEFINE h == Head(d_runQueue)
  <2>1. /\ d_runQueue' = d_runQueue /\ d_zombiesQueue' = d_zombiesQueue
        /\ First = 1 /\ First' = 2 /\ d_runQueue # <<>>
        /\ pc' = [pc EXCEPT ![h] = "active"]
    BY <1>1 DEF ScheduleRun, SwitchTo, First
  <2>2. h = d_runQueue[1] /\ h \in Tids
    BY <1>0, <2>1
  <2> HIDE DEF h
  <2>3. ASSUME NEW t \in Tids, pc'[t] = "ready"
        PROVE  \E i \in 2 .. Len(d_runQueue) : d_runQueue[i] = t
    <3>1. t # h /\ pc[t] = "ready"
      BY <1>0, <2>1, <2>3
    <3>2. PICK i \in 1 .. Len(d_runQueue) : d_runQueue[i] = t
      BY <2>1, <3>1 DEF NoneMissing
    <3>3. i \in 2 .. Len(d_runQueue)
      BY <1>0, <2>2, <3>1, <3>2
    <3> QED
      BY <3>2, <3>3
  <2>4. \A t \in Tids : pc'[t] = "zombie" => pc[t] = "zombie"
    BY <1>0, <2>1
  <2> QED
    BY <2>1, <2>3, <2>4 DEF NoneMissing
<1>2. CASE ScheduleReap
  <2> DEFINE h == Head(d_zombiesQueue)
  <2>1. /\ d_runQueue' = d_runQueue /\ d_zombiesQueue' = Tail(d_zombiesQueue)
        /\ First' = First /\ d_zombiesQueue # <<>>
        /\ pc' = [pc EXCEPT ![h] = "gone"]
    BY <1>2 DEF ScheduleReap, First
  <2>2. /\ h = d_zombiesQueue[1] /\ h \in Tids
        /\ \A i \in 1 .. Len(d_zombiesQueue) :
             i # 1 => /\ i - 1 \in 1 .. Len(d_zombiesQueue')
                      /\ d_zombiesQueue'[i - 1] = d_zombiesQueue[i]
    BY <1>0, <2>1
  <2> HIDE DEF h
  <2>3. ASSUME NEW t \in Tids, pc'[t] = "zombie"
        PROVE  \E i \in 1 .. Len(d_zombiesQueue') : d_zombiesQueue'[i] = t
    <3>1. t # h /\ pc[t] = "zombie"
      BY <1>0, <2>1, <2>3
    <3>2. PICK i \in 1 .. Len(d_zombiesQueue) : d_zombiesQueue[i] = t
      BY <3>1 DEF NoneMissing
    <3> QED
      BY <2>2, <3>1, <3>2
  <2>4. \A t \in Tids : pc'[t] = "ready" => pc[t] = "ready"
    BY <1>0, <2>1
  <2> QED
    BY <2>1, <2>3, <2>4 DEF NoneMissing
<1>3. CASE ScheduleScan \/ Poll \/ PollReturn
  BY <1>3, SameQueues DEF ScheduleScan, Poll, PollReturn
<1>4. ASSUME NEW w \in d_waiters, NEW status,
             Wake(w, status, "scan") \/ Wake(w, status, "send"),
             frame # "run", UNCHANGED <<d_runQueue, d_zombiesQueue>>
      PROVE  NoneMissing'
  <2>1. w.tid \in Tids /\ pc' = [pc EXCEPT ![w.tid] = "returning"] /\ frame' # "run"
    BY <1>4 DEF Wake, SwitchTo, TypeOK, Waiters
  <2>2. \A t \in Tids : pc'[t] \in {"ready", "zombie"} => pc'[t] = pc[t]
    BY <1>0, <2>1
  <2> QED
    BY <1>4, <2>1, <2>2, SameQueues
<1>5. CASE ScanWake
  <2>1. frame # "run" /\ UNCHANGED <<d_runQueue, d_zombiesQueue>>
    BY <1>5 DEF ScanWake
  <2> QED
    BY <1>4, <1>5, <2>1 DEF ScanWake
<1>6. ASSUME NEW key, NEW val, SendEvent(key, val) PROVE NoneMissing'
  <2>1. frame # "run" /\ UNCHANGED <<d_runQueue, d_zombiesQueue>>
    BY <1>6 DEF SendEvent
  <2> QED
    BY <1>4, <1>6, <2>1 DEF SendEvent
<1>7. CASE MakeThread
  <2>1. /\ d_runQueue' = Append(d_runQueue, d_maxtid)
        /\ d_zombiesQueue' = d_zombiesQueue
        /\ First = 1 /\ First' = 1 /\ d_maxtid \in Tids
        /\ pc' = [pc EXCEPT ![d_maxtid] = "ready"]
    BY <1>7 DEF MakeThread, First, TypeOK, Tids
  <2>2. /\ Len(d_runQueue') = Len(d_runQueue) + 1 /\ Len(d_runQueue) \in Nat
        /\ \A i \in 1 .. Len(d_runQueue) : d_runQueue'[i] = d_runQueue[i]
        /\ d_runQueue'[Len(d_runQueue')] = d_maxtid
    BY <1>0, <2>1
  <2>3. ASSUME NEW t \in Tids, pc'[t] = "ready"
        PROVE  \E i \in 1 .. Len(d_runQueue') : d_runQueue'[i] = t
    <3>1. CASE t = d_maxtid
      BY <2>2, <3>1
    <3>2. CASE t # d_maxtid
      <4>1. pc[t] = "ready"
        BY <1>0, <2>1, <2>3, <3>2
      <4>2. PICK i \in 1 .. Len(d_runQueue) : d_runQueue[i] = t
        BY <2>1, <4>1 DEF NoneMissing
      <4> QED
        BY <2>2, <4>2
    <3> QED
      BY <3>1, <3>2
  <2>4. \A t \in Tids : pc'[t] = "zombie" => pc[t] = "zombie"
    BY <1>0, <2>1
  <2> QED
    BY <2>1, <2>3, <2>4 DEF NoneMissing
<1>8. ASSUME NEW t \in Tids, NEW key, NEW timeout, WaitEvent(t, key, timeout)
      PROVE  NoneMissing'
  <2>1. /\ running # -1 /\ SwitchToKernel(d_runQueue) /\ d_zombiesQueue' = d_zombiesQueue
        /\ pc' = [pc EXCEPT ![t] = "waiting"]
    BY <1>8 DEF WaitEvent, Tids
  <2>2. \A u \in Tids : /\ pc'[u] = "ready" => pc[u] = "ready"
                        /\ pc'[u] = "zombie" => pc[u] = "zombie"
    BY <1>0, <2>1
  <2>3. \A u \in Tids : pc[u] = "ready" =>
          First' = 1 /\ \E i \in 1 .. Len(d_runQueue') : d_runQueue'[i] = u
    BY <2>1, LeftBehind
  <2> QED
    BY <2>1, <2>2, <2>3 DEF NoneMissing
<1>9. ASSUME NEW t \in Tids, Yield(t) PROVE NoneMissing'
  <2>1. /\ running # -1 /\ SwitchToKernel(Requeued) /\ d_zombiesQueue' = d_zombiesQueue
        /\ pc' = [pc EXCEPT ![t] = "ready"] /\ d_tid = t
    BY <1>9 DEF Yield, Tids, OneRunning
  <2>2. \A u \in Tids : /\ pc'[u] = "ready" => pc[u] = "ready" \/ u = t
                        /\ pc'[u] = "zombie" => pc[u] = "zombie"
    BY <1>0, <2>1
  <2>3. \A u \in Tids : pc[u] = "ready" =>
          \E i \in 1 .. Len(d_runQueue') : d_runQueue'[i] = u
    BY <2>1, LeftBehind
  <2>4. /\ First' = 1 /\ d_runQueue'[Len(d_runQueue')] = t
        /\ Len(d_runQueue') \in 1 .. Len(d_runQueue')
    <3>1. /\ frame' # "run" /\ d_runQueue'[Len(d_runQueue')] = t
          /\ Len(d_runQueue') = Len(d_runQueue) - (First - 1) + 1
      BY <2>1, SwitchAppends
    <3>2. Len(d_runQueue) \in Nat /\ (frame = "run" => Len(d_runQueue) >= 1)
      BY <1>0 DEF QueuesMatch
    <3>3. Len(d_runQueue') >= 1 /\ Len(d_runQueue') \in Nat
      BY <3>1, <3>2 DEF First
    <3> QED
      BY <3>1, <3>3 DEF First
  <2> QED
    BY <2>1, <2>2, <2>3, <2>4 DEF NoneMissing
<1>10. ASSUME NEW t \in Tids, Finish(t) PROVE NoneMissing'
  <2>1. /\ running # -1 /\ SwitchToKernel(d_runQueue)
        /\ d_zombiesQueue' = Append(d_zombiesQueue, t)
        /\ pc' = [pc EXCEPT ![t] = "zombie"]
    BY <1>10 DEF Finish, Tids
  <2>2. /\ Len(d_zombiesQueue') = Len(d_zombiesQueue) + 1 /\ Len(d_zombiesQueue) \in Nat
        /\ \A i \in 1 .. Len(d_zombiesQueue) : d_zombiesQueue'[i] = d_zombiesQueue[i]
        /\ d_zombiesQueue'[Len(d_zombiesQueue')] = t
    BY <1>0, <2>1
  <2>3. \A u \in Tids : /\ pc'[u] = "ready" => pc[u] = "ready"
                        /\ pc'[u] = "zombie" => pc[u] = "zombie" \/ u = t
    BY <1>0, <2>1
  <2>4. \A u \in Tids : pc[u] = "ready" =>
          First' = 1 /\ \E i \in 1 .. Len(d_runQueue') : d_runQueue'[i] = u
    BY <2>1, LeftBehind
  <2>5. \A u \in Tids : pc'[u] = "zombie" =>
          \E i \in 1 .. Len(d_zombiesQueue') : d_zombiesQueue'[i] = u
    BY <2>2, <2>3 DEF NoneMissing
  <2> QED
    BY <2>3, <2>4, <2>5 DEF NoneMissing
<1>11. ASSUME NEW t \in Tids, WaitReturn(t) PROVE NoneMissing'
  <2>1. /\ UNCHANGED <<d_runQueue, d_zombiesQueue, frame>>
        /\ pc' = [pc EXCEPT ![t] = "active"]
    BY <1>11 DEF WaitReturn
  <2>2. \A u \in Tids : pc'[u] \in {"ready", "zombie"} => pc'[u] = pc[u]
    BY <1>0, <2>1
  <2> QED
    BY <2>1, <2>2, SameQueues
<1>12. ASSUME NEW t \in Tids, NEW key, WaitEventError(t, key) PROVE NoneMissing'
  BY <1>12, SameQueues DEF WaitEventError
<1>13. CASE Tick \/ UNCHANGED vars
  BY <1>13, SameQueues DEF Tick, vars
<1> QED
  BY <1>1, <1>2, <1>3, <1>5, <1>6, <1>7, <1>8, <1>9, <1>10, <1>11, <1>12, <1>13
  DEF Next, KernelStep, Handlers, MThreadStep

\* A queue without repetitions holds an mthread once or not at all.
LEMMA OccurrencesOnce ==
  ASSUME NEW q \in Seq(Tids), NEW t,
         \A i, j \in 1 .. Len(q) : q[i] = q[j] => i = j
  PROVE  /\ (\E i \in 1 .. Len(q) : q[i] = t) => Occurrences(q, t) = 1
         /\ (\A i \in 1 .. Len(q) : q[i] # t) => Occurrences(q, t) = 0
<1> DEFINE at == {i \in DOMAIN q : q[i] = t}
<1>0. DOMAIN q = 1 .. Len(q)
  OBVIOUS
<1>1. ASSUME NEW i \in 1 .. Len(q), q[i] = t PROVE Occurrences(q, t) = 1
  <2>1. at = {i}
    BY <1>0, <1>1
  <2> QED
    BY <2>1, FS_Singleton DEF Occurrences
<1>2. ASSUME \A i \in 1 .. Len(q) : q[i] # t PROVE Occurrences(q, t) = 0
  <2>1. at = {}
    BY <1>0, <1>2
  <2> QED
    BY <2>1, FS_EmptySet DEF Occurrences
<1> QED
  BY <1>1, <1>2

\* Every mthread with a stack is in one place.
LEMMA PlacesAreOne == IInv /\ NoneMissing => OnePlace
<1> SUFFICES ASSUME IInv, NoneMissing, NEW t \in d_threads
             PROVE  Occurrences(EffectiveRunQueue, t) + Occurrences(d_zombiesQueue, t)
                      + Cardinality({w \in d_waiters : w.tid = t})
                      + (IF running = t THEN 1 ELSE 0) = 1
  BY DEF OnePlace
<1> USE DEF IInv
<1> DEFINE q == EffectiveRunQueue
           z == d_zombiesQueue
           mine == {w \in d_waiters : w.tid = t}
<1>0. /\ t \in Tids /\ pc[t] \in {"ready", "active", "returning", "waiting", "zombie"}
      /\ d_runQueue \in Seq(Tids) /\ z \in Seq(Tids) /\ t # Kernel
  BY DEF TypeOK, ThreadsMatch, PCs, Tids, Kernel
<1>1. /\ q \in Seq(Tids)
      /\ Len(q) = Len(d_runQueue) - (First - 1)
      /\ \A i \in 1 .. Len(q) : i + (First - 1) \in First .. Len(d_runQueue)
                                /\ q[i] = d_runQueue[i + (First - 1)]
  <2>1. CASE frame = "run"
    BY <1>0, <2>1 DEF EffectiveRunQueue, First, QueuesMatch
  <2>2. CASE frame # "run"
    BY <1>0, <2>2 DEF EffectiveRunQueue, First
  <2> QED
    BY <2>1, <2>2
<1>2. First \in {1, 2} /\ Len(d_runQueue) \in Nat /\ Len(q) \in Nat
  BY <1>0, <1>1 DEF First
<1> HIDE DEF q
<1>3. \A i, j \in 1 .. Len(q) : q[i] = q[j] => i = j
  <2> SUFFICES ASSUME NEW i \in 1 .. Len(q), NEW j \in 1 .. Len(q), q[i] = q[j]
               PROVE  i = j
    OBVIOUS
  <2>1. i + (First - 1) = j + (First - 1)
    BY <1>1 DEF QueuesMatch
  <2> QED
    BY <1>2, <2>1
<1>4. (pc[t] = "ready" => Occurrences(q, t) = 1)
      /\ (pc[t] # "ready" => Occurrences(q, t) = 0)
  <2>1. ASSUME pc[t] = "ready" PROVE \E i \in 1 .. Len(q) : q[i] = t
    <3>1. PICK k \in First .. Len(d_runQueue) : d_runQueue[k] = t
      BY <1>0, <2>1 DEF NoneMissing
    <3>2. k - (First - 1) \in 1 .. Len(q) /\ (k - (First - 1)) + (First - 1) = k
      BY <1>1, <1>2
    <3> QED
      BY <1>1, <3>1, <3>2
  <2>2. ASSUME pc[t] # "ready" PROVE \A i \in 1 .. Len(q) : q[i] # t
    BY <1>1, <2>2 DEF QueuesMatch
  <2> QED
    BY <1>1, <1>3, <2>1, <2>2, OccurrencesOnce
<1>5. (pc[t] = "zombie" => Occurrences(z, t) = 1)
      /\ (pc[t] # "zombie" => Occurrences(z, t) = 0)
  <2>1. \A i, j \in 1 .. Len(z) : z[i] = z[j] => i = j
    BY DEF QueuesMatch
  <2>2. pc[t] = "zombie" => \E i \in 1 .. Len(z) : z[i] = t
    BY <1>0 DEF NoneMissing
  <2>3. pc[t] # "zombie" => \A i \in 1 .. Len(z) : z[i] # t
    BY DEF QueuesMatch
  <2> HIDE DEF z
  <2> QED
    BY <1>0, <2>1, <2>2, <2>3, OccurrencesOnce
<1>6. (pc[t] = "waiting" => Cardinality(mine) = 1)
      /\ (pc[t] # "waiting" => Cardinality(mine) = 0)
  <2>1. pc[t] = "waiting" => mine = {waiter[t]}
    BY <1>0 DEF WaitersMatch
  <2>2. pc[t] # "waiting" => mine = {}
    BY DEF WaitersMatch
  <2> QED
    BY <2>1, <2>2, FS_Singleton, FS_EmptySet
<1>7. running = t <=> pc[t] \in {"active", "returning"}
  BY <1>0 DEF OneRunning
<1> HIDE DEF z, mine
<1> QED
  BY <1>0, <1>4, <1>5, <1>6, <1>7 DEF q, z, mine

\* No mthread is lost and none can be switched to twice: each one that was made and
\* not buried is on the processor, in the run queue, among the waiters or among the
\* zombies, once.
THEOREM OnePlaceEach == Spec => []OnePlace
<1>1. Init => NoneMissing
  BY DEF Init, NoneMissing
<1>2. IInv /\ NoneMissing /\ [Next]_vars => NoneMissing'
  BY NoneMissingNext
<1>3. IInv /\ NoneMissing => OnePlace
  BY PlacesAreOne
<1> QED
  BY <1>1, <1>2, <1>3, Invariance, PTL DEF Spec
=============================================================================

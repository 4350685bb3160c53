-------------------------- MODULE DotProbesProofs --------------------------
(***************************************************************************)
(* Proofs about DotProbes, for any workers, addresses, waits and limit.    *)
(*                                                                         *)
(* The counter of probes is lowered by two hands: a probe that ends, when  *)
(* its address is still in the map, and the prune, for the entries it      *)
(* takes while they are busy.  The invariant says why they never lower it  *)
(* for the same probe, or for none: an address with a probe under way is   *)
(* in the map and not old, and the counter has a place for every busy      *)
(* address whose probe was taken away.                                     *)
(***************************************************************************)
EXTENDS DotProbes, TaskQueueProofs

\* Every task, queued or with a worker, is a probe.
OnlyProbes ==
  /\ \A i \in DOMAIN queue : queue[i].task = Probe(queue[i].task.name)
  /\ \A w \in Busy : job[w].task = Probe(job[w].task.name)

MapTypes ==
  /\ dotMap \in [Names -> Entries \cup {NoEntry}]
  /\ numBusy \in Int /\ numBusy <= MaxBusy
  /\ using \in [Workers -> Names \cup {NoJob}]
  /\ probed \in [Names -> Times \cup {-1}]

\* An address that is being probed is in the map, and its entry is not old.
ProbesKnown ==
  \A a \in Names : Outstanding(a) => a \in Known /\ now <= dotMap[a].ttd

\* Busy addresses whose probe was taken from the queue.
Lost == {a \in Names : Busied(a) /\ ~Outstanding(a)}

UnderWay == Len(queue) + Cardinality(Busy)

\* They keep their place in the counter until they are pruned.
PlacesKept ==
  /\ UnderWay + Cardinality(Lost) <= numBusy
  /\ removed = 0 => UnderWay = numBusy

\* An address that was probed is not forgotten for as long as it must not be probed.
Spaced(a) ==
  probed[a] >= 0 =>
    /\ probed[a] <= now
    /\ \/ now >= probed[a] + FailWait - MaxLag
       \/ /\ a \in Known /\ dotMap[a].status # "Unknown"
          /\ dotMap[a].ttd >= probed[a] + FailWait - MaxLag

AllSpaced == \A a \in Names : Spaced(a)

USE TaskQueueAssumption, DotProbesAssumption

-----------------------------------------------------------------------------
(* The steps *)

\* What is known of a time a resolution took for the present.
LEMMA LateTimes ==
  ASSUME TInv, NEW t \in Lately
  PROVE  /\ now \in Nat /\ t \in Nat /\ t <= now /\ now <= t + MaxLag
         /\ t + FailWait \in Nat /\ t + SuccessWait \in Nat
         /\ now <= t + FailWait /\ now <= t + SuccessWait
<1>1. now \in Nat /\ t \in Nat /\ t <= now /\ now <= t + MaxLag
  BY DEF TInv, TypeOK, Lately, Times
<1> QED
  BY <1>1

\* A step is one of these.
LEMMA DotCases ==
  ASSUME [DotNext]_allVars
  PROVE  \/ (TaskQueueClear \/ TaskQueuePop) /\ UNCHANGED dotVars
         \/ ProbesInTime /\ Tick /\ UNCHANGED dotVars
         \/ PruneDoTProbeMap
         \/ \E w \in Workers : (CountPush(w) \/ Pop(w) \/ Run(w)) /\ UNCHANGED dotVars
         \/ \E w \in Workers, t \in Lately, ok \in BOOLEAN :
              ProbeDone(w, ok, t) \/ DoTAnswered(w, ok, t)
         \/ \E w \in Workers, a \in Names :
              \/ DoTtoAuth(w, a)
              \/ \E t \in Lately : SubmitTryDot(w, a, t) \/ ShouldDoDoT(w, a, t)
         \/ UNCHANGED allVars
  BY DEF DotNext, Others, QueueStep, DotStep, DotUse

\* A submission finds a reason not to probe, or pushes.
LEMMA SubmitCases ==
  ASSUME NEW w, NEW a, NEW t, SubmitTryDot(w, a, t)
  PROVE  /\ using' = using /\ numBusy < MaxBusy
         /\ LET entry == Emplaced(a, t)
            IN  \/ /\ Skipped(entry, t)
                   /\ dotMap' = [dotMap EXCEPT ![a] = entry]
                   /\ UNCHANGED <<vars, numBusy, probed>>
                \/ /\ ~Skipped(entry, t) /\ PushTryDoT(w, a)
                   /\ Queued(Probe(a))
                   /\ dotMap' = [dotMap EXCEPT ![a] = Submitted(entry, FALSE, t)]
                   /\ UNCHANGED <<numBusy, probed>>
                \/ /\ ~Skipped(entry, t) /\ PushTryDoT(w, a)
                   /\ ~Queued(Probe(a))
                   /\ dotMap' = [dotMap EXCEPT ![a] = Submitted(entry, TRUE, t)]
                   /\ numBusy' = numBusy + 1
                   /\ probed' = [probed EXCEPT ![a] = now]
<1>1. CASE Skipped(Emplaced(a, t), t)
  BY <1>1 DEF SubmitTryDot, RoomForProbe
<1>2. CASE ~Skipped(Emplaced(a, t), t) /\ Queued(Probe(a))
  BY <1>2 DEF SubmitTryDot, RoomForProbe, Counts
<1>3. CASE ~Skipped(Emplaced(a, t), t) /\ ~Queued(Probe(a))
  BY <1>3 DEF SubmitTryDot, RoomForProbe, Counts
<1> QED
  BY <1>1, <1>2, <1>3

\* Every step is one of TaskQueue.
LEMMA QueueSteps == [DotNext]_allVars => [Next]_vars
<1> SUFFICES ASSUME [DotNext]_allVars PROVE [Next]_vars
  OBVIOUS
<1>1. CASE TaskQueueClear \/ TaskQueuePop \/ Tick
  BY <1>1 DEF Next
<1>2. ASSUME NEW w \in Workers, CountPush(w) \/ Pop(w) \/ Run(w) PROVE Next
  BY <1>2 DEF Next, WorkerStep
<1>3. ASSUME NEW w \in Workers, NEW t, NEW ok \in BOOLEAN, ProbeDone(w, ok, t) PROVE Next
  BY <1>3 DEF ProbeDone, Next, WorkerStep
<1>4. ASSUME NEW w \in Workers, NEW a \in Names, PushTryDoT(w, a) PROVE Next
  BY <1>4 DEF Next, Pushing
<1>5. ASSUME NEW w \in Workers, NEW a \in Names, NEW t, SubmitTryDot(w, a, t)
      PROVE  Next \/ UNCHANGED vars
  BY <1>4, <1>5, SubmitCases
<1>6. CASE PruneDoTProbeMap \/ UNCHANGED allVars
  BY <1>6 DEF PruneDoTProbeMap, allVars
<1>7. ASSUME NEW w \in Workers, NEW a, NEW t, NEW ok,
             DoTAnswered(w, ok, t) \/ DoTtoAuth(w, a) \/ ShouldDoDoT(w, a, t)
      PROVE  UNCHANGED vars
  BY <1>7 DEF DoTAnswered, DoTtoAuth, ShouldDoDoT
<1> QED
  BY <1>1, <1>2, <1>3, <1>5, <1>6, <1>7, DotCases

-----------------------------------------------------------------------------
(* The map *)

\* What is put into the map is an entry.
LEMMA EntryTypes ==
  ASSUME MapTypes, TInv, NEW a \in Names, NEW t \in Lately
  PROVE  /\ Emplaced(a, t) \in Entries
         /\ \A entry \in Entries, pushed \in BOOLEAN :
              /\ Submitted(entry, pushed, t) \in Entries
              /\ Submitted(entry, pushed, t).ttd = t + FailWait
              /\ Submitted(entry, pushed, t).status
                   = IF pushed THEN "Busy" ELSE entry.status
         /\ a \in Known => dotMap[a] \in Entries
<1>1. t + FailWait \in Nat
  BY LateTimes
<1>2. a \in Known => dotMap[a] \in Entries
  BY DEF Known, MapTypes
<1>3. Emplaced(a, t) \in Entries
  BY <1>1, <1>2 DEF Emplaced, Entries
<1>4. ASSUME NEW entry \in Entries, NEW pushed \in BOOLEAN
      PROVE  /\ Submitted(entry, pushed, t) \in Entries
             /\ Submitted(entry, pushed, t).ttd = t + FailWait
             /\ Submitted(entry, pushed, t).status
                  = IF pushed THEN "Busy" ELSE entry.status
  <2>1. CASE pushed
    BY <1>1, <2>1 DEF Submitted, Entries
  <2>2. CASE ~pushed
    BY <1>1, <2>2 DEF Submitted, Entries
  <2> QED
    BY <2>1, <2>2
<1> QED
  BY <1>2, <1>3, <1>4

\* What an update leaves in the map.
LEMMA UpdatedTypes ==
  ASSUME MapTypes, TInv, NEW a, NEW t \in Lately, NEW ok \in BOOLEAN
  PROVE  /\ Updated(a, ok, t) \in [Names -> Entries \cup {NoEntry}]
         /\ \A b \in Names :
              b # a \/ b \notin Known => Updated(a, ok, t)[b] = dotMap[b]
         /\ a \in Known =>
              /\ Updated(a, ok, t)[a].status \in {"Good", "Bad"}
              /\ Updated(a, ok, t)[a].ttd \in Nat
              /\ Updated(a, ok, t)[a].ttd >= t + FailWait
              /\ Updated(a, ok, t)[a] # NoEntry
<1>1. CASE a \notin Known
  BY <1>1 DEF Updated, MapTypes
<1>2. CASE a \in Known
  <2> DEFINE st   == IF ok THEN "Good" ELSE "Bad"
             wait == t + (IF ok THEN SuccessWait ELSE FailWait)
             new  == [dotMap[a] EXCEPT !.status = st, !.ttd = wait]
  <2>1. a \in Names /\ dotMap[a] \in Entries
    BY <1>2 DEF Known, MapTypes
  <2>2. wait \in Nat /\ wait >= t + FailWait /\ st \in {"Good", "Bad"}
    BY LateTimes
  <2>3. Updated(a, ok, t) = [dotMap EXCEPT ![a] = new]
    BY <1>2 DEF Updated
  <2> HIDE DEF st, wait
  <2>4. new \in Entries /\ new.status = st /\ new.ttd = wait
    BY <2>1, <2>2 DEF Entries
  <2> HIDE DEF new
  <2>5. /\ Updated(a, ok, t) \in [Names -> Entries \cup {NoEntry}]
        /\ Updated(a, ok, t)[a] = new
        /\ \A b \in Names : b # a => Updated(a, ok, t)[b] = dotMap[b]
    BY <2>1, <2>3, <2>4 DEF MapTypes
  <2>6. new # NoEntry
    BY <2>4
  <2> QED
    BY <1>2, <2>2, <2>4, <2>5, <2>6
<1> QED
  BY <1>1, <1>2

\* The types of the map and the counter's limit.
LEMMA MapTypesNext ==
  ASSUME TInv, MapTypes, [DotNext]_allVars
  PROVE  MapTypes'
<1>1. CASE UNCHANGED dotVars
  BY <1>1 DEF MapTypes, dotVars
<1>2. ASSUME NEW w \in Workers, NEW a \in Names, NEW t \in Lately, SubmitTryDot(w, a, t)
      PROVE  MapTypes'
  <2> DEFINE entry == Emplaced(a, t)
  <2>1. /\ entry \in Entries
        /\ \A pushed \in BOOLEAN : Submitted(entry, pushed, t) \in Entries
    BY EntryTypes
  <2>2. now \in Times
    BY DEF TInv, TypeOK
  <2>3. /\ using' = using /\ numBusy < MaxBusy
        /\ \/ /\ dotMap' = [dotMap EXCEPT ![a] = entry]
              /\ UNCHANGED <<numBusy, probed>>
           \/ /\ dotMap' = [dotMap EXCEPT ![a] = Submitted(entry, FALSE, t)]
              /\ UNCHANGED <<numBusy, probed>>
           \/ /\ dotMap' = [dotMap EXCEPT ![a] = Submitted(entry, TRUE, t)]
              /\ numBusy' = numBusy + 1
              /\ probed' = [probed EXCEPT ![a] = now]
    BY <1>2, SubmitCases
  <2> HIDE DEF entry
  <2>4. /\ numBusy' \in Int /\ numBusy' <= MaxBusy
        /\ probed' \in [Names -> Times \cup {-1}]
    <3>1. numBusy' = numBusy \/ numBusy' = numBusy + 1
      BY <2>3
    <3>2. probed' = probed \/ probed' = [probed EXCEPT ![a] = now]
      BY <2>3
    <3>3. numBusy \in Int /\ probed \in [Names -> Times \cup {-1}]
      BY DEF MapTypes
    <3>4. numBusy' \in Int /\ numBusy' <= MaxBusy
      BY <2>3, <3>1, <3>3
    <3> QED
      BY <2>2, <3>2, <3>3, <3>4
  <2>5. dotMap' \in [Names -> Entries \cup {NoEntry}]
    BY <2>1, <2>3 DEF MapTypes
  <2> QED
    BY <2>3, <2>4, <2>5 DEF MapTypes
<1>3. ASSUME NEW w \in Workers, NEW a \in Names, NEW t \in Lately, ShouldDoDoT(w, a, t)
      PROVE  MapTypes'
  <2> DEFINE new == [dotMap[a] EXCEPT !.seen = TRUE]
  <2>1. dotMap[a] \in Entries
    BY <1>3 DEF ShouldDoDoT, Known, MapTypes
  <2>2. new \in Entries
    BY <2>1 DEF Entries
  <2>3. dotMap' = [dotMap EXCEPT ![a] = new]
    BY <1>3 DEF ShouldDoDoT
  <2>4. using' \in [Workers -> Names \cup {NoJob}]
    BY <1>3 DEF ShouldDoDoT, MapTypes
  <2> HIDE DEF new
  <2> QED
    BY <1>3, <2>2, <2>3, <2>4 DEF ShouldDoDoT, MapTypes
<1>4. ASSUME NEW w \in Workers, NEW a \in Names, DoTtoAuth(w, a) PROVE MapTypes'
  BY <1>4 DEF DoTtoAuth, MapTypes
<1>5. ASSUME NEW w \in Workers, NEW t \in Lately, NEW ok \in BOOLEAN,
             DoTAnswered(w, ok, t)
      PROVE  MapTypes'
  BY <1>5, UpdatedTypes DEF DoTAnswered, MapTypes
<1>6. ASSUME NEW w \in Workers, NEW t \in Lately, NEW ok \in BOOLEAN, ProbeDone(w, ok, t)
      PROVE  MapTypes'
  <2>1. dotMap' \in [Names -> Entries \cup {NoEntry}]
    BY <1>6, UpdatedTypes DEF ProbeDone
  <2>2. numBusy' \in Int /\ numBusy' <= MaxBusy
    BY <1>6 DEF ProbeDone, Lowered, MapTypes
  <2> QED
    BY <1>6, <2>1, <2>2 DEF ProbeDone, MapTypes
<1>7. CASE PruneDoTProbeMap
  <2> DEFINE gone == {a \in Old : dotMap[a].status = "Busy"}
  <2>1. IsFiniteSet(gone)
    <3>1. gone \subseteq Names
      BY DEF Old, Known
    <3> QED
      BY <3>1, FS_Subset
  <2>2. Cardinality(gone) \in Nat
    BY <2>1, FS_CardinalityType
  <2>3. numBusy' = numBusy - Cardinality(gone)
    BY <1>7 DEF PruneDoTProbeMap
  <2> HIDE DEF gone
  <2>4. numBusy' \in Int /\ numBusy' <= MaxBusy
    BY <2>2, <2>3 DEF MapTypes
  <2>5. dotMap' \in [Names -> Entries \cup {NoEntry}]
    BY <1>7 DEF PruneDoTProbeMap, MapTypes
  <2> QED
    BY <1>7, <2>4, <2>5 DEF PruneDoTProbeMap, MapTypes
<1>8. UNCHANGED allVars => UNCHANGED dotVars
  BY DEF allVars
<1> QED
  BY <1>1, <1>2, <1>3, <1>4, <1>5, <1>6, <1>7, <1>8, DotCases

-----------------------------------------------------------------------------
(* Which probes are under way *)

\* What taking a task from the queue leaves there.
LEMMA TailTasks ==
  ASSUME NEW S, NEW q \in Seq(S), q # <<>>
  PROVE  /\ Tail(q) \in Seq(S) /\ Len(Tail(q)) = Len(q) - 1
         /\ Head(q) = q[1] /\ 1 \in DOMAIN q
         /\ \A i \in DOMAIN Tail(q) : i + 1 \in DOMAIN q /\ Tail(q)[i] = q[i + 1]
         /\ \A i \in DOMAIN q : i # 1 => i - 1 \in DOMAIN Tail(q) /\ Tail(q)[i - 1] = q[i]
  OBVIOUS

\* A probe that is pushed is the last of the queue, and the rest stays.
LEMMA PushProbe ==
  ASSUME TInv, NEW w \in Workers, NEW a \in Names, PushTryDoT(w, a)
  PROVE  /\ UNCHANGED <<now, at, job, removed>> /\ Busy' = Busy
         /\ Queued(Probe(a)) => queue' = queue
         /\ ~Queued(Probe(a)) =>
              /\ Len(queue') = Len(queue) + 1
              /\ DOMAIN queue' = 1 .. Len(queue) + 1
              /\ \A i \in DOMAIN queue : queue'[i] = queue[i]
              /\ queue'[Len(queue) + 1].task = Probe(a)
<1>1. Push(Probe(a), Forever) /\ UNCHANGED <<now, at, job, removed>>
  BY DEF PushTryDoT, PushUnlimited, Probe, history
<1>2. Busy' = Busy
  BY <1>1 DEF Busy
<1>3. Probe(a) \in Tasks /\ Forever \in Nat
  BY DEF Probe, Tasks, Kinds, Forever
<1>4. queue \in Seq(Jobs)
  BY DEF TInv, TypeOK
<1>5. CASE Queued(Probe(a))
  BY <1>1, <1>2, <1>5 DEF Push, queueVars
<1>6. CASE ~Queued(Probe(a))
  <2> DEFINE new == [task |-> Probe(a), deadline |-> Forever]
  <2>1. queue' = Append(queue, new)
    BY <1>1, <1>6 DEF Push
  <2>2. new \in Jobs /\ new.task = Probe(a)
    BY <1>3 DEF Jobs
  <2> HIDE DEF new
  <2> QED
    BY <1>1, <1>2, <1>4, <1>6, <2>1, <2>2
<1> QED
  BY <1>5, <1>6

\* Tasks stay probes.
LEMMA OnlyProbesNext ==
  ASSUME TInv, OnlyProbes, [DotNext]_allVars
  PROVE  OnlyProbes'
<1>0. queue \in Seq(Jobs) /\ job \in [Workers -> Jobs \cup {NoJob}]
      /\ at \in [Workers -> {"idle", "popped", "running", "late"}]
  BY DEF TInv, TypeOK
<1> USE DEF Busy
<1>1. CASE UNCHANGED <<queue, at, job>>
  BY <1>1 DEF OnlyProbes
<1>2. ASSUME NEW w \in Workers, Pop(w) PROVE OnlyProbes'
  BY <1>0, <1>2, TailTasks DEF Pop, HasTask, OnlyProbes
<1>3. ASSUME NEW w \in Workers, Run(w) PROVE OnlyProbes'
  BY <1>0, <1>3 DEF Run, OnlyProbes, queueVars
<1>4. ASSUME NEW w \in Workers, NEW t, NEW ok, ProbeDone(w, ok, t) PROVE OnlyProbes'
  BY <1>0, <1>4 DEF ProbeDone, RunDone, OnlyProbes, queueVars
<1>5. CASE TaskQueueClear
  BY <1>5 DEF TaskQueueClear, OnlyProbes
<1>6. CASE TaskQueuePop
  BY <1>0, <1>6, TailTasks DEF TaskQueuePop, OnlyProbes
<1>7. ASSUME NEW w \in Workers, NEW a \in Names, PushTryDoT(w, a) PROVE OnlyProbes'
  <2>1. CASE Queued(Probe(a))
    BY <1>1, <1>7, <2>1, PushProbe
  <2>2. CASE ~Queued(Probe(a))
    <3>1. Probe(a).name = a
      BY DEF Probe
    <3>2. \A i \in DOMAIN queue' :
            queue'[i].task = Probe(a) \/ (i \in DOMAIN queue /\ queue'[i] = queue[i])
      BY <1>0, <1>7, <2>2, PushProbe
    <3> QED
      BY <1>7, <2>2, <3>1, <3>2, PushProbe DEF OnlyProbes
  <2> QED
    BY <2>1, <2>2
<1>8. ASSUME NEW w \in Workers, NEW a \in Names, NEW t, SubmitTryDot(w, a, t)
      PROVE  OnlyProbes'
  BY <1>1, <1>7, <1>8, SubmitCases DEF vars, queueVars
<1>9. ASSUME NEW w \in Workers, NEW a, NEW t, NEW ok,
             DoTAnswered(w, ok, t) \/ DoTtoAuth(w, a) \/ ShouldDoDoT(w, a, t)
               \/ CountPush(w)
      PROVE  UNCHANGED <<queue, at, job>>
  BY <1>9 DEF DoTAnswered, DoTtoAuth, ShouldDoDoT, CountPush, vars, queueVars
<1>10. CASE PruneDoTProbeMap \/ Tick \/ UNCHANGED allVars
  BY <1>1, <1>10 DEF PruneDoTProbeMap, Tick, allVars, vars, queueVars
<1> QED
  BY <1>1, <1>2, <1>3, <1>4, <1>5, <1>6, <1>8, <1>9, <1>10, DotCases

\* What the steps of the queue do to the probes under way.
LEMMA UnderWayPop ==
  ASSUME TInv, NEW w \in Workers, Pop(w), NEW a \in Names
  PROVE  Outstanding(a)' <=> Outstanding(a)
<1>0. queue \in Seq(Jobs) /\ job \in [Workers -> Jobs \cup {NoJob}]
      /\ at \in [Workers -> {"idle", "popped", "running", "late"}]
  BY DEF TInv, TypeOK
<1>1. /\ at[w] = "idle" /\ queue # <<>> /\ queue' = Tail(queue)
      /\ job' = [job EXCEPT ![w] = Head(queue)]
      /\ at' = [at EXCEPT ![w] = "popped"]
  BY DEF Pop, HasTask
<1>2. ASSUME Outstanding(a)' PROVE Outstanding(a)
  BY <1>0, <1>1, <1>2, TailTasks DEF Outstanding, Queued, Probes
<1>3. ASSUME Outstanding(a) PROVE Outstanding(a)'
  <2>1. CASE \E i \in DOMAIN queue : queue[i].task = Probe(a)
    <3>1. PICK i \in DOMAIN queue : queue[i].task = Probe(a)
      BY <2>1
    <3>2. CASE i = 1
      <4>1. at'[w] # "idle" /\ job'[w].task = Probe(a)
        BY <1>0, <1>1, <3>1, <3>2, TailTasks
      <4> QED
        BY <4>1 DEF Outstanding, Probes, Probe
    <3>3. CASE i # 1
      <4>1. i - 1 \in DOMAIN queue' /\ queue'[i - 1].task = Probe(a)
        BY <1>0, <1>1, <3>1, <3>3, TailTasks
      <4> QED
        BY <4>1 DEF Outstanding, Queued, Probe
    <3> QED
      BY <3>2, <3>3
  <2>2. CASE \E v \in Workers : at[v] # "idle" /\ job[v].task = Probe(a)
    <3>1. PICK v \in Workers : at[v] # "idle" /\ job[v].task = Probe(a)
      BY <2>2
    <3>2. at'[v] # "idle" /\ job'[v].task = Probe(a)
      BY <1>0, <1>1, <3>1
    <3> QED
      BY <3>2 DEF Outstanding, Probes, Probe
  <2> QED
    BY <1>3, <2>1, <2>2 DEF Outstanding, Queued, Probes
<1> QED
  BY <1>2, <1>3

LEMMA UnderWayRun ==
  ASSUME TInv, NEW w \in Workers, Run(w), NEW a \in Names
  PROVE  Outstanding(a)' <=> Outstanding(a)
<1>1. /\ queue' = queue /\ job' = job
      /\ \A v \in Workers : at'[v] # "idle" <=> at[v] # "idle"
  BY DEF Run, queueVars, TInv, TypeOK
<1> QED
  BY <1>1 DEF Outstanding, Queued, Probes, Probe

LEMMA UnderWayDone ==
  ASSUME TInv, OnlyProbes, NEW w \in Workers, NEW ok, RunDone(w, ok), NEW a \in Names
  PROVE  /\ Outstanding(a)' => Outstanding(a)
         /\ a # job[w].task.name /\ Outstanding(a) => Outstanding(a)'
<1>1. /\ queue' = queue /\ w \in Busy /\ at'[w] = "idle"
      /\ \A v \in Workers : v # w => at'[v] = at[v] /\ job'[v] = job[v]
  BY DEF RunDone, queueVars, Busy, TInv, TypeOK
<1>2. Outstanding(a)' => Outstanding(a)
  BY <1>1 DEF Outstanding, Queued, Probes, Probe
<1>3. ASSUME a # job[w].task.name, Outstanding(a) PROVE Outstanding(a)'
  <2>1. job[w].task # Probe(a)
    BY <1>1, <1>3 DEF OnlyProbes, Probe
  <2> QED
    BY <1>1, <1>3, <2>1 DEF Outstanding, Queued, Probes, Probe
<1> QED
  BY <1>2, <1>3

LEMMA UnderWayPush ==
  ASSUME TInv, NEW w \in Workers, NEW b \in Names, PushTryDoT(w, b), NEW a \in Names
  PROVE  /\ Outstanding(a) => Outstanding(a)'
         /\ Outstanding(a)' => Outstanding(a) \/ a = b
         /\ Outstanding(b)'
<1>0. queue \in Seq(Jobs)
  BY DEF TInv, TypeOK
<1>1. at' = at /\ job' = job
  BY PushProbe
<1>2. Probe(a) = Probe(b) => a = b
  BY DEF Probe
<1>3. CASE Queued(Probe(b))
  <2>1. queue' = queue
    BY <1>3, PushProbe
  <2> QED
    BY <1>1, <1>3, <2>1 DEF Outstanding, Queued, Probes, Probe
<1>4. CASE ~Queued(Probe(b))
  <2>1. /\ DOMAIN queue' = 1 .. Len(queue) + 1 /\ DOMAIN queue = 1 .. Len(queue)
        /\ \A i \in DOMAIN queue : queue'[i] = queue[i]
        /\ queue'[Len(queue) + 1].task = Probe(b)
    BY <1>0, <1>4, PushProbe
  <2>2. Len(queue) \in Nat
    BY <1>0
  <2>3. Queued(Probe(a)) => Queued(Probe(a))'
    BY <2>1, <2>2 DEF Queued, Probe
  <2>4. Queued(Probe(b))'
    BY <2>1, <2>2 DEF Queued, Probe
  <2>5. Queued(Probe(a))' => Queued(Probe(a)) \/ a = b
    <3>1. ASSUME NEW i \in DOMAIN queue', queue'[i].task = Probe(a)
          PROVE  Queued(Probe(a)) \/ a = b
      BY <1>2, <2>1, <2>2, <3>1 DEF Queued
    <3> QED
      BY <3>1 DEF Queued, Probe
  <2> QED
    BY <1>1, <2>3, <2>4, <2>5 DEF Outstanding, Probes, Probe
<1> QED
  BY <1>3, <1>4

LEMMA UnderWayTaken ==
  ASSUME TInv, OnlyProbes, NEW a \in Names
  PROVE  /\ TaskQueueClear =>
              /\ Outstanding(a)' => Outstanding(a)
              /\ Outstanding(a) =>
                   Outstanding(a)' \/ \E i \in DOMAIN queue : queue[i].task.name = a
         /\ TaskQueuePop =>
              /\ Outstanding(a)' => Outstanding(a)
              /\ Outstanding(a) => Outstanding(a)' \/ Head(queue).task.name = a
<1>0. queue \in Seq(Jobs) /\ Probe(a).name = a
  BY DEF TInv, TypeOK, Probe
<1>1. ASSUME TaskQueueClear
      PROVE  /\ Outstanding(a)' => Outstanding(a)
             /\ Outstanding(a) =>
                  Outstanding(a)' \/ \E i \in DOMAIN queue : queue[i].task.name = a
  <2>1. queue' = <<>> /\ at' = at /\ job' = job
    BY <1>1 DEF TaskQueueClear
  <2>2. ~Queued(Probe(a))'
    BY <2>1 DEF Queued, Probe
  <2>3. Queued(Probe(a)) => \E i \in DOMAIN queue : queue[i].task.name = a
    BY <1>0 DEF Queued
  <2> QED
    BY <2>1, <2>2, <2>3 DEF Outstanding, Probes, Probe
<1>2. ASSUME TaskQueuePop
      PROVE  /\ Outstanding(a)' => Outstanding(a)
             /\ Outstanding(a) => Outstanding(a)' \/ Head(queue).task.name = a
  <2>1. queue # <<>> /\ queue' = Tail(queue) /\ at' = at /\ job' = job
    BY <1>2 DEF TaskQueuePop
  <2>2. Queued(Probe(a))' => Queued(Probe(a))
    BY <1>0, <2>1, TailTasks DEF Queued, Probe
  <2>3. Queued(Probe(a)) => Queued(Probe(a))' \/ Head(queue).task.name = a
    <3>1. ASSUME NEW i \in DOMAIN queue, queue[i].task = Probe(a)
          PROVE  Queued(Probe(a))' \/ Head(queue).task.name = a
      <4>1. CASE i = 1
        BY <1>0, <2>1, <3>1, <4>1, TailTasks
      <4>2. CASE i # 1
        <5>1. i - 1 \in DOMAIN queue' /\ queue'[i - 1].task = Probe(a)
          BY <1>0, <2>1, <3>1, <4>2, TailTasks
        <5> QED
          BY <5>1 DEF Queued, Probe
      <4> QED
        BY <4>1, <4>2
    <3> QED
      BY <3>1 DEF Queued
  <2> QED
    BY <2>1, <2>2, <2>3 DEF Outstanding, Probes, Probe
<1> QED
  BY <1>1, <1>2

LEMMA UnderWaySame ==
  ASSUME UNCHANGED <<queue, at, job>>, NEW a \in Names
  PROVE  Outstanding(a)' <=> Outstanding(a)
  BY DEF Outstanding, Queued, Probes, Probe

-----------------------------------------------------------------------------
(* What is done to an entry *)

\* A submission leaves the other entries alone, and its own too, or gives it a
\* new end; a new entry is not busy.
LEMMA SubmitMap ==
  ASSUME TInv, MapTypes, NEW w \in Workers, NEW b \in Names, NEW t \in Lately,
         SubmitTryDot(w, b, t)
  PROVE  /\ \A a \in Names : a # b => dotMap'[a] = dotMap[a]
         /\ b \in Known'
         /\ \/ /\ UNCHANGED <<vars, numBusy, probed>>
               /\ \/ b \in Known /\ dotMap'[b] = dotMap[b]
                  \/ b \notin Known /\ dotMap'[b].status = "Unknown"
            \/ /\ PushTryDoT(w, b) /\ Queued(Probe(b)) /\ UNCHANGED <<numBusy, probed>>
               /\ dotMap'[b].ttd = t + FailWait
               /\ dotMap'[b].status # "Busy"
               /\ IF b \in Known THEN dotMap'[b].status = dotMap[b].status
                                 ELSE dotMap'[b].status = "Unknown"
            \/ /\ PushTryDoT(w, b) /\ ~Queued(Probe(b)) /\ numBusy' = numBusy + 1
               /\ probed' = [probed EXCEPT ![b] = now]
               /\ dotMap'[b].ttd = t + FailWait /\ dotMap'[b].status = "Busy"
               /\ b \in Known => /\ dotMap[b].status # "Busy"
                                 /\ dotMap[b].ttd <= t \/ dotMap[b].status = "Unknown"
<1> DEFINE entry == Emplaced(b, t)
           sub(pushed) == Submitted(entry, pushed, t)
<1>1. /\ entry \in Entries
      /\ \A pushed \in BOOLEAN :
           /\ sub(pushed) \in Entries /\ sub(pushed).ttd = t + FailWait
           /\ sub(pushed).status = IF pushed THEN "Busy" ELSE entry.status
  BY EntryTypes
<1>2. /\ b \in Known => entry = dotMap[b]
      /\ b \notin Known => entry.status = "Unknown"
  BY DEF Emplaced
<1>3. \/ /\ dotMap' = [dotMap EXCEPT ![b] = entry]
         /\ UNCHANGED <<vars, numBusy, probed>>
      \/ /\ ~Skipped(entry, t) /\ PushTryDoT(w, b) /\ Queued(Probe(b))
         /\ UNCHANGED <<numBusy, probed>>
         /\ dotMap' = [dotMap EXCEPT ![b] = sub(FALSE)]
      \/ /\ ~Skipped(entry, t) /\ PushTryDoT(w, b) /\ ~Queued(Probe(b))
         /\ numBusy' = numBusy + 1 /\ probed' = [probed EXCEPT ![b] = now]
         /\ dotMap' = [dotMap EXCEPT ![b] = sub(TRUE)]
  BY SubmitCases
<1>4. NoEntry \notin Entries /\ dotMap \in [Names -> Entries \cup {NoEntry}]
  BY DEF MapTypes
<1>5. t \in Nat /\ entry.ttd \in Nat
      /\ entry.status \in {"Unknown", "Busy", "Bad", "Good"}
  BY <1>1, LateTimes DEF Entries
<1>6. ~Skipped(entry, t) =>
         entry.status # "Busy" /\ (entry.ttd <= t \/ entry.status = "Unknown")
  BY <1>5 DEF Skipped
<1> HIDE DEF entry, sub
<1>7. PICK new \in Entries : dotMap' = [dotMap EXCEPT ![b] = new]
  BY <1>1, <1>3
<1>8. /\ \A a \in Names : a # b => dotMap'[a] = dotMap[a]
      /\ b \in Known'
  BY <1>4, <1>7 DEF Known
<1>9. CASE dotMap' = [dotMap EXCEPT ![b] = entry] /\ UNCHANGED <<vars, numBusy, probed>>
  <2>1. dotMap'[b] = entry
    BY <1>4, <1>9
  <2> QED
    BY <1>2, <1>8, <1>9, <2>1
<1>10. CASE /\ ~Skipped(entry, t) /\ PushTryDoT(w, b) /\ Queued(Probe(b))
            /\ UNCHANGED <<numBusy, probed>>
            /\ dotMap' = [dotMap EXCEPT ![b] = sub(FALSE)]
  <2>1. dotMap'[b] = sub(FALSE)
    BY <1>4, <1>10
  <2> QED
    BY <1>1, <1>2, <1>6, <1>8, <1>10, <2>1
<1>11. CASE /\ ~Skipped(entry, t) /\ PushTryDoT(w, b) /\ ~Queued(Probe(b))
            /\ numBusy' = numBusy + 1 /\ probed' = [probed EXCEPT ![b] = now]
            /\ dotMap' = [dotMap EXCEPT ![b] = sub(TRUE)]
  <2>1. dotMap'[b] = sub(TRUE)
    BY <1>4, <1>11
  <2> QED
    BY <1>1, <1>2, <1>6, <1>8, <1>11, <2>1
<1> QED
  BY <1>3, <1>9, <1>10, <1>11

\* A lookup that sees an address changes nothing else of it.
LEMMA SeenMap ==
  ASSUME TInv, MapTypes, NEW w \in Workers, NEW b \in Names, NEW t,
         ShouldDoDoT(w, b, t), NEW a \in Names
  PROVE  /\ a \in Known' <=> a \in Known
         /\ a \in Known => /\ dotMap'[a].status = dotMap[a].status
                           /\ dotMap'[a].ttd = dotMap[a].ttd
<1> DEFINE new == [dotMap[b] EXCEPT !.seen = TRUE]
<1>1. dotMap[b] \in Entries /\ b \in Known
  BY DEF ShouldDoDoT, Known, MapTypes
<1>2. new \in Entries /\ new.status = dotMap[b].status /\ new.ttd = dotMap[b].ttd
  BY <1>1 DEF Entries
<1>3. dotMap' = [dotMap EXCEPT ![b] = new]
  BY DEF ShouldDoDoT
<1> HIDE DEF new
<1> QED
  BY <1>1, <1>2, <1>3 DEF Known, MapTypes

\* An address with a probe under way stays in the map, and its entry is not old.
LEMMA ProbesKnownNext ==
  ASSUME TInv, OnlyProbes, MapTypes, ProbesKnown, [DotNext]_allVars
  PROVE  ProbesKnown'
<1> SUFFICES ASSUME NEW a \in Names, Outstanding(a)'
             PROVE  a \in Known' /\ now' <= dotMap'[a].ttd
  BY DEF ProbesKnown
<1>0. Outstanding(a) => a \in Known /\ now <= dotMap[a].ttd
  BY DEF ProbesKnown
<1>1. CASE (Outstanding(a)' => Outstanding(a)) /\ now' = now /\ dotMap' = dotMap
  BY <1>0, <1>1 DEF Known
<1>2. CASE (TaskQueueClear \/ TaskQueuePop) /\ UNCHANGED dotVars
  <2>1. now' = now /\ dotMap' = dotMap
    BY <1>2 DEF TaskQueueClear, TaskQueuePop, dotVars
  <2> QED
    BY <1>1, <1>2, <2>1, UnderWayTaken
<1>3. CASE ProbesInTime /\ Tick /\ UNCHANGED dotVars
  <2>1. /\ UNCHANGED <<queue, at, job>> /\ now' = now + 1 /\ dotMap' = dotMap
        /\ now \in Nat
    BY <1>3 DEF Tick, queueVars, dotVars, TInv, TypeOK, Times
  <2>2. Outstanding(a) /\ a \in Known
    BY <1>0, <2>1, UnderWaySame
  <2>3. now < dotMap[a].ttd /\ dotMap[a].ttd \in Nat
    BY <1>3, <2>2 DEF ProbesInTime, Known, MapTypes, Entries
  <2> QED
    BY <2>1, <2>2, <2>3 DEF Known
<1>4. CASE PruneDoTProbeMap
  <2>1. UNCHANGED <<queue, at, job, now>>
    BY <1>4 DEF PruneDoTProbeMap, vars, queueVars
  <2>2. a \in Known /\ now <= dotMap[a].ttd
    BY <1>0, <2>1, UnderWaySame
  <2>3. now \in Nat /\ dotMap[a].ttd \in Nat
    BY <2>2 DEF TInv, TypeOK, Times, Known, MapTypes, Entries
  <2>4. a \notin Old
    BY <2>2, <2>3 DEF Old
  <2>5. dotMap'[a] = dotMap[a]
    BY <1>4, <2>4 DEF PruneDoTProbeMap
  <2> QED
    BY <2>1, <2>2, <2>5 DEF Known
<1>5. ASSUME NEW w \in Workers, CountPush(w) \/ Pop(w) \/ Run(w), UNCHANGED dotVars
      PROVE  (Outstanding(a)' => Outstanding(a)) /\ now' = now /\ dotMap' = dotMap
  <2>1. now' = now /\ dotMap' = dotMap
    BY <1>5 DEF CountPush, Pop, Run, dotVars
  <2>2. CountPush(w) => UNCHANGED <<queue, at, job>>
    BY DEF CountPush, queueVars
  <2> QED
    BY <1>5, <2>1, <2>2, UnderWaySame, UnderWayPop, UnderWayRun
<1>6. ASSUME NEW w \in Workers, NEW t \in Lately, NEW ok \in BOOLEAN,
             ProbeDone(w, ok, t) \/ DoTAnswered(w, ok, t)
      PROVE  a \in Known' /\ now' <= dotMap'[a].ttd
  <2>1. PICK b : dotMap' = Updated(b, ok, t)
    BY <1>6 DEF ProbeDone, DoTAnswered
  <2>2. now' = now /\ (Outstanding(a)' => Outstanding(a))
    <3>1. CASE ProbeDone(w, ok, t)
      BY <3>1, UnderWayDone DEF ProbeDone, RunDone
    <3>2. CASE DoTAnswered(w, ok, t)
      BY <3>2, UnderWaySame DEF DoTAnswered, vars, queueVars
    <3> QED
      BY <1>6, <3>1, <3>2
  <2>3. a \in Known /\ now <= dotMap[a].ttd
    BY <1>0, <2>2
  <2>4. CASE a # b
    <3>1. dotMap'[a] = dotMap[a]
      BY <2>1, <2>4, UpdatedTypes
    <3> QED
      BY <2>2, <2>3, <3>1 DEF Known
  <2>5. CASE a = b
    <3>1. /\ dotMap'[a] # NoEntry /\ dotMap'[a].ttd \in Nat
          /\ dotMap'[a].ttd >= t + FailWait
      BY <2>1, <2>3, <2>5, UpdatedTypes
    <3>2. now \in Nat /\ t + FailWait \in Nat /\ now <= t + FailWait
      BY LateTimes
    <3> QED
      BY <2>2, <3>1, <3>2 DEF Known
  <2> QED
    BY <2>4, <2>5
<1>7. ASSUME NEW w \in Workers, NEW b \in Names, NEW t \in Lately, SubmitTryDot(w, b, t)
      PROVE  a \in Known' /\ now' <= dotMap'[a].ttd
  <2>1. now \in Nat /\ t + FailWait \in Nat /\ now <= t + FailWait
    BY LateTimes
  <2>2. PushTryDoT(w, b) \/ UNCHANGED vars
    BY <1>7, SubmitCases
  <2>3. now' = now
    BY <2>2, PushProbe DEF vars
  <2>4. CASE a # b
    <3>1. dotMap'[a] = dotMap[a]
      BY <1>7, <2>4, SubmitMap
    <3>2. Outstanding(a)
      BY <2>2, <2>4, UnderWayPush, UnderWaySame DEF vars, queueVars
    <3> QED
      BY <1>0, <2>3, <3>1, <3>2 DEF Known
  <2>5. CASE a = b
    <3>1. a \in Known'
      BY <1>7, <2>5, SubmitMap
    <3>2. CASE dotMap'[a].ttd = t + FailWait
      BY <2>1, <2>3, <3>1, <3>2
    <3>3. CASE dotMap'[a].ttd # t + FailWait
      <4>1. /\ UNCHANGED vars
            /\ (a \in Known /\ dotMap'[a] = dotMap[a]) \/ a \notin Known
        BY <1>7, <2>5, <3>3, SubmitMap
      <4>2. Outstanding(a)
        BY <4>1, UnderWaySame DEF vars, queueVars
      <4> QED
        BY <1>0, <2>3, <3>1, <4>1, <4>2
    <3> QED
      BY <3>2, <3>3
  <2> QED
    BY <2>4, <2>5
<1>8. ASSUME NEW w \in Workers, NEW b \in Names, NEW t,
             DoTtoAuth(w, b) \/ ShouldDoDoT(w, b, t)
      PROVE  a \in Known' /\ now' <= dotMap'[a].ttd
  <2>1. UNCHANGED <<queue, at, job, now>>
    BY <1>8 DEF DoTtoAuth, ShouldDoDoT, vars, queueVars
  <2>2. Outstanding(a)
    BY <2>1, UnderWaySame
  <2>3. DoTtoAuth(w, b) => dotMap' = dotMap
    BY DEF DoTtoAuth
  <2> QED
    BY <1>0, <1>8, <2>1, <2>2, <2>3, SeenMap DEF Known
<1>9. CASE UNCHANGED allVars
  BY <1>1, <1>9, UnderWaySame DEF allVars, vars, queueVars, dotVars
<1> QED
  BY <1>1, <1>2, <1>3, <1>4, <1>5, <1>6, <1>7, <1>8, <1>9, DotCases

-----------------------------------------------------------------------------
(* The counter *)

\* What is counted are numbers.
LEMMA CountedNumbers ==
  ASSUME TInv, MapTypes
  PROVE  /\ Len(queue) \in Nat /\ IsFiniteSet(Busy) /\ Cardinality(Busy) \in Nat
         /\ IsFiniteSet(Lost) /\ Cardinality(Lost) \in Nat
         /\ UnderWay \in Nat /\ numBusy \in Int /\ removed \in Nat
<1>1. Len(queue) \in Nat /\ removed \in Nat
  BY Numbers
<1>2. IsFiniteSet(Busy) /\ Cardinality(Busy) \in Nat
  BY WorkersCounted
<1>3. IsFiniteSet(Lost) /\ Cardinality(Lost) \in Nat
  <2>1. Lost \subseteq Names
    BY DEF Lost
  <2>2. IsFiniteSet(Lost)
    BY <2>1, FS_Subset
  <2> QED
    BY <2>2, FS_CardinalityType
<1> QED
  BY <1>1, <1>2, <1>3 DEF UnderWay, MapTypes

\* A step that loses no probe keeps the places.
LEMMA NoneLost ==
  ASSUME TInv, MapTypes, TInv', MapTypes', PlacesKept,
         Lost' \subseteq Lost, removed' = removed,
         numBusy' - UnderWay' = numBusy - UnderWay
  PROVE  PlacesKept'
<1>1. /\ IsFiniteSet(Lost) /\ Cardinality(Lost) \in Nat
      /\ UnderWay \in Nat /\ numBusy \in Int
  BY CountedNumbers
<1>2. Cardinality(Lost') \in Nat /\ UnderWay' \in Nat /\ numBusy' \in Int
  <2>1. /\ IsFiniteSet(Lost') /\ Cardinality(Lost') \in Nat
    BY <1>1, FS_Subset, FS_CardinalityType
  <2>2. numBusy' \in Int
    BY DEF MapTypes
  <2>3. UnderWay' \in Nat
    <3>1. Len(queue') \in Nat
      BY DEF TInv, TypeOK
    <3>2. IsFiniteSet(Busy')
      <4>1. Busy' \subseteq Workers
        BY DEF Busy
      <4> QED
        BY <4>1, FS_Subset
    <3>3. Cardinality(Busy') \in Nat
      BY <3>2, FS_CardinalityType
    <3> QED
      BY <3>1, <3>3 DEF UnderWay
  <2> QED
    BY <2>1, <2>2, <2>3
<1>3. Cardinality(Lost') <= Cardinality(Lost)
  BY <1>1, FS_Subset
<1> DEFINE u == UnderWay  u1 == UnderWay'  n == numBusy  n1 == numBusy'
           l == Cardinality(Lost)  l1 == Cardinality(Lost')
<1>4. /\ u \in Nat /\ u1 \in Nat /\ n \in Int /\ n1 \in Int /\ l \in Nat /\ l1 \in Nat
      /\ l1 <= l /\ n1 - u1 = n - u /\ u + l <= n /\ (removed = 0 => u = n)
  BY <1>1, <1>2, <1>3 DEF PlacesKept
<1>5. PlacesKept' <=> u1 + l1 <= n1 /\ (removed = 0 => u1 = n1)
  BY DEF PlacesKept
<1> HIDE DEF u, u1, n, n1, l, l1
<1> QED
  BY <1>4, <1>5

InQueue == {queue[i].task.name : i \in DOMAIN queue}

\* The queue holds at least as many tasks as there are addresses in it.
LEMMA QueuedNames ==
  ASSUME TInv
  PROVE  IsFiniteSet(InQueue) /\ Cardinality(InQueue) \in Nat
         /\ Cardinality(InQueue) <= Len(queue)
<1>0. \A n \in Nat : IsFiniteSet(1 .. n) /\ Cardinality(1 .. n) = n
  <2>1. ASSUME NEW n \in Nat PROVE IsFiniteSet(1 .. n) /\ Cardinality(1 .. n) = n
    <3>1. 1 \in Int /\ n \in Int
      OBVIOUS
    <3>2. IsFiniteSet(1 .. n) /\ Cardinality(1 .. n) = IF 1 > n THEN 0 ELSE n - 1 + 1
      BY <3>1, FS_Interval, Zenon
    <3> QED
      BY <3>2
  <2> QED
    BY <2>1
<1> DEFINE f == [i \in 1 .. Len(queue) |-> queue[i].task.name]
<1>1. Len(queue) \in Nat /\ DOMAIN queue = 1 .. Len(queue)
  BY DEF TInv, TypeOK
<1>2. f \in Surjection(1 .. Len(queue), InQueue)
  BY <1>1 DEF Surjection, InQueue
<1>3. IsFiniteSet(1 .. Len(queue)) /\ Cardinality(1 .. Len(queue)) = Len(queue)
  BY <1>0, <1>1
<1> HIDE DEF f
<1>4. IsFiniteSet(InQueue) /\ Cardinality(InQueue) <= Cardinality(1 .. Len(queue))
  BY <1>2, <1>3, FS_Surjection
<1>5. Cardinality(InQueue) \in Nat
  BY <1>4, FS_CardinalityType
<1> QED
  BY <1>1, <1>3, <1>4, <1>5

\* A step that takes probes from the queue loses at most as many as it takes.
LEMMA SomeLost ==
  ASSUME TInv, MapTypes, TInv', MapTypes', PlacesKept, numBusy' = numBusy,
         NEW T, IsFiniteSet(T), Cardinality(T) \in Nat, Lost' \subseteq Lost \cup T,
         NEW n \in Nat, Cardinality(T) <= n, UnderWay' = UnderWay - n,
         removed' = removed + n
  PROVE  PlacesKept'
<1>1. /\ IsFiniteSet(Lost) /\ Cardinality(Lost) \in Nat
      /\ UnderWay \in Nat /\ numBusy \in Int /\ removed \in Nat
  BY CountedNumbers
<1>2. /\ IsFiniteSet(Lost \cup T)
      /\ Cardinality(Lost \cup T) = Cardinality(Lost) + Cardinality(T)
                                      - Cardinality(Lost \cap T)
  BY <1>1, FS_Union
<1>3. Cardinality(Lost \cap T) \in Nat
  <2>1. Lost \cap T \subseteq Lost
    OBVIOUS
  <2>2. IsFiniteSet(Lost \cap T)
    BY <1>1, <2>1, FS_Subset
  <2> QED
    BY <2>2, FS_CardinalityType
<1>4. IsFiniteSet(Lost') /\ Cardinality(Lost') <= Cardinality(Lost \cup T)
  BY <1>2, FS_Subset
<1>5. Cardinality(Lost') \in Nat
  BY <1>4, FS_CardinalityType
<1> DEFINE u == UnderWay  u1 == UnderWay'  b == numBusy
           l == Cardinality(Lost)  l1 == Cardinality(Lost')
           k == Cardinality(T)  both == Cardinality(Lost \cap T)
<1>6. /\ u \in Nat /\ b \in Int /\ l \in Nat /\ l1 \in Nat /\ k \in Nat /\ both \in Nat
      /\ l1 <= l + k - both /\ k <= n /\ u1 = u - n
      /\ u + l <= b /\ (removed = 0 => u = b)
  BY <1>1, <1>2, <1>3, <1>4, <1>5 DEF PlacesKept
<1>7. PlacesKept' <=> u1 + l1 <= b /\ (removed + n = 0 => u1 = b)
  BY DEF PlacesKept
<1>8. removed \in Nat
  BY <1>1
<1> HIDE DEF u, u1, b, l, l1, k, both
<1> QED
  BY <1>6, <1>7, <1>8

\* A prune takes from the counter what it takes of the lost places, and no more.
LEMMA PlacesPruned ==
  ASSUME TInv, MapTypes, ProbesKnown, PlacesKept, PruneDoTProbeMap
  PROVE  PlacesKept'
<1> DEFINE gone == {a \in Old : dotMap[a].status = "Busy"}
<1>1. numBusy' = numBusy - Cardinality(gone) /\ UNCHANGED vars
      /\ dotMap' = [a \in Names |-> IF a \in Old THEN NoEntry ELSE dotMap[a]]
  BY DEF PruneDoTProbeMap
<1>2. UnderWay' = UnderWay /\ removed' = removed /\ UNCHANGED <<queue, at, job>>
  BY <1>1 DEF UnderWay, Busy, vars, queueVars, history
<1>3. gone \subseteq Lost
  <2> SUFFICES ASSUME NEW a \in gone PROVE a \in Lost
    OBVIOUS
  <2>1. a \in Names /\ a \in Known /\ dotMap[a].ttd < now /\ dotMap[a].status = "Busy"
    BY DEF Old, Known
  <2>2. dotMap[a].ttd \in Nat /\ now \in Nat
    BY <2>1 DEF Known, MapTypes, Entries, TInv, TypeOK, Times
  <2>3. ~Outstanding(a)
    BY <2>1, <2>2 DEF ProbesKnown
  <2> QED
    BY <2>1, <2>3 DEF Lost, Busied
<1>4. Lost' \subseteq Lost \ gone
  <2> SUFFICES ASSUME NEW a \in Lost' PROVE a \in Lost /\ a \notin gone
    OBVIOUS
  <2>1. a \in Names /\ dotMap'[a] # NoEntry /\ dotMap'[a].status = "Busy"
        /\ ~Outstanding(a)'
    BY DEF Lost, Busied, Known
  <2>2. a \notin Old /\ dotMap'[a] = dotMap[a]
    BY <1>1, <2>1
  <2>3. ~Outstanding(a)
    BY <1>2, <2>1, UnderWaySame
  <2> QED
    BY <2>1, <2>2, <2>3 DEF Lost, Busied, Known
<1>5. /\ IsFiniteSet(Lost) /\ Cardinality(Lost) \in Nat
      /\ UnderWay \in Nat /\ numBusy \in Int
  BY CountedNumbers
<1> HIDE DEF gone
<1>6. IsFiniteSet(gone) /\ Cardinality(gone) \in Nat
  BY <1>3, <1>5, FS_Subset, FS_CardinalityType
<1>7. IsFiniteSet(Lost \ gone)
      /\ Cardinality(Lost \ gone) = Cardinality(Lost) - Cardinality(gone)
  <2>1. IsFiniteSet(Lost \ gone)
    BY <1>5, FS_Subset
  <2>2. Cardinality(Lost \ gone) \in Nat
    BY <2>1, FS_CardinalityType
  <2>3. (Lost \ gone) \cup gone = Lost /\ (Lost \ gone) \cap gone = {}
    BY <1>3
  <2>4. Cardinality((Lost \ gone) \cup gone)
          = Cardinality(Lost \ gone) + Cardinality(gone)
              - Cardinality((Lost \ gone) \cap gone)
    BY <1>6, <2>1, FS_Union
  <2>5. Cardinality(Lost) = Cardinality(Lost \ gone) + Cardinality(gone) - Cardinality({})
    BY <2>3, <2>4, Zenon
  <2>6. Cardinality({}) = 0
    BY FS_EmptySet
  <2> QED
    BY <1>5, <1>6, <2>1, <2>2, <2>5, <2>6
<1>8. Cardinality(Lost') \in Nat /\ Cardinality(Lost') <= Cardinality(Lost \ gone)
  BY <1>4, <1>7, FS_Subset, FS_CardinalityType
<1> DEFINE u == UnderWay  b == numBusy
           l == Cardinality(Lost)  l1 == Cardinality(Lost')  k == Cardinality(gone)
<1>9. /\ u \in Nat /\ b \in Int /\ l \in Nat /\ l1 \in Nat /\ k \in Nat
      /\ l1 <= l - k /\ u + l <= b /\ (removed = 0 => u = b)
  BY <1>5, <1>6, <1>7, <1>8 DEF PlacesKept
<1>10. PlacesKept' <=> u + l1 <= b - k /\ (removed = 0 => u = b - k)
  BY <1>1, <1>2 DEF PlacesKept
<1> HIDE DEF u, b, l, l1, k
<1> QED
  BY <1>9, <1>10

\* An update leaves busy only an address it is not about.
LEMMA UpdatedBusied ==
  ASSUME MapTypes, TInv, NEW b, NEW t \in Lately, NEW ok \in BOOLEAN,
         dotMap' = Updated(b, ok, t), NEW a \in Names, Busied(a)'
  PROVE  Busied(a) /\ (a # b \/ b \notin Known)
<1>1. dotMap'[a] # NoEntry /\ dotMap'[a].status = "Busy"
  BY DEF Busied, Known
<1>2. a # b \/ b \notin Known
  <2>1. CASE a = b /\ b \in Known
    <3>1. dotMap'[a].status \in {"Good", "Bad"}
      BY <2>1, UpdatedTypes
    <3> QED
      BY <1>1, <3>1
  <2> QED
    BY <2>1
<1>3. dotMap'[a] = dotMap[a]
  <2>1. a # b \/ a \notin Known
    BY <1>2
  <2>2. Updated(b, ok, t)[a] = dotMap[a]
    BY <2>1, UpdatedTypes
  <2> QED
    BY <2>2
<1> QED
  BY <1>1, <1>2, <1>3 DEF Busied, Known

\* The counter has a place for every probe under way and every lost one.
LEMMA PlacesKeptNext ==
  ASSUME TInv, TInv', OnlyProbes, MapTypes, MapTypes', ProbesKnown, PlacesKept,
         [DotNext]_allVars
  PROVE  PlacesKept'
<1>0. queue \in Seq(Jobs) /\ Len(queue) \in Nat /\ UnderWay \in Nat /\ numBusy \in Int
      /\ IsFiniteSet(Busy) /\ Cardinality(Busy) \in Nat /\ removed \in Nat
  BY CountedNumbers DEF TInv, TypeOK
<1>1. ASSUME UNCHANGED <<queue, at, job, removed, numBusy>>,
             \A a \in Names : Busied(a)' => Busied(a)
      PROVE  PlacesKept'
  <2>1. UnderWay' = UnderWay
    BY <1>1 DEF UnderWay, Busy
  <2>2. Lost' \subseteq Lost
    BY <1>1, UnderWaySame DEF Lost
  <2> QED
    BY <1>0, <1>1, <2>1, <2>2, NoneLost
<1>2. CASE UNCHANGED <<queue, at, job, removed, numBusy, dotMap>>
  BY <1>1, <1>2 DEF Busied, Known
<1>3. CASE TaskQueueClear /\ UNCHANGED dotVars
  <2>1. /\ numBusy' = numBusy /\ dotMap' = dotMap /\ removed' = removed + Len(queue)
        /\ queue' = <<>> /\ at' = at
    BY <1>3 DEF TaskQueueClear, dotVars
  <2>2. UnderWay' = UnderWay - Len(queue)
    <3>1. Busy' = Busy /\ Len(queue') = 0
      BY <2>1 DEF Busy
    <3> QED
      BY <1>0, <3>1 DEF UnderWay
  <2>3. Lost' \subseteq Lost \cup InQueue
    BY <1>3, <2>1, UnderWayTaken DEF Lost, InQueue, Busied, Known
  <2> QED
    BY <1>0, <2>1, <2>2, <2>3, QueuedNames, SomeLost
<1>4. CASE TaskQueuePop /\ UNCHANGED dotVars
  <2>1. /\ numBusy' = numBusy /\ dotMap' = dotMap /\ removed' = removed + 1
        /\ queue # <<>> /\ queue' = Tail(queue) /\ at' = at
    BY <1>4 DEF TaskQueuePop, dotVars
  <2>2. UnderWay' = UnderWay - 1
    <3>1. Busy' = Busy /\ Len(queue') = Len(queue) - 1
      BY <1>0, <2>1, TailTasks DEF Busy
    <3> QED
      BY <1>0, <3>1 DEF UnderWay
  <2> DEFINE one == {Head(queue).task.name}
  <2>3. Lost' \subseteq Lost \cup one
    BY <1>4, <2>1, UnderWayTaken DEF Lost, Busied, Known
  <2>4. IsFiniteSet(one) /\ Cardinality(one) = 1
    BY FS_Singleton
  <2> HIDE DEF one
  <2>5. Cardinality(one) \in Nat /\ Cardinality(one) <= 1 /\ 1 \in Nat
    BY <2>4
  <2> QED
    BY <2>1, <2>2, <2>3, <2>4, <2>5, SomeLost
<1>5. CASE Tick /\ UNCHANGED dotVars
  BY <1>2, <1>5 DEF Tick, dotVars, queueVars, history
<1>6. CASE PruneDoTProbeMap
  BY <1>6, PlacesPruned
<1>7. ASSUME NEW w \in Workers, CountPush(w), UNCHANGED dotVars PROVE PlacesKept'
  BY <1>2, <1>7 DEF CountPush, dotVars, queueVars, history
<1>8. ASSUME NEW w \in Workers, Pop(w), UNCHANGED dotVars PROVE PlacesKept'
  <2>1. numBusy' = numBusy /\ dotMap' = dotMap /\ removed' = removed
    BY <1>8 DEF Pop, dotVars, history
  <2>2. UnderWay' = UnderWay
    <3>1. Len(queue') = Len(queue) - 1
      BY <1>0, <1>8, TailTasks DEF Pop, HasTask
    <3>2. Busy' = Busy \cup {w} /\ w \notin Busy
      BY <1>8 DEF Pop, Busy, TInv, TypeOK
    <3>3. Cardinality(Busy') = Cardinality(Busy) + 1
      BY <1>0, <3>2, FS_AddElement
    <3> QED
      BY <1>0, <3>1, <3>3 DEF UnderWay
  <2>3. Lost' \subseteq Lost
    BY <1>8, <2>1, UnderWayPop DEF Lost, Busied, Known
  <2> QED
    BY <1>0, <2>1, <2>2, <2>3, NoneLost
<1>9. ASSUME NEW w \in Workers, Run(w), UNCHANGED dotVars PROVE PlacesKept'
  <2>1. numBusy' = numBusy /\ dotMap' = dotMap /\ removed' = removed /\ queue' = queue
    BY <1>9 DEF Run, dotVars, queueVars, history
  <2>2. Busy' = Busy
    BY <1>9 DEF Run, Busy, TInv, TypeOK
  <2>3. UnderWay' = UnderWay
    BY <2>1, <2>2 DEF UnderWay
  <2>4. Lost' \subseteq Lost
    BY <1>9, <2>1, UnderWayRun DEF Lost, Busied, Known
  <2> QED
    BY <1>0, <2>1, <2>3, <2>4, NoneLost
<1>10. ASSUME NEW w \in Workers, NEW t \in Lately, NEW ok \in BOOLEAN,
              DoTAnswered(w, ok, t)
       PROVE  PlacesKept'
  <2>1. dotMap' = Updated(using[w], ok, t) /\ UNCHANGED <<queue, at, job, removed, numBusy>>
    BY <1>10 DEF DoTAnswered, vars, queueVars, history
  <2>2. \A a \in Names : Busied(a)' => Busied(a)
    BY <2>1, UpdatedBusied
  <2> QED
    BY <1>1, <2>1, <2>2
<1>11. ASSUME NEW w \in Workers, NEW t \in Lately, NEW ok \in BOOLEAN,
              ProbeDone(w, ok, t)
       PROVE  PlacesKept'
  <2> DEFINE b == job[w].task.name
  <2>1. /\ RunDone(w, TRUE) /\ dotMap' = Updated(b, ok, t)
        /\ numBusy' = numBusy - Lowered(b)
    BY <1>11 DEF ProbeDone
  <2>2. w \in Busy /\ Busy' = Busy \ {w} /\ queue' = queue /\ removed' = removed
    BY <2>1 DEF RunDone, Busy, queueVars, TInv, TypeOK
  <2>3. UnderWay' = UnderWay - 1
    <3>1. Cardinality(Busy') = Cardinality(Busy) - 1
      BY <1>0, <2>2, FS_RemoveElement
    <3> QED
      BY <1>0, <2>2, <3>1 DEF UnderWay
  <2>4. b \in Names /\ job[w].task = Probe(b)
    BY <2>2 DEF OnlyProbes, TInv, JobsHeld, Busy, Jobs, Tasks
  <2>5. b \in Known
    BY <2>2, <2>4 DEF ProbesKnown, Outstanding, Probes, Busy
  <2>6. numBusy' = numBusy - 1
    BY <2>1, <2>5 DEF Lowered
  <2>7. Lost' \subseteq Lost
    <3> SUFFICES ASSUME NEW a \in Lost' PROVE a \in Lost
      OBVIOUS
    <3>1. a \in Names /\ Busied(a)' /\ ~Outstanding(a)'
      BY DEF Lost
    <3>2. Busied(a) /\ a # b
      <4> HIDE DEF b
      <4> QED
        BY <2>1, <2>5, <3>1, UpdatedBusied
    <3>3. ~Outstanding(a)
      BY <2>1, <3>1, <3>2, UnderWayDone
    <3> QED
      BY <3>1, <3>2, <3>3 DEF Lost
  <2> QED
    BY <1>0, <2>2, <2>3, <2>6, <2>7, NoneLost
<1>12. ASSUME NEW w \in Workers, NEW b \in Names, NEW t \in Lately, SubmitTryDot(w, b, t)
       PROVE  PlacesKept'
  <2>1. \A a \in Names : a # b => dotMap'[a] = dotMap[a]
    BY <1>12, SubmitMap
  <2>2. \/ /\ UNCHANGED <<vars, numBusy>>
           /\ \/ b \in Known /\ dotMap'[b] = dotMap[b]
              \/ dotMap'[b].status = "Unknown"
        \/ /\ PushTryDoT(w, b) /\ Queued(Probe(b)) /\ numBusy' = numBusy
           /\ dotMap'[b].status # "Busy"
        \/ /\ PushTryDoT(w, b) /\ ~Queued(Probe(b)) /\ numBusy' = numBusy + 1
    BY <1>12, SubmitMap
  <2>3. CASE /\ UNCHANGED <<vars, numBusy>>
             /\ \/ b \in Known /\ dotMap'[b] = dotMap[b]
                \/ dotMap'[b].status = "Unknown"
    <3>1. UNCHANGED <<queue, at, job, removed, numBusy>>
      BY <2>3 DEF vars, queueVars, history
    <3>2. \A a \in Names : Busied(a)' => Busied(a)
      BY <2>1, <2>3 DEF Busied, Known
    <3> QED
      BY <1>1, <3>1, <3>2
  <2>4. CASE /\ PushTryDoT(w, b) /\ Queued(Probe(b)) /\ numBusy' = numBusy
             /\ dotMap'[b].status # "Busy"
    <3>1. UNCHANGED <<queue, at, job, removed, numBusy>>
      BY <2>4, PushProbe
    <3>2. \A a \in Names : Busied(a)' => Busied(a)
      BY <2>1, <2>4 DEF Busied, Known
    <3> QED
      BY <1>1, <3>1, <3>2
  <2>5. CASE PushTryDoT(w, b) /\ ~Queued(Probe(b)) /\ numBusy' = numBusy + 1
    <3>1. Len(queue') = Len(queue) + 1 /\ Busy' = Busy /\ removed' = removed
      BY <2>5, PushProbe
    <3>2. UnderWay' = UnderWay + 1
      BY <1>0, <3>1 DEF UnderWay
    <3>3. Lost' \subseteq Lost
      BY <2>1, <2>5, UnderWayPush DEF Lost, Busied, Known
    <3> QED
      BY <1>0, <2>5, <3>1, <3>2, <3>3, NoneLost
  <2> QED
    BY <2>2, <2>3, <2>4, <2>5
<1>13. ASSUME NEW w \in Workers, NEW b \in Names, NEW t, ShouldDoDoT(w, b, t)
       PROVE  PlacesKept'
  <2>1. UNCHANGED <<queue, at, job, removed, numBusy>>
    BY <1>13 DEF ShouldDoDoT, vars, queueVars, history
  <2> QED
    BY <1>1, <1>13, <2>1, SeenMap DEF Busied
<1>14. ASSUME NEW w \in Workers, NEW b \in Names, DoTtoAuth(w, b) PROVE PlacesKept'
  BY <1>2, <1>14 DEF DoTtoAuth, vars, queueVars, history
<1>15. CASE UNCHANGED allVars
  BY <1>2, <1>15 DEF allVars, vars, dotVars, queueVars, history
<1> QED
  BY <1>3, <1>4, <1>5, <1>6, <1>7, <1>8, <1>9, <1>10, <1>11, <1>12, <1>13, <1>14,
     <1>15, DotCases

-----------------------------------------------------------------------------
(* The time between two probes *)

\* An entry that is given a new end, and is known by then for good or bad, or is
\* unknown as it was, keeps its address from being probed.
LEMMA NewEndSpaced ==
  ASSUME TInv, MapTypes, NEW a \in Names, NEW t \in Lately, Spaced(a),
         now' = now, probed'[a] = probed[a],
         a \in Known', dotMap'[a].ttd \in Nat, dotMap'[a].ttd >= t + FailWait,
         dotMap'[a].status = "Unknown" => a \notin Known \/ dotMap[a].status = "Unknown"
  PROVE  Spaced(a)'
<1>1. /\ now \in Nat /\ t \in Nat /\ t <= now /\ now <= t + MaxLag
      /\ probed[a] \in Int
  BY LateTimes DEF MapTypes, Times
<1> SUFFICES ASSUME probed[a] >= 0
             PROVE  /\ probed[a] <= now
                    /\ \/ now >= probed[a] + FailWait - MaxLag
                       \/ /\ a \in Known' /\ dotMap'[a].status # "Unknown"
                          /\ dotMap'[a].ttd >= probed[a] + FailWait - MaxLag
  BY DEF Spaced
<1>2. probed[a] <= now
  BY DEF Spaced
<1>3. dotMap'[a].ttd >= probed[a] + FailWait - MaxLag
  <2> DEFINE p == probed[a]  e == dotMap'[a].ttd
  <2>1. p \in Int /\ e \in Nat /\ p <= now /\ e >= t + FailWait
    BY <1>1, <1>2
  <2> HIDE DEF p, e
  <2>2. e >= p + FailWait - MaxLag
    BY <1>1, <2>1
  <2> QED
    BY <2>2 DEF p, e
<1>4. CASE dotMap'[a].status # "Unknown"
  BY <1>2, <1>3, <1>4
<1>5. CASE dotMap'[a].status = "Unknown"
  BY <1>2, <1>5 DEF Spaced
<1> QED
  BY <1>4, <1>5

\* An address whose entry keeps its status and its end stays as it was.
LEMMA SameEndSpaced ==
  ASSUME TInv, MapTypes, NEW a \in Names, Spaced(a), now' = now \/ now' = now + 1,
         probed'[a] = probed[a],
         a \in Known => /\ a \in Known' /\ dotMap'[a].status = dotMap[a].status
                        /\ dotMap'[a].ttd = dotMap[a].ttd
  PROVE  Spaced(a)'
<1>1. now \in Nat /\ probed[a] \in Int
  BY DEF TInv, TypeOK, MapTypes, Times
<1> SUFFICES ASSUME probed[a] >= 0
             PROVE  /\ probed[a] <= now'
                    /\ \/ now' >= probed[a] + FailWait - MaxLag
                       \/ /\ a \in Known' /\ dotMap'[a].status # "Unknown"
                          /\ dotMap'[a].ttd >= probed[a] + FailWait - MaxLag
  BY DEF Spaced
<1> DEFINE p == probed[a]
<1>2. /\ p <= now
      /\ \/ now >= p + FailWait - MaxLag
         \/ /\ a \in Known /\ dotMap[a].status # "Unknown"
            /\ dotMap[a].ttd >= p + FailWait - MaxLag
  BY DEF Spaced
<1>3. p \in Int
  BY <1>1
<1> HIDE DEF p
<1>4. p <= now'
  BY <1>1, <1>2, <1>3
<1>5. CASE now >= p + FailWait - MaxLag
  <2>1. now' >= p + FailWait - MaxLag
    BY <1>1, <1>3, <1>5
  <2> QED
    BY <1>4, <2>1 DEF p
<1>6. CASE /\ a \in Known /\ dotMap[a].status # "Unknown"
           /\ dotMap[a].ttd >= p + FailWait - MaxLag
  BY <1>4, <1>6 DEF p
<1> QED
  BY <1>2, <1>5, <1>6

LEMMA AllSpacedNext ==
  ASSUME TInv, MapTypes, MapTypes', AllSpaced, [DotNext]_allVars
  PROVE  AllSpaced'
<1> SUFFICES ASSUME NEW a \in Names PROVE Spaced(a)'
  BY DEF AllSpaced
<1>0. Spaced(a)
  BY DEF AllSpaced
<1>1. CASE (now' = now \/ now' = now + 1) /\ dotMap' = dotMap /\ probed' = probed
  BY <1>0, <1>1, SameEndSpaced DEF Known
<1>2. CASE (TaskQueueClear \/ TaskQueuePop \/ Tick) /\ UNCHANGED dotVars
  BY <1>1, <1>2 DEF TaskQueueClear, TaskQueuePop, Tick, dotVars
<1>3. CASE PruneDoTProbeMap
  <2>1. now' = now /\ probed' = probed
        /\ dotMap' = [b \in Names |-> IF b \in Old THEN NoEntry ELSE dotMap[b]]
    BY <1>3 DEF PruneDoTProbeMap, vars
  <2>2. CASE a \notin Old
    <3>1. dotMap'[a] = dotMap[a]
      BY <2>1, <2>2
    <3> QED
      BY <1>0, <2>1, <3>1, SameEndSpaced DEF Known
  <2>3. CASE a \in Old
    <3>1. dotMap[a].ttd < now /\ dotMap[a].ttd \in Nat /\ now \in Nat /\ probed[a] \in Int
      BY <2>3 DEF Old, Known, MapTypes, Entries, TInv, TypeOK, Times
    <3> DEFINE p == probed[a]  e == dotMap[a].ttd
    <3>2. p >= 0 =>
            p <= now /\ (now >= p + FailWait - MaxLag \/ e >= p + FailWait - MaxLag)
      BY <1>0 DEF Spaced
    <3>3. e < now /\ e \in Nat /\ p \in Int /\ now \in Nat
      BY <3>1
    <3> HIDE DEF p, e
    <3>4. p >= 0 => p <= now /\ now >= p + FailWait - MaxLag
      BY <3>2, <3>3
    <3> QED
      BY <2>1, <3>4 DEF p, Spaced
  <2> QED
    BY <2>2, <2>3
<1>4. ASSUME NEW w \in Workers, CountPush(w) \/ Pop(w) \/ Run(w), UNCHANGED dotVars
      PROVE  Spaced(a)'
  BY <1>1, <1>4 DEF CountPush, Pop, Run, dotVars
<1>5. ASSUME NEW w \in Workers, NEW t \in Lately, NEW ok \in BOOLEAN,
             ProbeDone(w, ok, t) \/ DoTAnswered(w, ok, t)
      PROVE  Spaced(a)'
  <2>1. PICK b : dotMap' = Updated(b, ok, t)
    BY <1>5 DEF ProbeDone, DoTAnswered
  <2>2. now' = now /\ probed' = probed
    BY <1>5 DEF ProbeDone, DoTAnswered, RunDone, vars
  <2>3. CASE a = b /\ b \in Known
    <3>1. /\ dotMap'[a].status \in {"Good", "Bad"} /\ dotMap'[a].ttd \in Nat
          /\ dotMap'[a].ttd >= t + FailWait /\ dotMap'[a] # NoEntry
      BY <2>1, <2>3, UpdatedTypes
    <3> QED
      BY <1>0, <2>2, <3>1, NewEndSpaced DEF Known
  <2>4. CASE a # b \/ b \notin Known
    <3>1. dotMap'[a] = dotMap[a]
      <4>1. a # b \/ a \notin Known
        BY <2>4
      <4>2. Updated(b, ok, t)[a] = dotMap[a]
        BY <4>1, UpdatedTypes
      <4> QED
        BY <2>1, <4>2
    <3> QED
      BY <1>0, <2>2, <3>1, SameEndSpaced DEF Known
  <2> QED
    BY <2>3, <2>4
<1>6. ASSUME NEW w \in Workers, NEW b \in Names, NEW t \in Lately, SubmitTryDot(w, b, t)
      PROVE  Spaced(a)'
  <2>1. now' = now
    <3>1. PushTryDoT(w, b) \/ UNCHANGED vars
      BY <1>6, SubmitCases
    <3> QED
      BY <3>1, PushProbe DEF vars
  <2>2. now \in Nat /\ t \in Nat /\ t <= now /\ now <= t + MaxLag /\ t + FailWait \in Nat
    BY LateTimes
  <2>3. CASE a # b
    <3>1. dotMap'[a] = dotMap[a]
      BY <1>6, <2>3, SubmitMap
    <3>2. probed'[a] = probed[a]
      <4>1. probed' = probed \/ probed' = [probed EXCEPT ![b] = now]
        BY <1>6, SubmitMap
      <4> QED
        BY <2>3, <4>1 DEF MapTypes
    <3> QED
      BY <1>0, <2>1, <3>1, <3>2, SameEndSpaced DEF Known
  <2>4. CASE a = b
    <3>1. a \in Known'
      BY <1>6, <2>4, SubmitMap
    <3>2. CASE probed' = probed /\ (a \in Known => dotMap'[a] = dotMap[a])
      BY <1>0, <2>1, <3>1, <3>2, SameEndSpaced
    <3>3. CASE /\ probed' = probed /\ dotMap'[a].ttd = t + FailWait
               /\ IF a \in Known THEN dotMap'[a].status = dotMap[a].status
                                 ELSE dotMap'[a].status = "Unknown"
      <4>1. dotMap'[a].ttd \in Nat /\ dotMap'[a].ttd >= t + FailWait
        BY <2>2, <3>3
      <4>2. dotMap'[a].status = "Unknown" =>
              a \notin Known \/ dotMap[a].status = "Unknown"
        BY <3>3
      <4> QED
        BY <1>0, <2>1, <3>1, <3>3, <4>1, <4>2, NewEndSpaced
    <3>4. CASE /\ probed' = [probed EXCEPT ![a] = now]
               /\ dotMap'[a].ttd = t + FailWait /\ dotMap'[a].status = "Busy"
      <4>1. probed'[a] = now
        BY <3>4 DEF MapTypes
      <4>2. t + FailWait >= now + FailWait - MaxLag
        BY <2>2
      <4> QED
        BY <2>1, <2>2, <3>1, <3>4, <4>1, <4>2 DEF Spaced
    <3> QED
      BY <1>6, <2>4, <3>2, <3>3, <3>4, SubmitMap
  <2> QED
    BY <2>3, <2>4
<1>7. ASSUME NEW w \in Workers, NEW b \in Names, NEW t, ShouldDoDoT(w, b, t)
      PROVE  Spaced(a)'
  <2>1. now' = now /\ probed' = probed
    BY <1>7 DEF ShouldDoDoT, vars
  <2> QED
    BY <1>0, <1>7, <2>1, SeenMap, SameEndSpaced
<1>8. ASSUME NEW w \in Workers, NEW b \in Names, DoTtoAuth(w, b) PROVE Spaced(a)'
  BY <1>1, <1>8 DEF DoTtoAuth, vars
<1>9. CASE UNCHANGED allVars
  BY <1>1, <1>9 DEF allVars, vars, dotVars
<1> QED
  BY <1>2, <1>3, <1>4, <1>5, <1>6, <1>7, <1>8, <1>9, DotCases

\* Two probes of an address are never closer.
LEMMA SpacedStep ==
  ASSUME TInv, MapTypes, AllSpaced, [DotNext]_allVars, NEW a \in Names,
         ~Busied(a), Busied(a)', probed[a] >= 0
  PROVE  now - probed[a] >= FailWait - MaxLag
<1>1. dotMap'[a] # dotMap[a] /\ dotMap'[a] # NoEntry /\ dotMap'[a].status = "Busy"
  BY DEF Busied, Known
<1>2. PICK w \in Workers, t \in Lately : SubmitTryDot(w, a, t)
  <2>1. dotMap' # dotMap
    BY <1>1
  <2>2. ~PruneDoTProbeMap
    BY <1>1 DEF PruneDoTProbeMap
  <2>3. ASSUME NEW w \in Workers, NEW t \in Lately, NEW ok \in BOOLEAN,
               ProbeDone(w, ok, t) \/ DoTAnswered(w, ok, t)
        PROVE  FALSE
    <3>1. PICK b : dotMap' = Updated(b, ok, t)
      BY <2>3 DEF ProbeDone, DoTAnswered
    <3> QED
      BY <3>1, UpdatedBusied
  <2>4. ASSUME NEW w \in Workers, NEW b \in Names, NEW t, ShouldDoDoT(w, b, t)
        PROVE  FALSE
    BY <1>1, <2>4, SeenMap DEF Busied, Known
  <2>5. ASSUME NEW w \in Workers, NEW b \in Names, NEW t \in Lately,
               SubmitTryDot(w, b, t)
        PROVE  b = a
    BY <1>1, <2>5, SubmitMap
  <2>6. ~(UNCHANGED dotVars \/ UNCHANGED allVars)
    BY <2>1 DEF dotVars, allVars
  <2>7. ASSUME NEW w \in Workers, NEW b \in Names, DoTtoAuth(w, b) PROVE FALSE
    BY <2>1, <2>7 DEF DoTtoAuth
  <2> QED
    BY <2>2, <2>3, <2>4, <2>5, <2>6, <2>7, DotCases
<1>3. now \in Nat /\ t \in Nat /\ t <= now /\ probed[a] \in Int
  BY LateTimes DEF MapTypes, Times
<1>4. a \in Known =>
        /\ dotMap[a].status # "Busy"
        /\ dotMap[a].ttd <= t \/ dotMap[a].status = "Unknown"
  BY <1>1, <1>2, SubmitMap
<1> DEFINE p == probed[a]  e == dotMap[a].ttd
<1>5. CASE now >= p + FailWait - MaxLag
  <2> HIDE DEF p
  <2>1. p \in Int
    BY <1>3 DEF p
  <2>2. now - p >= FailWait - MaxLag
    BY <1>3, <1>5, <2>1
  <2> QED
    BY <2>2 DEF p
<1>6. CASE a \in Known /\ dotMap[a].status # "Unknown" /\ e >= p + FailWait - MaxLag
  <2>1. e \in Nat /\ e <= t /\ p \in Int
    BY <1>3, <1>4, <1>6 DEF Known, MapTypes, Entries
  <2> HIDE DEF p, e
  <2>2. now - p >= FailWait - MaxLag
    BY <1>3, <1>6, <2>1
  <2> QED
    BY <2>2 DEF p
<1> QED
  BY <1>5, <1>6 DEF AllSpaced, Spaced

-----------------------------------------------------------------------------
(* The theorems *)

\* The inductive invariant.
DotInv == TInv /\ OnlyProbes /\ MapTypes /\ ProbesKnown /\ PlacesKept /\ AllSpaced

LEMMA InitDotInv == DotInit => DotInv
<1> SUFFICES ASSUME DotInit PROVE DotInv
  OBVIOUS
<1>1. Init /\ dotMap = [a \in Names |-> NoEntry] /\ numBusy = 0
      /\ using = [w \in Workers |-> NoJob] /\ probed = [a \in Names |-> -1]
  BY DEF DotInit
<1>2. queue = <<>> /\ removed = 0 /\ \A w \in Workers : at[w] = "idle"
  BY <1>1 DEF Init
<1>3. TInv
  BY <1>1, TypeInit
<1>4. Busy = {} /\ Known = {} /\ DOMAIN queue = {} /\ Len(queue) = 0
  BY <1>1, <1>2 DEF Busy, Known
<1>5. OnlyProbes
  BY <1>4 DEF OnlyProbes
<1>6. MapTypes
  BY <1>1 DEF MapTypes
<1>7. ProbesKnown
  BY <1>2, <1>4 DEF ProbesKnown, Outstanding, Queued, Probes
<1>8. PlacesKept
  <2>1. Lost = {}
    BY <1>4 DEF Lost, Busied
  <2>2. Cardinality(Busy) = 0 /\ Cardinality(Lost) = 0
    BY <1>4, <2>1, FS_EmptySet
  <2> QED
    BY <1>1, <1>4, <2>2 DEF PlacesKept, UnderWay
<1>9. AllSpaced
  BY <1>1 DEF AllSpaced, Spaced
<1> QED
  BY <1>3, <1>5, <1>6, <1>7, <1>8, <1>9 DEF DotInv

LEMMA NextDotInv == DotInv /\ [DotNext]_allVars => DotInv'
<1> SUFFICES ASSUME DotInv, [DotNext]_allVars PROVE DotInv'
  OBVIOUS
<1> USE DEF DotInv
<1>1. TInv'
  BY QueueSteps, TypeNext
<1>2. MapTypes'
  BY MapTypesNext
<1>3. OnlyProbes' /\ ProbesKnown' /\ AllSpaced'
  BY <1>2, OnlyProbesNext, ProbesKnownNext, AllSpacedNext
<1>4. PlacesKept'
  BY <1>1, <1>2, PlacesKeptNext
<1> QED
  BY <1>1, <1>2, <1>3, <1>4

LEMMA DotInvariance == DotSpec => []DotInv
  BY InitDotInv, NextDotInv, PTL DEF DotSpec

\* Probing is a way to use the task queue: what is proved of TaskQueue holds here.
THEOREM UsesTheQueue == DotSpec => Spec
<1>1. DotInit => Init
  BY DEF DotInit
<1>2. [DotNext]_allVars => [Next]_vars
  BY QueueSteps
<1> QED
  BY <1>1, <1>2, PTL DEF DotSpec, Spec

\* The map keeps its types, and the unsigned counter d_numBusy stays between zero and
\* its limit, whichever of its two hands lowers it.
THEOREM DotTypeCorrect == DotSpec => []DotTypeOK
<1>1. DotInv => DotTypeOK
  <2> SUFFICES ASSUME DotInv PROVE DotTypeOK
    OBVIOUS
  <2>1. UnderWay \in Nat /\ Cardinality(Lost) \in Nat /\ numBusy \in Int
    BY CountedNumbers DEF DotInv
  <2>2. UnderWay + Cardinality(Lost) <= numBusy /\ numBusy <= MaxBusy
    BY DEF DotInv, PlacesKept, MapTypes
  <2>3. numBusy \in 0 .. MaxBusy
    BY <2>1, <2>2
  <2> QED
    BY <2>3 DEF DotInv, MapTypes, DotTypeOK
<1> QED
  BY <1>1, DotInvariance, PTL

\* The counter is the number of probes under way, for any limit and any waits of the
\* map that are longer than the lag of the clocks.
THEOREM ProbesAreCounted == DotSpec => []ProbesCounted
<1>1. DotInv => ProbesCounted
  <2> SUFFICES ASSUME DotInv PROVE ProbesCounted
    OBVIOUS
  <2>1. ProbesUnderWay = UnderWay
    BY DEF ProbesUnderWay, UnderWay, Busy, Probes
  <2>2. UnderWay \in Nat /\ Cardinality(Lost) \in Nat /\ numBusy \in Int
    BY CountedNumbers DEF DotInv
  <2>3. UnderWay + Cardinality(Lost) <= numBusy /\ (removed = 0 => UnderWay = numBusy)
    BY DEF DotInv, PlacesKept
  <2>4. UnderWay <= numBusy
    BY <2>2, <2>3
  <2> QED
    BY <2>1, <2>3, <2>4 DEF ProbesCounted
<1> QED
  BY <1>1, DotInvariance, PTL

\* An address is not probed again before its wait is over.
THEOREM ProbesAreSpaced == DotSpec => ProbesSpaced
<1>1. DotInv /\ [DotNext]_allVars =>
        [\A a \in Names :
           (~Busied(a) /\ Busied(a)' /\ probed[a] >= 0)
             => now - probed[a] >= FailWait - MaxLag]_allVars
  BY SpacedStep DEF DotInv
<1> QED
  BY <1>1, DotInvariance, PTL DEF DotSpec, ProbesSpaced
=============================================================================

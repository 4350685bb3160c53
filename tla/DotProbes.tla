----------------------------- MODULE DotProbes -----------------------------
(***************************************************************************)
(* Probing authoritative servers for DNS over TLS (src/syncres.cc): the    *)
(* map of addresses with what is known of them, the counter of probes that *)
(* are under way, and the questions that use the map and write to it.  The *)
(* probes are tasks of TaskQueue, which this module extends.               *)
(*                                                                         *)
(* The map and the counter share one lock, which is held while a probe is  *)
(* pushed; an action is what happens under it.  A worker is an mthread     *)
(* that resolves for a client or runs a task.  The tasks of other kinds    *)
(* never touch the map and are left to TaskQueue: here Names are the       *)
(* addresses of servers, with port 853, and every task is a probe.         *)
(***************************************************************************)
EXTENDS TaskQueue

CONSTANTS
  MaxBusy,     \* s_max_busy_dot_probes
  FailWait,    \* dotFailWait, 24 hours
  SuccessWait, \* dotSuccessWait, 3 days
  NoEntry      \* an address that is not in the map

\* An entry of the map: DoTStatus, its counter as far as it is tested, and d_ttd.
Entries == [status : {"Unknown", "Busy", "Bad", "Good"}, seen : BOOLEAN, ttd : Nat]

ASSUME DotProbesAssumption ==
  /\ IsFiniteSet(Names)
  /\ MaxBusy \in Nat \ {0}
  /\ FailWait \in Nat \ {0} /\ SuccessWait \in Nat \ {0}
  /\ MaxLag <= FailWait /\ FailWait <= SuccessWait
  /\ NoEntry \notin Entries

VARIABLES
  dotMap,   \* per address its entry: d_status, d_count > 0, d_ttd
  numBusy,  \* d_numBusy
  using,    \* per worker: the address it is asking over DoT, or NoJob
  probed    \* history: when an address was last submitted for a probe, or -1

dotVars == <<dotMap, numBusy, using, probed>>
allVars == <<vars, dotVars>>

DotInit ==
  /\ Init
  /\ dotMap = [a \in Names |-> NoEntry]
  /\ numBusy = 0
  /\ using = [w \in Workers |-> NoJob]
  /\ probed = [a \in Names |-> -1]

----------------------------------------------------------------------------
Probe(a) == [kind |-> "dot", name |-> a]

Probes(w) == at[w] # "idle"

\* A worker in doResolveAt, between two servers.
Resolving(w) == Pusher(w) /\ using[w] = NoJob /\ ~Probes(w)

\* d_now of a resolution, or the clock when a task was taken.
Lately == {t \in Times : t <= now /\ now <= t + MaxLag}

Known == {a \in Names : dotMap[a] # NoEntry}

SkippedGood(entry, t) ==
  \/ entry.status = "Busy"
  \/ /\ entry.ttd > t
     /\ \/ entry.status = "Good"
        \/ entry.status = "Unknown" /\ ~entry.seen

\* Why an address is not probed now: it is being probed, its result still counts, or
\* it has been met only once.
Skipped(entry, t) ==
  \/ entry.status = "Busy"
  \/ /\ entry.ttd > t
     /\ \/ entry.status \in {"Bad", "Good"}
        \/ entry.status = "Unknown" /\ ~entry.seen

\* emplace
Emplaced(a, t) ==
  IF a \in Known THEN dotMap[a]
  ELSE [status |-> "Unknown", seen |-> FALSE, ttd |-> t + FailWait]

RoomForProbe == numBusy < MaxBusy

\* Only a task that went into the queue makes its address busy.
Submitted(entry, pushed, t) ==
  [entry EXCEPT !.ttd = t + FailWait, !.status = IF pushed THEN "Busy" ELSE @]

\* submitTryDotTask
SubmitTryDot(w, a, t) ==
  /\ Resolving(w)
  /\ RoomForProbe
  /\ LET entry  == Emplaced(a, t)
         pushed == Counts(Probe(a))
     IN  IF Skipped(entry, t)
         THEN /\ dotMap' = [dotMap EXCEPT ![a] = entry]
              /\ UNCHANGED <<vars, numBusy, probed>>
         ELSE /\ PushTryDoT(w, a)
              /\ dotMap' = [dotMap EXCEPT ![a] = Submitted(entry, pushed, t)]
              /\ numBusy' = IF pushed THEN numBusy + 1 ELSE numBusy
              /\ probed' = IF pushed THEN [probed EXCEPT ![a] = now] ELSE probed
  /\ UNCHANGED using

\* shouldDoDoT, asked for every address of a server name: the address was seen, and
\* when it is good it is asked over DoT.
ShouldDoDoT(w, a, t) ==
  /\ Resolving(w)
  /\ a \in Known
  /\ dotMap' = [dotMap EXCEPT ![a].seen = TRUE]
  /\ using' = [using EXCEPT
                 ![w] = IF dotMap[a].status = "Good" /\ dotMap[a].ttd > t THEN a ELSE @]
  /\ UNCHANGED <<vars, numBusy, probed>>

\* doDoTtoAuth: a server that the configuration wants asked over DoT.
DoTtoAuth(w, a) ==
  /\ Resolving(w)
  /\ using' = [using EXCEPT ![w] = a]
  /\ UNCHANGED <<vars, dotMap, numBusy, probed>>

UpdatedWhenGood(a, ok, t) ==
  IF ok /\ a \in Known
  THEN [dotMap EXCEPT ![a].status = "Good", ![a].ttd = t + SuccessWait]
  ELSE dotMap

\* updateDoTStatus: an address that is gone is not put back.
Updated(a, ok, t) ==
  IF a \in Known
  THEN [dotMap EXCEPT ![a].status = IF ok THEN "Good" ELSE "Bad",
                      ![a].ttd = t + (IF ok THEN SuccessWait ELSE FailWait)]
  ELSE dotMap

\* doResolveAt after an exchange over DoT: the status, but not the counter.
DoTAnswered(w, ok, t) ==
  /\ using[w] # NoJob
  /\ dotMap' = Updated(using[w], ok, t)
  /\ using' = [using EXCEPT ![w] = NoJob]
  /\ UNCHANGED <<vars, numBusy, probed>>

LowerWhenBusy(a) == IF a \in Known /\ dotMap[a].status = "Busy" THEN 1 ELSE 0

\* What a finished probe takes from the counter.
Lowered(a) == IF a \in Known THEN 1 ELSE 0

\* The end of SyncRes::tryDoT: it catches every exception, so that its last line, the
\* update, is always reached; the run that is counted after it is never an exception.
ProbeDone(w, ok, t) ==
  /\ RunDone(w, TRUE)
  /\ dotMap' = Updated(job[w].task.name, ok, t)
  /\ numBusy' = numBusy - Lowered(job[w].task.name)
  /\ UNCHANGED <<using, probed>>

\* pruneDoTProbeMap, every minute.
Old == {a \in Known : dotMap[a].ttd < now}

PruneDoTProbeMap ==
  /\ Old # {}
  /\ dotMap' = [a \in Names |-> IF a \in Old THEN NoEntry ELSE dotMap[a]]
  /\ numBusy' = numBusy - Cardinality({a \in Old : dotMap[a].status = "Busy"})
  /\ UNCHANGED <<vars, using, probed>>

----------------------------------------------------------------------------
Outstanding(a) == Queued(Probe(a)) \/ \E w \in Workers : Probes(w) /\ job[w].task = Probe(a)

\* Assumed of the rest: a probe ends before its entry does, FailWait seconds (a day)
\* after it was submitted.
ProbesInTime == \A a \in Known : Outstanding(a) => now < dotMap[a].ttd

\* The steps of TaskQueue that leave the map alone; a probe never expires.
QueueStep(w) ==
  /\ using[w] = NoJob
  /\ CountPush(w) \/ Pop(w) \/ Run(w)
  /\ UNCHANGED dotVars

DotStep(w) ==
  \E t \in Lately, ok \in BOOLEAN : ProbeDone(w, ok, t) \/ DoTAnswered(w, ok, t)

DotUse(w) ==
  \E a \in Names :
    \/ DoTtoAuth(w, a)
    \/ \E t \in Lately : SubmitTryDot(w, a, t) \/ ShouldDoDoT(w, a, t)

Others ==
  \/ (TaskQueueClear \/ TaskQueuePop) /\ UNCHANGED dotVars
  \/ ProbesInTime /\ Tick /\ UNCHANGED dotVars
  \/ PruneDoTProbeMap

DotNext == Others \/ \E w \in Workers : QueueStep(w) \/ DotStep(w) \/ DotUse(w)

\* Exchanges and probes end, and a question asks a bounded number of servers
\* (s_maxqperq), so that its worker comes back to the queue (src/rec-main.cc:2602).
DotFairness == \A w \in Workers : SF_allVars(QueueStep(w)) /\ WF_allVars(DotStep(w))

DotSpec == DotInit /\ [][DotNext]_allVars

DotFairSpec == DotSpec /\ DotFairness

----------------------------------------------------------------------------
(* Properties *)

\* The variables of this module have their types; d_numBusy, unsigned in the code, is
\* never lowered below zero.
DotTypeOK ==
  /\ dotMap \in [Names -> Entries \cup {NoEntry}]
  /\ numBusy \in 0 .. MaxBusy
  /\ using \in [Workers -> Names \cup {NoJob}]
  /\ probed \in [Names -> Times \cup {-1}]

ProbesUnderWay == Len(queue) + Cardinality({w \in Workers : Probes(w)})

\* The counter that limits the probes (src/syncres.cc:5689) is the number of probes
\* under way, whatever is written to their addresses meanwhile; it is more only when
\* tasks were taken from the queue without being run.
ProbesCounted ==
  /\ ProbesUnderWay <= numBusy
  /\ removed = 0 => ProbesUnderWay = numBusy

Busied(a) == a \in Known /\ dotMap[a].status = "Busy"

\* Between two probes of an address lie at least FailWait seconds, less what the
\* clocks of the resolutions lag behind, whoever wrote to its entry or pruned it.
ProbesSpaced ==
  [][\A a \in Names :
       (~Busied(a) /\ Busied(a)' /\ probed[a] >= 0)
         => now - probed[a] >= FailWait - MaxLag]_allVars

\* An address does not stay busy, with its place in the limit taken, while the workers
\* run the tasks, unless tasks were taken away.
BusyEnds ==
  \A a \in Names : Busied(a) ~> (~Busied(a) \/ removed > 0)
=============================================================================

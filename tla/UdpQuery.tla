------------------------------ MODULE UdpQuery ------------------------------
(***************************************************************************)
(* Questions to authoritative servers over UDP: asendto, arecvfrom,        *)
(* handleUDPServerResponse, doResends and UDPClientSocks of                *)
(* src/pdns_recursor.cc, as asyncresolve of src/lwres.cc calls them from   *)
(* the mthreads of MTasker.                                                *)
(*                                                                         *)
(* An mthread that asks what another one is asking already does not open a *)
(* socket: it is chained onto the other, the head, whose answer is resent  *)
(* to it.  The handler of a socket wakes mthreads one by one; each runs    *)
(* until it waits again, so it may ask anew before the handler goes on.    *)
(***************************************************************************)
EXTENDS Integers, Sequences, FiniteSets

CONSTANTS
  Questions,       \* records [remote, name]; name stands for qname and qtype
  Subnets,         \* what ecsSubnet can be (std::optional<Netmask>)
  Ids,             \* message ids
  Fds,             \* descriptors the kernel can give out
  WaitTimes,       \* what authWaitTimeMSec returns under changing load
  NetworkTimeout,  \* g_networkTimeoutMsec
  MaxChainLength,  \* g_maxChainLength, 0 for no limit
  NearMissLimit,   \* spoof-nearmiss-max, 0 for no limit
  IdsRepeat,       \* whether two outstanding requests may draw the same id
  Closed,          \* no descriptor (-1)
  NoPacket, NoSubnet,
  DefDelay, MaxCachedStacks,
  MaxThreads, MaxNow, \* bounds, as in MTasker
  MaxAsks          \* bound: calls of asyncresolve in a behaviour

\* A descriptor below zero names a place in a chain.
ChainFds == {-i : i \in 1 .. MaxAsks}

\* PacketID as PacketIDCompare sees it (all of them have tcpsock = 0).
PacketKeys == [q : Questions, fd : Fds \cup ChainFds, id : Ids]
\* The keys mthreadSleep waits on; nothing is ever sent to them.
SleepKeys  == [sleeper : 0 .. MaxThreads - 1]
NoKey      == [sleeper |-> -1]

\* What sendEvent carries: a packet from the wire, or the empty buffer that
\* stands for a socket error.
Packets == [kind : {"answer", "nameless", "error"}, q : Questions,
            fd : Fds, id : Ids]

ASSUME UdpQueryAssumption ==
  /\ Fds \subseteq Nat /\ IsFiniteSet(Fds)
  /\ Closed \notin Fds \cup PacketKeys
  /\ WaitTimes \subseteq Nat \ {0}
  /\ NetworkTimeout \in Nat /\ MaxChainLength \in Nat /\ NearMissLimit \in Nat
  /\ IdsRepeat \in BOOLEAN
  /\ DefDelay \in Nat /\ MaxCachedStacks \in Nat
  /\ MaxThreads \in Nat \ {0} /\ MaxNow \in Nat \ {0} /\ MaxAsks \in Nat

VARIABLES now, running, frame, scanNow, pollEnd, d_runQueue, d_zombiesQueue,
          d_threads, d_threadsCount, d_maxtid, d_tid, d_waiters,
          d_cachedStacks, d_used, d_waitstatus, d_eventkey, d_waitval,
          pc, waiter, ret, yields

MT == INSTANCE MTasker WITH
        Keys <- PacketKeys \cup SleepKeys, Vals <- Packets,
        NoVal <- NoPacket, MaxYields <- 0, Timeouts <- 1 .. MaxNow

VARIABLES
  watch,     \* t_fdm: per descriptor, the PacketID it is watched for
  d_numsocks,
  pident,    \* per mthread: the rest of the PacketID it waits with
  handler,   \* where handleUDPServerResponse is
  asked,     \* per mthread: its last asyncresolve
  asks       \* calls of asyncresolve so far (for the bound)

mtVars == <<now, running, frame, scanNow, pollEnd, d_runQueue, d_zombiesQueue,
            d_threads, d_threadsCount, d_maxtid, d_tid, d_waiters,
            d_cachedStacks, d_used, d_waitstatus, d_eventkey, d_waitval,
            pc, waiter, ret, yields>>
udpVars == <<watch, d_numsocks, pident, handler, asked, asks>>
vars == <<mtVars, udpVars>>

NoPident == [chain |-> {}, closed |-> FALSE, ecs |-> NoSubnet,
             creationTime |-> 0, nearMisses |-> 0]
Idle     == [at |-> "idle"]
NotAsked == [state |-> "none"]

Init ==
  /\ MT!Init
  /\ watch = [fd \in Fds |-> Closed]
  /\ d_numsocks = 0
  /\ pident = [t \in MT!Tids |-> NoPident]
  /\ handler = Idle
  /\ asked = [t \in MT!Tids |-> NotAsked]
  /\ asks = 0

----------------------------------------------------------------------------
(* Sockets and waiters *)

Open == {fd \in Fds : watch[fd] # Closed}

ReturnUncounted(fd) ==
  /\ watch' = [watch EXCEPT ![fd] = Closed]
  /\ UNCHANGED d_numsocks

\* UDPClientSocks::returnSocket: removeReadFD, closesocket.
ReturnSocket(fd) ==
  /\ watch' = [watch EXCEPT ![fd] = Closed]
  /\ d_numsocks' = d_numsocks - 1

IsQuery(key) == "q" \in DOMAIN key
\* The waiters that wait for an answer of a server.
QueryWaiters == {w \in d_waiters : IsQuery(w.key)}
Heads        == {w \in QueryWaiters : w.key.fd >= 0}

\* The waiter of a key; a set of one record, or empty.
Find(key) == {w \in d_waiters : w.key = key}

----------------------------------------------------------------------------
(* asyncresolve in an mthread: asendto, then arecvfrom up to its waitEvent *)

\* dns_random_uint16: nothing keeps it from drawing the id of an outstanding
\* request again, or one a chain still holds.
IdsInUse == {w.key.id : w \in QueryWaiters}
              \cup {entry[2] : entry \in UNION {pident[t].chain : t \in MT!Tids}}
DrawId(id) == IdsRepeat \/ id \notin IdsInUse

HeadsForAnySubnet(q, ecs) == {w \in Heads : w.key.q = q /\ ~pident[w.tid].closed}

HeadsOpenOrNot(q, ecs) ==
  {w \in Heads : w.key.q = q /\ pident[w.tid].ecs = ecs}

\* The heads asendto may chain onto: same remote, name, type and subnet, not yet
\* being resent.
ChainHeads(q, ecs) ==
  {w \in Heads : w.key.q = q /\ ~pident[w.tid].closed /\ pident[w.tid].ecs = ecs}

ChainFull(head) ==
  MaxChainLength > 0 /\ Cardinality(pident[head.tid].chain) >= MaxChainLength

\* uSec(age) > 1000 * authWaitTimeMSec * 2 / 3
ChainTooOld(head, wait) == now - pident[head.tid].creationTime > (wait * 2) \div 3

\* arecvfrom: the PacketID it waits with.
NewPident(ecs) == [NoPident EXCEPT !.ecs = ecs, !.creationTime = now]

\* What t asks; a request is numbered by `asks', a chained one also knows the
\* number of its head.
Asking(q, ecs, head) ==
  [state |-> "waiting", q |-> q, ecs |-> ecs, head |-> head]

Starts(t) ==
  /\ MT!Active(t)
  /\ asks < MaxAsks
  /\ asks' = asks + 1

WaitsForever(t, key, wait) == MT!WaitEvent(t, key, 0)

\* A chained request has the patience of its own.
WaitsChained(t, key, wait) == MT!WaitEvent(t, key, wait)

FirstPlace(chain) == -1

\* The place of the next request that is chained.  Requests that ended stay in
\* authReqChain, so no place is given out twice.
NextPlace(chain) == -(Cardinality(chain) + 1)

\* asendto finds a head that takes it; arecvfrom waits under the negative
\* descriptor.
AskChained(t, q, ecs, id, wait) ==
  /\ Starts(t) /\ DrawId(id)
  /\ \E head \in ChainHeads(q, ecs) :
       LET chain == pident[head.tid].chain
           fd    == NextPlace(chain)
           key   == [q |-> q, fd |-> fd, id |-> id]
       IN  /\ ~ChainFull(head) /\ ~ChainTooOld(head, wait)
           /\ IF MT!HasWaiter(key)
              THEN /\ MT!WaitEventError(t, key)
                   /\ pident' = [pident EXCEPT
                        ![head.tid].chain = @ \cup {<<fd, id>>}]
                   /\ asked' = [asked EXCEPT ![t] = [state |-> "failed"]]
              ELSE /\ WaitsChained(t, key, wait)
                   /\ pident' = [pident EXCEPT
                        ![head.tid].chain = @ \cup {<<fd, id>>},
                        ![t] = NewPident(ecs)]
                   /\ asked' = [asked EXCEPT ![t] = 
                        Asking(q, ecs, asked[head.tid].head)]
  /\ UNCHANGED <<watch, d_numsocks, handler>>

\* asendto finds a head that does not take more: ChainLimitError.
AskChainLimit(t, q, ecs, wait) ==
  /\ Starts(t)
  /\ \E head \in ChainHeads(q, ecs) : ChainFull(head) \/ ChainTooOld(head, wait)
  /\ asked' = [asked EXCEPT ![t] = [state |-> "failed"]]
  /\ UNCHANGED <<mtVars, watch, d_numsocks, pident, handler>>

\* asendto opens a socket, watches it and sends; arecvfrom waits.  When an
\* equal waiter is there already, arecvfrom closes the socket again.
AskAnew(t, q, ecs, id, fd, wait) ==
  /\ Starts(t) /\ DrawId(id)
  /\ ChainHeads(q, ecs) = {}
  /\ watch[fd] = Closed
  /\ LET key == [q |-> q, fd |-> fd, id |-> id]
     IN  IF MT!HasWaiter(key)
         THEN /\ MT!WaitEventError(t, key)
              /\ asked' = [asked EXCEPT ![t] = [state |-> "failed"]]
              /\ UNCHANGED <<watch, d_numsocks, pident>>
         ELSE /\ MT!WaitEvent(t, key, wait)
              /\ watch' = [watch EXCEPT ![fd] = key]
              /\ d_numsocks' = d_numsocks + 1
              /\ pident' = [pident EXCEPT ![t] = NewPident(ecs)]
              /\ asked' = [asked EXCEPT ![t] = Asking(q, ecs, asks)]
  /\ UNCHANGED handler

\* getSocket fails, or send does and the socket is returned at once.
AskSendFails(t, q, ecs) ==
  /\ Starts(t)
  /\ ChainHeads(q, ecs) = {}
  /\ asked' = [asked EXCEPT ![t] = [state |-> "failed"]]
  /\ UNCHANGED <<mtVars, watch, d_numsocks, pident, handler>>

\* How arecvfrom judges a packet.
Verdict(t) ==
  IF d_waitval.kind = "error" THEN "failed"
  ELSE IF NearMissLimit > 0 /\ pident[t].nearMisses > NearMissLimit
       THEN "spoofed" ELSE "answered"

\* asyncresolve makes a chained mthread whose answer took long sleep a while.
TooSlow(t) ==
  /\ waiter[t].key.fd < 0
  /\ now - pident[t].creationTime > (NetworkTimeout * 2) \div 3

ClosesUnlessAnswered(verdict, fd) == verdict # "answered" /\ fd >= 0

Closes(verdict, fd) == verdict = "timeout" /\ fd >= 0

\* arecvfrom behind its waitEvent.  On an answer the handler closes the socket,
\* on a timeout it is closed here.
Receive(t) ==
  /\ MT!WaitReturn(t)
  /\ asked[t].state = "waiting"
  /\ LET fd      == d_eventkey.fd
         verdict == IF d_waitstatus = MT!Answer THEN Verdict(t) ELSE "timeout"
     IN  /\ IF Closes(verdict, fd)
            THEN ReturnSocket(fd) ELSE UNCHANGED <<watch, d_numsocks>>
         /\ asked' = [asked EXCEPT ![t] =
              IF verdict \in {"failed", "timeout"} THEN [state |-> verdict]
              ELSE [state |-> IF verdict = "answered" /\ TooSlow(t)
                              THEN "slow" ELSE verdict,
                    q |-> @.q, ecs |-> @.ecs, head |-> @.head,
                    packet |-> d_waitval]]
  /\ pident' = [pident EXCEPT ![t] = NoPident]
  /\ UNCHANGED <<handler, asks>>

SleepsAlways(jitter) == TRUE

\* jitterMsec > 0; for 0 the mthread just goes on.
Sleeps(jitter) == jitter > 0

\* mthreadSleep: wait for an event that never happens.
Sleep(t, jitter) ==
  /\ asked[t].state = "slow"
  /\ Sleeps(jitter)
  /\ MT!WaitEvent(t, [sleeper |-> t], jitter)
  /\ asked' = [asked EXCEPT ![t] = NotAsked]
  /\ UNCHANGED <<watch, d_numsocks, pident, handler, asks>>

SleepReturn(t) ==
  /\ MT!WaitReturn(t)
  /\ asked[t].state = "none"
  /\ UNCHANGED udpVars

\* The mthread ends; before that it may ask again, as SyncRes does.
Finish(t) ==
  /\ MT!Finish(t)
  /\ asked' = [asked EXCEPT ![t] = NotAsked]
  /\ UNCHANGED <<watch, d_numsocks, pident, handler, asks>>

----------------------------------------------------------------------------
(* handleUDPServerResponse in the kernel *)

HandlerAt(at) == MT!KernelAt("poll") /\ handler.at = at

\* Send `packet' to the chain entries of todo and then to w itself; closeFd is the
\* socket to return after that.
Deliver(w, packet, todo, closeFd) ==
  handler' = [at |-> "resend", key |-> w.key, packet |-> packet, todo |-> todo,
              fd |-> closeFd, head |-> asked[w.tid].head,
              ecs |-> pident[w.tid].ecs]

\* doResends: close the chain of w, then send to all of it.
DoResends(w, packet, closeFd) ==
  /\ pident' = [pident EXCEPT ![w.tid].closed = TRUE]
  /\ Deliver(w, packet, pident[w.tid].chain, closeFd)

\* recvfrom fails: the socket goes first, then everybody gets the empty buffer.
RecvError(fd) ==
  /\ HandlerAt("idle")
  /\ fd \in Open
  /\ ReturnSocket(fd)
  /\ LET pid    == watch[fd]
         packet == [kind |-> "error", q |-> pid.q, fd |-> fd, id |-> pid.id]
     IN  IF Find(pid) # {}
         THEN \E w \in Find(pid) : DoResends(w, packet, Closed)
         ELSE UNCHANGED <<pident, handler>>
  /\ UNCHANGED <<mtVars, asked, asks>>

\* The full scan for a packet that fits nobody: right socket, right question,
\* wrong id.  (Counted up to one past the limit.)
CountNearMisses(fd, q) ==
  pident' = [t \in MT!Tids |->
    IF /\ pc[t] = "waiting" /\ waiter[t] \in Heads
       /\ waiter[t].key.fd = fd /\ waiter[t].key.q = q
       /\ NearMissLimit > 0 /\ pident[t].nearMisses <= NearMissLimit
    THEN [pident[t] EXCEPT !.nearMisses = @ + 1]
    ELSE pident[t]]

\* A reply that repeats a question.  The sockets are connected, so it is from
\* the remote that was asked.
RecvAnswer(fd, q, id) ==
  /\ HandlerAt("idle")
  /\ fd \in Open
  /\ q.remote = watch[fd].q.remote
  /\ LET key    == [q |-> q, fd |-> fd, id |-> id]
         packet == [kind |-> "answer", q |-> q, fd |-> fd, id |-> id]
     IN  IF Find(key) # {}
         THEN \E w \in Find(key) : DoResends(w, packet, fd)
         ELSE CountNearMisses(fd, q) /\ UNCHANGED handler
  /\ UNCHANGED <<mtVars, watch, d_numsocks, asked, asks>>

\* A reply without a question section (or without the qr bit).  It is taken for
\* the first waiter with that remote and id, whatever its socket; the names
\* decide which one is first.
RecvNameless(fd, id) ==
  /\ HandlerAt("idle")
  /\ fd \in Open
  /\ \E w \in QueryWaiters :
       /\ w.key.id = id /\ w.key.q.remote = watch[fd].q.remote
       /\ LET key    == [q |-> w.key.q, fd |-> fd, id |-> id]
              packet == [kind |-> "nameless", q |-> w.key.q, fd |-> fd, id |-> id]
          IN  IF Find(key) # {}
              THEN /\ \E v \in Find(key) : Deliver(v, packet, {}, fd)
                   /\ UNCHANGED pident
              ELSE CountNearMisses(fd, w.key.q) /\ UNCHANGED handler
  /\ UNCHANGED <<mtVars, watch, d_numsocks, asked, asks>>

SameQuestion(key) == {w \in QueryWaiters : w.key.q = key.q /\ w.key # handler.key}

\* The waiter sendEvent finds: all of the PacketID counts.
Chained(key) == Find(key)

\* One round of doResends, in the order of the set authReqChain.
ResendOne ==
  /\ HandlerAt("resend")
  /\ \E entry \in handler.todo :
       /\ \A other \in handler.todo : entry[1] <= other[1]
       /\ LET key == [q |-> handler.key.q, fd |-> entry[1], id |-> entry[2]]
          IN  IF Chained(key) = {} THEN UNCHANGED mtVars
              ELSE \E w \in Chained(key) : MT!SendEvent(w.key, handler.packet)
       /\ handler' = [handler EXCEPT !.todo = @ \ {entry}]
  /\ UNCHANGED <<watch, d_numsocks, pident, asked, asks>>

HeadAnyTime == TRUE

HeadLast == handler.todo = {}

\* sendEvent to the head.
WakeHead ==
  /\ HandlerAt("resend")
  /\ HeadLast
  /\ IF MT!HasWaiter(handler.key)
     THEN MT!SendEvent(handler.key, handler.packet) ELSE UNCHANGED mtVars
  /\ handler' = IF handler.fd = Closed THEN Idle ELSE [handler EXCEPT !.at = "close"]
  /\ UNCHANGED <<watch, d_numsocks, pident, asked, asks>>

\* The head's mthread has given control back: return its socket.
CloseSocket ==
  /\ HandlerAt("close")
  /\ ReturnSocket(handler.fd)
  /\ handler' = Idle
  /\ UNCHANGED <<mtVars, pident, asked, asks>>

\* The rest of the kernel: between two calls of a handler.
MainLoop ==
  /\ handler.at = "idle"
  /\ MT!KernelStep \/ MT!MakeThread
  /\ UNCHANGED udpVars

Tick == MT!Tick /\ UNCHANGED udpVars

----------------------------------------------------------------------------
HandlerStep == ResendOne \/ WakeHead \/ CloseSocket

Arrival == \E fd \in Open : \/ RecvError(fd)
                            \/ \E id \in Ids :
                                 \/ RecvNameless(fd, id)
                                 \/ \E q \in Questions : RecvAnswer(fd, q, id)

Ask(t) ==
  \E q \in Questions, ecs \in Subnets :
    \/ AskSendFails(t, q, ecs)
    \/ \E wait \in WaitTimes :
         \/ AskChainLimit(t, q, ecs, wait)
         \/ \E id \in Ids : \/ AskChained(t, q, ecs, id, wait)
                            \/ \E fd \in Fds : AskAnew(t, q, ecs, id, fd, wait)

MThreadStep(t) ==
  \/ Ask(t) \/ Receive(t) \/ SleepReturn(t) \/ Finish(t)
  \/ \E jitter \in WaitTimes \cup {0} : Sleep(t, jitter)

Next == MainLoop \/ Tick \/ HandlerStep \/ Arrival \/ \E t \in MT!Tids : MThreadStep(t)

Spec == Init /\ [][Next]_vars

\* As in MTasker: mthreads give control back, the kernel goes on, time passes
\* and the timer of the poll is seen.
GiveUp(t) == Ask(t) \/ Finish(t) \/ \E jitter \in WaitTimes \cup {0} : Sleep(t, jitter)

Fairness ==
  /\ WF_vars(MainLoop) /\ WF_vars(HandlerStep)
  /\ SF_vars(MT!PollReturn /\ handler.at = "idle" /\ UNCHANGED udpVars)
  /\ WF_vars(Tick)
  /\ \A t \in MT!Tids : /\ WF_vars(Receive(t) \/ SleepReturn(t))
                        /\ WF_vars(GiveUp(t))

FairSpec == Spec /\ Fairness

----------------------------------------------------------------------------
(* Properties *)

Pidents == [chain : SUBSET (ChainFds \X Ids), closed : BOOLEAN,
            ecs : Subnets \cup {NoSubnet}, creationTime : 0 .. MaxNow, nearMisses : 0 .. NearMissLimit + 1]

\* The variables have their types.
TypeOK ==
  /\ MT!TypeOK
  /\ watch \in [Fds -> PacketKeys \cup {Closed}]
  /\ d_numsocks \in 0 .. Cardinality(Fds)
  /\ pident \in [MT!Tids -> Pidents]
  /\ handler.at \in {"idle", "resend", "close"}
  /\ \A t \in MT!Tids : asked[t].state \in {"none", "waiting", "answered", "slow",
                                            "failed", "timeout", "spoofed"}
  /\ asks \in 0 .. MaxAsks

\* While the kernel polls, the open sockets are those of the requests that wait
\* on one: none leaks past the end of its request, and none is closed under a
\* request that still waits on it, or twice (the number would be in use by
\* another request).
SocketsOwned ==
  (MT!KernelAt("poll") /\ handler.at = "idle") =>
    /\ {watch[fd] : fd \in Open} = {w.key : w \in Heads}
    /\ \A fd \in Open : watch[fd].fd = fd
    /\ d_numsocks = Cardinality(Open)

\* An answer (or a socket error) ends only requests it was for: the one it was
\* sent to and those chained onto that one, while the ids of outstanding requests
\* differ (~IdsRepeat).
AnswerIsOwn ==
  [][\A t \in MT!Tids :
       (pc[t] = "waiting" /\ pc'[t] = "returning" /\ d_waitstatus' = MT!Answer)
         => /\ asked[t].head = handler.head
            /\ asked[t].q = handler.packet.q]_vars

ChainedOn(head) ==
  {t \in MT!Tids : asked[t].state = "waiting" /\ pc[t] = "waiting"
                   /\ waiter[t].key.fd < 0 /\ asked[t].head = head}

\* doResends leaves nobody behind: when the head's turn comes, all that were
\* chained onto it have been given its answer, whoever asked the same thing
\* while they were being woken.
ChainServed ==
  (handler.at = "resend" /\ handler.todo = {} /\ handler.packet.kind # "nameless")
    => ChainedOn(handler.head) = {}

\* "resend event to everybody chained onto it" (src/pdns_recursor.cc:4264), for
\* every packet that ends the head's request.
EverybodyChainedServed == handler.at = "close" => ChainedOn(handler.head) = {}

\* A request is only ended by the answer to "the same query (qname, qtype and ecs
\* if applicable) to the same host" (src/pdns_recursor.cc:609), its subnet
\* included, while the ids of outstanding requests differ (~IdsRepeat).  With
\* equal ids in two chains it fails: doResends finds a chained request by remote,
\* question, place and id only (src/pdns_recursor.cc:4281-4284).
AnswerForOwnSubnet ==
  [][\A t \in MT!Tids :
       (pc[t] = "waiting" /\ pc'[t] = "returning" /\ d_waitstatus' = MT!Answer)
         => asked[t].ecs = handler.ecs]_vars

\* Requests chained onto a head stay within g_maxChainLength, and each one waits
\* under a place of its own in the chain.
ChainPlaces ==
  \A t \in MT!Tids :
    /\ MaxChainLength > 0 => Cardinality(pident[t].chain) <= MaxChainLength
    /\ \A x, y \in pident[t].chain : x[1] = y[1] => x = y

\* Every request ends, answered or not.
AskEnds == \A t \in MT!Tids : asked[t].state = "waiting" ~> asked[t].state # "waiting"

\* The groups of Requests: a head and what is chained onto it.
GroupOf(t) == IF asked[t].state = "waiting" /\ pc[t] = "waiting"
              THEN asked[t].head ELSE Closed
BeingAnswered == handler.at = "resend"

Groups  == [t \in MT!Tids |-> GroupOf(t)]
Leaders == {w.tid : w \in Heads}
\* The heads that are not being answered.
Accepting ==
  {[number |-> asked[w.tid].head, q |-> w.key.q, ecs |-> pident[w.tid].ecs] :
     w \in {v \in Heads : BeingAnswered => asked[v.tid].head # handler.head}}
Answering ==
  IF BeingAnswered
  THEN [number |-> handler.head, all |-> handler.packet.kind # "nameless"]
  ELSE Closed

\* Closed also stands for no group, and for none that is being answered.
ASSUME ClosedAssumption == Closed \notin Nat \cup [number : Nat, all : BOOLEAN]

Group == INSTANCE Requests WITH
  Clients <- MT!Tids, Numbers <- 0 .. MaxAsks, None <- Closed,
  group <- Groups, leads <- Leaders, accepting <- Accepting, answering <- Answering

\* The requests of the mthreads are served as Requests promises.
KeepsPromise == Group!Spec

\* The mthreads and handlers of this module use MTasker as it is specified.
UsesMTasker == MT!Spec
=============================================================================

-------------------------- MODULE UdpAnswersProofs --------------------------
(***************************************************************************)
(* Whose answer a request gets: what ends a request of UdpQuery is the     *)
(* answer to its own question, and all requests are served as Requests     *)
(* promises.                                                               *)
(*                                                                         *)
(* This rests on message ids that do not repeat (~IdsRepeat): doResends    *)
(* names a chained request by its place and its id, and two chains count   *)
(* their places alike.                                                     *)
(***************************************************************************)
EXTENDS UdpQueryProofs

\* t waits for an answer.
Expects(t) == pc[t] = "waiting" /\ asked[t].state = "waiting"

-----------------------------------------------------------------------------
(* The invariant *)

\* A chain ends with the request of its head.
ChainsEnded == \A t \in MT!Tids : asked[t].state # "waiting" => pident[t].chain = {}

SubnetsKept == \A t \in MT!Tids : asked[t].state = "waiting" => pident[t].ecs = asked[t].ecs

\* What the handler carries while it resends: the question, the number, the subnet and the
\* chain of one head, which waits until its turn comes.
Carries(u) ==
  /\ Leads(u) /\ waiter[u].key = handler.key /\ asked[u].head = handler.head
  /\ handler.packet.q = handler.key.q /\ handler.ecs = asked[u].ecs
  /\ handler.todo \subseteq pident[u].chain

Carried ==
  handler.at = "resend" =>
    /\ \E u \in MT!Tids : Carries(u)
    /\ handler.packet.kind = "nameless" => handler.todo = {} /\ running = MT!Kernel

\* Only the chain that is being resent is closed.
ClosedServed ==
  \A u \in MT!Tids : Leads(u) /\ pident[u].closed
    => handler.at = "resend" /\ asked[u].head = handler.head

\* An id in a chain is that of no request but the one that was chained there.
IdsApart ==
  \A t, u \in MT!Tids : \A e \in pident[u].chain :
    Expects(t) /\ waiter[t].key.id = e[2]
      => asked[t].head = asked[u].head /\ asked[t].ecs = asked[u].ecs

Apart ==
  ChainsEnded /\ SubnetsKept /\ Carried /\ ClosedServed /\ (~IdsRepeat => IdsApart)

LEMMA ApartInit == Init => Apart
<1> SUFFICES ASSUME Init PROVE Apart
  OBVIOUS
<1>1. /\ handler.at = "idle"
      /\ \A t \in MT!Tids : asked[t].state = "none" /\ pident[t].chain = {}
  BY DEF Init, Idle, NotAsked, NoPident
<1> QED
  BY <1>1 DEF Apart, ChainsEnded, SubnetsKept, Carried, ClosedServed, IdsApart, Leads

-----------------------------------------------------------------------------
(* What the steps do to those who wait for an answer *)

LEMMA ExpectsKnown ==
  ASSUME SchedulerInv, AskedMatch, NEW t \in MT!Tids, Expects(t)
  PROVE  /\ waiter[t] \in QueryWaiters /\ waiter[t].tid = t
         /\ waiter[t].key \in PacketKeys /\ waiter[t].key.q = asked[t].q
         /\ Leads(t) \/ Follows(t)
         /\ ~(Leads(t) /\ Follows(t))
<1>1. pc[t] = "waiting" /\ asked[t].state = "waiting"
  BY DEF Expects
<1>2. waiter[t].key \in PacketKeys /\ waiter[t].key.q = asked[t].q
  BY <1>1 DEF AskedMatch
<1>3. waiter[t] \in d_waiters /\ waiter[t].tid = t
  BY <1>1 DEF SchedulerInv, MT!WaitersMatch
<1>4. waiter[t].key.fd \in Int
  <2>1. waiter[t].key.fd \in Fds \cup ChainFds
    BY <1>2, KeyKinds
  <2> QED
    BY <2>1, KeyKinds
<1>5. waiter[t] \in QueryWaiters
  BY <1>2, <1>3, KeyKinds DEF QueryWaiters
<1> QED
  BY <1>1, <1>2, <1>3, <1>4, <1>5 DEF Leads, Follows

LEMMA LeadsExpects == ASSUME NEW t PROVE Leads(t) \/ Follows(t) => Expects(t)
  BY DEF Leads, Follows, Expects

\* An id that is drawn is new.
LEMMA DrawnApart ==
  ASSUME SchedulerInv, AskedMatch, ~IdsRepeat, NEW id, DrawId(id)
  PROVE  /\ \A t \in MT!Tids : Expects(t) => waiter[t].key.id # id
         /\ \A u \in MT!Tids : \A e \in pident[u].chain : e[2] # id
<1>1. id \notin IdsInUse
  BY DEF DrawId
<1>2. ASSUME NEW t \in MT!Tids, Expects(t) PROVE waiter[t].key.id # id
  BY <1>1, <1>2, ExpectsKnown DEF IdsInUse
<1>3. ASSUME NEW u \in MT!Tids, NEW e \in pident[u].chain PROVE e[2] # id
  BY <1>1 DEF IdsInUse
<1> QED
  BY <1>2, <1>3

\* One turn of doResends: nobody waits under the place, or who does is woken.
LEMMA ResendMoves ==
  ASSUME SchedulerInv, Types, ResendOne
  PROVE  /\ handler.at = "resend" /\ running = MT!Kernel
         /\ UNCHANGED <<waiter, asked, asks, pident>>
         /\ \E e \in handler.todo :
              /\ handler' \in HandlerRecords /\ handler'.at = "resend"
              /\ handler'.key = handler.key
              /\ handler'.head = handler.head /\ handler'.packet = handler.packet
              /\ handler'.ecs = handler.ecs /\ handler'.todo = handler.todo \ {e}
              /\ \/ UNCHANGED mtVars
                 \/ /\ \E t \in MT!Tids :
                         /\ pc[t] = "waiting" /\ pc' = [pc EXCEPT ![t] = "returning"]
                         /\ waiter[t].key = [q |-> handler.key.q, fd |-> e[1], id |-> e[2]]
                    /\ d_waitstatus' = MT!Answer
<1>1. /\ handler.at = "resend" /\ handler \in HandlerRecords /\ running = MT!Kernel
      /\ UNCHANGED <<asked, asks, pident>>
  BY DEF ResendOne, HandlerAt, MT!KernelAt, Types, Idle
<1>2. PICK e \in handler.todo :
        LET key == [q |-> handler.key.q, fd |-> e[1], id |-> e[2]]
        IN  /\ IF Chained(key) = {} THEN UNCHANGED mtVars
               ELSE \E w \in Chained(key) : MT!SendEvent(w.key, handler.packet)
            /\ handler' = [handler EXCEPT !.todo = @ \ {e}]
  BY DEF ResendOne
<1>3. PICK key : key = [q |-> handler.key.q, fd |-> e[1], id |-> e[2]]
  OBVIOUS
<1>4. /\ handler' \in HandlerRecords /\ handler'.at = "resend" /\ handler'.key = handler.key
      /\ handler'.head = handler.head /\ handler'.packet = handler.packet
      /\ handler'.ecs = handler.ecs /\ handler'.todo = handler.todo \ {e}
  BY <1>1, <1>2 DEF HandlerRecords
<1>5. UNCHANGED mtVars \/ MT!SendEvent(key, handler.packet)
  BY <1>2, <1>3 DEF Chained, Find
<1>6. CASE UNCHANGED mtVars
  <2>1. UNCHANGED waiter
    BY <1>6 DEF mtVars
  <2> QED
    BY <1>1, <1>4, <1>6, <2>1
<1>7. CASE MT!SendEvent(key, handler.packet)
  <2>1. UNCHANGED waiter /\ d_waitstatus' = MT!Answer
    BY <1>7, Sends
  <2>2. PICK w \in d_waiters : /\ w.key = key /\ w.tid \in MT!Tids
                               /\ pc' = [pc EXCEPT ![w.tid] = "returning"]
    BY <1>7, Sends
  <2>3. pc[w.tid] = "waiting" /\ waiter[w.tid] = w
    BY <2>2 DEF SchedulerInv, MT!WaitersMatch
  <2>4. \E t \in MT!Tids : /\ pc[t] = "waiting" /\ pc' = [pc EXCEPT ![t] = "returning"]
                           /\ waiter[t].key = key
    BY <2>2, <2>3
  <2> QED
    BY <1>1, <1>3, <1>4, <2>1, <2>4
<1> QED
  BY <1>5, <1>6, <1>7

\* The head's turn.
LEMMA HeadMoves ==
  ASSUME SchedulerInv, Types, NEW u \in MT!Tids, Leads(u), waiter[u].key = handler.key, WakeHead
  PROVE  /\ handler.at = "resend" /\ handler.todo = {} /\ handler'.at # "resend"
         /\ UNCHANGED <<waiter, asked, asks, pident>>
         /\ pc' = [pc EXCEPT ![u] = "returning"] /\ d_waitstatus' = MT!Answer
<1>1. /\ handler.at = "resend" /\ handler \in HandlerRecords /\ handler.todo = {}
      /\ UNCHANGED <<asked, asks, pident>>
      /\ handler' = IF handler.fd = Closed THEN Idle ELSE [handler EXCEPT !.at = "close"]
  BY DEF WakeHead, HeadLast, HandlerAt, Types, Idle
<1>2. handler'.at # "resend"
  BY <1>1 DEF Idle, HandlerRecords
<1>3. waiter[u] \in d_waiters
  BY DEF Leads, SchedulerInv, MT!WaitersMatch
<1>4. MT!SendEvent(handler.key, handler.packet)
  BY <1>3 DEF WakeHead, MT!HasWaiter
<1>5. UNCHANGED waiter /\ d_waitstatus' = MT!Answer
  BY <1>4, Sends
<1>6. PICK w \in d_waiters : w.key = handler.key /\ pc' = [pc EXCEPT ![w.tid] = "returning"]
  BY <1>4, Sends
<1>7. w = waiter[u] /\ w.tid = u
  BY <1>3, <1>6 DEF Leads, SchedulerInv, MT!WaitersMatch
<1> QED
  BY <1>1, <1>2, <1>5, <1>6, <1>7

\* A packet leaves the waiters alone; it may set the handler to work for one head.
LEMMA PacketMoves ==
  ASSUME SchedulerInv, Types, AskedMatch, Owned, NEW fd \in Open,
         \/ RecvError(fd)
         \/ \E id \in Ids : \/ RecvNameless(fd, id)
                            \/ \E q \in Questions : RecvAnswer(fd, q, id)
  PROVE  /\ handler.at = "idle" /\ running = MT!Kernel
         /\ UNCHANGED <<mtVars, asked, asks>> /\ ChainsKept
         /\ \/ UNCHANGED handler /\ \A t \in MT!Tids : pident'[t].closed = pident[t].closed
            \/ \E w \in Heads, packet \in Packets : \E closeFd, todo :
                 /\ Deliver(w, packet, todo, closeFd)
                 /\ packet.q = w.key.q
                 /\ IF packet.kind = "nameless"
                    THEN todo = {} /\ UNCHANGED pident
                    ELSE /\ todo = pident[w.tid].chain
                         /\ pident' = [pident EXCEPT ![w.tid].closed = TRUE]
<1>1. UNCHANGED <<mtVars, asked, asks>> /\ ChainsKept
  BY PacketsLeave
<1>2. handler.at = "idle" /\ running = MT!Kernel /\ fd \in Fds
  BY DEF RecvError, RecvNameless, RecvAnswer, HandlerAt, MT!KernelAt, Open
<1>3. ASSUME NEW key \in PacketKeys, key.fd = fd, NEW w \in Find(key)
      PROVE  w \in Heads /\ w.key = key
  <2>1. w \in d_waiters /\ w.key = key /\ IsQuery(w.key)
    BY KeyKinds DEF Find
  <2>2. fd \in Nat
    BY <1>2, KeyKinds
  <2> QED
    BY <1>3, <2>1, <2>2 DEF Heads, QueryWaiters
<1>4. ASSUME NEW q, CountNearMisses(fd, q)
      PROVE  \A t \in MT!Tids : pident'[t].closed = pident[t].closed
  <2> DEFINE Seen(t) ==
        IF /\ pc[t] = "waiting" /\ waiter[t] \in Heads
           /\ waiter[t].key.fd = fd /\ waiter[t].key.q = q
           /\ NearMissLimit > 0 /\ pident[t].nearMisses <= NearMissLimit
        THEN [pident[t] EXCEPT !.nearMisses = @ + 1]
        ELSE pident[t]
  <2>1. pident' = [t \in MT!Tids |-> Seen(t)]
    BY <1>4 DEF CountNearMisses
  <2>2. ASSUME NEW t \in MT!Tids PROVE Seen(t).closed = pident[t].closed
    <3>1. pident[t] \in Pidents
      BY DEF Types
    <3> QED
      BY <3>1 DEF Pidents
  <2> HIDE DEF Seen
  <2> QED
    BY <2>1, <2>2
<1>5. CASE RecvError(fd)
  <2>1. watch[fd] \in PacketKeys /\ watch[fd].fd = fd
    BY <1>2 DEF Open, Types, Owned
  <2>2. PICK packet :
          packet = [kind |-> "error", q |-> watch[fd].q, fd |-> fd, id |-> watch[fd].id]
    OBVIOUS
  <2>3. packet \in Packets
    BY <1>2, <2>1, <2>2, KeyKinds DEF Packets
  <2>4. \/ UNCHANGED <<pident, handler>>
        \/ \E w \in Find(watch[fd]) : DoResends(w, packet, Closed)
    BY <1>5, <2>2 DEF RecvError
  <2>5. CASE \E w \in Find(watch[fd]) : DoResends(w, packet, Closed)
    <3>1. PICK w \in Find(watch[fd]) : DoResends(w, packet, Closed)
      BY <2>5
    <3>2. w \in Heads /\ w.key = watch[fd]
      BY <1>3, <2>1
    <3>3. packet.q = w.key.q /\ packet.kind # "nameless"
      BY <2>2, <3>2
    <3> QED
      BY <1>1, <1>2, <2>3, <3>1, <3>2, <3>3 DEF DoResends
  <2> QED
    BY <1>1, <1>2, <2>4, <2>5
<1>6. ASSUME NEW id \in Ids, NEW q \in Questions, RecvAnswer(fd, q, id)
      PROVE  \/ UNCHANGED handler /\ \A t \in MT!Tids : pident'[t].closed = pident[t].closed
             \/ \E w \in Heads, packet \in Packets : \E closeFd, todo :
                  /\ Deliver(w, packet, todo, closeFd)
                  /\ packet.q = w.key.q /\ packet.kind # "nameless"
                  /\ todo = pident[w.tid].chain
                  /\ pident' = [pident EXCEPT ![w.tid].closed = TRUE]
  <2>1. PICK key : key = [q |-> q, fd |-> fd, id |-> id]
    OBVIOUS
  <2>2. PICK packet : packet = [kind |-> "answer", q |-> q, fd |-> fd, id |-> id]
    OBVIOUS
  <2>3. key \in PacketKeys /\ key.fd = fd /\ packet \in Packets
    BY <1>2, <2>1, <2>2 DEF PacketKeys, Packets
  <2>4. \/ UNCHANGED handler /\ CountNearMisses(fd, q)
        \/ \E w \in Find(key) : DoResends(w, packet, fd)
    BY <1>6, <2>1, <2>2 DEF RecvAnswer
  <2>5. CASE \E w \in Find(key) : DoResends(w, packet, fd)
    <3>1. PICK w \in Find(key) : DoResends(w, packet, fd)
      BY <2>5
    <3>2. w \in Heads /\ w.key = key
      BY <1>3, <2>3
    <3>3. packet.q = w.key.q /\ packet.kind # "nameless"
      BY <2>1, <2>2, <3>2
    <3> QED
      BY <2>3, <3>1, <3>2, <3>3 DEF DoResends
  <2> QED
    BY <1>4, <2>4, <2>5
<1>7. ASSUME NEW id \in Ids, RecvNameless(fd, id)
      PROVE  \/ UNCHANGED handler /\ \A t \in MT!Tids : pident'[t].closed = pident[t].closed
             \/ \E w \in Heads, packet \in Packets : \E closeFd, todo :
                  /\ Deliver(w, packet, todo, closeFd)
                  /\ packet.q = w.key.q /\ packet.kind = "nameless"
                  /\ todo = {} /\ UNCHANGED pident
  <2>1. PICK q, key, packet :
          /\ q \in Questions
          /\ key = [q |-> q, fd |-> fd, id |-> id]
          /\ packet = [kind |-> "nameless", q |-> q, fd |-> fd, id |-> id]
          /\ \/ UNCHANGED handler /\ CountNearMisses(fd, q)
             \/ (\E w \in Find(key) : Deliver(w, packet, {}, fd)) /\ UNCHANGED pident
    <3>1. PICK v \in QueryWaiters :
            LET k == [q |-> v.key.q, fd |-> fd, id |-> id]
                p == [kind |-> "nameless", q |-> v.key.q, fd |-> fd, id |-> id]
            IN  \/ UNCHANGED handler /\ CountNearMisses(fd, v.key.q)
                \/ (\E w \in Find(k) : Deliver(w, p, {}, fd)) /\ UNCHANGED pident
      BY <1>7 DEF RecvNameless
    <3>2. v.key.q \in Questions
      BY KeyKinds DEF QueryWaiters, SchedulerInv, MT!TypeOK, MT!Waiters
    <3> QED
      BY <3>1, <3>2
  <2>2. key \in PacketKeys /\ key.fd = fd /\ packet \in Packets
    BY <1>2, <2>1 DEF PacketKeys, Packets
  <2>3. CASE (\E w \in Find(key) : Deliver(w, packet, {}, fd)) /\ UNCHANGED pident
    <3>1. PICK w \in Find(key) : Deliver(w, packet, {}, fd)
      BY <2>3
    <3>2. w \in Heads /\ w.key = key
      BY <1>3, <2>2
    <3>3. packet.q = w.key.q /\ packet.kind = "nameless"
      BY <2>1, <3>2
    <3> QED
      BY <2>2, <2>3, <3>1, <3>2, <3>3
  <2> QED
    BY <1>4, <2>1, <2>3
<1>8. \/ RecvError(fd)
      \/ UNCHANGED handler /\ \A t \in MT!Tids : pident'[t].closed = pident[t].closed
      \/ \E w \in Heads, packet \in Packets : \E closeFd, todo :
           /\ Deliver(w, packet, todo, closeFd)
           /\ packet.q = w.key.q
           /\ IF packet.kind = "nameless"
              THEN todo = {} /\ UNCHANGED pident
              ELSE /\ todo = pident[w.tid].chain
                   /\ pident' = [pident EXCEPT ![w.tid].closed = TRUE]
  BY <1>6, <1>7
<1> QED
  BY <1>1, <1>2, <1>5, <1>8

-----------------------------------------------------------------------------
(* The invariant is kept *)

\* An id that gets into a chain is that of no other request.
LEMMA IdsStay ==
  ASSUME IdsApart,
         \A t \in MT!Tids : Expects(t)' => Expects(t) /\ waiter'[t] = waiter[t]
                                           /\ asked'[t] = asked[t],
         \A u \in MT!Tids : \A e \in pident'[u].chain :
           \/ e \in pident[u].chain /\ asked'[u] = asked[u]
           \/ \A t \in MT!Tids : Expects(t) => waiter[t].key.id # e[2]
  PROVE  IdsApart'
  BY DEF IdsApart

\* An mthread that runs and does not wait for an answer when it is done.
LEMMA AsideApart ==
  ASSUME SchedulerInv, Types, Apart, NEW t \in MT!Tids, running = t, pc[t] # "waiting",
         asked'[t].state # "waiting", pident'[t].chain = {}, UNCHANGED handler,
         \A u \in MT!Tids : u # t => /\ pc'[u] = pc[u] /\ waiter'[u] = waiter[u]
                                     /\ asked'[u] = asked[u] /\ pident'[u] = pident[u]
  PROVE  Apart'
<1>1. ChainsEnded' /\ SubnetsKept'
  BY DEF Apart, ChainsEnded, SubnetsKept
<1>2. \A u \in MT!Tids : Expects(u) <=> Expects(u)' 
  BY DEF Expects
<1>3. \A u \in MT!Tids : Expects(u) => u # t
  BY DEF Expects
<1>4. \A u \in MT!Tids : Leads(u) <=> Leads(u)'
  BY DEF Leads
<1>5. \A u \in MT!Tids : Leads(u) => u # t
  BY DEF Leads
<1>6. Carried'
  <2>1. t # MT!Kernel
    BY DEF MT!Tids, MT!Kernel
  <2>2. ASSUME handler.at = "resend"
        PROVE  handler.packet.kind # "nameless" /\ \E u \in MT!Tids : Carries(u)'
    <3>1. PICK u \in MT!Tids : Carries(u)
      BY <2>2 DEF Apart, Carried
    <3>2. u # t
      BY <1>5, <3>1 DEF Carries
    <3>3. Carries(u)'
      BY <1>4, <3>1, <3>2 DEF Carries
    <3> QED
      BY <2>1, <2>2, <3>3 DEF Apart, Carried
  <2> QED
    BY <2>2 DEF Carried
<1>7. ClosedServed'
  BY <1>4, <1>5 DEF Apart, ClosedServed
<1>8. ~IdsRepeat => IdsApart'
  <2> SUFFICES ASSUME ~IdsRepeat PROVE IdsApart'
    OBVIOUS
  <2>1. \A u \in MT!Tids : \A e \in pident'[u].chain : e \in pident[u].chain /\ u # t
    OBVIOUS
  <2> QED
    BY <1>2, <1>3, <2>1, IdsStay DEF Apart
<1> QED
  BY <1>1, <1>6, <1>7, <1>8 DEF Apart

\* Some are woken.
LEMMA WokenApart ==
  ASSUME Apart, UNCHANGED <<waiter, asked, pident>>,
         \A t \in MT!Tids : pc'[t] = "waiting" => pc[t] = "waiting"
  PROVE  ChainsEnded' /\ SubnetsKept' /\ (~IdsRepeat => IdsApart')
<1>1. ChainsEnded' /\ SubnetsKept'
  BY DEF Apart, ChainsEnded, SubnetsKept
<1>2. ASSUME ~IdsRepeat PROVE IdsApart'
  <2>1. \A t \in MT!Tids : Expects(t)' => Expects(t)
    BY DEF Expects
  <2> QED
    BY <1>2, <2>1, IdsStay DEF Apart
<1> QED
  BY <1>1, <1>2

LEMMA ResendApart ==
  ASSUME SchedulerInv, Types, AskedMatch, Apart, ResendOne
  PROVE  Apart'
<1>1. /\ handler.at = "resend" /\ running = MT!Kernel
      /\ UNCHANGED <<waiter, asked, asks, pident>>
  BY ResendMoves
<1>2. PICK e \in handler.todo :
        /\ handler'.at = "resend" /\ handler'.key = handler.key
        /\ handler'.head = handler.head /\ handler'.packet = handler.packet
        /\ handler'.ecs = handler.ecs /\ handler'.todo = handler.todo \ {e}
        /\ \/ UNCHANGED mtVars
           \/ /\ \E t \in MT!Tids :
                   /\ pc[t] = "waiting" /\ pc' = [pc EXCEPT ![t] = "returning"]
                   /\ waiter[t].key = [q |-> handler.key.q, fd |-> e[1], id |-> e[2]]
              /\ d_waitstatus' = MT!Answer
  BY ResendMoves
<1>3. handler.packet.kind # "nameless"
  BY <1>1 DEF Apart, Carried
<1>4. \A t \in MT!Tids : pc'[t] = "waiting" => pc[t] = "waiting"
  BY <1>2 DEF mtVars, SchedulerInv, MT!TypeOK
<1>5. ChainsEnded' /\ SubnetsKept' /\ (~IdsRepeat => IdsApart')
  BY <1>1, <1>4, WokenApart
<1>6. ASSUME NEW u \in MT!Tids PROVE Leads(u) <=> Leads(u)'
  <2>1. CASE UNCHANGED mtVars
    BY <1>1, <2>1 DEF mtVars, Leads
  <2>2. CASE \E t \in MT!Tids :
               /\ pc[t] = "waiting" /\ pc' = [pc EXCEPT ![t] = "returning"]
               /\ waiter[t].key = [q |-> handler.key.q, fd |-> e[1], id |-> e[2]]
    <3>1. PICK t \in MT!Tids :
            /\ pc[t] = "waiting" /\ pc' = [pc EXCEPT ![t] = "returning"]
            /\ waiter[t].key = [q |-> handler.key.q, fd |-> e[1], id |-> e[2]]
      BY <2>2
    <3>2. e[1] \in ChainFds /\ waiter[t].key.fd = e[1]
      <4>1. handler.todo \in SUBSET (ChainFds \X Ids)
        BY <1>1 DEF Types, HandlerRecords, Idle
      <4> QED
        BY <3>1, <4>1
    <3>3. ~(e[1] >= 0)
      BY <3>2, KeyKinds
    <3>4. ~Leads(t)
      BY <3>1, <3>3 DEF Leads
    <3>5. pc'[t] # "waiting" /\ \A v \in MT!Tids : v # t => pc'[v] = pc[v]
      BY <3>1 DEF SchedulerInv, MT!TypeOK
    <3> QED
      BY <1>1, <3>4, <3>5 DEF Leads
  <2> QED
    BY <1>2, <2>1, <2>2
<1>7. Carried'
  <2>1. PICK u \in MT!Tids : Carries(u)
    BY <1>1 DEF Apart, Carried
  <2>2. Carries(u)'
    BY <1>1, <1>2, <1>6, <2>1 DEF Carries
  <2> QED
    BY <1>2, <1>3, <2>2 DEF Carried
<1>8. ClosedServed'
  BY <1>1, <1>2, <1>6 DEF Apart, ClosedServed
<1> QED
  BY <1>5, <1>7, <1>8 DEF Apart

LEMMA HeadApart ==
  ASSUME SchedulerInv, Types, Served, Apart, WakeHead
  PROVE  Apart'
<1>1. handler.at = "resend"
  BY DEF WakeHead, HandlerAt
<1>2. PICK u \in MT!Tids : Carries(u)
  BY <1>1 DEF Apart, Carried
<1>3. /\ handler'.at # "resend" /\ UNCHANGED <<waiter, asked, asks, pident>>
      /\ pc' = [pc EXCEPT ![u] = "returning"]
  BY <1>2, HeadMoves DEF Carries
<1>4. /\ pc'[u] # "waiting" /\ \A t \in MT!Tids : t # u => pc'[t] = pc[t]
      /\ \A t \in MT!Tids : pc'[t] = "waiting" => pc[t] = "waiting"
  BY <1>3 DEF SchedulerInv, MT!TypeOK
<1>5. ChainsEnded' /\ SubnetsKept' /\ (~IdsRepeat => IdsApart')
  BY <1>3, <1>4, WokenApart
<1>6. ASSUME NEW v \in MT!Tids, Leads(v)' PROVE ~pident'[v].closed
  <2>1. Leads(v) /\ v # u
    BY <1>3, <1>4, <1>6 DEF Leads
  <2>2. asked[v].head # handler.head
    BY <1>2, <2>1 DEF Carries, Served, Numbered
  <2> QED
    BY <1>3, <2>1, <2>2 DEF Apart, ClosedServed
<1> QED
  BY <1>3, <1>5, <1>6 DEF Apart, Carried, ClosedServed

LEMMA PacketApart ==
  ASSUME SchedulerInv, Types, AskedMatch, Owned, Apart, NEW fd \in Open,
         \/ RecvError(fd)
         \/ \E id \in Ids : \/ RecvNameless(fd, id)
                            \/ \E q \in Questions : RecvAnswer(fd, q, id)
  PROVE  Apart'
<1>1. /\ handler.at = "idle" /\ running = MT!Kernel
      /\ UNCHANGED <<mtVars, asked, asks>> /\ ChainsKept
  BY PacketMoves
<1>2. UNCHANGED <<pc, waiter, asked, running>>
  BY <1>1 DEF mtVars
<1>3. \A t \in MT!Tids : /\ pident'[t].chain = pident[t].chain
                         /\ pident'[t].ecs = pident[t].ecs
                         /\ (Leads(t) <=> Leads(t)') /\ (Expects(t) <=> Expects(t)')
  BY <1>1, <1>2 DEF ChainsKept, Leads, Expects
<1>4. ChainsEnded' /\ SubnetsKept'
  BY <1>2, <1>3 DEF Apart, ChainsEnded, SubnetsKept
<1>5. ASSUME ~IdsRepeat PROVE IdsApart'
  BY <1>2, <1>3, <1>5, IdsStay DEF Apart
<1>6. \A t \in MT!Tids : Leads(t) => ~pident[t].closed
  BY <1>1 DEF Apart, ClosedServed
<1>7. CASE UNCHANGED handler /\ \A t \in MT!Tids : pident'[t].closed = pident[t].closed
  BY <1>1, <1>3, <1>4, <1>5, <1>6, <1>7 DEF Apart, Carried, ClosedServed
<1>8. CASE \E w \in Heads, packet \in Packets : \E closeFd, todo :
             /\ Deliver(w, packet, todo, closeFd)
             /\ packet.q = w.key.q
             /\ IF packet.kind = "nameless"
                THEN todo = {} /\ UNCHANGED pident
                ELSE /\ todo = pident[w.tid].chain
                     /\ pident' = [pident EXCEPT ![w.tid].closed = TRUE]
  <2>1. PICK w \in Heads, packet \in Packets : \E closeFd, todo :
          /\ Deliver(w, packet, todo, closeFd)
          /\ packet.q = w.key.q
          /\ IF packet.kind = "nameless"
             THEN todo = {} /\ UNCHANGED pident
             ELSE /\ todo = pident[w.tid].chain
                  /\ pident' = [pident EXCEPT ![w.tid].closed = TRUE]
    BY <1>8
  <2>2. PICK closeFd, todo :
          /\ Deliver(w, packet, todo, closeFd)
          /\ packet.q = w.key.q
          /\ IF packet.kind = "nameless"
             THEN todo = {} /\ UNCHANGED pident
             ELSE /\ todo = pident[w.tid].chain
                  /\ pident' = [pident EXCEPT ![w.tid].closed = TRUE]
    BY <2>1
  <2>3. PICK u \in MT!Tids : u = w.tid
    BY HeadsKnown
  <2>4. /\ pc[u] = "waiting" /\ waiter[u] = w /\ w.key \in PacketKeys /\ w.key.fd >= 0
    BY <2>3, HeadsKnown DEF Heads
  <2>5. Leads(u) /\ asked[u].state = "waiting"
    BY <2>4, KeyKinds DEF AskedMatch, Leads
  <2>6. pident[u].ecs = asked[u].ecs
    BY <2>5 DEF Apart, SubnetsKept
  <2>7. /\ handler'.at = "resend" /\ handler'.key = w.key /\ handler'.packet = packet
        /\ handler'.todo = todo /\ handler'.head = asked[u].head /\ handler'.ecs = asked[u].ecs
    BY <2>2, <2>3, <2>6 DEF Deliver
  <2>8. todo \subseteq pident'[u].chain
    BY <1>3, <2>2, <2>3
  <2>9. Carries(u)'
    BY <1>2, <1>3, <2>2, <2>4, <2>5, <2>7, <2>8 DEF Carries
  <2>10. Carried'
    BY <1>1, <1>2, <2>2, <2>7, <2>9 DEF Carried
  <2>11. ASSUME NEW t \in MT!Tids, Leads(t)', pident'[t].closed
         PROVE  t = u
    <3>1. ~pident[t].closed
      BY <1>3, <1>6, <2>11
    <3>2. pident' = [pident EXCEPT ![u].closed = TRUE]
      BY <2>2, <2>3, <2>11, <3>1
    <3> QED
      BY <2>11, <3>1, <3>2 DEF Types
  <2>12. ClosedServed'
    BY <1>2, <2>7, <2>11 DEF ClosedServed
  <2> QED
    BY <1>4, <1>5, <2>10, <2>12 DEF Apart
<1> QED
  BY <1>7, <1>8, PacketMoves

\* A new member of a chain: its id is new.
LEMMA ChainedApart ==
  ASSUME SchedulerInv, Types, AskedMatch, ChainCounted, Served, Apart, NEW t \in MT!Tids,
         NEW q \in Questions, NEW ecs \in Subnets, NEW wait \in WaitTimes, NEW id \in Ids,
         AskChained(t, q, ecs, id, wait)
  PROVE  Apart'
<1>1. UNCHANGED handler /\ pc[t] = "active" /\ running = t /\ DrawId(id) /\ t # MT!Kernel
  BY DEF AskChained, Starts, MT!Active, MT!Tids, MT!Kernel
<1>2. PICK head \in ChainHeads(q, ecs) :
        /\ head.tid # t
        /\ ChainsOnto(head, t, q, ecs, id, wait)
  BY ChainedSteps
<1>3. PICK u \in MT!Tids : u = head.tid
  BY <1>2, ChainHeadsKnown
<1>4. PICK chain, fd, key, e :
        /\ chain = pident[u].chain /\ fd = NextPlace(chain) /\ e = <<fd, id>>
        /\ key = [q |-> q, fd |-> fd, id |-> id]
  OBVIOUS
<1>5. /\ pc[u] = "waiting" /\ waiter[u] = head /\ head.key.fd >= 0 /\ head.key.q = q
      /\ ~pident[u].closed /\ pident[u].ecs = ecs /\ u # t
  BY <1>2, <1>3, ChainHeadsKnown
<1>6. asked[u].state = "waiting" /\ asked[u].q = q /\ asked[u].ecs = ecs
  BY <1>2, <1>3, <1>5, ChainHeadsKnown, KeyKinds DEF AskedMatch, Apart, SubnetsKept
<1>7. asked[t].state # "waiting" /\ pident[t].chain = {}
  BY <1>1 DEF AskedMatch, Apart, ChainsEnded
<1>8. handler.at = "resend" => handler.packet.kind # "nameless"
  BY <1>1 DEF Apart, Carried
<1>9. ASSUME ~IdsRepeat, NEW v \in MT!Tids, Expects(v) PROVE waiter[v].key.id # id
  BY <1>1, <1>9, DrawnApart
<1>10. ASSUME NEW v \in MT!Tids, v # t, asked'[v] = asked[v], pc'[v] = pc[v],
              waiter'[v] = waiter[v]
       PROVE  (Leads(v)' <=> Leads(v)) /\ (Expects(v)' <=> Expects(v))
  BY <1>10 DEF Leads, Expects
<1>11. ASSUME handler.at = "resend",
              \A v \in MT!Tids : v # t => /\ pc'[v] = pc[v] /\ waiter'[v] = waiter[v]
                                          /\ asked'[v] = asked[v]
                                          /\ pident[v].chain \subseteq pident'[v].chain
       PROVE  \E v \in MT!Tids : Carries(v)'
  <2>1. PICK v \in MT!Tids : Carries(v)
    BY <1>11 DEF Apart, Carried
  <2>2. v # t
    BY <1>1, <2>1 DEF Carries, Leads
  <2>3. Carries(v)'
    BY <1>1, <1>10, <1>11, <2>1, <2>2 DEF Carries
  <2> QED
    BY <2>3
<1>12. CASE /\ MT!WaitEventError(t, key)
            /\ pident' = [pident EXCEPT ![u].chain = chain \cup {e}]
            /\ asked' = [asked EXCEPT ![t] = [state |-> "failed"]]
  <2>1. UNCHANGED <<pc, waiter, running>>
    BY <1>12 DEF MT!WaitEventError
  <2>2. /\ asked'[t].state = "failed"
        /\ \A v \in MT!Tids : v # t => asked'[v] = asked[v]
    BY <1>12 DEF Types
  <2>3. /\ \A v \in MT!Tids : v # u => pident'[v] = pident[v]
        /\ pident'[u].chain = pident[u].chain \cup {e}
        /\ \A v \in MT!Tids : /\ pident'[v].ecs = pident[v].ecs
                               /\ pident'[v].closed = pident[v].closed
    BY <1>4, <1>12 DEF Types, Pidents
  <2>4. ChainsEnded'
    BY <1>5, <1>6, <1>7, <2>2, <2>3 DEF Apart, ChainsEnded
  <2>5. SubnetsKept'
    BY <2>2, <2>3 DEF Apart, SubnetsKept
  <2>6. \A v \in MT!Tids : v # t => pident[v].chain \subseteq pident'[v].chain
    BY <2>3
  <2>7. Carried'
    BY <1>1, <1>8, <1>11, <2>1, <2>2, <2>6 DEF Carried
  <2>8. ~Leads(t)' /\ ~Expects(t)'
    BY <2>2 DEF Leads, Expects
  <2>9. ClosedServed'
    BY <1>1, <1>10, <2>1, <2>2, <2>3, <2>8 DEF Apart, ClosedServed
  <2>10. ASSUME ~IdsRepeat PROVE IdsApart'
    <3>1. \A v \in MT!Tids : Expects(v)' => Expects(v) /\ waiter'[v] = waiter[v]
                                            /\ asked'[v] = asked[v]
      BY <1>10, <2>1, <2>2, <2>8
    <3>2. ASSUME NEW v \in MT!Tids, NEW x \in pident'[v].chain
          PROVE  \/ x \in pident[v].chain /\ asked'[v] = asked[v]
                 \/ \A z \in MT!Tids : Expects(z) => waiter[z].key.id # x[2]
      <4>1. v # t
        BY <1>5, <1>7, <2>3, <3>2
      <4>2. x \in pident[v].chain \/ x = e
        BY <2>3, <3>2
      <4>3. e[2] = id
        BY <1>4
      <4> QED
        BY <1>9, <2>2, <2>10, <4>1, <4>2, <4>3
    <3> QED
      BY <2>10, <3>1, <3>2, IdsStay DEF Apart
  <2> QED
    BY <2>4, <2>5, <2>7, <2>9, <2>10 DEF Apart
<1>13. CASE /\ MT!WaitEvent(t, key, wait)
            /\ pident' = [pident EXCEPT ![u].chain = chain \cup {e}, ![t] = NewPident(ecs)]
            /\ asked' = [asked EXCEPT ![t] = Asking(q, ecs, asked[u].head)]
  <2>1. PICK w : /\ w.key = key /\ waiter' = [waiter EXCEPT ![t] = w]
                 /\ pc' = [pc EXCEPT ![t] = "waiting"] /\ now' = now
    <3>1. MT!WaitEvent(t, key, wait)
      BY <1>13
    <3> QED
      BY <3>1, AskWaits
  <2>2. \A v \in MT!Tids : v # t => pc'[v] = pc[v] /\ waiter'[v] = waiter[v]
                                    /\ asked'[v] = asked[v]
    BY <1>13, <2>1 DEF SchedulerInv, MT!TypeOK, Types
  <2>3. /\ pc'[t] = "waiting" /\ waiter'[t].key = key
        /\ asked'[t] = Asking(q, ecs, asked[u].head)
    BY <1>13, <2>1 DEF SchedulerInv, MT!TypeOK, Types
  <2>4. /\ asked'[t].state = "waiting" /\ asked'[t].head = asked[u].head
        /\ asked'[t].ecs = ecs
    BY <2>3 DEF Asking
  <2>5. /\ pident'[t] = NewPident(ecs)
        /\ \A v \in MT!Tids : v # u /\ v # t => pident'[v] = pident[v]
        /\ pident'[u] = [pident[u] EXCEPT !.chain = chain \cup {e}]
    BY <1>5, <1>13 DEF Types
  <2>6. /\ pident'[u].chain = pident[u].chain \cup {e}
        /\ pident'[u].ecs = pident[u].ecs /\ pident'[u].closed = pident[u].closed
    BY <1>4, <2>5 DEF Types, Pidents
  <2>7. pident'[t].chain = {} /\ pident'[t].ecs = ecs /\ ~pident'[t].closed
    BY <2>5 DEF NewPident, NoPident
  <2>8. ChainsEnded'
    BY <1>6, <2>2, <2>4, <2>5, <2>7, <1>5 DEF Apart, ChainsEnded
  <2>9. SubnetsKept'
    <3>1. \A v \in MT!Tids : v # t => pident'[v].ecs = pident[v].ecs
      BY <2>5, <2>6
    <3> QED
      BY <2>2, <2>4, <2>7, <3>1 DEF Apart, SubnetsKept
  <2>10. \A v \in MT!Tids : v # t => pident[v].chain \subseteq pident'[v].chain
    BY <2>5, <2>6
  <2>11. Carried'
    BY <1>1, <1>8, <1>11, <2>2, <2>10 DEF Carried
  <2>12. ClosedServed'
    BY <1>1, <1>10, <2>2, <2>5, <2>6, <2>7 DEF Apart, ClosedServed
  <2>13. ASSUME ~IdsRepeat PROVE IdsApart'
    <3>1. key.id = id
      BY <1>4
    <3>2. ASSUME NEW v \in MT!Tids, NEW x \in MT!Tids, NEW d \in pident'[x].chain,
                 Expects(v)', waiter'[v].key.id = d[2]
          PROVE  asked'[v].head = asked'[x].head /\ asked'[v].ecs = asked'[x].ecs
      <4>1. x # t
        BY <2>7, <3>2
      <4>2. CASE v = t
        <5>1. d[2] = id
          BY <2>3, <3>1, <3>2, <4>2
        <5>2. d \notin pident[x].chain
          BY <1>1, <2>13, <5>1, DrawnApart
        <5>3. x = u
          BY <2>5, <3>2, <4>1, <5>2
        <5> QED
          BY <1>5, <1>6, <2>2, <2>4, <4>2, <5>3
      <4>3. CASE v # t
        <5>1. Expects(v) /\ waiter[v].key.id = d[2] /\ asked'[v] = asked[v]
          BY <1>10, <2>2, <3>2, <4>3
        <5>2. waiter[v].key.id # id
          BY <1>9, <2>13, <5>1
        <5>3. e[2] = id
          BY <1>4
        <5>4. d \in pident[x].chain
          BY <2>5, <2>6, <3>2, <4>1, <5>1, <5>2, <5>3
        <5> QED
          BY <2>2, <2>13, <4>1, <5>1, <5>4 DEF Apart, IdsApart
      <4> QED
        BY <4>2, <4>3
    <3> QED
      BY <3>2 DEF IdsApart
  <2> QED
    BY <2>8, <2>9, <2>11, <2>12, <2>13 DEF Apart
<1> QED
  BY <1>2, <1>3, <1>4, <1>12, <1>13 DEF ChainsOnto

\* A new head, with a new id.
LEMMA AnewApart ==
  ASSUME SchedulerInv, Types, AskedMatch, Served, Apart, NEW t \in MT!Tids,
         NEW q \in Questions, NEW ecs \in Subnets, NEW id \in Ids, NEW fd \in Fds,
         NEW wait \in WaitTimes, AskAnew(t, q, ecs, id, fd, wait)
  PROVE  Apart'
<1>1. UNCHANGED handler /\ pc[t] = "active" /\ running = t /\ DrawId(id) /\ t # MT!Kernel
  BY DEF AskAnew, Starts, MT!Active, MT!Tids, MT!Kernel
<1>2. asked[t].state # "waiting" /\ pident[t].chain = {}
  BY <1>1 DEF AskedMatch, Apart, ChainsEnded
<1>3. PICK key : key = [q |-> q, fd |-> fd, id |-> id]
  OBVIOUS
<1>4. CASE /\ MT!WaitEventError(t, key) /\ UNCHANGED pident
           /\ asked' = [asked EXCEPT ![t] = [state |-> "failed"]]
  <2>1. UNCHANGED <<pc, waiter>>
    BY <1>4 DEF MT!WaitEventError
  <2>2. asked'[t].state = "failed" /\ \A v \in MT!Tids : v # t => asked'[v] = asked[v]
    BY <1>4 DEF Types
  <2> QED
    BY <1>1, <1>2, <1>4, <2>1, <2>2, AsideApart
<1>5. CASE /\ MT!WaitEvent(t, key, wait)
           /\ pident' = [pident EXCEPT ![t] = NewPident(ecs)]
           /\ asked' = [asked EXCEPT ![t] = Asking(q, ecs, asks)]
  <2>1. PICK w : /\ w.key = key /\ waiter' = [waiter EXCEPT ![t] = w]
                 /\ pc' = [pc EXCEPT ![t] = "waiting"] /\ now' = now
    <3>1. MT!WaitEvent(t, key, wait)
      BY <1>5
    <3> QED
      BY <3>1, AskWaits
  <2>2. \A v \in MT!Tids : v # t => /\ pc'[v] = pc[v] /\ waiter'[v] = waiter[v]
                                    /\ asked'[v] = asked[v] /\ pident'[v] = pident[v]
    BY <1>5, <2>1 DEF SchedulerInv, MT!TypeOK, Types
  <2>3. /\ waiter'[t].key = key /\ asked'[t] = Asking(q, ecs, asks)
        /\ pident'[t] = NewPident(ecs)
    BY <1>5, <2>1 DEF SchedulerInv, MT!TypeOK, Types
  <2>4. asked'[t].state = "waiting" /\ asked'[t].ecs = ecs
    BY <2>3 DEF Asking
  <2>5. pident'[t].chain = {} /\ pident'[t].ecs = ecs /\ ~pident'[t].closed
    BY <2>3 DEF NewPident, NoPident
  <2>6. ASSUME NEW v \in MT!Tids, v # t
        PROVE  (Leads(v)' <=> Leads(v)) /\ (Expects(v)' <=> Expects(v))
    BY <2>2, <2>6 DEF Leads, Expects
  <2>7. ChainsEnded' /\ SubnetsKept'
    BY <2>2, <2>4, <2>5 DEF Apart, ChainsEnded, SubnetsKept
  <2>8. ASSUME handler.at = "resend"
        PROVE  handler.packet.kind # "nameless" /\ \E v \in MT!Tids : Carries(v)'
    <3>1. PICK v \in MT!Tids : Carries(v)
      BY <2>8 DEF Apart, Carried
    <3>2. v # t
      BY <1>1, <3>1 DEF Carries, Leads
    <3>3. Carries(v)'
      BY <1>1, <2>2, <2>6, <3>1, <3>2 DEF Carries
    <3> QED
      BY <1>1, <2>8, <3>3 DEF Apart, Carried
  <2>9. Carried'
    BY <1>1, <2>8 DEF Carried
  <2>10. ClosedServed'
    BY <1>1, <2>2, <2>5, <2>6 DEF Apart, ClosedServed
  <2>11. ASSUME ~IdsRepeat PROVE IdsApart'
    <3>1. ASSUME NEW v \in MT!Tids, NEW x \in MT!Tids, NEW d \in pident'[x].chain,
                 Expects(v)', waiter'[v].key.id = d[2]
          PROVE  asked'[v].head = asked'[x].head /\ asked'[v].ecs = asked'[x].ecs
      <4>1. x # t /\ d \in pident[x].chain
        BY <2>2, <2>5, <3>1
      <4>2. d[2] # id
        BY <1>1, <2>11, <4>1, DrawnApart
      <4>3. v # t
        BY <1>3, <2>3, <3>1, <4>2
      <4> QED
        BY <2>2, <2>6, <2>11, <3>1, <4>1, <4>3 DEF Apart, IdsApart
    <3> QED
      BY <3>1 DEF IdsApart
  <2> QED
    BY <2>7, <2>9, <2>10, <2>11 DEF Apart
<1> QED
  BY <1>3, <1>4, <1>5 DEF AskAnew

LEMMA ApartNext ==
  ASSUME SchedulerInv, Basics, HandlerKnown, Owned, Served, Apart, [Next]_vars
  PROVE  Apart'
<1>0. Types /\ AskedMatch /\ ChainCounted
  BY DEF Basics
<1>1. CASE UNCHANGED vars \/ Tick
  <2>1. UNCHANGED <<pc, waiter, running, asked, pident, handler>>
    BY <1>1 DEF vars, mtVars, udpVars, Tick, MT!Tick, MT!threads, MT!handover
  <2>2. ChainsEnded' /\ SubnetsKept' /\ (~IdsRepeat => IdsApart')
    BY <2>1, WokenApart
  <2>3. \A u \in MT!Tids : (Leads(u)' <=> Leads(u)) /\ (Carries(u)' <=> Carries(u))
    BY <2>1 DEF Leads, Carries
  <2>4. Carried' /\ ClosedServed'
    BY <2>1, <2>3 DEF Apart, Carried, ClosedServed
  <2> QED
    BY <2>2, <2>4 DEF Apart
<1>2. CASE MainLoop
  <2>1. UNCHANGED <<waiter, asked, pident, handler>> /\ handler.at = "idle"
    BY <1>2, Loops DEF udpVars
  <2>2. \A t \in MT!Tids : pc'[t] = "waiting" => pc[t] = "waiting"
    <3>1. running = MT!Kernel
      BY <1>2, Loops
    <3>2. \A t \in MT!Tids : pc[t] # "returning"
      BY <3>1, NoneReturning DEF Returning, MT!Tids, MT!Kernel
    <3>3. CASE \A t \in MT!Tids : pc[t] \in {"waiting", "returning"}
                                    <=> pc'[t] \in {"waiting", "returning"}
      BY <3>2, <3>3
    <3>4. CASE \E w \in d_waiters : pc' = [pc EXCEPT ![w.tid] = "returning"]
      BY <3>4 DEF SchedulerInv, MT!TypeOK
    <3> QED
      BY <1>2, <3>3, <3>4, Loops
  <2>3. ChainsEnded' /\ SubnetsKept' /\ (~IdsRepeat => IdsApart')
    BY <2>1, <2>2, WokenApart
  <2>4. \A u \in MT!Tids : Leads(u)' => Leads(u)
    BY <2>1, <2>2 DEF Leads
  <2> QED
    BY <2>1, <2>3, <2>4 DEF Apart, Carried, ClosedServed
<1>3. CASE ResendOne
  BY <1>0, <1>3, ResendApart
<1>4. CASE WakeHead
  BY <1>0, <1>4, HeadApart
<1>5. CASE CloseSocket
  <2>1. UNCHANGED <<pc, waiter, asked, pident>> /\ handler.at = "close" /\ handler'.at = "idle"
    BY <1>5 DEF CloseSocket, HandlerAt, mtVars, Idle
  <2>2. ChainsEnded' /\ SubnetsKept' /\ (~IdsRepeat => IdsApart')
    BY <2>1, WokenApart
  <2> QED
    BY <2>1, <2>2 DEF Apart, Carried, ClosedServed, Leads
<1>6. ASSUME NEW fd \in Open,
             \/ RecvError(fd)
             \/ \E id \in Ids : \/ RecvNameless(fd, id)
                                \/ \E q \in Questions : RecvAnswer(fd, q, id)
      PROVE  Apart'
  BY <1>0, <1>6, PacketApart
<1>7. ASSUME NEW t \in MT!Tids, NEW q \in Questions, NEW ecs \in Subnets,
             \/ AskSendFails(t, q, ecs)
             \/ \E wait \in WaitTimes : AskChainLimit(t, q, ecs, wait)
      PROVE  Apart'
  <2>1. /\ running = t /\ pc[t] = "active"
        /\ asked' = [asked EXCEPT ![t] = [state |-> "failed"]]
        /\ UNCHANGED <<pc, waiter, pident, handler>>
    BY <1>7 DEF AskSendFails, AskChainLimit, Starts, MT!Active, mtVars
  <2>2. asked'[t].state = "failed" /\ \A v \in MT!Tids : v # t => asked'[v] = asked[v]
    BY <1>0, <2>1 DEF Types
  <2>3. pident[t].chain = {}
    BY <1>0, <2>1 DEF AskedMatch, Apart, ChainsEnded
  <2> QED
    BY <1>0, <2>1, <2>2, <2>3, AsideApart
<1>8. ASSUME NEW t \in MT!Tids, NEW q \in Questions, NEW ecs \in Subnets,
             NEW wait \in WaitTimes, NEW id \in Ids, AskChained(t, q, ecs, id, wait)
      PROVE  Apart'
  BY <1>0, <1>8, ChainedApart
<1>9. ASSUME NEW t \in MT!Tids, NEW q \in Questions, NEW ecs \in Subnets,
             NEW wait \in WaitTimes, NEW id \in Ids, NEW fd \in Fds,
             AskAnew(t, q, ecs, id, fd, wait)
      PROVE  Apart'
  BY <1>0, <1>9, AnewApart
<1>10. ASSUME NEW t \in MT!Tids, Receive(t) \/ SleepReturn(t) \/ Finish(t)
       PROVE  Apart'
  <2>1. /\ running = t /\ pc[t] # "waiting" /\ UNCHANGED <<waiter, handler>>
        /\ \E s : pc' = [pc EXCEPT ![t] = s]
    BY <1>10 DEF Receive, SleepReturn, Finish, MT!WaitReturn, MT!Finish, MT!Active, udpVars
  <2>2. \A v \in MT!Tids : v # t => pc'[v] = pc[v]
    BY <2>1 DEF SchedulerInv, MT!TypeOK
  <2>3. \A v \in MT!Tids : v # t => asked'[v] = asked[v] /\ pident'[v] = pident[v]
    BY <1>0, <1>10 DEF Receive, SleepReturn, Finish, udpVars, Types
  <2>4. asked'[t].state # "waiting" /\ pident'[t].chain = {}
    <3>1. CASE Receive(t)
      BY <1>0, <3>1 DEF Receive, Verdict, NoPident, Types
    <3>2. CASE SleepReturn(t)
      BY <3>2 DEF SleepReturn, udpVars, Apart, ChainsEnded
    <3>3. CASE Finish(t)
      <4>1. asked[t].state # "waiting" /\ UNCHANGED pident
        BY <1>0, <3>3 DEF Finish, MT!Finish, MT!Active, AskedMatch
      <4> QED
        BY <1>0, <3>3, <4>1 DEF Finish, NotAsked, Types, Apart, ChainsEnded
    <3> QED
      BY <1>10, <3>1, <3>2, <3>3
  <2> QED
    BY <1>0, <2>1, <2>2, <2>3, <2>4, AsideApart
<1>11. ASSUME NEW t \in MT!Tids, NEW jitter \in WaitTimes \cup {0}, Sleep(t, jitter)
       PROVE  Apart'
  <2>0. jitter \in Nat
    BY UdpQueryAssumption
  <2>1. /\ MT!WaitEvent(t, [sleeper |-> t], jitter)
        /\ asked' = [asked EXCEPT ![t] = NotAsked] /\ asked[t].state = "slow"
        /\ UNCHANGED <<pident, handler>>
    BY <1>11 DEF Sleep
  <2>2. running = t /\ pc[t] = "active" /\ \E w : waiter' = [waiter EXCEPT ![t] = w]
                                                  /\ pc' = [pc EXCEPT ![t] = "waiting"]
    BY <2>0, <2>1, Waits
  <2>3. \A v \in MT!Tids : v # t => /\ pc'[v] = pc[v] /\ waiter'[v] = waiter[v]
                                    /\ asked'[v] = asked[v]
    BY <1>0, <2>1, <2>2 DEF Types, SchedulerInv, MT!TypeOK
  <2>4. asked'[t].state = "none" /\ pident[t].chain = {}
    BY <1>0, <2>1 DEF Types, NotAsked, Apart, ChainsEnded
  <2> QED
    BY <1>0, <2>1, <2>2, <2>3, <2>4, AsideApart
<1> QED
  BY <1>1, <1>2, <1>3, <1>4, <1>5, <1>6, <1>7, <1>8, <1>9, <1>10, <1>11, Steps

LEMMA ApartInvariance == Spec => [](UInv /\ Apart)
<1>1. UInv /\ Apart /\ [Next]_vars => Apart'
  BY SchedulerKnown, ApartNext DEF UInv
<1> QED
  BY <1>1, ApartInit, UInvInit, UInvNext, PTL DEF Spec

-----------------------------------------------------------------------------
(* Whose answer it is *)

\* An mthread whose wait ends with an answer is in the chain that is being resent, or is its
\* head.
Answers(t) ==
  /\ handler.at = "resend" /\ UNCHANGED <<waiter, asked>>
  /\ \/ Carries(t)
     \/ \E e \in handler.todo :
          waiter[t].key = [q |-> handler.key.q, fd |-> e[1], id |-> e[2]]

LEMMA AnswersOnly ==
  ASSUME SchedulerInv, Basics, HandlerKnown, Owned, Served, Apart, [Next]_vars,
         NEW t \in MT!Tids, pc[t] = "waiting", pc'[t] = "returning",
         d_waitstatus' = MT!Answer
  PROVE  Answers(t)
<1>0. Types /\ AskedMatch
  BY DEF Basics
<1>1. CASE UNCHANGED vars \/ Tick
  BY <1>1 DEF vars, mtVars, Tick, MT!Tick, MT!threads
<1>2. CASE MainLoop
  BY <1>2, Loops DEF MT!TimeOut, MT!Answer
<1>3. CASE ResendOne
  <2>1. handler.at = "resend" /\ UNCHANGED <<waiter, asked>>
    BY <1>0, <1>3, ResendMoves
  <2>2. PICK e \in handler.todo, u \in MT!Tids :
          /\ pc' = [pc EXCEPT ![u] = "returning"]
          /\ waiter[u].key = [q |-> handler.key.q, fd |-> e[1], id |-> e[2]]
    <3>1. ~UNCHANGED mtVars
      BY DEF mtVars
    <3> QED
      BY <1>0, <1>3, <3>1, ResendMoves
  <2>3. u = t
    BY <2>2 DEF SchedulerInv, MT!TypeOK
  <2> QED
    BY <2>1, <2>2, <2>3 DEF Answers
<1>4. CASE WakeHead
  <2>1. handler.at = "resend"
    BY <1>4 DEF WakeHead, HandlerAt
  <2>2. PICK u \in MT!Tids : Carries(u)
    BY <2>1 DEF Apart, Carried
  <2>3. pc' = [pc EXCEPT ![u] = "returning"] /\ UNCHANGED <<waiter, asked>>
    BY <1>0, <1>4, <2>2, HeadMoves DEF Carries
  <2>4. u = t
    BY <2>3 DEF SchedulerInv, MT!TypeOK
  <2> QED
    BY <2>1, <2>2, <2>3, <2>4 DEF Answers
<1>5. CASE CloseSocket
  BY <1>5 DEF CloseSocket, mtVars
<1>6. ASSUME NEW fd \in Open,
             \/ RecvError(fd)
             \/ \E id \in Ids : \/ RecvNameless(fd, id)
                                \/ \E q \in Questions : RecvAnswer(fd, q, id)
      PROVE  FALSE
  BY <1>6 DEF RecvError, RecvNameless, RecvAnswer, mtVars
<1>7. ASSUME NEW u \in MT!Tids, MT!Active(u),
             \E s : s # "returning" /\ pc' = [pc EXCEPT ![u] = s]
      PROVE  FALSE
  BY <1>7 DEF SchedulerInv, MT!TypeOK
<1>8. ASSUME NEW u \in MT!Tids, NEW q \in Questions, NEW ecs \in Subnets,
             \/ AskSendFails(u, q, ecs)
             \/ \E wait \in WaitTimes : AskChainLimit(u, q, ecs, wait)
      PROVE  FALSE
  BY <1>8 DEF AskSendFails, AskChainLimit, mtVars
<1>9. ASSUME NEW u \in MT!Tids, NEW key, NEW timeout,
             MT!WaitEvent(u, key, timeout) \/ MT!WaitEventError(u, key)
      PROVE  FALSE
  BY <1>7, <1>9 DEF MT!WaitEvent, MT!WaitEventError, MT!Active
<1>10. ASSUME NEW u \in MT!Tids, NEW q \in Questions, NEW ecs \in Subnets,
              NEW wait \in WaitTimes, NEW id \in Ids,
              \/ AskChained(u, q, ecs, id, wait)
              \/ \E fd \in Fds : AskAnew(u, q, ecs, id, fd, wait)
       PROVE  FALSE
  BY <1>9, <1>10 DEF AskChained, AskAnew, WaitsChained
<1>11. ASSUME NEW u \in MT!Tids, Receive(u) \/ SleepReturn(u) \/ Finish(u)
       PROVE  FALSE
  <2>1. \E s : s # "returning" /\ pc' = [pc EXCEPT ![u] = s]
    BY <1>11 DEF Receive, SleepReturn, Finish, MT!WaitReturn, MT!Finish
  <2> QED
    BY <2>1 DEF SchedulerInv, MT!TypeOK
<1>12. ASSUME NEW u \in MT!Tids, NEW jitter \in WaitTimes \cup {0}, Sleep(u, jitter)
       PROVE  FALSE
  BY <1>9, <1>12 DEF Sleep
<1> QED
  BY <1>1, <1>2, <1>3, <1>4, <1>5, <1>6, <1>8, <1>10, <1>11, <1>12, Steps

\* It is the answer to its own question, and with ids that do not repeat it is its own head
\* that was answered and its own subnet that was asked for.
LEMMA OwnAnswer ==
  ASSUME SchedulerInv, Basics, HandlerKnown, Owned, Served, Apart, ~IdsRepeat, [Next]_vars,
         NEW t \in MT!Tids, pc[t] = "waiting", pc'[t] = "returning",
         d_waitstatus' = MT!Answer
  PROVE  /\ asked[t].head = handler.head /\ asked[t].q = handler.packet.q
         /\ asked[t].ecs = handler.ecs
<1>1. Answers(t) /\ handler.at = "resend"
  BY AnswersOnly DEF Answers
<1>2. CASE Carries(t)
  <2>1. waiter[t].key.q = asked[t].q
    BY <1>2, LeadsExpects, ExpectsKnown DEF Basics, Carries
  <2> QED
    BY <1>2, <2>1 DEF Carries
<1>3. CASE \E e \in handler.todo :
             waiter[t].key = [q |-> handler.key.q, fd |-> e[1], id |-> e[2]]
  <2>1. PICK e \in handler.todo :
          waiter[t].key = [q |-> handler.key.q, fd |-> e[1], id |-> e[2]]
    BY <1>3
  <2>2. PICK u \in MT!Tids : Carries(u)
    BY <1>1 DEF Apart, Carried
  <2>3. IsQuery(waiter[t].key)
    BY <2>1 DEF IsQuery
  <2>4. Expects(t) /\ asked[t].q = handler.key.q
    BY <2>1, <2>3, KeyKinds DEF Basics, AskedMatch, Expects
  <2>5. waiter[t].key.id = e[2] /\ e \in pident[u].chain
    BY <2>1, <2>2 DEF Carries
  <2>6. asked[t].head = asked[u].head /\ asked[t].ecs = asked[u].ecs
    BY <2>4, <2>5 DEF Apart, IdsApart
  <2> QED
    BY <2>2, <2>4, <2>6 DEF Carries
<1> QED
  BY <1>1, <1>2, <1>3 DEF Answers

\* An answer (or a socket error) ends only requests it was for: the one it was sent to and
\* those chained onto that one, as long as no two requests that are under way draw the
\* same message id.
THEOREM AnswersAreOwn == ~IdsRepeat => (Spec => AnswerIsOwn)
<1> SUFFICES ASSUME ~IdsRepeat PROVE Spec => AnswerIsOwn
  OBVIOUS
<1>1. UInv /\ Apart /\ [Next]_vars
        => [\A t \in MT!Tids :
              (pc[t] = "waiting" /\ pc'[t] = "returning" /\ d_waitstatus' = MT!Answer)
                => /\ asked[t].head = handler.head
                   /\ asked[t].q = handler.packet.q]_vars
  BY SchedulerKnown, OwnAnswer DEF UInv
<1> QED
  BY <1>1, ApartInvariance, PTL DEF Spec, AnswerIsOwn

\* ... and the client subnet that was asked for is its own, too.
THEOREM AnswersForOwnSubnet == ~IdsRepeat => (Spec => AnswerForOwnSubnet)
<1> SUFFICES ASSUME ~IdsRepeat PROVE Spec => AnswerForOwnSubnet
  OBVIOUS
<1>1. UInv /\ Apart /\ [Next]_vars
        => [\A t \in MT!Tids :
              (pc[t] = "waiting" /\ pc'[t] = "returning" /\ d_waitstatus' = MT!Answer)
                => asked[t].ecs = handler.ecs]_vars
  BY SchedulerKnown, OwnAnswer DEF UInv
<1> QED
  BY <1>1, ApartInvariance, PTL DEF Spec, AnswerForOwnSubnet

-----------------------------------------------------------------------------
(* UdpQuery implements Requests: each of its steps is a step of Requests or leaves the
   groups as they are. First the groups, seen from the mthreads. *)

\* The group of the head t as Requests has it, while it takes members.
Offer(t)  == [number |-> asked[t].head, q |-> asked[t].q, ecs |-> asked[t].ecs]
Offers(t) == Leads(t) /\ (BeingAnswered => asked[t].head # handler.head)
Offering  == {t \in MT!Tids : Offers(t)}

Mapped ==
  /\ Groups = [t \in MT!Tids |-> IF Expects(t) THEN asked[t].head ELSE Closed]
  /\ Leaders = {t \in MT!Tids : Leads(t)}
  /\ Accepting = {Offer(t) : t \in Offering}
  /\ \A t \in MT!Tids : Expects(t) => asked[t].head \in Nat /\ asked[t].head < asks
  /\ \A t \in MT!Tids : Leads(t) => Expects(t)
  /\ Numbered
  /\ asks \in 0 .. MaxAsks

LEMMA MappedKnown ==
  SchedulerInv /\ Types /\ AskedMatch /\ SubnetsKept /\ Numbered => Mapped
<1> SUFFICES ASSUME SchedulerInv, Types, AskedMatch, SubnetsKept, Numbered PROVE Mapped
  OBVIOUS
<1>1. Groups = [t \in MT!Tids |-> IF Expects(t) THEN asked[t].head ELSE Closed]
  BY DEF Groups, GroupOf, Expects
<1>2. ASSUME NEW w \in Heads
      PROVE  /\ w.tid \in MT!Tids /\ Leads(w.tid) /\ waiter[w.tid] = w
             /\ w.key.q = asked[w.tid].q /\ pident[w.tid].ecs = asked[w.tid].ecs
  <2>1. w.tid \in MT!Tids /\ pc[w.tid] = "waiting" /\ waiter[w.tid] = w
        /\ w.key \in PacketKeys /\ w.key.fd >= 0
    BY HeadsKnown DEF Heads
  <2>2. asked[w.tid].state = "waiting" /\ w.key.q = asked[w.tid].q
    BY <2>1, KeyKinds DEF AskedMatch
  <2> QED
    BY <2>1, <2>2 DEF Leads, SubnetsKept
<1>3. ASSUME NEW t \in MT!Tids, Leads(t)
      PROVE  waiter[t] \in Heads /\ waiter[t].tid = t
  BY <1>3, LeadsExpects, ExpectsKnown DEF Heads, Leads
<1>4. Leaders = {t \in MT!Tids : Leads(t)}
  BY <1>2, <1>3 DEF Leaders
<1>5. ASSUME NEW g \in Accepting PROVE g \in {Offer(t) : t \in Offering}
  <2>1. PICK w \in Heads :
          /\ BeingAnswered => asked[w.tid].head # handler.head
          /\ g = [number |-> asked[w.tid].head, q |-> w.key.q, ecs |-> pident[w.tid].ecs]
    BY DEF Accepting
  <2> QED
    BY <1>2, <2>1 DEF Offering, Offers, Offer
<1>6. ASSUME NEW t \in Offering PROVE Offer(t) \in Accepting
  <2>1. t \in MT!Tids /\ Leads(t) /\ (BeingAnswered => asked[t].head # handler.head)
    BY DEF Offering, Offers
  <2>2. PICK w \in Heads : w = waiter[t] /\ w.tid = t
    BY <1>3, <2>1
  <2>3. Offer(t) = [number |-> asked[w.tid].head, q |-> w.key.q, ecs |-> pident[w.tid].ecs]
    BY <1>2, <2>2 DEF Offer
  <2> QED
    BY <2>1, <2>2, <2>3 DEF Accepting
<1>7. ASSUME NEW t \in MT!Tids, Expects(t)
      PROVE  asked[t].head \in Nat /\ asked[t].head < asks
  BY <1>7 DEF Expects, Types, AskedRecords, Numbered
<1>8. asks \in 0 .. MaxAsks
  BY DEF Types
<1> QED
  BY <1>1, <1>4, <1>5, <1>6, <1>7, <1>8, LeadsExpects DEF Mapped

\* The mthread t still waits for what it waited for, or still does not wait.
Same(t) ==
  /\ Expects(t)' <=> Expects(t)
  /\ Leads(t)' <=> Leads(t)
  /\ Expects(t) => asked'[t] = asked[t]

\* The handler goes on with the group it answers, if any.
AnswersOn ==
  /\ BeingAnswered' <=> BeingAnswered
  /\ BeingAnswered => handler'.head = handler.head /\ handler'.packet = handler.packet

LEMMA AnsweringStays == AnswersOn => UNCHANGED Answering
  BY DEF AnswersOn, Answering

LEMMA AnsweringSome ==
  ASSUME BeingAnswered, handler.head \in Nat
  PROVE  Answering # Closed
<1>1. PICK all \in BOOLEAN : all = (handler.packet.kind # "nameless")
  OBVIOUS
<1>2. Answering = [number |-> handler.head, all |-> all]
  BY <1>1, Zenon DEF Answering
<1>3. Answering \in [number : Nat, all : BOOLEAN]
  BY <1>2
<1> QED
  BY <1>3, ClosedAssumption

LEMMA OffersStay ==
  ASSUME AnswersOn, Mapped, NEW t \in MT!Tids, Same(t)
  PROVE  (t \in Offering' <=> t \in Offering) /\ (t \in Offering => Offer(t)' = Offer(t))
<1>1. CASE Leads(t)
  <2>1. Leads(t)' /\ asked'[t] = asked[t]
    BY <1>1 DEF Same, Mapped
  <2> QED
    BY <1>1, <2>1 DEF Offering, Offers, Offer, AnswersOn
<1>2. CASE ~Leads(t)
  BY <1>2 DEF Offering, Offers, Same
<1> QED
  BY <1>1, <1>2

-----------------------------------------------------------------------------
(* What happens to those who wait, as a step of Requests *)

LEMMA NothingHappens ==
  ASSUME Mapped, Mapped', AnswersOn, \A t \in MT!Tids : Same(t)
  PROVE  UNCHANGED Group!vars
<1>1. Groups' = Groups /\ Leaders' = Leaders
  BY DEF Mapped, Same
<1>2. Accepting' = Accepting
  BY OffersStay DEF Mapped, Offering
<1> QED
  BY <1>1, <1>2, AnsweringStays DEF Group!vars

LEMMA LeadHappens ==
  ASSUME Mapped, Mapped', AnswersOn, NEW t \in MT!Tids, NEW q, NEW ecs,
         ~Expects(t), Expects(t)', Leads(t)',
         asked'[t].head = asks, asked'[t].q = q, asked'[t].ecs = ecs,
         BeingAnswered => handler.head # asks,
         \A v \in Offering : ~(asked[v].q = q /\ asked[v].ecs = ecs),
         \A v \in MT!Tids : v # t => Same(v)
  PROVE  Group!Lead(t, q, ecs)
<1>1. Groups[t] = Closed /\ Groups' = [Groups EXCEPT ![t] = asks]
  BY DEF Mapped, Same
<1>2. Leaders' = Leaders \cup {t}
  BY DEF Mapped, Same
<1>3. \A g \in Accepting : ~(g.q = q /\ g.ecs = ecs)
  BY DEF Mapped, Offer
<1>4. Group!Members(asks) = {}
  <2>1. asks \in Nat /\ Closed # asks
    BY ClosedAssumption DEF Mapped
  <2> QED
    BY <2>1 DEF Group!Members, Mapped
<1>5. Answering # Closed => Answering.number # asks
  BY DEF Answering
<1>6. Accepting' = Accepting \cup {[number |-> asks, q |-> q, ecs |-> ecs]}
  <2>1. t \in Offering' /\ Offer(t)' = [number |-> asks, q |-> q, ecs |-> ecs]
    BY DEF Offering, Offers, Offer, AnswersOn
  <2>2. t \notin Offering
    BY DEF Offering, Offers, Mapped
  <2>3. Offering \subseteq MT!Tids /\ Offering' \subseteq MT!Tids
    BY DEF Offering
  <2>4. \A v \in MT!Tids : v # t => (v \in Offering' <=> v \in Offering)
                                    /\ (v \in Offering => Offer(v)' = Offer(v))
    BY OffersStay
  <2> QED
    BY <2>1, <2>2, <2>3, <2>4 DEF Mapped
<1>7. asks \in 0 .. MaxAsks
  BY DEF Mapped
<1> QED
  BY <1>1, <1>2, <1>3, <1>4, <1>5, <1>6, <1>7, AnsweringStays DEF Group!Lead

LEMMA JoinHappens ==
  ASSUME Mapped, Mapped', AnswersOn, NEW t \in MT!Tids, NEW u \in Offering,
         ~Expects(t), Expects(t)', ~Leads(t)', asked'[t].head = asked[u].head,
         \A v \in MT!Tids : v # t => Same(v)
  PROVE  Group!Join(t, asked[u].q, asked[u].ecs)
<1>1. Groups[t] = Closed /\ Groups' = [Groups EXCEPT ![t] = asked[u].head]
  BY DEF Mapped, Same
<1>2. ~Leads(t)
  BY DEF Mapped
<1>3. Leaders' = Leaders
  BY <1>2 DEF Mapped, Same
<1>4. Offer(u) \in Accepting
  BY DEF Mapped
<1>5. Accepting' = Accepting
  <2>1. t \notin Offering /\ t \notin Offering'
    BY <1>2 DEF Offering, Offers
  <2>2. Offering \subseteq MT!Tids /\ Offering' \subseteq MT!Tids
    BY DEF Offering
  <2>3. \A v \in MT!Tids : v # t => (v \in Offering' <=> v \in Offering)
                                    /\ (v \in Offering => Offer(v)' = Offer(v))
    BY OffersStay
  <2> QED
    BY <2>1, <2>2, <2>3 DEF Mapped
<1> QED
  BY <1>1, <1>3, <1>4, <1>5, AnsweringStays DEF Group!Join, Offer

LEMMA ExpireHappens ==
  ASSUME Mapped, Mapped', NEW t \in MT!Tids, Expects(t), ~Expects(t)', ~Leads(t)',
         ~BeingAnswered, ~BeingAnswered', \A v \in MT!Tids : v # t => Same(v)
  PROVE  Group!Expire(t)
<1>1. Groups[t] = asked[t].head /\ Groups' = [Groups EXCEPT ![t] = Closed]
  BY DEF Mapped, Same
<1>2. Groups[t] # Closed
  BY <1>1, ClosedAssumption DEF Mapped
<1>3. Leaders' = Leaders \ {t}
  BY DEF Mapped, Same
<1>4. Answering = Closed /\ UNCHANGED Answering
  BY DEF Answering
<1>5. Offering' = Offering \ {t} /\ \A v \in Offering' : Offer(v)' = Offer(v)
  <2>1. AnswersOn
    BY DEF AnswersOn
  <2> QED
    BY <2>1, OffersStay DEF Offering, Offers
<1>6. t \in Leaders <=> t \in Offering
  BY DEF Mapped, Offering, Offers
<1>7. \A v \in Offering : v # t /\ t \in Offering => Offer(v).number # asked[t].head
  BY DEF Mapped, Numbered, Offering, Offers, Offer
<1>8. Accepting' = IF t \in Leaders
                   THEN {g \in Accepting : g.number # Groups[t]} ELSE Accepting
  <2>1. Accepting' = {Offer(v) : v \in Offering \ {t}}
    BY <1>5 DEF Mapped
  <2>2. Offer(t).number = asked[t].head
    BY DEF Offer
  <2>3. CASE t \in Offering
    BY <1>1, <1>6, <1>7, <2>1, <2>2, <2>3 DEF Mapped
  <2>4. CASE t \notin Offering
    BY <1>6, <2>1, <2>4 DEF Mapped
  <2> QED
    BY <2>3, <2>4
<1> QED
  BY <1>1, <1>2, <1>3, <1>4, <1>8 DEF Group!Expire

LEMMA BeginHappens ==
  ASSUME Mapped, Mapped', NEW u \in MT!Tids, Leads(u), ~BeingAnswered, BeingAnswered',
         handler'.head = asked[u].head, \A v \in MT!Tids : Same(v)
  PROVE  \E g \in Accepting, all \in BOOLEAN : Group!Begin(g, all)
<1>1. Groups' = Groups /\ Leaders' = Leaders
  BY DEF Mapped, Same
<1>2. u \in Offering /\ Offer(u) \in Accepting
  BY DEF Offering, Offers, Mapped
<1>3. Answering = Closed
  BY DEF Answering
<1>4. PICK all \in BOOLEAN : Answering' = [number |-> Offer(u).number, all |-> all]
  BY DEF Answering, Offer
<1>5. \A v \in MT!Tids : (v \in Offering' <=> v \in Offering /\ v # u)
                         /\ (v \in Offering => Offer(v)' = Offer(v))
  <2>1. ASSUME NEW v \in MT!Tids, Leads(v)
        PROVE  /\ Leads(v)' /\ asked'[v] = asked[v]
               /\ asked[v].head = asked[u].head <=> v = u
    BY <2>1 DEF Mapped, Same, Numbered
  <2>2. ASSUME NEW v \in MT!Tids, ~Leads(v)
        PROVE  ~Leads(v)' /\ v # u
    BY <2>2 DEF Same
  <2> QED
    BY <2>1, <2>2 DEF Offering, Offers, Offer
<1>6. \A v \in Offering : v # u => Offer(v) # Offer(u)
  BY DEF Offering, Offers, Offer, Mapped, Numbered
<1>7. Accepting' = Accepting \ {Offer(u)}
  <2>1. Offering' \subseteq MT!Tids /\ Offering \subseteq MT!Tids
    BY DEF Offering
  <2>2. Offering' = Offering \ {u}
    BY <1>5, <2>1
  <2> QED
    BY <1>2, <1>5, <1>6, <2>1, <2>2 DEF Mapped
<1>8. Group!Begin(Offer(u), all)
  BY <1>1, <1>3, <1>4, <1>7 DEF Group!Begin
<1> QED
  BY <1>2, <1>8

LEMMA MemberHappens ==
  ASSUME Mapped, Mapped', AnswersOn, BeingAnswered, handler.packet.kind # "nameless",
         NEW t \in MT!Tids, Expects(t), ~Leads(t), ~Expects(t)', ~Leads(t)',
         asked[t].head = handler.head, \A v \in MT!Tids : v # t => Same(v)
  PROVE  Group!Member(t)
<1>1. Groups[t] = handler.head /\ Groups' = [Groups EXCEPT ![t] = Closed]
  BY DEF Mapped, Same
<1>2. Leaders' = Leaders /\ t \notin Leaders
  BY DEF Mapped, Same
<1>3. Answering.number = handler.head /\ Answering.all
  BY DEF Answering
<1>4. Answering # Closed
  <2>1. handler.head \in Nat
    BY DEF Mapped
  <2> QED
    BY <2>1, AnsweringSome
<1>5. Accepting' = Accepting
  <2>1. t \notin Offering /\ t \notin Offering'
    BY DEF Offering, Offers
  <2>2. Offering \subseteq MT!Tids /\ Offering' \subseteq MT!Tids
    BY DEF Offering
  <2>3. \A v \in MT!Tids : v # t => (v \in Offering' <=> v \in Offering)
                                    /\ (v \in Offering => Offer(v)' = Offer(v))
    BY OffersStay
  <2> QED
    BY <2>1, <2>2, <2>3 DEF Mapped
<1> QED
  BY <1>1, <1>2, <1>3, <1>4, <1>5, AnsweringStays DEF Group!Member, Group!Answered

LEMMA LeaderHappens ==
  ASSUME Mapped, Mapped', BeingAnswered, ~BeingAnswered', NEW t \in MT!Tids, Leads(t),
         ~Expects(t)', ~Leads(t)', asked[t].head = handler.head,
         handler.packet.kind # "nameless"
           => \A v \in MT!Tids : Expects(v) /\ asked[v].head = handler.head => v = t,
         \A v \in MT!Tids : v # t => Same(v)
  PROVE  Group!Leader(t)
<1>1. Expects(t) /\ handler.head \in Nat /\ handler.head # Closed
  BY ClosedAssumption DEF Mapped
<1>2. Groups[t] = handler.head /\ Groups' = [Groups EXCEPT ![t] = Closed]
  BY <1>1 DEF Mapped, Same
<1>3. Leaders' = Leaders \ {t} /\ t \in Leaders
  BY DEF Mapped, Same
<1>4. /\ Answering.number = handler.head
      /\ Answering.all <=> handler.packet.kind # "nameless"
      /\ Answering' = Closed
  BY DEF Answering
<1>5. Answering # Closed
  BY <1>1, AnsweringSome
<1>6. Answering.all => Group!Members(Answering.number) = {t}
  BY <1>1, <1>4 DEF Group!Members, Mapped
<1>7. Accepting' = Accepting
  <2>1. \A v \in MT!Tids : Leads(v) => (asked[v].head = handler.head <=> v = t)
    BY DEF Mapped, Numbered
  <2>2. t \notin Offering /\ t \notin Offering'
    BY DEF Offering, Offers
  <2>3. Offering \subseteq MT!Tids /\ Offering' \subseteq MT!Tids
    BY DEF Offering
  <2>4. \A v \in MT!Tids : v # t => (v \in Offering' <=> v \in Offering)
                                    /\ (v \in Offering => Offer(v)' = Offer(v))
    BY <2>1 DEF Offering, Offers, Offer, Same, Mapped
  <2> QED
    BY <2>2, <2>3, <2>4 DEF Mapped
<1> QED
  BY <1>2, <1>3, <1>4, <1>5, <1>6, <1>7 DEF Group!Leader, Group!Answered

-----------------------------------------------------------------------------
(* Each step of UdpQuery is one of these *)

\* An mthread that does not wait for an answer before or after.
LEMMA AsideHappens ==
  ASSUME Mapped, Mapped', UNCHANGED handler, NEW t \in MT!Tids,
         ~Expects(t), ~Expects(t)',
         \A v \in MT!Tids : v # t => /\ pc'[v] = pc[v] /\ waiter'[v] = waiter[v]
                                     /\ asked'[v] = asked[v]
  PROVE  UNCHANGED Group!vars
<1>1. Same(t)
  BY LeadsExpects DEF Same, Leads, Expects
<1>2. \A v \in MT!Tids : v # t => Same(v)
  BY DEF Same, Leads, Expects
<1>3. AnswersOn
  BY DEF AnswersOn, BeingAnswered
<1> QED
  BY <1>1, <1>2, <1>3, NothingHappens

\* One that waits is woken, the others wait on.
LEMMA WokenAlone ==
  ASSUME SchedulerInv, NEW t \in MT!Tids, pc' = [pc EXCEPT ![t] = "returning"],
         UNCHANGED <<waiter, asked>>
  PROVE  ~Expects(t)' /\ ~Leads(t)' /\ \A v \in MT!Tids : v # t => Same(v)
<1>1. pc'[t] = "returning" /\ \A v \in MT!Tids : v # t => pc'[v] = pc[v]
  BY DEF SchedulerInv, MT!TypeOK
<1> QED
  BY <1>1 DEF Expects, Leads, Same

LEMMA LoopHappens ==
  ASSUME SchedulerInv, Types, AskedMatch, Mapped, Mapped', MainLoop
  PROVE  [Group!Next]_(Group!vars)
<1>1. /\ running = MT!Kernel /\ handler.at = "idle"
      /\ UNCHANGED <<waiter, asked, handler>>
  BY Loops DEF udpVars
<1>2. \A t \in MT!Tids : pc[t] # "returning"
  BY <1>1, NoneReturning DEF Returning, MT!Tids, MT!Kernel
<1>3. AnswersOn /\ ~BeingAnswered /\ ~BeingAnswered'
  BY <1>1 DEF AnswersOn, BeingAnswered
<1>4. CASE \A t \in MT!Tids : /\ pc[t] \in {"waiting", "returning"}
                                   <=> pc'[t] \in {"waiting", "returning"}
                              /\ pc'[t] # "returning"
  <2>1. \A t \in MT!Tids : pc'[t] = "waiting" <=> pc[t] = "waiting"
    BY <1>2, <1>4
  <2>2. \A t \in MT!Tids : Same(t)
    BY <1>1, <2>1 DEF Same, Expects, Leads
  <2> QED
    BY <1>3, <2>2, NothingHappens
<1>5. CASE \E w \in d_waiters : w.tid \in MT!Tids /\ pc' = [pc EXCEPT ![w.tid] = "returning"]
  <2>1. PICK t \in MT!Tids : pc' = [pc EXCEPT ![t] = "returning"]
    BY <1>5
  <2>2. ~Expects(t)' /\ ~Leads(t)' /\ \A v \in MT!Tids : v # t => Same(v)
    BY <1>1, <2>1, WokenAlone
  <2>3. CASE Expects(t)
    <3>1. Group!Expire(t)
      BY <1>3, <2>2, <2>3, ExpireHappens
    <3> QED
      BY <3>1 DEF Group!Next
  <2>4. CASE ~Expects(t)
    <3>1. Same(t)
      BY <2>2, <2>4, LeadsExpects DEF Same
    <3> QED
      BY <1>3, <2>2, <3>1, NothingHappens
  <2> QED
    BY <2>3, <2>4
<1> QED
  BY <1>4, <1>5, Loops

\* A chained mthread is resent the answer: it is a member of the group that is being
\* answered, for its id is in that chain.
LEMMA ResendHappens ==
  ASSUME SchedulerInv, Types, AskedMatch, Apart, IdsApart, Mapped, Mapped', ResendOne
  PROVE  [Group!Next]_(Group!vars)
<1>1. handler.at = "resend" /\ UNCHANGED <<waiter, asked>>
  BY ResendMoves
<1>2. PICK e \in handler.todo :
        /\ handler'.at = "resend" /\ handler'.head = handler.head
        /\ handler'.packet = handler.packet
        /\ \/ UNCHANGED mtVars
           \/ \E t \in MT!Tids :
                /\ pc[t] = "waiting" /\ pc' = [pc EXCEPT ![t] = "returning"]
                /\ waiter[t].key = [q |-> handler.key.q, fd |-> e[1], id |-> e[2]]
  BY ResendMoves
<1>3. AnswersOn /\ BeingAnswered
  BY <1>1, <1>2 DEF AnswersOn, BeingAnswered
<1>4. PICK u \in MT!Tids : Carries(u)
  BY <1>1 DEF Apart, Carried
<1>5. handler.packet.kind # "nameless"
  BY <1>1 DEF Apart, Carried
<1>6. CASE UNCHANGED mtVars
  <2>1. \A t \in MT!Tids : Same(t)
    BY <1>1, <1>6 DEF mtVars, Same, Expects, Leads
  <2> QED
    BY <1>3, <2>1, NothingHappens
<1>7. CASE \E t \in MT!Tids :
             /\ pc[t] = "waiting" /\ pc' = [pc EXCEPT ![t] = "returning"]
             /\ waiter[t].key = [q |-> handler.key.q, fd |-> e[1], id |-> e[2]]
  <2>1. PICK t \in MT!Tids :
          /\ pc[t] = "waiting" /\ pc' = [pc EXCEPT ![t] = "returning"]
          /\ waiter[t].key = [q |-> handler.key.q, fd |-> e[1], id |-> e[2]]
    BY <1>7
  <2>2. ~Expects(t)' /\ ~Leads(t)' /\ \A v \in MT!Tids : v # t => Same(v)
    BY <1>1, <2>1, WokenAlone
  <2>3. Expects(t)
    <3>1. IsQuery(waiter[t].key)
      BY <2>1 DEF IsQuery
    <3> QED
      BY <2>1, <3>1, KeyKinds DEF AskedMatch, Expects
  <2>4. ~Leads(t)
    <3>1. handler.todo \in SUBSET (ChainFds \X Ids)
      BY <1>1 DEF Types, HandlerRecords, Idle
    <3>2. e[1] \in ChainFds
      BY <3>1
    <3>3. ~(e[1] >= 0)
      BY <3>2, KeyKinds
    <3> QED
      BY <2>1, <3>3 DEF Leads
  <2>5. asked[t].head = handler.head
    <3>1. waiter[t].key.id = e[2] /\ e \in pident[u].chain
      BY <1>4, <2>1 DEF Carries
    <3>2. asked[t].head = asked[u].head
      BY <2>3, <3>1 DEF IdsApart
    <3> QED
      BY <1>4, <3>2 DEF Carries
  <2>6. Group!Member(t)
    BY <1>3, <1>5, <2>2, <2>3, <2>4, <2>5, MemberHappens
  <2> QED
    BY <2>6 DEF Group!Next
<1> QED
  BY <1>2, <1>6, <1>7

\* The head is told last.
LEMMA HeadHappens ==
  ASSUME SchedulerInv, Types, AskedMatch, Served, Apart, Mapped, Mapped', WakeHead
  PROVE  [Group!Next]_(Group!vars)
<1>1. handler.at = "resend"
  BY DEF WakeHead, HandlerAt
<1>2. PICK u \in MT!Tids : Carries(u)
  BY <1>1 DEF Apart, Carried
<1>3. /\ handler.todo = {} /\ handler'.at # "resend" /\ UNCHANGED <<waiter, asked>>
      /\ pc' = [pc EXCEPT ![u] = "returning"]
  BY <1>2, HeadMoves DEF Carries
<1>4. ~Expects(u)' /\ ~Leads(u)' /\ \A v \in MT!Tids : v # u => Same(v)
  BY <1>3, WokenAlone
<1>5. ASSUME handler.packet.kind # "nameless", NEW v \in MT!Tids, Expects(v),
             asked[v].head = handler.head
      PROVE  v = u
  <2>1. PICK x \in MT!Tids : ServedBy(x)
    BY <1>1 DEF Served, Resending
  <2>2. ~Follows(v)
    BY <1>3, <1>5, <2>1 DEF ServedBy
  <2>3. Leads(v)
    BY <1>5, <2>2, ExpectsKnown
  <2> QED
    BY <1>2, <1>5, <2>3 DEF Carries, Mapped, Numbered
<1>6. Group!Leader(u)
  BY <1>1, <1>2, <1>3, <1>4, <1>5, LeaderHappens DEF Carries, BeingAnswered
<1> QED
  BY <1>6 DEF Group!Next

LEMMA PacketHappens ==
  ASSUME SchedulerInv, Types, AskedMatch, Owned, Mapped, Mapped', NEW fd \in Open,
         \/ RecvError(fd)
         \/ \E id \in Ids : \/ RecvNameless(fd, id)
                            \/ \E q \in Questions : RecvAnswer(fd, q, id)
  PROVE  [Group!Next]_(Group!vars)
<1>1. handler.at = "idle" /\ UNCHANGED <<pc, waiter, asked>>
  BY PacketMoves DEF mtVars
<1>2. \A t \in MT!Tids : Same(t)
  BY <1>1 DEF Same, Expects, Leads
<1>3. CASE UNCHANGED handler
  <2>1. AnswersOn
    BY <1>3 DEF AnswersOn, BeingAnswered
  <2> QED
    BY <1>2, <2>1, NothingHappens
<1>4. CASE \E w \in Heads, packet \in Packets : \E closeFd, todo :
             Deliver(w, packet, todo, closeFd)
  <2>1. PICK w \in Heads :
          handler'.at = "resend" /\ handler'.head = asked[w.tid].head
    BY <1>4 DEF Deliver
  <2>2. w.tid \in MT!Tids /\ pc[w.tid] = "waiting" /\ waiter[w.tid] = w
        /\ w.key \in PacketKeys /\ w.key.fd >= 0
    BY HeadsKnown DEF Heads
  <2>3. Leads(w.tid)
    BY <2>2, KeyKinds DEF AskedMatch, Leads
  <2>4. ~BeingAnswered /\ BeingAnswered'
    BY <1>1, <2>1 DEF BeingAnswered
  <2>5. \E g \in Accepting, all \in BOOLEAN : Group!Begin(g, all)
    BY <1>2, <2>1, <2>2, <2>3, <2>4, BeginHappens
  <2> QED
    BY <2>5 DEF Group!Next
<1>5. \/ UNCHANGED handler
      \/ \E w \in Heads, packet \in Packets : \E closeFd, todo :
           Deliver(w, packet, todo, closeFd)
  BY PacketMoves
<1> QED
  BY <1>3, <1>4, <1>5

\* A request is chained onto a head that takes members: while one is being answered, it is
\* closed or nobody runs.
LEMMA ChainedHappens ==
  ASSUME SchedulerInv, Types, AskedMatch, ChainCounted, Served, Apart, Mapped, Mapped',
         NEW t \in MT!Tids, NEW q \in Questions, NEW ecs \in Subnets,
         NEW wait \in WaitTimes, NEW id \in Ids, AskChained(t, q, ecs, id, wait)
  PROVE  [Group!Next]_(Group!vars)
<1>1. UNCHANGED handler /\ pc[t] = "active" /\ running = t /\ t # MT!Kernel
  BY DEF AskChained, Starts, MT!Active, MT!Tids, MT!Kernel
<1>2. PICK head \in ChainHeads(q, ecs) :
        /\ head.tid # t
        /\ NextPlace(pident[head.tid].chain) \in ChainFds
        /\ ChainsOnto(head, t, q, ecs, id, wait)
  BY ChainedSteps
<1>3. PICK u \in MT!Tids : u = head.tid
  BY <1>2, ChainHeadsKnown
<1>4. PICK fd, key : fd = NextPlace(pident[u].chain) /\ key = [q |-> q, fd |-> fd, id |-> id]
  OBVIOUS
<1>5. /\ pc[u] = "waiting" /\ waiter[u] = head /\ head.key.fd >= 0 /\ head.key.q = q
      /\ ~pident[u].closed /\ pident[u].ecs = ecs /\ u # t
  BY <1>2, <1>3, ChainHeadsKnown
<1>6. asked[u].state = "waiting" /\ asked[u].q = q /\ asked[u].ecs = ecs
  BY <1>2, <1>3, <1>5, ChainHeadsKnown, KeyKinds DEF AskedMatch, Apart, SubnetsKept
<1>7. Leads(u)
  BY <1>5, <1>6 DEF Leads
<1>8. ~Expects(t)
  BY <1>1 DEF Expects
<1>9. AnswersOn
  BY <1>1 DEF AnswersOn, BeingAnswered
<1>10. u \in Offering
  <2>1. ASSUME BeingAnswered, asked[u].head = handler.head PROVE FALSE
    <3>1. handler.packet.kind # "nameless"
      BY <1>1, <2>1 DEF BeingAnswered, Apart, Carried
    <3>2. PICK v \in MT!Tids : ServedBy(v)
      BY <2>1 DEF BeingAnswered, Served, Resending
    <3>3. pident[v].closed /\ Leads(v) /\ asked[v].head = handler.head
      BY <3>1, <3>2 DEF ServedBy
    <3> QED
      BY <1>5, <1>7, <2>1, <3>3 DEF Mapped, Numbered
  <2> QED
    BY <1>7, <2>1 DEF Offering, Offers
<1>11. CASE MT!WaitEventError(t, key) /\ asked' = [asked EXCEPT ![t] = [state |-> "failed"]]
  <2>1. UNCHANGED <<pc, waiter>>
    BY <1>11 DEF MT!WaitEventError
  <2>2. ~Expects(t)' /\ \A v \in MT!Tids : v # t => asked'[v] = asked[v]
    BY <1>11 DEF Types, Expects
  <2> QED
    BY <1>1, <1>8, <2>1, <2>2, AsideHappens
<1>12. CASE /\ MT!WaitEvent(t, key, wait)
            /\ asked' = [asked EXCEPT ![t] = Asking(q, ecs, asked[u].head)]
  <2>1. PICK w : /\ w.key = key /\ waiter' = [waiter EXCEPT ![t] = w]
                 /\ pc' = [pc EXCEPT ![t] = "waiting"] /\ now' = now
    <3>1. MT!WaitEvent(t, key, wait)
      BY <1>12
    <3> QED
      BY <3>1, AskWaits
  <2>2. \A v \in MT!Tids : v # t => pc'[v] = pc[v] /\ waiter'[v] = waiter[v]
                                    /\ asked'[v] = asked[v]
    BY <1>12, <2>1 DEF SchedulerInv, MT!TypeOK, Types
  <2>3. /\ pc'[t] = "waiting" /\ waiter'[t].key = key
        /\ asked'[t] = Asking(q, ecs, asked[u].head)
    BY <1>12, <2>1 DEF SchedulerInv, MT!TypeOK, Types
  <2>4. asked'[t].state = "waiting" /\ asked'[t].head = asked[u].head
    BY <2>3 DEF Asking
  <2>5. ~(fd >= 0) /\ key.fd = fd
    BY <1>2, <1>3, <1>4, KeyKinds
  <2>6. Expects(t)' /\ ~Leads(t)'
    BY <2>3, <2>4, <2>5 DEF Expects, Leads
  <2>7. \A v \in MT!Tids : v # t => Same(v)
    BY <2>2 DEF Same, Expects, Leads
  <2>8. Group!Join(t, q, ecs)
    BY <1>6, <1>8, <1>9, <1>10, <2>4, <2>6, <2>7, JoinHappens
  <2> QED
    BY <2>8 DEF Group!Next
<1> QED
  BY <1>2, <1>3, <1>4, <1>11, <1>12 DEF ChainsOnto

\* A request that no head takes leads a group of its own.
LEMMA AnewHappens ==
  ASSUME SchedulerInv, Types, AskedMatch, Apart, Mapped, Mapped', NEW t \in MT!Tids,
         NEW q \in Questions, NEW ecs \in Subnets, NEW id \in Ids, NEW fd \in Fds,
         NEW wait \in WaitTimes, AskAnew(t, q, ecs, id, fd, wait)
  PROVE  [Group!Next]_(Group!vars)
<1>1. UNCHANGED handler /\ pc[t] = "active" /\ ChainHeads(q, ecs) = {}
  BY DEF AskAnew, Starts, MT!Active
<1>2. PICK key : key = [q |-> q, fd |-> fd, id |-> id]
  OBVIOUS
<1>3. ~Expects(t)
  BY <1>1 DEF Expects
<1>4. AnswersOn
  BY <1>1 DEF AnswersOn, BeingAnswered
<1>5. CASE MT!WaitEventError(t, key) /\ asked' = [asked EXCEPT ![t] = [state |-> "failed"]]
  <2>1. UNCHANGED <<pc, waiter>>
    BY <1>5 DEF MT!WaitEventError
  <2>2. ~Expects(t)' /\ \A v \in MT!Tids : v # t => asked'[v] = asked[v]
    BY <1>5 DEF Types, Expects
  <2> QED
    BY <1>1, <1>3, <2>1, <2>2, AsideHappens
<1>6. CASE /\ MT!WaitEvent(t, key, wait)
           /\ asked' = [asked EXCEPT ![t] = Asking(q, ecs, asks)]
  <2>1. PICK w : /\ w.key = key /\ waiter' = [waiter EXCEPT ![t] = w]
                 /\ pc' = [pc EXCEPT ![t] = "waiting"] /\ now' = now
    <3>1. MT!WaitEvent(t, key, wait)
      BY <1>6
    <3> QED
      BY <3>1, AskWaits
  <2>2. \A v \in MT!Tids : v # t => pc'[v] = pc[v] /\ waiter'[v] = waiter[v]
                                    /\ asked'[v] = asked[v]
    BY <1>6, <2>1 DEF SchedulerInv, MT!TypeOK, Types
  <2>3. /\ pc'[t] = "waiting" /\ waiter'[t].key = key
        /\ asked'[t] = Asking(q, ecs, asks)
    BY <1>6, <2>1 DEF SchedulerInv, MT!TypeOK, Types
  <2>4. /\ asked'[t].state = "waiting" /\ asked'[t].head = asks
        /\ asked'[t].q = q /\ asked'[t].ecs = ecs
    BY <2>3 DEF Asking
  <2>5. key.fd >= 0
    BY <1>2, KeyKinds
  <2>6. Expects(t)' /\ Leads(t)'
    BY <2>3, <2>4, <2>5 DEF Expects, Leads
  <2>7. \A v \in MT!Tids : v # t => Same(v)
    BY <2>2 DEF Same, Expects, Leads
  <2>8. ASSUME NEW v \in Offering, asked[v].q = q, asked[v].ecs = ecs PROVE FALSE
    <3>1. v \in MT!Tids /\ Leads(v) /\ (BeingAnswered => asked[v].head # handler.head)
      BY DEF Offering, Offers
    <3>2. waiter[v] \in QueryWaiters /\ waiter[v].tid = v /\ waiter[v].key.q = q
          /\ waiter[v].key.fd >= 0 /\ asked[v].state = "waiting"
      BY <2>8, <3>1, LeadsExpects, ExpectsKnown DEF Leads
    <3>3. ~pident[v].closed
      BY <3>1 DEF Apart, ClosedServed, BeingAnswered
    <3>4. pident[v].ecs = ecs
      BY <2>8, <3>1, <3>2 DEF Apart, SubnetsKept
    <3>5. waiter[v] \in ChainHeads(q, ecs)
      BY <3>2, <3>3, <3>4 DEF ChainHeads, Heads
    <3> QED
      BY <1>1, <3>5
  <2>9. BeingAnswered => handler.head # asks
    <3>1. ASSUME BeingAnswered PROVE handler.head # asks
      <4>1. PICK v \in MT!Tids : Carries(v)
        BY <3>1 DEF BeingAnswered, Apart, Carried
      <4>2. asked[v].head \in Nat /\ asked[v].head < asks
        BY <4>1 DEF Carries, Mapped
      <4> QED
        BY <4>1, <4>2 DEF Carries, Mapped
    <3> QED
      BY <3>1
  <2>10. Group!Lead(t, q, ecs)
    BY <1>3, <1>4, <2>4, <2>6, <2>7, <2>8, <2>9, LeadHappens
  <2> QED
    BY <2>10 DEF Group!Next
<1> QED
  BY <1>2, <1>5, <1>6 DEF AskAnew

LEMMA GroupNext ==
  ASSUME SchedulerInv, Basics, HandlerKnown, Owned, Served, Apart, IdsApart,
         Mapped, Mapped', [Next]_vars
  PROVE  [Group!Next]_(Group!vars)
<1>0. Types /\ AskedMatch /\ ChainCounted
  BY DEF Basics
<1>1. CASE UNCHANGED vars \/ Tick \/ CloseSocket
  <2>1. UNCHANGED <<pc, waiter, asked>> /\ (UNCHANGED handler \/ CloseSocket)
    BY <1>1 DEF vars, mtVars, udpVars, Tick, MT!Tick, CloseSocket
  <2>2. AnswersOn
    BY <2>1 DEF AnswersOn, BeingAnswered, CloseSocket, HandlerAt, Idle
  <2>3. \A t \in MT!Tids : Same(t)
    BY <2>1 DEF Same, Expects, Leads
  <2> QED
    BY <2>2, <2>3, NothingHappens
<1>2. CASE MainLoop
  BY <1>0, <1>2, LoopHappens
<1>3. CASE ResendOne
  BY <1>0, <1>3, ResendHappens
<1>4. CASE WakeHead
  BY <1>0, <1>4, HeadHappens
<1>5. ASSUME NEW fd \in Open,
             \/ RecvError(fd)
             \/ \E id \in Ids : \/ RecvNameless(fd, id)
                                \/ \E q \in Questions : RecvAnswer(fd, q, id)
      PROVE  [Group!Next]_(Group!vars)
  BY <1>0, <1>5, PacketHappens
<1>6. ASSUME NEW t \in MT!Tids, NEW q \in Questions, NEW ecs \in Subnets,
             \/ AskSendFails(t, q, ecs)
             \/ \E wait \in WaitTimes : AskChainLimit(t, q, ecs, wait)
      PROVE  [Group!Next]_(Group!vars)
  <2>1. /\ pc[t] = "active" /\ asked' = [asked EXCEPT ![t] = [state |-> "failed"]]
        /\ UNCHANGED <<pc, waiter, handler>>
    BY <1>6 DEF AskSendFails, AskChainLimit, Starts, MT!Active, mtVars
  <2>2. ~Expects(t) /\ ~Expects(t)' /\ \A v \in MT!Tids : v # t => asked'[v] = asked[v]
    BY <1>0, <2>1 DEF Types, Expects
  <2> QED
    BY <2>1, <2>2, AsideHappens
<1>7. ASSUME NEW t \in MT!Tids, NEW q \in Questions, NEW ecs \in Subnets,
             NEW wait \in WaitTimes, NEW id \in Ids, AskChained(t, q, ecs, id, wait)
      PROVE  [Group!Next]_(Group!vars)
  BY <1>0, <1>7, ChainedHappens
<1>8. ASSUME NEW t \in MT!Tids, NEW q \in Questions, NEW ecs \in Subnets,
             NEW wait \in WaitTimes, NEW id \in Ids, NEW fd \in Fds,
             AskAnew(t, q, ecs, id, fd, wait)
      PROVE  [Group!Next]_(Group!vars)
  BY <1>0, <1>8, AnewHappens
<1>9. ASSUME NEW t \in MT!Tids, Receive(t) \/ SleepReturn(t) \/ Finish(t)
      PROVE  [Group!Next]_(Group!vars)
  <2>1. /\ pc[t] # "waiting" /\ UNCHANGED <<waiter, handler>>
        /\ \E s : s # "waiting" /\ pc' = [pc EXCEPT ![t] = s]
    BY <1>9 DEF Receive, SleepReturn, Finish, MT!WaitReturn, MT!Finish, MT!Active, udpVars
  <2>2. pc'[t] # "waiting" /\ \A v \in MT!Tids : v # t => pc'[v] = pc[v]
    BY <2>1 DEF SchedulerInv, MT!TypeOK
  <2>3. \A v \in MT!Tids : v # t => asked'[v] = asked[v]
    BY <1>0, <1>9 DEF Receive, SleepReturn, Finish, udpVars, Types
  <2>4. ~Expects(t) /\ ~Expects(t)'
    BY <2>1, <2>2 DEF Expects
  <2> QED
    BY <2>1, <2>2, <2>3, <2>4, AsideHappens
<1>10. ASSUME NEW t \in MT!Tids, NEW jitter \in WaitTimes \cup {0}, Sleep(t, jitter)
       PROVE  [Group!Next]_(Group!vars)
  <2>1. jitter \in Nat
    BY UdpQueryAssumption
  <2>2. /\ MT!WaitEvent(t, [sleeper |-> t], jitter) /\ UNCHANGED handler
        /\ asked' = [asked EXCEPT ![t] = NotAsked]
    BY <1>10 DEF Sleep
  <2>3. pc[t] = "active" /\ \E w : waiter' = [waiter EXCEPT ![t] = w]
                                   /\ pc' = [pc EXCEPT ![t] = "waiting"]
    BY <2>1, <2>2, Waits
  <2>4. \A v \in MT!Tids : v # t => /\ pc'[v] = pc[v] /\ waiter'[v] = waiter[v]
                                    /\ asked'[v] = asked[v]
    BY <1>0, <2>2, <2>3 DEF Types, SchedulerInv, MT!TypeOK
  <2>5. ~Expects(t) /\ ~Expects(t)'
    BY <1>0, <2>2, <2>3 DEF Types, NotAsked, Expects
  <2> QED
    BY <2>2, <2>4, <2>5, AsideHappens
<1> QED
  BY <1>1, <1>2, <1>3, <1>4, <1>5, <1>6, <1>7, <1>8, <1>9, <1>10, Steps

LEMMA GroupInit == Init => Group!Init
<1> SUFFICES ASSUME Init PROVE Group!Init
  OBVIOUS
<1>1. /\ d_waiters = {} /\ handler.at = "idle"
      /\ \A t \in MT!Tids : asked[t].state = "none"
  BY DEF Init, MT!Init, Idle, NotAsked
<1>2. Heads = {}
  BY <1>1 DEF Heads, QueryWaiters
<1>3. Groups = [t \in MT!Tids |-> Closed]
  BY <1>1 DEF Groups, GroupOf
<1>4. Leaders = {} /\ Accepting = {}
  BY <1>2 DEF Leaders, Accepting
<1>5. Answering = Closed
  BY <1>1 DEF Answering, BeingAnswered
<1> QED
  BY <1>3, <1>4, <1>5 DEF Group!Init

\* The requests of the mthreads are served as Requests promises: whoever asks what a head
\* asks already joins it, as long as it takes members; an answer reaches the members of
\* one group and no one else, the leader last, when no member is left; and a request that
\* times out leaves its group behind without a leader.  Sockets, places in chains and the
\* order in which mthreads are woken do not change that, nor does what an mthread that
\* was woken asks while the handler is under way.
THEOREM RequestsKept == ~IdsRepeat => (Spec => KeepsPromise)
<1> SUFFICES ASSUME ~IdsRepeat PROVE Spec => KeepsPromise
  OBVIOUS
<1>1. UInv /\ Apart => Mapped
  BY SchedulerKnown, MappedKnown DEF UInv, Basics, Served, Apart
<1>2. UInv /\ Apart /\ Mapped /\ Mapped' /\ [Next]_vars => [Group!Next]_(Group!vars)
  BY SchedulerKnown, GroupNext DEF UInv, Apart
<1> QED
  BY <1>1, <1>2, GroupInit, ApartInvariance, PTL DEF Spec, KeepsPromise, Group!Spec
=============================================================================

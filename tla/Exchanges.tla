----------------------------- MODULE Exchanges -----------------------------
(***************************************************************************)
(* How the resolver asks the servers of a zone (src/syncres.cc:            *)
(* doResolveAt's loop over addresses, throttledOrBlocked,                  *)
(* doResolveAtThisIP, asyncresolveWrapper; src/lwres.cc: asyncresolve over *)
(* TCP).  Mthreads of several threads share what is known of servers       *)
(* (Servers); those of a thread share its idle TCP connections (TcpOut).   *)
(*                                                                         *)
(* A resolution waits only for an exchange, over UDP (UdpQuery has the     *)
(* inside of that) or TCP.  Between two waits an action is what happens    *)
(* under one lock; threads interleave there, the mthreads of one do not.   *)
(***************************************************************************)
EXTENDS Servers, TcpOut

CONSTANTS
  Workers,    \* mthreads that resolve, one question after another
  Threads,
  Setups,     \* what a run may be about, see `setup'
  NoAddr, NoQuestion, NoConn,
  TcpAnswers  \* whether an exchange over TCP can succeed

ASSUME ExchangesAssumption ==
  /\ TcpAnswers \in BOOLEAN
  /\ NoAddr \notin Addrs /\ NoQuestion \notin Questions
  /\ \A s \in Setups : /\ s.thread \in [Workers -> Threads]
                       /\ s.servers \subseteq Addrs /\ s.maxqperq \in Nat

VARIABLES
  \* The thread of each mthread, and what servers and the network do in this
  \* behaviour (`traffic'), never changed.
  setup,
  idle,   \* t_tcp_manager, per thread
  work,   \* per mthread: the resolution it is busy with
  row,    \* history: failures of a server since its last valid answer, up to MaxFails
  formerr \* history: when a server last answered EDNS with FORMERR, or -1

history == <<row, formerr>>
vars == <<now, tables, setup, idle, work, history>>

\* An mthread that resolves nothing.  `left' are the addresses not yet tried, `sent'
\* is d_outqueries + d_throttledqueries, `valid' is d_validpacket of the LWResult
\* that all exchanges of a server name share, `dnow' is d_now.
NoWork ==
  [at |-> "idle", question |-> NoQuestion, addr |-> NoAddr, left |-> {}, sent |-> 0,
   tcp |-> FALSE, bare |-> FALSE, chained |-> FALSE, valid |-> FALSE, conn |-> NoConn,
   reused |-> FALSE, got |-> "nothing", dnow |-> 0]

Init ==
  /\ TablesInit
  /\ setup \in Setups
  /\ idle = [th \in Threads |-> <<>>]
  /\ work = [w \in Workers |-> NoWork]
  /\ row = [a \in Addrs |-> 0] /\ formerr = [a \in Addrs |-> -1]

----------------------------------------------------------------------------
(* Who runs, and what may happen in this behaviour. *)

Thread(w) == setup.thread[w]
Occurs(event) == event \in setup.traffic
Possible(event) == IF Occurs(event) THEN BOOLEAN ELSE {FALSE}

Waits(w) == work[w].at \in {"idle", "udp", "tcp"}

\* w is at this place, and no other mthread of its thread is between two waits.
At(w, place) ==
  /\ work[w].at = place
  /\ \A v \in Workers \ {w} : Thread(v) = Thread(w) => Waits(v)

Continue(w, r) == work' = [work EXCEPT ![w] = r]

\* On to the next address, if there is one.
NextAddr(r) ==
  IF r.left = {} THEN NoWork
  ELSE [r EXCEPT !.at = "next", !.addr = NoAddr, !.tcp = FALSE, !.bare = FALSE,
                 !.chained = FALSE, !.conn = NoConn, !.reused = FALSE, !.got = "nothing"]

\* checkMaxQperQ, after one more query was counted.
Count(r) == [r EXCEPT !.sent = @ + 1]
TooManyLate(r) == r.sent > setup.maxqperq + 1
TooMany(r) == r.sent > setup.maxqperq

Start(w, q) ==
  /\ At(w, "idle")
  /\ Continue(w, [NoWork EXCEPT !.at = "next", !.question = q, !.left = setup.servers, !.dnow = now])
  /\ UNCHANGED <<now, tables, setup, idle, history>>

----------------------------------------------------------------------------
(* throttledOrBlocked *)

Refused(w, r) ==
  Continue(w, IF TooMany(Count(r)) THEN NoWork ELSE NextAddr(Count(r)))

\* isThrottled for a server.
PassServer(w, a) ==
  /\ At(w, "next") /\ a \in work[w].left
  /\ throttle' = Asked(<<a, Whole>>, work[w].dnow)
  \* A server that is throttled is asked anyway with a probability of 1 / s_unthrottle_n.
  /\ Continue(w, [work[w] EXCEPT !.at = "question", !.addr = a, !.left = @ \ {a}])
  /\ UNCHANGED <<now, fails, ednsstatus, setup, idle, history>>

RefuseServer(w, a) ==
  /\ At(w, "next") /\ a \in work[w].left
  /\ ShouldThrottle(<<a, Whole>>, work[w].dnow)
  /\ throttle' = Asked(<<a, Whole>>, work[w].dnow)
  /\ Refused(w, [work[w] EXCEPT !.left = @ \ {a}])
  /\ UNCHANGED <<now, fails, ednsstatus, setup, idle, history>>

\* isThrottled for a server and a question.
CheckQuestion(w, a) ==
  LET r == work[w]
      key == <<a, r.question>>
  IN  /\ At(w, "question") /\ r.addr = a
      /\ throttle' = Asked(key, r.dnow)
      /\ IF ShouldThrottle(key, r.dnow) THEN Refused(w, r)
         ELSE Continue(w, [r EXCEPT !.at = "ask"])
      /\ UNCHANGED <<now, fails, ednsstatus, setup, idle, history>>

----------------------------------------------------------------------------
(* Connections *)

StoredIfValid(conns, conn, r) ==
  IF r.valid THEN Stored(conns, conn, now) ELSE conns

\* tcpconnect: an idle connection of the thread, or a new one.  Without a socket
\* there is no handler; when connecting fails there is one, and as the exchange is
\* over its connection may be stored.
Connect(w, r, conns) ==
  LET own(seq) == idle' = [idle EXCEPT ![Thread(w)] = seq]
      use(conn, reused) ==
        Continue(w, [r EXCEPT !.at = "tcp", !.conn = conn, !.reused = reused])
      a == r.addr
  IN  IF To(a, conns) # {}
      THEN use(Got(conns, a), TRUE) /\ own(Left(conns, a))
      ELSE \/ use(NewConnection(a, TRUE), FALSE) /\ own(conns)
           \/ /\ Occurs("limit")
              /\ Continue(w, NextAddr([r EXCEPT !.dnow = now])) /\ own(conns)
           \/ /\ Occurs("limit")
              /\ Continue(w, NextAddr([r EXCEPT !.dnow = now]))
              /\ own(StoredIfValid(conns, NewConnection(a, FALSE), r))

\* doResolveAtThisIP as far as the wire: the limit, the mode of EDNS, the exchange.
Ask(w, a) ==
  LET r == Count(work[w])
      asked == [r EXCEPT !.at = "udp", !.bare = Mode(a, r.dnow) = "NOEDNS",
                         !.chained = FALSE]
  IN  /\ At(w, "ask") /\ r.addr = a
      /\ IF TooMany(r)
         THEN Continue(w, NoWork) /\ UNCHANGED <<ednsstatus, idle>>
         ELSE /\ ednsstatus' = Noticed(a, r.dnow)
              /\ IF r.tcp THEN Connect(w, asked, idle[Thread(w)])
                 ELSE Continue(w, asked) /\ UNCHANGED idle
      /\ UNCHANGED <<now, throttle, fails, setup, history>>

----------------------------------------------------------------------------
(* The end of an exchange *)

\* An exchange has failed; it counts unless the reason is ours (a limit) or it was
\* somebody else's exchange (chained).
Failed(w, r, got, genuine) ==
  /\ Continue(w, IF genuine THEN [r EXCEPT !.at = "failed", !.got = got] ELSE NextAddr(r))
  /\ row' = IF genuine THEN [row EXCEPT ![r.addr] = Min({@ + 1, MaxFails})] ELSE row
  /\ UNCHANGED formerr

\* A packet has come: what asyncresolveWrapper learns from it, and the answer of
\* doResolveAtThisIP.  A chained question has no say on throttling.
Learnt(r, kind, edns) ==
  IF r.bare THEN ednsstatus
  ELSE IF edns THEN Without(ednsstatus, r.addr)
  ELSE ModeSet(r.addr, IF kind = "formerr" THEN "NOEDNS" ELSE "EDNSIGNORANT", now)

\* "This is the only path that re-iterates the loop"
AsksBare(r, kind, edns) == kind = "formerr" /\ ~edns /\ ~r.bare

FormErr(a) == formerr' = [formerr EXCEPT ![a] = now] /\ UNCHANGED row

Judged(w, r, kind) ==
  LET offence == IF kind # "garbage" THEN "rcode"
                 ELSE IF r.tcp THEN "garbageTCP" ELSE "garbage"
  IN  IF kind \in {"answer", "truncated"}
      THEN /\ Continue(w, [r EXCEPT !.at = "answered", !.got = kind])
           /\ row' = [row EXCEPT ![r.addr] = 0] /\ UNCHANGED formerr
      ELSE /\ Continue(w, IF r.chained THEN NextAddr(r)
                          ELSE [r EXCEPT !.at = "punish", !.got = offence])
           /\ UNCHANGED history

Replies == {"answer", "truncated", "rcode", "formerr", "garbage"}

\* Once chained, the question remains so when it is asked without EDNS.
MayBeChained(w) == {chained \in Possible("chained") : work[w].chained => chained}

\* A question that cannot even be sent does not read the clock again.
UdpFails(w) ==
  /\ At(w, "udp")
  /\ \E got \in {"timeout", "error", "limit"} \cap setup.traffic,
        chained \in MayBeChained(w), dnow \in {now, work[w].dnow} :
       /\ got = "timeout" => dnow = now
       /\ Failed(w, [work[w] EXCEPT !.dnow = dnow], got, got # "limit" /\ ~chained)
  /\ UNCHANGED <<now, tables, setup, idle>>

\* Too many near misses, or the wrong subnet: again over TCP.
UdpSpoofed(w) ==
  /\ At(w, "udp") /\ Occurs("spoofed")
  /\ Continue(w, [work[w] EXCEPT !.at = "ask", !.tcp = TRUE, !.dnow = now])
  /\ UNCHANGED <<now, tables, setup, idle, history>>

UdpReply(w) ==
  /\ At(w, "udp")
  /\ \E kind \in Replies \cap setup.traffic, edns \in Possible("EDNS"),
        chained \in MayBeChained(w) :
       LET r == [work[w] EXCEPT !.dnow = now, !.valid = kind # "garbage", !.chained = chained]
       IN  /\ edns => kind # "garbage" /\ ~r.bare
           /\ ednsstatus' = Learnt(r, kind, edns)
           /\ IF AsksBare(r, kind, edns)
              THEN Continue(w, [r EXCEPT !.bare = TRUE]) /\ FormErr(r.addr)
              ELSE Judged(w, r, kind)
  /\ UNCHANGED <<now, throttle, fails, setup, idle>>

\* A connection that was idle is replaced when it does not work, a new one is given
\* up; it is closed in either case.
TcpFails(w) ==
  /\ At(w, "tcp")
  /\ LET r == [work[w] EXCEPT !.dnow = now]
         conns == idle[Thread(w)]
     IN  IF r.reused
         THEN Connect(w, work[w], conns) /\ UNCHANGED history
         ELSE \E got \in {"timeout", "error"} \cap setup.traffic :
                /\ idle' = [idle EXCEPT ![Thread(w)] =
                              StoredIfValid(conns, [r.conn EXCEPT !.open = FALSE], r)]
                /\ Failed(w, [r EXCEPT !.conn = NoConn], got, TRUE)
  /\ UNCHANGED <<now, tables, setup>>

\* The packet answers another question: an error, on a connection that works.
TcpMismatch(w) ==
  /\ At(w, "tcp") /\ Occurs("mismatch") /\ TcpAnswers /\ work[w].conn.open
  /\ LET r == [work[w] EXCEPT !.dnow = now]
     IN  /\ idle' = [idle EXCEPT ![Thread(w)] = StoredIfValid(@, r.conn, r)]
         /\ Failed(w, [r EXCEPT !.conn = NoConn, !.reused = FALSE], "error", TRUE)
  /\ UNCHANGED <<now, tables, setup>>

TcpReply(w) ==
  /\ At(w, "tcp") /\ TcpAnswers /\ work[w].conn.open
  /\ \E kind \in Replies \cap setup.traffic, edns \in Possible("EDNS") :
       LET got == [work[w] EXCEPT !.dnow = now, !.valid = kind # "garbage"]
           conns == StoredIfValid(idle[Thread(w)], got.conn, got)
           r == [got EXCEPT !.conn = NoConn, !.reused = FALSE]
       IN  /\ edns => kind # "garbage" /\ ~r.bare
           /\ ednsstatus' = Learnt(r, kind, edns)
           /\ IF AsksBare(r, kind, edns)
              THEN Connect(w, [r EXCEPT !.bare = TRUE], conns) /\ FormErr(r.addr)
              ELSE /\ idle' = [idle EXCEPT ![Thread(w)] = conns]
                   /\ Judged(w, r, kind)
  /\ UNCHANGED <<now, throttle, fails, setup>>
----------------------------------------------------------------------------
(* What follows from it *)

\* s_fails.incr, and what the caller makes of its result.  A timeout that was shorter
\* than 80 percent of the usual one is not held against the server.
CountFailure(w) ==
  LET r == work[w]
  IN  /\ At(w, "failed")
      /\ fails' = Incremented(r.addr, r.dnow)
      /\ IF fails'[r.addr].value >= MaxFails
         THEN Continue(w, [r EXCEPT !.at = "punish", !.got = "down"])
         ELSE \/ Continue(w, [r EXCEPT !.at = "punish"])
              \/ r.got = "timeout" /\ Continue(w, NextAddr(r))
      /\ UNCHANGED <<now, throttle, ednsstatus, setup, idle, history>>

\* doThrottle, for the server as such when it is down, else for the question.
Punish(w) ==
  LET r == work[w]
      key == <<r.addr, IF r.got = "down" THEN Whole ELSE r.question>>
  IN  /\ At(w, "punish")
      /\ throttle' = Throttled(key, r.dnow, r.got)
      /\ Continue(w, NextAddr(r))
      /\ UNCHANGED <<now, fails, ednsstatus, setup, idle, history>>

\* "this server sent a valid answer, mark it backup up if it was down"
ClearFails(w) ==
  /\ At(w, "answered")
  /\ fails' = Forgiven(work[w].addr)
  /\ Continue(w, [work[w] EXCEPT !.at = "open"])
  /\ UNCHANGED <<now, throttle, ednsstatus, setup, idle, history>>

\* unThrottle, the first of its two locks.
OpenServer(w) ==
  /\ At(w, "open")
  /\ throttle' = Without(throttle, <<work[w].addr, Whole>>)
  /\ Continue(w, [work[w] EXCEPT !.at = "openQuestion"])
  /\ UNCHANGED <<now, fails, ednsstatus, setup, idle, history>>

\* And the second.  A truncated answer is tried again over TCP; an answer ends the
\* resolution, or its server was lame.
OpenQuestion(w) ==
  LET r == work[w]
      truncated == r.got = "truncated"
  IN  /\ At(w, "openQuestion")
      /\ throttle' = Without(throttle, <<r.addr, r.question>>)
      /\ \/ truncated /\ ~r.tcp /\ Continue(w, [r EXCEPT !.at = "ask", !.tcp = TRUE])
         \/ truncated /\ r.tcp /\ Continue(w, [r EXCEPT !.at = "punish"])
         \/ ~truncated /\ Continue(w, NoWork)
         \/ ~truncated /\ Continue(w, [r EXCEPT !.at = "punish", !.got = "lame"])
      /\ UNCHANGED <<now, fails, ednsstatus, setup, idle, history>>

----------------------------------------------------------------------------
(* Housekeeping *)

Prune ==
  /\ PruneThrottledServers \/ PruneFailedServers \/ PruneEDNSStatuses
  /\ UNCHANGED <<setup, idle, work, history>>

PruneIdle(th) ==
  /\ \A w \in Workers : Thread(w) = th => Waits(w)
  /\ idle' = [idle EXCEPT ![th] = Cleanup(@, now)]
  /\ UNCHANGED <<now, tables, setup, work, history>>

Tick ==
  /\ now < MaxNow
  /\ now' = now + 1
  /\ UNCHANGED <<tables, setup, idle, work, history>>

----------------------------------------------------------------------------
Refuses(w, a) == RefuseServer(w, a) \/ CheckQuestion(w, a)

Exchange(w) ==
  UdpFails(w) \/ UdpSpoofed(w) \/ UdpReply(w) \/ TcpFails(w) \/ TcpMismatch(w) \/ TcpReply(w)

Aftermath(w) ==
  CountFailure(w) \/ Punish(w) \/ ClearFails(w) \/ OpenServer(w) \/ OpenQuestion(w)

Next ==
  \/ \E w \in Workers :
       \/ \E q \in Questions : Start(w, q)
       \/ \E a \in Addrs : PassServer(w, a) \/ Refuses(w, a) \/ Ask(w, a)
       \/ Exchange(w) \/ Aftermath(w)
  \/ Prune \/ Tick
  \/ \E th \in Threads : PruneIdle(th)

Spec == Init /\ [][Next]_vars

----------------------------------------------------------------------------
(* Properties *)

Connections ==
  [addr : Addrs, queries : Nat, last : Times, open : BOOLEAN]

Resolutions ==
  [at : {"idle", "next", "question", "ask", "udp", "tcp", "failed", "punish",
         "answered", "open", "openQuestion"},
   question : Questions \cup {NoQuestion}, addr : Addrs \cup {NoAddr},
   left : SUBSET Addrs, sent : 0 .. setup.maxqperq,
   tcp : BOOLEAN, bare : BOOLEAN, chained : BOOLEAN, valid : BOOLEAN,
   conn : Connections \cup {NoConn}, reused : BOOLEAN,
   got : {"nothing"} \cup Offences \cup {"answer"}, dnow : Times]

\* The variables have their types.  A thread keeps no more idle connections than it may,
\* and no resolution has asked more often than its limit (checkMaxQperQ).
TypeOK ==
  /\ TablesTypeOK
  /\ setup \in Setups
  /\ \A th \in Threads :
       /\ idle[th] \in Seq(Connections)
       /\ Len(idle[th]) <= MaxIdlePerThread
  /\ work \in [Workers -> Resolutions]
  /\ row \in [Addrs -> 0 .. MaxFails] /\ formerr \in [Addrs -> Times \cup {-1}]

\* In a program with one thread a server is throttled as such only after MaxFails
\* failures of its own since its last valid answer.
DownDeserved ==
  (\A v, w \in Workers : Thread(v) = Thread(w)) =>
    \A a \in Addrs :
      <<a, Whole>> \in DOMAIN throttle =>
        \/ row[a] >= MaxFails
        \/ \E w \in Workers : work[w].addr = a /\ work[w].at \in {"answered", "open"}

\* A question is sent without EDNS only to a server that has lately answered EDNS
\* with FORMERR.
BareDeserved ==
  \A w \in Workers :
    work[w].at \in {"udp", "tcp"} /\ work[w].bare =>
      formerr[work[w].addr] >= 0 /\ work[w].dnow <= formerr[work[w].addr] + Expire

\* What is held against a server is deserved: being down (doThrottle's caller,
\* s_fails and unThrottle together) and being asked without EDNS (asyncresolveWrapper).
Deserved == DownDeserved /\ BareDeserved

\* A server that is refused again and again is asked again and again: an entry of
\* the throttle runs out, by its count or its time, whoever makes it longer.
RefusedThenAsked ==
  \A a \in Addrs :
    []<><<\E w \in Workers : Refuses(w, a) /\ work'[w].at # "ask">>_vars
      => []<><<\E w \in Workers : Ask(w, a)>>_vars

\* A connection kept as idle is open: "idle connections will be kept open"
\* (src/rec-tcpout.hh:33).
IdleOpen == \A th \in Threads : \A i \in DOMAIN idle[th] : idle[th][i].open
=============================================================================

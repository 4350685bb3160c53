-------------------------- MODULE ExchangesProofs --------------------------
(***************************************************************************)
(* What is held against a server is deserved, and every variable keeps its *)
(* type, for any servers, threads, traffic and bounds.                     *)
(*                                                                         *)
(* The proof first says what each action makes of the resolution that      *)
(* takes it and of the histories (the lemmas named ...Moves), and then     *)
(* goes through the two halves of the invariant, which need no more: that  *)
(* failures are counted and charged (Down), that a mode without EDNS comes *)
(* from a FORMERR (Bare).                                                  *)
(*                                                                         *)
(* The types come last: a limit on questions and one on idle connections,  *)
(* the latter by induction over what is cleaned up.                        *)
(***************************************************************************)
EXTENDS Exchanges, WellFoundedInduction, TLAPS

Fields == DOMAIN NoWork

\* A resolution knows its question and, once it has chosen one, a server.
Resolving(r) ==
  /\ DOMAIN r = Fields /\ r.dnow \in Nat
  /\ r.at # "idle" => r.question \in Questions
  /\ r.at \notin {"idle", "next"} => r.addr \in Addrs

\* As much of the types as the rest needs; the idle connections are not in it.
Shape ==
  /\ now \in Nat
  /\ DOMAIN work = Workers /\ \A w \in Workers : Resolving(work[w])
  /\ \A a \in DOMAIN fails : fails[a].value \in Nat
  /\ \A a \in DOMAIN ednsstatus : ednsstatus[a].ttd \in Int
  /\ row \in [Addrs -> 0 .. MaxFails]
  /\ formerr \in [Addrs -> Int] /\ \A a \in Addrs : formerr[a] <= now

OneThread == \A v, w \in Workers : Thread(v) = Thread(w)

\* One mthread at most is between two waits.
OneBusy == \A v, w \in Workers : Waits(v) \/ Waits(w) \/ v = w

\* s_fails holds no more against a server than has happened since it answered.
Counted ==
  \A a \in Addrs :
    \/ FailCount(a) <= row[a]
    \/ \E w \in Workers : work[w].addr = a /\ work[w].at = "answered"

\* What an mthread knows when it is about to hold something against its server: a
\* failure in its row that is not in s_fails yet, and after that a full row.
Charged(r) ==
  /\ r.at = "failed" =>
       r.got # "down" /\ (FailCount(r.addr) + 1 <= row[r.addr] \/ row[r.addr] = MaxFails)
  /\ r.at = "punish" /\ r.got = "down" => row[r.addr] = MaxFails

Down ==
  OneThread => OneBusy /\ Counted /\ (\A w \in Workers : Charged(work[w])) /\ DownDeserved

\* A mode without EDNS comes from a FORMERR and is remembered no longer than Expire.
BareKept ==
  \A a \in DOMAIN ednsstatus :
    ednsstatus[a].mode = "NOEDNS" =>
      a \in Addrs /\ formerr[a] >= 0 /\ ednsstatus[a].ttd <= formerr[a] + Expire

Bare == BareKept /\ BareDeserved

DInv == Shape /\ Down /\ Bare

----------------------------------------------------------------------------
(* Tables *)

LEMMA Fewest ==
  ASSUME NEW x \in Int, NEW y \in Int
  PROVE  Min({x, y}) \in {x, y} /\ Min({x, y}) <= x /\ Min({x, y}) <= y
<1>1. \E m \in {x, y} : \A z \in {x, y} : m <= z
  BY SMT
<1> QED
  BY <1>1 DEF Min

LEMMA WithoutIs ==
  ASSUME NEW table, NEW key
  PROVE  /\ DOMAIN Without(table, key) = DOMAIN table \ {key}
         /\ \A k \in DOMAIN table : k # key => Without(table, key)[k] = table[k]
  BY DEF Without, Restrict

LEMMA RestrictIs ==
  ASSUME NEW table, NEW S
  PROVE  DOMAIN Restrict(table, S) = S /\ \A k \in S : Restrict(table, S)[k] = table[k]
  BY DEF Restrict

\* A question that is refused or let through adds nothing to the throttle.
LEMMA AskedAddsNothing ==
  ASSUME NEW key, NEW t
  PROVE  DOMAIN Asked(key, t) \subseteq DOMAIN throttle
  BY WithoutIs DEF Asked

----------------------------------------------------------------------------
(* What an action makes of the resolution that takes it *)

LEMMA FieldsAre ==
  Fields = {"at", "question", "addr", "left", "sent", "tcp", "bare", "chained", "valid",
            "conn", "reused", "got", "dnow"}
  BY DEF Fields, NoWork

LEMMA Turns ==
  ASSUME Shape, NEW w \in Workers, NEW r, Continue(w, r)
  PROVE  DOMAIN work' = Workers /\ work'[w] = r /\ \A v \in Workers \ {w} : work'[v] = work[v]
  BY DEF Continue, Shape

LEMMA NextAddrIs ==
  ASSUME NEW r, DOMAIN r = Fields, r.dnow \in Nat, r.question \in Questions
  PROVE  Resolving(NextAddr(r)) /\ NextAddr(r).at \in {"idle", "next"}
<1>1. CASE r.left = {}
  BY <1>1 DEF NextAddr, Resolving, Fields, NoWork
<1>2. CASE r.left # {}
  BY <1>2, FieldsAre DEF NextAddr, Resolving
<1> QED
  BY <1>1, <1>2

\* With an address and a question, a resolution can be anywhere.
Placed(r) ==
  DOMAIN r = Fields /\ r.dnow \in Nat /\ r.question \in Questions /\ r.addr \in Addrs

LEMMA PlacedResolves ==
  ASSUME NEW r, Placed(r)
  PROVE  Resolving(r)
  BY DEF Placed, Resolving

LEMMA AtPlace ==
  ASSUME Shape, NEW w \in Workers,
         work[w].at \in {"question", "ask", "udp", "tcp", "failed", "punish", "answered",
                         "open", "openQuestion"}
  PROVE  Placed(work[w])
  BY DEF Shape, Resolving, Placed

LEMMA StartMoves ==
  ASSUME Shape, NEW w \in Workers, NEW q \in Questions, Start(w, q)
  PROVE  \E r : Continue(w, r) /\ Resolving(r) /\ r.at = "next"
<1> DEFINE r == [NoWork EXCEPT !.at = "next", !.question = q, !.left = setup.servers, !.dnow = now]
<1>1. DOMAIN r = Fields /\ r.at = "next" /\ r.question = q /\ r.dnow = now
  BY DEF Fields, NoWork
<1>2. Continue(w, r)
  BY DEF Start
<1> HIDE DEF r
<1> QED
  BY <1>1, <1>2 DEF Resolving, Shape

LEMMA RefusedMoves ==
  ASSUME NEW w, NEW r, DOMAIN r = Fields, r.dnow \in Nat, r.question \in Questions, Refused(w, r)
  PROVE  \E s : Continue(w, s) /\ Resolving(s) /\ s.at \in {"idle", "next"}
<1>1. DOMAIN Count(r) = Fields /\ Count(r).dnow = r.dnow /\ Count(r).question = r.question
  BY FieldsAre DEF Count
<1>2. Resolving(NoWork) /\ NoWork.at = "idle"
  BY DEF NoWork, Resolving, Fields
<1> QED
  BY <1>1, <1>2, NextAddrIs DEF Refused

LEMMA PassServerMoves ==
  ASSUME Shape, NEW w \in Workers, NEW a \in Addrs, PassServer(w, a)
  PROVE  \E r : Continue(w, r) /\ Resolving(r) /\ r.at = "question"
<1> DEFINE r == [work[w] EXCEPT !.at = "question", !.addr = a, !.left = @ \ {a}]
<1>1. Resolving(work[w]) /\ work[w].at = "next" /\ Continue(w, r)
  BY DEF Shape, PassServer, At
<1>2. DOMAIN r = Fields /\ r.at = "question" /\ r.addr = a /\ r.dnow = work[w].dnow
      /\ r.question = work[w].question
  BY <1>1, FieldsAre DEF Resolving
<1> HIDE DEF r
<1> QED
  BY <1>1, <1>2 DEF Resolving

LEMMA RefuseServerMoves ==
  ASSUME Shape, NEW w \in Workers, NEW a \in Addrs, RefuseServer(w, a)
  PROVE  \E r : Continue(w, r) /\ Resolving(r) /\ r.at \in {"idle", "next"}
<1> DEFINE r == [work[w] EXCEPT !.left = @ \ {a}]
<1>1. Resolving(work[w]) /\ work[w].at = "next" /\ Refused(w, r)
  BY DEF Shape, RefuseServer, At
<1>2. DOMAIN r = Fields /\ r.dnow = work[w].dnow /\ r.question = work[w].question
  BY <1>1, FieldsAre DEF Resolving
<1> HIDE DEF r
<1> QED
  BY <1>1, <1>2, RefusedMoves DEF Resolving

LEMMA CheckQuestionMoves ==
  ASSUME Shape, NEW w \in Workers, NEW a \in Addrs, CheckQuestion(w, a)
  PROVE  \E r : Continue(w, r) /\ Resolving(r) /\ r.at \in {"idle", "next", "ask"}
<1> DEFINE r == [work[w] EXCEPT !.at = "ask"]
<1>1. Placed(work[w]) /\ (Refused(w, work[w]) \/ Continue(w, r))
  BY AtPlace DEF CheckQuestion, At
<1>2. Placed(r) /\ r.at = "ask"
  BY <1>1, FieldsAre DEF Placed
<1> HIDE DEF r
<1> QED
  BY <1>1, <1>2, RefusedMoves, PlacedResolves DEF Placed

\* A connection is tried for the same question to the same server, or there is none.
LEMMA ConnectMoves ==
  ASSUME Shape, NEW w \in Workers, NEW r, NEW conns, Placed(r), Connect(w, r, conns)
  PROVE  \E s : /\ Continue(w, s) /\ Resolving(s)
                /\ \/ s.at \in {"idle", "next"}
                   \/ s.at = "tcp" /\ s.addr = r.addr /\ s.bare = r.bare /\ s.dnow = r.dnow
<1>1. ASSUME NEW conn, NEW reused, Continue(w, [r EXCEPT !.at = "tcp", !.conn = conn, !.reused = reused])
      PROVE  \E s : /\ Continue(w, s) /\ Resolving(s)
                    /\ s.at = "tcp" /\ s.addr = r.addr /\ s.bare = r.bare /\ s.dnow = r.dnow
  <2> DEFINE s == [r EXCEPT !.at = "tcp", !.conn = conn, !.reused = reused]
  <2>1. Placed(s) /\ s.at = "tcp" /\ s.addr = r.addr /\ s.bare = r.bare /\ s.dnow = r.dnow
    BY FieldsAre DEF Placed
  <2>2. Continue(w, s)
    BY <1>1
  <2> HIDE DEF s
  <2> QED
    BY <2>1, <2>2, PlacedResolves
<1>2. ASSUME Continue(w, NextAddr([r EXCEPT !.dnow = now]))
      PROVE  \E s : Continue(w, s) /\ Resolving(s) /\ s.at \in {"idle", "next"}
  <2> DEFINE s == [r EXCEPT !.dnow = now]
  <2>1. DOMAIN s = Fields /\ s.dnow \in Nat /\ s.question \in Questions
    BY FieldsAre DEF Placed, Shape
  <2>2. Continue(w, NextAddr(s))
    BY <1>2
  <2> HIDE DEF s
  <2> QED
    BY <2>1, <2>2, NextAddrIs
<1>3. \/ \E conn, reused : Continue(w, [r EXCEPT !.at = "tcp", !.conn = conn, !.reused = reused])
      \/ Continue(w, NextAddr([r EXCEPT !.dnow = now]))
  BY DEF Connect
<1> QED
  BY <1>1, <1>2, <1>3

LEMMA AskMoves ==
  ASSUME Shape, NEW w \in Workers, NEW a \in Addrs, Ask(w, a)
  PROVE  \E s : /\ Continue(w, s) /\ Resolving(s)
                /\ \/ s.at \in {"idle", "next"}
                   \/ /\ s.at \in {"udp", "tcp"} /\ s.addr = a /\ s.dnow = work[w].dnow
                      /\ s.bare = (Mode(a, work[w].dnow) = "NOEDNS")
<1> DEFINE r == Count(work[w])
           asked == [r EXCEPT !.at = "udp", !.bare = Mode(a, r.dnow) = "NOEDNS", !.chained = FALSE]
<1>1. Placed(work[w]) /\ work[w].addr = a
  BY AtPlace DEF Ask, At, Count
<1>2. DOMAIN r = Fields /\ r.dnow = work[w].dnow /\ r.question = work[w].question /\ r.addr = a
  BY <1>1, FieldsAre DEF Count, Placed
<1>3. \/ Continue(w, NoWork)
      \/ Connect(w, asked, idle[Thread(w)])
      \/ Continue(w, asked)
  BY DEF Ask
<1> HIDE DEF r
<1>4. Placed(asked) /\ asked.at = "udp" /\ asked.addr = a /\ asked.dnow = work[w].dnow
      /\ asked.bare = (Mode(a, work[w].dnow) = "NOEDNS")
  BY <1>1, <1>2, FieldsAre DEF Placed
<1>5. Resolving(NoWork) /\ NoWork.at = "idle"
  BY DEF NoWork, Resolving, Fields
<1> HIDE DEF asked
<1> QED
  BY <1>3, <1>4, <1>5, ConnectMoves, PlacedResolves
----------------------------------------------------------------------------
(* What the end of an exchange makes of it and of the histories *)

OneMore(a) == [row EXCEPT ![a] = Min({@ + 1, MaxFails})]

\* How an exchange that failed for good leaves things.
GivesUp(w, a) ==
  \E s : /\ Continue(w, s) /\ Resolving(s) /\ formerr' = formerr
        /\ \/ s.at \in {"idle", "next"} /\ row' = row
           \/ s.at = "failed" /\ s.addr = a /\ s.got # "down" /\ row' = OneMore(a)

LEMMA FailedMoves ==
  ASSUME NEW w, NEW r, NEW got, NEW genuine \in BOOLEAN, Placed(r), got # "down",
         Failed(w, r, got, genuine)
  PROVE  GivesUp(w, r.addr)
<1>1. CASE genuine
  <2> DEFINE s == [r EXCEPT !.at = "failed", !.got = got]
  <2>1. Continue(w, s) /\ row' = OneMore(r.addr) /\ formerr' = formerr
    BY <1>1 DEF Failed, OneMore
  <2>2. Placed(s) /\ s.at = "failed" /\ s.addr = r.addr /\ s.got = got
    BY FieldsAre DEF Placed
  <2> HIDE DEF s
  <2> QED
    BY <2>1, <2>2, PlacedResolves DEF GivesUp
<1>2. CASE ~genuine
  <2>1. Continue(w, NextAddr(r)) /\ row' = row /\ formerr' = formerr
    BY <1>2 DEF Failed
  <2> QED
    BY <2>1, NextAddrIs DEF Placed, GivesUp
<1> QED
  BY <1>1, <1>2

LEMMA UdpFailsMoves ==
  ASSUME Shape, NEW w \in Workers, UdpFails(w)
  PROVE  GivesUp(w, work[w].addr)
<1>1. Placed(work[w])
  BY AtPlace DEF UdpFails, At
<1>2. PICK got \in {"timeout", "error", "limit"}, dnow \in {now, work[w].dnow}, genuine \in BOOLEAN :
        Failed(w, [work[w] EXCEPT !.dnow = dnow], got, genuine)
  BY DEF UdpFails
<1> DEFINE r == [work[w] EXCEPT !.dnow = dnow]
<1>3. dnow \in Nat
  BY <1>1, <1>2 DEF Placed, Shape
<1>4. Placed(r) /\ r.addr = work[w].addr
  BY <1>1, <1>3, FieldsAre DEF Placed
<1>5. Failed(w, r, got, genuine)
  BY <1>2
<1> HIDE DEF r
<1> QED
  BY <1>2, <1>4, <1>5, FailedMoves

LEMMA UdpSpoofedMoves ==
  ASSUME Shape, NEW w \in Workers, UdpSpoofed(w)
  PROVE  \E s : Continue(w, s) /\ Resolving(s) /\ s.at = "ask"
<1> DEFINE s == [work[w] EXCEPT !.at = "ask", !.tcp = TRUE, !.dnow = now]
<1>1. Placed(work[w]) /\ Continue(w, s)
  BY AtPlace DEF UdpSpoofed, At
<1>2. Placed(s) /\ s.at = "ask"
  BY <1>1, FieldsAre DEF Placed, Shape
<1> HIDE DEF s
<1> QED
  BY <1>1, <1>2, PlacedResolves

\* A connection that was idle is replaced, with the same question: or it has failed.
LEMMA TcpFailsMoves ==
  ASSUME Shape, NEW w \in Workers, TcpFails(w)
  PROVE  \/ GivesUp(w, work[w].addr)
         \/ \E s : /\ Continue(w, s) /\ Resolving(s) /\ UNCHANGED history
                   /\ \/ s.at \in {"idle", "next"}
                      \/ s.at = "tcp" /\ s.addr = work[w].addr /\ s.bare = work[w].bare
                         /\ s.dnow = work[w].dnow
<1>1. Placed(work[w])
  BY AtPlace DEF TcpFails, At
<1> DEFINE r == [work[w] EXCEPT !.dnow = now]
           gone == [r EXCEPT !.conn = NoConn]
<1>2. \/ Connect(w, work[w], idle[Thread(w)]) /\ UNCHANGED history
      \/ \E got \in {"timeout", "error"} : Failed(w, gone, got, TRUE)
  BY DEF TcpFails
<1>3. Placed(gone) /\ gone.addr = work[w].addr
  BY <1>1, FieldsAre DEF Placed, Shape
<1> HIDE DEF gone
<1>4. CASE Connect(w, work[w], idle[Thread(w)]) /\ UNCHANGED history
  BY <1>1, <1>4, ConnectMoves
<1>5. ASSUME NEW got \in {"timeout", "error"}, Failed(w, gone, got, TRUE)
      PROVE  GivesUp(w, work[w].addr)
  <2>1. got # "down" /\ TRUE \in BOOLEAN
    OBVIOUS
  <2>2. GivesUp(w, gone.addr)
    BY <1>3, <1>5, <2>1, FailedMoves
  <2> QED
    BY <1>3, <2>2
<1> QED
  BY <1>2, <1>4, <1>5

LEMMA TcpMismatchMoves ==
  ASSUME Shape, NEW w \in Workers, TcpMismatch(w)
  PROVE  GivesUp(w, work[w].addr)
<1>1. Placed(work[w])
  BY AtPlace DEF TcpMismatch, At
<1> DEFINE r == [work[w] EXCEPT !.dnow = now]
           gone == [r EXCEPT !.conn = NoConn, !.reused = FALSE]
<1>2. Failed(w, gone, "error", TRUE)
  BY DEF TcpMismatch
<1>3. Placed(gone) /\ gone.addr = work[w].addr
  BY <1>1, FieldsAre DEF Placed, Shape
<1> HIDE DEF gone
<1> QED
  BY <1>2, <1>3, FailedMoves

\* A packet that is no reason to ask without EDNS.
Answers(w, a) ==
  \E s : /\ Continue(w, s) /\ Resolving(s) /\ formerr' = formerr
        /\ \/ s.at = "answered" /\ s.addr = a /\ row' = [row EXCEPT ![a] = 0]
           \/ /\ s.at \in {"idle", "next", "punish"} /\ row' = row
              /\ s.at = "punish" => s.got # "down"

LEMMA JudgedMoves ==
  ASSUME NEW w, NEW r, NEW kind \in Replies, Placed(r), Judged(w, r, kind)
  PROVE  Answers(w, r.addr)
<1>1. CASE kind \in {"answer", "truncated"}
  <2> DEFINE s == [r EXCEPT !.at = "answered", !.got = kind]
  <2>1. Continue(w, s) /\ row' = [row EXCEPT ![r.addr] = 0] /\ formerr' = formerr
    BY <1>1 DEF Judged
  <2>2. Placed(s) /\ s.at = "answered" /\ s.addr = r.addr
    BY FieldsAre DEF Placed
  <2> HIDE DEF s
  <2> QED
    BY <2>1, <2>2, PlacedResolves DEF Answers
<1>2. CASE kind \notin {"answer", "truncated"}
  <2>1. PICK offence \in {"rcode", "garbage", "garbageTCP"} :
          /\ Continue(w, NextAddr(r)) \/ Continue(w, [r EXCEPT !.at = "punish", !.got = offence])
          /\ UNCHANGED history
    BY <1>2 DEF Judged
  <2> DEFINE s == [r EXCEPT !.at = "punish", !.got = offence]
  <2>2. Placed(s) /\ s.at = "punish" /\ s.got = offence
    BY FieldsAre DEF Placed
  <2>3. Resolving(NextAddr(r)) /\ NextAddr(r).at \in {"idle", "next"}
    BY NextAddrIs DEF Placed
  <2>4. Continue(w, NextAddr(r)) \/ Continue(w, s)
    BY <2>1
  <2> HIDE DEF s
  <2> QED
    BY <2>1, <2>2, <2>3, <2>4, PlacedResolves DEF Answers, history
<1> QED
  BY <1>1, <1>2

\* A FORMERR to a question with EDNS: it is asked again without.
AsksAgainBare(w, a) ==
  /\ \E s : /\ Continue(w, s) /\ Resolving(s)
           /\ \/ s.at \in {"idle", "next"}
              \/ s.at \in {"udp", "tcp"} /\ s.addr = a /\ s.dnow = now
  /\ ednsstatus' = ModeSet(a, "NOEDNS", now)
  /\ FormErr(a)

Replied(w, a) ==
  \/ AsksAgainBare(w, a)
  \/ /\ Answers(w, a)
     /\ \/ ednsstatus' \in {ednsstatus, Without(ednsstatus, a)}
        \/ ednsstatus' = ModeSet(a, "EDNSIGNORANT", now)

LEMMA LearntIs ==
  ASSUME NEW r, NEW kind, NEW edns
  PROVE  \/ AsksBare(r, kind, edns) /\ Learnt(r, kind, edns) = ModeSet(r.addr, "NOEDNS", now)
         \/ /\ ~AsksBare(r, kind, edns)
            /\ \/ Learnt(r, kind, edns) \in {ednsstatus, Without(ednsstatus, r.addr)}
               \/ Learnt(r, kind, edns) = ModeSet(r.addr, "EDNSIGNORANT", now)
<1>1. CASE r.bare
  BY <1>1 DEF AsksBare, Learnt
<1>2. CASE ~r.bare /\ edns
  BY <1>2 DEF AsksBare, Learnt
<1>3. CASE ~r.bare /\ ~edns /\ kind = "formerr"
  BY <1>3 DEF AsksBare, Learnt
<1>4. CASE ~r.bare /\ ~edns /\ kind # "formerr"
  BY <1>4 DEF AsksBare, Learnt
<1> QED
  BY <1>1, <1>2, <1>3, <1>4

LEMMA UdpReplyMoves ==
  ASSUME Shape, NEW w \in Workers, UdpReply(w)
  PROVE  Replied(w, work[w].addr)
<1>1. Placed(work[w]) /\ work[w].at = "udp"
  BY AtPlace DEF UdpReply, At
<1>2. PICK kind \in Replies, edns \in Possible("EDNS"), chained \in MayBeChained(w) :
        LET r == [work[w] EXCEPT !.dnow = now, !.valid = kind # "garbage", !.chained = chained]
        IN  /\ ednsstatus' = Learnt(r, kind, edns)
            /\ IF AsksBare(r, kind, edns)
               THEN Continue(w, [r EXCEPT !.bare = TRUE]) /\ FormErr(r.addr)
               ELSE Judged(w, r, kind)
  BY DEF UdpReply
<1> DEFINE r == [work[w] EXCEPT !.dnow = now, !.valid = kind # "garbage", !.chained = chained]
           s == [r EXCEPT !.bare = TRUE]
<1>3. Placed(r) /\ r.addr = work[w].addr /\ r.dnow = now /\ r.at = "udp"
  BY <1>1, FieldsAre DEF Placed, Shape
<1>4. ednsstatus' = Learnt(r, kind, edns)
      /\ \/ AsksBare(r, kind, edns) /\ Continue(w, s) /\ FormErr(r.addr)
         \/ ~AsksBare(r, kind, edns) /\ Judged(w, r, kind)
  BY <1>2
<1> HIDE DEF r
<1>5. Placed(s) /\ s.at = "udp" /\ s.addr = work[w].addr /\ s.dnow = now
  BY <1>3, FieldsAre DEF Placed
<1> HIDE DEF s
<1>6. CASE AsksBare(r, kind, edns)
  <2>1. Continue(w, s) /\ FormErr(r.addr) /\ ednsstatus' = ModeSet(r.addr, "NOEDNS", now)
    BY <1>4, <1>6, LearntIs
  <2> QED
    BY <1>3, <1>5, <2>1, PlacedResolves DEF Replied, AsksAgainBare
<1>7. CASE ~AsksBare(r, kind, edns)
  <2>1. Answers(w, work[w].addr)
    BY <1>3, <1>4, <1>7, JudgedMoves
  <2>2. \/ ednsstatus' \in {ednsstatus, Without(ednsstatus, work[w].addr)}
        \/ ednsstatus' = ModeSet(work[w].addr, "EDNSIGNORANT", now)
    BY <1>3, <1>4, <1>7, LearntIs
  <2> QED
    BY <2>1, <2>2 DEF Replied
<1> QED
  BY <1>6, <1>7

LEMMA TcpReplyMoves ==
  ASSUME Shape, NEW w \in Workers, TcpReply(w)
  PROVE  Replied(w, work[w].addr)
<1>1. Placed(work[w])
  BY AtPlace DEF TcpReply, At
<1>0. PICK kind \in Replies, edns \in Possible("EDNS") :
        LET got == [work[w] EXCEPT !.dnow = now, !.valid = kind # "garbage"]
            r == [got EXCEPT !.conn = NoConn, !.reused = FALSE]
        IN  /\ ednsstatus' = Learnt(r, kind, edns)
            /\ IF AsksBare(r, kind, edns)
               THEN /\ \E conns : Connect(w, [r EXCEPT !.bare = TRUE], conns)
                    /\ FormErr(r.addr)
               ELSE Judged(w, r, kind)
  BY DEF TcpReply
<1>2. PICK conns :
        LET got == [work[w] EXCEPT !.dnow = now, !.valid = kind # "garbage"]
            r == [got EXCEPT !.conn = NoConn, !.reused = FALSE]
        IN  /\ ednsstatus' = Learnt(r, kind, edns)
            /\ IF AsksBare(r, kind, edns)
               THEN Connect(w, [r EXCEPT !.bare = TRUE], conns) /\ FormErr(r.addr)
               ELSE Judged(w, r, kind)
  BY <1>0
<1> DEFINE got == [work[w] EXCEPT !.dnow = now, !.valid = kind # "garbage"]
           r == [got EXCEPT !.conn = NoConn, !.reused = FALSE]
           s == [r EXCEPT !.bare = TRUE]
<1>3. Placed(r) /\ r.addr = work[w].addr /\ r.dnow = now
  BY <1>1, FieldsAre DEF Placed, Shape
<1>4. ednsstatus' = Learnt(r, kind, edns)
      /\ \/ AsksBare(r, kind, edns) /\ Connect(w, s, conns) /\ FormErr(r.addr)
         \/ ~AsksBare(r, kind, edns) /\ Judged(w, r, kind)
  BY <1>2
<1> HIDE DEF r
<1>5. Placed(s) /\ s.addr = work[w].addr /\ s.dnow = now
  BY <1>3, FieldsAre DEF Placed
<1> HIDE DEF s
<1>6. CASE AsksBare(r, kind, edns)
  <2>1. Connect(w, s, conns) /\ FormErr(r.addr) /\ ednsstatus' = ModeSet(r.addr, "NOEDNS", now)
    BY <1>4, <1>6, LearntIs
  <2>2. PICK u : /\ Continue(w, u) /\ Resolving(u)
                 /\ u.at \in {"idle", "next"} \/ (u.at = "tcp" /\ u.addr = s.addr /\ u.dnow = s.dnow)
    BY <1>5, <2>1, ConnectMoves
  <2> QED
    BY <1>3, <1>5, <2>1, <2>2 DEF Replied, AsksAgainBare
<1>7. CASE ~AsksBare(r, kind, edns)
  <2>1. Answers(w, work[w].addr)
    BY <1>3, <1>4, <1>7, JudgedMoves
  <2>2. \/ ednsstatus' \in {ednsstatus, Without(ednsstatus, work[w].addr)}
        \/ ednsstatus' = ModeSet(work[w].addr, "EDNSIGNORANT", now)
    BY <1>3, <1>4, <1>7, LearntIs
  <2> QED
    BY <2>1, <2>2 DEF Replied
<1> QED
  BY <1>6, <1>7

----------------------------------------------------------------------------
(* What follows from it *)

\* A failure goes into s_fails; the server is down once its row there is full.
LEMMA CountFailureMoves ==
  ASSUME Shape, NEW w \in Workers, CountFailure(w)
  PROVE  LET r == work[w]
         IN  /\ Placed(r) /\ fails' = Incremented(r.addr, r.dnow)
             /\ \E s : /\ Continue(w, s) /\ Resolving(s)
                      /\ \/ s.at \in {"idle", "next"}
                         \/ /\ s.at = "punish" /\ s.addr = r.addr
                            /\ s.got = "down" => \/ r.got = "down"
                                                 \/ fails'[r.addr].value >= MaxFails
<1> DEFINE r == work[w]
           down == [r EXCEPT !.at = "punish", !.got = "down"]
           other == [r EXCEPT !.at = "punish"]
<1>1. Placed(r)
  BY AtPlace DEF CountFailure, At
<1>2. /\ fails' = Incremented(r.addr, r.dnow)
      /\ \/ fails'[r.addr].value >= MaxFails /\ Continue(w, down)
         \/ Continue(w, other)
         \/ Continue(w, NextAddr(r))
  BY DEF CountFailure
<1>3. Placed(down) /\ down.at = "punish" /\ down.addr = r.addr
  BY <1>1, FieldsAre DEF Placed
<1>4. Placed(other) /\ other.at = "punish" /\ other.addr = r.addr /\ other.got = r.got
  BY <1>1, FieldsAre DEF Placed
<1>5. Resolving(NextAddr(r)) /\ NextAddr(r).at \in {"idle", "next"}
  BY <1>1, NextAddrIs DEF Placed
<1> HIDE DEF down, other, r
<1>6. CASE fails'[r.addr].value >= MaxFails /\ Continue(w, down)
  BY <1>1, <1>2, <1>3, <1>6, PlacedResolves DEF r
<1>7. CASE Continue(w, other)
  BY <1>1, <1>2, <1>4, <1>7, PlacedResolves DEF r
<1>8. CASE Continue(w, NextAddr(r))
  BY <1>1, <1>2, <1>5, <1>8 DEF r
<1> QED
  BY <1>2, <1>6, <1>7, <1>8

LEMMA PunishMoves ==
  ASSUME Shape, NEW w \in Workers, Punish(w)
  PROVE  LET r == work[w]
             key == <<r.addr, IF r.got = "down" THEN Whole ELSE r.question>>
         IN  /\ Placed(r) /\ throttle' = Throttled(key, r.dnow, r.got)
             /\ \E s : Continue(w, s) /\ Resolving(s) /\ s.at \in {"idle", "next"}
<1>1. Placed(work[w])
  BY AtPlace DEF Punish, At
<1>2. Resolving(NextAddr(work[w])) /\ NextAddr(work[w]).at \in {"idle", "next"}
  BY <1>1, NextAddrIs DEF Placed
<1> QED
  BY <1>1, <1>2 DEF Punish

LEMMA ClearFailsMoves ==
  ASSUME Shape, NEW w \in Workers, ClearFails(w)
  PROVE  Placed(work[w]) /\ \E s : Continue(w, s) /\ Resolving(s) /\ s.at = "open" /\ s.addr = work[w].addr
<1> DEFINE s == [work[w] EXCEPT !.at = "open"]
<1>1. Placed(work[w]) /\ Continue(w, s)
  BY AtPlace DEF ClearFails, At
<1>2. Placed(s) /\ s.at = "open" /\ s.addr = work[w].addr
  BY <1>1, FieldsAre DEF Placed
<1> HIDE DEF s
<1> QED
  BY <1>1, <1>2, PlacedResolves

LEMMA OpenServerMoves ==
  ASSUME Shape, NEW w \in Workers, OpenServer(w)
  PROVE  Placed(work[w]) /\ \E s : Continue(w, s) /\ Resolving(s) /\ s.at = "openQuestion"
<1> DEFINE s == [work[w] EXCEPT !.at = "openQuestion"]
<1>1. Placed(work[w]) /\ Continue(w, s)
  BY AtPlace DEF OpenServer, At
<1>2. Placed(s) /\ s.at = "openQuestion"
  BY <1>1, FieldsAre DEF Placed
<1> HIDE DEF s
<1> QED
  BY <1>1, <1>2, PlacedResolves

LEMMA OpenQuestionMoves ==
  ASSUME Shape, NEW w \in Workers, OpenQuestion(w)
  PROVE  \E s : /\ Continue(w, s) /\ Resolving(s) /\ s.at \in {"idle", "ask", "punish"}
                /\ s.at = "punish" => s.got # "down"
<1> DEFINE r == work[w]
           again == [r EXCEPT !.at = "ask", !.tcp = TRUE]
           cut == [r EXCEPT !.at = "punish"]
           lame == [r EXCEPT !.at = "punish", !.got = "lame"]
<1>1. Placed(r)
  BY AtPlace DEF OpenQuestion, At
<1>2. \/ Continue(w, again)
      \/ r.got = "truncated" /\ Continue(w, cut)
      \/ Continue(w, NoWork)
      \/ Continue(w, lame)
  BY DEF OpenQuestion
<1>3. Placed(again) /\ again.at = "ask"
  BY <1>1, FieldsAre DEF Placed
<1>4. Placed(cut) /\ cut.at = "punish" /\ cut.got = r.got
  BY <1>1, FieldsAre DEF Placed
<1>5. Placed(lame) /\ lame.at = "punish" /\ lame.got = "lame"
  BY <1>1, FieldsAre DEF Placed
<1>6. Resolving(NoWork) /\ NoWork.at = "idle"
  BY DEF NoWork, Resolving, Fields
<1> HIDE DEF r, again, cut, lame
<1>7. CASE Continue(w, again)
  BY <1>3, <1>7, PlacedResolves
<1>8. CASE r.got = "truncated" /\ Continue(w, cut)
  BY <1>4, <1>8, PlacedResolves
<1>9. CASE Continue(w, NoWork)
  BY <1>6, <1>9
<1>10. CASE Continue(w, lame)
  BY <1>5, <1>10, PlacedResolves
<1> QED
  BY <1>2, <1>7, <1>8, <1>9, <1>10
----------------------------------------------------------------------------
(* The shape *)

LEMMA ResolutionsStay ==
  ASSUME Shape, NEW w \in Workers, NEW r, Continue(w, r), Resolving(r)
  PROVE  DOMAIN work' = Workers /\ \A v \in Workers : Resolving(work'[v])
<1>1. /\ DOMAIN work' = Workers /\ work'[w] = r
      /\ \A v \in Workers \ {w} : work'[v] = work[v]
  BY Turns
<1> QED
  BY <1>1 DEF Shape

FailsTyped == \A a \in DOMAIN fails : fails[a].value \in Nat
EdnsTyped == \A a \in DOMAIN ednsstatus : ednsstatus[a].ttd \in Int
HistoryTyped ==
  row \in [Addrs -> 0 .. MaxFails]
  /\ formerr \in [Addrs -> Int] /\ \A a \in Addrs : formerr[a] <= now

LEMMA ShapeIs ==
  Shape <=> /\ now \in Nat /\ DOMAIN work = Workers /\ \A w \in Workers : Resolving(work[w])
            /\ FailsTyped /\ EdnsTyped /\ HistoryTyped
  BY DEF Shape, FailsTyped, EdnsTyped, HistoryTyped

LEMMA ShapeStays ==
  ASSUME Shape, NEW w \in Workers, NEW r, Continue(w, r), Resolving(r), now' = now,
         FailsTyped', EdnsTyped', HistoryTyped'
  PROVE  Shape'
<1>1. DOMAIN work' = Workers /\ \A v \in Workers : Resolving(work'[v])
  BY ResolutionsStay
<1>2. now' \in Nat
  BY DEF Shape
<1> QED
  BY <1>1, <1>2 DEF Shape, FailsTyped, EdnsTyped, HistoryTyped

LEMMA Untouched ==
  ASSUME Shape
  PROVE  /\ UNCHANGED fails => FailsTyped'
         /\ UNCHANGED ednsstatus => EdnsTyped'
         /\ UNCHANGED <<now, history>> => HistoryTyped'
  BY DEF Shape, FailsTyped, EdnsTyped, HistoryTyped, history

LEMMA FailCountIs ==
  ASSUME FailsTyped, NEW a
  PROVE  FailCount(a) \in Nat
  BY DEF FailsTyped, FailCount

LEMMA IncrementedIs ==
  ASSUME FailsTyped, NEW a, NEW t, fails' = Incremented(a, t)
  PROVE  /\ FailsTyped'
         /\ a \in DOMAIN fails' /\ fails'[a].value = Min({FailCount(a) + 1, MaxFails})
         /\ FailCount(a)' = fails'[a].value
         /\ \A b \in Addrs : b # a => FailCount(b)' = FailCount(b)
<1> DEFINE entry == [value |-> Min({FailCount(a) + 1, MaxFails}), last |-> t]
<1>1. FailCount(a) \in Nat /\ MaxFails \in Nat
  BY FailCountIs, ServersAssumption
<1>2. Min({FailCount(a) + 1, MaxFails}) \in Nat
  BY <1>1, Fewest
<1>3. fails' = With(fails, a, entry) /\ entry.value = Min({FailCount(a) + 1, MaxFails})
  BY DEF Incremented
<1> HIDE DEF entry
<1>4. /\ DOMAIN fails' = DOMAIN fails \cup {a} /\ fails'[a] = entry
      /\ \A b \in DOMAIN fails : b # a => fails'[b] = fails[b]
  BY <1>3 DEF With
<1>5. FailsTyped'
  BY <1>2, <1>3, <1>4 DEF FailsTyped
<1>6. FailCount(a)' = fails'[a].value
  BY <1>4 DEF FailCount
<1>7. \A b \in Addrs : b # a => FailCount(b)' = FailCount(b)
  BY <1>4 DEF FailCount
<1> QED
  BY <1>3, <1>4, <1>5, <1>6, <1>7

\* Entries of s_fails that disappear take their failures with them.
LEMMA FewerFails ==
  ASSUME FailsTyped, NEW S, DOMAIN fails' = S, S \subseteq DOMAIN fails,
         \A a \in S : fails'[a] = fails[a]
  PROVE  FailsTyped' /\ \A a \in Addrs : FailCount(a)' \in {0, FailCount(a)}
  BY DEF FailsTyped, FailCount

LEMMA MoreRow ==
  ASSUME Shape, NEW a \in Addrs, row' = OneMore(a), formerr' = formerr, now' = now
  PROVE  HistoryTyped' /\ row'[a] = Min({row[a] + 1, MaxFails})
         /\ \A b \in Addrs : b # a => row'[b] = row[b]
<1>1. row[a] \in 0 .. MaxFails /\ MaxFails \in Nat
  BY ServersAssumption DEF Shape
<1>2. Min({row[a] + 1, MaxFails}) \in 0 .. MaxFails
  <2>1. row[a] + 1 \in Nat /\ MaxFails \in Int /\ row[a] + 1 \in Int
    BY <1>1
  <2>2. /\ Min({row[a] + 1, MaxFails}) \in {row[a] + 1, MaxFails}
        /\ Min({row[a] + 1, MaxFails}) <= MaxFails
    BY <2>1, Fewest
  <2> QED
    BY <1>1, <2>1, <2>2
<1>3. row' = [row EXCEPT ![a] = Min({row[a] + 1, MaxFails})]
  BY DEF OneMore
<1> HIDE DEF OneMore
<1> QED
  BY <1>2, <1>3 DEF Shape, HistoryTyped

----------------------------------------------------------------------------
(* Failures *)

\* In a program of one thread, whoever runs is the only one between two waits.
LEMMA BusyAlone ==
  ASSUME Shape, OneThread, NEW w \in Workers, NEW place, At(w, place), NEW r, Continue(w, r),
         UNCHANGED setup
  PROVE  /\ OneBusy' /\ OneThread'
         /\ work[w].at = place /\ work'[w] = r
         /\ \A v \in Workers \ {w} : work'[v] = work[v] /\ work[v].at \in {"idle", "udp", "tcp"}
<1>1. work'[w] = r /\ \A v \in Workers \ {w} : work'[v] = work[v]
  BY Turns
<1>2. \A v \in Workers \ {w} : work[v].at \in {"idle", "udp", "tcp"}
  BY DEF OneThread, At, Waits
<1>3. OneThread'
  BY DEF OneThread, Thread
<1>4. \A v \in Workers \ {w} : Waits(v)'
  BY <1>1, <1>2 DEF Waits
<1>5. OneBusy'
  BY <1>4 DEF OneBusy
<1> QED
  BY <1>1, <1>2, <1>3, <1>5 DEF At

\* Places at which nothing is held against the server yet.
Harmless(r) ==
  /\ r.at \in {"idle", "next", "question", "ask", "udp", "tcp", "openQuestion", "punish"}
  /\ r.at = "punish" => r.got # "down"

NoMoreDown ==
  \A a \in Addrs : <<a, Whole>> \in DOMAIN throttle' => <<a, Whole>> \in DOMAIN throttle

\* A step that neither counts nor charges anything.
LEMMA HarmlessStep ==
  ASSUME Shape, Down, NEW w \in Workers, NEW place, At(w, place), place \notin {"answered", "open"},
         NEW r, Continue(w, r), Harmless(r), UNCHANGED <<setup, row>>,
         \A a \in Addrs : FailCount(a)' = FailCount(a),
         NoMoreDown
  PROVE  Down'
<1> SUFFICES ASSUME OneThread' PROVE (OneBusy /\ Counted /\ (\A v \in Workers : Charged(work[v])) /\ DownDeserved)'
  BY DEF Down
<1>1. OneThread
  BY DEF OneThread, Thread
<1>2. /\ OneBusy' /\ work[w].at = place /\ work'[w] = r
      /\ \A v \in Workers \ {w} : work'[v] = work[v] /\ work[v].at \in {"idle", "udp", "tcp"}
  BY <1>1, BusyAlone
<1>3. \A v \in Workers : Charged(work[v])'
  BY <1>2 DEF Charged, Harmless
<1>4. \A a \in Addrs : FailCount(a) <= row[a]
  BY <1>1, <1>2 DEF Down, Counted
<1>5. Counted'
  BY <1>4 DEF Counted
<1>6. \A a \in Addrs : <<a, Whole>> \in DOMAIN throttle => row[a] >= MaxFails
  BY <1>1, <1>2 DEF Down, DownDeserved, OneThread
<1>7. DownDeserved'
  BY <1>6 DEF DownDeserved, NoMoreDown
<1> QED
  BY <1>2, <1>3, <1>5, <1>7

\* A step of no resolution: tables may only lose entries.
LEMMA IdleStep ==
  ASSUME Shape, Down, UNCHANGED <<work, setup, row>>, NoMoreDown,
         \A a \in Addrs : FailCount(a)' \in {0, FailCount(a)}
  PROVE  Down'
<1> SUFFICES ASSUME OneThread' PROVE (OneBusy /\ Counted /\ (\A v \in Workers : Charged(work[v])) /\ DownDeserved)'
  BY DEF Down
<1>1. OneThread /\ OneBusy /\ Counted /\ (\A v \in Workers : Charged(work[v])) /\ DownDeserved
  BY DEF OneThread, Thread, Down
<1>2. OneBusy'
  BY <1>1 DEF OneBusy, Waits
<1>3. \A a \in Addrs : FailCount(a)' <= FailCount(a) /\ FailCount(a)' \in Nat /\ FailCount(a) \in Nat
                       /\ row[a] \in 0 .. MaxFails
  BY FailCountIs, ShapeIs DEF Shape
<1>4. Counted'
  BY <1>1, <1>3 DEF Counted
<1>5. ASSUME NEW v \in Workers PROVE Charged(work[v])'
  <2>1. Charged(work[v]) /\ (work[v].at = "failed" => work[v].addr \in Addrs)
    BY <1>1 DEF Shape, Resolving
  <2> QED
    BY <1>3, <2>1 DEF Charged
<1>6. DownDeserved'
  BY <1>1 DEF DownDeserved, NoMoreDown, OneThread
<1> QED
  BY <1>2, <1>4, <1>5, <1>6

\* What holds, whatever the resolutions do, when one of them leaves a wait.
LEMMA BusyAfterWait ==
  ASSUME Shape, Down, OneThread, NEW w \in Workers, NEW place \in {"udp", "tcp"}, At(w, place)
  PROVE  /\ \A a \in Addrs : FailCount(a) <= row[a]
         /\ \A a \in Addrs : <<a, Whole>> \in DOMAIN throttle => row[a] >= MaxFails
<1>1. \A v \in Workers : work[v].at \in {"idle", "udp", "tcp"}
  BY DEF OneThread, At, Waits
<1> QED
  BY <1>1 DEF Down, Counted, DownDeserved, OneThread

LEMMA GivesUpDown ==
  ASSUME Shape, Down, NEW w \in Workers, NEW place \in {"udp", "tcp"}, At(w, place),
         NEW a \in Addrs, GivesUp(w, a), UNCHANGED <<now, setup, throttle, fails>>
  PROVE  Down'
<1>0. \A b \in Addrs : FailCount(b)' = FailCount(b)
  BY DEF FailCount
<1>1. PICK s : /\ Continue(w, s) /\ Resolving(s) /\ formerr' = formerr
               /\ \/ s.at \in {"idle", "next"} /\ row' = row
                  \/ s.at = "failed" /\ s.addr = a /\ s.got # "down" /\ row' = OneMore(a)
  BY DEF GivesUp
<1>2. CASE s.at \in {"idle", "next"} /\ row' = row
  BY <1>0, <1>1, <1>2, HarmlessStep DEF Harmless, NoMoreDown
<1>3. CASE s.at = "failed" /\ s.addr = a /\ s.got # "down" /\ row' = OneMore(a)
  <2> SUFFICES ASSUME OneThread'
               PROVE  (OneBusy /\ Counted /\ (\A v \in Workers : Charged(work[v])) /\ DownDeserved)'
    BY DEF Down
  <2>1. OneThread
    BY DEF OneThread, Thread
  <2>2. /\ OneBusy' /\ work[w].at = place /\ work'[w] = s
        /\ \A v \in Workers \ {w} : work'[v] = work[v] /\ work[v].at \in {"idle", "udp", "tcp"}
    BY <1>1, <2>1, BusyAlone
  <2>3. /\ \A b \in Addrs : FailCount(b) <= row[b]
        /\ \A b \in Addrs : <<b, Whole>> \in DOMAIN throttle => row[b] >= MaxFails
    BY <2>1, BusyAfterWait
  <2>4. row'[a] = Min({row[a] + 1, MaxFails}) /\ \A b \in Addrs : b # a => row'[b] = row[b]
    BY <1>1, <1>3, MoreRow
  <2>5. \A b \in Addrs : FailCount(b) \in Nat /\ row[b] \in 0 .. MaxFails
    BY FailCountIs, ShapeIs DEF Shape
  <2>6. row[a] + 1 \in Int /\ MaxFails \in Int /\ MaxFails \in Nat
    BY <2>5, ServersAssumption
  <2>7. \/ row'[a] = row[a] + 1 /\ row[a] + 1 <= MaxFails
        \/ row'[a] = MaxFails /\ MaxFails <= row[a] + 1
    BY <2>4, <2>6, Fewest
  <2>8. /\ FailCount(a) <= row'[a] /\ (FailCount(a) + 1 <= row'[a] \/ row'[a] = MaxFails)
        /\ row[a] >= MaxFails => row'[a] >= MaxFails
    BY <2>3, <2>5, <2>6, <2>7
  <2>9. Counted'
    BY <1>0, <2>3, <2>4, <2>8 DEF Counted
  <2>10. \A v \in Workers : Charged(work[v])'
    BY <1>0, <1>3, <2>2, <2>8 DEF Charged
  <2>11. DownDeserved'
    BY <2>3, <2>4, <2>8 DEF DownDeserved
  <2> QED
    BY <2>2, <2>9, <2>10, <2>11
<1> QED
  BY <1>1, <1>2, <1>3

LEMMA AnswersDown ==
  ASSUME Shape, Down, NEW w \in Workers, NEW place \in {"udp", "tcp"}, At(w, place),
         NEW a \in Addrs, Answers(w, a), UNCHANGED <<now, setup, throttle, fails>>
  PROVE  Down'
<1>0. \A b \in Addrs : FailCount(b)' = FailCount(b)
  BY DEF FailCount
<1>1. PICK s : /\ Continue(w, s) /\ Resolving(s) /\ formerr' = formerr
               /\ \/ s.at = "answered" /\ s.addr = a /\ row' = [row EXCEPT ![a] = 0]
                  \/ /\ s.at \in {"idle", "next", "punish"} /\ row' = row
                     /\ s.at = "punish" => s.got # "down"
  BY DEF Answers
<1>2. CASE /\ s.at \in {"idle", "next", "punish"} /\ row' = row
           /\ s.at = "punish" => s.got # "down"
  BY <1>0, <1>1, <1>2, HarmlessStep DEF Harmless, NoMoreDown
<1>3. CASE s.at = "answered" /\ s.addr = a /\ row' = [row EXCEPT ![a] = 0]
  <2> SUFFICES ASSUME OneThread'
               PROVE  (OneBusy /\ Counted /\ (\A v \in Workers : Charged(work[v])) /\ DownDeserved)'
    BY DEF Down
  <2>1. OneThread
    BY DEF OneThread, Thread
  <2>2. /\ OneBusy' /\ work[w].at = place /\ work'[w] = s
        /\ \A v \in Workers \ {w} : work'[v] = work[v] /\ work[v].at \in {"idle", "udp", "tcp"}
    BY <1>1, <2>1, BusyAlone
  <2>3. /\ \A b \in Addrs : FailCount(b) <= row[b]
        /\ \A b \in Addrs : <<b, Whole>> \in DOMAIN throttle => row[b] >= MaxFails
    BY <2>1, BusyAfterWait
  <2>4. \A b \in Addrs : b # a => row'[b] = row[b]
    BY <1>3 DEF Shape
  <2>5. Counted'
    BY <1>0, <1>3, <2>2, <2>3, <2>4 DEF Counted
  <2>6. \A v \in Workers : Charged(work[v])'
    BY <1>3, <2>2 DEF Charged
  <2>7. DownDeserved'
    BY <1>3, <2>2, <2>3, <2>4 DEF DownDeserved
  <2> QED
    BY <2>2, <2>5, <2>6, <2>7
<1> QED
  BY <1>1, <1>2, <1>3

LEMMA CountFailureDown ==
  ASSUME Shape, Down, NEW w \in Workers, CountFailure(w)
  PROVE  Down'
<1>0. PICK a : a = work[w].addr
  OBVIOUS
<1>1. Placed(work[w]) /\ fails' = Incremented(a, work[w].dnow) /\ At(w, "failed")
      /\ UNCHANGED <<now, throttle, setup, row>>
  BY <1>0, CountFailureMoves DEF CountFailure, history
<1>2. PICK s : /\ Continue(w, s) /\ Resolving(s)
               /\ \/ s.at \in {"idle", "next"}
                  \/ /\ s.at = "punish" /\ s.addr = a
                     /\ s.got = "down" => work[w].got = "down" \/ fails'[a].value >= MaxFails
  BY <1>0, CountFailureMoves
<1> SUFFICES ASSUME OneThread'
             PROVE  (OneBusy /\ Counted /\ (\A v \in Workers : Charged(work[v])) /\ DownDeserved)'
  BY DEF Down
<1>3. OneThread
  BY <1>1 DEF OneThread, Thread
<1>4. /\ OneBusy' /\ work[w].at = "failed" /\ work'[w] = s
      /\ \A v \in Workers \ {w} : work'[v] = work[v] /\ work[v].at \in {"idle", "udp", "tcp"}
  BY <1>1, <1>2, <1>3, BusyAlone
<1>5. /\ \A b \in Addrs : FailCount(b) <= row[b]
      /\ \A b \in Addrs : <<b, Whole>> \in DOMAIN throttle => row[b] >= MaxFails
  BY <1>3, <1>4 DEF Down, Counted, DownDeserved, OneThread
<1>6. a \in Addrs /\ work[w].got # "down" /\ (FailCount(a) + 1 <= row[a] \/ row[a] = MaxFails)
  BY <1>0, <1>1, <1>3, <1>4 DEF Down, Charged, Placed
<1>7. /\ FailCount(a)' = fails'[a].value /\ fails'[a].value = Min({FailCount(a) + 1, MaxFails})
      /\ \A b \in Addrs : b # a => FailCount(b)' = FailCount(b)
  <2>1. FailsTyped
    BY ShapeIs
  <2> QED
    BY <1>1, <2>1, IncrementedIs
<1>8. FailCount(a) \in Nat /\ row[a] \in 0 .. MaxFails /\ FailCount(a) + 1 \in Int
      /\ MaxFails \in Int
  BY <1>6, FailCountIs, ShapeIs, ServersAssumption DEF Shape
<1>9. /\ fails'[a].value <= FailCount(a) + 1 /\ fails'[a].value <= MaxFails
      /\ fails'[a].value \in Int
  BY <1>7, <1>8, Fewest
<1>10. FailCount(a)' <= row[a] /\ (fails'[a].value >= MaxFails => row[a] = MaxFails)
  BY <1>6, <1>7, <1>8, <1>9
<1>11. Counted'
  BY <1>1, <1>5, <1>7, <1>10 DEF Counted
<1>12. \A v \in Workers : Charged(work[v])'
  BY <1>1, <1>2, <1>4, <1>6, <1>10 DEF Charged
<1>13. DownDeserved'
  BY <1>1, <1>5 DEF DownDeserved
<1> QED
  BY <1>4, <1>11, <1>12, <1>13

\* Only a full row puts a server as such into the throttle.
LEMMA PunishDown ==
  ASSUME Shape, Down, NEW w \in Workers, Punish(w)
  PROVE  Down'
<1> DEFINE r == work[w]
           key == <<r.addr, IF r.got = "down" THEN Whole ELSE r.question>>
<1>1. /\ Placed(r) /\ throttle' = Throttled(key, r.dnow, r.got) /\ At(w, "punish")
      /\ UNCHANGED <<now, fails, setup, row>>
  BY PunishMoves DEF Punish, history
<1>2. PICK s : Continue(w, s) /\ Resolving(s) /\ s.at \in {"idle", "next"}
  BY PunishMoves
<1>3. DOMAIN throttle' = DOMAIN throttle \cup {key}
  BY <1>1 DEF Throttled, With
<1> SUFFICES ASSUME OneThread'
             PROVE  (OneBusy /\ Counted /\ (\A v \in Workers : Charged(work[v])) /\ DownDeserved)'
  BY DEF Down
<1>4. OneThread
  BY <1>1 DEF OneThread, Thread
<1>5. /\ OneBusy' /\ work[w].at = "punish" /\ work'[w] = s
      /\ \A v \in Workers \ {w} : work'[v] = work[v] /\ work[v].at \in {"idle", "udp", "tcp"}
  BY <1>1, <1>2, <1>4, BusyAlone
<1>6. /\ \A b \in Addrs : FailCount(b) <= row[b]
      /\ \A b \in Addrs : <<b, Whole>> \in DOMAIN throttle => row[b] >= MaxFails
      /\ r.got = "down" => row[r.addr] = MaxFails
  BY <1>4, <1>5 DEF Down, Counted, DownDeserved, OneThread, Charged
<1>7. Counted'
  BY <1>1, <1>6 DEF Counted, FailCount
<1>8. \A v \in Workers : Charged(work[v])'
  BY <1>2, <1>5 DEF Charged
<1>9. \A b \in Addrs : <<b, Whole>> = key => r.got = "down" /\ r.addr = b
  BY <1>1, ServersAssumption DEF Placed
<1>10. MaxFails \in Nat
  BY ServersAssumption
<1> HIDE DEF key
<1>11. DownDeserved'
  BY <1>1, <1>3, <1>6, <1>9, <1>10 DEF DownDeserved
<1> QED
  BY <1>5, <1>7, <1>8, <1>11

LEMMA ClearFailsDown ==
  ASSUME Shape, Down, NEW w \in Workers, ClearFails(w)
  PROVE  Down'
<1>0. PICK a : a = work[w].addr
  OBVIOUS
<1>1. /\ Placed(work[w]) /\ fails' = Without(fails, a) /\ At(w, "answered")
      /\ UNCHANGED <<now, throttle, setup, row>>
  BY <1>0, ClearFailsMoves DEF ClearFails, history, Forgiven
<1>2. PICK s : Continue(w, s) /\ Resolving(s) /\ s.at = "open" /\ s.addr = a
  BY <1>0, ClearFailsMoves
<1>3. FailCount(a)' = 0 /\ \A b \in Addrs : b # a => FailCount(b)' = FailCount(b)
  <2>1. /\ DOMAIN fails' = DOMAIN fails \ {a}
        /\ \A b \in DOMAIN fails : b # a => fails'[b] = fails[b]
    BY <1>1 DEF Without, Restrict
  <2> QED
    BY <2>1 DEF FailCount
<1> SUFFICES ASSUME OneThread'
             PROVE  (OneBusy /\ Counted /\ (\A v \in Workers : Charged(work[v])) /\ DownDeserved)'
  BY DEF Down
<1>4. OneThread
  BY <1>1 DEF OneThread, Thread
<1>5. /\ OneBusy' /\ work[w].at = "answered" /\ work'[w] = s
      /\ \A v \in Workers \ {w} : work'[v] = work[v] /\ work[v].at \in {"idle", "udp", "tcp"}
  BY <1>1, <1>2, <1>4, BusyAlone
<1>6. a \in Addrs /\ row[a] >= 0
  BY <1>0, <1>1 DEF Placed, Shape
<1>7. /\ \A b \in Addrs : b # a => FailCount(b) <= row[b]
      /\ \A b \in Addrs : b # a => (<<b, Whole>> \in DOMAIN throttle => row[b] >= MaxFails)
  BY <1>0, <1>4, <1>5 DEF Down, Counted, DownDeserved, OneThread
<1>8. Counted'
  BY <1>1, <1>3, <1>6, <1>7 DEF Counted
<1>9. \A v \in Workers : Charged(work[v])'
  BY <1>2, <1>5 DEF Charged
<1>10. DownDeserved'
  BY <1>0, <1>1, <1>2, <1>5, <1>7 DEF DownDeserved
<1> QED
  BY <1>5, <1>8, <1>9, <1>10

LEMMA OpenServerDown ==
  ASSUME Shape, Down, NEW w \in Workers, OpenServer(w)
  PROVE  Down'
<1> DEFINE a == work[w].addr
<1>1. /\ throttle' = Without(throttle, <<a, Whole>>) /\ At(w, "open")
      /\ UNCHANGED <<now, fails, setup, row>>
  BY DEF OpenServer, history
<1>2. PICK s : Continue(w, s) /\ Resolving(s) /\ s.at = "openQuestion"
  BY OpenServerMoves
<1>3. DOMAIN throttle' = DOMAIN throttle \ {<<a, Whole>>}
  BY <1>1, WithoutIs
<1> SUFFICES ASSUME OneThread'
             PROVE  (OneBusy /\ Counted /\ (\A v \in Workers : Charged(work[v])) /\ DownDeserved)'
  BY DEF Down
<1>4. OneThread
  BY <1>1 DEF OneThread, Thread
<1>5. /\ OneBusy' /\ work[w].at = "open" /\ work'[w] = s
      /\ \A v \in Workers \ {w} : work'[v] = work[v] /\ work[v].at \in {"idle", "udp", "tcp"}
  BY <1>1, <1>2, <1>4, BusyAlone
<1>6. /\ \A b \in Addrs : FailCount(b) <= row[b]
      /\ \A b \in Addrs : b # a => (<<b, Whole>> \in DOMAIN throttle => row[b] >= MaxFails)
  BY <1>4, <1>5 DEF Down, Counted, DownDeserved, OneThread
<1> HIDE DEF a
<1>7. Counted'
  BY <1>1, <1>6 DEF Counted, FailCount
<1>8. \A v \in Workers : Charged(work[v])'
  BY <1>2, <1>5 DEF Charged
<1>9. DownDeserved'
  BY <1>1, <1>3, <1>6 DEF DownDeserved
<1> QED
  BY <1>5, <1>7, <1>8, <1>9

----------------------------------------------------------------------------
(* Questions without EDNS *)

\* The statuses of EDNS that disappear take nothing away.
LEMMA FewerStatuses ==
  ASSUME Shape, BareKept, DOMAIN ednsstatus' \subseteq DOMAIN ednsstatus,
         \A a \in DOMAIN ednsstatus' : ednsstatus'[a] = ednsstatus[a], UNCHANGED formerr
  PROVE  EdnsTyped' /\ BareKept'
  BY DEF Shape, EdnsTyped, BareKept

LEMMA WithoutStatus ==
  ASSUME Shape, BareKept, NEW a, ednsstatus' = Without(ednsstatus, a), UNCHANGED formerr
  PROVE  EdnsTyped' /\ BareKept'
  BY FewerStatuses, WithoutIs

LEMMA StatusSet ==
  ASSUME Shape, BareKept, NEW a \in Addrs, NEW mode, ednsstatus' = ModeSet(a, mode, now),
         formerr' \in [Addrs -> Int], \A b \in Addrs : formerr[b] <= formerr'[b],
         mode = "NOEDNS" => formerr'[a] = now
  PROVE  EdnsTyped' /\ BareKept'
<1> DEFINE entry == [mode |-> mode, ttd |-> now + Expire]
<1>1. now \in Nat /\ Expire \in Nat /\ \A b \in Addrs : formerr[b] \in Int /\ formerr'[b] \in Int
  BY ServersAssumption DEF Shape
<1>2. CASE ednsstatus' = ednsstatus
  BY <1>1, <1>2 DEF Shape, EdnsTyped, BareKept
<1>3. CASE ednsstatus' = With(ednsstatus, a, entry)
  <2>1. /\ DOMAIN ednsstatus' = DOMAIN ednsstatus \cup {a}
        /\ ednsstatus'[a].mode = mode /\ ednsstatus'[a].ttd = now + Expire
        /\ \A b \in DOMAIN ednsstatus : b # a => ednsstatus'[b] = ednsstatus[b]
    BY <1>3 DEF With
  <2>2. EdnsTyped'
    BY <1>1, <2>1 DEF Shape, EdnsTyped
  <2>3. BareKept'
    <3> SUFFICES ASSUME NEW b \in DOMAIN ednsstatus', ednsstatus'[b].mode = "NOEDNS"
                 PROVE  b \in Addrs /\ formerr'[b] >= 0 /\ ednsstatus'[b].ttd <= formerr'[b] + Expire
      BY DEF BareKept
    <3>1. CASE b = a
      BY <1>1, <2>1, <3>1
    <3>2. CASE b # a
      <4>1. /\ b \in DOMAIN ednsstatus /\ ednsstatus'[b] = ednsstatus[b] /\ ednsstatus[b].ttd \in Int
            /\ b \in Addrs /\ formerr[b] >= 0 /\ ednsstatus[b].ttd <= formerr[b] + Expire
        BY <2>1, <3>2 DEF BareKept, Shape
      <4> QED
        BY <1>1, <4>1
    <3> QED
      BY <3>1, <3>2
  <2> QED
    BY <2>2, <2>3
<1> QED
  BY <1>2, <1>3 DEF ModeSet

\* A question is sent bare for a reason that is known now, or as it was before.
BareFor(r) ==
  r.at \in {"udp", "tcp"} /\ r.bare =>
    formerr[r.addr] >= 0 /\ r.dnow <= formerr[r.addr] + Expire

LEMMA BareStep ==
  ASSUME Shape, BareDeserved, NEW w \in Workers, NEW r, Continue(w, r), BareFor(r)',
         formerr' \in [Addrs -> Int], \A a \in Addrs : formerr[a] <= formerr'[a]
  PROVE  BareDeserved'
<1>1. work'[w] = r /\ \A v \in Workers \ {w} : work'[v] = work[v]
  BY Turns
<1> SUFFICES ASSUME NEW v \in Workers, work'[v].at \in {"udp", "tcp"}, work'[v].bare
             PROVE  formerr'[work'[v].addr] >= 0 /\ work'[v].dnow <= formerr'[work'[v].addr] + Expire
  BY DEF BareDeserved
<1>2. CASE v = w
  BY <1>1, <1>2 DEF BareFor
<1>3. CASE v # w
  <2>1. work'[v] = work[v]
    BY <1>1, <1>3
  <2>2. work[v].addr \in Addrs /\ work[v].dnow \in Nat
    BY <2>1 DEF Shape, Resolving
  <2>3. formerr[work[v].addr] >= 0 /\ work[v].dnow <= formerr[work[v].addr] + Expire
    BY <2>1 DEF BareDeserved
  <2>4. /\ formerr[work[v].addr] \in Int /\ formerr'[work[v].addr] \in Int /\ Expire \in Nat
        /\ formerr[work[v].addr] <= formerr'[work[v].addr]
    BY <2>2, ServersAssumption DEF Shape
  <2> QED
    BY <2>1, <2>2, <2>3, <2>4
<1> QED
  BY <1>2, <1>3

----------------------------------------------------------------------------
(* All of it *)

LEMMA InitDInv == Init => DInv
<1> SUFFICES ASSUME Init PROVE DInv
  OBVIOUS
<1>1. /\ now = 0 /\ DOMAIN throttle = {} /\ DOMAIN fails = {} /\ DOMAIN ednsstatus = {}
      /\ work = [w \in Workers |-> NoWork]
      /\ row = [a \in Addrs |-> 0] /\ formerr = [a \in Addrs |-> -1]
  BY DEF Init, TablesInit
<1>2. Resolving(NoWork) /\ NoWork.at = "idle"
  BY DEF NoWork, Resolving, Fields
<1>3. Shape
  BY <1>1, <1>2, ServersAssumption DEF Shape
<1>4. Down
  BY <1>1, <1>2 DEF Down, OneBusy, Waits, Counted, FailCount, Charged, DownDeserved
<1>5. Bare
  BY <1>1, <1>2 DEF Bare, BareKept, BareDeserved
<1> QED
  BY <1>3, <1>4, <1>5 DEF DInv

\* A step of a resolution that counts nothing, charges nothing and learns nothing.
LEMMA QuietStep ==
  ASSUME DInv, NEW w \in Workers, NEW place, At(w, place), place \notin {"answered", "open"},
         NEW r, Continue(w, r), Resolving(r), Harmless(r), BareFor(r),
         UNCHANGED <<now, setup, fails, history>>, NoMoreDown, EdnsTyped', BareKept'
  PROVE  DInv'
<1>1. Shape /\ Down /\ BareDeserved
  BY DEF DInv, Bare
<1>2. Shape'
  BY <1>1, ShapeStays, Untouched
<1>3. \A a \in Addrs : FailCount(a)' = FailCount(a)
  BY DEF FailCount
<1>4. Down'
  BY <1>1, <1>3, HarmlessStep DEF history
<1>5. BareFor(r)' /\ formerr' = formerr
  BY DEF BareFor, history
<1>6. formerr' \in [Addrs -> Int] /\ \A a \in Addrs : formerr[a] <= formerr'[a]
  BY <1>1, <1>5 DEF Shape
<1>7. BareDeserved'
  BY <1>1, <1>5, <1>6, BareStep
<1> QED
  BY <1>2, <1>4, <1>7 DEF DInv, Bare

\* ... and leaves the statuses of EDNS alone.
LEMMA QuieterStep ==
  ASSUME DInv, NEW w \in Workers, NEW place, At(w, place), place \notin {"answered", "open"},
         NEW r, Continue(w, r), Resolving(r), Harmless(r), BareFor(r),
         UNCHANGED <<now, setup, fails, ednsstatus, history>>, NoMoreDown
  PROVE  DInv'
<1>1. EdnsTyped' /\ BareKept'
  BY FewerStatuses DEF DInv, Bare, history
<1> QED
  BY <1>1, QuietStep

LEMMA GivesUpKeeps ==
  ASSUME DInv, NEW w \in Workers, NEW place \in {"udp", "tcp"}, At(w, place),
         GivesUp(w, work[w].addr), UNCHANGED <<now, tables, setup>>
  PROVE  DInv'
<1>1. PICK a : a = work[w].addr
  OBVIOUS
<1>2. Shape /\ Down /\ Bare /\ GivesUp(w, a)
  BY <1>1 DEF DInv
<1>3. a \in Addrs
  BY <1>1, <1>2, AtPlace DEF At, Placed
<1>4. Down'
  BY <1>2, <1>3, GivesUpDown DEF tables
<1>5. PICK s : /\ Continue(w, s) /\ Resolving(s) /\ formerr' = formerr
               /\ s.at \in {"idle", "next", "failed"} /\ row' \in {row, OneMore(a)}
  BY <1>2 DEF GivesUp
<1>6. HistoryTyped'
  <2>1. CASE row' = row
    BY <1>2, <1>5, <2>1, Untouched DEF history
  <2>2. CASE row' = OneMore(a)
    BY <1>2, <1>3, <1>5, <2>2, MoreRow
  <2> QED
    BY <1>5, <2>1, <2>2
<1>7. Shape'
  BY <1>2, <1>5, <1>6, ShapeStays, Untouched DEF tables
<1>8. EdnsTyped' /\ BareKept'
  BY <1>2, <1>5, FewerStatuses DEF Bare, tables
<1>9. formerr' \in [Addrs -> Int] /\ (\A b \in Addrs : formerr[b] <= formerr'[b]) /\ BareFor(s)'
  BY <1>2, <1>5 DEF Shape, BareFor
<1>10. BareDeserved'
  BY <1>2, <1>5, <1>9, BareStep DEF Bare
<1> QED
  BY <1>4, <1>7, <1>8, <1>10 DEF DInv, Bare

LEMMA RepliedKeeps ==
  ASSUME DInv, NEW w \in Workers, NEW place \in {"udp", "tcp"}, At(w, place),
         Replied(w, work[w].addr), UNCHANGED <<now, throttle, fails, setup>>
  PROVE  DInv'
<1>1. PICK a : a = work[w].addr
  OBVIOUS
<1>2. Shape /\ Down /\ Bare /\ Replied(w, a)
  BY <1>1 DEF DInv
<1>3. a \in Addrs
  BY <1>1, <1>2, AtPlace DEF At, Placed
<1>4. now \in Nat /\ Expire \in Nat /\ \A b \in Addrs : formerr[b] \in Int /\ formerr[b] <= now
  BY <1>2, ServersAssumption DEF Shape
<1>5. CASE AsksAgainBare(w, a)
  <2>1. PICK s : /\ Continue(w, s) /\ Resolving(s)
                 /\ \/ s.at \in {"idle", "next"}
                    \/ s.at \in {"udp", "tcp"} /\ s.addr = a /\ s.dnow = now
    BY <1>5 DEF AsksAgainBare
  <2>2. /\ ednsstatus' = ModeSet(a, "NOEDNS", now)
        /\ formerr' = [formerr EXCEPT ![a] = now] /\ row' = row
    BY <1>5 DEF AsksAgainBare, FormErr
  <2>3. /\ formerr' \in [Addrs -> Int] /\ formerr'[a] = now
        /\ \A b \in Addrs : formerr[b] <= formerr'[b] /\ formerr'[b] <= now
    BY <1>2, <1>3, <1>4, <2>2 DEF Shape
  <2>4. EdnsTyped' /\ BareKept'
    BY <1>2, <1>3, <2>2, <2>3, StatusSet DEF Bare
  <2>5. HistoryTyped'
    BY <1>2, <2>2, <2>3 DEF Shape, HistoryTyped
  <2>6. Shape'
    BY <1>2, <2>1, <2>4, <2>5, ShapeStays, Untouched
  <2>7. BareFor(s)'
    BY <1>4, <2>1, <2>3 DEF BareFor
  <2>8. BareDeserved'
    BY <1>2, <2>1, <2>3, <2>7, BareStep DEF Bare
  <2>9. \A b \in Addrs : FailCount(b)' = FailCount(b)
    BY DEF FailCount
  <2>10. Down'
    BY <1>2, <2>1, <2>2, <2>9, HarmlessStep DEF Harmless, NoMoreDown
  <2> QED
    BY <2>4, <2>6, <2>8, <2>10 DEF DInv, Bare
<1>6. CASE /\ Answers(w, a)
           /\ \/ ednsstatus' \in {ednsstatus, Without(ednsstatus, a)}
              \/ ednsstatus' = ModeSet(a, "EDNSIGNORANT", now)
  <2>1. Down'
    BY <1>2, <1>3, <1>6, AnswersDown
  <2>2. PICK s : /\ Continue(w, s) /\ Resolving(s) /\ formerr' = formerr
                 /\ s.at \in {"idle", "next", "punish", "answered"}
                 /\ row' \in {row, [row EXCEPT ![a] = 0]}
    BY <1>6 DEF Answers
  <2>3. formerr' \in [Addrs -> Int] /\ (\A b \in Addrs : formerr[b] <= formerr'[b]) /\ BareFor(s)'
    BY <1>2, <1>4, <2>2 DEF Shape, BareFor
  <2>4. EdnsTyped' /\ BareKept'
    <3>1. CASE ednsstatus' = ednsstatus
      BY <1>2, <2>2, <3>1, FewerStatuses DEF Bare
    <3>2. CASE ednsstatus' = Without(ednsstatus, a)
      BY <1>2, <2>2, <3>2, WithoutStatus DEF Bare
    <3>3. CASE ednsstatus' = ModeSet(a, "EDNSIGNORANT", now)
      BY <1>2, <1>3, <2>3, <3>3, StatusSet DEF Bare
    <3> QED
      BY <1>6, <3>1, <3>2, <3>3
  <2>5. HistoryTyped'
    BY <1>2, <2>2, ServersAssumption DEF Shape, HistoryTyped
  <2>6. Shape'
    BY <1>2, <2>2, <2>4, <2>5, ShapeStays, Untouched
  <2>7. BareDeserved'
    BY <1>2, <2>2, <2>3, BareStep DEF Bare
  <2> QED
    BY <2>1, <2>4, <2>6, <2>7 DEF DInv, Bare
<1> QED
  BY <1>2, <1>5, <1>6 DEF Replied

\* Every step of a resolution keeps the invariant ...
LEMMA PassKeeps ==
  ASSUME DInv, NEW w \in Workers, NEW a \in Addrs,
         PassServer(w, a) \/ RefuseServer(w, a) \/ CheckQuestion(w, a)
  PROVE  DInv'
<1>1. Shape
  BY DEF DInv
<1>2. NoMoreDown /\ UNCHANGED <<now, setup, fails, ednsstatus, history>>
  BY AskedAddsNothing DEF NoMoreDown, PassServer, RefuseServer, CheckQuestion
<1>3. PICK r : /\ Continue(w, r) /\ Resolving(r) /\ r.at \in {"idle", "next", "question", "ask"}
  BY <1>1, PassServerMoves, RefuseServerMoves, CheckQuestionMoves
<1>4. PICK place \in {"next", "question"} : At(w, place)
  BY DEF PassServer, RefuseServer, CheckQuestion
<1>5. Harmless(r) /\ BareFor(r)
  BY <1>3 DEF Harmless, BareFor
<1> QED
  BY <1>2, <1>3, <1>4, <1>5, QuieterStep

LEMMA AskKeeps ==
  ASSUME DInv, NEW w \in Workers, NEW a \in Addrs, Ask(w, a)
  PROVE  DInv'
<1>1. Shape /\ BareKept /\ Placed(work[w])
  BY AtPlace DEF DInv, Bare, Ask, At
<1>2. At(w, "ask") /\ NoMoreDown /\ UNCHANGED <<now, setup, fails, history>>
      /\ (ednsstatus' = ednsstatus \/ ednsstatus' = Noticed(a, work[w].dnow))
  BY <1>1, FieldsAre DEF Ask, NoMoreDown, Count, Placed
<1>3. PICK s : /\ Continue(w, s) /\ Resolving(s)
               /\ \/ s.at \in {"idle", "next"}
                  \/ /\ s.at \in {"udp", "tcp"} /\ s.addr = a /\ s.dnow = work[w].dnow
                     /\ s.bare = (Mode(a, work[w].dnow) = "NOEDNS")
  BY <1>1, AskMoves
<1>4. EdnsTyped' /\ BareKept'
  BY <1>1, <1>2, WithoutStatus, FewerStatuses DEF Noticed, history
<1>5. ASSUME Mode(a, work[w].dnow) = "NOEDNS"
      PROVE  formerr[a] >= 0 /\ work[w].dnow <= formerr[a] + Expire
  <2>1. a \in DOMAIN ednsstatus /\ ednsstatus[a].mode = "NOEDNS" /\ ~(ednsstatus[a].ttd < work[w].dnow)
    BY <1>5 DEF Mode, Outdated
  <2>2. formerr[a] >= 0 /\ ednsstatus[a].ttd <= formerr[a] + Expire /\ ednsstatus[a].ttd \in Int
    BY <1>1, <2>1 DEF BareKept, Shape
  <2>3. work[w].dnow \in Int /\ formerr[a] \in Int /\ Expire \in Int
    BY <1>1, ServersAssumption DEF Placed, Shape
  <2> QED
    BY <2>1, <2>2, <2>3
<1>6. Harmless(s) /\ BareFor(s)
  BY <1>3, <1>5 DEF Harmless, BareFor
<1> QED
  BY <1>2, <1>3, <1>4, <1>6, QuietStep

LEMMA TcpFailsKeeps ==
  ASSUME DInv, NEW w \in Workers, TcpFails(w)
  PROVE  DInv'
<1>1. Shape /\ BareDeserved
  BY DEF DInv, Bare
<1>2. At(w, "tcp") /\ UNCHANGED <<now, tables, setup>>
  BY DEF TcpFails
<1>3. CASE GivesUp(w, work[w].addr)
  BY <1>2, <1>3, GivesUpKeeps
<1>4. ASSUME NEW s, Continue(w, s), Resolving(s), UNCHANGED history,
             \/ s.at \in {"idle", "next"}
             \/ s.at = "tcp" /\ s.addr = work[w].addr /\ s.bare = work[w].bare
                /\ s.dnow = work[w].dnow
      PROVE  DInv'
  <2>1. Harmless(s)
    BY <1>4 DEF Harmless
  <2>2. BareFor(s)
    BY <1>1, <1>2, <1>4 DEF BareFor, BareDeserved, At
  <2> QED
    BY <1>2, <1>4, <2>1, <2>2, QuieterStep DEF NoMoreDown, tables
<1> QED
  BY <1>1, <1>3, <1>4, TcpFailsMoves

LEMMA AftermathKeeps ==
  ASSUME DInv, NEW w \in Workers, Aftermath(w)
  PROVE  DInv'
<1>1. Shape /\ Down /\ BareKept /\ BareDeserved
  BY DEF DInv, Bare
<1>2. UNCHANGED <<now, ednsstatus, setup, history>>
  BY DEF Aftermath, CountFailure, Punish, ClearFails, OpenServer, OpenQuestion
<1>3. EdnsTyped' /\ BareKept' /\ HistoryTyped'
  BY <1>1, <1>2, FewerStatuses, Untouched DEF history
<1>4. ASSUME NEW s, Continue(w, s), Resolving(s), s.at \notin {"udp", "tcp"}
      PROVE  Bare' /\ (FailsTyped' => Shape')
  <2>1. formerr' \in [Addrs -> Int] /\ (\A a \in Addrs : formerr[a] <= formerr'[a]) /\ BareFor(s)'
    BY <1>1, <1>2, <1>4 DEF Shape, BareFor, history
  <2> QED
    BY <1>1, <1>2, <1>3, <1>4, <2>1, BareStep, ShapeStays DEF Bare
<1>5. CASE CountFailure(w)
  <2>1. FailsTyped'
    BY <1>1, <1>5, CountFailureMoves, IncrementedIs, ShapeIs
  <2> QED
    BY <1>1, <1>4, <1>5, <2>1, CountFailureMoves, CountFailureDown DEF DInv
<1>6. CASE Punish(w)
  <2>1. FailsTyped'
    BY <1>1, <1>6, Untouched DEF Punish
  <2> QED
    BY <1>1, <1>4, <1>6, <2>1, PunishMoves, PunishDown DEF DInv
<1>7. CASE ClearFails(w)
  <2>1. FailsTyped'
    BY <1>1, <1>7, ShapeIs DEF ClearFails, Forgiven, Without, Restrict, FailsTyped
  <2> QED
    BY <1>1, <1>4, <1>7, <2>1, ClearFailsMoves, ClearFailsDown DEF DInv
<1>8. CASE OpenServer(w)
  <2>1. FailsTyped'
    BY <1>1, <1>8, Untouched DEF OpenServer
  <2> QED
    BY <1>1, <1>4, <1>8, <2>1, OpenServerMoves, OpenServerDown DEF DInv
<1>9. CASE OpenQuestion(w)
  <2>1. PICK s : /\ Continue(w, s) /\ Resolving(s) /\ s.at \in {"idle", "ask", "punish"}
                 /\ s.at = "punish" => s.got # "down"
    BY <1>1, <1>9, OpenQuestionMoves
  <2>2. At(w, "openQuestion") /\ UNCHANGED fails /\ NoMoreDown
    <3>1. At(w, "openQuestion") /\ UNCHANGED fails
          /\ throttle' = Without(throttle, <<work[w].addr, work[w].question>>)
      BY <1>9 DEF OpenQuestion
    <3>2. DOMAIN throttle' \subseteq DOMAIN throttle
      BY <3>1 DEF Without, Restrict
    <3> QED
      BY <3>1, <3>2 DEF NoMoreDown
  <2>3. Harmless(s) /\ BareFor(s)
    BY <2>1 DEF Harmless, BareFor
  <2> QED
    BY <1>2, <2>1, <2>2, <2>3, QuieterStep
<1> QED
  BY <1>5, <1>6, <1>7, <1>8, <1>9 DEF Aftermath

\* ... and so does every step of the rest.
LEMMA HousekeepingKeeps ==
  ASSUME DInv, Prune \/ Tick \/ (\E th \in Threads : PruneIdle(th)) \/ UNCHANGED vars
  PROVE  DInv'
<1>1. Shape /\ Down /\ BareKept /\ BareDeserved
  BY DEF DInv, Bare
<1>2. UNCHANGED <<setup, work, history>>
  BY DEF Prune, Tick, PruneIdle, vars
<1>3. now' \in {now, now + 1}
  BY DEF Prune, Tick, PruneIdle, vars, PruneThrottledServers, PruneFailedServers, PruneEDNSStatuses
<1>4. DOMAIN throttle' \subseteq DOMAIN throttle
  BY RestrictIs DEF Prune, Tick, PruneIdle, vars, tables, PruneThrottledServers,
     PruneFailedServers, PruneEDNSStatuses
<1>5. DOMAIN fails' \subseteq DOMAIN fails /\ \A a \in DOMAIN fails' : fails'[a] = fails[a]
  BY RestrictIs DEF Prune, Tick, PruneIdle, vars, tables, PruneThrottledServers,
     PruneFailedServers, PruneEDNSStatuses
<1>6. DOMAIN ednsstatus' \subseteq DOMAIN ednsstatus
      /\ \A a \in DOMAIN ednsstatus' : ednsstatus'[a] = ednsstatus[a]
  BY RestrictIs DEF Prune, Tick, PruneIdle, vars, tables, PruneThrottledServers,
     PruneFailedServers, PruneEDNSStatuses
<1>7. FailsTyped' /\ \A a \in Addrs : FailCount(a)' \in {0, FailCount(a)}
  BY <1>1, <1>5, FewerFails, ShapeIs
<1>8. EdnsTyped' /\ BareKept'
  BY <1>1, <1>2, <1>6, FewerStatuses DEF history
<1>9. Shape'
  <2>1. now' \in Nat /\ \A a \in Addrs : formerr[a] <= now'
    BY <1>1, <1>3 DEF Shape
  <2> QED
    BY <1>1, <1>2, <1>7, <1>8, <2>1 DEF Shape, FailsTyped, EdnsTyped, history
<1>10. Down'
  BY <1>1, <1>2, <1>4, <1>7, IdleStep DEF NoMoreDown, history
<1>11. BareDeserved'
  BY <1>1, <1>2 DEF BareDeserved, history
<1> QED
  BY <1>8, <1>9, <1>10, <1>11 DEF DInv, Bare

LEMMA NextDInv == DInv /\ [Next]_vars => DInv'
<1> SUFFICES ASSUME DInv, [Next]_vars PROVE DInv'
  OBVIOUS
<1>0. Shape
  BY DEF DInv
<1>1. ASSUME NEW w \in Workers, NEW q \in Questions, Start(w, q)
      PROVE  DInv'
  <2>1. PICK r : Continue(w, r) /\ Resolving(r) /\ r.at = "next"
    BY <1>0, <1>1, StartMoves
  <2>2. Harmless(r) /\ BareFor(r)
    BY <2>1 DEF Harmless, BareFor
  <2>3. At(w, "idle") /\ UNCHANGED <<now, setup, fails, ednsstatus, history>> /\ NoMoreDown
    BY <1>1 DEF Start, tables, NoMoreDown
  <2> QED
    BY <2>1, <2>2, <2>3, QuieterStep
<1>2. ASSUME NEW w \in Workers, Exchange(w)
      PROVE  DInv'
  <2>1. CASE UdpFails(w)
    BY <1>0, <2>1, UdpFailsMoves, GivesUpKeeps DEF UdpFails
  <2>2. CASE UdpSpoofed(w)
    <3>1. PICK s : Continue(w, s) /\ Resolving(s) /\ s.at = "ask"
      BY <1>0, <2>2, UdpSpoofedMoves
    <3>2. Harmless(s) /\ BareFor(s)
      BY <3>1 DEF Harmless, BareFor
    <3>3. At(w, "udp") /\ UNCHANGED <<now, setup, fails, ednsstatus, history>> /\ NoMoreDown
      BY <2>2 DEF UdpSpoofed, tables, NoMoreDown
    <3> QED
      BY <3>1, <3>2, <3>3, QuieterStep
  <2>3. CASE UdpReply(w)
    BY <1>0, <2>3, UdpReplyMoves, RepliedKeeps DEF UdpReply
  <2>4. CASE TcpFails(w)
    BY <2>4, TcpFailsKeeps
  <2>5. CASE TcpMismatch(w)
    BY <1>0, <2>5, TcpMismatchMoves, GivesUpKeeps DEF TcpMismatch
  <2>6. CASE TcpReply(w)
    BY <1>0, <2>6, TcpReplyMoves, RepliedKeeps DEF TcpReply
  <2> QED
    BY <1>2, <2>1, <2>2, <2>3, <2>4, <2>5, <2>6 DEF Exchange
<1>3. CASE Next
  BY <1>1, <1>2, <1>3, PassKeeps, AskKeeps, AftermathKeeps, HousekeepingKeeps DEF Next, Refuses
<1> QED
  BY <1>3, HousekeepingKeeps

LEMMA Invariance == Spec => []DInv
  BY InitDInv, NextDInv, PTL DEF Spec

\* A server is down only after a full row of failures of its own, in a program of one
\* thread, and is asked without EDNS only when it has lately answered EDNS with FORMERR:
\* what SyncRes::doResolveAtThisIP and asyncresolveWrapper hold against a server in
\* s_throttle and s_ednsstatus.
THEOREM HeldIsDeserved == Spec => []Deserved
<1>1. DInv => Deserved
  <2> SUFFICES ASSUME DInv PROVE DownDeserved /\ BareDeserved
    BY DEF Deserved
  <2>1. BareDeserved
    BY DEF DInv, Bare
  <2>2. DownDeserved
    BY DEF DInv, Down, DownDeserved, OneThread
  <2> QED
    BY <2>1, <2>2
<1> QED
  BY <1>1, Invariance, PTL

-----------------------------------------------------------------------------
(* Induction *)

LEMMA LeastNumber ==
  ASSUME NEW T, T \subseteq Nat, T # {}
  PROVE  \E n \in T : \A m \in T : n <= m
<1> DEFINE less == {p \in Nat \X Nat : p[1] < p[2]}
<1>1. IsWellFoundedOn(less, Nat)
  BY NatLessThanWellFounded DEF OpToRel
<1>2. PICK n \in T : \A m \in T : <<m, n>> \notin less
  BY <1>1, WFMin
<1>3. \A m \in T : ~(m < n)
  BY <1>2
<1> QED
  BY <1>2, <1>3

\* Were there a first number that T does not have, T would have the one before it.
LEMMA UpTo ==
  ASSUME NEW T, NEW m \in Nat, 0 \in T, \A n \in 1 .. m : n - 1 \in T => n \in T
  PROVE  \A n \in 0 .. m : n \in T
<1> DEFINE missing == {n \in 0 .. m : n \notin T}
<1>1. ASSUME missing # {} PROVE FALSE
  <2>1. PICK n \in missing : \A k \in missing : n <= k
    <3>1. missing \subseteq Nat
      OBVIOUS
    <3> HIDE DEF missing
    <3> QED
      BY <1>1, <3>1, LeastNumber
  <2>2. n \in 1 .. m /\ n - 1 \in 0 .. m /\ n - 1 \notin missing
    BY <2>1
  <2> QED
    BY <2>1, <2>2
<1> QED
  BY <1>1

-----------------------------------------------------------------------------
(* Idle connections *)

\* What a thread may keep.
Pool(conns) == conns \in Seq(Connections) /\ Len(conns) <= MaxIdlePerThread

\* The function in Cleanup, up to m.
Stays(kept, conns, t, m) ==
  kept = [n \in 0 .. m |->
            IF n = 0 THEN <<>>
            ELSE IF t - conns[n].last > MaxIdleTime THEN kept[n - 1]
            ELSE Append(kept[n - 1], conns[n])]

LEMMA StaysExists ==
  ASSUME NEW conns, NEW t, NEW m \in Nat
  PROVE  \E kept : Stays(kept, conns, t, m)
<1> DEFINE T == {n \in 0 .. m : \E kept : Stays(kept, conns, t, n)}
           Gone(n) == t - conns[n].last > MaxIdleTime
<1>1. 0 \in T
  <2>1. Stays([n \in 0 .. 0 |-> <<>>], conns, t, 0)
    BY DEF Stays
  <2> QED
    BY <2>1
<1>2. ASSUME NEW n \in 1 .. m, n - 1 \in T PROVE n \in T
  <2>1. PICK f : Stays(f, conns, t, n - 1)
    BY <1>2
  <2> DEFINE g == [i \in 0 .. n |->
                     IF i < n THEN f[i]
                     ELSE IF Gone(n) THEN f[n - 1] ELSE Append(f[n - 1], conns[n])]
  <2>2. ASSUME NEW i \in 0 .. n
        PROVE  g[i] = IF i = 0 THEN <<>>
                      ELSE IF Gone(i) THEN g[i - 1] ELSE Append(g[i - 1], conns[i])
    <3>1. CASE i = n
      <4> HIDE DEF Gone
      <4> QED
        BY <3>1
    <3>2. CASE i < n
      <4>1. i \in 0 .. n - 1 /\ g[i] = f[i] /\ (i # 0 => g[i - 1] = f[i - 1])
        <5> HIDE DEF Gone
        <5> QED
          BY <3>2
      <4>2. f[i] = IF i = 0 THEN <<>>
                   ELSE IF Gone(i) THEN f[i - 1] ELSE Append(f[i - 1], conns[i])
        BY <2>1, <4>1 DEF Stays
      <4> HIDE DEF g, Gone
      <4> QED
        BY <4>1, <4>2
    <3> QED
      BY <3>1, <3>2
  <2>3. g = [i \in 0 .. n |-> g[i]]
    OBVIOUS
  <2> HIDE DEF g
  <2>4. Stays(g, conns, t, n)
    BY <2>2, <2>3 DEF Stays
  <2> QED
    BY <2>4
<1> QED
  <2> HIDE DEF T
  <2>1. \A n \in 0 .. m : n \in T
    BY <1>1, <1>2, UpTo
  <2> QED
    BY <2>1 DEF T

\* What is cleaned up gets no longer.
LEMMA CleanupPool ==
  ASSUME NEW conns, Pool(conns), NEW t
  PROVE  Pool(Cleanup(conns, t))
<1> DEFINE kept == CHOOSE f : Stays(f, conns, t, Len(conns))
           T == {n \in 0 .. Len(conns) : kept[n] \in Seq(Connections) /\ Len(kept[n]) <= n}
<1>1. Len(conns) \in Nat /\ conns \in [1 .. Len(conns) -> Connections]
  BY DEF Pool
<1>2. Stays(kept, conns, t, Len(conns))
  BY <1>1, StaysExists
<1>3. MaxIdleTime # 0 => Cleanup(conns, t) = kept[Len(conns)]
  BY Zenon DEF Cleanup, Stays
<1>4. MaxIdleTime = 0 => Cleanup(conns, t) = conns
  BY Zenon DEF Cleanup
<1> HIDE DEF kept
<1>5. kept[0] = <<>>
  BY <1>1, <1>2 DEF Stays
<1>6. \A n \in 1 .. Len(conns) :
        kept[n] = kept[n - 1] \/ kept[n] = Append(kept[n - 1], conns[n])
  <2>1. ASSUME NEW n \in 0 .. Len(conns)
        PROVE  kept[n] = IF n = 0 THEN <<>>
                         ELSE IF t - conns[n].last > MaxIdleTime THEN kept[n - 1]
                         ELSE Append(kept[n - 1], conns[n])
    BY <1>2, Zenon DEF Stays
  <2>2. ASSUME NEW n \in 1 .. Len(conns)
        PROVE  kept[n] = kept[n - 1] \/ kept[n] = Append(kept[n - 1], conns[n])
    <3>1. n \in 0 .. Len(conns) /\ n # 0
      BY <1>1
    <3> QED
      BY <2>1, <3>1, Zenon
  <2> QED
    BY <2>2
<1>7. 0 \in T /\ \A n \in 1 .. Len(conns) : n - 1 \in T => n \in T
  <2>1. 0 \in T
    <3>1. <<>> \in Seq(Connections) /\ Len(<<>>) = 0
      OBVIOUS
    <3>2. kept[0] \in Seq(Connections) /\ Len(kept[0]) <= 0
      BY <1>5, <3>1
    <3>3. 0 \in 0 .. Len(conns)
      BY <1>1
    <3> QED
      BY <3>2, <3>3
  <2>2. ASSUME NEW n \in 1 .. Len(conns), n - 1 \in T PROVE n \in T
    <3>1. PICK s \in Seq(Connections) : s = kept[n - 1] /\ Len(s) <= n - 1
      BY <2>2
    <3>2. PICK x \in Connections : x = conns[n]
      BY <1>1
    <3>3. Append(s, x) \in Seq(Connections) /\ Len(Append(s, x)) = Len(s) + 1 /\ Len(s) \in Nat
      OBVIOUS
    <3>4. kept[n] \in Seq(Connections) /\ Len(kept[n]) <= n
      <4>1. kept[n] = s \/ kept[n] = Append(s, x)
        BY <1>6, <3>1, <3>2
      <4>2. CASE kept[n] = s
        BY <3>1, <3>3, <4>2
      <4>3. CASE kept[n] = Append(s, x)
        <5>1. Len(Append(s, x)) <= n
          BY <3>1, <3>3
        <5> QED
          BY <3>3, <4>3, <5>1
      <4> QED
        BY <4>1, <4>2, <4>3
    <3> QED
      BY <1>1, <3>4
  <2> QED
    BY <2>1, <2>2
<1>8. Len(conns) \in T
  <2> HIDE DEF T
  <2>1. \A n \in 0 .. Len(conns) : n \in T
    BY <1>1, <1>7, UpTo
  <2> QED
    BY <1>1, <2>1
<1>9. kept[Len(conns)] \in Seq(Connections) /\ Len(kept[Len(conns)]) <= Len(conns)
  BY <1>8
<1> QED
  BY <1>1, <1>3, <1>4, <1>9, TcpOutAssumption DEF Pool

\* A connection is stored only where there is room for it.
LEMMA StoredPool ==
  ASSUME NEW conns, Pool(conns), NEW conn \in Connections, NEW t \in Times
  PROVE  Pool(Stored(conns, conn, t))
<1> DEFINE used == [conn EXCEPT !.queries = @ + 1, !.last = t]
           room == IF Full(conn.addr, conns) THEN Cleanup(conns, t) ELSE conns
<1>1. used \in Connections
  <2>1. PICK n \in Nat : n = conn.queries + 1
    BY DEF Connections
  <2>2. used = [conn EXCEPT !.queries = n, !.last = t]
    BY <2>1
  <2> HIDE DEF used
  <2> QED
    BY <2>2 DEF Connections
<1>2. Pool(room)
  BY CleanupPool
<1>3. Stored(conns, conn, t) \in {conns, room} \/ (~Full(conn.addr, room) /\ Stored(conns, conn, t) = Append(room, used))
  BY DEF Stored
<1> HIDE DEF used, room
<1>4. ~Full(conn.addr, room) => Pool(Append(room, used))
  <2>1. room \in Seq(Connections) /\ Len(room) \in Nat
    BY <1>2 DEF Pool
  <2>2. Append(room, used) \in Seq(Connections) /\ Len(Append(room, used)) = Len(room) + 1
    BY <1>1, <2>1
  <2> QED
    BY <2>1, <2>2, TcpOutAssumption DEF Full, Pool
<1> QED
  BY <1>2, <1>3, <1>4

\* The connection taken out to a server is one of those kept.
LEMMA GotPool ==
  ASSUME NEW conns, Pool(conns), NEW a, To(a, conns) # {}
  PROVE  Got(conns, a) \in Connections /\ Pool(Left(conns, a))
<1>1. conns \in Seq(Connections) /\ Len(conns) \in Nat /\ Len(conns) <= MaxIdlePerThread
  BY DEF Pool
<1>2. To(a, conns) \subseteq 1 .. Len(conns)
  BY <1>1 DEF To
<1>3. Min(To(a, conns)) \in To(a, conns)
  <2>1. To(a, conns) \subseteq Nat
    BY <1>2
  <2>2. \E n \in To(a, conns) : \A m \in To(a, conns) : n <= m
    BY <2>1, LeastNumber
  <2> QED
    BY <2>2 DEF Min
<1>4. PICK i \in 1 .. Len(conns) : i = Min(To(a, conns))
  BY <1>2, <1>3
<1>5. /\ SubSeq(conns, 1, i - 1) \in Seq(Connections) /\ Len(SubSeq(conns, 1, i - 1)) = i - 1
      /\ SubSeq(conns, i + 1, Len(conns)) \in Seq(Connections)
      /\ Len(SubSeq(conns, i + 1, Len(conns))) = Len(conns) - i
  BY <1>1
<1>6. PICK s \in Seq(Connections), r \in Seq(Connections) :
        /\ s = SubSeq(conns, 1, i - 1) /\ r = SubSeq(conns, i + 1, Len(conns))
        /\ Len(s) = i - 1 /\ Len(r) = Len(conns) - i
  BY <1>5
<1>7. s \o r \in Seq(Connections) /\ Len(s \o r) = Len(s) + Len(r)
  OBVIOUS
<1>8. Left(conns, a) = s \o r
  BY <1>4, <1>6 DEF Left, RemoveAt
<1>9. Got(conns, a) \in Connections
  <2>1. conns[i] \in Connections
    BY <1>1
  <2> QED
    BY <1>4, <2>1 DEF Got
<1>10. Len(s) + Len(r) <= MaxIdlePerThread
  <2>1. PICK l \in Nat : l = Len(conns)
    BY <1>1
  <2>2. i \in 1 .. l /\ l <= MaxIdlePerThread /\ Len(s) + Len(r) = (i - 1) + (l - i)
    BY <1>1, <1>4, <1>6, <2>1
  <2>3. MaxIdlePerThread \in Nat
    BY TcpOutAssumption
  <2> QED
    BY <2>1, <2>2, <2>3
<1> QED
  BY <1>7, <1>8, <1>9, <1>10 DEF Pool

-----------------------------------------------------------------------------
(* Types *)

\* What is there of a resolution depends on where it is.
Sane(r) ==
  /\ r.at # "idle" => r.question \in Questions
  /\ r.at \notin {"idle", "next"} => r.addr \in Addrs
  /\ r.at = "tcp" => r.conn \in Connections
  /\ r.at \in {"failed", "punish"} => r.got \in Offences

Fits(r) == r \in Resolutions /\ Sane(r)

\* With a question and a server it may wait or go on anywhere.
Underway(r) == r \in Resolutions /\ r.question \in Questions /\ r.addr \in Addrs

Common == now \in Times /\ setup \in Setups

\* A table of entries of S for some of K.
Maps(table, K, S) == DOMAIN table \subseteq K /\ \A k \in DOMAIN table : table[k] \in S

Throttles(table) == Maps(table, Keys, [ttd : Nat, count : Nat])
Failures(table) == Maps(table, Addrs, [value : 1 .. MaxFails, last : Times])
Statuses(table) == Maps(table, Addrs, [mode : {"EDNSIGNORANT", "NOEDNS"}, ttd : Nat])
Tables == Throttles(throttle) /\ Failures(fails) /\ Statuses(ednsstatus)
Pools == DOMAIN idle = Threads /\ \A th \in Threads : Pool(idle[th])
Works == DOMAIN work = Workers /\ work \in [Workers -> Resolutions] /\ \A w \in Workers : Sane(work[w])
Histories == row \in [Addrs -> 0 .. MaxFails] /\ formerr \in [Addrs -> Times \cup {-1}]

TInv == Common /\ Tables /\ Pools /\ Works /\ Histories

LEMMA Limits ==
  ASSUME Common
  PROVE  /\ setup.maxqperq \in Nat /\ setup.servers \subseteq Addrs
         /\ setup.thread \in [Workers -> Threads]
         /\ 0 \in Times /\ Times \subseteq Nat
  BY ExchangesAssumption, ServersAssumption DEF Common, Times

LEMMA NoWorkFits ==
  ASSUME Common PROVE Fits(NoWork)
<1>1. 0 \in 0 .. setup.maxqperq /\ 0 \in Times
  BY Limits
<1>2. NoWork \in Resolutions
  BY <1>1 DEF NoWork, Resolutions
<1> QED
  BY <1>2 DEF Fits, Sane, NoWork

LEMMA NextAddrFits ==
  ASSUME Common, NEW r \in Resolutions, r.question \in Questions
  PROVE  Fits(NextAddr(r))
<1>1. CASE r.left = {}
  BY <1>1, NoWorkFits DEF NextAddr
<1>2. CASE r.left # {}
  <2> DEFINE s == [r EXCEPT !.at = "next", !.addr = NoAddr, !.tcp = FALSE, !.bare = FALSE,
                     !.chained = FALSE, !.conn = NoConn, !.reused = FALSE, !.got = "nothing"]
  <2>1. s \in Resolutions /\ s.at = "next" /\ s.question = r.question
    BY DEF Resolutions
  <2>2. NextAddr(r) = s
    BY <1>2 DEF NextAddr
  <2> HIDE DEF s
  <2> QED
    BY <2>1, <2>2 DEF Fits, Sane
<1> QED
  BY <1>1, <1>2

LEMMA UnderwayAt ==
  ASSUME TInv, NEW w \in Workers, work[w].at \notin {"idle", "next"}
  PROVE  Underway(work[w])
  BY DEF TInv, Works, Sane, Underway

LEMMA UnderwayFits ==
  ASSUME NEW r, Underway(r), r.at \notin {"tcp", "failed", "punish"} PROVE Fits(r)
  BY DEF Underway, Fits, Sane

\* A resolution goes on.
LEMMA GoesOn ==
  ASSUME TInv, UNCHANGED <<now, setup>>, NEW w \in Workers, NEW r, Continue(w, r), Fits(r)
  PROVE  Common' /\ Works'
<1>1. Common'
  BY DEF TInv, Common
<1>2. work' = [work EXCEPT ![w] = r] /\ work \in [Workers -> Resolutions] /\ r \in Resolutions
  BY DEF Continue, TInv, Works, Fits
<1>3. work' \in [Workers -> Resolutions]
  BY <1>2
<1>4. Resolutions' = Resolutions
  BY DEF Resolutions
<1>5. ASSUME NEW v \in Workers PROVE Sane(work'[v])
  BY <1>2 DEF TInv, Works, Fits
<1>6. \A v \in Workers : Sane(work[v])'
  BY <1>5 DEF Sane
<1> QED
  BY <1>1, <1>2, <1>3, <1>4, <1>6 DEF Works

\* One more question asked is still no more than the limit.
LEMMA CountFits ==
  ASSUME Common, NEW r \in Resolutions, ~TooMany(Count(r))
  PROVE  /\ Count(r) \in Resolutions /\ Count(r).at = r.at /\ Count(r).question = r.question
         /\ Count(r).addr = r.addr
<1>1. PICK n \in Nat : n = r.sent + 1 /\ n \in Nat
  BY Limits DEF Resolutions
<1> DEFINE s == [r EXCEPT !.sent = n]
<1>2. Count(r) = s
  BY <1>1 DEF Count
<1>3. s.sent = n
  BY DEF Resolutions
<1>4. n \in 0 .. setup.maxqperq
  BY <1>1, <1>2, <1>3, Limits DEF TooMany
<1>5. s \in Resolutions /\ s.at = r.at /\ s.question = r.question /\ s.addr = r.addr
  BY <1>4 DEF Resolutions
<1> QED
  BY <1>2, <1>5

LEMMA RefusedFits ==
  ASSUME TInv, UNCHANGED <<now, setup>>, NEW w \in Workers, NEW r \in Resolutions, r.question \in Questions,
         Refused(w, r)
  PROVE  Common' /\ Works'
<1>1. Common
  BY DEF TInv
<1>2. CASE TooMany(Count(r))
  BY <1>1, <1>2, NoWorkFits, GoesOn DEF Refused
<1>3. CASE ~TooMany(Count(r))
  BY <1>1, <1>3, CountFits, NextAddrFits, GoesOn DEF Refused
<1> QED
  BY <1>2, <1>3

-----------------------------------------------------------------------------
(* Types of the tables *)

LEMMA MapsFewer ==
  ASSUME NEW table, NEW K, NEW S, Maps(table, K, S)
  PROVE  /\ \A key : Maps(Without(table, key), K, S)
         /\ \A I : I \subseteq DOMAIN table => Maps(Restrict(table, I), K, S)
<1>1. ASSUME NEW key PROVE Maps(Without(table, key), K, S)
  <2>1. PICK t : t = Without(table, key)
    OBVIOUS
  <2>2. DOMAIN t = DOMAIN table \ {key} /\ \A k \in DOMAIN table : k # key => t[k] = table[k]
    BY <2>1, WithoutIs
  <2> QED
    BY <2>1, <2>2 DEF Maps
<1>2. ASSUME NEW I, I \subseteq DOMAIN table PROVE Maps(Restrict(table, I), K, S)
  BY <1>2 DEF Maps, Restrict
<1> QED
  BY <1>1, <1>2

LEMMA MapsMore ==
  ASSUME NEW table, NEW K, NEW S, Maps(table, K, S), NEW key \in K, NEW entry \in S
  PROVE  Maps(With(table, key, entry), K, S)
  BY DEF Maps, With

LEMMA AskedTyped ==
  ASSUME Throttles(throttle), NEW key, NEW t PROVE Throttles(Asked(key, t))
<1>1. CASE ShouldThrottle(key, t)
  <2>1. PICK n \in Nat : n = throttle[key].count - 1
    BY <1>1 DEF ShouldThrottle, Throttles, Maps
  <2>2. Asked(key, t) = [throttle EXCEPT ![key].count = n]
    BY <1>1, <2>1 DEF Asked
  <2> QED
    BY <1>1, <2>2 DEF Throttles, Maps, ShouldThrottle
<1>2. CASE ~ShouldThrottle(key, t)
  <2>1. Asked(key, t) = Without(throttle, key)
    BY <1>2 DEF Asked
  <2> QED
    BY <2>1, MapsFewer DEF Throttles
<1> QED
  BY <1>1, <1>2

LEMMA Largest ==
  ASSUME NEW x \in Nat, NEW y \in Nat PROVE Max({x, y}) \in Nat
<1>1. \E m \in {x, y} : \A z \in {x, y} : m >= z
  BY SMT
<1> QED
  BY <1>1 DEF Max

LEMMA ThrottledTyped ==
  ASSUME Throttles(throttle), NEW key \in Keys, NEW t \in Nat, NEW offence \in Offences
  PROVE  Throttles(Throttled(key, t, offence))
<1>1. PICK ttl \in Nat, count \in Nat :
        ttl = Penalties[offence].ttl /\ count = Penalties[offence].count
  BY ServersAssumption
<1>2. PICK ttd \in Nat : ttd = t + ttl
  OBVIOUS
<1>3. \E entry \in [ttd : Nat, count : Nat] : Throttled(key, t, offence) = With(throttle, key, entry)
  <2>1. CASE key \in DOMAIN throttle
    <3>1. throttle[key].ttd \in Nat /\ throttle[key].count \in Nat
      BY <2>1 DEF Throttles, Maps
    <3>2. PICK d \in Nat, c \in Nat :
            d = Max({throttle[key].ttd, ttd}) /\ c = Max({throttle[key].count, count})
      BY <3>1, Largest
    <3>3. Throttled(key, t, offence) = With(throttle, key, [ttd |-> d, count |-> c])
      BY <1>1, <1>2, <2>1, <3>2 DEF Throttled
    <3> QED
      BY <3>3
  <2>2. CASE key \notin DOMAIN throttle
    <3>1. Throttled(key, t, offence) = With(throttle, key, [ttd |-> ttd, count |-> count])
      BY <1>1, <1>2, <2>2 DEF Throttled
    <3> QED
      BY <3>1
  <2> QED
    BY <2>1, <2>2
<1> DEFINE S == [ttd : Nat, count : Nat]
<1>4. Maps(throttle, Keys, S) /\ \E entry \in S : Throttled(key, t, offence) = With(throttle, key, entry)
  BY <1>3 DEF Throttles
<1> HIDE DEF S
<1>5. Maps(Throttled(key, t, offence), Keys, S)
  BY <1>4, MapsMore
<1> QED
  BY <1>5 DEF Throttles, S

LEMMA IncrementedTyped ==
  ASSUME Failures(fails), NEW a \in Addrs, NEW t \in Times
  PROVE  Failures(Incremented(a, t)) /\ Incremented(a, t)[a].value \in 1 .. MaxFails
<1>1. PICK n \in Nat : n = FailCount(a)
  BY DEF FailCount, Failures, Maps
<1>2. MaxFails \in Nat \ {0}
  BY ServersAssumption
<1>3. PICK v \in 1 .. MaxFails : v = Min({n + 1, MaxFails})
  <2>1. PICK m \in Int, x \in Int : m = n + 1 /\ x = MaxFails
    BY <1>2
  <2>2. Min({m, x}) \in {m, x} /\ Min({m, x}) <= x
    BY <2>1, Fewest
  <2> QED
    BY <1>2, <2>1, <2>2
<1>4. Incremented(a, t) = With(fails, a, [value |-> v, last |-> t])
  BY <1>1, <1>3 DEF Incremented
<1> DEFINE S == [value : 1 .. MaxFails, last : Times]
<1>5. Maps(fails, Addrs, S) /\ [value |-> v, last |-> t] \in S
  BY DEF Failures
<1>6. Incremented(a, t)[a] = [value |-> v, last |-> t]
  BY <1>4 DEF With
<1> HIDE DEF S
<1>7. Maps(Incremented(a, t), Addrs, S)
  BY <1>4, <1>5, MapsMore
<1> QED
  BY <1>6, <1>7 DEF Failures, S

LEMMA ModeSetTyped ==
  ASSUME Statuses(ednsstatus), NEW a \in Addrs, NEW mode \in {"EDNSIGNORANT", "NOEDNS"}, NEW t \in Nat
  PROVE  Statuses(ModeSet(a, mode, t))
<1>1. PICK ttd \in Nat : ttd = t + Expire
  BY ServersAssumption
<1>2. ModeSet(a, mode, t) \in {ednsstatus, With(ednsstatus, a, [mode |-> mode, ttd |-> ttd])}
  BY <1>1 DEF ModeSet
<1> QED
  BY <1>2, MapsMore DEF Statuses

LEMMA FewerTyped ==
  ASSUME Tables, NEW key
  PROVE  /\ Throttles(Without(throttle, key)) /\ Failures(Without(fails, key))
         /\ Statuses(Without(ednsstatus, key))
  BY MapsFewer DEF Tables, Throttles, Failures, Statuses

-----------------------------------------------------------------------------
(* Types are kept *)

LEMMA TogetherTyped ==
  ASSUME Common', Works', Pools', Histories',
         Throttles(throttle'), Failures(fails'), Statuses(ednsstatus')
  PROVE  TInv'
  BY DEF TInv, Tables, Throttles, Failures, Statuses, Maps

\* Steps that change the throttle at most.
LEMMA ThrottleSteps ==
  ASSUME TInv, UNCHANGED <<fails, ednsstatus, idle, history>>, Common', Works', Throttles(throttle')
  PROVE  TInv'
<1>1. Pools' /\ Histories'
  BY DEF TInv, Pools, Histories, history, Pool
<1>2. Failures(fails') /\ Statuses(ednsstatus')
  BY DEF TInv, Tables
<1> QED
  BY <1>1, <1>2, TogetherTyped

LEMMA StartTyped ==
  ASSUME TInv, NEW w \in Workers, NEW q \in Questions, Start(w, q) PROVE TInv'
<1> DEFINE r == [NoWork EXCEPT !.at = "next", !.question = q, !.left = setup.servers, !.dnow = now]
<1>1. Common /\ Continue(w, r) /\ UNCHANGED <<now, tables, setup, idle, history>>
  BY DEF Start, TInv
<1>2. NoWork \in Resolutions /\ setup.servers \subseteq Addrs
  BY <1>1, NoWorkFits, Limits DEF Fits
<1>3. r \in Resolutions /\ r.at = "next" /\ r.question = q
  BY <1>1, <1>2 DEF Resolutions, Common
<1> HIDE DEF r
<1>4. Common' /\ Works'
  BY <1>1, <1>3, GoesOn DEF Fits, Sane
<1> QED
  BY <1>1, <1>4, ThrottleSteps DEF TInv, Tables, tables

LEMMA PassServerTyped ==
  ASSUME TInv, NEW w \in Workers, NEW a \in Addrs, PassServer(w, a) PROVE TInv'
<1> DEFINE r == [work[w] EXCEPT !.at = "question", !.addr = a, !.left = @ \ {a}]
<1>1. /\ Continue(w, r) /\ UNCHANGED <<now, fails, ednsstatus, setup, idle, history>>
      /\ throttle' = Asked(<<a, Whole>>, work[w].dnow) /\ work[w].at = "next"
  BY DEF PassServer, At
<1>2. work[w] \in Resolutions /\ work[w].question \in Questions
  BY <1>1 DEF TInv, Works, Sane
<1>3. Underway(r) /\ r.at = "question"
  BY <1>2 DEF Resolutions, Underway
<1> HIDE DEF r
<1>4. Common' /\ Works'
  BY <1>1, <1>3, GoesOn, UnderwayFits
<1> QED
  BY <1>1, <1>4, ThrottleSteps, AskedTyped DEF TInv, Tables

LEMMA RefuseServerTyped ==
  ASSUME TInv, NEW w \in Workers, NEW a \in Addrs, RefuseServer(w, a) PROVE TInv'
<1> DEFINE r == [work[w] EXCEPT !.left = @ \ {a}]
<1>1. /\ Refused(w, r) /\ UNCHANGED <<now, fails, ednsstatus, setup, idle, history>>
      /\ throttle' = Asked(<<a, Whole>>, work[w].dnow) /\ work[w].at = "next"
  BY DEF RefuseServer, At
<1>2. work[w] \in Resolutions /\ work[w].question \in Questions
  BY <1>1 DEF TInv, Works, Sane
<1>3. r \in Resolutions /\ r.question \in Questions
  BY <1>2 DEF Resolutions
<1> HIDE DEF r
<1>4. Common' /\ Works'
  BY <1>1, <1>3, RefusedFits
<1> QED
  BY <1>1, <1>4, ThrottleSteps, AskedTyped DEF TInv, Tables

LEMMA CheckQuestionTyped ==
  ASSUME TInv, NEW w \in Workers, NEW a \in Addrs, CheckQuestion(w, a) PROVE TInv'
<1> DEFINE r == [work[w] EXCEPT !.at = "ask"]
<1>1. /\ Refused(w, work[w]) \/ Continue(w, r)
      /\ UNCHANGED <<now, fails, ednsstatus, setup, idle, history>>
      /\ throttle' = Asked(<<a, work[w].question>>, work[w].dnow) /\ work[w].at = "question"
  BY DEF CheckQuestion, At
<1>2. Underway(work[w])
  BY <1>1, UnderwayAt
<1>3. Underway(r) /\ r.at = "ask"
  BY <1>2 DEF Resolutions, Underway
<1> HIDE DEF r
<1>4. Common' /\ Works'
  BY <1>1, <1>2, <1>3, RefusedFits, GoesOn, UnderwayFits DEF Underway
<1> QED
  BY <1>1, <1>4, ThrottleSteps, AskedTyped DEF TInv, Tables

\* A thread's idle connections change.
LEMMA PoolChanges ==
  ASSUME TInv, NEW th \in Threads, NEW conns, Pool(conns), idle' = [idle EXCEPT ![th] = conns]
  PROVE  Pools'
<1>1. DOMAIN idle' = Threads /\ \A x \in Threads : Pool(idle'[x])
  BY DEF TInv, Pools
<1>2. \A x \in Threads : Pool(idle[x])'
  BY <1>1 DEF Pool
<1> QED
  BY <1>1, <1>2 DEF Pools

LEMMA ThreadOf ==
  ASSUME TInv, NEW w \in Workers PROVE Thread(w) \in Threads /\ Pool(idle[Thread(w)])
  BY Limits DEF TInv, Thread, Pools

LEMMA StoredIfValidPool ==
  ASSUME TInv, NEW conns, Pool(conns), NEW conn \in Connections, NEW r
  PROVE  Pool(StoredIfValid(conns, conn, r))
  BY StoredPool DEF StoredIfValid, TInv, Common

LEMMA NewConnectionTyped ==
  ASSUME Common, NEW a \in Addrs, NEW open \in BOOLEAN PROVE NewConnection(a, open) \in Connections
  BY Limits DEF NewConnection, Connections

LEMMA ConnectTyped ==
  ASSUME TInv, UNCHANGED <<now, setup>>, NEW w \in Workers, NEW r, Underway(r),
         NEW conns, Pool(conns), Connect(w, r, conns)
  PROVE  Common' /\ Works' /\ Pools'
<1> DEFINE a == r.addr
           use(conn, reused) == [r EXCEPT !.at = "tcp", !.conn = conn, !.reused = reused]
           own(seq) == idle' = [idle EXCEPT ![Thread(w)] = seq]
           over == NextAddr([r EXCEPT !.dnow = now])
<1>1. a \in Addrs /\ Common /\ now \in Times
  BY DEF Underway, TInv, Common
<1>2. ASSUME NEW conn \in Connections, NEW reused \in BOOLEAN PROVE Fits(use(conn, reused))
  <2>1. use(conn, reused) \in Resolutions
    BY DEF Underway, Resolutions
  <2>2. /\ use(conn, reused).at = "tcp" /\ use(conn, reused).conn = conn
        /\ use(conn, reused).question = r.question /\ use(conn, reused).addr = r.addr
    BY DEF Underway, Resolutions
  <2> HIDE DEF use
  <2> QED
    BY <2>1, <2>2 DEF Fits, Sane, Underway
<1>3. Fits(over)
  <2>1. PICK s : s = [r EXCEPT !.dnow = now]
    OBVIOUS
  <2>2. s \in Resolutions /\ s.question \in Questions
    BY <1>1, <2>1 DEF Underway, Resolutions
  <2> QED
    BY <1>1, <2>1, <2>2, NextAddrFits
<1>4. \/ Continue(w, use(Got(conns, a), TRUE)) /\ own(Left(conns, a)) /\ To(a, conns) # {}
      \/ Continue(w, use(NewConnection(a, TRUE), FALSE)) /\ own(conns)
      \/ Continue(w, over) /\ own(conns)
      \/ Continue(w, over) /\ own(StoredIfValid(conns, NewConnection(a, FALSE), r))
  BY DEF Connect
<1> HIDE DEF over, use, a
<1>5. PICK seq, s : own(seq) /\ Pool(seq) /\ Continue(w, s) /\ Fits(s)
  <2>1. NewConnection(a, TRUE) \in Connections /\ NewConnection(a, FALSE) \in Connections
    BY <1>1, NewConnectionTyped
  <2>2. Pool(StoredIfValid(conns, NewConnection(a, FALSE), r))
    BY <2>1, StoredIfValidPool
  <2>3. To(a, conns) # {} => Got(conns, a) \in Connections /\ Pool(Left(conns, a))
    BY GotPool
  <2> HIDE DEF own
  <2> QED
    BY <1>2, <1>3, <1>4, <2>1, <2>2, <2>3
<1> QED
  BY <1>5, GoesOn, PoolChanges, ThreadOf

LEMMA AskTyped ==
  ASSUME TInv, NEW w \in Workers, NEW a \in Addrs, Ask(w, a) PROVE TInv'
<1> DEFINE asked(r) == [r EXCEPT !.at = "udp", !.bare = Mode(a, r.dnow) = "NOEDNS", !.chained = FALSE]
<1>1. PICK r : r = Count(work[w])
  OBVIOUS
<1>2. /\ UNCHANGED <<now, throttle, fails, setup, history>> /\ work[w].at = "ask"
      /\ \/ TooMany(r) /\ Continue(w, NoWork) /\ UNCHANGED <<ednsstatus, idle>>
         \/ /\ ~TooMany(r) /\ ednsstatus' = Noticed(a, r.dnow)
            /\ \/ Connect(w, asked(r), idle[Thread(w)])
               \/ Continue(w, asked(r)) /\ UNCHANGED idle
  BY <1>1 DEF Ask, At
<1>3. Common /\ Underway(work[w])
  BY <1>2, UnderwayAt DEF TInv
<1>4. UNCHANGED idle => Pools'
  BY DEF TInv, Pools, Pool
<1>5. Statuses(ednsstatus')
  <2>1. ednsstatus' \in {ednsstatus, Without(ednsstatus, a)}
    BY <1>2 DEF Noticed
  <2> QED
    BY <2>1, FewerTyped DEF TInv, Tables
<1>6. ASSUME ~TooMany(r) PROVE Underway(asked(r)) /\ asked(r).at = "udp"
  <2>1. Underway(r)
    BY <1>1, <1>3, <1>6, CountFits DEF Underway
  <2>2. PICK b \in BOOLEAN : b = (Mode(a, r.dnow) = "NOEDNS")
    OBVIOUS
  <2>3. PICK s : s = [r EXCEPT !.at = "udp", !.bare = b, !.chained = FALSE]
    OBVIOUS
  <2>4. asked(r) = s
    BY <2>2, <2>3
  <2> HIDE DEF asked
  <2>5. Underway(s) /\ s.at = "udp"
    BY <2>1, <2>3 DEF Underway, Resolutions
  <2> QED
    BY <2>4, <2>5
<1> HIDE DEF asked
<1>7. Common' /\ Works' /\ Pools'
  <2>1. CASE TooMany(r)
    BY <1>2, <1>3, <1>4, <2>1, NoWorkFits, GoesOn
  <2>2. CASE ~TooMany(r)
    BY <1>2, <1>4, <1>6, <2>2, ConnectTyped, ThreadOf, GoesOn, UnderwayFits
  <2> QED
    BY <2>1, <2>2
<1>8. Histories'
  BY <1>2 DEF TInv, Histories, history
<1> QED
  BY <1>2, <1>5, <1>7, <1>8, TogetherTyped DEF TInv, Tables

\* An exchange ends: its histories and what the resolution makes of it.
LEMMA FailedTyped ==
  ASSUME TInv, UNCHANGED <<now, setup>>, NEW w \in Workers, NEW r, Underway(r), NEW got,
         NEW genuine \in BOOLEAN, genuine => got \in {"timeout", "error"}, Failed(w, r, got, genuine)
  PROVE  Common' /\ Works' /\ Histories'
<1> DEFINE s == [r EXCEPT !.at = "failed", !.got = got]
<1>1. Common /\ r.addr \in Addrs /\ MaxFails \in Nat \ {0}
  BY ServersAssumption DEF TInv, Underway
<1>2. Continue(w, IF genuine THEN s ELSE NextAddr(r))
  BY DEF Failed
<1>3. genuine => Fits(s)
  <2>1. SUFFICES ASSUME genuine PROVE Fits(s)
    OBVIOUS
  <2>2. got \in Offences
    BY <2>1 DEF Offences
  <2>3. s \in Resolutions
    BY <2>2 DEF Underway, Resolutions
  <2>4. s.at = "failed" /\ s.got = got /\ s.question = r.question /\ s.addr = r.addr
    BY DEF Underway, Resolutions
  <2> HIDE DEF s
  <2> QED
    BY <2>2, <2>3, <2>4 DEF Fits, Sane, Underway
<1> HIDE DEF s
<1>4. Common' /\ Works'
  BY <1>1, <1>2, <1>3, NextAddrFits, GoesOn DEF Underway
<1>5. Histories'
  <2>1. PICK n \in Nat : n = row[r.addr] + 1
    BY <1>1 DEF TInv, Histories
  <2>2. PICK m \in 0 .. MaxFails : m = Min({n, MaxFails})
    <3>1. PICK x \in Int, y \in Int : x = n /\ y = MaxFails
      BY <1>1
    <3>2. Min({x, y}) \in {x, y} /\ Min({x, y}) <= y
      BY <3>1, Fewest
    <3> QED
      BY <1>1, <3>1, <3>2
  <2>3. Min({row[r.addr] + 1, MaxFails}) = m
    BY <2>1, <2>2
  <2>4. row' = IF genuine THEN [row EXCEPT ![r.addr] = m] ELSE row
    BY <2>3 DEF Failed
  <2>5. row' \in [Addrs -> 0 .. MaxFails] /\ formerr' = formerr
    BY <2>4 DEF TInv, Histories, Failed
  <2>6. Times' = Times
    BY DEF Times
  <2> QED
    BY <2>5, <2>6 DEF TInv, Histories
<1> QED
  BY <1>4, <1>5

LEMMA JudgedTyped ==
  ASSUME TInv, UNCHANGED <<now, setup>>, NEW w \in Workers, NEW r, Underway(r), NEW kind \in Replies,
         Judged(w, r, kind)
  PROVE  Common' /\ Works' /\ Histories'
<1>1. PICK offence \in Offences :
        offence = IF kind # "garbage" THEN "rcode" ELSE IF r.tcp THEN "garbageTCP" ELSE "garbage"
  BY DEF Offences
<1> DEFINE good == [r EXCEPT !.at = "answered", !.got = kind]
           bad == [r EXCEPT !.at = "punish", !.got = offence]
<1>2. Common /\ r.addr \in Addrs /\ MaxFails \in Nat \ {0}
  BY ServersAssumption DEF TInv, Underway
<1>3. \/ kind \in {"answer", "truncated"} /\ Continue(w, good) /\ row' = [row EXCEPT ![r.addr] = 0] /\ UNCHANGED formerr
      \/ Continue(w, NextAddr(r)) /\ UNCHANGED history
      \/ Continue(w, bad) /\ UNCHANGED history
  BY <1>1 DEF Judged
<1>4. kind \in {"answer", "truncated"} => Fits(good)
  <2>1. SUFFICES ASSUME kind \in {"answer", "truncated"} PROVE Fits(good)
    OBVIOUS
  <2>2. kind \in {"nothing"} \cup Offences \cup {"answer"}
    BY <2>1 DEF Offences
  <2>3. Underway(good) /\ good.at = "answered"
    BY <2>2 DEF Underway, Resolutions
  <2> HIDE DEF good
  <2> QED
    BY <2>3, UnderwayFits
<1>5. Fits(bad)
  <2>1. bad \in Resolutions
    BY DEF Underway, Resolutions
  <2>2. bad.at = "punish" /\ bad.got = offence /\ bad.question = r.question /\ bad.addr = r.addr
    BY DEF Underway, Resolutions
  <2> HIDE DEF bad
  <2> QED
    BY <2>1, <2>2 DEF Fits, Sane, Underway
<1> HIDE DEF good, bad
<1>6. Common' /\ Works'
  BY <1>2, <1>3, <1>4, <1>5, NextAddrFits, GoesOn DEF Underway
<1>7. Histories'
  <2>1. row' \in [Addrs -> 0 .. MaxFails] /\ formerr' = formerr
    BY <1>2, <1>3 DEF TInv, Histories, history
  <2>2. Times' = Times
    BY DEF Times
  <2> QED
    BY <2>1, <2>2 DEF TInv, Histories
<1> QED
  BY <1>6, <1>7

LEMMA FormErrTyped ==
  ASSUME TInv, UNCHANGED <<now, setup>>, NEW a, FormErr(a) PROVE Histories'
  BY DEF TInv, Common, Histories, FormErr, Times

LEMMA LearntTyped ==
  ASSUME TInv, NEW r, Underway(r), NEW kind, NEW edns PROVE Statuses(Learnt(r, kind, edns))
<1>1. r.addr \in Addrs /\ now \in Nat
  BY Limits DEF Underway, TInv, Common
<1>2. PICK mode \in {"EDNSIGNORANT", "NOEDNS"} : mode = IF kind = "formerr" THEN "NOEDNS" ELSE "EDNSIGNORANT"
  OBVIOUS
<1>3. Learnt(r, kind, edns) \in {ednsstatus, Without(ednsstatus, r.addr), ModeSet(r.addr, mode, now)}
  BY <1>2 DEF Learnt
<1> QED
  BY <1>1, <1>3, FewerTyped, ModeSetTyped DEF TInv, Tables

\* Steps that leave the throttle and the failures alone.
LEMMA ExchangeSteps ==
  ASSUME TInv, UNCHANGED <<throttle, fails>>, Statuses(ednsstatus'), Common', Works', Pools', Histories'
  PROVE  TInv'
  BY TogetherTyped DEF TInv, Tables

LEMMA BareUnderway ==
  ASSUME NEW r, Underway(r)
  PROVE  Underway([r EXCEPT !.bare = TRUE]) /\ [r EXCEPT !.bare = TRUE].at = r.at
  BY DEF Underway, Resolutions

LEMMA PoolsStay ==
  ASSUME TInv, UNCHANGED idle PROVE Pools'
  BY DEF TInv, Pools, Pool

LEMMA UdpFailsTyped ==
  ASSUME TInv, NEW w \in Workers, UdpFails(w) PROVE TInv'
<1>1. work[w].at = "udp" /\ UNCHANGED <<now, tables, setup, idle>>
  BY DEF UdpFails, At
<1>2. Underway(work[w]) /\ work[w] \in Resolutions /\ now \in Times
  BY <1>1, UnderwayAt DEF Underway, TInv, Common
<1>3. PICK got \in {"timeout", "error", "limit"}, chained \in BOOLEAN, dnow \in {now, work[w].dnow} :
        Failed(w, [work[w] EXCEPT !.dnow = dnow], got, got # "limit" /\ ~chained)
  BY Zenon DEF UdpFails, MayBeChained, Possible
<1>4. PICK genuine \in BOOLEAN : genuine = (got # "limit" /\ ~chained)
  OBVIOUS
<1>5. dnow \in Times /\ (genuine => got \in {"timeout", "error"})
  BY <1>2, <1>4 DEF Resolutions
<1>6. PICK r : r = [work[w] EXCEPT !.dnow = dnow]
  OBVIOUS
<1>7. Underway(r)
  BY <1>2, <1>5, <1>6 DEF Underway, Resolutions
<1>8. Failed(w, r, got, genuine)
  BY <1>3, <1>4, <1>6
<1>9. Common' /\ Works' /\ Histories'
  BY <1>1, <1>5, <1>7, <1>8, FailedTyped
<1> QED
  BY <1>1, <1>9, PoolsStay, ExchangeSteps DEF TInv, Tables, tables

LEMMA UdpSpoofedTyped ==
  ASSUME TInv, NEW w \in Workers, UdpSpoofed(w) PROVE TInv'
<1> DEFINE r == [work[w] EXCEPT !.at = "ask", !.tcp = TRUE, !.dnow = now]
<1>1. work[w].at = "udp" /\ Continue(w, r) /\ UNCHANGED <<now, tables, setup, idle, history>>
  BY DEF UdpSpoofed, At
<1>2. Underway(work[w]) /\ now \in Times
  BY <1>1, UnderwayAt DEF TInv, Common
<1>3. Underway(r) /\ r.at = "ask"
  BY <1>2 DEF Underway, Resolutions
<1> HIDE DEF r
<1>4. Common' /\ Works'
  BY <1>1, <1>3, UnderwayFits, GoesOn
<1> QED
  BY <1>1, <1>4, ThrottleSteps DEF TInv, Tables, tables

LEMMA UdpReplyTyped ==
  ASSUME TInv, NEW w \in Workers, UdpReply(w) PROVE TInv'
<1>1. work[w].at = "udp" /\ UNCHANGED <<now, throttle, fails, setup, idle>>
  BY DEF UdpReply, At
<1>2. Underway(work[w]) /\ now \in Times
  BY <1>1, UnderwayAt DEF TInv, Common
<1>3. PICK kind \in Replies, edns \in BOOLEAN, chained \in BOOLEAN :
        LET r == [work[w] EXCEPT !.dnow = now, !.valid = kind # "garbage", !.chained = chained]
        IN  /\ ednsstatus' = Learnt(r, kind, edns)
            /\ IF AsksBare(r, kind, edns)
               THEN Continue(w, [r EXCEPT !.bare = TRUE]) /\ FormErr(r.addr)
               ELSE Judged(w, r, kind)
  <2>1. Possible("EDNS") \subseteq BOOLEAN /\ MayBeChained(w) \subseteq BOOLEAN
    BY DEF Possible, MayBeChained
  <2>2. PICK kind \in Replies, edns \in Possible("EDNS"), chained \in MayBeChained(w) :
          LET r == [work[w] EXCEPT !.dnow = now, !.valid = kind # "garbage", !.chained = chained]
          IN  /\ ednsstatus' = Learnt(r, kind, edns)
              /\ IF AsksBare(r, kind, edns)
                 THEN Continue(w, [r EXCEPT !.bare = TRUE]) /\ FormErr(r.addr)
                 ELSE Judged(w, r, kind)
    BY Zenon DEF UdpReply
  <2> QED
    BY <2>1, <2>2, Zenon
<1>4. PICK valid \in BOOLEAN : valid = (kind # "garbage")
  OBVIOUS
<1>5. PICK r : r = [work[w] EXCEPT !.dnow = now, !.valid = valid, !.chained = chained]
  OBVIOUS
<1>6. /\ ednsstatus' = Learnt(r, kind, edns)
      /\ \/ Continue(w, [r EXCEPT !.bare = TRUE]) /\ FormErr(r.addr)
         \/ Judged(w, r, kind)
  BY <1>3, <1>4, <1>5
<1>7. Underway(r) /\ r.at = "udp"
  BY <1>1, <1>2, <1>5 DEF Underway, Resolutions
<1>8. PICK b : b = [r EXCEPT !.bare = TRUE]
  OBVIOUS
<1>9. Underway(b) /\ b.at = "udp"
  BY <1>7, <1>8, BareUnderway
<1>10. Common' /\ Works' /\ Histories'
  <2>1. CASE Continue(w, b) /\ FormErr(r.addr)
    BY <1>1, <1>9, <2>1, UnderwayFits, GoesOn, FormErrTyped
  <2>2. CASE Judged(w, r, kind)
    BY <1>1, <1>7, <2>2, JudgedTyped
  <2> QED
    BY <1>6, <1>8, <2>1, <2>2
<1> QED
  BY <1>1, <1>6, <1>7, <1>10, LearntTyped, PoolsStay, ExchangeSteps

LEMMA TcpFailsTyped ==
  ASSUME TInv, NEW w \in Workers, TcpFails(w) PROVE TInv'
<1> DEFINE conns == idle[Thread(w)]
<1>1. work[w].at = "tcp" /\ UNCHANGED <<now, tables, setup>>
  BY DEF TcpFails, At
<1>2. Underway(work[w]) /\ work[w].conn \in Connections /\ now \in Times
  BY <1>1, UnderwayAt DEF TInv, Common, Works, Sane
<1>3. Pool(conns)
  BY ThreadOf
<1>4. PICK r : r = [work[w] EXCEPT !.dnow = now]
  OBVIOUS
<1>5. Underway(r) /\ r.conn = work[w].conn
  BY <1>2, <1>4 DEF Underway, Resolutions
<1>6. PICK closed : closed = [r.conn EXCEPT !.open = FALSE]
  OBVIOUS
<1>7. closed \in Connections
  BY <1>2, <1>5, <1>6 DEF Connections
<1>8. PICK s : s = [r EXCEPT !.conn = NoConn]
  OBVIOUS
<1>9. Underway(s)
  BY <1>5, <1>8 DEF Underway, Resolutions
<1>10. \/ Connect(w, work[w], conns) /\ UNCHANGED history
       \/ \E got \in {"timeout", "error"} :
            /\ idle' = [idle EXCEPT ![Thread(w)] = StoredIfValid(conns, closed, r)]
            /\ Failed(w, s, got, TRUE)
  <2> HIDE DEF conns
  <2>1. conns = idle[Thread(w)]
    BY DEF conns
  <2> QED
    BY <1>4, <1>6, <1>8, <2>1 DEF TcpFails
<1> HIDE DEF conns
<1>11. Common' /\ Works' /\ Pools' /\ Histories'
  <2>1. CASE Connect(w, work[w], conns) /\ UNCHANGED history
    <3>1. Histories'
      BY <2>1 DEF TInv, Histories, history, Times
    <3> QED
      BY <1>1, <1>2, <1>3, <2>1, <3>1, ConnectTyped
  <2>2. CASE \E got \in {"timeout", "error"} :
               /\ idle' = [idle EXCEPT ![Thread(w)] = StoredIfValid(conns, closed, r)]
               /\ Failed(w, s, got, TRUE)
    <3>1. PICK got \in {"timeout", "error"} :
               /\ idle' = [idle EXCEPT ![Thread(w)] = StoredIfValid(conns, closed, r)]
               /\ Failed(w, s, got, TRUE)
      BY <2>2
    <3>2. Pools'
      BY <1>3, <1>7, <3>1, ThreadOf, StoredIfValidPool, PoolChanges
    <3>3. Common' /\ Works' /\ Histories'
      BY <1>1, <1>9, <3>1, FailedTyped
    <3> QED
      BY <3>2, <3>3
  <2> QED
    BY <1>10, <2>1, <2>2
<1> QED
  BY <1>1, <1>11, ExchangeSteps DEF TInv, Tables, tables

LEMMA TcpMismatchTyped ==
  ASSUME TInv, NEW w \in Workers, TcpMismatch(w) PROVE TInv'
<1>1. work[w].at = "tcp" /\ UNCHANGED <<now, tables, setup>>
  BY DEF TcpMismatch, At
<1>2. Underway(work[w]) /\ work[w].conn \in Connections /\ now \in Times
  BY <1>1, UnderwayAt DEF TInv, Common, Works, Sane
<1>3. PICK r : r = [work[w] EXCEPT !.dnow = now]
  OBVIOUS
<1>4. Underway(r) /\ r.conn = work[w].conn
  BY <1>2, <1>3 DEF Underway, Resolutions
<1>5. PICK s : s = [r EXCEPT !.conn = NoConn, !.reused = FALSE]
  OBVIOUS
<1>6. Underway(s)
  BY <1>4, <1>5 DEF Underway, Resolutions
<1>7. PICK conns : conns = StoredIfValid(idle[Thread(w)], r.conn, r)
  OBVIOUS
<1>8. Pool(conns)
  BY <1>2, <1>4, <1>7, ThreadOf, StoredIfValidPool
<1>9. idle' = [idle EXCEPT ![Thread(w)] = conns] /\ Failed(w, s, "error", TRUE)
  <2>1. /\ idle' = [idle EXCEPT ![Thread(w)] = StoredIfValid(idle[Thread(w)], r.conn, r)]
        /\ Failed(w, s, "error", TRUE)
    BY <1>3, <1>5 DEF TcpMismatch
  <2> QED
    BY <1>7, <2>1
<1>10. Pools'
  BY <1>8, <1>9, ThreadOf, PoolChanges
<1>11. Common' /\ Works' /\ Histories'
  BY <1>1, <1>6, <1>9, FailedTyped
<1> QED
  BY <1>1, <1>10, <1>11, ExchangeSteps DEF TInv, Tables, tables

LEMMA TcpReplyTyped ==
  ASSUME TInv, NEW w \in Workers, TcpReply(w) PROVE TInv'
<1>1. work[w].at = "tcp" /\ UNCHANGED <<now, throttle, fails, setup>>
  BY DEF TcpReply, At
<1>2. Underway(work[w]) /\ work[w].conn \in Connections /\ now \in Times
  BY <1>1, UnderwayAt DEF TInv, Common, Works, Sane
<1>3. PICK kind \in Replies, edns \in BOOLEAN :
        LET got == [work[w] EXCEPT !.dnow = now, !.valid = kind # "garbage"]
            conns == StoredIfValid(idle[Thread(w)], got.conn, got)
            r == [got EXCEPT !.conn = NoConn, !.reused = FALSE]
        IN  /\ ednsstatus' = Learnt(r, kind, edns)
            /\ IF AsksBare(r, kind, edns)
               THEN Connect(w, [r EXCEPT !.bare = TRUE], conns) /\ FormErr(r.addr)
               ELSE /\ idle' = [idle EXCEPT ![Thread(w)] = conns]
                    /\ Judged(w, r, kind)
  <2>1. Possible("EDNS") \subseteq BOOLEAN
    BY DEF Possible
  <2> QED
    BY <2>1, ZenonT(60) DEF TcpReply
<1>4. PICK valid \in BOOLEAN : valid = (kind # "garbage")
  OBVIOUS
<1>5. PICK got : got = [work[w] EXCEPT !.dnow = now, !.valid = valid]
  OBVIOUS
<1>6. Underway(got) /\ got.conn = work[w].conn
  BY <1>2, <1>5 DEF Underway, Resolutions
<1>7. PICK r : r = [got EXCEPT !.conn = NoConn, !.reused = FALSE]
  OBVIOUS
<1>8. Underway(r)
  BY <1>6, <1>7 DEF Underway, Resolutions
<1>9. PICK conns : conns = StoredIfValid(idle[Thread(w)], got.conn, got)
  OBVIOUS
<1>10. Pool(conns)
  BY <1>2, <1>6, <1>9, ThreadOf, StoredIfValidPool
<1>11. PICK b : b = [r EXCEPT !.bare = TRUE]
  OBVIOUS
<1>12. Underway(b)
  BY <1>8, <1>11, BareUnderway
<1>13. /\ ednsstatus' = Learnt(r, kind, edns)
       /\ \/ Connect(w, b, conns) /\ FormErr(r.addr)
          \/ idle' = [idle EXCEPT ![Thread(w)] = conns] /\ Judged(w, r, kind)
  BY <1>3, <1>4, <1>5, <1>7, <1>9, <1>11
<1>14. Common' /\ Works' /\ Pools' /\ Histories'
  <2>1. CASE Connect(w, b, conns) /\ FormErr(r.addr)
    BY <1>1, <1>10, <1>12, <2>1, ConnectTyped, FormErrTyped
  <2>2. CASE idle' = [idle EXCEPT ![Thread(w)] = conns] /\ Judged(w, r, kind)
    BY <1>1, <1>8, <1>10, <2>2, ThreadOf, PoolChanges, JudgedTyped
  <2> QED
    BY <1>13, <2>1, <2>2
<1> QED
  BY <1>1, <1>8, <1>13, <1>14, LearntTyped, ExchangeSteps

LEMMA CountFailureTyped ==
  ASSUME TInv, NEW w \in Workers, CountFailure(w) PROVE TInv'
<1>1. PICK r : r = work[w]
  OBVIOUS
<1> DEFINE down == [r EXCEPT !.at = "punish", !.got = "down"]
           bad == [r EXCEPT !.at = "punish"]
<1>2. /\ r.at = "failed" /\ fails' = Incremented(r.addr, r.dnow)
      /\ Continue(w, down) \/ Continue(w, bad) \/ Continue(w, NextAddr(r))
      /\ UNCHANGED <<now, throttle, ednsstatus, setup, idle, history>>
  BY <1>1 DEF CountFailure, At
<1>3. Underway(r) /\ r.got \in Offences /\ r.dnow \in Times /\ Common
  BY <1>1, <1>2, UnderwayAt DEF TInv, Works, Sane, Underway, Resolutions
<1>4. Fits(down) /\ Fits(bad)
  <2>1. PICK got \in Offences : got = "down"
    BY DEF Offences
  <2>2. down \in Resolutions /\ bad \in Resolutions
    BY <1>3, <2>1 DEF Underway, Resolutions
  <2>3. /\ down.at = "punish" /\ down.got = got /\ down.question = r.question /\ down.addr = r.addr
        /\ bad.at = "punish" /\ bad.got = r.got /\ bad.question = r.question /\ bad.addr = r.addr
    BY <1>3, <2>1 DEF Underway, Resolutions
  <2> HIDE DEF down, bad
  <2> QED
    BY <1>3, <2>2, <2>3 DEF Fits, Sane, Underway
<1> HIDE DEF down, bad
<1>5. Common' /\ Works'
  BY <1>2, <1>3, <1>4, NextAddrFits, GoesOn DEF Underway
<1>6. Failures(fails')
  BY <1>2, <1>3, IncrementedTyped DEF Underway, TInv, Tables
<1>7. Pools' /\ Histories'
  BY <1>2, PoolsStay DEF TInv, Histories, history, Times
<1> QED
  BY <1>2, <1>5, <1>6, <1>7, TogetherTyped DEF TInv, Tables

LEMMA PunishTyped ==
  ASSUME TInv, NEW w \in Workers, Punish(w) PROVE TInv'
<1>1. PICK r : r = work[w]
  OBVIOUS
<1>2. PICK key : key = <<r.addr, IF r.got = "down" THEN Whole ELSE r.question>>
  OBVIOUS
<1>3. /\ r.at = "punish" /\ throttle' = Throttled(key, r.dnow, r.got) /\ Continue(w, NextAddr(r))
      /\ UNCHANGED <<now, fails, ednsstatus, setup, idle, history>>
  BY <1>1, <1>2 DEF Punish, At
<1>4. Underway(r) /\ r.got \in Offences /\ r.dnow \in Times /\ Common
  BY <1>1, <1>3, UnderwayAt DEF TInv, Works, Sane, Underway, Resolutions
<1>5. key \in Keys
  BY <1>2, <1>4 DEF Keys, Underway
<1>6. r.dnow \in Nat
  BY <1>4, Limits
<1>7. Throttles(throttle')
  BY <1>3, <1>4, <1>5, <1>6, ThrottledTyped DEF TInv, Tables
<1>8. Common' /\ Works'
  BY <1>3, <1>4, NextAddrFits, GoesOn DEF Underway
<1> QED
  BY <1>3, <1>7, <1>8, ThrottleSteps

LEMMA ClearFailsTyped ==
  ASSUME TInv, NEW w \in Workers, ClearFails(w) PROVE TInv'
<1> DEFINE r == [work[w] EXCEPT !.at = "open"]
<1>1. /\ work[w].at = "answered" /\ fails' = Forgiven(work[w].addr) /\ Continue(w, r)
      /\ UNCHANGED <<now, throttle, ednsstatus, setup, idle, history>>
  BY DEF ClearFails, At
<1>2. Underway(work[w])
  BY <1>1, UnderwayAt
<1>3. Underway(r) /\ r.at = "open"
  BY <1>2 DEF Underway, Resolutions
<1> HIDE DEF r
<1>4. Common' /\ Works'
  BY <1>1, <1>3, UnderwayFits, GoesOn
<1>5. Failures(fails')
  BY <1>1, FewerTyped DEF Forgiven, TInv, Tables
<1>6. Pools' /\ Histories'
  BY <1>1, PoolsStay DEF TInv, Histories, history, Times
<1> QED
  BY <1>1, <1>4, <1>5, <1>6, TogetherTyped DEF TInv, Tables

LEMMA OpenServerTyped ==
  ASSUME TInv, NEW w \in Workers, OpenServer(w) PROVE TInv'
<1> DEFINE r == [work[w] EXCEPT !.at = "openQuestion"]
<1>1. /\ work[w].at = "open" /\ throttle' = Without(throttle, <<work[w].addr, Whole>>) /\ Continue(w, r)
      /\ UNCHANGED <<now, fails, ednsstatus, setup, idle, history>>
  BY DEF OpenServer, At
<1>2. Underway(work[w])
  BY <1>1, UnderwayAt
<1>3. Underway(r) /\ r.at = "openQuestion"
  BY <1>2 DEF Underway, Resolutions
<1> HIDE DEF r
<1>4. Common' /\ Works'
  BY <1>1, <1>3, UnderwayFits, GoesOn
<1> QED
  BY <1>1, <1>4, FewerTyped, ThrottleSteps DEF TInv

LEMMA OpenQuestionTyped ==
  ASSUME TInv, NEW w \in Workers, OpenQuestion(w) PROVE TInv'
<1>1. PICK r : r = work[w]
  OBVIOUS
<1> DEFINE again == [r EXCEPT !.at = "ask", !.tcp = TRUE]
           bad == [r EXCEPT !.at = "punish"]
           lame == [r EXCEPT !.at = "punish", !.got = "lame"]
<1>2. /\ r.at = "openQuestion" /\ throttle' = Without(throttle, <<r.addr, r.question>>)
      /\ \/ Continue(w, again)
         \/ r.got = "truncated" /\ Continue(w, bad)
         \/ Continue(w, NoWork)
         \/ Continue(w, lame)
      /\ UNCHANGED <<now, fails, ednsstatus, setup, idle, history>>
  BY <1>1 DEF OpenQuestion, At
<1>3. Underway(r) /\ Common
  BY <1>1, <1>2, UnderwayAt DEF TInv
<1>4. PICK x \in Offences, y \in Offences : x = "truncated" /\ y = "lame"
  BY DEF Offences
<1>5. Fits(again)
  <2>1. Underway(again) /\ again.at = "ask"
    BY <1>3 DEF Underway, Resolutions
  <2> HIDE DEF again
  <2> QED
    BY <2>1, UnderwayFits
<1>6. (r.got = "truncated" => Fits(bad)) /\ Fits(lame)
  <2>1. bad \in Resolutions /\ lame \in Resolutions
    BY <1>3, <1>4 DEF Underway, Resolutions
  <2>2. /\ bad.at = "punish" /\ bad.got = r.got /\ bad.question = r.question /\ bad.addr = r.addr
        /\ lame.at = "punish" /\ lame.got = y /\ lame.question = r.question /\ lame.addr = r.addr
    BY <1>3, <1>4 DEF Underway, Resolutions
  <2> HIDE DEF bad, lame
  <2> QED
    BY <1>3, <1>4, <2>1, <2>2 DEF Fits, Sane, Underway
<1> HIDE DEF again, bad, lame
<1>7. Common' /\ Works'
  BY <1>2, <1>3, <1>5, <1>6, NoWorkFits, GoesOn
<1> QED
  BY <1>2, <1>7, FewerTyped, ThrottleSteps DEF TInv

LEMMA PruneTyped ==
  ASSUME TInv, Prune PROVE TInv'
<1>1. UNCHANGED <<now, setup, idle, work, history>>
  BY DEF Prune, PruneThrottledServers, PruneFailedServers, PruneEDNSStatuses
<1>2. Throttles(throttle') /\ Failures(fails') /\ Statuses(ednsstatus')
  <2>1. CASE PruneThrottledServers
    <3>1. PICK I \in SUBSET DOMAIN throttle : throttle' = Restrict(throttle, I)
      BY <2>1 DEF PruneThrottledServers
    <3> QED
      BY <2>1, <3>1, MapsFewer DEF PruneThrottledServers, TInv, Tables, Throttles
  <2>2. CASE PruneFailedServers
    <3>1. PICK I \in SUBSET DOMAIN fails : fails' = Restrict(fails, I)
      BY <2>2 DEF PruneFailedServers
    <3> QED
      BY <2>2, <3>1, MapsFewer DEF PruneFailedServers, TInv, Tables, Failures
  <2>3. CASE PruneEDNSStatuses
    <3>1. PICK I \in SUBSET DOMAIN ednsstatus : ednsstatus' = Restrict(ednsstatus, I)
      BY <2>3 DEF PruneEDNSStatuses
    <3> QED
      BY <2>3, <3>1, MapsFewer DEF PruneEDNSStatuses, TInv, Tables, Statuses
  <2> QED
    BY <2>1, <2>2, <2>3 DEF Prune
<1>3. Common' /\ Works' /\ Pools' /\ Histories'
  BY <1>1, PoolsStay DEF TInv, Common, Works, Sane, Resolutions, Histories, history, Times
<1> QED
  BY <1>2, <1>3, TogetherTyped

LEMMA PruneIdleTyped ==
  ASSUME TInv, NEW th \in Threads, PruneIdle(th) PROVE TInv'
<1>1. PICK conns : conns = Cleanup(idle[th], now)
  OBVIOUS
<1>2. idle' = [idle EXCEPT ![th] = conns] /\ UNCHANGED <<now, tables, setup, work, history>>
  <2>1. idle' = [idle EXCEPT ![th] = Cleanup(idle[th], now)]
    BY DEF PruneIdle
  <2> QED
    BY <1>1, <2>1 DEF PruneIdle
<1>3. Pool(conns)
  BY <1>1, CleanupPool DEF TInv, Pools
<1>4. Pools'
  BY <1>2, <1>3, PoolChanges
<1>5. Common' /\ Works' /\ Histories'
  BY <1>2 DEF TInv, Common, Works, Sane, Resolutions, Histories, history, Times
<1> QED
  BY <1>2, <1>4, <1>5, ExchangeSteps DEF TInv, Tables, tables

LEMMA TickTyped ==
  ASSUME TInv, Tick PROVE TInv'
<1>1. now' = now + 1 /\ now < MaxNow /\ UNCHANGED <<tables, setup, idle, work, history>>
  BY DEF Tick
<1>2. Common'
  BY <1>1, ServersAssumption DEF TInv, Common, Times
<1>3. Works' /\ Histories' /\ Pools'
  BY <1>1, PoolsStay DEF TInv, Works, Sane, Resolutions, Histories, history, Times
<1> QED
  BY <1>1, <1>2, <1>3, ExchangeSteps DEF TInv, Tables, tables

LEMMA InitTInv == Init => TInv
<1> SUFFICES ASSUME Init PROVE TInv
  OBVIOUS
<1>1. Common
  BY ServersAssumption DEF Init, TablesInit, Common, Times
<1>2. Tables
  <2>1. throttle = <<>> /\ fails = <<>> /\ ednsstatus = <<>>
    BY DEF Init, TablesInit
  <2>2. DOMAIN throttle = {} /\ DOMAIN fails = {} /\ DOMAIN ednsstatus = {}
    BY <2>1
  <2> QED
    BY <2>2 DEF Tables, Throttles, Failures, Statuses, Maps
<1>3. Pools
  <2>1. <<>> \in Seq(Connections) /\ Len(<<>>) <= MaxIdlePerThread
    BY TcpOutAssumption
  <2> QED
    BY <2>1 DEF Init, Pools, Pool
<1>4. Works
  <2>1. work = [w \in Workers |-> NoWork] /\ Fits(NoWork)
    BY <1>1, NoWorkFits DEF Init
  <2> QED
    BY <2>1 DEF Works, Fits
<1>5. Histories
  BY ServersAssumption DEF Init, Histories
<1> QED
  BY <1>1, <1>2, <1>3, <1>4, <1>5 DEF TInv

LEMMA NextTInv == TInv /\ [Next]_vars => TInv'
<1> SUFFICES ASSUME TInv, [Next]_vars PROVE TInv'
  OBVIOUS
<1>1. ASSUME NEW w \in Workers, NEW q \in Questions, Start(w, q) PROVE TInv'
  BY <1>1, StartTyped
<1>2. ASSUME NEW w \in Workers, NEW a \in Addrs, PassServer(w, a) \/ Refuses(w, a) \/ Ask(w, a)
      PROVE  TInv'
  BY <1>2, PassServerTyped, RefuseServerTyped, CheckQuestionTyped, AskTyped DEF Refuses
<1>3. ASSUME NEW w \in Workers, Exchange(w) PROVE TInv'
  BY <1>3, UdpFailsTyped, UdpSpoofedTyped, UdpReplyTyped, TcpFailsTyped, TcpMismatchTyped,
     TcpReplyTyped DEF Exchange
<1>4. ASSUME NEW w \in Workers, Aftermath(w) PROVE TInv'
  BY <1>4, CountFailureTyped, PunishTyped, ClearFailsTyped, OpenServerTyped, OpenQuestionTyped
     DEF Aftermath
<1>5. ASSUME Prune \/ Tick PROVE TInv'
  BY <1>5, PruneTyped, TickTyped
<1>6. ASSUME NEW th \in Threads, PruneIdle(th) PROVE TInv'
  BY <1>6, PruneIdleTyped
<1>7. CASE UNCHANGED vars
  <2>1. Common' /\ Works' /\ Pools' /\ Histories'
    BY <1>7, PoolsStay DEF vars, TInv, Common, Works, Sane, Resolutions, Histories, history, Times
  <2> QED
    BY <1>7, <2>1, ExchangeSteps DEF vars, TInv, Tables, tables
<1> QED
  BY <1>1, <1>2, <1>3, <1>4, <1>5, <1>6, <1>7 DEF Next

\* Every variable keeps its type: the tables hold entries of servers and questions, a
\* resolution never asks more often than its limit, and no thread stores more idle
\* connections than it may, however its mthreads take, store and clean up.
THEOREM TypeCorrect == Spec => []TypeOK
<1>1. Spec => []TInv
  BY InitTInv, NextTInv, PTL DEF Spec
<1>2. TInv => TypeOK
  <2> SUFFICES ASSUME TInv PROVE TypeOK
    OBVIOUS
  <2>1. TablesTypeOK
    BY DEF TInv, Common, Tables, Throttles, Failures, Statuses, Maps, TablesTypeOK
  <2> QED
    BY <2>1 DEF TInv, Common, Pools, Pool, Works, Histories, TypeOK
<1> QED
  BY <1>1, <1>2, PTL
=============================================================================

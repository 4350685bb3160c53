---------------------------- MODULE MCExchanges ----------------------------
(* Exchanges for TLC: the values of its constants. *)
EXTENDS Exchanges

CONSTANTS w1, w2, t1, t2, a1, a2

\* The penalties of the code, with seconds and counts brought down to the size of a run.
ScaledPenalties ==
  [offence \in Offences |->
     CASE offence = "down" -> [ttl |-> 1, count |-> 3]
       [] offence \in {"error", "lame"} -> [ttl |-> 2, count |-> 2]
       [] offence \in {"rcode", "truncated", "garbageTCP"} -> [ttl |-> 2, count |-> 1]
       [] OTHER -> [ttl |-> 1, count |-> 1]]

OneThread  == (w1 :> t1) @@ (w2 :> t1)
TwoThreads == (w1 :> t1) @@ (w2 :> t2)

Setup(thread, servers, maxqperq, traffic) ==
  [thread |-> thread, servers |-> servers, maxqperq |-> maxqperq, traffic |-> traffic]

\* All that can become of a question over UDP, and the limit on questions.
OverUdp ==
  Setup(OneThread, {a1}, 1,
        {"timeout", "error", "limit", "chained", "answer", "rcode", "garbage", "EDNS"})
\* A server that goes down and comes back.
DownAndUp == Setup(TwoThreads, {a1}, 3, {"timeout", "answer", "EDNS"})
\* A server that comes to terms with EDNS or not.
OldServer == {Setup(thread, {a1}, 3, {"formerr", "answer", "EDNS"}) :
                thread \in {OneThread, TwoThreads}}
\* Questions again over TCP: connections that fail, are kept and used again.
Truncating == Setup(OneThread, {a1}, 3, {"truncated", "error", "answer", "EDNS"})
OverTcp == Setup(OneThread, {a1}, 2,
                 {"spoofed", "mismatch", "garbage", "answer", "limit", "EDNS"})
BareTcp == Setup(OneThread, {a1}, 2, {"spoofed", "formerr"})
\* More than one address, and refusals that use up the limit.
TwoServers == Setup(OneThread, {a1, a2}, 1, {"rcode", "EDNS"})

AllSetups ==
  {OverUdp, DownAndUp, Truncating, OverTcp, BareTcp, TwoServers} \cup OldServer
NoTcp == {Truncating}
=============================================================================

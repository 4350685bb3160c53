------------------------------ MODULE Servers ------------------------------
(***************************************************************************)
(* What the resolver remembers of servers (src/syncres.cc): the throttle,  *)
(* which refuses to ask a server, or to ask it one question, until a time  *)
(* or a number of refusals has passed; how often a server has failed; and  *)
(* how it gets along with EDNS.  Each table has one lock for all threads.  *)
(*                                                                         *)
(* A table is a partial function.  The operators give what a method makes  *)
(* of it; the actions are the callers that resolve nothing.                *)
(***************************************************************************)
EXTENDS Integers, Functions, FiniteSetsExt

CONSTANTS
  Addrs,
  Questions,
  Whole,     \* in place of a question: the server as such
  MaxFails,  \* s_serverdownmaxfails
  FailsKept, \* seconds failures are remembered, ten times the time of "down"
  Expire,    \* seconds the status of EDNS is remembered (7200)
  Penalties, \* what a server did -> the time and the count of its entry
  MaxNow     \* bound: the last instant of the clock

Offences == {"down", "error", "timeout", "garbage", "garbageTCP", "rcode", "truncated", "lame"}

ASSUME ServersAssumption ==
  /\ Whole \notin Questions
  /\ MaxFails \in Nat \ {0}
  /\ FailsKept \in Nat /\ Expire \in Nat \ {0} /\ MaxNow \in Nat
  /\ Penalties \in [Offences -> [ttl : Nat, count : Nat]]

Times == 0 .. MaxNow
Keys == Addrs \X (Questions \cup {Whole})

VARIABLES
  now,
  throttle,  \* s_throttle: key -> [ttd, count]
  fails,     \* s_fails: address -> [value, last]; the value stops at MaxFails
  ednsstatus \* s_ednsstatus: address -> [mode, ttd]

tables == <<throttle, fails, ednsstatus>>

TablesInit ==
  /\ now = 0
  /\ throttle = <<>> /\ fails = <<>> /\ ednsstatus = <<>>

With(table, key, entry) ==
  [k \in DOMAIN table \cup {key} |-> IF k = key THEN entry ELSE table[k]]
Without(table, key) == Restrict(table, DOMAIN table \ {key})

----------------------------------------------------------------------------
(* Throttle *)

\* Whether a caller at time t is refused.
ShouldThrottle(key, t) ==
  key \in DOMAIN throttle /\ t <= throttle[key].ttd /\ throttle[key].count > 0

AskedAgain(key, t) ==
  IF ShouldThrottle(key, t) THEN throttle ELSE Without(throttle, key)

\* What the question leaves behind: one refusal less, or no entry.
Asked(key, t) ==
  IF ShouldThrottle(key, t)
  THEN [throttle EXCEPT ![key].count = @ - 1]
  ELSE Without(throttle, key)

\* Throttle::throttle: the longer time and the larger count win.
Throttled(key, t, offence) ==
  LET ttd   == t + Penalties[offence].ttl
      count == Penalties[offence].count
      entry == IF key \in DOMAIN throttle
               THEN [ttd   |-> Max({throttle[key].ttd, ttd}),
                     count |-> Max({throttle[key].count, count})]
               ELSE [ttd |-> ttd, count |-> count]
  IN  With(throttle, key, entry)

----------------------------------------------------------------------------
(* Failures *)

FailCount(a) == IF a \in DOMAIN fails THEN fails[a].value ELSE 0

\* fails_t::incr
Incremented(a, t) ==
  With(fails, a, [value |-> Min({FailCount(a) + 1, MaxFails}), last |-> t])

NotForgiven(a) == fails

\* fails_t::clear
Forgiven(a) == Without(fails, a)

----------------------------------------------------------------------------
(* EDNS *)

\* The mode a question is sent in.  An entry past its time is erased by whoever
\* looks at it.
Outdated(a, t) == a \in DOMAIN ednsstatus /\ ednsstatus[a].ttd < t

Mode(a, t) ==
  IF a \in DOMAIN ednsstatus /\ ~Outdated(a, t) THEN ednsstatus[a].mode ELSE "EDNSOK"

Noticed(a, t) == IF Outdated(a, t) THEN Without(ednsstatus, a) ELSE ednsstatus

\* setMode: a mode that is known already keeps its time.
ModeSet(a, mode, t) ==
  IF a \in DOMAIN ednsstatus /\ ednsstatus[a].mode = mode
  THEN ednsstatus
  ELSE With(ednsstatus, a, [mode |-> mode, ttd |-> t + Expire])

----------------------------------------------------------------------------
(* Housekeeping *)

PruneThrottledServers ==
  /\ throttle' = Restrict(throttle, {key \in DOMAIN throttle : throttle[key].ttd > now})
  /\ UNCHANGED <<now, fails, ednsstatus>>

PruneFailedServers ==
  /\ fails' = Restrict(fails, {a \in DOMAIN fails : fails[a].last > now - FailsKept})
  /\ UNCHANGED <<now, throttle, ednsstatus>>

PruneEDNSStatuses ==
  /\ ednsstatus' =
       Restrict(ednsstatus, {a \in DOMAIN ednsstatus : ednsstatus[a].ttd > now})
  /\ UNCHANGED <<now, throttle, fails>>

TablesTypeOK ==
  /\ now \in Times
  /\ DOMAIN throttle \subseteq Keys
  /\ \A key \in DOMAIN throttle : throttle[key] \in [ttd : Nat, count : Nat]
  /\ DOMAIN fails \subseteq Addrs
  /\ \A a \in DOMAIN fails : fails[a] \in [value : 1 .. MaxFails, last : Times]
  /\ DOMAIN ednsstatus \subseteq Addrs
  /\ \A a \in DOMAIN ednsstatus :
       ednsstatus[a] \in [mode : {"EDNSIGNORANT", "NOEDNS"}, ttd : Nat]
=============================================================================

----------------------------- MODULE Resolution -----------------------------
(***************************************************************************)
(* How SyncRes finds the address of a name (src/syncres.cc: doResolve with *)
(* qname minimization, doResolveNoQNameMinimization, doResolveAt, getAddrs *)
(* and what they call).  The functions call each other recursively, so a   *)
(* worker has a stack of frames, its locals and where it is in the code;   *)
(* `me' is its SyncRes object.  Workers are mthreads of one thread: one    *)
(* runs until it waits for a server, and the caches they share may be      *)
(* changed while it waits.                                                 *)
(*                                                                         *)
(* Zones says what servers answer.  A question is for type A and records   *)
(* are sets of equal (name, type); times are left out, an entry may expire *)
(* whenever nobody runs.  Serve-stale, forwarding, policies, validation,   *)
(* root-nx-trust, nothing-below-nxdomain and a saved parent's NS set are   *)
(* off; an exchange is an outcome (Exchanges has its inside).  d_refresh   *)
(* is false.                                                               *)
(***************************************************************************)
EXTENDS Zones

CONSTANTS
  Worlds,      \* what the run may be about
  Workers, None,
  MaxQueries,  \* s_maxqperq
  MaxDepth,    \* s_maxdepth, 0 is no limit
  MaxCNAMEs,   \* s_max_CNAMES_followed
  MaxNSQueries, \* s_maxnsaddressqperq
  OneLabel,    \* s_minimize_one_label
  MaxMinimize, \* s_max_minimize_count
  MaxStack     \* bound: frames of a worker

ASSUME ResolutionAssumption ==
  /\ None \notin Workers
  /\ {MaxQueries, MaxDepth, MaxCNAMEs, MaxNSQueries, OneLabel, MaxMinimize} \subseteq Nat
  /\ MaxStack \in Nat \ {0}
  /\ \A w \in Worlds : IsWorld(w)

VARIABLES
  world,    \* never changed
  cache,    \* g_recCache: <<name, type>> -> [auth, val]
  neg,      \* g_negCache: name -> "NX" (the whole name) or "NODATA"
  stack, me, running, \* who runs, or None when all wait
  out,      \* per worker: what its last question came to
  asks, faults \* how many so far

vars == <<world, cache, neg, stack, me, running, out, asks, faults>>
counters == <<asks, faults>>
caches == <<cache, neg>>

----------------------------------------------------------------------------
(* Frames *)

NoResult == [rcode |-> "none", ret |-> <<>>, been |-> {}, from |-> FALSE, stopped |-> FALSE]
NoPacket == Packet("none", Root, Root, {}, <<>>)
NoFlags  == [cacheOnly |-> FALSE, requireAuth |-> FALSE, follow |-> FALSE]

\* `ret' and `been' (beenthere) are passed by reference in the code: down in the frame,
\* back in the result.  `got' is the result of the last call.
Frame(fn, q, ret, depth, been) ==
  [fn |-> fn, at |-> "start", q |-> q, ret |-> ret, depth |-> depth, been |-> been,
   got |-> NoResult,
   i |-> 0, child |-> Root, old |-> FALSE,     \* of doResolve
   peek |-> FALSE, stop |-> FALSE,             \* fromCache, stopAtDelegation are asked for
   auth |-> Root, left |-> {}, limit |-> 0,    \* of doResolveAt: servers not tried yet
   addrs |-> {}, asked |-> None, packet |-> NoPacket,
   empties |-> 0, saved |-> NoFlags, sent |-> 0] \* of getAddrs

\* A new SyncRes.  `sent' is d_outqueries, `lost' history: an exchange failed.
SyncRes(q) ==
  [q |-> q, cacheOnly |-> FALSE, requireAuth |-> TRUE, follow |-> TRUE, qm |-> TRUE,
   fallback |-> FALSE, sent |-> 0, lost |-> FALSE]

NoOne == [SyncRes(Root) EXCEPT !.qm = FALSE]
NotAsked == [q |-> Root, rcode |-> "none", records |-> <<>>, lost |-> FALSE]

Top(w) == Last(stack[w])
Runs(w, fn, place) ==
  running = w /\ stack[w] # <<>> /\ Top(w).fn = fn /\ Top(w).at = place

Continue(w, f) == stack' = [stack EXCEPT ![w] = Append(Front(@), f)]

Call(w, f, g) ==
  /\ Len(stack[w]) < MaxStack
  /\ stack' = [stack EXCEPT ![w] = Front(@) \o <<[f EXCEPT !.got = NoResult], g>>]

\* The question is answered; the SyncRes goes.
Finish(w, rcode, records) ==
  /\ stack' = [stack EXCEPT ![w] = <<>>]
  /\ out' = [out EXCEPT ![w] = [q |-> me[w].q, rcode |-> rcode, records |-> records,
                                lost |-> me[w].lost]]
  /\ me' = [me EXCEPT ![w] = NoOne]
  /\ running' = None

Return(w, r, object) ==
  IF Len(stack[w]) = 1 THEN Finish(w, r.rcode, r.ret)
  ELSE /\ stack' = [stack EXCEPT ![w] =
                      Append(Front(Front(@)), [Last(Front(@)) EXCEPT !.got = r])]
       /\ me' = [me EXCEPT ![w] = object]
       /\ UNCHANGED <<running, out>>

\* ImmediateServFailException: nobody on the way catches it but the client's caller.
Throw(w) == Finish(w, "ServFail", <<>>)

Result(f, rcode, ret) ==
  [rcode |-> rcode, ret |-> ret, been |-> f.been, from |-> FALSE, stopped |-> FALSE]

Init ==
  /\ world \in Worlds
  /\ cache = [k \in {<<Root, "NS">>} \cup {<<n, "A">> : n \in world.ns[Root]} |->
                [auth |-> FALSE,
                 val  |-> IF k[2] = "NS" THEN world.ns[Root] ELSE world.glue[Root][k[1]]]]
  /\ neg = <<>>
  /\ stack = [w \in Workers |-> <<>>] /\ me = [w \in Workers |-> NoOne]
  /\ running = None /\ out = [w \in Workers |-> NotAsked]
  /\ asks = 0 /\ faults = 0

----------------------------------------------------------------------------
(* What the caches know *)

\* The servers of a zone that can be asked: those that need glue need it in the cache.
NSOf(z)   == IF <<z, "NS">> \in DOMAIN cache THEN cache[<<z, "NS">>].val ELSE {}
Usable(z) == {n \in NSOf(z) : IsPrefix(z, n) => <<n, "A">> \in DOMAIN cache}

Ancestors(q) == {SubSeq(q, 1, k) : k \in 0 .. Len(q)}

\* getBestNSFromCache: the closest zone of which it can take the servers, those already
\* tried for this name left out (at most one), and the NS sets it drops on the way.
BestNSAnswer(q, z) == [qname |-> q, zone |-> z, bestns |-> Usable(z)]
Candidates(q, been) ==
  {z \in Ancestors(q) : Usable(z) # {} /\ BestNSAnswer(q, z) \notin been}
Best(q, been) ==
  LET candidates == Candidates(q, been)
  IN  {z \in candidates : \A c \in candidates : Len(c) <= Len(z)}
Flawed(q, zone) ==
  {z \in Ancestors(q) : /\ Len(z) > Len(zone)
                        /\ NSOf(z) # {} /\ Usable(z) = {} /\ cache[<<z, "NS">>].auth}

With(known, key, entry) ==
  [k \in DOMAIN known \cup {key} |-> IF k = key THEN entry ELSE known[k]]
Without(known, keys) == Restrict(known, DOMAIN known \ keys)

Wipe(zones) == cache' = Without(cache, {<<z, "NS">> : z \in zones})

Has(w, n, type) ==
  <<n, type>> \in DOMAIN cache /\ (me[w].requireAuth => cache[<<n, type>>].auth)

\* scanForCNAMELoop
Aliases(ret) == {i \in DOMAIN ret : ret[i].type = "CNAME"}
Loops(target, ret) == \E i \in Aliases(ret) : ret[i].name = target
TooLong(ret) == Cardinality(Aliases(ret)) > MaxCNAMEs

\* haveFinalAnswer
HaveFinalAnswer(q, rcode, ret) ==
  LET target[k \in 0 .. Len(ret)] ==
        IF k = 0 THEN q
        ELSE IF ret[k].name = target[k - 1] /\ ret[k].type = "CNAME" THEN ret[k].val
        ELSE target[k - 1]
  IN  rcode = "NoError" /\ \E k \in DOMAIN ret : ret[k].type = "A" /\ ret[k].name = target[k - 1]

----------------------------------------------------------------------------
(* doResolve *)

Ask(w, q) ==
  /\ running = None /\ stack[w] = <<>> /\ asks < world.asks
  /\ asks' = asks + 1
  /\ stack' = [stack EXCEPT ![w] = <<Frame("doResolve", q, <<>>, 0, {})>>]
  /\ me' = [me EXCEPT ![w] = SyncRes(q)]
  /\ out' = [out EXCEPT ![w] = NotAsked]
  /\ running' = w
  /\ UNCHANGED <<world, caches, faults>>

\* Calls whose result is that of the caller.
Plainly(f, depth) == Frame("noQM", f.q, f.ret, depth, f.been)

NoMinimization(w) ==
  /\ Runs(w, "doResolve", "start") /\ ~me[w].qm
  /\ Continue(w, Plainly(Top(w), Top(w).depth))
  /\ UNCHANGED <<world, caches, me, running, out, counters>>

\* Step 0: what does the cache alone say?
Step0(w) ==
  LET f == Top(w) IN
  /\ Runs(w, "doResolve", "start") /\ me[w].qm
  /\ Call(w, [f EXCEPT !.at = "peeked", !.old = me[w].cacheOnly],
             [Frame("noQM", f.q, <<>>, f.depth, f.been) EXCEPT !.peek = TRUE])
  /\ me' = [me EXCEPT ![w].cacheOnly = TRUE]
  /\ UNCHANGED <<world, caches, running, out, counters>>

Peeked(w) ==
  LET f == Top(w)
      object == [me[w] EXCEPT !.cacheOnly = f.old]
  IN  /\ Runs(w, "doResolve", "peeked")
      /\ IF f.got.from
         THEN Return(w, [f.got EXCEPT !.ret = f.ret \o @, !.from = FALSE], object)
         ELSE /\ Continue(w, [f EXCEPT !.at = "ancestor", !.been = f.got.been, !.got = NoResult])
              /\ me' = [me EXCEPT ![w] = object]
              /\ UNCHANGED <<running, out>>
      /\ UNCHANGED <<world, caches, counters>>

\* Step 1, the closest zone of which the cache has servers: there is the root at least.
Step1(w) ==
  LET f == Top(w) IN
  /\ Runs(w, "doResolve", "ancestor")
  /\ \E zone \in Best(f.q, {}) :
       /\ Wipe(Flawed(f.q, zone))
       /\ Continue(w, [f EXCEPT !.at = "child", !.child = zone])
  /\ UNCHANGED <<world, neg, me, running, out, counters>>

\* Step 2, how many labels the next name has.
Larger(a, b)  == IF a > b THEN a ELSE b
Smaller(a, b) == IF a < b THEN a ELSE b
StepLen(labels, qnamelen, i) ==
  LET step == IF i < OneLabel THEN 1
              ELSE IF i < MaxMinimize
              THEN Larger(1, (qnamelen - labels) \div (MaxMinimize - i))
              ELSE qnamelen - labels
  IN  Smaller(labels + step, qnamelen)

\* Steps 3 and 4: the full name, or a name on the way, which is only asked for its servers.
Step34(w) ==
  LET f == Top(w)
      child == SubSeq(f.q, 1, StepLen(Len(f.child), Len(f.q), f.i))
      visited == \E b \in f.been : b.qname = child
  IN  /\ Runs(w, "doResolve", "child")
      /\ IF f.i > Len(f.q)
         THEN Return(w, Result(f, "ServFail", f.ret), me[w])
         ELSE IF child = f.q \/ visited
         THEN /\ Continue(w, Plainly(f, f.depth))
              /\ UNCHANGED <<me, running, out>>
         ELSE /\ Call(w, [f EXCEPT !.at = "childAsked", !.child = child, !.old = me[w].follow],
                         [Frame("noQM", child, <<>>, f.depth, f.been) EXCEPT !.stop = TRUE])
              /\ me' = [me EXCEPT ![w].follow = FALSE]
              /\ UNCHANGED <<running, out>>
      /\ UNCHANGED <<world, caches, counters>>

\* Behind step 4: a delegation leads to step 1, anything but NOERROR to a last effort
\* without minimization.
ChildAsked(w) ==
  LET f == Top(w)
      g == [f EXCEPT !.been = f.got.been, !.got = NoResult, !.i = @ + 1]
      object == [me[w] EXCEPT !.follow = f.old]
      failed == f.got.rcode # "NoError" /\ ~f.got.stopped
  IN  /\ Runs(w, "doResolve", "childAsked")
      /\ Continue(w, IF failed THEN Plainly(g, f.depth + 1)
                     ELSE [g EXCEPT !.at = IF f.got.stopped THEN "ancestor" ELSE "child"])
      /\ me' = [me EXCEPT ![w] = IF failed THEN [object EXCEPT !.qm = FALSE, !.fallback = TRUE]
                                 ELSE object]
      /\ UNCHANGED <<world, caches, running, out, counters>>

----------------------------------------------------------------------------
(* doResolveNoQNameMinimization: the caches first. *)

\* getAdjustedRecursionBound; the stricter bound while servers are throttled is left out.
Bound(w) == MaxDepth + (IF me[w].fallback THEN MaxDepth \div 2 ELSE 0)
TooDeepNever(w) == FALSE
TooDeep(w) == MaxDepth > 0 /\ Top(w).depth > Bound(w)

Starts(w) == Runs(w, "noQM", "start") /\ ~TooDeep(w)

RefuseDepth(w) ==
  /\ Runs(w, "noQM", "start") /\ TooDeep(w)
  /\ Throw(w)
  /\ UNCHANGED <<world, caches, counters>>

\* The result of a cached alias: of a peek only that which is final.
Aliased(w, f, rcode, ret) ==
  [Result(f, rcode, ret) EXCEPT
     !.from = f.peek /\ (~me[w].cacheOnly \/ HaveFinalAnswer(f.q, rcode, ret))]

NoMinimizationBelow(w, q, target) ==
  IF IsPrefix(q, target) THEN [me[w] EXCEPT !.qm = FALSE] ELSE me[w]

\* doCNAMECacheCheck
CachedAlias(w) ==
  LET f      == Top(w)
      target == cache[<<f.q, "CNAME">>].val
      ret    == Append(f.ret, Record(f.q, [type |-> "CNAME", val |-> target]))
      object == NoMinimizationBelow(w, f.q, target)
  IN  /\ Starts(w) /\ Has(w, f.q, "CNAME")
      /\ IF target = f.q \/ (me[w].follow /\ (Loops(target, ret) \/ TooLong(ret)))
         THEN Throw(w)
         ELSE IF ~me[w].follow
         THEN Return(w, Aliased(w, f, "NoError", ret), object)
         ELSE /\ Call(w, [f EXCEPT !.at = "aliasFollowed"],
                         Frame("doResolve", target, ret, f.depth + 1, {}))
              /\ me' = [me EXCEPT ![w] = object]
              /\ UNCHANGED <<running, out>>
      /\ UNCHANGED <<world, caches, counters>>

AliasFollowed(w) ==
  LET f == Top(w) IN
  /\ Runs(w, "noQM", "aliasFollowed")
  /\ Return(w, Aliased(w, f, f.got.rcode, f.got.ret), me[w])
  /\ UNCHANGED <<world, caches, counters>>

\* doCacheCheck: what is denied, then what is known.
CacheHit(w) ==
  LET f == Top(w)
      denied == f.q \in DOMAIN neg
      record == Record(f.q, [type |-> "A", val |-> cache[<<f.q, "A">>].val])
      r == IF denied
           THEN Result(f, IF neg[f.q] = "NX" THEN "NXDomain" ELSE "NoError", f.ret)
           ELSE Result(f, "NoError", Append(f.ret, record))
  IN  /\ Starts(w) /\ ~Has(w, f.q, "CNAME")
      /\ denied \/ Has(w, f.q, "A")
      /\ Return(w, [r EXCEPT !.from = f.peek], me[w])
      /\ UNCHANGED <<world, caches, counters>>

\* rnameservers.size() servers of a level may cost so many lookups that find nothing.
NSLimit(n) ==
  IF n > MaxNSQueries THEN Larger(5, 2 * MaxNSQueries - n) ELSE MaxNSQueries

Level(f, zone, servers) ==
  [f EXCEPT !.at = "next", !.auth = zone, !.left = servers,
            !.limit = NSLimit(Cardinality(servers))]

Unknown(w) ==
  LET f == Top(w) IN
  /\ Starts(w)
  /\ ~Has(w, f.q, "CNAME") /\ f.q \notin DOMAIN neg /\ ~Has(w, f.q, "A")

NotCached(w) ==
  /\ Unknown(w) /\ me[w].cacheOnly
  /\ Return(w, Result(Top(w), "NoError", Top(w).ret), me[w])
  /\ UNCHANGED <<world, caches, counters>>

\* The closest servers not yet tried for this name (getBestNSNamesFromCache) ...
GoOut(w) ==
  LET f     == Top(w)
      tried == IF Best(f.q, f.been) # {} THEN f.q ELSE Root
  IN  /\ Unknown(w) /\ ~me[w].cacheOnly
      /\ \E zone \in Best(tried, f.been) :
           /\ Wipe(Flawed(f.q, zone))
           /\ Continue(w, [Level(f, zone, Usable(zone)) EXCEPT
                             !.been = @ \cup {BestNSAnswer(tried, zone)}])
      /\ UNCHANGED <<world, neg, me, running, out, counters>>

\* ... or none, as the second try, from the root, was made before as well.
NowhereToGo(w) ==
  LET f == Top(w) IN
  /\ Unknown(w) /\ ~me[w].cacheOnly
  /\ Best(f.q, f.been) = {} /\ Best(Root, f.been) = {}
  /\ Wipe(Flawed(f.q, Root))
  /\ Continue(w, Level(f, Root, {}))
  /\ UNCHANGED <<world, neg, me, running, out, counters>>

----------------------------------------------------------------------------
(* doResolveAt: the servers of a level one by one, and their addresses *)

NoMoreServers(w) ==
  LET f == Top(w) IN
  /\ Runs(w, "noQM", "next")
  /\ f.empties >= f.limit \/ f.left = {}
  /\ IF f.empties >= f.limit THEN Throw(w)
     ELSE Return(w, Result(f, "ServFail", f.ret), me[w])
  /\ UNCHANGED <<world, caches, counters>>

\* getAddrs: from the cache, whoever said so; else resolved, without following aliases.
\* A server is not asked for its own address unless that is known.
TryServer(w, ns) ==
  LET f == Top(w)
      g == [f EXCEPT !.left = @ \ {ns}]
  IN  /\ Runs(w, "noQM", "next") /\ f.empties < f.limit /\ ns \in f.left
      /\ IF <<ns, "A">> \in DOMAIN cache
         THEN /\ Continue(w, [g EXCEPT !.at = "ask", !.addrs = {cache[<<ns, "A">>].val}])
              /\ UNCHANGED me
         ELSE /\ Call(w, [g EXCEPT !.at = "serverResolved", !.sent = me[w].sent,
                            !.saved = [cacheOnly   |-> me[w].cacheOnly,
                                       requireAuth |-> me[w].requireAuth,
                                       follow      |-> me[w].follow]],
                         Frame("noQM", ns, <<>>, f.depth + 1, f.been))
              /\ me' = [me EXCEPT ![w].cacheOnly = (ns = f.q), ![w].requireAuth = FALSE,
                                  ![w].follow = FALSE]
      /\ UNCHANGED <<world, caches, running, out, counters>>

RestoredPartly(object, saved) == [object EXCEPT !.cacheOnly = saved.cacheOnly, !.follow = saved.follow]
Restored(object, saved) ==
  [object EXCEPT !.cacheOnly = saved.cacheOnly, !.requireAuth = saved.requireAuth,
                 !.follow = saved.follow]

ServerResolved(w) ==
  LET f == Top(w)
      addrs == IF f.got.rcode = "NoError"
               THEN {f.got.ret[i].val : i \in {j \in DOMAIN f.got.ret : f.got.ret[j].type = "A"}}
               ELSE {}
      vain == addrs = {} /\ me[w].sent > f.sent
  IN  /\ Runs(w, "noQM", "serverResolved")
      /\ Continue(w, [f EXCEPT !.at = IF addrs = {} THEN "next" ELSE "ask",
                               !.addrs = addrs, !.been = f.got.been, !.got = NoResult,
                               !.empties = IF vain THEN @ + 1 ELSE @,
                               !.saved = NoFlags, !.sent = 0])
      /\ me' = [me EXCEPT ![w] = Restored(@, f.saved)]
      /\ UNCHANGED <<world, caches, running, out, counters>>

\* The question leaves, and others may run.
AskServer(w, addr) ==
  LET f == Top(w) IN
  /\ Runs(w, "noQM", "ask") /\ addr \in f.addrs
  /\ IF me[w].sent + 1 > MaxQueries
     THEN Throw(w)
     ELSE /\ Continue(w, [f EXCEPT !.at = "wait", !.asked = addr, !.addrs = @ \ {addr}])
          /\ me' = [me EXCEPT ![w].sent = @ + 1]
          /\ running' = None
          /\ UNCHANGED out
  /\ UNCHANGED <<world, caches, counters>>

----------------------------------------------------------------------------
(* What comes back *)

Waits(w) == running = None /\ stack[w] # <<>> /\ Top(w).at = "wait"

OneServerOnly(f) ==
  [f EXCEPT !.at = IF f.addrs = {} THEN "next" ELSE "ask", !.left = {}, !.asked = None]
NextAddress(f) == [f EXCEPT !.at = IF f.addrs = {} THEN "next" ELSE "ask", !.asked = None, !.packet = NoPacket]

\* A timeout or an error, or the throttle holds the server back because of earlier
\* ones, which counts as a query as well: the next address.
Lose(w) ==
  /\ Waits(w) /\ faults < world.faults
  /\ faults' = faults + 1
  /\ running' = w
  /\ Continue(w, NextAddress(Top(w)))
  /\ me' = [me EXCEPT ![w].lost = TRUE]
  /\ UNCHANGED <<world, caches, out, asks>>

\* sanitizeRecords: what is not under the zone asked about goes, NS sets of the root go,
\* and addresses of other names than the servers' and the question's.
SanitizedLoosely(p, auth, q) == p
Sanitized(p, auth, q) ==
  LET ns == IF p.owner # Root /\ IsPrefix(auth, p.owner) THEN p.ns ELSE {}
      extra == {n \in DOMAIN p.extra : IsPrefix(auth, n) /\ n \in ns \cup {q}}
  IN  [p EXCEPT !.ns = ns, !.extra = [n \in extra |-> p.extra[n]]]

\* MemRecursorCache::replace: what is authoritative stays, unless replaced by force.
Stored(known, key, entry) ==
  IF key \in DOMAIN known /\ known[key].auth /\ ~entry.auth THEN known
  ELSE With(known, key, entry)

\* updateCacheFromRecords.  Addresses of the additional section are stored as
\* authoritative and by force (forceCacheAuth, cacheRefresh).
Learned(p, f) ==
  LET alias == p.type = "CNAME"
      aa    == p.type # "REFERRAL"
      answered == IF p.type \in {"A", "CNAME"}
                  THEN Stored(cache, <<f.q, p.type>>, [auth |-> TRUE, val |-> p.val]) ELSE cache
      served == IF p.ns # {} /\ ~(alias /\ p.owner = f.auth)
                THEN Stored(answered, <<p.owner, "NS">>, [auth |-> aa /\ ~alias, val |-> p.ns])
                ELSE answered
      glue == {<<n, "A">> : n \in DOMAIN p.extra}
  IN  [k \in DOMAIN served \cup glue |->
         IF k \in glue THEN [auth |-> TRUE, val |-> p.extra[k[1]]] ELSE served[k]]

\* handleNewTarget
NewTarget(w, f, target) ==
  LET ret    == Append(f.ret, Record(f.q, [type |-> "CNAME", val |-> target]))
      object == NoMinimizationBelow(w, f.q, target)
  IN  IF target = f.q
      THEN Return(w, Result(f, "ServFail", <<>>), me[w])
      ELSE IF ~me[w].follow
      THEN Return(w, Result(f, "NoError", ret), object)
      ELSE IF Loops(target, ret)
      THEN Return(w, Result(f, "ServFail", <<>>), object)
      ELSE IF TooLong(ret)
      THEN Return(w, Result(f, "ServFail", ret), object)
      ELSE /\ Call(w, [f EXCEPT !.at = "targetResolved"],
                      Frame("doResolve", target, ret, f.depth + 1, {}))
           /\ me' = [me EXCEPT ![w] = object]
           /\ UNCHANGED <<running, out>>

----------------------------------------------------------------------------
(* doResolveAtThisIP and processAnswer, by what the answer is *)

\* The mthread is woken with an answer ...
Receive(w) ==
  /\ Waits(w)
  /\ running' = w
  /\ LET f == Top(w) IN
     Continue(w, [f EXCEPT !.at = "answer", !.asked = None,
                           !.packet = Sanitized(Reply(world, f.asked, f.q), f.auth, f.q)])
  /\ UNCHANGED <<world, caches, me, out, counters>>

Got(w, types) == Runs(w, "noQM", "answer") /\ Top(w).packet.type \in types

Refused(w) ==
  /\ Got(w, {"REFUSED"})
  /\ Continue(w, NextAddress(Top(w)))
  /\ UNCHANGED <<world, caches, me, running, out, counters>>

\* ... which has the address,
GotAddress(w) ==
  LET f == Top(w) IN
  /\ Got(w, {"A"})
  /\ cache' = Learned(f.packet, f)
  /\ Return(w, Result(f, "NoError",
                      Append(f.ret, Record(f.q, [type |-> "A", val |-> f.packet.val]))), me[w])
  /\ UNCHANGED <<world, neg, counters>>

\* an alias,
GotAlias(w) ==
  LET f == Top(w) IN
  /\ Got(w, {"CNAME"})
  /\ cache' = Learned(f.packet, f)
  /\ NewTarget(w, [f EXCEPT !.packet = NoPacket, !.addrs = {}, !.left = {}], f.packet.val)
  /\ UNCHANGED <<world, neg, counters>>

TargetResolved(w) ==
  LET f == Top(w) IN
  /\ Runs(w, "noQM", "targetResolved")
  /\ Return(w, Result(f, f.got.rcode, f.got.ret), me[w])
  /\ UNCHANGED <<world, caches, counters>>

\* a denial, kept when its SOA record is of the zone asked about or below,
GotDenial(w) ==
  LET f == Top(w)
      p == f.packet
  IN  /\ Got(w, {"NX", "NODATA"})
      /\ neg' = IF IsPrefix(f.auth, p.owner) THEN With(neg, f.q, p.type) ELSE neg
      /\ Return(w, Result(f, IF p.type = "NX" THEN "NXDomain" ELSE "NoError", f.ret), me[w])
      /\ UNCHANGED <<world, cache, counters>>

\* servers of a zone below, of which the caller wants to hear when it asked for that;
\* anything else is lame.
GotReferral(w) ==
  LET f == Top(w)
      p == f.packet
      below == p.ns # {} /\ IsStrictPrefix(f.auth, p.owner)
  IN  /\ Got(w, {"REFERRAL"})
      /\ cache' = Learned(p, f)
      /\ IF below /\ f.stop
         THEN Return(w, [Result(f, "NoError", f.ret) EXCEPT !.stopped = TRUE], me[w])
         ELSE /\ Continue(w, IF below
                             THEN [Level(f, p.owner, p.ns) EXCEPT !.addrs = {}, !.packet = NoPacket]
                             ELSE NextAddress(f))
              /\ UNCHANGED <<me, running, out>>
      /\ UNCHANGED <<world, neg, counters>>

----------------------------------------------------------------------------

\* Time passes only while all wait; the root's servers are primed again (primeHints).
ExpireRecord(k) ==
  /\ running = None /\ faults < world.faults
  /\ k \notin {<<Root, "NS">>} \cup {<<n, "A">> : n \in world.ns[Root]}
  /\ faults' = faults + 1
  /\ cache' = Without(cache, {k})
  /\ UNCHANGED <<world, neg, stack, me, running, out, asks>>

ExpireDenial(n) ==
  /\ running = None /\ faults < world.faults
  /\ faults' = faults + 1
  /\ neg' = Without(neg, {n})
  /\ UNCHANGED <<world, cache, stack, me, running, out, asks>>

Work(w) ==
  \/ NoMinimization(w) \/ Step0(w) \/ Peeked(w) \/ Step1(w) \/ Step34(w) \/ ChildAsked(w)
  \/ RefuseDepth(w) \/ CachedAlias(w) \/ AliasFollowed(w) \/ CacheHit(w) \/ NotCached(w)
  \/ GoOut(w) \/ NowhereToGo(w) \/ NoMoreServers(w) \/ ServerResolved(w)
  \/ stack[w] # <<>> /\ \/ \E ns \in Top(w).left : TryServer(w, ns)
                        \/ \E addr \in Top(w).addrs : AskServer(w, addr)
  \/ Refused(w) \/ GotAddress(w) \/ GotAlias(w) \/ TargetResolved(w) \/ GotDenial(w)
  \/ GotReferral(w)

Next ==
  \/ \E w \in Workers : Work(w) \/ Receive(w) \/ Lose(w)
  \/ \E w \in Workers, q \in world.asked : Ask(w, q)
  \/ \E k \in DOMAIN cache : ExpireRecord(k)
  \/ \E n \in DOMAIN neg : ExpireDenial(n)

\* Who runs goes on, and who waits is woken, by an answer or by the timeout of
\* arecvfrom.  Nobody has to ask.
Fairness == \A w \in Workers : WF_vars(Work(w)) /\ SF_running(Waits(w) /\ running' = w)

Spec == Init /\ [][Next]_vars /\ Fairness

----------------------------------------------------------------------------

\* The flags of a SyncRes hold as long as the call they were set for: only the caches
\* while it peeks or a server looks for itself, answers without authority for addresses
\* of servers, aliases not followed there and on the way to a name.
Within(w, places) == {i \in DOMAIN stack[w] : stack[w][i].at \in places}
FlagsScoped(w) ==
  LET looks == Within(w, {"peeked", "serverResolved"})
      inner == IF looks = {} THEN 0 ELSE CHOOSE i \in looks : \A j \in looks : j <= i
  IN  stack[w] # <<>> =>
        /\ me[w].requireAuth <=> Within(w, {"serverResolved"}) = {}
        /\ me[w].follow <=> Within(w, {"serverResolved", "childAsked"}) = {}
        /\ inner = 0 => ~me[w].cacheOnly
        /\ inner \in 1 .. Len(stack[w]) - 1 =>
             (me[w].cacheOnly <=> \/ stack[w][inner].at = "peeked"
                                  \/ stack[w][inner + 1].q = stack[w][inner].q)

\* What the variables hold, the flags of a resolution among them.
TypeOK ==
  /\ world \in Worlds
  /\ running \in Workers \cup {None}
  /\ \A k \in DOMAIN cache : k[1] \in Names(world) /\ k[2] \in {"A", "CNAME", "NS"}
  /\ \A n \in DOMAIN neg : neg[n] \in {"NX", "NODATA"}
  /\ \A w \in Workers : /\ Len(stack[w]) <= MaxStack /\ me[w].sent <= MaxQueries
                        /\ FlagsScoped(w)
                        /\ running = w => stack[w] # <<>>
  /\ asks <= world.asks /\ faults <= world.faults

\* Whatever was cached, lost or expired meanwhile, a client is told what the owners of
\* the names say, all of it and in its order, or that it failed.
AnswerTrue ==
  \A w \in Workers :
    out[w].rcode \in {"NoError", "NXDomain"} =>
      Truth(world, out[w].q) = [rcode |-> out[w].rcode, records |-> out[w].records]

\* What can be found by asking servers that work is found, unless an exchange failed: a
\* lame server, an old address, a zone that cannot be entered one way or an entry that
\* expired is no reason to fail.
WorkingIsFound ==
  \A w \in Workers :
    out[w].rcode = "ServFail" => out[w].lost \/ ~Reachable(world, out[w].q)

\* Every question comes to an end, also about aliases in a circle or zones that have
\* their servers in each other.
Answered == \A w \in Workers : stack[w] # <<>> ~> stack[w] = <<>>
=============================================================================

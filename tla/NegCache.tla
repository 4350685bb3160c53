------------------------------ MODULE NegCache ------------------------------
(***************************************************************************)
(* The negative cache (src/negcache.cc): names and types that do not       *)
(* exist.  The type ENT stands for a name of which nothing exists.  An     *)
(* action is one call, all of it under the lock of one shard.              *)
(***************************************************************************)
EXTENDS ShardedCache

\* A task of a lookup for ANY can be denied, too.
NegKeys == [name : Names, type : Types \cup {"ENT", "ANY"}]

VARIABLES
  neg,      \* the shards
  negPruner

negVars == <<neg, negPruner>>

NegInit ==
  /\ neg = [i \in Shards |-> [map |-> <<>>, lru |-> <<>>]]
  /\ negPruner = IdlePruner

NegShard(name) == neg[ShardOf[name]]

SetNeg(i, shard) ==
  /\ neg' = [neg EXCEPT ![i] = shard]
  /\ negPruner' = IF negPruner.pc = "idle" THEN negPruner
                  ELSE [negPruner EXCEPT !.alone = FALSE]

----------------------------------------------------------------------------
(* A lookup: the shard, the tasks pushed, the entry found and whether it denies. *)

NoEntry == [name |-> "", type |-> "ENT"]

\* The type of a task for an entry, pushed by a lookup for some type.
TaskType(type) == IF type = "ENT" THEN "A" ELSE type

\* updateStaleEntry, if it is called.  The new ttd can be t itself.
NegBookkept(l, k, t, qtype, serveStale) ==
  LET e == l.shard.map[k]
  IN  IF NeedsExtension(e, t, serveStale)
      THEN [l EXCEPT !.shard.map[k] = Extended(e, t, t + Smaller(e.orig, Period)),
                     !.pushed = @ \cup {[name |-> k.name, type |-> TaskType(qtype)]}]
      ELSE l

\* The loop of get, for one entry of the name.
NegVisit(l, k, t, qtype, typeMustMatch, serveStale, refresh) ==
  LET b == NegBookkept(l, k, t, qtype, serveStale)
      e == b.shard.map[k]
  IN  IF l.over \/ ~(k.type = qtype \/ (k.type = "ENT" /\ ~typeMustMatch)) THEN l
      ELSE IF ~IsEntryUsable(l.shard.map[k], t, serveStale)
           THEN [l EXCEPT !.shard = ToFront(@, k)]
      ELSE IF e.ttd <= t THEN b
      ELSE [b EXCEPT !.shard = ToBack(@, k), !.over = TRUE, !.key = k,
                     !.denies = ~(refresh /\ e.servedStale > 0)]

NegGroup(name) == {k \in DOMAIN NegShard(name).map : k.name = name}

\* get; the entries of a name come in no particular order.
NegLookedUp(t, name, qtype, typeMustMatch, serveStale, refresh, order) ==
  LET visited[n \in 0 .. Len(order)] ==
        IF n = 0 THEN [shard |-> NegShard(name), pushed |-> {}, key |-> NoEntry,
                       denies |-> FALSE, over |-> FALSE]
        ELSE NegVisit(visited[n - 1], order[n], t, qtype, typeMustMatch, serveStale, refresh)
  IN  visited[Len(order)]

NegGet(name, l) ==
  /\ SetNeg(ShardOf[name], l.shard)
  /\ tasks' = tasks \cup l.pushed

----------------------------------------------------------------------------
\* `root' is whether the root zone denies, `bogus' the validation status.
NegEntry(t, ttl, root) ==
  [ttd |-> t + ttl, orig |-> ttl, servedStale |-> 0, root |-> root, bogus |-> FALSE,
   died |-> Never]

\* add: it takes the place of an older entry.
NegAdd(k, e) == SetNeg(ShardOf[k.name], Put(NegShard(k.name), k, e))

WithTTD(shard, k, ttd) == [shard EXCEPT !.map[k].ttd = Smaller(@, ttd)]

\* updateValidationStatus
NegValidate(k, t, bogus) ==
  LET shard  == NegShard(k.name)
      capped == IF bogus THEN WithTTD(shard, k, t + MaxBogus) ELSE shard
  IN  /\ k \in DOMAIN shard.map
      /\ SetNeg(ShardOf[k.name], [capped EXCEPT !.map[k].bogus = bogus])

\* wipe, for a name or, a shard after the other, for a subtree.
WipeNeg(i, names) ==
  SetNeg(i, Without(neg[i], {k \in DOMAIN neg[i].map : k.name \in names}))

TypedOnly(shard, name, type) ==
  Without(shard, {k \in DOMAIN shard.map : k.name = name /\ k.type = type})

\* wipeTyped: a denial of the whole name goes with it.
WipedTyped(shard, name, type) ==
  Without(shard, {k \in DOMAIN shard.map : k.name = name /\ k.type \in {type, "ENT"}})

WipeTyped(name, type) ==
  SetNeg(ShardOf[name], WipedTyped(NegShard(name), name, type))

\* clear, a shard after the other.
ClearNeg(i) == SetNeg(i, [map |-> <<>>, lru |-> <<>>])

\* prune
PruneNeg(t) ==
  /\ negPruner.pc = "idle"
  /\ negPruner' = PrunerAt(TotalSize(neg), t)
  /\ UNCHANGED neg

ScanNeg ==
  LET shard == neg[negPruner.shard]
  IN  /\ negPruner.pc = "scan"
      /\ neg' = [neg EXCEPT ![negPruner.shard] =
                   Without(shard, Scanned(negPruner, shard))]
      /\ negPruner' = AfterScan(negPruner, shard)

TrimNeg ==
  LET shard == neg[negPruner.shard]
  IN  /\ negPruner.pc = "trim"
      /\ \E n \in TrimCounts(negPruner, shard) :
           /\ neg' = [neg EXCEPT ![negPruner.shard] =
                        Without(shard, Trimmed(shard, n))]
           /\ negPruner' = AfterTrim(negPruner, shard, n)
=============================================================================

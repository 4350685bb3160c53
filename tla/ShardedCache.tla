--------------------------- MODULE ShardedCache ---------------------------
(***************************************************************************)
(* What the record cache and the negative cache share: a map in shards,    *)
(* each with a lock and an LRU list of its own (src/cachecleaner.hh), and  *)
(* serve-stale, the extension of expired entries while their servers do    *)
(* not answer (src/recursor_cache.cc:39, src/negcache.cc).                 *)
(*                                                                         *)
(* A shard is a record with a partial function `map' from keys to entries  *)
(* and the sequence `lru' of its keys, the next to be thrown away first.   *)
(* Its entry counter is raised and lowered under the shard's lock, so it   *)
(* is the size of `map' whenever somebody else can read it.                *)
(***************************************************************************)
EXTENDS Integers, Sequences, FiniteSets, SequencesExt

CONSTANTS
  NumShards, \* shards are visited by number
  Names, Types,
  ShardOf,   \* name -> shard: the hash of a name modulo the number of shards
  Setups,    \* what a run may be about, see `setup'
  Period,    \* s_serveStaleExtensionPeriod, seconds (30)
  MaxBogus,  \* s_maxbogusttl, seconds
  Modulus,   \* 2^64, of the counters of a prune
  MaxNow     \* bound: the last instant of the clock

ASSUME ShardedCacheAssumption ==
  /\ NumShards \in Nat \ {0}
  /\ ShardOf \in [Names -> 1 .. NumShards]
  /\ Period \in Nat \ {0} /\ MaxBogus \in Nat
  /\ Modulus \in Nat \ {0} /\ MaxNow \in Nat

Shards == 1 .. NumShards

VARIABLES
  now,
  \* Settings of the program and the traffic of this behaviour, never changed:
  \* extensions is s_maxServedStaleExtensions, lag how old the d_now of a caller
  \* can be, maxCached the size the caches are pruned to.
  setup,
  tasks \* refresh tasks pushed and not yet run: their names and types

\* The clocks of the callers.
Clocks == {t \in 0 .. now : now <= t + setup.lag}

Larger(a, b) == IF a > b THEN a ELSE b
Smaller(a, b) == IF a < b THEN a ELSE b

Never == -1

----------------------------------------------------------------------------
(* Serve-stale *)

\* isEntryUsable
IsEntryUsable(e, t, serveStale) == e.ttd > t \/ serveStale \/ e.servedStale # 0

\* isStale: may be thrown away.
IsStale(e, t) ==
  IF setup.extensions > 0
  THEN e.ttd + setup.extensions * Smaller(Period, e.orig) < t
  ELSE e.ttd < t

NeedsExtension(e, t, serveStale) ==
  /\ serveStale \/ e.servedStale > 0
  /\ e.ttd <= t
  /\ e.servedStale < setup.extensions

CountsNothing(e, t) ==
  Smaller(e.servedStale
            + Larger(1, t - e.ttd) \div Larger(1, Smaller(e.orig, Period)),
          setup.extensions)

\* How many extensions this one counts for.
ServedStale(e, t) ==
  Smaller(e.servedStale + 1
            + Larger(1, t - e.ttd) \div Larger(1, Smaller(e.orig, Period)),
          setup.extensions)

\* updateStaleEntry; `died' is history: the end of an entry before any extension.
Extended(e, t, ttd) ==
  [e EXCEPT !.servedStale = ServedStale(e, t),
            !.ttd = ttd,
            !.died = IF e.died = Never THEN e.ttd ELSE @]

----------------------------------------------------------------------------
(* The map and its LRU list *)

Unlisted(lru, ks) ==
  LET kept[n \in 0 .. Len(lru)] ==
        IF n = 0 THEN <<>>
        ELSE IF lru[n] \in ks THEN kept[n - 1] ELSE Append(kept[n - 1], lru[n])
  IN  kept[Len(lru)]

ToFront(shard, k) == [shard EXCEPT !.lru = <<k>> \o Unlisted(@, {k})]
ToBack(shard, k) == [shard EXCEPT !.lru = Append(Unlisted(@, {k}), k)]

\* A new entry comes last, one that is replaced moves there.
Put(shard, k, e) ==
  [ToBack(shard, k) EXCEPT !.map = [x \in DOMAIN @ \cup {k} |->
                                       IF x = k THEN e ELSE @[x]]]

WithoutEntries(shard, ks) == [shard EXCEPT !.map = [x \in DOMAIN @ \ ks |-> @[x]]]

Without(shard, ks) ==
  [shard EXCEPT !.map = [x \in DOMAIN @ \ ks |-> @[x]],
                !.lru = Unlisted(@, ks)]

Size(shard) == Cardinality(DOMAIN shard.map)

TotalSize(cache) ==
  LET count[n \in 0 .. NumShards] == IF n = 0 THEN 0 ELSE count[n - 1] + Size(cache[n])
  IN  count[NumShards]

\* The list holds the keys of the map, once.
ListMatches(shard) ==
  /\ Len(shard.lru) = Size(shard)
  /\ ToSet(shard.lru) = DOMAIN shard.map

----------------------------------------------------------------------------
(* pruneMutexCollectionsVector, a step for each shard: it holds one lock at a   *)
(* time, and its counters are those of a cache that others go on changing.  The *)
(* last four fields are history.                                                *)

IdlePruner == [pc |-> "idle", shard |-> 1, t |-> 0, cacheSize |-> 0, toTrim |-> 0,
               lookAt |-> 0, erased |-> 0, excess |-> 0, trimmed |-> 0,
               alone |-> TRUE]

Ceiling(a, b) == (a + b - 1) \div b
Round(a, b) == (2 * a + b) \div (2 * b)

\* An empty cache is left alone.
PrunerAt(cacheSize, t) ==
  LET toTrim == Larger(0, cacheSize - setup.maxCached)
  IN  IF cacheSize = 0 THEN IdlePruner
      ELSE [IdlePruner EXCEPT
              !.pc = "scan", !.t = t, !.cacheSize = cacheSize,
              !.toTrim = toTrim, !.excess = toTrim,
              !.lookAt = IF toTrim = 0 THEN cacheSize \div 10
                         ELSE Larger(5 * toTrim, cacheSize \div 10)]

\* The first pass: the stale entries among the first ones of the list.
Scanned(p, shard) ==
  LET toScan == Ceiling(p.lookAt * Size(shard), p.cacheSize)
  IN  {k \in ToSet(SubSeq(shard.lru, 1, Smaller(toScan + 1, Size(shard)))) :
         IsStale(shard.map[k], p.t)}

AfterScan(p, shard) ==
  LET erased == p.erased + Cardinality(Scanned(p, shard))
  IN  IF p.shard < NumShards
      THEN [p EXCEPT !.shard = @ + 1, !.erased = erased]
      ELSE IF erased >= p.toTrim THEN IdlePruner
      ELSE [p EXCEPT !.pc = "trim", !.shard = 1, !.erased = erased,
                     !.toTrim = @ - erased, !.cacheSize = @ - erased]

\* The second pass: as many of the first ones as this shard's part of toTrim.  With
\* a cacheSize of 0, after entries have come in between, the division gives
\* infinity or NaN and its conversion to an integer is undefined.
TrimCounts(p, shard) ==
  IF p.cacheSize = 0
  THEN 0 .. Smaller(p.toTrim, Size(shard))
  ELSE {Smaller(Round(p.toTrim * Size(shard), p.cacheSize),
                Smaller(p.toTrim, Size(shard)))}

Trimmed(shard, n) == ToSet(SubSeq(shard.lru, 1, n))

KeepsSize(p, shard, n) ==
  IF p.toTrim <= n \/ p.shard = NumShards THEN IdlePruner
  ELSE [p EXCEPT !.shard = @ + 1, !.toTrim = @ - n, !.trimmed = @ + n]

AfterTrim(p, shard, n) ==
  IF p.toTrim <= n \/ p.shard = NumShards THEN IdlePruner
  ELSE [p EXCEPT !.shard = @ + 1, !.toTrim = @ - n, !.trimmed = @ + n,
                 !.cacheSize = (@ - Size(shard)) % Modulus]
=============================================================================

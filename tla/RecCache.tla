------------------------------ MODULE RecCache ------------------------------
(***************************************************************************)
(* The record cache (src/recursor_cache.cc, MemRecursorCache): sets of     *)
(* records by name, type, routing tag and netmask.  An action is one call, *)
(* all of it under the lock of one shard.                                  *)
(*                                                                         *)
(* Beside the map a shard keeps two things that must follow it: an index   *)
(* of the netmasks there are entries for, which lookups use for as long as *)
(* the shard has any, and the range of entries of the last name and tag    *)
(* looked up (d_cachecache), kept as iterators into the map.               *)
(***************************************************************************)
EXTENDS ShardedCache

CONSTANTS
  Root,        \* the root name
  Tags, NoTag, \* routing tags of clients
  Masks, NoMask,
  Clients,
  Covering,    \* client -> its masks, the most specific first
  Margin,      \* seconds an authoritative entry yields before it ends (5)
  MinTTL,      \* s_minimumTTL
  AgedTTL      \* what doAgeCache leaves of a flawed delegation, seconds (10)

States == {"Indeterminate", "Insecure", "Secure", "Bogus"}

ASSUME RecCacheAssumption ==
  /\ NoTag \notin Tags /\ NoMask \notin Masks
  /\ {"A", "AAAA"} \subseteq Types
  /\ Covering \in [Clients -> Seq(Masks)]
  /\ Margin \in Nat /\ MinTTL \in Nat /\ AgedTTL \in Nat

Keys == [name : Names, type : Types, tag : Tags \cup {NoTag},
         mask : Masks \cup {NoMask}]
NoKey == [none |-> TRUE]

VARIABLES
  rec,      \* the shards: map, lru, index (masked keys), range
  recPruner

recVars == <<rec, recPruner>>

NoRange == [valid |-> FALSE, name |-> Root, tag |-> NoTag, keys |-> {}]

RecInit ==
  /\ rec = [i \in Shards |-> [map |-> <<>>, lru |-> <<>>, index |-> {},
                              range |-> NoRange]]
  /\ recPruner = IdlePruner

ShardWith(name) == rec[ShardOf[name]]

\* Whatever is done to a shard, a prune is then not alone.
Disturbed(p) == IF p.pc = "idle" THEN p ELSE [p EXCEPT !.alone = FALSE]

SetShard(i, shard) ==
  /\ rec' = [rec EXCEPT ![i] = shard]
  /\ recPruner' = Disturbed(recPruner)

Invalidated(shard) == [shard EXCEPT !.range.valid = FALSE]

\* preRemoval and erase.
Removed(shard, ks) == [Without(shard, ks) EXCEPT !.index = @ \ ks]

----------------------------------------------------------------------------
(* Lookups.  A lookup is a record of what it has done so far: the shard, the  *)
(* tasks pushed, the entry found and whether it is over.                      *)

Lookup(shard) == [shard |-> shard, pushed |-> {}, key |-> NoKey, ttd |-> Never,
                  orig |-> 0, found |-> FALSE, filled |-> FALSE, over |-> FALSE,
                  failed |-> FALSE]

\* pushRefreshTask
RefreshTasks(name, qtype) ==
  [name : {name}, type : IF qtype = "ADDR" THEN {"A", "AAAA"} ELSE {qtype}]

\* handleServeStaleBookkeeping
Bookkept(l, k, t, serveStale) ==
  LET e == l.shard.map[k]
      extension == Larger(1, Smaller(e.orig, Period))
  IN  IF NeedsExtension(e, t, serveStale)
      THEN [l EXCEPT !.shard.map[k] = Extended(e, t, t + extension),
                     !.pushed = @ \cup RefreshTasks(k.name, k.type)]
      ELSE l

\* handleHit.  An entry with too many records, or too many of several entries in
\* one answer (`full'), end the resolution with a SERVFAIL.
Hit(l, k, t, full) ==
  LET e == l.shard.map[k]
  IN  IF e.tooBig \/ (full /\ l.filled /\ e.ttd > t)
      THEN [l EXCEPT !.failed = TRUE, !.over = TRUE]
      ELSE IF e.ttd <= t THEN [l EXCEPT !.ttd = e.ttd, !.found = TRUE]
      ELSE [l EXCEPT !.shard = ToBack(@, k), !.ttd = e.ttd, !.orig = e.orig,
                     !.found = TRUE, !.filled = TRUE]

Unindexed(shard, k) == [shard EXCEPT !.index = @ \ {k}]

\* The loop of getEntryUsingECSIndex, for one mask of the client.
TryMask(l, k, t, requireAuth, serveStale) ==
  IF l.over \/ k \notin l.shard.index THEN l
  ELSE IF k \notin DOMAIN l.shard.map THEN [l EXCEPT !.shard = Unindexed(@, k)]
  ELSE LET b == Bookkept(l, k, t, serveStale)
           e == b.shard.map[k]
       IN  IF e.ttd > t
           THEN [b EXCEPT !.over = TRUE,
                          !.key = IF requireAuth => e.auth THEN k ELSE NoKey]
           ELSE [b EXCEPT !.shard = Unindexed(ToFront(@, k), k)]

\* And what is tried when no mask of the client is indexed (any more).
TryGeneric(l, k, t, requireAuth, serveStale) ==
  IF l.over \/ k \notin DOMAIN l.shard.map THEN l
  ELSE LET b == Bookkept(l, k, t, serveStale)
           e == b.shard.map[k]
       IN  IF e.ttd <= t THEN [b EXCEPT !.shard = ToFront(@, k)]
           ELSE [b EXCEPT !.key = IF requireAuth => e.auth THEN k ELSE NoKey]

\* getEntryUsingECSIndex
ByIndex(l, t, name, type, requireAuth, client, serveStale) ==
  LET masks == Covering[client]
      Of(mask) == [name |-> name, type |-> type, tag |-> NoTag, mask |-> mask]
      tried[n \in 0 .. Len(masks)] ==
        IF n = 0 THEN [l EXCEPT !.key = NoKey, !.over = FALSE]
        ELSE TryMask(tried[n - 1], Of(masks[n]), t, requireAuth, serveStale)
  IN  TryGeneric(tried[Len(masks)], Of(NoMask), t, requireAuth, serveStale)

HitByIndex(l, t, name, type, flags, client, full) ==
  LET b == ByIndex(l, t, name, type, flags.requireAuth, client, flags.serveStale)
  IN  IF l.failed THEN l
      ELSE IF b.key = NoKey THEN b ELSE Hit(b, b.key, t, full)

Group(shard, name, tag) == {k \in DOMAIN shard.map : k.name = name /\ k.tag = tag}

\* getEntries
WithEntries(shard, name, tag) ==
  IF shard.range.valid /\ shard.range.name = name /\ shard.range.tag = tag
  THEN shard
  ELSE [shard EXCEPT !.range = [valid |-> TRUE, name |-> name, tag |-> tag,
                                keys |-> Group(shard, name, tag)]]

\* entryMatches
EntryMatches(k, e, qtype, requireAuth, client) ==
  /\ requireAuth => e.auth
  /\ \/ k.type = qtype \/ qtype = "ANY"
     \/ qtype = "ADDR" /\ k.type \in {"A", "AAAA"}
  /\ k.mask = NoMask \/ k.mask \in ToSet(Covering[client])

\* The loop of get over the range, for one entry.  Only ANY goes on after a match.
Visit(l, k, t, qtype, flags, client, full) ==
  LET e    == l.shard.map[k]
      here == [l EXCEPT !.key = k]
      hit  == Hit(Bookkept(here, k, t, flags.serveStale), k, t, full)
  IN  IF l.over THEN l
      ELSE IF ~IsEntryUsable(e, t, flags.serveStale)
           THEN [here EXCEPT !.shard = ToFront(@, k)]
      ELSE IF ~EntryMatches(k, e, qtype, flags.requireAuth, client) THEN here
      ELSE [hit EXCEPT !.over = @ \/ qtype # "ANY"]

\* The hashed index holds the entries of a name and tag in no particular order.
ByRange(l, t, name, tag, qtype, flags, client, full, order) ==
  LET visited[n \in 0 .. Len(order)] ==
        IF n = 0 THEN [l EXCEPT !.shard = WithEntries(@, name, tag)]
        ELSE Visit(visited[n - 1], order[n], t, qtype, flags, client, full)
  IN  visited[Len(order)]

\* fakeTTD, of the entry the loop stopped at.  It pushes a task for an entry that is
\* almost expired, once for what is stored there, and makes it a miss for that task.
FakeTTD(l, k, t, qtype, refresh) ==
  LET e == l.shard.map[k]
      ttl == l.ttd - t
      almostExpired == /\ ttl > 0 /\ k.name # Root
                       /\ setup.refreshPerc > 0
                       /\ ttl <= (l.orig * setup.refreshPerc) \div 100
  IN  IF refresh /\ (e.servedStale > 0 \/ almostExpired)
      THEN [l EXCEPT !.found = FALSE]
      ELSE IF almostExpired /\ ~e.submitted
      THEN [l EXCEPT !.shard.map[k].submitted = TRUE,
                     !.pushed = @ \cup RefreshTasks(k.name, qtype)]
      ELSE l

Ended(l, t, qtype, refresh) ==
  IF l.failed \/ ~l.found THEN l ELSE FakeTTD(l, l.key, t, qtype, refresh)

UsesIndex(shard, qtype, tag) == qtype # "ANY" /\ shard.index # {} /\ tag = NoTag

\* The tag under which get looks: the given one only if there is something under it.
TagUsed(name, tag) == IF Group(ShardWith(name), name, tag) = {} THEN NoTag ELSE tag

\* get, for the order in which the range is visited.  A routing tag that has entries
\* for the name is not left for the entries without tag.
LookedUp(t, name, qtype, flags, client, tag, full, order) ==
  LET l == Lookup(ShardWith(name))
      ByType(x, type) == HitByIndex(x, t, name, type, flags, client, full)
      hits == IF qtype = "ADDR" THEN ByType(ByType(l, "A"), "AAAA")
              ELSE ByType(l, qtype)
  IN  IF ~UsesIndex(l.shard, qtype, tag)
      THEN Ended(ByRange(l, t, name, TagUsed(name, tag), qtype, flags, client, full, order),
                 t, qtype, flags.refresh)
      ELSE IF qtype = "ADDR" THEN hits
      ELSE Ended(hits, t, qtype, flags.refresh)

Get(name, l) ==
  /\ SetShard(ShardOf[name], l.shard)
  /\ tasks' = tasks \cup l.pushed

----------------------------------------------------------------------------
(* Storing *)

\* Where an answer goes: a tag counts only with a netmask, a netmask without a tag.
StoreKey(place) ==
  [place EXCEPT !.tag = IF place.mask = NoMask THEN NoTag ELSE @,
                !.mask = IF place.tag = NoTag THEN @ ELSE NoMask]

Locked(e, t, answer) ==
  /\ setup.lockedPerc > 0
  /\ e.ttd > t /\ answer.state # "Secure" /\ ~answer.refresh
  /\ e.ttd - t > (e.orig * (100 - setup.lockedPerc)) \div 100

AlwaysReplace(e, t, answer) ==
  \/ answer.auth /\ ~e.auth
  \/ ~Locked(e, t, answer)

\* shouldReplace
ShouldReplace(e, t, answer) ==
  /\ (e.auth /\ ~answer.auth) => e.ttd - Margin <= t
  /\ (answer.auth /\ answer.state = "Bogus" /\ e.ttd > t)
       => e.state \in {"Bogus", "Indeterminate"}
  /\ (answer.auth /\ ~e.auth) \/ ~Locked(e, t, answer)

\* An authoritative NS set does not make itself live longer, but for the root's.
MaxTTD(k, e, answer) ==
  IF e.auth /\ answer.auth /\ k.type = "NS" /\ k.name # Root
  THEN e.ttd ELSE MaxNow + answer.ttl

MinTTLed(ttl) == IF ttl < MinTTL THEN MinTTL ELSE ttl

Entry(ttd, t, answer) ==
  [ttd |-> ttd, orig |-> MinTTLed(ttd - t), auth |-> answer.auth,
   state |-> answer.state, servedStale |-> 0, submitted |-> FALSE,
   tooBig |-> answer.tooBig, died |-> Never]

IndexedOnce(shard, k, t) ==
  IF k.mask # NoMask /\ k \notin DOMAIN shard.map
  THEN [shard EXCEPT !.index = @ \cup {k}] ELSE shard

\* The netmask of a new or an expired entry is indexed (again).
Indexed(shard, k, t) ==
  IF k.mask # NoMask /\ (k \in DOMAIN shard.map => shard.map[k].ttd <= t)
  THEN [shard EXCEPT !.index = @ \cup {k}] ELSE shard

\* replace
Replaced(k, t, answer) ==
  LET shard == Indexed(Invalidated(ShardWith(k.name)), k, t)
  IN  IF k \notin DOMAIN shard.map
      THEN Put(shard, k, Entry(t + answer.ttl, t, answer))
      ELSE IF ~ShouldReplace(shard.map[k], t, answer) THEN shard
      ELSE Put(shard, k,
               Entry(Smaller(MaxTTD(k, shard.map[k], answer), t + answer.ttl),
                     t, answer))

Replace(place, t, answer) ==
  SetShard(ShardOf[place.name], Replaced(StoreKey(place), t, answer))

----------------------------------------------------------------------------
(* The other operations *)

\* doWipeCache, for a name or what is at and below one: `names'.  With a whole
\* subtree it takes this step for one shard after the other.
WipeRec(i, names, types) ==
  LET gone(k) == k.name \in names /\ k.type \in types
      shard   == Invalidated(rec[i])
  IN  SetShard(i, [Without(shard, {k \in DOMAIN shard.map : gone(k)})
                     EXCEPT !.index = {k \in @ : ~gone(k)}])

\* doAgeCache: of the first entry there is by name and type, which is the one
\* without tag and netmask if that exists.
AgeRec(t, name, type) ==
  LET shard == ShardWith(name)
      plain == [name |-> name, type |-> type, tag |-> NoTag, mask |-> NoMask]
  IN  \E k \in {x \in DOMAIN shard.map : x.name = name /\ x.type = type} :
        /\ plain \in DOMAIN shard.map => k = plain
        /\ shard.map[k].ttd - t > AgedTTL
        /\ SetShard(ShardOf[name],
                    [Invalidated(shard) EXCEPT !.map[k].ttd = t + AgedTTL])

WithState(shard, k, t, state) ==
  [shard EXCEPT !.map[k].state = state,
                !.map[k].ttd = IF state = "Bogus" THEN Smaller(@, t + MaxBogus) ELSE @]

\* updateValidationStatus, after an entry has been validated.
ValidateRec(t, name, type, client, tag, requireAuth, state) ==
  LET l       == Lookup(ShardWith(name))
      byIndex == ByIndex(l, t, name, type, requireAuth, client, FALSE)
      found   == WithEntries(l.shard, name, tag)
      matches == {k \in Group(found, name, tag) :
                    EntryMatches(k, found.map[k], type, requireAuth, client)}
  IN  IF UsesIndex(l.shard, type, tag)
      THEN /\ SetShard(ShardOf[name],
                       IF byIndex.key = NoKey THEN byIndex.shard
                       ELSE WithState(byIndex.shard, byIndex.key, t, state))
           /\ tasks' = tasks \cup byIndex.pushed
      ELSE /\ \/ matches = {} /\ SetShard(ShardOf[name], found)
              \/ \E k \in matches :
                   SetShard(ShardOf[name], WithState(found, k, t, state))
           /\ UNCHANGED tasks

\* doPrune begins.
PruneRec(t) ==
  /\ recPruner.pc = "idle"
  /\ recPruner' = PrunerAt(TotalSize(rec), t)
  /\ UNCHANGED rec

ScanRec ==
  LET shard == rec[recPruner.shard]
  IN  /\ recPruner.pc = "scan"
      /\ rec' = [rec EXCEPT ![recPruner.shard] =
                   Removed(Invalidated(shard), Scanned(recPruner, shard))]
      /\ recPruner' = AfterScan(recPruner, shard)

TrimmedWithRange(shard, n) == Removed(shard, Trimmed(shard, n))

TrimmedShard(shard, n) ==
  IF n = 0 THEN shard ELSE Removed(Invalidated(shard), Trimmed(shard, n))

TrimRec ==
  LET shard == rec[recPruner.shard]
  IN  /\ recPruner.pc = "trim"
      /\ \E n \in TrimCounts(recPruner, shard) :
           /\ rec' = [rec EXCEPT ![recPruner.shard] = TrimmedShard(shard, n)]
           /\ recPruner' = AfterTrim(recPruner, shard, n)
=============================================================================

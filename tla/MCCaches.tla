------------------------------ MODULE MCCaches ------------------------------
(***************************************************************************)
(* Caches for TLC.  A behaviour is about one of the following setups: the  *)
(* instance is their union.                                                *)
(***************************************************************************)
EXTENDS Caches

MCNames == {"p", "h", "q"}     \* h lies below p
MCTypes == {"A", "AAAA", "NS", "CNAME"}
MCShardOf == [name \in MCNames |-> CASE name = "p" -> 1 [] name = "h" -> 2
                                  [] name = "q" -> 3]
MCTop == [name \in MCNames |-> IF name = "q" THEN "q" ELSE "p"]
MCAbove == [name \in MCNames |-> IF name = "h" THEN <<"p">> ELSE <<>>]
\* Two clients: both masks cover c1, the wide one c2 too.
MCCovering == [c \in {"c1", "c2"} |-> IF c = "c1" THEN <<"m1", "m2">> ELSE <<"m2">>]

At(name, type, mask) == [name |-> name, type |-> type, tag |-> NoTag, mask |-> mask]
Answer(ttl, auth, state, refresh) ==
  [ttl |-> ttl, auth |-> auth, state |-> state, refresh |-> refresh, tooBig |-> FALSE]

Quiet == [about |-> "none", extensions |-> 0, lag |-> 0, refreshPerc |-> 0,
          lockedPerc |-> 0, maxCached |-> 0, hardenNXD |-> FALSE, until |-> 3,
          calls |-> {}, keys |-> {}, answers |-> {}, qtypes |-> {}, tags |-> {NoTag},
          clients |-> {"c1"}, auth |-> {FALSE}, ttls |-> {}, questions |-> {},
          subtrees |-> {}, resolvers |-> {}, roots |-> {FALSE}]

\* Netmasks, with and without serve-stale, and with clocks that differ.
Subnets ==
  {[Quiet EXCEPT !.about = "subnets", !.extensions = x.ext, !.lag = x.lag, !.until = 2,
     !.calls = {"get", "replace", "wipe"},
     !.keys = {At("h", "A", mask) : mask \in x.masks},
     !.answers = {Answer(1, TRUE, "Insecure", FALSE)},
     !.clients = Clients, !.qtypes = {"A"}, !.subtrees = {{"h"}}] :
   x \in {[ext |-> 0, lag |-> 0, masks |-> {NoMask, "m1", "m2"}],
          [ext |-> 1, lag |-> 0, masks |-> {"m1", "m2"}],
          [ext |-> 1, lag |-> 1, masks |-> {NoMask, "m1"}]}}

\* A name with several types, read together and one by one, almost expired, and one
\* of them with too many records.
Sorts ==
  {[Quiet EXCEPT !.about = "types", !.refreshPerc = 50, !.until = 2,
     !.calls = {"get", "replace"},
     !.keys = {At("h", "A", mask), At("h", "AAAA", mask), At("h", "NS", NoMask)},
     !.answers = {Answer(2, TRUE, "Insecure", FALSE),
                  [Answer(2, TRUE, "Insecure", FALSE) EXCEPT !.tooBig = TRUE]},
     !.qtypes = {"A", "ADDR", "ANY"}] : mask \in {NoMask, "m1"}}

\* Delegations: the parent's and the child's set under one key, locked or not.
Delegations ==
  {[Quiet EXCEPT !.about = "delegations", !.extensions = ext, !.lockedPerc = 50,
     !.lag = 1, !.until = 4, !.calls = {"get", "replace", "age", "wipe"},
     !.keys = {At("p", "NS", NoMask)},
     !.answers = {Answer(4, TRUE, "Insecure", FALSE), Answer(3, TRUE, "Bogus", FALSE),
                  Answer(3, TRUE, "Secure", TRUE), Answer(4, FALSE, "Indeterminate", FALSE)},
     !.auth = BOOLEAN, !.qtypes = {"NS"}, !.subtrees = {{"p", "h"}}] : ext \in {0, 1}}

\* Clients with a routing tag.
Tagged ==
  {[Quiet EXCEPT !.about = "tags", !.until = 1, !.calls = {"get", "replace", "validate"},
     !.keys = {[At("h", "A", mask) EXCEPT !.tag = tag] :
                 mask \in {NoMask, "m2"}, tag \in {NoTag, "t1"}},
     !.answers = {Answer(1, TRUE, "Insecure", FALSE)},
     !.tags = {NoTag, "t1"}, !.qtypes = {"A"}]}

\* An entry that is served stale for as long as it may be.
LongStale ==
  {[Quiet EXCEPT !.about = "stale", !.extensions = 3, !.lag = lag, !.until = 8,
     !.calls = {"get", "replace", "validate"}, !.keys = {At("h", "A", NoMask)},
     !.answers = {Answer(ttl, TRUE, "Insecure", FALSE) : ttl \in {1, 3}},
     !.qtypes = {"A"}] : lag \in {0, 1}}

\* A full cache is pruned while others go on.
Crowded ==
  {[Quiet EXCEPT !.about = "prune", !.maxCached = 2, !.until = 3,
     !.calls = {"replace", "prune"},
     !.keys = {At("p", "A", NoMask), At("h", "A", NoMask), At("q", "A", NoMask), At("h", "A", "m1")},
     !.answers = {Answer(1, TRUE, "Insecure", FALSE)}],
   [Quiet EXCEPT !.about = "prune", !.maxCached = 2, !.until = 2,
     !.calls = {"get", "replace", "prune"}, !.qtypes = {"A"},
     !.keys = {At("p", "A", NoMask), At("h", "A", NoMask), At("q", "A", NoMask)},
     !.answers = {Answer(1, TRUE, "Insecure", FALSE)}],
   [Quiet EXCEPT !.about = "prune", !.maxCached = 2, !.until = 3,
     !.calls = {"deny", "prune", "wipe"}, !.ttls = {1}, !.subtrees = {{"h"}},
     !.keys = {At("p", "A", NoMask), At("h", "A", NoMask), At("q", "A", NoMask)}]}

\* Resolutions that answer from the caches, fill them and refresh stale entries: two
\* of the same question,
Racing ==
  {[Quiet EXCEPT !.about = "race", !.extensions = 1, !.until = 3, !.resolvers = {"r1", "r2"},
     !.keys = {At("h", "A", NoMask)},
     !.answers = {Answer(1, TRUE, "Insecure", refresh) : refresh \in BOOLEAN},
     !.ttls = {1}, !.questions = {[name |-> "h", type |-> "A"]}]}

\* or one of a name and of what is below it, or of an alias.
Resolutions ==
  {[Quiet EXCEPT !.about = "resolutions", !.extensions = x.ext, !.hardenNXD = TRUE,
     !.until = x.until, !.resolvers = {"r1"}, !.roots = x.roots, !.calls = x.calls,
     !.keys = {At(q.name, q.type, NoMask) : q \in x.questions},
     !.answers = {Answer(1, TRUE, "Insecure", refresh) : refresh \in BOOLEAN},
     !.ttls = {1}, !.questions = x.questions] :
   x \in {[ext |-> 1, until |-> 3, roots |-> BOOLEAN, calls |-> {},
           questions |-> {[name |-> "h", type |-> "CNAME"]}],
          [ext |-> 0, until |-> 2, roots |-> {FALSE}, calls |-> {"validate"},
           questions |-> {[name |-> name, type |-> "A"] : name \in {"p", "h"}}],
          [ext |-> 1, until |-> 2, roots |-> {FALSE}, calls |-> {},
           questions |-> {[name |-> name, type |-> "A"] : name \in {"p", "h"}}]}}

AllSetups ==
  Subnets \cup Sorts \cup Delegations \cup Tagged \cup LongStale \cup Crowded \cup Racing
    \cup Resolutions
=============================================================================

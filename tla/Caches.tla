------------------------------- MODULE Caches -------------------------------
(***************************************************************************)
(* The two caches and the resolutions that use them (src/syncres.cc):      *)
(* doCacheCheck looks into the negative cache first, under one lock for    *)
(* each lookup; what a server answers is stored in one cache and what      *)
(* contradicts it is wiped from the other, again a lock at a time.         *)
(*                                                                         *)
(* Resolvers are mthreads of any thread.  Besides them other parts of the  *)
(* program call the caches directly (looking for delegations and           *)
(* addresses of servers, validating, pruning, wiping by hand).             *)
(***************************************************************************)
EXTENDS RecCache, NegCache

CONSTANTS
  Resolvers,
  Top,   \* name -> the name of its last label
  Above  \* name -> its ancestors below the root, the highest first

ASSUME CachesAssumption ==
  /\ Top \in [Names -> Names]
  /\ Above \in [Names -> Seq(Names)]

\* A setup speaks of names, types, keys and clients there are.
ASSUME SetupsAssumption ==
  \A s \in Setups :
    /\ s.extensions \in Nat /\ s.lag \in Nat /\ s.until \in 0 .. MaxNow
    /\ s.maxCached \in Nat
    /\ s.keys \subseteq Keys /\ s.questions \subseteq [name : Names, type : Types]
    /\ s.answers \subseteq [ttl : Nat, auth : BOOLEAN, state : States,
                            refresh : BOOLEAN, tooBig : BOOLEAN]
    /\ s.ttls \subseteq Nat /\ s.roots \subseteq BOOLEAN
    /\ s.qtypes \subseteq Types \cup {"ANY", "ADDR"} /\ s.tags \subseteq Tags \cup {NoTag}
    /\ s.clients \subseteq Clients /\ s.resolvers \subseteq Resolvers

VARIABLES
  at,       \* per resolver: where it is and what it resolves
  recovered \* history: names and types last answered with records

vars == <<now, setup, tasks, recVars, negVars, at, recovered>>

NoDenial == NegEntry(0, 0, FALSE)

Idle == [pc |-> "idle", name |-> Root, type |-> "A", mode |-> "plain", above |-> <<>>,
         client |-> CHOOSE c \in Clients : TRUE, denial |-> NoDenial]

Init ==
  /\ now = 0
  /\ setup \in Setups
  /\ tasks = {}
  /\ RecInit /\ NegInit
  /\ at = [r \in Resolvers |-> Idle]
  /\ recovered = {}

Refreshing(r) == at[r].mode = "refresh"
Stale(r) == at[r].mode = "stale"

GoTo(r, pc) == at' = [at EXCEPT ![r].pc = pc]
End(r) == at' = [at EXCEPT ![r] = Idle]

----------------------------------------------------------------------------
(* A resolution: doResolveNoQNameMinimization, doCacheCheck *)

Begin(r, name, type, client) ==
  /\ at[r].pc = "idle"
  /\ at' = [at EXCEPT ![r] = [Idle EXCEPT !.pc = "top", !.name = name, !.type = type,
                                          !.client = client]]
  /\ UNCHANGED <<now, setup, tasks, recVars, negVars, recovered>>

\* A task resolves in refresh mode.
BeginTask(r, task, client) ==
  /\ at[r].pc = "idle"
  /\ tasks' = tasks \ {task}
  /\ at' = [at EXCEPT ![r] = [Idle EXCEPT !.pc = "top", !.name = task.name,
                                          !.type = task.type, !.client = client,
                                          !.mode = "refresh"]]
  /\ UNCHANGED <<now, setup, recVars, negVars, recovered>>

\* getRootNXTrust: does the root deny the last label?
CheckTop(r, t) ==
  /\ at[r].pc = "top"
  /\ \E order \in SetToSeqs(NegGroup(Top[at[r].name])) :
       LET l == NegLookedUp(t, Top[at[r].name], "ENT", TRUE, Stale(r), Refreshing(r),
                            order)
       IN  /\ NegGet(Top[at[r].name], l)
           /\ IF l.denies /\ l.shard.map[l.key].root
              THEN End(r) ELSE GoTo(r, "name")
  /\ UNCHANGED <<now, setup, recVars, recovered>>

CheckName(r, t) ==
  /\ at[r].pc = "name"
  /\ \E order \in SetToSeqs(NegGroup(at[r].name)) :
       LET l == NegLookedUp(t, at[r].name, at[r].type, FALSE, Stale(r), Refreshing(r),
                            order)
       IN  /\ NegGet(at[r].name, l)
           /\ IF l.denies THEN End(r)
              ELSE at' = [at EXCEPT ![r].pc = "above",
                                    ![r].above = IF setup.hardenNXD
                                                 THEN Above[at[r].name] ELSE <<>>]
  /\ UNCHANGED <<now, setup, recVars, recovered>>

\* s_hardenNXD: nothing exists below a name that does not.
CheckAbove(r, t) ==
  /\ at[r].pc = "above" /\ at[r].above # <<>>
  /\ \E order \in SetToSeqs(NegGroup(Head(at[r].above))) :
       LET name == Head(at[r].above)
           l == NegLookedUp(t, name, "ENT", TRUE, Stale(r), Refreshing(r), order)
       IN  /\ NegGet(name, l)
           /\ IF l.denies /\ ~l.shard.map[l.key].bogus
              THEN End(r) ELSE at' = [at EXCEPT ![r].above = Tail(@)]
  /\ UNCHANGED <<now, setup, recVars, recovered>>

\* The record cache comes last.  A miss goes out, but not the second time around.
CheckRec(r, t, requireAuth) ==
  /\ at[r].pc = "above" /\ at[r].above = <<>>
  /\ LET name  == at[r].name
         flags == [requireAuth |-> requireAuth, refresh |-> Refreshing(r),
                   serveStale |-> Stale(r)]
     IN  \E order \in SetToSeqs(Group(ShardWith(name), name, NoTag)) :
           LET l == LookedUp(t, name, at[r].type, flags, at[r].client, NoTag, FALSE,
                             order)
           IN  /\ Get(name, l)
               /\ IF (l.found /\ l.ttd > t) \/ l.failed \/ Stale(r)
                  THEN End(r) ELSE GoTo(r, "asking")
  /\ UNCHANGED <<now, setup, negVars, recovered>>

\* No server answered: "Restart, with serve-stale enabled".
NoAnswer(r) ==
  /\ at[r].pc = "asking"
  /\ IF setup.extensions > 0 /\ ~Refreshing(r)
     THEN at' = [at EXCEPT ![r].pc = "top", ![r].mode = "stale"]
     ELSE End(r)
  /\ UNCHANGED <<now, setup, tasks, recVars, negVars, recovered>>

Asked(r) == [name |-> at[r].name, type |-> at[r].type]

NegTypes(k) ==
  {[name |-> k.name, type |-> type] : type \in IF k.type = "ENT" THEN Types ELSE {k.type}}

\* updateCacheFromRecords: into the record cache first.
AnswerRecords(r, t, place, answer) ==
  /\ at[r].pc = "asking"
  /\ place.name = at[r].name /\ place.type = at[r].type
  /\ answer.refresh = Refreshing(r)
  /\ Replace(place, t, answer)
  /\ recovered' = recovered \cup {Asked(r)}
  /\ IF setup.extensions > 0 THEN GoTo(r, "wipeNeg") ELSE End(r)
  /\ UNCHANGED <<now, setup, tasks, negVars>>

\* "Delete potential negcache entry."
WipeDenial(r) ==
  /\ at[r].pc = "wipeNeg"
  /\ WipeTyped(at[r].name, at[r].type)
  /\ End(r)
  /\ UNCHANGED <<now, setup, tasks, recVars, recovered>>

ZapsCNAME(r) == at[r].type = "CNAME" /\ setup.extensions > 0

Deny(k, e) ==
  /\ NegAdd(k, e)
  /\ recovered' = recovered \ NegTypes(k)

\* The server says that the name does not exist; the root says so of a last label too.
AnswerNXDomain(r, t, ttl, root) ==
  /\ at[r].pc = "asking"
  /\ Deny([name |-> at[r].name, type |-> "ENT"], NegEntry(t, ttl, root))
  /\ IF ~root /\ ~ZapsCNAME(r) THEN End(r)
     ELSE at' = [at EXCEPT ![r].pc = IF ~ZapsCNAME(r) THEN "denyTop"
                                     ELSE IF root THEN "zapThenTop" ELSE "zapRec",
                           ![r].denial = NegEntry(t, ttl, root)]
  /\ UNCHANGED <<now, setup, tasks, recVars>>

\* doCNAMECacheCheck does not look into the negative cache.
ZapCNAME(r) ==
  /\ at[r].pc \in {"zapRec", "zapThenTop", "zapThenDeny"}
  /\ WipeRec(ShardOf[at[r].name], {at[r].name}, {"CNAME"})
  /\ CASE at[r].pc = "zapRec" -> End(r)
       [] at[r].pc = "zapThenTop" -> GoTo(r, "denyTop")
       [] at[r].pc = "zapThenDeny" -> GoTo(r, "denyType")
  /\ UNCHANGED <<now, setup, tasks, negVars, recovered>>

DenyTop(r) ==
  /\ at[r].pc = "denyTop"
  /\ Deny([name |-> Top[at[r].name], type |-> "ENT"], at[r].denial)
  /\ End(r)
  /\ UNCHANGED <<now, setup, tasks, recVars>>

\* The server says that there is nothing of that type.
AnswerNoData(r, t, ttl) ==
  /\ \/ at[r].pc = "denyType"
     \/ at[r].pc = "asking" /\ ~ZapsCNAME(r)
  /\ Deny(Asked(r), NegEntry(t, ttl, FALSE))
  /\ End(r)
  /\ UNCHANGED <<now, setup, tasks, recVars>>

AnswerNoCNAME(r) ==
  /\ at[r].pc = "asking" /\ ZapsCNAME(r)
  /\ GoTo(r, "zapThenDeny")
  /\ UNCHANGED <<now, setup, tasks, recVars, negVars, recovered>>

Resolve(r) ==
  \/ \E q \in setup.questions, client \in setup.clients :
       Begin(r, q.name, q.type, client)
  \/ \E task \in tasks, client \in setup.clients : BeginTask(r, task, client)
  \/ \E t \in Clocks :
       \/ CheckTop(r, t) \/ CheckName(r, t) \/ CheckAbove(r, t)
       \/ \E requireAuth \in setup.auth : CheckRec(r, t, requireAuth)
       \/ \E place \in setup.keys, answer \in setup.answers :
            AnswerRecords(r, t, place, answer)
       \/ \E ttl \in setup.ttls :
            \/ \E root \in setup.roots : AnswerNXDomain(r, t, ttl, root)
            \/ AnswerNoData(r, t, ttl)
  \/ NoAnswer(r) \/ DenyTop(r) \/ WipeDenial(r) \/ ZapCNAME(r) \/ AnswerNoCNAME(r)

----------------------------------------------------------------------------
(* The other callers *)

Calls(what) == what \in setup.calls
KeyNames == {place.name : place \in setup.keys}

\* getBestNSFromCache, getAddrs and others.
LookUp ==
  /\ Calls("get")
  /\ \E t \in Clocks, name \in KeyNames, qtype \in setup.qtypes, client \in setup.clients,
        tag \in setup.tags, requireAuth \in setup.auth, serveStale, full \in BOOLEAN :
       LET flags == [requireAuth |-> requireAuth, refresh |-> FALSE,
                     serveStale |-> serveStale]
       IN  /\ serveStale => setup.extensions > 0
           /\ full => qtype = "ANY"
           /\ \E order \in SetToSeqs(Group(ShardWith(name), name, TagUsed(name, tag))) :
                Get(name, LookedUp(t, name, qtype, flags, client, tag, full, order))
  /\ UNCHANGED <<now, setup, negVars, at, recovered>>

Store ==
  /\ Calls("replace")
  /\ \E t \in Clocks, place \in setup.keys, answer \in setup.answers :
       Replace(place, t, answer)
  /\ UNCHANGED <<now, setup, tasks, negVars, at, recovered>>

\* The DS of a delegation, say, does not exist: processRecords.
StoreDenial ==
  /\ Calls("deny")
  /\ \E t \in Clocks, place \in setup.keys, ttl \in setup.ttls :
       Deny([name |-> place.name, type |-> place.type], NegEntry(t, ttl, FALSE))
  /\ UNCHANGED <<now, setup, tasks, recVars, at>>

\* By hand (rec_control) and by getBestNSFromCache.
Wipe ==
  /\ Calls("wipe")
  /\ \E i \in Shards, names \in setup.subtrees, type \in Types \cup {"all"} :
       \/ /\ WipeRec(i, names, IF type = "all" THEN Types ELSE {type})
          /\ UNCHANGED negVars
       \/ /\ type = "all"
          /\ WipeNeg(i, names)
          /\ UNCHANGED recVars
  /\ UNCHANGED <<now, setup, tasks, at, recovered>>

ClearDenials ==
  /\ Calls("wipe")
  /\ \E i \in Shards : ClearNeg(i)
  /\ UNCHANGED <<now, setup, tasks, recVars, at, recovered>>

\* doResolveAt, of a delegation none of whose servers works.
Age ==
  /\ Calls("age")
  /\ \E t \in Clocks, name \in Names : AgeRec(t, name, "NS")
  /\ UNCHANGED <<now, setup, tasks, negVars, at, recovered>>

Validate ==
  /\ Calls("validate")
  /\ \E t \in Clocks, state \in {"Secure", "Bogus"} :
       \/ /\ \E name \in KeyNames, type \in setup.qtypes \cap Types, client \in setup.clients,
                tag \in setup.tags, requireAuth \in setup.auth :
               ValidateRec(t, name, type, client, tag, requireAuth, state)
          /\ UNCHANGED negVars
       \/ /\ \E k \in NegKeys : NegValidate(k, t, state = "Bogus")
          /\ UNCHANGED <<tasks, recVars>>
  /\ UNCHANGED <<now, setup, at, recovered>>

\* Housekeeping
PruneStep ==
  /\ Calls("prune")
  /\ \/ /\ PruneRec(now) \/ ScanRec \/ TrimRec
        /\ UNCHANGED negVars
     \/ /\ PruneNeg(now) \/ ScanNeg \/ TrimNeg
        /\ UNCHANGED recVars
  /\ UNCHANGED <<now, setup, tasks, at, recovered>>

Tick ==
  /\ now < setup.until
  /\ now' = now + 1
  /\ UNCHANGED <<setup, tasks, recVars, negVars, at, recovered>>

Next ==
  \/ \E r \in setup.resolvers : Resolve(r)
  \/ LookUp \/ Store \/ StoreDenial \/ Wipe \/ ClearDenials \/ Age \/ Validate \/ PruneStep \/ Tick

Spec == Init /\ [][Next]_vars

----------------------------------------------------------------------------
(* Properties *)

EntryType == [ttd : Int, orig : Nat, auth : BOOLEAN, state : States, servedStale : Nat,
              submitted : BOOLEAN, tooBig : BOOLEAN, died : Int]
DenialType == [ttd : Int, orig : Nat, servedStale : Nat, root : BOOLEAN,
               bogus : BOOLEAN, died : Int]

QTypes == Types \cup {"ANY", "ADDR"}

\* The variables have their types: every shard holds what is hashed to it, and its list
\* has its keys, once.
TypeOK ==
  /\ now \in 0 .. MaxNow
  /\ tasks \subseteq [name : Names, type : QTypes]
  /\ \A i \in Shards :
       /\ ListMatches(rec[i]) /\ ListMatches(neg[i])
       /\ \A k \in DOMAIN rec[i].map :
            /\ k \in Keys /\ ShardOf[k.name] = i
            /\ rec[i].map[k] \in EntryType
       /\ \A k \in DOMAIN neg[i].map :
            /\ k \in NegKeys /\ ShardOf[k.name] = i
            /\ neg[i].map[k] \in DenialType
  /\ recovered \subseteq [name : Names, type : QTypes]

\* d_cachecache, while it is valid, is the range of the entries there are now: a lookup
\* never walks over an entry that was erased and never misses one that was inserted.
CachedRange ==
  \A i \in Shards :
    rec[i].range.valid =>
      rec[i].range.keys = Group(rec[i], rec[i].range.name, rec[i].range.tag)

\* An indexed netmask has its entry.  And without serve-stale, and between threads
\* whose clocks agree, "it should already be indexed" (src/recursor_cache.cc:656)
\* holds: no entry that is alive is hidden from the lookups that use the index.
IndexComplete ==
  \A i \in Shards :
    /\ rec[i].index \subseteq DOMAIN rec[i].map
    /\ (setup.extensions = 0 /\ setup.lag = 0) =>
         \A k \in DOMAIN rec[i].map :
           (k.mask # NoMask /\ rec[i].map[k].ttd > now) => k \in rec[i].index

Everything == UNION {{rec[i].map[k] : k \in DOMAIN rec[i].map}
                       \cup {neg[i].map[k] : k \in DOMAIN neg[i].map} : i \in Shards}

\* As long as an entry of either cache may still be extended, it has not outlived its
\* time by more than two periods for each extension it is charged with, however rarely
\* it is looked up: what is looked up late is charged with more.
StaleBounded ==
  \A e \in Everything :
    (e.died # Never /\ e.servedStale < setup.extensions)
      => e.ttd <= e.died + e.servedStale * (2 * Period - 1)

\* What is not authoritative never takes the place of an authoritative entry that is
\* good for more than the margin, and an authoritative NS set outlives its time only
\* when its servers do not answer: "refuse any attempt to *raise* the TTL of auth NS
\* records" (src/recursor_cache.cc:681).
AuthProtected ==
  [][\A i \in Shards : \A k \in DOMAIN rec[i].map \cap DOMAIN rec'[i].map :
       LET e == rec[i].map[k]
           f == rec'[i].map[k]
       IN  /\ (e.auth /\ e.ttd - Margin > now) => f.auth
           /\ (e.auth /\ f.auth /\ k.type = "NS" /\ k.name # Root)
                => (f.ttd <= e.ttd \/ f.servedStale > e.servedStale)]_vars

\* A prune of a full cache erases no more entries that are not stale than there are too
\* many, and when nobody else uses the cache meanwhile it leaves exactly as many as
\* there may be: "rounding issues do not cause over or undershoot of the target"
\* (src/cachecleaner.hh:195).
HitsTarget(p, q, cache, after) ==
  p.pc = "trim" =>
    LET removed == TotalSize(cache) - TotalSize(after)
    IN  /\ (q.pc # p.pc \/ q.shard # p.shard) => p.trimmed + removed <= p.excess - p.erased
        /\ (q.pc = "idle" /\ p.alone) => TotalSize(after) = setup.maxCached

PruneHitsTarget ==
  [][/\ recPruner' # recPruner => HitsTarget(recPruner, recPruner', rec, rec')
     /\ negPruner' # negPruner => HitsTarget(negPruner, negPruner', neg, neg')]_vars

\* With serve-stale, a name and type that was last answered with records is denied by
\* no entry of its own in the negative cache, which is looked at first, but for the
\* moment until its resolver has wiped it.
RecoveredServed ==
  setup.extensions > 0 =>
    \A q \in recovered :
      \/ \E r \in Resolvers : at[r].pc = "wipeNeg" /\ Asked(r) = q
      \/ \A type \in {q.type, "ENT"} :
           [name |-> q.name, type |-> type] \notin DOMAIN NegShard(q.name).map
=============================================================================

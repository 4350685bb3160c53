---------------------------- MODULE CachesProofs ----------------------------
(***************************************************************************)
(* Proofs about the caches.  What a lookup does is a recursive function    *)
(* along the masks of a client or the entries of a name, so these proofs   *)
(* start with induction over the natural numbers, in the form that needs   *)
(* no operator as a parameter: every set of numbers has a least element.   *)
(***************************************************************************)
EXTENDS Caches, WellFoundedInduction, FiniteSetTheorems, TLAPS

-----------------------------------------------------------------------------
(* Induction *)

LEMMA LeastNumber ==
  ASSUME NEW T, T \subseteq Nat, T # {}
  PROVE  \E n \in T : \A m \in T : n <= m
<1> DEFINE less == {p \in Nat \X Nat : p[1] < p[2]}
<1>1. IsWellFoundedOn(less, Nat)
  BY NatLessThanWellFounded DEF OpToRel
<1>2. PICK n \in T : \A m \in T : <<m, n>> \notin less
  BY <1>1, WFMin
<1>3. \A m \in T : ~(m < n)
  BY <1>2
<1> QED
  BY <1>2, <1>3

LEMMA Induction ==
  ASSUME NEW T, NEW m \in Nat, 0 \in T, \A n \in 1 .. m : n - 1 \in T => n \in T
  PROVE  \A n \in 0 .. m : n \in T
<1> DEFINE bad == {n \in 0 .. m : n \notin T}
<1>1. ASSUME bad # {} PROVE FALSE
  <2>1. PICK n \in bad : \A k \in bad : n <= k
    <3>1. bad \subseteq Nat
      OBVIOUS
    <3> HIDE DEF bad
    <3> QED
      BY <1>1, <3>1, LeastNumber
  <2>2. n \in 1 .. m /\ n - 1 \in 0 .. m /\ n - 1 \notin bad
    BY <2>1
  <2> QED
    BY <2>1, <2>2
<1> QED
  BY <1>1

-----------------------------------------------------------------------------
(* LRU lists *)

\* The list holds what is in D, once.
Lists(lru, D) ==
  /\ lru \in Seq(D)
  /\ \A k \in D : \E i \in 1 .. Len(lru) : lru[i] = k
  /\ \A i, j \in 1 .. Len(lru) : lru[i] = lru[j] => i = j

LEMMA ListCounts ==
  ASSUME NEW lru, NEW D, Lists(lru, D)
  PROVE  IsFiniteSet(D) /\ Cardinality(D) = Len(lru) /\ ToSet(lru) = D
<1>1. Len(lru) \in Nat /\ lru \in [1 .. Len(lru) -> D]
  BY DEF Lists
<1>2. lru \in Bijection(1 .. Len(lru), D)
  BY <1>1 DEF Lists, Bijection, Injection, Surjection, IsInjective
<1>3. ExistsBijection(1 .. Len(lru), D)
  BY <1>2 DEF ExistsBijection
<1>4. ToSet(lru) = D
  BY <1>1 DEF Lists, ToSet
<1> QED
  BY <1>1, <1>3, <1>4, FS_NatBijection, FS_CountingElements

\* The function in Unlisted, up to m.
Keeps(kept, lru, ks, m) ==
  kept = [n \in 0 .. m |->
            IF n = 0 THEN <<>>
            ELSE IF lru[n] \in ks THEN kept[n - 1] ELSE Append(kept[n - 1], lru[n])]

LEMMA KeepsExists ==
  ASSUME NEW lru, NEW ks, NEW m \in Nat
  PROVE  \E kept : Keeps(kept, lru, ks, m)
<1> DEFINE T == {n \in 0 .. m : \E kept : Keeps(kept, lru, ks, n)}
<1>1. 0 \in T
  <2>1. Keeps([n \in 0 .. 0 |-> <<>>], lru, ks, 0)
    BY DEF Keeps
  <2> QED
    BY <2>1
<1>2. ASSUME NEW n \in 1 .. m, n - 1 \in T PROVE n \in T
  <2>1. PICK f : Keeps(f, lru, ks, n - 1)
    BY <1>2
  <2> DEFINE g == [i \in 0 .. n |->
                     IF i < n THEN f[i]
                     ELSE IF lru[n] \in ks THEN f[n - 1] ELSE Append(f[n - 1], lru[n])]
  <2>2. ASSUME NEW i \in 0 .. n
        PROVE  g[i] = IF i = 0 THEN <<>>
                      ELSE IF lru[i] \in ks THEN g[i - 1] ELSE Append(g[i - 1], lru[i])
    <3>1. CASE i = n
      BY <3>1
    <3>2. CASE i < n
      <4>1. i \in 0 .. n - 1 /\ g[i] = f[i] /\ (i # 0 => g[i - 1] = f[i - 1])
        BY <3>2
      <4>2. f[i] = IF i = 0 THEN <<>>
                   ELSE IF lru[i] \in ks THEN f[i - 1] ELSE Append(f[i - 1], lru[i])
        BY <2>1, <4>1 DEF Keeps
      <4> QED
        BY <4>1, <4>2
    <3> QED
      BY <3>1, <3>2
  <2>3. Keeps(g, lru, ks, n)
    BY <2>2 DEF Keeps
  <2> HIDE DEF g
  <2> QED
    BY <2>3
<1> QED
  <2> HIDE DEF T
  <2>1. \A n \in 0 .. m : n \in T
    BY <1>1, <1>2, Induction
  <2> QED
    BY <2>1 DEF T

LEMMA UnlistedIs ==
  ASSUME NEW lru, NEW ks, Len(lru) \in Nat
  PROVE  \E kept : Keeps(kept, lru, ks, Len(lru)) /\ Unlisted(lru, ks) = kept[Len(lru)]
<1> DEFINE kept == CHOOSE f : Keeps(f, lru, ks, Len(lru))
<1>1. Keeps(kept, lru, ks, Len(lru))
  BY KeepsExists
<1>2. Unlisted(lru, ks) = kept[Len(lru)]
  BY Zenon DEF Unlisted, Keeps
<1> HIDE DEF kept
<1> QED
  BY <1>1, <1>2

LEMMA AppendLists ==
  ASSUME NEW lru, NEW D, Lists(lru, D), NEW k, k \notin D
  PROVE  Lists(Append(lru, k), D \cup {k})
<1>1. lru \in Seq(D) /\ Len(lru) \in Nat
  BY DEF Lists
<1> DEFINE all == Append(lru, k)
<1>2. /\ all \in Seq(D \cup {k}) /\ Len(all) = Len(lru) + 1 /\ all[Len(all)] = k
      /\ \A i \in 1 .. Len(lru) : i \in 1 .. Len(all) /\ all[i] = lru[i] /\ lru[i] \in D
      /\ \A i \in 1 .. Len(all) : i \in 1 .. Len(lru) \/ i = Len(all)
      /\ Len(all) \in 1 .. Len(all)
  BY <1>1
<1> HIDE DEF all
<1>3. \A x \in D \cup {k} : \E i \in 1 .. Len(all) : all[i] = x
  <2>1. ASSUME NEW x \in D PROVE \E i \in 1 .. Len(all) : all[i] = x
    <3>1. PICK i \in 1 .. Len(lru) : lru[i] = x
      BY DEF Lists
    <3> QED
      BY <1>2, <3>1
  <2> QED
    BY <1>2, <2>1
<1>4. ASSUME NEW i \in 1 .. Len(all), NEW j \in 1 .. Len(all), all[i] = all[j]
      PROVE  i = j
  <2>1. ASSUME i \in 1 .. Len(lru), j \in 1 .. Len(lru) PROVE i = j
    <3>1. lru[i] = lru[j]
      BY <1>2, <1>4, <2>1
    <3> QED
      BY <2>1, <3>1 DEF Lists
  <2> QED
    BY <1>2, <1>4, <2>1
<1> QED
  BY <1>2, <1>3, <1>4 DEF Lists, all

\* What is unlisted is gone, the rest is there as before.
LEMMA UnlistedLists ==
  ASSUME NEW lru, NEW D, Lists(lru, D), NEW ks
  PROVE  Lists(Unlisted(lru, ks), D \ ks)
<1>1. Len(lru) \in Nat /\ lru \in [1 .. Len(lru) -> D]
  BY DEF Lists
<1>2. PICK kept : Keeps(kept, lru, ks, Len(lru)) /\ Unlisted(lru, ks) = kept[Len(lru)]
  BY <1>1, UnlistedIs
<1>3. \A n \in 0 .. Len(lru) :
        kept[n] = IF n = 0 THEN <<>>
                  ELSE IF lru[n] \in ks THEN kept[n - 1] ELSE Append(kept[n - 1], lru[n])
  BY <1>2, Zenon DEF Keeps
<1> DEFINE upto(n) == {lru[i] : i \in 1 .. n} \ ks
           T == {n \in 0 .. Len(lru) : Lists(kept[n], upto(n))}
<1>4. 0 \in T
  <2>1. kept[0] = <<>> /\ upto(0) = {}
    <3>1. 0 \in 0 .. Len(lru) /\ 1 .. 0 = {}
      BY <1>1
    <3>2. kept[0] = <<>>
      BY <1>3, <3>1, Zenon
    <3> QED
      BY <3>1, <3>2
  <2>2. Lists(<<>>, {})
    BY DEF Lists
  <2>3. Lists(kept[0], upto(0))
    <3> HIDE DEF upto
    <3> QED
      BY <2>1, <2>2, Zenon
  <2>4. 0 \in 0 .. Len(lru)
    BY <1>1
  <2> HIDE DEF upto
  <2> QED
    BY <2>3, <2>4
<1>5. ASSUME NEW n \in 1 .. Len(lru), n - 1 \in T PROVE n \in T
  <2>1. Lists(kept[n - 1], upto(n - 1))
    BY <1>5
  <2>2. \A i \in 1 .. n : i \in 1 .. n - 1 \/ i = n
    OBVIOUS
  <2>3. kept[n] = IF lru[n] \in ks THEN kept[n - 1] ELSE Append(kept[n - 1], lru[n])
    BY <1>1, <1>3
  <2>4. CASE lru[n] \in ks
    <3>1. upto(n) = upto(n - 1)
      BY <2>2, <2>4
    <3>2. kept[n] = kept[n - 1]
      BY <2>3, <2>4
    <3>3. Lists(kept[n], upto(n))
      BY <2>1, <3>1, <3>2
    <3> QED
      BY <1>1, <3>3
  <2>5. CASE lru[n] \notin ks
    <3>1. upto(n) = upto(n - 1) \cup {lru[n]}
      BY <2>2, <2>5
    <3>2. lru[n] \notin upto(n - 1)
      <4>1. \A i \in 1 .. n - 1 : i \in 1 .. Len(lru) /\ i # n
        BY <1>1
      <4> QED
        BY <4>1 DEF Lists
    <3>3. kept[n] = Append(kept[n - 1], lru[n])
      BY <2>3, <2>5
    <3>4. Lists(kept[n], upto(n))
      <4> HIDE DEF upto
      <4> QED
        BY <2>1, <3>1, <3>2, <3>3, AppendLists
    <3> QED
      BY <1>1, <3>4
  <2> QED
    BY <2>4, <2>5
<1>6. Lists(kept[Len(lru)], upto(Len(lru)))
  <2>1. Len(lru) \in T
    <3> HIDE DEF T
    <3>1. \A n \in 0 .. Len(lru) : n \in T
      BY <1>1, <1>4, <1>5, Induction
    <3> QED
      BY <1>1, <3>1
  <2> QED
    BY <2>1
<1>7. upto(Len(lru)) = D \ ks
  BY <1>1 DEF Lists
<1> QED
  BY <1>2, <1>6, <1>7

LEMMA FirstLists ==
  ASSUME NEW lru, NEW D, Lists(lru, D), NEW k
  PROVE  Lists(<<k>> \o Unlisted(lru, {k}), D \cup {k})
<1> DEFINE rest == Unlisted(lru, {k})
<1>1. Lists(rest, D \ {k})
  BY UnlistedLists
<1> HIDE DEF rest
<1>2. rest \in Seq(D \ {k}) /\ Len(rest) \in Nat
  BY <1>1 DEF Lists
<1> DEFINE all == <<k>> \o rest
<1>3. /\ all \in Seq(D \cup {k}) /\ Len(all) = Len(rest) + 1 /\ all[1] = k
      /\ \A i \in 1 .. Len(rest) : all[i + 1] = rest[i]
      /\ \A i \in 2 .. Len(all) : i - 1 \in 1 .. Len(rest) /\ all[i] = rest[i - 1]
  BY <1>2
<1> HIDE DEF all
<1>4. \A x \in D \cup {k} : \E i \in 1 .. Len(all) : all[i] = x
  <2>1. ASSUME NEW x \in D \ {k} PROVE \E i \in 1 .. Len(all) : all[i] = x
    <3>1. PICK i \in 1 .. Len(rest) : rest[i] = x
      BY <1>1 DEF Lists
    <3>2. i + 1 \in 1 .. Len(all)
      BY <1>2, <1>3
    <3> QED
      BY <1>3, <3>1, <3>2
  <2>2. 1 \in 1 .. Len(all)
    BY <1>2, <1>3
  <2> QED
    BY <1>3, <2>1, <2>2
<1>5. ASSUME NEW i \in 1 .. Len(all), NEW j \in 1 .. Len(all), all[i] = all[j]
      PROVE  i = j
  <2>1. \A n \in 1 .. Len(rest) : rest[n] # k
    BY <1>2
  <2>2. ASSUME i = 1 \/ j = 1 PROVE i = j
    BY <1>2, <1>3, <1>5, <2>1, <2>2
  <2>3. ASSUME i # 1, j # 1 PROVE i = j
    <3>1. i - 1 \in 1 .. Len(rest) /\ j - 1 \in 1 .. Len(rest) /\ rest[i - 1] = rest[j - 1]
      BY <1>2, <1>3, <1>5, <2>3
    <3>2. i - 1 = j - 1
      BY <1>1, <3>1 DEF Lists
    <3> QED
      BY <3>2
  <2> QED
    BY <2>2, <2>3
<1> QED
  BY <1>3, <1>4, <1>5 DEF Lists, all, rest

LEMMA LastLists ==
  ASSUME NEW lru, NEW D, Lists(lru, D), NEW k
  PROVE  Lists(Append(Unlisted(lru, {k}), k), D \cup {k})
<1> DEFINE rest == Unlisted(lru, {k})
<1>1. Lists(rest, D \ {k})
  BY UnlistedLists
<1> HIDE DEF rest
<1>2. Lists(Append(rest, k), (D \ {k}) \cup {k})
  BY <1>1, AppendLists
<1>3. (D \ {k}) \cup {k} = D \cup {k}
  OBVIOUS
<1> QED
  BY <1>2, <1>3 DEF rest

-----------------------------------------------------------------------------
(* Serve-stale *)

Bounded(e) ==
  (e.died # Never /\ e.servedStale < setup.extensions)
    => e.ttd <= e.died + e.servedStale * (2 * Period - 1)

\* What serve-stale needs to know of an entry.
Timed(e) ==
  e.ttd \in Int /\ e.orig \in Nat /\ e.servedStale \in Nat /\ e.died \in Int

LEMMA Division ==
  ASSUME NEW a \in Nat, NEW b \in Nat \ {0}
  PROVE  a \div b \in Nat /\ a < b * (a \div b) + b
  OBVIOUS

\* An extension does not go further than it is charged for.
LEMMA ExtensionBounded ==
  ASSUME NEW e, Timed(e), Bounded(e), setup.extensions \in Nat, NEW t \in Int, NEW ttd \in Int,
         e.ttd <= t, e.servedStale < setup.extensions,
         ttd <= t + Larger(1, Smaller(e.orig, Period)),
         NEW f, f.ttd = ttd, f.servedStale = ServedStale(e, t),
         f.died = IF e.died = Never THEN e.ttd ELSE e.died
  PROVE  /\ f.servedStale \in Nat /\ f.servedStale > e.servedStale
         /\ f.died \in Int /\ Bounded(f)
<1> DEFINE p == Larger(1, Smaller(e.orig, Period))
           n == Larger(1, t - e.ttd) \div p
           b == 2 * Period - 1
<1>1. Period \in Nat \ {0} /\ p \in Nat /\ 1 <= p /\ p <= Period
  BY ShardedCacheAssumption DEF Timed, Larger, Smaller
<1>2. n \in Nat /\ t - e.ttd < p * n + p
  <2> DEFINE a == Larger(1, t - e.ttd)
  <2>1. a \in Nat /\ t - e.ttd <= a
    BY DEF Timed, Larger
  <2> HIDE DEF p, a
  <2>2. n \in Nat /\ a < p * n + p
    <3>1. p \in Nat \ {0} /\ n = a \div p
      BY <1>1 DEF a
    <3> HIDE DEF n
    <3> QED
      BY <2>1, <3>1, Division
  <2>3. p * n \in Nat
    BY <1>1, <2>2
  <2> HIDE DEF n
  <2> QED
    BY <1>1, <2>1, <2>2, <2>3 DEF Timed
<1>3. f.servedStale = Smaller(e.servedStale + 1 + n, setup.extensions)
  BY DEF ServedStale
<1> HIDE DEF p, n
<1>4. f.servedStale \in Nat /\ f.servedStale > e.servedStale
  BY <1>2, <1>3 DEF Smaller, Timed
<1>5. f.died \in Int
  BY DEF Timed
<1>6. ASSUME f.servedStale < setup.extensions, f.died # Never
      PROVE  f.ttd <= f.died + f.servedStale * b
  <2>1. f.servedStale = e.servedStale + 1 + n
    BY <1>2, <1>3, <1>6 DEF Smaller, Timed
  <2>2. p * n + 2 * p - 1 <= (1 + n) * b
    <3>1. p * (n + 2) <= Period * (n + 2)
      BY <1>1, <1>2
    <3>2. n <= Period * n
      BY <1>1, <1>2
    <3>3. (1 + n) * b = 2 * (Period * n) + 2 * Period - n - 1
      BY <1>1, <1>2
    <3>4. p * (n + 2) = p * n + 2 * p /\ Period * (n + 2) = Period * n + 2 * Period
      BY <1>1, <1>2
    <3>5. p * n \in Int /\ Period * n \in Int
      BY <1>1, <1>2
    <3> QED
      BY <1>1, <1>2, <3>1, <3>2, <3>3, <3>4, <3>5
  <2>3. f.ttd <= e.ttd + (1 + n) * b
    <3>1. p * n \in Int /\ (1 + n) * b \in Int
      BY <1>1, <1>2
    <3>2. ttd <= t + p
      BY DEF p
    <3> HIDE DEF b
    <3> QED
      BY <1>1, <1>2, <2>2, <3>1, <3>2 DEF Timed
  <2>4. f.servedStale * b = e.servedStale * b + (1 + n) * b
    <3>1. b \in Int /\ e.servedStale \in Int /\ n \in Int
      BY <1>1, <1>2 DEF Timed
    <3> HIDE DEF b
    <3> QED
      BY <2>1, <3>1
  <2>5. e.servedStale * b \in Nat /\ (1 + n) * b \in Nat
    BY <1>1, <1>2 DEF Timed
  <2>6. f.servedStale * b \in Nat
    BY <2>4, <2>5
  <2>7. CASE e.died = Never
    <3> HIDE DEF b
    <3> QED
      BY <2>3, <2>4, <2>5, <2>6, <2>7 DEF Timed
  <2>8. CASE e.died # Never
    <3>1. e.ttd <= e.died + e.servedStale * b
      BY <2>8 DEF Bounded
    <3> HIDE DEF b
    <3> QED
      BY <2>3, <2>4, <2>5, <2>6, <2>8, <3>1 DEF Timed
  <2> QED
    BY <2>7, <2>8
<1> QED
  BY <1>4, <1>5, <1>6 DEF Bounded

-----------------------------------------------------------------------------
(* Shards of the record cache *)

\* Clocks agree and nothing is served stale.
Settled == setup.extensions = 0 /\ setup.lag = 0

RecFields(s) ==
  s \in [map : {s.map}, lru : {s.lru}, index : {s.index},
         range : [valid : BOOLEAN, name : {s.range.name}, tag : {s.range.tag},
                  keys : {s.range.keys}]]

Entries(map, S) == map \in [DOMAIN map -> S] /\ \A k \in DOMAIN map : Bounded(map[k])

Indexes(s) ==
  /\ s.index \subseteq DOMAIN s.map
  /\ Settled => \A k \in DOMAIN s.map :
                  k.mask # NoMask /\ s.map[k].ttd > now => k \in s.index

RecSound(s) ==
  /\ RecFields(s)
  /\ Entries(s.map, EntryType)
  /\ Lists(s.lru, DOMAIN s.map)
  /\ Indexes(s)
  /\ s.range.valid => s.range.keys = Group(s, s.range.name, s.range.tag)

LEMMA FrontSound ==
  ASSUME NEW s, RecSound(s), NEW k \in DOMAIN s.map
  PROVE  /\ RecSound(ToFront(s, k)) /\ ToFront(s, k).map = s.map
         /\ ToFront(s, k).index = s.index
<1> DEFINE x == ToFront(s, k)
<1>1. /\ RecFields(x) /\ x.map = s.map /\ x.index = s.index /\ x.range = s.range
      /\ x.lru = <<k>> \o Unlisted(s.lru, {k})
  BY DEF RecSound, RecFields, ToFront
<1>2. Lists(x.lru, DOMAIN x.map)
  <2>1. Lists(x.lru, DOMAIN s.map \cup {k})
    BY <1>1, FirstLists DEF RecSound
  <2>2. DOMAIN s.map \cup {k} = DOMAIN x.map
    BY <1>1
  <2> QED
    BY <2>1, <2>2
<1> HIDE DEF x
<1>3. RecSound(x)
  BY <1>1, <1>2 DEF RecSound, Indexes, Group
<1> QED
  BY <1>1, <1>3 DEF x

LEMMA BackSound ==
  ASSUME NEW s, RecSound(s), NEW k \in DOMAIN s.map
  PROVE  /\ RecSound(ToBack(s, k)) /\ ToBack(s, k).map = s.map
         /\ ToBack(s, k).index = s.index
<1> DEFINE x == ToBack(s, k)
<1>1. /\ RecFields(x) /\ x.map = s.map /\ x.index = s.index /\ x.range = s.range
      /\ x.lru = Append(Unlisted(s.lru, {k}), k)
  BY DEF RecSound, RecFields, ToBack
<1>2. Lists(x.lru, DOMAIN x.map)
  <2>1. Lists(x.lru, DOMAIN s.map \cup {k})
    BY <1>1, LastLists DEF RecSound
  <2>2. DOMAIN s.map \cup {k} = DOMAIN x.map
    BY <1>1
  <2> QED
    BY <2>1, <2>2
<1> HIDE DEF x
<1>3. RecSound(x)
  BY <1>1, <1>2 DEF RecSound, Indexes, Group
<1> QED
  BY <1>1, <1>3 DEF x

\* An entry that is changed lives no longer, or clocks or times are such that the index
\* need not know.
LEMMA ChangedSound ==
  ASSUME NEW s, RecSound(s), NEW k \in DOMAIN s.map, NEW f \in EntryType, Bounded(f),
         Settled /\ f.ttd > now => s.map[k].ttd > now,
         NEW x, RecFields(x), x.map = [s.map EXCEPT ![k] = f],
         x.lru = s.lru, x.index = s.index, x.range = s.range
  PROVE  RecSound(x)
<1>1. DOMAIN x.map = DOMAIN s.map
      /\ \A y \in DOMAIN s.map : x.map[y] = IF y = k THEN f ELSE s.map[y]
  BY DEF RecSound, Entries
<1>2. Entries(x.map, EntryType)
  BY <1>1 DEF RecSound, Entries
<1>3. Indexes(x)
  BY <1>1 DEF RecSound, Indexes
<1> QED
  BY <1>1, <1>2, <1>3 DEF RecSound, Group

\* A key that is dropped from the index has no entry that lives.
LEMMA DroppedSound ==
  ASSUME NEW s, RecSound(s), NEW k,
         Settled /\ k \in DOMAIN s.map => s.map[k].ttd <= now, now \in Nat
  PROVE  RecSound(Unindexed(s, k)) /\ Unindexed(s, k).map = s.map
<1> DEFINE x == Unindexed(s, k)
<1>1. /\ RecFields(x) /\ x.map = s.map /\ x.lru = s.lru /\ x.range = s.range
      /\ x.index = s.index \ {k}
  BY DEF RecSound, RecFields, Unindexed
<1> HIDE DEF x
<1>2. Indexes(x)
  <2>1. \A y \in DOMAIN s.map : s.map[y].ttd \in Int
    BY DEF RecSound, Entries, EntryType
  <2> QED
    BY <1>1, <2>1 DEF RecSound, Indexes
<1>3. RecSound(x)
  BY <1>1, <1>2 DEF RecSound, Group
<1> QED
  BY <1>1, <1>3 DEF x

LEMMA InvalidatedSound ==
  ASSUME NEW s, RecSound(s)
  PROVE  LET x == Invalidated(s)
         IN  RecSound(x) /\ ~x.range.valid /\ x.map = s.map /\ x.index = s.index
<1> DEFINE x == Invalidated(s)
<1>1. /\ RecFields(x) /\ x.map = s.map /\ x.lru = s.lru /\ x.index = s.index
      /\ x.range.valid = FALSE
  BY DEF RecSound, RecFields, Invalidated
<1> HIDE DEF x
<1>2. RecSound(x)
  BY <1>1 DEF RecSound, Indexes
<1> QED
  BY <1>1, <1>2 DEF x

LEMMA RangeSound ==
  ASSUME NEW s, RecSound(s), NEW name, NEW tag
  PROVE  LET x == WithEntries(s, name, tag)
         IN  RecSound(x) /\ x.map = s.map /\ x.index = s.index
<1> DEFINE x == WithEntries(s, name, tag)
<1>1. CASE x = s
  BY <1>1
<1>2. CASE x = [s EXCEPT !.range = [valid |-> TRUE, name |-> name, tag |-> tag,
                                    keys |-> Group(s, name, tag)]]
  <2> HIDE DEF x
  <2>1. /\ RecFields(x) /\ x.map = s.map /\ x.lru = s.lru /\ x.index = s.index
        /\ x.range = [valid |-> TRUE, name |-> name, tag |-> tag, keys |-> Group(s, name, tag)]
    <3>1. PICK r : r = [valid |-> TRUE, name |-> name, tag |-> tag, keys |-> Group(s, name, tag)]
      OBVIOUS
    <3>2. x = [s EXCEPT !.range = r]
      BY <1>2, <3>1
    <3>3. /\ x.map = s.map /\ x.lru = s.lru /\ x.index = s.index /\ x.range = r
          /\ x \in [map : {s.map}, lru : {s.lru}, index : {s.index}, range : {r}]
      BY <3>2 DEF RecSound, RecFields
    <3>4. r \in [valid : BOOLEAN, name : {r.name}, tag : {r.tag}, keys : {r.keys}]
      BY <3>1
    <3>5. RecFields(x)
      BY <3>3, <3>4 DEF RecFields
    <3> QED
      BY <3>1, <3>3, <3>5
  <2>2. Group(x, name, tag) = Group(s, name, tag)
    BY <2>1 DEF Group
  <2>3. x.range.keys = Group(x, x.range.name, x.range.tag)
    BY <2>1, <2>2
  <2>4. RecSound(x)
    BY <2>1, <2>3 DEF RecSound, Indexes
  <2> QED
    BY <2>1, <2>4 DEF x
<1> QED
  BY <1>1, <1>2 DEF WithEntries

\* The map that is left without ks.
CutMap(m, ks) == [y \in DOMAIN m \ ks |-> m[y]]

LEMMA ErasedSound ==
  ASSUME NEW s, RecSound(s), ~s.range.valid, NEW ks,
         NEW x, RecFields(x), x.map = CutMap(s.map, ks),
         x.lru = Unlisted(s.lru, ks), x.index = s.index \ ks, x.range = s.range
  PROVE  RecSound(x)
<1>1. DOMAIN x.map = DOMAIN s.map \ ks /\ \A y \in DOMAIN x.map : x.map[y] = s.map[y]
  BY DEF CutMap
<1>2. Entries(x.map, EntryType)
  BY <1>1 DEF RecSound, Entries, CutMap
<1>3. Lists(x.lru, DOMAIN x.map)
  BY <1>1, UnlistedLists DEF RecSound
<1>4. Indexes(x)
  BY <1>1 DEF RecSound, Indexes
<1> QED
  BY <1>2, <1>3, <1>4 DEF RecSound

\* The map and the list that put leaves.
PutMap(m, k, e) == [y \in DOMAIN m \cup {k} |-> IF y = k THEN e ELSE m[y]]

PutLast(lru, k) == Append(Unlisted(lru, {k}), k)

LEMMA StoredSound ==
  ASSUME NEW s, RecSound(s), ~s.range.valid, NEW k, NEW e \in EntryType, Bounded(e),
         NEW x, RecFields(x),
         x.map = PutMap(s.map, k, e),
         x.lru = PutLast(s.lru, k), x.range = s.range,
         s.index \subseteq x.index, x.index \subseteq s.index \cup {k},
         Settled /\ k.mask # NoMask => k \in x.index
  PROVE  RecSound(x)
<1>1. DOMAIN x.map = DOMAIN s.map \cup {k}
      /\ x.map[k] = e /\ \A y \in DOMAIN s.map : y # k => x.map[y] = s.map[y]
  BY DEF PutMap
<1>2. Entries(x.map, EntryType)
  BY <1>1 DEF RecSound, Entries, PutMap
<1>3. Lists(x.lru, DOMAIN x.map)
  BY <1>1, LastLists DEF RecSound, PutLast
<1>4. Indexes(x)
  BY <1>1 DEF RecSound, Indexes
<1> QED
  BY <1>2, <1>3, <1>4 DEF RecSound

-----------------------------------------------------------------------------
(* Lookups in the record cache *)

\* What a lookup may do to an entry.
Kept(e, f) ==
  /\ f.auth = e.auth /\ f.servedStale >= e.servedStale
  /\ f.ttd <= e.ttd \/ f.servedStale > e.servedStale

\* And to a shard.
After(s, x) ==
  DOMAIN x.map = DOMAIN s.map /\ \A k \in DOMAIN s.map : Kept(s.map[k], x.map[k])

\* What there can be tasks for: a task for ADDR is one for A and one for AAAA.
Asking == [name : Names, type : Types \cup {"ANY"}]

LookFields(l) ==
  l \in [shard : {l.shard}, pushed : SUBSET Asking, key : {l.key} , ttd : {l.ttd},
         orig : {l.orig}, found : {l.found}, filled : {l.filled}, over : {l.over},
         failed : {l.failed}]

\* What a lookup is, on its way, that started with the shard s.
Good(l, s) ==
  /\ LookFields(l) /\ RecSound(l.shard) /\ After(s, l.shard)
  /\ l.key = NoKey \/ l.key \in DOMAIN s.map

\* What a lookup may rely on.
Callable(s, t) ==
  /\ RecSound(s) /\ DOMAIN s.map \subseteq Keys
  /\ setup.extensions \in Nat /\ setup.lag \in Nat /\ now \in Nat /\ t \in Clocks

LEMMA KeptTypes ==
  ASSUME NEW s, RecSound(s), NEW k \in DOMAIN s.map
  PROVE  s.map[k] \in EntryType /\ Bounded(s.map[k]) /\ Timed(s.map[k])
  BY DEF RecSound, Entries, EntryType, Timed

LEMMA AfterItself ==
  ASSUME NEW s, RecSound(s) PROVE After(s, s)
<1>1. \A k \in DOMAIN s.map : s.map[k] \in EntryType
  BY KeptTypes
<1> QED
  BY <1>1 DEF After, Kept, EntryType

LEMMA AfterChange ==
  ASSUME NEW s, NEW x, RecSound(s), RecSound(x), After(s, x), NEW k \in DOMAIN x.map,
         NEW f \in EntryType, Kept(x.map[k], f),
         NEW y, y.map = [x.map EXCEPT ![k] = f]
  PROVE  After(s, y)
<1>1. DOMAIN y.map = DOMAIN x.map
      /\ \A z \in DOMAIN x.map : y.map[z] = IF z = k THEN f ELSE x.map[z]
  BY DEF RecSound, Entries
<1>2. Kept(s.map[k], f)
  <2>1. s.map[k] \in EntryType /\ x.map[k] \in EntryType /\ Kept(s.map[k], x.map[k])
    BY KeptTypes DEF After
  <2> QED
    BY <2>1 DEF Kept, EntryType
<1> QED
  BY <1>1, <1>2 DEF After

LEMMA RefreshTasksTyped ==
  ASSUME NEW name \in Names, NEW qtype \in QTypes
  PROVE  RefreshTasks(name, qtype) \subseteq Asking
  BY RecCacheAssumption DEF RefreshTasks, Asking, QTypes

LEMMA BookkeptGood ==
  ASSUME NEW s, NEW t, Callable(s, t), NEW l, Good(l, s), NEW k \in DOMAIN s.map,
         NEW serveStale \in BOOLEAN
  PROVE  LET b == Bookkept(l, k, t, serveStale)
         IN  /\ Good(b, s) /\ b.key = l.key /\ b.found = l.found /\ b.over = l.over
             /\ b.shard.index = l.shard.index
             /\ Settled => b.shard.map[k] = l.shard.map[k]
<1> DEFINE e == l.shard.map[k]
           p == Larger(1, Smaller(e.orig, Period))
           f == Extended(e, t, t + p)
           b == Bookkept(l, k, t, serveStale)
<1>1. k \in DOMAIN l.shard.map /\ k \in Keys
  BY DEF Good, After, Callable
<1>2. e \in EntryType /\ Bounded(e) /\ Timed(e)
  BY <1>1, KeptTypes DEF Good
<1>3. CASE ~NeedsExtension(e, t, serveStale)
  BY <1>3 DEF Bookkept
<1>4. CASE NeedsExtension(e, t, serveStale)
  <2>1. e.ttd <= t /\ e.servedStale < setup.extensions /\ t \in Int
    BY <1>4 DEF NeedsExtension, Callable, Clocks
  <2>2. p \in Nat
    BY <1>2, ShardedCacheAssumption DEF Timed, Larger, Smaller
  <2>3. /\ f.ttd = t + p /\ f.servedStale = ServedStale(e, t) /\ f.auth = e.auth
        /\ f.died = IF e.died = Never THEN e.ttd ELSE e.died
        /\ f.orig = e.orig /\ f.state = e.state /\ f.submitted = e.submitted
        /\ f.tooBig = e.tooBig
        /\ f = [ttd |-> f.ttd, orig |-> f.orig, auth |-> f.auth, state |-> f.state,
                servedStale |-> f.servedStale, submitted |-> f.submitted,
                tooBig |-> f.tooBig, died |-> f.died]
    <3> HIDE DEF e, p
    <3>1. e \in [ttd : Int, orig : Nat, auth : BOOLEAN, state : States, servedStale : Nat,
                 submitted : BOOLEAN, tooBig : BOOLEAN, died : Int]
      BY <1>2 DEF EntryType
    <3>2. PICK died : died = IF e.died = Never THEN e.ttd ELSE e.died
      OBVIOUS
    <3>3. f = [e EXCEPT !.servedStale = ServedStale(e, t), !.ttd = t + p, !.died = died]
      BY <3>2 DEF Extended
    <3> HIDE DEF f
    <3> QED
      BY <3>1, <3>2, <3>3
  <2> HIDE DEF f
  <2>4. f.servedStale \in Nat /\ f.servedStale > e.servedStale /\ f.died \in Int /\ Bounded(f)
    <3>1. f.ttd = t + p /\ t + p \in Int /\ setup.extensions \in Nat
      BY <2>1, <2>2, <2>3 DEF Callable
    <3> QED
      BY <1>2, <2>1, <2>3, <3>1, ExtensionBounded
  <2>5. f \in EntryType
    <3> HIDE DEF e, p
    <3> QED
      BY <1>2, <2>1, <2>2, <2>3, <2>4 DEF EntryType
  <2>6. b = [l EXCEPT !.shard.map[k] = f, !.pushed = @ \cup RefreshTasks(k.name, k.type)]
    BY <1>4 DEF Bookkept, f
  <2>7. RefreshTasks(k.name, k.type) \subseteq Asking
    BY <1>1, RefreshTasksTyped DEF Keys, QTypes
  <2> DEFINE x == b.shard
  <2>8. /\ LookFields(b) /\ b.key = l.key /\ b.found = l.found /\ b.over = l.over
        /\ RecFields(x) /\ x.map = [l.shard.map EXCEPT ![k] = f]
        /\ x.lru = l.shard.lru /\ x.index = l.shard.index /\ x.range = l.shard.range
    <3> HIDE DEF b, e
    <3>1. LookFields(l) /\ RecFields(l.shard)
      BY DEF Good, RecSound
    <3>2. PICK pushed \in SUBSET Asking :
            pushed = l.pushed \cup RefreshTasks(k.name, k.type)
      BY <2>7, <3>1 DEF LookFields
    <3>3. b = [l EXCEPT !.shard.map[k] = f, !.pushed = pushed]
      BY <2>6, <3>1, <3>2 DEF LookFields
    <3> QED
      BY <3>1, <3>3 DEF LookFields, RecFields
  <2> HIDE DEF x
  <2>9. ~Settled
    BY <2>1, <1>2 DEF Settled, Timed
  <2>10. RecSound(x)
    BY <1>1, <2>4, <2>5, <2>8, <2>9, ChangedSound DEF Good
  <2>11. Kept(e, f)
    BY <1>2, <2>3, <2>4 DEF Kept, Timed
  <2>12. After(s, x)
    BY <1>1, <2>5, <2>8, <2>11, AfterChange DEF Good, Callable
  <2>13. Good(b, s)
    <3> HIDE DEF b
    <3> QED
      BY <2>8, <2>10, <2>12 DEF Good, x
  <2> QED
    BY <2>8, <2>9, <2>13 DEF x
<1> QED
  BY <1>3, <1>4

\* A step of a lookup that changes its shard to x.
LEMMA ShardChanged ==
  ASSUME NEW l, NEW s, Good(l, s), NEW x, RecSound(x), x.map = l.shard.map,
         NEW m, LookFields(m), m.shard = x, m.key = NoKey \/ m.key \in DOMAIN s.map
  PROVE  Good(m, s)
  BY DEF Good, After

LEMMA HitGood ==
  ASSUME NEW s, NEW l, Good(l, s), NEW k \in DOMAIN s.map, NEW t, NEW full
  PROVE  Good(Hit(l, k, t, full), s) /\ Hit(l, k, t, full).key = l.key
<1> DEFINE e == l.shard.map[k]
           m == Hit(l, k, t, full)
<1>1. RecSound(ToBack(l.shard, k)) /\ ToBack(l.shard, k).map = l.shard.map
      /\ RecSound(l.shard) /\ LookFields(l)
  BY BackSound DEF Good, After
<1>2. CASE m = [l EXCEPT !.failed = TRUE, !.over = TRUE]
  <2>1. LookFields(m) /\ m.shard = l.shard /\ m.key = l.key
    BY <1>1, <1>2 DEF LookFields
  <2> QED
    BY <1>1, <2>1, ShardChanged DEF Good
<1>3. CASE m = [l EXCEPT !.ttd = e.ttd, !.found = TRUE]
  <2>1. LookFields(m) /\ m.shard = l.shard /\ m.key = l.key
    BY <1>1, <1>3 DEF LookFields
  <2> QED
    BY <1>1, <2>1, ShardChanged DEF Good
<1>4. CASE m = [l EXCEPT !.shard = ToBack(@, k), !.ttd = e.ttd, !.orig = e.orig,
                         !.found = TRUE, !.filled = TRUE]
  <2>1. LookFields(m) /\ m.shard = ToBack(l.shard, k) /\ m.key = l.key
    BY <1>1, <1>4 DEF LookFields
  <2> QED
    BY <1>1, <2>1, ShardChanged DEF Good
<1> QED
  BY <1>2, <1>3, <1>4 DEF Hit

LEMMA TryMaskGood ==
  ASSUME NEW s, NEW t, Callable(s, t), NEW l, Good(l, s), NEW k,
         NEW requireAuth, NEW serveStale \in BOOLEAN
  PROVE  LET m == TryMask(l, k, t, requireAuth, serveStale)
         IN  Good(m, s) /\ m.found = l.found
<1> DEFINE m == TryMask(l, k, t, requireAuth, serveStale)
           b == Bookkept(l, k, t, serveStale)
           e == b.shard.map[k]
<1>1. CASE l.over \/ k \notin l.shard.index
  BY <1>1 DEF TryMask
<1>2. CASE ~l.over /\ k \in l.shard.index
  <2>1. k \in DOMAIN l.shard.map /\ k \in DOMAIN s.map
    BY <1>2 DEF Good, RecSound, Indexes, After
  <2>2. Good(b, s) /\ b.found = l.found
    BY <2>1, BookkeptGood
  <2>3. LookFields(b) /\ RecSound(b.shard) /\ k \in DOMAIN b.shard.map
    BY <2>1, <2>2 DEF Good, After
  <2>4. CASE e.ttd > t
    <3>1. PICK key : key = IF requireAuth => e.auth THEN k ELSE NoKey
      OBVIOUS
    <3>2. m = [b EXCEPT !.over = TRUE, !.key = key]
      BY <1>2, <2>1, <2>4, <3>1 DEF TryMask
    <3> HIDE DEF m, b
    <3>3. LookFields(m) /\ m.shard = b.shard /\ m.found = b.found /\ m.key = key
      BY <2>3, <3>2 DEF LookFields
    <3> QED
      BY <2>1, <2>2, <2>3, <3>1, <3>3, ShardChanged DEF m
  <2>5. CASE ~(e.ttd > t)
    <3> DEFINE y == ToFront(b.shard, k)
               x == Unindexed(y, k)
    <3>1. m = [b EXCEPT !.shard = x]
      BY <1>2, <2>1, <2>5 DEF TryMask
    <3>2. RecSound(y) /\ y.map = b.shard.map
      BY <2>3, FrontSound
    <3>3. y.map[k].ttd <= now
      <4>1. e.ttd \in Int
        BY <2>3, KeptTypes DEF Timed
      <4> QED
        BY <2>5, <3>2, <4>1 DEF Callable, Clocks
    <3>4. RecSound(x) /\ x.map = b.shard.map
      <4> HIDE DEF y
      <4> QED
        BY <3>2, <3>3, DroppedSound DEF Callable
    <3> HIDE DEF m, b, x
    <3>5. LookFields(m) /\ m.shard = x /\ m.found = b.found /\ m.key = b.key
      BY <2>3, <3>1 DEF LookFields
    <3> QED
      BY <2>2, <3>4, <3>5, ShardChanged DEF m, Good
  <2> QED
    BY <2>4, <2>5
<1> QED
  BY <1>1, <1>2

LEMMA TryGenericGood ==
  ASSUME NEW s, NEW t, Callable(s, t), NEW l, Good(l, s), NEW k,
         NEW requireAuth, NEW serveStale \in BOOLEAN
  PROVE  LET m == TryGeneric(l, k, t, requireAuth, serveStale)
         IN  Good(m, s) /\ m.found = l.found
<1> DEFINE m == TryGeneric(l, k, t, requireAuth, serveStale)
           b == Bookkept(l, k, t, serveStale)
           e == b.shard.map[k]
<1>1. CASE l.over \/ k \notin DOMAIN l.shard.map
  BY <1>1 DEF TryGeneric
<1>2. CASE ~l.over /\ k \in DOMAIN l.shard.map
  <2>1. k \in DOMAIN s.map
    BY <1>2 DEF Good, After
  <2>2. Good(b, s) /\ b.found = l.found
    BY <2>1, BookkeptGood
  <2>3. LookFields(b) /\ RecSound(b.shard) /\ k \in DOMAIN b.shard.map
    BY <2>1, <2>2 DEF Good, After
  <2>4. CASE e.ttd <= t
    <3>1. m = [b EXCEPT !.shard = ToFront(@, k)]
      BY <1>2, <2>4 DEF TryGeneric
    <3>2. RecSound(ToFront(b.shard, k)) /\ ToFront(b.shard, k).map = b.shard.map
      BY <2>3, FrontSound
    <3> HIDE DEF m, b
    <3>3. LookFields(m) /\ m.shard = ToFront(b.shard, k) /\ m.found = b.found /\ m.key = b.key
      BY <2>3, <3>1 DEF LookFields
    <3> QED
      BY <2>2, <3>2, <3>3, ShardChanged DEF m, Good
  <2>5. CASE ~(e.ttd <= t)
    <3>1. PICK key : key = IF requireAuth => e.auth THEN k ELSE NoKey
      OBVIOUS
    <3>2. m = [b EXCEPT !.key = key]
      BY <1>2, <2>5, <3>1 DEF TryGeneric
    <3> HIDE DEF m, b
    <3>3. LookFields(m) /\ m.shard = b.shard /\ m.found = b.found /\ m.key = key
      BY <2>3, <3>2 DEF LookFields
    <3> QED
      BY <2>1, <2>2, <2>3, <3>1, <3>3, ShardChanged DEF m
  <2> QED
    BY <2>4, <2>5
<1> QED
  BY <1>1, <1>2

\* The function in ByIndex, up to m.
MaskKey(name, type, mask) == [name |-> name, type |-> type, tag |-> NoTag, mask |-> mask]
Tries(tried, l, t, name, type, requireAuth, masks, serveStale, m) ==
  tried = [n \in 0 .. m |->
             IF n = 0 THEN [l EXCEPT !.key = NoKey, !.over = FALSE]
             ELSE TryMask(tried[n - 1], MaskKey(name, type, masks[n]), t, requireAuth,
                          serveStale)]

LEMMA TriesExists ==
  ASSUME NEW l, NEW t, NEW name, NEW type, NEW requireAuth, NEW masks, NEW serveStale,
         NEW m \in Nat
  PROVE  \E tried : Tries(tried, l, t, name, type, requireAuth, masks, serveStale, m)
<1> DEFINE Is(f, n) == Tries(f, l, t, name, type, requireAuth, masks, serveStale, n)
           first == [l EXCEPT !.key = NoKey, !.over = FALSE]
           Next1(x, n) == TryMask(x, MaskKey(name, type, masks[n]), t, requireAuth, serveStale)
           T == {n \in 0 .. m : \E f : Is(f, n)}
<1>1. 0 \in T
  <2>1. Is([n \in 0 .. 0 |-> first], 0)
    BY DEF Tries
  <2> QED
    BY <2>1
<1>2. ASSUME NEW n \in 1 .. m, n - 1 \in T PROVE n \in T
  <2>1. PICK f : Is(f, n - 1)
    BY <1>2
  <2> DEFINE g == [i \in 0 .. n |-> IF i < n THEN f[i] ELSE Next1(f[n - 1], n)]
  <2>2. ASSUME NEW i \in 0 .. n
        PROVE  g[i] = IF i = 0 THEN first ELSE Next1(g[i - 1], i)
    <3>1. CASE i = n
      BY <3>1
    <3>2. CASE i < n
      <4>1. i \in 0 .. n - 1 /\ g[i] = f[i] /\ (i # 0 => g[i - 1] = f[i - 1])
        BY <3>2
      <4>2. f[i] = IF i = 0 THEN first ELSE Next1(f[i - 1], i)
        BY <2>1, <4>1 DEF Tries
      <4> QED
        BY <4>1, <4>2
    <3> QED
      BY <3>1, <3>2
  <2>3. Is(g, n)
    BY <2>2 DEF Tries
  <2> HIDE DEF g
  <2> QED
    BY <2>3
<1> QED
  <2> HIDE DEF T
  <2>1. \A n \in 0 .. m : n \in T
    BY <1>1, <1>2, Induction
  <2> QED
    BY <2>1 DEF T

LEMMA ByIndexGood ==
  ASSUME NEW s, NEW t, Callable(s, t), NEW l, Good(l, s), NEW name, NEW type,
         NEW requireAuth, NEW client \in Clients, NEW serveStale \in BOOLEAN
  PROVE  LET b == ByIndex(l, t, name, type, requireAuth, client, serveStale)
         IN  Good(b, s) /\ b.found = l.found
<1> DEFINE masks == Covering[client]
           first == [l EXCEPT !.key = NoKey, !.over = FALSE]
           tried == CHOOSE f : Tries(f, l, t, name, type, requireAuth, masks, serveStale,
                                     Len(masks))
<1>1. Len(masks) \in Nat
  BY RecCacheAssumption
<1>2. Tries(tried, l, t, name, type, requireAuth, masks, serveStale, Len(masks))
  BY <1>1, TriesExists
<1>3. ByIndex(l, t, name, type, requireAuth, client, serveStale)
        = TryGeneric(tried[Len(masks)], MaskKey(name, type, NoMask), t, requireAuth, serveStale)
  BY Zenon DEF ByIndex, Tries, MaskKey
<1> HIDE DEF tried, masks
<1>4. \A n \in 0 .. Len(masks) :
        tried[n] = IF n = 0 THEN first
                   ELSE TryMask(tried[n - 1], MaskKey(name, type, masks[n]), t, requireAuth,
                                serveStale)
  BY <1>2, Zenon DEF Tries
<1> DEFINE T == {n \in 0 .. Len(masks) : Good(tried[n], s) /\ tried[n].found = l.found}
<1>5. 0 \in T
  <2>1. LookFields(first) /\ first.shard = l.shard /\ first.found = l.found /\ first.key = NoKey
    BY DEF Good, LookFields
  <2> HIDE DEF first
  <2>2. Good(first, s)
    BY <2>1 DEF Good
  <2>3. 0 \in 0 .. Len(masks)
    BY <1>1
  <2>4. tried[0] = first
    BY <1>4, <2>3
  <2> QED
    BY <2>1, <2>2, <2>3, <2>4
<1>6. ASSUME NEW n \in 1 .. Len(masks), n - 1 \in T PROVE n \in T
  <2>1. /\ n \in 0 .. Len(masks) /\ n # 0
        /\ Good(tried[n - 1], s) /\ tried[n - 1].found = l.found
    BY <1>1, <1>6
  <2>2. tried[n] = TryMask(tried[n - 1], MaskKey(name, type, masks[n]), t, requireAuth, serveStale)
    BY <1>4, <2>1
  <2>3. Good(tried[n], s) /\ tried[n].found = l.found
    BY <2>1, <2>2, TryMaskGood
  <2> QED
    BY <2>1, <2>3
<1>7. Good(tried[Len(masks)], s) /\ tried[Len(masks)].found = l.found
  <2>1. Len(masks) \in T
    <3> HIDE DEF T
    <3>1. \A n \in 0 .. Len(masks) : n \in T
      BY <1>1, <1>5, <1>6, Induction
    <3> QED
      BY <1>1, <3>1
  <2> QED
    BY <2>1
<1> QED
  BY <1>3, <1>7, TryGenericGood

\* What was found has its key.
FoundKeyed(l, s) == l.found => l.key \in DOMAIN s.map

LEMMA HitByIndexGood ==
  ASSUME NEW s, NEW t, Callable(s, t), NEW l, Good(l, s), NEW name, NEW type,
         NEW flags, flags.serveStale \in BOOLEAN, NEW client \in Clients, NEW full
  PROVE  LET h == HitByIndex(l, t, name, type, flags, client, full)
         IN  Good(h, s) /\ (~l.found => FoundKeyed(h, s))
<1> DEFINE b == ByIndex(l, t, name, type, flags.requireAuth, client, flags.serveStale)
           h == HitByIndex(l, t, name, type, flags, client, full)
<1>1. Good(b, s) /\ b.found = l.found
  BY ByIndexGood
<1>2. h = l \/ (b.key = NoKey /\ h = b) \/ (b.key # NoKey /\ h = Hit(b, b.key, t, full))
  BY DEF HitByIndex
<1> HIDE DEF b, h
<1>3. CASE h = l
  BY <1>3 DEF FoundKeyed, h
<1>4. CASE h = b
  BY <1>1, <1>4 DEF FoundKeyed, h
<1>5. CASE b.key # NoKey /\ h = Hit(b, b.key, t, full)
  <2>1. b.key \in DOMAIN s.map
    BY <1>1, <1>5 DEF Good
  <2>2. Good(h, s) /\ h.key = b.key
    BY <1>1, <1>5, <2>1, HitGood
  <2> QED
    BY <2>1, <2>2 DEF FoundKeyed, h
<1> QED
  BY <1>2, <1>3, <1>4, <1>5

LEMMA VisitGood ==
  ASSUME NEW s, NEW t, Callable(s, t), NEW l, Good(l, s), FoundKeyed(l, s),
         NEW k \in DOMAIN s.map, NEW qtype, NEW flags, flags.serveStale \in BOOLEAN,
         NEW client, NEW full
  PROVE  LET v == Visit(l, k, t, qtype, flags, client, full)
         IN  Good(v, s) /\ FoundKeyed(v, s)
<1> DEFINE here == [l EXCEPT !.key = k]
           b == Bookkept(here, k, t, flags.serveStale)
           hit == Hit(b, k, t, full)
           v == Visit(l, k, t, qtype, flags, client, full)
<1>1. Good(here, s) /\ here.key = k
  <2>1. LookFields(here) /\ here.shard = l.shard /\ here.key = k
    BY DEF Good, LookFields
  <2> HIDE DEF here
  <2> QED
    BY <2>1 DEF Good
<1>2. here.shard = l.shard
  BY DEF Good, LookFields
<1>3. CASE v = l
  BY <1>3
<1>4. CASE v = [here EXCEPT !.shard = ToFront(@, k)]
  <2>1. RecSound(ToFront(l.shard, k)) /\ ToFront(l.shard, k).map = l.shard.map
    BY FrontSound DEF Good, After
  <2> HIDE DEF v, here
  <2>2. LookFields(v) /\ v.shard = ToFront(here.shard, k) /\ v.key = k
    BY <1>1, <1>4 DEF Good, LookFields
  <2>3. Good(v, s)
    BY <1>1, <1>2, <2>1, <2>2, ShardChanged
  <2> QED
    BY <2>2, <2>3 DEF FoundKeyed, v
<1>5. CASE v = here
  <2> HIDE DEF v, here
  <2> QED
    BY <1>1, <1>5 DEF FoundKeyed, v
<1>6. CASE v = [hit EXCEPT !.over = @ \/ qtype # "ANY"]
  <2>1. Good(b, s) /\ b.key = k
    <3> HIDE DEF here
    <3> QED
      BY <1>1, BookkeptGood
  <2>2. Good(hit, s) /\ hit.key = k
    <3> HIDE DEF b
    <3> QED
      BY <2>1, HitGood
  <2>3. PICK over \in BOOLEAN : v = [hit EXCEPT !.over = over]
    <3>1. PICK o : o = (hit.over \/ qtype # "ANY")
      OBVIOUS
    <3>2. o \in BOOLEAN
      BY <3>1
    <3>3. v = [hit EXCEPT !.over = o]
      <4> HIDE DEF hit, v
      <4> QED
        BY <1>6, <3>1
    <3> HIDE DEF hit, v
    <3> QED
      BY <3>2, <3>3
  <2> HIDE DEF hit, v
  <2>4. LookFields(v) /\ v.shard = hit.shard /\ v.key = hit.key
    BY <2>2, <2>3 DEF Good, LookFields
  <2>5. Good(v, s)
    BY <2>2, <2>4 DEF Good
  <2> QED
    BY <2>2, <2>4, <2>5 DEF FoundKeyed, v
<1> HIDE DEF here
<1>7. \/ v = l \/ v = [here EXCEPT !.shard = ToFront(@, k)] \/ v = here
      \/ v = [hit EXCEPT !.over = @ \/ qtype # "ANY"]
  BY Zenon DEF Visit, here
<1> QED
  BY <1>3, <1>4, <1>5, <1>6, <1>7

\* The order of a walk over entries that are in D.
Orders(order, D) == Len(order) \in Nat /\ \A n \in 1 .. Len(order) : order[n] \in D

LEMMA OrdersOf ==
  ASSUME NEW lru, NEW D, Lists(lru, D), NEW S \in SUBSET D, NEW order \in SetToSeqs(S)
  PROVE  Orders(order, D)
<1>1. Cardinality(S) \in Nat
  BY ListCounts, FS_Subset, FS_CardinalityType
<1>2. order \in [1 .. Cardinality(S) -> S]
  BY DEF SetToSeqs
<1>3. Len(order) = Cardinality(S)
  BY <1>1, <1>2
<1> QED
  BY <1>1, <1>2, <1>3 DEF Orders

\* The function in ByRange, up to m.
Visits(visited, l, t, name, tag, qtype, flags, client, full, order, m) ==
  visited = [n \in 0 .. m |->
               IF n = 0 THEN [l EXCEPT !.shard = WithEntries(@, name, tag)]
               ELSE Visit(visited[n - 1], order[n], t, qtype, flags, client, full)]

LEMMA VisitsExists ==
  ASSUME NEW l, NEW t, NEW name, NEW tag, NEW qtype, NEW flags, NEW client, NEW full,
         NEW order, NEW m \in Nat
  PROVE  \E visited : Visits(visited, l, t, name, tag, qtype, flags, client, full, order, m)
<1> DEFINE Is(f, n) == Visits(f, l, t, name, tag, qtype, flags, client, full, order, n)
           first == [l EXCEPT !.shard = WithEntries(@, name, tag)]
           Next1(x, n) == Visit(x, order[n], t, qtype, flags, client, full)
           T == {n \in 0 .. m : \E f : Is(f, n)}
<1>1. 0 \in T
  <2>1. Is([n \in 0 .. 0 |-> first], 0)
    BY DEF Visits
  <2> QED
    BY <2>1
<1>2. ASSUME NEW n \in 1 .. m, n - 1 \in T PROVE n \in T
  <2>1. PICK f : Is(f, n - 1)
    BY <1>2
  <2> DEFINE g == [i \in 0 .. n |-> IF i < n THEN f[i] ELSE Next1(f[n - 1], n)]
  <2>2. ASSUME NEW i \in 0 .. n
        PROVE  g[i] = IF i = 0 THEN first ELSE Next1(g[i - 1], i)
    <3>1. CASE i = n
      BY <3>1
    <3>2. CASE i < n
      <4>1. i \in 0 .. n - 1 /\ g[i] = f[i] /\ (i # 0 => g[i - 1] = f[i - 1])
        BY <3>2
      <4>2. f[i] = IF i = 0 THEN first ELSE Next1(f[i - 1], i)
        BY <2>1, <4>1 DEF Visits
      <4> QED
        BY <4>1, <4>2
    <3> QED
      BY <3>1, <3>2
  <2>3. Is(g, n)
    BY <2>2 DEF Visits
  <2> HIDE DEF g
  <2> QED
    BY <2>3
<1> QED
  <2> HIDE DEF T
  <2>1. \A n \in 0 .. m : n \in T
    BY <1>1, <1>2, Induction
  <2> QED
    BY <2>1 DEF T

LEMMA ByRangeGood ==
  ASSUME NEW s, NEW t, Callable(s, t), NEW l, Good(l, s), FoundKeyed(l, s),
         NEW name, NEW tag, NEW qtype, NEW flags, flags.serveStale \in BOOLEAN,
         NEW client, NEW full, NEW order, Orders(order, DOMAIN s.map)
  PROVE  LET b == ByRange(l, t, name, tag, qtype, flags, client, full, order)
         IN  Good(b, s) /\ FoundKeyed(b, s)
<1> DEFINE first == [l EXCEPT !.shard = WithEntries(@, name, tag)]
           visited == CHOOSE f : Visits(f, l, t, name, tag, qtype, flags, client, full, order,
                                        Len(order))
<1>1. Len(order) \in Nat
  BY DEF Orders
<1>2. Visits(visited, l, t, name, tag, qtype, flags, client, full, order, Len(order))
  BY <1>1, VisitsExists
<1>3. ByRange(l, t, name, tag, qtype, flags, client, full, order) = visited[Len(order)]
  BY Zenon DEF ByRange, Visits
<1> HIDE DEF visited
<1>4. \A n \in 0 .. Len(order) :
        visited[n] = IF n = 0 THEN first
                     ELSE Visit(visited[n - 1], order[n], t, qtype, flags, client, full)
  BY <1>2, Zenon DEF Visits
<1> DEFINE T == {n \in 0 .. Len(order) : Good(visited[n], s) /\ FoundKeyed(visited[n], s)}
<1>5. 0 \in T
  <2>1. RecSound(WithEntries(l.shard, name, tag)) /\ WithEntries(l.shard, name, tag).map = l.shard.map
    BY RangeSound DEF Good
  <2>2. /\ LookFields(first) /\ first.shard = WithEntries(l.shard, name, tag)
        /\ first.found = l.found /\ first.key = l.key
    BY DEF Good, LookFields
  <2> HIDE DEF first
  <2>3. Good(first, s) /\ FoundKeyed(first, s)
    BY <2>1, <2>2, ShardChanged DEF Good, FoundKeyed
  <2>4. 0 \in 0 .. Len(order)
    BY <1>1
  <2>5. visited[0] = first
    BY <1>4, <2>4
  <2> QED
    BY <2>3, <2>4, <2>5
<1>6. ASSUME NEW n \in 1 .. Len(order), n - 1 \in T PROVE n \in T
  <2>1. /\ n \in 0 .. Len(order) /\ n # 0 /\ order[n] \in DOMAIN s.map
        /\ Good(visited[n - 1], s) /\ FoundKeyed(visited[n - 1], s)
    BY <1>1, <1>6 DEF Orders
  <2>2. visited[n] = Visit(visited[n - 1], order[n], t, qtype, flags, client, full)
    BY <1>4, <2>1
  <2>3. Good(visited[n], s) /\ FoundKeyed(visited[n], s)
    BY <2>1, <2>2, VisitGood
  <2> QED
    BY <2>1, <2>3
<1>7. Good(visited[Len(order)], s) /\ FoundKeyed(visited[Len(order)], s)
  <2>1. Len(order) \in T
    <3> HIDE DEF T
    <3>1. \A n \in 0 .. Len(order) : n \in T
      BY <1>1, <1>5, <1>6, Induction
    <3> QED
      BY <1>1, <3>1
  <2> QED
    BY <2>1
<1> QED
  BY <1>3, <1>7

LEMMA FakeTTDGood ==
  ASSUME NEW s, NEW t, Callable(s, t), NEW l, Good(l, s), NEW k \in DOMAIN s.map,
         NEW qtype \in QTypes, NEW refresh
  PROVE  Good(FakeTTD(l, k, t, qtype, refresh), s)
<1> DEFINE f == FakeTTD(l, k, t, qtype, refresh)
           e == l.shard.map[k]
<1>1. k \in DOMAIN l.shard.map /\ k \in Keys /\ RecSound(l.shard) /\ LookFields(l)
  BY DEF Good, After, Callable
<1>2. e \in EntryType /\ Bounded(e)
  BY <1>1, KeptTypes
<1>3. CASE f = l
  BY <1>3
<1>4. CASE f = [l EXCEPT !.found = FALSE]
  <2> HIDE DEF f
  <2>1. LookFields(f) /\ f.shard = l.shard /\ f.key = l.key
    BY <1>1, <1>4 DEF LookFields
  <2> QED
    BY <2>1 DEF Good, f
<1>5. CASE f = [l EXCEPT !.shard.map[k].submitted = TRUE,
                         !.pushed = @ \cup RefreshTasks(k.name, qtype)]
  <2>1. RefreshTasks(k.name, qtype) \subseteq Asking
    BY <1>1, RefreshTasksTyped DEF Keys
  <2>2. PICK pushed \in SUBSET Asking : pushed = l.pushed \cup RefreshTasks(k.name, qtype)
    BY <1>1, <2>1 DEF LookFields
  <2> DEFINE g == [e EXCEPT !.submitted = TRUE]
             x == f.shard
  <2>3. g \in EntryType /\ Kept(e, g) /\ Bounded(g) /\ g.ttd = e.ttd
    <3> HIDE DEF e
    <3>1. /\ g \in EntryType /\ g.ttd = e.ttd /\ g.auth = e.auth /\ g.died = e.died
          /\ g.servedStale = e.servedStale /\ e.ttd \in Int /\ e.servedStale \in Nat
      BY <1>2 DEF EntryType
    <3> HIDE DEF g
    <3> QED
      BY <1>2, <3>1 DEF Kept, Bounded
  <2>4. f = [l EXCEPT !.shard.map[k] = g, !.pushed = pushed]
    <3> HIDE DEF f
    <3>1. f = [l EXCEPT !.shard.map[k].submitted = TRUE, !.pushed = pushed]
      BY <1>1, <1>5, <2>2 DEF LookFields
    <3> QED
      BY <3>1
  <2> HIDE DEF f, g
  <2>5. /\ LookFields(f) /\ f.key = l.key
        /\ RecFields(x) /\ x.map = [l.shard.map EXCEPT ![k] = g]
        /\ x.lru = l.shard.lru /\ x.index = l.shard.index /\ x.range = l.shard.range
    <3>1. RecFields(l.shard)
      BY <1>1 DEF RecSound
    <3> QED
      BY <1>1, <2>4, <3>1 DEF LookFields, RecFields
  <2> HIDE DEF x
  <2>6. RecSound(x)
    BY <1>1, <2>3, <2>5, ChangedSound
  <2>7. After(s, x)
    BY <1>1, <2>3, <2>5, <2>6, AfterChange DEF Good, Callable
  <2> QED
    BY <2>5, <2>6, <2>7 DEF Good, x, f
<1> QED
  BY <1>3, <1>4, <1>5 DEF FakeTTD

LEMMA EndedGood ==
  ASSUME NEW s, NEW t, Callable(s, t), NEW l, Good(l, s), FoundKeyed(l, s),
         NEW qtype \in QTypes, NEW refresh
  PROVE  Good(Ended(l, t, qtype, refresh), s)
<1>1. CASE l.failed \/ ~l.found
  BY <1>1 DEF Ended
<1>2. CASE ~(l.failed \/ ~l.found)
  BY <1>2, FakeTTDGood DEF Ended, FoundKeyed
<1> QED
  BY <1>1, <1>2

LEMMA LookupGood ==
  ASSUME NEW s, RecSound(s)
  PROVE  Good(Lookup(s), s) /\ ~Lookup(s).found
<1> DEFINE l == Lookup(s)
<1>1. LookFields(l) /\ l.shard = s /\ l.key = NoKey /\ ~l.found
  BY DEF Lookup, LookFields
<1> HIDE DEF l
<1>2. Good(l, s)
  BY <1>1, AfterItself DEF Good
<1> QED
  BY <1>1, <1>2 DEF l

LEMMA LookedUpGood ==
  ASSUME NEW t, NEW name, NEW s, s = ShardWith(name), Callable(s, t), NEW qtype \in QTypes,
         NEW flags, flags.serveStale \in BOOLEAN, NEW client \in Clients, NEW tag, NEW full,
         NEW order, Orders(order, DOMAIN s.map)
  PROVE  Good(LookedUp(t, name, qtype, flags, client, tag, full, order), s)
<1> DEFINE l == Lookup(ShardWith(name))
           h(x, type) == HitByIndex(x, t, name, type, flags, client, full)
           range == ByRange(l, t, name, TagUsed(name, tag), qtype, flags, client, full, order)
           done == LookedUp(t, name, qtype, flags, client, tag, full, order)
<1>1. Good(l, s) /\ ~l.found /\ FoundKeyed(l, s)
  BY LookupGood DEF Callable, FoundKeyed
<1>2. \/ done = Ended(range, t, qtype, flags.refresh)
      \/ done = h(h(l, "A"), "AAAA")
      \/ done = Ended(h(l, qtype), t, qtype, flags.refresh)
  BY Zenon DEF LookedUp
<1> HIDE DEF l, done
<1>3. CASE done = Ended(range, t, qtype, flags.refresh)
  <2>1. Good(range, s) /\ FoundKeyed(range, s)
    BY <1>1, ByRangeGood
  <2> HIDE DEF range
  <2> QED
    BY <1>3, <2>1, EndedGood DEF done
<1>4. CASE done = h(h(l, "A"), "AAAA")
  <2>1. Good(h(l, "A"), s)
    BY <1>1, HitByIndexGood
  <2> DEFINE m == h(l, "A")
  <2>2. Good(m, s) /\ done = HitByIndex(m, t, name, "AAAA", flags, client, full)
    BY <1>4, <2>1
  <2> HIDE DEF m
  <2> QED
    BY <2>2, HitByIndexGood DEF done
<1>5. CASE done = Ended(h(l, qtype), t, qtype, flags.refresh)
  <2>1. Good(h(l, qtype), s) /\ FoundKeyed(h(l, qtype), s)
    BY <1>1, HitByIndexGood
  <2> DEFINE m == h(l, qtype)
  <2>2. Good(m, s) /\ FoundKeyed(m, s) /\ done = Ended(m, t, qtype, flags.refresh)
    BY <1>5, <2>1
  <2> HIDE DEF m
  <2> QED
    BY <2>2, EndedGood DEF done
<1> QED
  BY <1>2, <1>3, <1>4, <1>5

-----------------------------------------------------------------------------
(* The negative cache *)

NegSound(s) ==
  /\ s \in [map : {s.map}, lru : {s.lru}]
  /\ Entries(s.map, DenialType)
  /\ Lists(s.lru, DOMAIN s.map)

LEMMA NegMovedSound ==
  ASSUME NEW s, NegSound(s), NEW k \in DOMAIN s.map
  PROVE  /\ NegSound(ToFront(s, k)) /\ ToFront(s, k).map = s.map
         /\ NegSound(ToBack(s, k)) /\ ToBack(s, k).map = s.map
<1> DEFINE x == ToFront(s, k)
           y == ToBack(s, k)
<1>1. /\ x \in [map : {x.map}, lru : {x.lru}] /\ x.map = s.map
      /\ x.lru = <<k>> \o Unlisted(s.lru, {k})
  BY DEF NegSound, ToFront
<1>2. /\ y \in [map : {y.map}, lru : {y.lru}] /\ y.map = s.map
      /\ y.lru = Append(Unlisted(s.lru, {k}), k)
  BY DEF NegSound, ToBack
<1> HIDE DEF x, y
<1>3. Lists(s.lru, DOMAIN s.map)
  BY DEF NegSound
<1>4. Lists(x.lru, DOMAIN s.map \cup {k})
  BY <1>1, <1>3, FirstLists
<1>5. Lists(y.lru, DOMAIN s.map \cup {k})
  BY <1>2, <1>3, LastLists
<1>6. DOMAIN s.map \cup {k} = DOMAIN s.map
  OBVIOUS
<1>7. NegSound(x) /\ NegSound(y)
  BY <1>1, <1>2, <1>4, <1>5, <1>6 DEF NegSound
<1> QED
  BY <1>1, <1>2, <1>7 DEF x, y

LEMMA NegErasedSound ==
  ASSUME NEW s, NegSound(s), NEW ks
  PROVE  /\ NegSound(Without(s, ks)) /\ DOMAIN Without(s, ks).map = DOMAIN s.map \ ks
<1> DEFINE x == Without(s, ks)
<1>1. /\ x \in [map : {x.map}, lru : {x.lru}] /\ x.map = [y \in DOMAIN s.map \ ks |-> s.map[y]]
      /\ x.lru = Unlisted(s.lru, ks)
  BY DEF NegSound, Without
<1> HIDE DEF x
<1>2. DOMAIN x.map = DOMAIN s.map \ ks /\ \A y \in DOMAIN x.map : x.map[y] = s.map[y]
  BY <1>1
<1>3. Entries(x.map, DenialType)
  BY <1>1, <1>2 DEF NegSound, Entries
<1>4. Lists(x.lru, DOMAIN x.map)
  BY <1>1, <1>2, UnlistedLists DEF NegSound
<1> QED
  BY <1>1, <1>2, <1>3, <1>4 DEF NegSound, x

LEMMA NegStoredSound ==
  ASSUME NEW s, NegSound(s), NEW k, NEW e \in DenialType, Bounded(e)
  PROVE  /\ NegSound(Put(s, k, e)) /\ DOMAIN Put(s, k, e).map = DOMAIN s.map \cup {k}
<1> DEFINE x == Put(s, k, e)
<1>1. /\ x \in [map : {x.map}, lru : {x.lru}]
      /\ x.map = [y \in DOMAIN s.map \cup {k} |-> IF y = k THEN e ELSE s.map[y]]
      /\ x.lru = Append(Unlisted(s.lru, {k}), k)
  <2> DEFINE b == ToBack(s, k)
  <2>1. /\ b \in [map : {b.map}, lru : {b.lru}] /\ b.map = s.map
        /\ b.lru = Append(Unlisted(s.lru, {k}), k)
    BY DEF NegSound, ToBack
  <2>2. x = [b EXCEPT !.map = [y \in DOMAIN b.map \cup {k} |-> IF y = k THEN e ELSE b.map[y]]]
    BY DEF Put
  <2> HIDE DEF b, x
  <2> QED
    BY <2>1, <2>2
<1> HIDE DEF x
<1>2. /\ DOMAIN x.map = DOMAIN s.map \cup {k} /\ x.map[k] = e
      /\ \A y \in DOMAIN s.map : y # k => x.map[y] = s.map[y]
  BY <1>1
<1>3. Entries(x.map, DenialType)
  BY <1>1, <1>2 DEF NegSound, Entries
<1>4. Lists(x.lru, DOMAIN x.map)
  BY <1>1, <1>2, LastLists DEF NegSound
<1> QED
  BY <1>1, <1>2, <1>3, <1>4 DEF NegSound, x

LEMMA NegChangedSound ==
  ASSUME NEW s, NegSound(s), NEW k \in DOMAIN s.map, NEW f \in DenialType, Bounded(f),
         NEW x, x \in [map : {x.map}, lru : {x.lru}], x.map = [s.map EXCEPT ![k] = f],
         x.lru = s.lru
  PROVE  NegSound(x) /\ DOMAIN x.map = DOMAIN s.map
<1>1. DOMAIN x.map = DOMAIN s.map
      /\ \A y \in DOMAIN s.map : x.map[y] = IF y = k THEN f ELSE s.map[y]
  BY DEF NegSound, Entries
<1>2. Entries(x.map, DenialType)
  BY <1>1 DEF NegSound, Entries
<1> QED
  BY <1>1, <1>2 DEF NegSound

LEMMA NegTyped ==
  ASSUME NEW s, NegSound(s), NEW k \in DOMAIN s.map
  PROVE  s.map[k] \in DenialType /\ Bounded(s.map[k]) /\ Timed(s.map[k])
  BY DEF NegSound, Entries, DenialType, Timed

NegLookFields(l) ==
  l \in [shard : {l.shard}, pushed : SUBSET Asking, key : {l.key}, denies : {l.denies},
         over : {l.over}]

\* A lookup, on its way, that started with the shard s.
NegGood(l, s) ==
  NegLookFields(l) /\ NegSound(l.shard) /\ DOMAIN l.shard.map = DOMAIN s.map

NegCallable(s, t) ==
  /\ NegSound(s) /\ DOMAIN s.map \subseteq NegKeys
  /\ setup.extensions \in Nat /\ t \in Int

LEMMA NegBookkeptGood ==
  ASSUME NEW s, NEW t, NegCallable(s, t), NEW l, NegGood(l, s), NEW k \in DOMAIN s.map,
         NEW qtype \in Types \cup {"ANY", "ENT"}, NEW serveStale
  PROVE  NegGood(NegBookkept(l, k, t, qtype, serveStale), s)
<1> DEFINE e == l.shard.map[k]
           p == Smaller(e.orig, Period)
           f == Extended(e, t, t + p)
           b == NegBookkept(l, k, t, qtype, serveStale)
           task == [name |-> k.name, type |-> TaskType(qtype)]
<1>1. k \in DOMAIN l.shard.map /\ k \in NegKeys
  BY DEF NegGood, NegCallable
<1>2. e \in DenialType /\ Bounded(e) /\ Timed(e)
  BY <1>1, NegTyped DEF NegGood
<1>3. CASE ~NeedsExtension(e, t, serveStale)
  BY <1>3 DEF NegBookkept
<1>4. CASE NeedsExtension(e, t, serveStale)
  <2>1. e.ttd <= t /\ e.servedStale < setup.extensions /\ t \in Int
    BY <1>4 DEF NeedsExtension, NegCallable
  <2>2. p \in Nat /\ p <= Larger(1, p)
    BY <1>2, ShardedCacheAssumption DEF Timed, Larger, Smaller
  <2>3. /\ f.ttd = t + p /\ f.servedStale = ServedStale(e, t)
        /\ f.died = IF e.died = Never THEN e.ttd ELSE e.died
        /\ f.orig = e.orig /\ f.root = e.root /\ f.bogus = e.bogus
        /\ f = [ttd |-> f.ttd, orig |-> f.orig, servedStale |-> f.servedStale,
                root |-> f.root, bogus |-> f.bogus, died |-> f.died]
    <3> HIDE DEF e, p
    <3>1. e \in [ttd : Int, orig : Nat, servedStale : Nat, root : BOOLEAN, bogus : BOOLEAN,
                 died : Int]
      BY <1>2 DEF DenialType
    <3>2. PICK died : died = IF e.died = Never THEN e.ttd ELSE e.died
      OBVIOUS
    <3>3. f = [e EXCEPT !.servedStale = ServedStale(e, t), !.ttd = t + p, !.died = died]
      BY <3>2 DEF Extended
    <3> HIDE DEF f
    <3> QED
      BY <3>1, <3>2, <3>3
  <2> HIDE DEF f
  <2>4. f.servedStale \in Nat /\ f.died \in Int /\ Bounded(f)
    <3>1. /\ f.ttd = t + p /\ t + p \in Int /\ setup.extensions \in Nat
          /\ t + p <= t + Larger(1, p)
      BY <2>1, <2>2, <2>3 DEF NegCallable, Larger
    <3> QED
      BY <1>2, <2>1, <2>3, <3>1, ExtensionBounded
  <2>5. f \in DenialType
    <3> HIDE DEF e, p
    <3> QED
      BY <1>2, <2>1, <2>2, <2>3, <2>4 DEF DenialType
  <2>6. task \in Asking
    BY <1>1, RecCacheAssumption DEF NegKeys, TaskType, Asking
  <2>7. b = [l EXCEPT !.shard.map[k] = f, !.pushed = @ \cup {task}]
    BY <1>4 DEF NegBookkept, f
  <2> DEFINE x == b.shard
  <2>8. /\ NegLookFields(b) /\ x \in [map : {x.map}, lru : {x.lru}]
        /\ x.map = [l.shard.map EXCEPT ![k] = f] /\ x.lru = l.shard.lru
    <3> HIDE DEF b, e, task
    <3>1. NegLookFields(l) /\ l.shard \in [map : {l.shard.map}, lru : {l.shard.lru}]
      BY DEF NegGood, NegSound
    <3>2. PICK pushed \in SUBSET Asking : pushed = l.pushed \cup {task}
      BY <2>6, <3>1 DEF NegLookFields
    <3>3. b = [l EXCEPT !.shard.map[k] = f, !.pushed = pushed]
      BY <2>7, <3>1, <3>2 DEF NegLookFields
    <3> QED
      BY <3>1, <3>3 DEF NegLookFields
  <2> HIDE DEF x
  <2>9. NegSound(x) /\ DOMAIN x.map = DOMAIN s.map
    BY <1>1, <2>4, <2>5, <2>8, NegChangedSound DEF NegGood
  <2> HIDE DEF b
  <2> QED
    BY <2>8, <2>9 DEF NegGood, x, b
<1> QED
  BY <1>3, <1>4

LEMMA NegVisitGood ==
  ASSUME NEW s, NEW t, NegCallable(s, t), NEW l, NegGood(l, s), NEW k \in DOMAIN s.map,
         NEW qtype \in Types \cup {"ANY", "ENT"}, NEW typeMustMatch, NEW serveStale, NEW refresh
  PROVE  NegGood(NegVisit(l, k, t, qtype, typeMustMatch, serveStale, refresh), s)
<1> DEFINE b == NegBookkept(l, k, t, qtype, serveStale)
           e == b.shard.map[k]
           v == NegVisit(l, k, t, qtype, typeMustMatch, serveStale, refresh)
<1>1. NegGood(b, s)
  BY NegBookkeptGood
<1> HIDE DEF b
<1>2. CASE v = l
  BY <1>2
<1>3. CASE v = [l EXCEPT !.shard = ToFront(@, k)]
  <2> DEFINE x == ToFront(l.shard, k)
  <2>1. NegSound(x) /\ x.map = l.shard.map
    BY NegMovedSound DEF NegGood
  <2> HIDE DEF v
  <2>2. NegLookFields(v) /\ v.shard = x
    BY <1>3 DEF NegGood, NegLookFields
  <2> HIDE DEF x
  <2>3. NegGood(v, s)
    BY <2>1, <2>2 DEF NegGood
  <2> QED
    BY <2>3 DEF v
<1>4. CASE v = b
  BY <1>1, <1>4
<1>5. CASE v = [b EXCEPT !.shard = ToBack(@, k), !.over = TRUE, !.key = k,
                         !.denies = ~(refresh /\ e.servedStale > 0)]
  <2> DEFINE x == ToBack(b.shard, k)
  <2>1. NegSound(x) /\ x.map = b.shard.map
    BY <1>1, NegMovedSound DEF NegGood
  <2>2. PICK denies : denies = ~(refresh /\ e.servedStale > 0)
    OBVIOUS
  <2> HIDE DEF v
  <2>3. v = [b EXCEPT !.shard = ToBack(@, k), !.over = TRUE, !.key = k, !.denies = denies]
    BY <1>5, <2>2
  <2>4. NegLookFields(v) /\ v.shard = x
    BY <1>1, <2>3 DEF NegGood, NegLookFields
  <2> HIDE DEF x
  <2>5. NegGood(v, s)
    BY <1>1, <2>1, <2>4 DEF NegGood
  <2> QED
    BY <2>5 DEF v
<1>6. \/ v = l \/ v = [l EXCEPT !.shard = ToFront(@, k)] \/ v = b
      \/ v = [b EXCEPT !.shard = ToBack(@, k), !.over = TRUE, !.key = k,
                       !.denies = ~(refresh /\ e.servedStale > 0)]
  BY Zenon DEF NegVisit, b
<1> QED
  BY <1>2, <1>3, <1>4, <1>5, <1>6

\* The function in NegLookedUp, up to m; first is the lookup before it.
NegVisits(visited, first, t, qtype, typeMustMatch, serveStale, refresh, order, m) ==
  visited = [n \in 0 .. m |->
               IF n = 0 THEN first
               ELSE NegVisit(visited[n - 1], order[n], t, qtype, typeMustMatch, serveStale,
                             refresh)]

LEMMA NegVisitsExists ==
  ASSUME NEW first, NEW t, NEW qtype, NEW typeMustMatch, NEW serveStale, NEW refresh,
         NEW order, NEW m \in Nat
  PROVE  \E visited :
           NegVisits(visited, first, t, qtype, typeMustMatch, serveStale, refresh, order, m)
<1> DEFINE Is(f, n) == NegVisits(f, first, t, qtype, typeMustMatch, serveStale, refresh, order,
                                 n)
           Next1(x, n) == NegVisit(x, order[n], t, qtype, typeMustMatch, serveStale, refresh)
           T == {n \in 0 .. m : \E f : Is(f, n)}
<1>1. 0 \in T
  <2>1. Is([n \in 0 .. 0 |-> first], 0)
    BY DEF NegVisits
  <2> QED
    BY <2>1
<1>2. ASSUME NEW n \in 1 .. m, n - 1 \in T PROVE n \in T
  <2>1. PICK f : Is(f, n - 1)
    BY <1>2
  <2> DEFINE g == [i \in 0 .. n |-> IF i < n THEN f[i] ELSE Next1(f[n - 1], n)]
  <2>2. ASSUME NEW i \in 0 .. n
        PROVE  g[i] = IF i = 0 THEN first ELSE Next1(g[i - 1], i)
    <3>1. CASE i = n
      BY <3>1
    <3>2. CASE i < n
      <4>1. i \in 0 .. n - 1 /\ g[i] = f[i] /\ (i # 0 => g[i - 1] = f[i - 1])
        BY <3>2
      <4>2. f[i] = IF i = 0 THEN first ELSE Next1(f[i - 1], i)
        BY <2>1, <4>1 DEF NegVisits
      <4> QED
        BY <4>1, <4>2
    <3> QED
      BY <3>1, <3>2
  <2>3. Is(g, n)
    BY <2>2 DEF NegVisits
  <2> HIDE DEF g
  <2> QED
    BY <2>3
<1> QED
  <2> HIDE DEF T
  <2>1. \A n \in 0 .. m : n \in T
    BY <1>1, <1>2, Induction
  <2> QED
    BY <2>1 DEF T

LEMMA NegLookedUpGood ==
  ASSUME NEW t, NEW name, NEW s, s = NegShard(name), NegCallable(s, t),
         NEW qtype \in Types \cup {"ANY", "ENT"}, NEW typeMustMatch, NEW serveStale, NEW refresh,
         NEW order, Orders(order, DOMAIN s.map)
  PROVE  NegGood(NegLookedUp(t, name, qtype, typeMustMatch, serveStale, refresh, order), s)
<1> DEFINE first == [shard |-> NegShard(name), pushed |-> {}, key |-> NoEntry,
                     denies |-> FALSE, over |-> FALSE]
           visited == CHOOSE f : NegVisits(f, first, t, qtype, typeMustMatch, serveStale,
                                           refresh, order, Len(order))
<1>1. Len(order) \in Nat
  BY DEF Orders
<1>2. NegVisits(visited, first, t, qtype, typeMustMatch, serveStale, refresh, order, Len(order))
  <2> HIDE DEF first
  <2> QED
    BY <1>1, NegVisitsExists
<1>3. NegLookedUp(t, name, qtype, typeMustMatch, serveStale, refresh, order)
        = visited[Len(order)]
  BY Zenon DEF NegLookedUp, NegVisits
<1> HIDE DEF visited, first
<1>4. \A n \in 0 .. Len(order) :
        visited[n] = IF n = 0 THEN first
                     ELSE NegVisit(visited[n - 1], order[n], t, qtype, typeMustMatch,
                                   serveStale, refresh)
  BY <1>2, Zenon DEF NegVisits
<1> DEFINE T == {n \in 0 .. Len(order) : NegGood(visited[n], s)}
<1>5. 0 \in T
  <2>1. NegGood(first, s)
    BY DEF first, NegGood, NegLookFields, NegCallable
  <2>2. 0 \in 0 .. Len(order)
    BY <1>1
  <2>3. visited[0] = first
    BY <1>4, <2>2
  <2> QED
    BY <2>1, <2>2, <2>3
<1>6. ASSUME NEW n \in 1 .. Len(order), n - 1 \in T PROVE n \in T
  <2>1. n \in 0 .. Len(order) /\ n # 0 /\ order[n] \in DOMAIN s.map /\ NegGood(visited[n - 1], s)
    BY <1>1, <1>6 DEF Orders
  <2>2. visited[n] = NegVisit(visited[n - 1], order[n], t, qtype, typeMustMatch, serveStale,
                              refresh)
    BY <1>4, <2>1
  <2>3. NegGood(visited[n], s)
    BY <2>1, <2>2, NegVisitGood
  <2> QED
    BY <2>1, <2>3
<1>7. NegGood(visited[Len(order)], s)
  <2>1. Len(order) \in T
    <3> HIDE DEF T
    <3>1. \A n \in 0 .. Len(order) : n \in T
      BY <1>1, <1>5, <1>6, Induction
    <3> QED
      BY <1>1, <3>1
  <2> QED
    BY <2>1
<1> QED
  BY <1>3, <1>7

-----------------------------------------------------------------------------
(* The inductive invariant *)

Hashed(map, keys, i) == \A k \in DOMAIN map : k \in keys /\ ShardOf[k.name] = i

RecPart ==
  /\ DOMAIN rec = Shards
  /\ \A i \in Shards : RecSound(rec[i]) /\ Hashed(rec[i].map, Keys, i)

NegPart ==
  /\ DOMAIN neg = Shards
  /\ \A i \in Shards : NegSound(neg[i]) /\ Hashed(neg[i].map, NegKeys, i)

Placed(p) ==
  /\ p \in [pc : {p.pc}, name : {p.name}, type : {p.type}, mode : {p.mode},
            above : {p.above}, client : {p.client}, denial : {p.denial}]
  /\ p.pc # "idle" => p.name \in Names /\ p.type \in Types \cup {"ANY"} /\ p.client \in Clients
  /\ p.above \in Seq(Names)
  /\ p.denial \in DenialType /\ p.denial.died = Never

AtPart == DOMAIN at = Resolvers /\ \A r \in Resolvers : Placed(at[r])

Rest ==
  /\ now \in 0 .. MaxNow /\ setup \in Setups
  /\ tasks \subseteq Asking
  /\ recovered \subseteq [name : Names, type : Types]

IInv == Rest /\ RecPart /\ NegPart /\ AtPart /\ RecoveredServed

\* What a change to an entry of the record cache may not do, see AuthProtected.
Guarded(k, e, f) ==
  /\ (e.auth /\ e.ttd - Margin > now) => f.auth
  /\ (e.auth /\ f.auth /\ k.type = "NS" /\ k.name # Root)
       => (f.ttd <= e.ttd \/ f.servedStale > e.servedStale)

Guards(m, n) == \A k \in DOMAIN m \cap DOMAIN n : Guarded(k, m[k], n[k])

Protects == \A i \in Shards : Guards(rec[i].map, rec'[i].map)

\* Every step but the clock's changes at most one shard of each cache.
RecMove(i, x) ==
  /\ i \in Shards /\ RecSound(x) /\ Hashed(x.map, Keys, i)
  /\ Guards(rec[i].map, x.map)
  /\ rec' = [rec EXCEPT ![i] = x]
RecMoves == \E i, x : RecMove(i, x)
RecSame == DOMAIN rec' = DOMAIN rec /\ \A i \in Shards : rec'[i] = rec[i]

NegMove(i, x) ==
  /\ i \in Shards /\ NegSound(x) /\ Hashed(x.map, NegKeys, i)
  /\ neg' = [neg EXCEPT ![i] = x]
NegMoves == \E i, x : NegMove(i, x)
NegSame == DOMAIN neg' = DOMAIN neg /\ \A i \in Shards : neg'[i] = neg[i]

LEMMA SetupTyped ==
  ASSUME Rest
  PROVE  /\ setup.extensions \in Nat /\ setup.lag \in Nat /\ setup.until \in 0 .. MaxNow
         /\ setup.keys \subseteq Keys /\ setup.questions \subseteq [name : Names, type : Types]
         /\ setup.answers \subseteq [ttl : Nat, auth : BOOLEAN, state : States,
                                     refresh : BOOLEAN, tooBig : BOOLEAN]
         /\ setup.ttls \subseteq Nat /\ setup.roots \subseteq BOOLEAN
         /\ setup.qtypes \subseteq Types \cup {"ANY", "ADDR"}
         /\ setup.clients \subseteq Clients /\ setup.resolvers \subseteq Resolvers
         /\ now \in Nat /\ Clocks \subseteq Nat /\ \A t \in Clocks : t <= now
  BY SetupsAssumption, ShardedCacheAssumption DEF Rest, Clocks

LEMMA ShardIs ==
  ASSUME NEW name \in Names PROVE ShardOf[name] \in Shards
  BY ShardedCacheAssumption DEF Shards

LEMMA UntouchedGuards ==
  ASSUME RecPart, NEW i \in Shards PROVE Guards(rec[i].map, rec[i].map)
<1>1. \A k \in DOMAIN rec[i].map : rec[i].map[k] \in EntryType
  BY KeptTypes DEF RecPart
<1> QED
  BY <1>1 DEF Guards, Guarded, EntryType

LEMMA AfterGuards ==
  ASSUME NEW s, NEW x, RecSound(s), RecSound(x), After(s, x), NEW i, Hashed(s.map, Keys, i)
  PROVE  Guards(s.map, x.map) /\ Hashed(x.map, Keys, i)
  BY DEF After, Guards, Guarded, Kept, Hashed

\* What is sound stays so while the clock and the setup do.
LEMMA RecMoved ==
  ASSUME Rest, RecPart, UNCHANGED <<now, setup>>, RecSame \/ RecMoves
  PROVE  RecPart' /\ Protects
<1>1. CASE RecSame
  <2>1. Protects
    BY <1>1, UntouchedGuards DEF Protects, RecSame
  <2>2. ASSUME NEW j \in Shards PROVE RecSound(rec[j])' /\ Hashed(rec[j].map, Keys, j)'
    <3>1. PICK y : y = rec'[j]
      OBVIOUS
    <3>2. RecSound(y) /\ Hashed(y.map, Keys, j)
      BY <1>1, <3>1 DEF RecSame, RecPart
    <3> QED
      BY <3>1, <3>2 DEF RecSound, RecFields, Entries, Bounded, Indexes, Settled, Group, Hashed
  <2>3. RecPart'
    BY <1>1, <2>2 DEF RecPart, RecSame
  <2> QED
    BY <2>1, <2>3
<1>2. CASE RecMoves
  <2>1. PICK i, x : RecMove(i, x)
    BY <1>2 DEF RecMoves
  <2>2. DOMAIN rec' = Shards /\ \A j \in Shards : rec'[j] = IF j = i THEN x ELSE rec[j]
    BY <2>1 DEF RecMove, RecPart
  <2>3. Protects
    BY <2>1, <2>2, UntouchedGuards DEF Protects, RecMove
  <2>4. ASSUME NEW j \in Shards PROVE RecSound(rec[j])' /\ Hashed(rec[j].map, Keys, j)'
    <3>1. PICK y : y = rec'[j]
      OBVIOUS
    <3>2. RecSound(y) /\ Hashed(y.map, Keys, j)
      BY <2>1, <2>2, <3>1 DEF RecMove, RecPart
    <3> QED
      BY <3>1, <3>2 DEF RecSound, RecFields, Entries, Bounded, Indexes, Settled, Group, Hashed
  <2> QED
    BY <2>2, <2>3, <2>4 DEF RecPart
<1> QED
  BY <1>1, <1>2

LEMMA NegMoved ==
  ASSUME NegPart, setup' = setup, NegSame \/ NegMoves
  PROVE  NegPart'
<1>1. CASE NegSame
  <2>1. ASSUME NEW j \in Shards PROVE NegSound(neg[j])' /\ Hashed(neg[j].map, NegKeys, j)'
    <3>1. PICK y : y = neg'[j]
      OBVIOUS
    <3>2. NegSound(y) /\ Hashed(y.map, NegKeys, j)
      BY <1>1, <3>1 DEF NegSame, NegPart
    <3> QED
      BY <3>1, <3>2 DEF NegSound, Entries, Bounded, Hashed
  <2> QED
    BY <1>1, <2>1 DEF NegPart, NegSame
<1>2. CASE NegMoves
  <2>1. PICK i, x : NegMove(i, x)
    BY <1>2 DEF NegMoves
  <2>2. DOMAIN neg' = Shards /\ \A j \in Shards : neg'[j] = IF j = i THEN x ELSE neg[j]
    BY <2>1 DEF NegMove, NegPart
  <2>3. ASSUME NEW j \in Shards PROVE NegSound(neg[j])' /\ Hashed(neg[j].map, NegKeys, j)'
    <3>1. PICK y : y = neg'[j]
      OBVIOUS
    <3>2. NegSound(y) /\ Hashed(y.map, NegKeys, j)
      BY <2>1, <2>2, <3>1 DEF NegMove, NegPart
    <3> QED
      BY <3>1, <3>2 DEF NegSound, Entries, Bounded, Hashed
  <2> QED
    BY <2>2, <2>3 DEF NegPart
<1> QED
  BY <1>1, <1>2

-----------------------------------------------------------------------------
(* The operations of the record cache *)

LEMMA ShardCallable ==
  ASSUME Rest, RecPart, NEW name \in Names, NEW t \in Clocks
  PROVE  Callable(ShardWith(name), t) /\ Hashed(ShardWith(name).map, Keys, ShardOf[name])
  BY SetupTyped, ShardIs DEF RecPart, Callable, Hashed, ShardWith

LEMMA GetMoves ==
  ASSUME Rest, RecPart, NEW name \in Names, NEW t \in Clocks, NEW qtype \in QTypes,
         NEW flags, flags.serveStale \in BOOLEAN, NEW client \in Clients, NEW tag, NEW full,
         NEW S, S \subseteq DOMAIN ShardWith(name).map, NEW order \in SetToSeqs(S),
         Get(name, LookedUp(t, name, qtype, flags, client, tag, full, order))
  PROVE  RecMoves /\ tasks' \subseteq Asking
<1> DEFINE s == ShardWith(name)
           l == LookedUp(t, name, qtype, flags, client, tag, full, order)
<1>1. Callable(s, t) /\ Hashed(s.map, Keys, ShardOf[name]) /\ ShardOf[name] \in Shards
  BY ShardCallable, ShardIs
<1>2. Orders(order, DOMAIN s.map)
  BY <1>1, OrdersOf DEF Callable, RecSound
<1>3. Good(l, s)
  BY <1>1, <1>2, LookedUpGood
<1>4. rec' = [rec EXCEPT ![ShardOf[name]] = l.shard] /\ tasks' = tasks \cup l.pushed
  BY DEF Get, SetShard
<1>5. s = rec[ShardOf[name]]
  BY DEF ShardWith
<1> HIDE DEF s, l
<1>6. Guards(s.map, l.shard.map) /\ Hashed(l.shard.map, Keys, ShardOf[name])
  BY <1>1, <1>3, AfterGuards DEF Good, Callable
<1>7. RecMove(ShardOf[name], l.shard)
  BY <1>1, <1>3, <1>4, <1>5, <1>6 DEF RecMove, Good
<1> QED
  BY <1>3, <1>4, <1>7 DEF RecMoves, Good, LookFields, Rest

LEMMA EntryTyped ==
  ASSUME NEW ttd \in Int, NEW t \in Int, NEW answer,
         answer \in [ttl : Nat, auth : BOOLEAN, state : States, refresh : BOOLEAN,
                     tooBig : BOOLEAN]
  PROVE  LET e == Entry(ttd, t, answer)
         IN  e \in EntryType /\ Bounded(e) /\ e.ttd = ttd /\ e.auth = answer.auth
<1> DEFINE e == Entry(ttd, t, answer)
<1>1. MinTTLed(ttd - t) \in Nat
  BY RecCacheAssumption DEF MinTTLed
<1>2. e \in EntryType /\ e.died = Never /\ e.ttd = ttd /\ e.auth = answer.auth
  BY <1>1 DEF Entry, EntryType, Never
<1> QED
  BY <1>2 DEF Bounded

LEMMA IndexedFields ==
  ASSUME NEW s, RecSound(s), NEW k, NEW t
  PROVE  LET x == Indexed(s, k, t)
         IN  /\ RecFields(x) /\ x.map = s.map /\ x.lru = s.lru /\ x.range = s.range
             /\ x.index = IF k.mask # NoMask /\ (k \in DOMAIN s.map => s.map[k].ttd <= t)
                          THEN s.index \cup {k} ELSE s.index
<1> DEFINE x == Indexed(s, k, t)
           c == k.mask # NoMask /\ (k \in DOMAIN s.map => s.map[k].ttd <= t)
<1>1. CASE c
  <2>1. x = [s EXCEPT !.index = @ \cup {k}]
    BY <1>1 DEF Indexed
  <2> HIDE DEF x
  <2>2. /\ RecFields(x) /\ x.map = s.map /\ x.lru = s.lru /\ x.range = s.range
        /\ x.index = s.index \cup {k}
    BY <2>1 DEF RecSound, RecFields
  <2> QED
    BY <1>1, <2>2 DEF x
<1>2. CASE ~c
  BY <1>2 DEF Indexed, RecSound
<1> QED
  BY <1>1, <1>2

LEMMA PutFields ==
  ASSUME NEW s, RecFields(s), NEW k, NEW e
  PROVE  /\ RecFields(Put(s, k, e)) /\ Put(s, k, e).index = s.index
         /\ Put(s, k, e).range = s.range /\ Put(s, k, e).map = PutMap(s.map, k, e)
         /\ Put(s, k, e).lru = PutLast(s.lru, k)
<1> DEFINE b == ToBack(s, k)
           x == Put(s, k, e)
<1>1. /\ RecFields(b) /\ b.map = s.map /\ b.index = s.index /\ b.range = s.range
      /\ b.lru = PutLast(s.lru, k)
  BY DEF RecFields, ToBack, PutLast
<1>2. x = [b EXCEPT !.map = PutMap(b.map, k, e)]
  BY DEF Put, PutMap
<1> HIDE DEF b, x
<1>3. /\ RecFields(x) /\ x.index = b.index /\ x.range = b.range /\ x.lru = b.lru
      /\ x.map = PutMap(b.map, k, e)
  BY <1>1, <1>2 DEF RecFields
<1> QED
  BY <1>1, <1>3 DEF x

\* A better entry in the shard w, which is v but for the index.
LEMMA PutMoves ==
  ASSUME RecPart, NEW i \in Shards, NEW k \in Keys, ShardOf[k.name] = i,
         NEW v, RecSound(v), ~v.range.valid, v.map = rec[i].map,
         NEW w, RecFields(w), w.map = v.map, w.lru = v.lru, w.range = v.range,
         v.index \subseteq w.index, w.index \subseteq v.index \cup {k},
         Settled /\ k.mask # NoMask => k \in w.index,
         NEW e \in EntryType, Bounded(e),
         k \in DOMAIN rec[i].map => Guarded(k, rec[i].map[k], e),
         NEW x, x = Put(w, k, e), rec' = [rec EXCEPT ![i] = x]
  PROVE  RecMove(i, x)
<1>1. /\ RecFields(x) /\ x.index = w.index /\ x.range = w.range
      /\ x.map = PutMap(w.map, k, e)
      /\ x.lru = PutLast(w.lru, k)
  BY PutFields
<1>2. RecSound(x)
  BY <1>1, StoredSound
<1>3. /\ DOMAIN x.map = DOMAIN rec[i].map \cup {k} /\ x.map[k] = e
      /\ \A y \in DOMAIN rec[i].map : y # k => x.map[y] = rec[i].map[y]
  BY <1>1 DEF PutMap
<1>4. Hashed(x.map, Keys, i)
  BY <1>3 DEF Hashed, RecPart
<1>5. Guards(rec[i].map, x.map)
  <2>1. Guards(rec[i].map, rec[i].map)
    BY UntouchedGuards
  <2> QED
    BY <1>3, <2>1 DEF Guards
<1> QED
  BY <1>2, <1>4, <1>5 DEF RecMove

\* What replace leaves, if it does not refuse: what is sound, and a better entry.
LEMMA ReplacedMoves ==
  ASSUME Rest, RecPart, NEW k \in Keys, NEW t \in Clocks, NEW answer \in setup.answers,
         SetShard(ShardOf[k.name], Replaced(k, t, answer))
  PROVE  RecMoves
<1> DEFINE s == ShardWith(k.name)
           v == Invalidated(s)
           w == Indexed(v, k, t)
           x == Replaced(k, t, answer)
           i == ShardOf[k.name]
<1>1. /\ i \in Shards /\ s = rec[i] /\ RecSound(s) /\ Hashed(s.map, Keys, i) /\ k.name \in Names
      /\ rec' = [rec EXCEPT ![i] = x]
  BY ShardIs, ShardCallable DEF Callable, Keys, ShardWith, SetShard
<1>2. /\ t \in Nat /\ t <= now /\ now \in Nat /\ (Settled => t = now)
      /\ answer \in [ttl : Nat, auth : BOOLEAN, state : States, refresh : BOOLEAN,
                     tooBig : BOOLEAN]
  BY SetupTyped DEF Settled, Clocks
<1>3. RecSound(v) /\ ~v.range.valid /\ v.map = s.map /\ v.index = s.index
  BY <1>1, InvalidatedSound
<1> HIDE DEF s, v
<1>4. /\ RecFields(w) /\ w.map = s.map /\ w.lru = v.lru /\ w.range = v.range
      /\ w.index = IF k.mask # NoMask /\ (k \in DOMAIN s.map => s.map[k].ttd <= t)
                   THEN s.index \cup {k} ELSE s.index
  <2>1. /\ RecFields(w) /\ w.map = v.map /\ w.lru = v.lru /\ w.range = v.range
        /\ w.index = IF k.mask # NoMask /\ (k \in DOMAIN v.map => v.map[k].ttd <= t)
                     THEN v.index \cup {k} ELSE v.index
    <3> HIDE DEF i, x
    <3>1. RecSound(v)
      BY <1>3
    <3> QED
      BY <3>1, IndexedFields, Zenon
  <2> HIDE DEF w
  <2> QED
    BY <1>3, <2>1
<1> HIDE DEF w, x
<1>5. /\ s.index \subseteq w.index /\ w.index \subseteq s.index \cup {k}
      /\ (Settled /\ k.mask # NoMask => k \in w.index)
  <2>1. ASSUME Settled, k.mask # NoMask, k \in DOMAIN s.map, ~(s.map[k].ttd <= t)
        PROVE  k \in s.index
    <3>1. s.map[k].ttd \in Int
      BY <1>1, <2>1, KeptTypes DEF Timed
    <3>2. s.map[k].ttd > now
      BY <1>2, <2>1, <3>1
    <3>3. Indexes(s)
      BY <1>1 DEF RecSound
    <3> QED
      BY <2>1, <3>2, <3>3 DEF Indexes
  <2> QED
    BY <1>4, <2>1
<1>6. ASSUME NEW e \in EntryType, Bounded(e), x = Put(w, k, e),
             k \in DOMAIN s.map => Guarded(k, s.map[k], e)
      PROVE  RecMove(i, x)
  <2>1. /\ v.map = rec[i].map /\ w.map = v.map
        /\ v.index \subseteq w.index /\ w.index \subseteq v.index \cup {k}
        /\ k \in DOMAIN rec[i].map => Guarded(k, rec[i].map[k], e)
    BY <1>1, <1>3, <1>4, <1>5, <1>6
  <2> HIDE DEF i
  <2> QED
    BY <1>1, <1>3, <1>4, <1>5, <1>6, <2>1, PutMoves DEF i
<1>7. CASE k \notin DOMAIN s.map
  <2> DEFINE e == Entry(t + answer.ttl, t, answer)
  <2>1. e \in EntryType /\ Bounded(e)
    <3>1. t + answer.ttl \in Int /\ t \in Int
      BY <1>2
    <3> QED
      BY <1>2, <3>1, EntryTyped
  <2>2. x = Put(w, k, e)
    BY <1>4, <1>7 DEF Replaced, x, w, v, s
  <2> QED
    BY <1>6, <1>7, <2>1, <2>2 DEF RecMoves
<1>8. CASE k \in DOMAIN s.map /\ ~ShouldReplace(s.map[k], t, answer)
  <2>1. x = w
    BY <1>4, <1>8 DEF Replaced, x, w, v, s
  <2>2. RecSound(w)
    <3>1. Indexes(w)
      BY <1>1, <1>4, <1>8 DEF RecSound, Indexes
    <3> QED
      BY <1>1, <1>3, <1>4, <3>1 DEF RecSound
  <2>3. Guards(s.map, w.map) /\ Hashed(w.map, Keys, i)
    BY <1>1, <1>4, UntouchedGuards
  <2> QED
    BY <1>1, <2>1, <2>2, <2>3 DEF RecMove, RecMoves
<1>9. CASE k \in DOMAIN s.map /\ ShouldReplace(s.map[k], t, answer)
  <2> DEFINE e == s.map[k]
             ttd == Smaller(MaxTTD(k, e, answer), t + answer.ttl)
             f == Entry(ttd, t, answer)
  <2>1. e.ttd \in Int /\ e.auth \in BOOLEAN
    BY <1>1, <1>9, KeptTypes DEF EntryType
  <2>2. ttd \in Int /\ (e.auth /\ answer.auth /\ k.type = "NS" /\ k.name # Root => ttd <= e.ttd)
    BY <1>2, <2>1, ShardedCacheAssumption DEF Smaller, MaxTTD
  <2> HIDE DEF ttd
  <2>3. f \in EntryType /\ Bounded(f) /\ f.ttd = ttd /\ f.auth = answer.auth
    <3>1. t \in Int
      BY <1>2
    <3> QED
      BY <1>2, <2>2, <3>1, EntryTyped
  <2> HIDE DEF f
  <2>4. Guarded(k, e, f)
    <3>1. e.auth /\ ~answer.auth => e.ttd - Margin <= t
      BY <1>9 DEF ShouldReplace
    <3> QED
      BY <1>2, <2>1, <2>2, <2>3, <3>1, RecCacheAssumption DEF Guarded
  <2>5. x = Put(w, k, f)
    BY <1>4, <1>9 DEF Replaced, x, w, v, s, f, ttd
  <2> QED
    BY <1>6, <2>3, <2>4, <2>5 DEF RecMoves
<1> QED
  BY <1>7, <1>8, <1>9

\* Entries are erased from the shard v, which is that of the cache but for the range.
LEMMA ErasedMoves ==
  ASSUME RecPart, NEW i \in Shards, NEW v, RecSound(v), ~v.range.valid, v.map = rec[i].map,
         NEW ks, NEW x, RecFields(x), x.map = CutMap(v.map, ks), x.lru = Unlisted(v.lru, ks),
         x.index = v.index \ ks, x.range = v.range, rec' = [rec EXCEPT ![i] = x]
  PROVE  RecMove(i, x)
<1>1. RecSound(x)
  BY ErasedSound
<1>2. /\ DOMAIN x.map = DOMAIN rec[i].map \ ks
      /\ \A y \in DOMAIN x.map : x.map[y] = rec[i].map[y]
  BY DEF CutMap
<1>3. Hashed(x.map, Keys, i)
  BY <1>2 DEF Hashed, RecPart
<1>4. Guards(rec[i].map, x.map)
  <2>1. Guards(rec[i].map, rec[i].map)
    BY UntouchedGuards
  <2> QED
    BY <1>2, <2>1 DEF Guards
<1> QED
  BY <1>1, <1>3, <1>4 DEF RecMove

LEMMA RemovedFields ==
  ASSUME NEW v, RecFields(v), NEW ks
  PROVE  /\ RecFields(Removed(v, ks)) /\ Removed(v, ks).map = CutMap(v.map, ks)
         /\ Removed(v, ks).lru = Unlisted(v.lru, ks)
         /\ Removed(v, ks).index = v.index \ ks /\ Removed(v, ks).range = v.range
<1> DEFINE w == Without(v, ks)
           x == Removed(v, ks)
<1>1. /\ RecFields(w) /\ w.map = CutMap(v.map, ks) /\ w.lru = Unlisted(v.lru, ks)
      /\ w.index = v.index /\ w.range = v.range
  BY DEF RecFields, Without, CutMap
<1>2. x = [w EXCEPT !.index = @ \ ks]
  BY DEF Removed
<1> HIDE DEF w, x
<1>3. /\ RecFields(x) /\ x.map = w.map /\ x.lru = w.lru /\ x.index = w.index \ ks
      /\ x.range = w.range
  BY <1>1, <1>2 DEF RecFields
<1> QED
  BY <1>1, <1>3 DEF x

LEMMA RemovedMoves ==
  ASSUME RecPart, NEW i \in Shards, NEW ks,
         rec' = [rec EXCEPT ![i] = Removed(Invalidated(rec[i]), ks)]
  PROVE  RecMoves
<1> DEFINE v == Invalidated(rec[i])
           x == Removed(v, ks)
<1>1. RecSound(v) /\ ~v.range.valid /\ v.map = rec[i].map
  BY InvalidatedSound DEF RecPart
<1>2. rec' = [rec EXCEPT ![i] = x]
  OBVIOUS
<1> HIDE DEF v
<1>3. /\ RecFields(x) /\ x.map = CutMap(v.map, ks) /\ x.lru = Unlisted(v.lru, ks)
      /\ x.index = v.index \ ks /\ x.range = v.range
  BY <1>1, RemovedFields DEF RecSound
<1> HIDE DEF x
<1>4. RecMove(i, x)
  BY <1>1, <1>2, <1>3, ErasedMoves
<1> QED
  BY <1>4 DEF RecMoves

LEMMA ScanRecMoves ==
  ASSUME RecPart, ScanRec PROVE RecSame \/ RecMoves
<1> DEFINE i == recPruner.shard
           ks == Scanned(recPruner, rec[i])
<1>1. rec' = [rec EXCEPT ![i] = Removed(Invalidated(rec[i]), ks)]
  BY DEF ScanRec
<1> HIDE DEF i, ks
<1>2. CASE i \in Shards
  BY <1>1, <1>2, RemovedMoves
<1>3. CASE i \notin Shards
  <2>1. i \notin DOMAIN rec
    BY <1>3 DEF RecPart
  <2> QED
    BY <1>1, <1>3, <2>1 DEF RecSame, RecPart
<1> QED
  BY <1>2, <1>3

LEMMA TrimRecMoves ==
  ASSUME RecPart, TrimRec PROVE RecSame \/ RecMoves
<1> DEFINE i == recPruner.shard
<1>1. PICK n : rec' = [rec EXCEPT ![i] = TrimmedShard(rec[i], n)]
  BY DEF TrimRec
<1> DEFINE ks == Trimmed(rec[i], n)
<1>2. TrimmedShard(rec[i], n) = rec[i]
      \/ TrimmedShard(rec[i], n) = Removed(Invalidated(rec[i]), ks)
  BY DEF TrimmedShard
<1> HIDE DEF i, ks
<1>3. CASE i \notin Shards
  <2>1. i \notin DOMAIN rec
    BY <1>3 DEF RecPart
  <2> QED
    BY <1>1, <1>3, <2>1 DEF RecSame, RecPart
<1>4. CASE i \in Shards /\ TrimmedShard(rec[i], n) = rec[i]
  BY <1>1, <1>4 DEF RecSame, RecPart
<1>5. CASE i \in Shards /\ TrimmedShard(rec[i], n) = Removed(Invalidated(rec[i]), ks)
  BY <1>1, <1>5, RemovedMoves
<1> QED
  BY <1>2, <1>3, <1>4, <1>5

LEMMA WipeRecMoves ==
  ASSUME RecPart, NEW i \in Shards, NEW names, NEW types, WipeRec(i, names, types)
  PROVE  RecMoves
<1> DEFINE v == Invalidated(rec[i])
           ks == {k \in DOMAIN v.map : k.name \in names /\ k.type \in types}
           w == Without(v, ks)
           x == [w EXCEPT !.index = {k \in @ : ~(k.name \in names /\ k.type \in types)}]
<1>1. RecSound(v) /\ ~v.range.valid /\ v.map = rec[i].map
  BY InvalidatedSound DEF RecPart
<1>2. rec' = [rec EXCEPT ![i] = x]
  BY DEF WipeRec, SetShard
<1> HIDE DEF v
<1>3. /\ RecFields(w) /\ w.map = CutMap(v.map, ks) /\ w.lru = Unlisted(v.lru, ks)
      /\ w.index = v.index /\ w.range = v.range
  <2> HIDE DEF ks
  <2> QED
    BY <1>1 DEF RecSound, RecFields, Without, CutMap
<1> HIDE DEF w
<1>4. /\ RecFields(x) /\ x.map = w.map /\ x.lru = w.lru /\ x.range = w.range
      /\ x.index = {k \in w.index : ~(k.name \in names /\ k.type \in types)}
  BY <1>3 DEF RecFields
<1> HIDE DEF x
<1>5. x.index = v.index \ ks
  BY <1>1, <1>3, <1>4 DEF RecSound, Indexes
<1> HIDE DEF ks
<1>6. RecMove(i, x)
  BY <1>1, <1>2, <1>3, <1>4, <1>5, ErasedMoves
<1> QED
  BY <1>6 DEF RecMoves

\* The map with another entry for k.
SetMap(m, k, f) == [m EXCEPT ![k] = f]

\* An entry of v, which is the shard of the cache but for the range or what a lookup did.
LEMMA ChangedMoves ==
  ASSUME RecPart, NEW i \in Shards, NEW v, RecSound(v), After(rec[i], v),
         NEW k \in DOMAIN v.map, NEW f \in EntryType, Bounded(f), Kept(v.map[k], f),
         Settled /\ f.ttd > now => v.map[k].ttd > now,
         NEW x, RecFields(x), x.map = SetMap(v.map, k, f),
         x.lru = v.lru, x.index = v.index, x.range = v.range,
         rec' = [rec EXCEPT ![i] = x]
  PROVE  RecMoves
<1>1. RecSound(x)
  BY ChangedSound DEF SetMap
<1>2. RecSound(rec[i]) /\ Hashed(rec[i].map, Keys, i)
  BY DEF RecPart
<1>3. After(rec[i], x)
  BY <1>2, AfterChange DEF SetMap
<1>4. RecMove(i, x)
  BY <1>1, <1>2, <1>3, AfterGuards DEF RecMove
<1> QED
  BY <1>4 DEF RecMoves

\* f is the entry e but that it may end earlier.
LEMMA ShorterKept ==
  ASSUME NEW e \in EntryType, Bounded(e), NEW f \in EntryType, f.ttd <= e.ttd,
         f.auth = e.auth, f.servedStale = e.servedStale, f.died = e.died
  PROVE  Kept(e, f) /\ Bounded(f)
<1>1. Kept(e, f)
  BY DEF Kept, EntryType
<1>2. ASSUME e.died # Never, e.servedStale < setup.extensions
      PROVE  f.ttd <= f.died + f.servedStale * (2 * Period - 1)
  <2> DEFINE n == e.died + e.servedStale * (2 * Period - 1)
  <2>1. e.ttd <= n
    BY <1>2 DEF Bounded
  <2>2. n \in Int
    BY ShardedCacheAssumption DEF EntryType
  <2>3. n = f.died + f.servedStale * (2 * Period - 1)
    OBVIOUS
  <2> HIDE DEF n
  <2>4. f.ttd <= n
    BY <2>1, <2>2 DEF EntryType
  <2> QED
    BY <2>3, <2>4
<1> QED
  BY <1>1, <1>2 DEF Bounded

LEMMA AgeRecMoves ==
  ASSUME Rest, RecPart, NEW t \in Clocks, NEW name \in Names, NEW type, AgeRec(t, name, type)
  PROVE  RecMoves
<1> DEFINE i == ShardOf[name]
           v == Invalidated(rec[i])
<1>1. PICK k \in DOMAIN rec[i].map :
        /\ rec[i].map[k].ttd - t > AgedTTL
        /\ rec' = [rec EXCEPT ![i] = [v EXCEPT !.map[k].ttd = t + AgedTTL]]
  BY DEF AgeRec, SetShard, ShardWith
<1>2. i \in Shards /\ t \in Int
  BY ShardIs, SetupTyped
<1>3. RecSound(rec[i]) /\ RecSound(v) /\ v.map = rec[i].map
  BY <1>2, InvalidatedSound DEF RecPart
<1>4. After(rec[i], v)
  BY <1>3, AfterItself DEF After
<1> DEFINE e == v.map[k]
           f == [e EXCEPT !.ttd = t + AgedTTL]
           x == [v EXCEPT !.map[k].ttd = t + AgedTTL]
<1>5. rec' = [rec EXCEPT ![i] = x]
  BY <1>1
<1>6. e \in EntryType /\ Bounded(e) /\ e.ttd - t > AgedTTL /\ k \in DOMAIN v.map
  BY <1>1, <1>3, KeptTypes
<1> HIDE DEF v
<1>7. x = [v EXCEPT !.map[k] = f]
  OBVIOUS
<1> HIDE DEF e
<1>8. /\ f \in EntryType /\ f.ttd <= e.ttd /\ f.auth = e.auth
      /\ f.servedStale = e.servedStale /\ f.died = e.died
  <2>1. PICK ttd \in Int : ttd = t + AgedTTL /\ ttd <= e.ttd
    BY <1>2, <1>6, RecCacheAssumption DEF EntryType
  <2>2. f = [e EXCEPT !.ttd = ttd]
    BY <2>1
  <2>3. f.ttd = ttd
    BY <1>6, <2>2 DEF EntryType
  <2> HIDE DEF f
  <2> QED
    BY <1>6, <2>1, <2>2, <2>3 DEF EntryType
<1> HIDE DEF f, x, i
<1>9. /\ RecFields(x) /\ x.map = SetMap(v.map, k, f) /\ x.lru = v.lru
      /\ x.index = v.index /\ x.range = v.range
  BY <1>3, <1>7 DEF RecSound, RecFields, SetMap
<1>10. Kept(e, f) /\ Bounded(f)
  BY <1>6, <1>8, ShorterKept
<1>11. f.ttd > now => e.ttd > now
  BY <1>6, <1>8, SetupTyped DEF EntryType
<1>12. Kept(v.map[k], f) /\ (f.ttd > now => v.map[k].ttd > now)
  BY <1>10, <1>11 DEF e
<1> QED
  BY <1>2, <1>3, <1>4, <1>5, <1>6, <1>8, <1>9, <1>10, <1>12, ChangedMoves

LEMMA WithStateMoves ==
  ASSUME Rest, RecPart, NEW i \in Shards, NEW v, RecSound(v), After(rec[i], v),
         NEW k \in DOMAIN v.map, NEW t \in Clocks, NEW state \in States,
         rec' = [rec EXCEPT ![i] = WithState(v, k, t, state)]
  PROVE  RecMoves
<1> DEFINE e == v.map[k]
           ttd == IF state = "Bogus" THEN Smaller(e.ttd, t + MaxBogus) ELSE e.ttd
           f == [e EXCEPT !.state = state, !.ttd = ttd]
           x == WithState(v, k, t, state)
<1>1. e \in EntryType /\ Bounded(e)
  BY KeptTypes
<1>2. ttd \in Int /\ ttd <= e.ttd
  <2>1. e.ttd \in Int /\ t \in Int /\ MaxBogus \in Int
    BY <1>1, ShardedCacheAssumption, SetupTyped DEF EntryType
  <2> HIDE DEF e
  <2> QED
    BY <2>1 DEF Smaller
<1>3. x = [v EXCEPT !.map[k] = f]
  <2>1. PICK p : p = ttd
    OBVIOUS
  <2>2. x = [v EXCEPT !.map[k].state = state, !.map[k].ttd = p]
    BY <1>1, <2>1 DEF WithState, RecSound, RecFields, Entries, EntryType
  <2>3. f = [e EXCEPT !.state = state, !.ttd = p]
    BY <2>1
  <2> HIDE DEF x, f, ttd
  <2> QED
    BY <2>2, <2>3 DEF RecSound, RecFields, Entries
<1> HIDE DEF e, ttd
<1>4. /\ f \in EntryType /\ f.ttd <= e.ttd /\ f.auth = e.auth
      /\ f.servedStale = e.servedStale /\ f.died = e.died
  BY <1>1, <1>2 DEF EntryType
<1> HIDE DEF f, x
<1>5. /\ RecFields(x) /\ x.map = SetMap(v.map, k, f) /\ x.lru = v.lru
      /\ x.index = v.index /\ x.range = v.range
  BY <1>3 DEF RecSound, RecFields, SetMap
<1>6. Kept(e, f) /\ Bounded(f)
  BY <1>1, <1>4, ShorterKept
<1>7. f.ttd > now => e.ttd > now
  BY <1>1, <1>4, SetupTyped DEF EntryType
<1>8. rec' = [rec EXCEPT ![i] = x]
  BY DEF x
<1>9. Kept(v.map[k], f) /\ (f.ttd > now => v.map[k].ttd > now)
  BY <1>6, <1>7 DEF e
<1> QED
  BY <1>4, <1>5, <1>6, <1>8, <1>9, ChangedMoves

LEMMA ValidateRecMoves ==
  ASSUME Rest, RecPart, NEW t \in Clocks, NEW name \in Names, NEW type, NEW client \in Clients,
         NEW tag, NEW requireAuth, NEW state \in States,
         ValidateRec(t, name, type, client, tag, requireAuth, state)
  PROVE  RecMoves /\ tasks' \subseteq Asking
<1> DEFINE i == ShardOf[name]
           s == ShardWith(name)
           l == Lookup(s)
           b == ByIndex(l, t, name, type, requireAuth, client, FALSE)
           v == WithEntries(s, name, tag)
<1>1. Callable(s, t) /\ RecSound(s) /\ Hashed(s.map, Keys, i) /\ i \in Shards /\ s = rec[i]
  BY ShardCallable, ShardIs DEF Callable, ShardWith
<1>2. Good(l, s) /\ l.shard = s
  BY <1>1, LookupGood DEF Lookup
<1>3. \/ /\ rec' = [rec EXCEPT ![i] = IF b.key = NoKey THEN b.shard
                                       ELSE WithState(b.shard, b.key, t, state)]
         /\ tasks' = tasks \cup b.pushed
      \/ rec' = [rec EXCEPT ![i] = v] /\ tasks' = tasks
      \/ \E k \in Group(v, name, tag) :
           rec' = [rec EXCEPT ![i] = WithState(v, k, t, state)] /\ tasks' = tasks
  BY <1>2 DEF ValidateRec, SetShard
<1> HIDE DEF l
<1>4. Good(b, s)
  BY <1>1, <1>2, ByIndexGood
<1> HIDE DEF b, s
<1>5. RecSound(v) /\ v.map = s.map /\ After(s, v)
  <2>1. RecSound(v) /\ v.map = s.map
    BY <1>1, RangeSound
  <2> QED
    BY <1>1, <2>1, AfterItself DEF After
<1> HIDE DEF i, v
<1>6. tasks \subseteq Asking
  BY DEF Rest
<1>7. CASE /\ rec' = [rec EXCEPT ![i] = IF b.key = NoKey THEN b.shard
                                         ELSE WithState(b.shard, b.key, t, state)]
           /\ tasks' = tasks \cup b.pushed
  <2>1. tasks' \subseteq Asking
    BY <1>4, <1>6, <1>7 DEF Good, LookFields
  <2>2. CASE b.key = NoKey
    <3>1. Guards(s.map, b.shard.map) /\ Hashed(b.shard.map, Keys, i)
      BY <1>1, <1>4, AfterGuards DEF Good
    <3>2. RecMove(i, b.shard)
      BY <1>1, <1>4, <1>7, <2>2, <3>1 DEF RecMove, Good
    <3> QED
      BY <2>1, <3>2 DEF RecMoves
  <2>3. CASE b.key # NoKey
    <3>1. b.key \in DOMAIN b.shard.map /\ RecSound(b.shard) /\ After(rec[i], b.shard)
      BY <1>1, <1>4, <2>3 DEF Good, After
    <3>2. rec' = [rec EXCEPT ![i] = WithState(b.shard, b.key, t, state)]
      BY <1>7, <2>3
    <3> QED
      BY <1>1, <2>1, <3>1, <3>2, WithStateMoves
  <2> QED
    BY <2>2, <2>3
<1>8. CASE rec' = [rec EXCEPT ![i] = v] /\ tasks' = tasks
  <2>1. Guards(s.map, v.map) /\ Hashed(v.map, Keys, i)
    BY <1>1, <1>5, AfterGuards
  <2>2. RecMove(i, v)
    BY <1>1, <1>5, <1>8, <2>1 DEF RecMove
  <2> QED
    BY <1>6, <1>8, <2>2 DEF RecMoves
<1>9. CASE \E k \in Group(v, name, tag) :
             rec' = [rec EXCEPT ![i] = WithState(v, k, t, state)] /\ tasks' = tasks
  <2>1. PICK k \in DOMAIN v.map :
          rec' = [rec EXCEPT ![i] = WithState(v, k, t, state)] /\ tasks' = tasks
    BY <1>9 DEF Group
  <2> QED
    BY <1>1, <1>5, <1>6, <2>1, WithStateMoves
<1> QED
  BY <1>3, <1>7, <1>8, <1>9

-----------------------------------------------------------------------------
(* The operations of the negative cache *)

NegShrinks == \A j \in Shards : DOMAIN neg'[j].map \subseteq DOMAIN neg[j].map

LEMMA NegShrunk ==
  ASSUME NegPart, NEW i \in Shards, NEW x, NegSound(x),
         DOMAIN x.map \subseteq DOMAIN neg[i].map, neg' = [neg EXCEPT ![i] = x]
  PROVE  NegMoves /\ NegShrinks
<1>1. NegMove(i, x)
  BY DEF NegMove, NegPart, Hashed
<1>2. \A j \in Shards : neg'[j] = IF j = i THEN x ELSE neg[j]
  BY DEF NegPart
<1> QED
  BY <1>1, <1>2 DEF NegMoves, NegShrinks

LEMMA NegSameShrinks ==
  ASSUME NegSame PROVE NegShrinks
  BY DEF NegSame, NegShrinks

LEMMA NegGetMoves ==
  ASSUME Rest, NegPart, NEW name \in Names, NEW t \in Clocks,
         NEW qtype \in Types \cup {"ANY", "ENT"}, NEW typeMustMatch, NEW serveStale, NEW refresh,
         NEW order \in SetToSeqs(NegGroup(name)),
         NegGet(name, NegLookedUp(t, name, qtype, typeMustMatch, serveStale, refresh, order))
  PROVE  NegMoves /\ NegShrinks /\ tasks' \subseteq Asking
<1> DEFINE i == ShardOf[name]
           s == NegShard(name)
           l == NegLookedUp(t, name, qtype, typeMustMatch, serveStale, refresh, order)
<1>1. i \in Shards /\ s = neg[i] /\ NegSound(s) /\ Hashed(s.map, NegKeys, i)
  BY ShardIs DEF NegPart, NegShard
<1>2. NegCallable(s, t)
  BY <1>1, SetupTyped DEF NegCallable, Hashed
<1>3. Orders(order, DOMAIN s.map)
  <2>1. NegGroup(name) \subseteq DOMAIN s.map
    BY DEF NegGroup
  <2> QED
    BY <1>1, <2>1, OrdersOf DEF NegSound
<1>4. NegGood(l, s)
  BY <1>2, <1>3, NegLookedUpGood
<1>5. neg' = [neg EXCEPT ![i] = l.shard] /\ tasks' = tasks \cup l.pushed
  BY DEF NegGet, SetNeg
<1> HIDE DEF l, s, i
<1>6. NegMoves /\ NegShrinks
  BY <1>1, <1>4, <1>5, NegShrunk DEF NegGood
<1> QED
  BY <1>4, <1>5, <1>6 DEF NegGood, NegLookFields, Rest

LEMMA WithoutMoves ==
  ASSUME NegPart, NEW i, NEW ks, neg' = [neg EXCEPT ![i] = Without(neg[i], ks)]
  PROVE  (NegSame \/ NegMoves) /\ NegShrinks
<1>1. CASE i \in Shards
  <2> DEFINE x == Without(neg[i], ks)
  <2>1. NegSound(x) /\ DOMAIN x.map \subseteq DOMAIN neg[i].map
    BY <1>1, NegErasedSound DEF NegPart
  <2>2. neg' = [neg EXCEPT ![i] = x]
    OBVIOUS
  <2> HIDE DEF x
  <2> QED
    BY <1>1, <2>1, <2>2, NegShrunk
<1>2. CASE i \notin Shards
  BY <1>2, NegSameShrinks DEF NegSame, NegPart
<1> QED
  BY <1>1, <1>2

LEMMA WipeTypedMoves ==
  ASSUME NegPart, NEW name \in Names, NEW type, WipeTyped(name, type)
  PROVE  /\ (NegSame \/ NegMoves) /\ NegShrinks
         /\ \A k \in DOMAIN neg'[ShardOf[name]].map :
              ~(k.name = name /\ k.type \in {type, "ENT"})
<1> DEFINE i == ShardOf[name]
           ks == {k \in DOMAIN neg[i].map : k.name = name /\ k.type \in {type, "ENT"}}
<1>1. neg' = [neg EXCEPT ![i] = Without(neg[i], ks)]
  BY DEF WipeTyped, SetNeg, WipedTyped, NegShard
<1>2. DOMAIN neg'[i].map = DOMAIN neg[i].map \ ks
  <2>1. i \in Shards
    BY ShardIs
  <2> HIDE DEF i, ks
  <2>2. neg'[i] = Without(neg[i], ks)
    BY <1>1, <2>1 DEF NegPart
  <2> QED
    BY <2>1, <2>2, NegErasedSound DEF NegPart
<1>3. (NegSame \/ NegMoves) /\ NegShrinks
  <2> HIDE DEF i, ks
  <2> QED
    BY <1>1, WithoutMoves
<1> QED
  BY <1>2, <1>3

LEMMA WipeNegMoves ==
  ASSUME NegPart, NEW i, NEW names, WipeNeg(i, names)
  PROVE  (NegSame \/ NegMoves) /\ NegShrinks
<1> DEFINE ks == {k \in DOMAIN neg[i].map : k.name \in names}
<1>1. neg' = [neg EXCEPT ![i] = Without(neg[i], ks)]
  BY DEF WipeNeg, SetNeg
<1> HIDE DEF ks
<1> QED
  BY <1>1, WithoutMoves

LEMMA ScanNegMoves ==
  ASSUME NegPart, ScanNeg PROVE (NegSame \/ NegMoves) /\ NegShrinks
<1> DEFINE i == negPruner.shard
           ks == Scanned(negPruner, neg[i])
<1>1. neg' = [neg EXCEPT ![i] = Without(neg[i], ks)]
  BY DEF ScanNeg
<1> HIDE DEF i, ks
<1> QED
  BY <1>1, WithoutMoves

LEMMA TrimNegMoves ==
  ASSUME NegPart, TrimNeg PROVE (NegSame \/ NegMoves) /\ NegShrinks
<1> DEFINE i == negPruner.shard
<1>1. PICK n : neg' = [neg EXCEPT ![i] = Without(neg[i], Trimmed(neg[i], n))]
  BY DEF TrimNeg
<1> DEFINE ks == Trimmed(neg[i], n)
<1>2. neg' = [neg EXCEPT ![i] = Without(neg[i], ks)]
  BY <1>1
<1> HIDE DEF i, ks
<1> QED
  BY <1>2, WithoutMoves

LEMMA ClearNegMoves ==
  ASSUME NegPart, NEW i \in Shards, ClearNeg(i) PROVE NegMoves /\ NegShrinks
<1> DEFINE x == [map |-> <<>>, lru |-> <<>>]
<1>1. neg' = [neg EXCEPT ![i] = x]
  BY DEF ClearNeg, SetNeg
<1>2. NegSound(x) /\ DOMAIN x.map = {}
  BY DEF NegSound, Entries, Lists
<1> HIDE DEF x
<1> QED
  BY <1>1, <1>2, NegShrunk

LEMMA DenialTyped ==
  ASSUME NEW t \in Int, NEW ttl \in Nat, NEW root \in BOOLEAN
  PROVE  NegEntry(t, ttl, root) \in DenialType /\ NegEntry(t, ttl, root).died = Never
  BY DEF NegEntry, DenialType, Never

LEMMA NegAddMoves ==
  ASSUME NegPart, NEW k \in NegKeys, NEW e \in DenialType, e.died = Never, NegAdd(k, e)
  PROVE  /\ NegMoves
         /\ \A j \in Shards : \A y \in DOMAIN neg'[j].map : y \in DOMAIN neg[j].map \/ y = k
<1> DEFINE i == ShardOf[k.name]
           s == neg[i]
           x == Put(s, k, e)
<1>1. i \in Shards /\ neg' = [neg EXCEPT ![i] = x]
  BY ShardIs DEF NegKeys, NegAdd, SetNeg, NegShard
<1>2. NegSound(s) /\ Hashed(s.map, NegKeys, i) /\ Bounded(e)
  BY <1>1 DEF NegPart, Bounded
<1> HIDE DEF s
<1>3. NegSound(x) /\ DOMAIN x.map = DOMAIN s.map \cup {k}
  BY <1>2, NegStoredSound
<1> HIDE DEF x
<1>4. Hashed(x.map, NegKeys, i)
  BY <1>2, <1>3 DEF Hashed
<1>5. NegMove(i, x)
  BY <1>1, <1>3, <1>4 DEF NegMove
<1>6. \A j \in Shards : neg'[j] = IF j = i THEN x ELSE neg[j]
  BY <1>1 DEF NegPart
<1> QED
  BY <1>3, <1>5, <1>6 DEF NegMoves, s

LEMMA NegValidateMoves ==
  ASSUME Rest, NegPart, NEW k \in NegKeys, NEW t \in Clocks, NEW bogus \in BOOLEAN,
         NegValidate(k, t, bogus)
  PROVE  NegMoves /\ NegShrinks
<1> DEFINE i == ShardOf[k.name]
           s == neg[i]
           c == IF bogus THEN WithTTD(s, k, t + MaxBogus) ELSE s
           x == [c EXCEPT !.map[k].bogus = bogus]
           e == s.map[k]
           ttd == IF bogus THEN Smaller(e.ttd, t + MaxBogus) ELSE e.ttd
           f == [e EXCEPT !.ttd = ttd, !.bogus = bogus]
<1>1. i \in Shards /\ k \in DOMAIN s.map /\ neg' = [neg EXCEPT ![i] = x]
  BY ShardIs DEF NegKeys, NegValidate, SetNeg, NegShard
<1>2. NegSound(s)
  BY <1>1 DEF NegPart
<1> HIDE DEF s
<1>3. e \in DenialType /\ Bounded(e)
  BY <1>1, <1>2, NegTyped
<1>4. ttd \in Int /\ ttd <= e.ttd
  <2>1. e.ttd \in Int /\ t \in Int /\ MaxBogus \in Int
    BY <1>3, ShardedCacheAssumption, SetupTyped DEF DenialType
  <2> HIDE DEF e
  <2> QED
    BY <2>1 DEF Smaller
<1>5. x = [s EXCEPT !.map[k] = f]
  <2>1. PICK p : p = ttd
    OBVIOUS
  <2>2. s \in [map : {s.map}, lru : {s.lru}] /\ s.map \in [DOMAIN s.map -> DenialType]
    BY <1>2 DEF NegSound, Entries
  <2>3. c = [s EXCEPT !.map[k].ttd = p]
    <3>1. CASE bogus
      BY <2>1, <2>2, <3>1 DEF WithTTD
    <3>2. CASE ~bogus
      BY <1>1, <1>3, <2>1, <2>2, <3>2 DEF DenialType
    <3> QED
      BY <3>1, <3>2
  <2>4. f = [e EXCEPT !.ttd = p, !.bogus = bogus]
    BY <2>1
  <2> HIDE DEF c, f
  <2> QED
    BY <1>1, <1>3, <2>2, <2>3, <2>4 DEF DenialType
<1> HIDE DEF ttd, x
<1>6. f \in DenialType /\ f.ttd <= e.ttd /\ f.servedStale = e.servedStale /\ f.died = e.died
  <2> HIDE DEF e
  <2> QED
    BY <1>3, <1>4 DEF DenialType
<1> HIDE DEF f
<1>7. Bounded(f)
  <2> DEFINE n == e.died + e.servedStale * (2 * Period - 1)
  <2>1. e.died # Never /\ e.servedStale < setup.extensions => e.ttd <= n
    BY <1>3 DEF Bounded
  <2>2. n \in Int
    BY <1>3, ShardedCacheAssumption DEF DenialType
  <2>3. n = f.died + f.servedStale * (2 * Period - 1)
    BY <1>6
  <2> HIDE DEF n, e
  <2>4. e.died # Never /\ e.servedStale < setup.extensions => f.ttd <= n
    BY <1>3, <1>6, <2>1, <2>2 DEF DenialType
  <2> QED
    BY <1>6, <2>3, <2>4 DEF Bounded
<1>8. x \in [map : {x.map}, lru : {x.lru}] /\ x.map = [s.map EXCEPT ![k] = f] /\ x.lru = s.lru
  BY <1>2, <1>5 DEF NegSound
<1>9. NegSound(x) /\ DOMAIN x.map = DOMAIN s.map
  BY <1>1, <1>2, <1>6, <1>7, <1>8, NegChangedSound
<1> QED
  BY <1>1, <1>9, NegShrunk DEF s

-----------------------------------------------------------------------------
(* Resolvers *)

\* Who is about to wipe a denial goes on to do so.
Waiting == \A q \in Resolvers : at[q].pc = "wipeNeg" => at'[q] = at[q]

LEMMA PlacedIdle ==
  Placed(Idle) /\ Idle.pc = "idle"
  BY DEF Placed, Idle, NoDenial, NegEntry, DenialType, Never

LEMMA AtMoved ==
  ASSUME AtPart, NEW r \in Resolvers, NEW p, Placed(p), at' = [at EXCEPT ![r] = p]
  PROVE  /\ AtPart' /\ at'[r] = p /\ \A q \in Resolvers : q # r => at'[q] = at[q]
         /\ at[r].pc # "wipeNeg" => Waiting
<1>1. DOMAIN at' = Resolvers /\ \A q \in Resolvers : at'[q] = IF q = r THEN p ELSE at[q]
  BY DEF AtPart
<1>2. ASSUME NEW q \in Resolvers PROVE Placed(at[q])'
  <2>1. PICK y : y = at'[q]
    OBVIOUS
  <2>2. Placed(y)
    BY <1>1, <2>1 DEF AtPart
  <2> QED
    BY <2>1, <2>2 DEF Placed
<1> QED
  BY <1>1, <1>2 DEF AtPart, Waiting

LEMMA AtGoes ==
  ASSUME AtPart, NEW r \in Resolvers, at[r].pc # "idle", NEW pc, GoTo(r, pc) \/ End(r)
  PROVE  /\ AtPart' /\ \A q \in Resolvers : q # r => at'[q] = at[q]
         /\ at[r].pc # "wipeNeg" => Waiting
         /\ GoTo(r, pc) => /\ at'[r].pc = pc /\ at'[r].name = at[r].name
                           /\ at'[r].type = at[r].type
<1> DEFINE p == [at[r] EXCEPT !.pc = pc]
<1>1. Placed(at[r])
  BY DEF AtPart
<1>2. Placed(p) /\ p.pc = pc /\ p.name = at[r].name /\ p.type = at[r].type
  <2>1. PICK y : y = at[r]
    OBVIOUS
  <2>2. Placed(y) /\ y.pc # "idle"
    BY <1>1, <2>1
  <2> DEFINE z == [y EXCEPT !.pc = pc]
  <2>3. /\ z \in [pc : {z.pc}, name : {z.name}, type : {z.type}, mode : {z.mode},
                  above : {z.above}, client : {z.client}, denial : {z.denial}]
        /\ z.pc = pc /\ z.name = y.name /\ z.type = y.type /\ z.client = y.client
        /\ z.above = y.above /\ z.denial = y.denial
    BY <2>2 DEF Placed
  <2>4. z = p
    BY <2>1
  <2> HIDE DEF z, p
  <2>5. Placed(z)
    BY <2>2, <2>3 DEF Placed
  <2> QED
    BY <2>1, <2>3, <2>4, <2>5
<1>3. CASE GoTo(r, pc)
  <2>1. at' = [at EXCEPT ![r] = p]
    BY <1>3 DEF GoTo
  <2> HIDE DEF p
  <2> QED
    BY <1>2, <2>1, AtMoved
<1>4. CASE ~GoTo(r, pc) /\ End(r)
  <2>1. at' = [at EXCEPT ![r] = Idle]
    BY <1>4 DEF End
  <2> QED
    BY <1>4, <2>1, PlacedIdle, AtMoved
<1> QED
  BY <1>3, <1>4

LEMMA AtSame ==
  ASSUME AtPart, at' = at PROVE AtPart' /\ Waiting
  BY DEF AtPart, Placed, Waiting

-----------------------------------------------------------------------------
(* Steps *)

LEMMA Together ==
  ASSUME IInv, UNCHANGED <<now, setup>>, RecSame \/ RecMoves, NegSame \/ NegMoves,
         tasks' \subseteq Asking, recovered' \subseteq [name : Names, type : Types],
         AtPart', RecoveredServed'
  PROVE  IInv' /\ Protects
<1>1. RecPart' /\ Protects
  BY RecMoved DEF IInv
<1>2. NegPart'
  BY NegMoved DEF IInv
<1>3. Rest'
  BY DEF IInv, Rest
<1> QED
  BY <1>1, <1>2, <1>3 DEF IInv

\* A step that stores no denial and gets no records.
LEMMA Quiet ==
  ASSUME IInv, UNCHANGED <<now, setup, recovered>>, RecSame \/ RecMoves,
         NegSame \/ NegMoves, NegShrinks, tasks' \subseteq Asking, AtPart', Waiting
  PROVE  IInv' /\ Protects
<1>1. RecoveredServed'
  <2> SUFFICES ASSUME setup.extensions > 0, NEW q \in recovered,
                      ~ \E r \in Resolvers : at'[r].pc = "wipeNeg" /\ Asked(r)' = q,
                      NEW type \in {q.type, "ENT"}
               PROVE  [name |-> q.name, type |-> type] \notin DOMAIN neg'[ShardOf[q.name]].map
    BY DEF RecoveredServed, NegShard
  <2>1. ~ \E r \in Resolvers : at[r].pc = "wipeNeg" /\ Asked(r) = q
    BY DEF Waiting, Asked
  <2>2. [name |-> q.name, type |-> type] \notin DOMAIN neg[ShardOf[q.name]].map
    BY <2>1 DEF IInv, RecoveredServed, NegShard
  <2>3. ShardOf[q.name] \in Shards
    BY ShardIs DEF IInv, Rest
  <2> QED
    BY <2>2, <2>3 DEF NegShrinks
<1>2. recovered' \subseteq [name : Names, type : Types]
  BY DEF IInv, Rest
<1> QED
  BY <1>1, <1>2, Together

LEMMA DenyStep ==
  ASSUME IInv, UNCHANGED <<now, setup, tasks, rec>>, NEW k \in NegKeys,
         NEW e \in DenialType, e.died = Never, Deny(k, e), AtPart', Waiting
  PROVE  IInv' /\ Protects
<1>1. /\ NegMoves /\ recovered' = recovered \ NegTypes(k)
      /\ \A j \in Shards : \A y \in DOMAIN neg'[j].map : y \in DOMAIN neg[j].map \/ y = k
  BY NegAddMoves DEF Deny, IInv
<1>2. recovered \subseteq [name : Names, type : Types] /\ tasks' \subseteq Asking /\ RecSame
  BY DEF IInv, Rest, RecSame
<1>3. RecoveredServed'
  <2> SUFFICES ASSUME setup.extensions > 0, NEW q \in recovered, q \notin NegTypes(k),
                      ~ \E r \in Resolvers : at'[r].pc = "wipeNeg" /\ Asked(r)' = q,
                      NEW type \in {q.type, "ENT"},
                      [name |-> q.name, type |-> type] \in DOMAIN neg'[ShardOf[q.name]].map
               PROVE  FALSE
    BY <1>1 DEF RecoveredServed, NegShard
  <2>1. ~ \E r \in Resolvers : at[r].pc = "wipeNeg" /\ Asked(r) = q
    BY DEF Waiting, Asked
  <2>2. [name |-> q.name, type |-> type] \notin DOMAIN neg[ShardOf[q.name]].map
    BY <2>1 DEF IInv, RecoveredServed, NegShard
  <2>3. ShardOf[q.name] \in Shards /\ q = [name |-> q.name, type |-> q.type] /\ q.type \in Types
    BY <1>2, ShardIs
  <2>4. k = [name |-> q.name, type |-> type]
    BY <1>1, <2>2, <2>3
  <2>5. k.name = q.name /\ k.type = type
    BY <2>4
  <2>6. q \in NegTypes(k)
    <3>1. CASE k.type = "ENT"
      BY <2>3, <2>5, <3>1 DEF NegTypes
    <3>2. CASE k.type # "ENT"
      BY <2>3, <2>5, <3>2 DEF NegTypes
    <3> QED
      BY <3>1, <3>2
  <2> QED
    BY <2>6
<1> QED
  BY <1>1, <1>2, <1>3, Together

LEMMA RecUntouched ==
  ASSUME UNCHANGED recVars PROVE RecSame
  BY DEF recVars, RecSame

LEMMA NegUntouched ==
  ASSUME UNCHANGED negVars PROVE NegSame /\ NegShrinks
  BY DEF negVars, NegSame, NegShrinks

LEMMA BeginStep ==
  ASSUME IInv, NEW r \in Resolvers, NEW name \in Names, NEW type \in Types,
         NEW client \in Clients, Begin(r, name, type, client)
  PROVE  IInv' /\ Protects
<1> DEFINE p == [Idle EXCEPT !.pc = "top", !.name = name, !.type = type, !.client = client]
<1>1. Placed(p)
  BY PlacedIdle DEF Placed, Idle
<1>2. at' = [at EXCEPT ![r] = p] /\ at[r].pc # "wipeNeg"
  BY DEF Begin
<1> HIDE DEF p
<1>3. AtPart' /\ Waiting
  BY <1>1, <1>2, AtMoved DEF IInv
<1> QED
  BY <1>3, RecUntouched, NegUntouched, Quiet DEF Begin, IInv, Rest

LEMMA BeginTaskStep ==
  ASSUME IInv, NEW r \in Resolvers, NEW task \in tasks, NEW client \in Clients,
         BeginTask(r, task, client)
  PROVE  IInv' /\ Protects
<1>1. task.name \in Names /\ task.type \in Types \cup {"ANY"} /\ tasks' \subseteq Asking
  BY DEF IInv, Rest, Asking, BeginTask
<1> DEFINE p == [Idle EXCEPT !.pc = "top", !.name = task.name, !.type = task.type,
                             !.client = client, !.mode = "refresh"]
<1>2. Placed(p)
  BY <1>1, PlacedIdle DEF Placed, Idle
<1>3. at' = [at EXCEPT ![r] = p] /\ at[r].pc # "wipeNeg"
  BY DEF BeginTask
<1> HIDE DEF p
<1>4. AtPart' /\ Waiting
  BY <1>2, <1>3, AtMoved DEF IInv
<1> QED
  BY <1>1, <1>4, RecUntouched, NegUntouched, Quiet DEF BeginTask

\* Whoever is at work has a name and a type.
LEMMA AtWork ==
  ASSUME AtPart, NEW r \in Resolvers, at[r].pc # "idle"
  PROVE  /\ at[r].name \in Names /\ at[r].type \in Types \cup {"ANY"} /\ at[r].client \in Clients
         /\ at[r].above \in Seq(Names) /\ Placed(at[r])
         /\ at[r].denial \in DenialType /\ at[r].denial.died = Never
  BY DEF AtPart, Placed

LEMMA CheckTopStep ==
  ASSUME IInv, NEW r \in Resolvers, NEW t \in Clocks, CheckTop(r, t)
  PROVE  IInv' /\ Protects
<1> DEFINE name == Top[at[r].name]
<1>1. at[r].pc = "top" /\ name \in Names
  BY AtWork, CachesAssumption DEF CheckTop, IInv
<1>2. PICK order \in SetToSeqs(NegGroup(name)) :
        NegGet(name, NegLookedUp(t, name, "ENT", TRUE, Stale(r), Refreshing(r), order))
  BY DEF CheckTop
<1>3. End(r) \/ GoTo(r, "name")
  BY DEF CheckTop
<1>4. UNCHANGED <<now, setup, recVars, recovered>>
  BY DEF CheckTop
<1> HIDE DEF name
<1>5. NegMoves /\ NegShrinks /\ tasks' \subseteq Asking
  BY <1>1, <1>2, NegGetMoves DEF IInv
<1>6. AtPart' /\ Waiting
  BY <1>1, <1>3, AtGoes DEF IInv
<1> QED
  BY <1>4, <1>5, <1>6, RecUntouched, Quiet

LEMMA CheckNameStep ==
  ASSUME IInv, NEW r \in Resolvers, NEW t \in Clocks, CheckName(r, t)
  PROVE  IInv' /\ Protects
<1> DEFINE name == at[r].name
           type == at[r].type
           p == [at[r] EXCEPT !.pc = "above",
                              !.above = IF setup.hardenNXD THEN Above[name] ELSE <<>>]
<1>1. at[r].pc = "name" /\ name \in Names /\ type \in Types \cup {"ANY"} /\ Placed(at[r])
  BY AtWork DEF CheckName, IInv
<1>2. PICK order \in SetToSeqs(NegGroup(name)) :
        NegGet(name, NegLookedUp(t, name, type, FALSE, Stale(r), Refreshing(r), order))
  BY DEF CheckName
<1>3. End(r) \/ at' = [at EXCEPT ![r] = p]
  BY DEF CheckName
<1>4. UNCHANGED <<now, setup, recVars, recovered>>
  BY DEF CheckName
<1>5. Placed(p)
  <2> DEFINE above == IF setup.hardenNXD THEN Above[name] ELSE <<>>
  <2>1. Above[name] \in Seq(Names) /\ <<>> \in Seq(Names)
    BY <1>1, CachesAssumption
  <2>3. above \in Seq(Names)
    BY <2>1
  <2>2. p = [at[r] EXCEPT !.pc = "above", !.above = above]
    OBVIOUS
  <2> HIDE DEF p, above
  <2> QED
    BY <1>1, <2>2, <2>3 DEF Placed
<1> HIDE DEF p, name, type
<1>6. NegMoves /\ NegShrinks /\ tasks' \subseteq Asking
  BY <1>1, <1>2, NegGetMoves DEF IInv
<1>7. AtPart' /\ Waiting
  <2>1. CASE End(r)
    BY <1>1, <2>1, AtGoes DEF IInv
  <2>2. CASE at' = [at EXCEPT ![r] = p]
    BY <1>1, <1>5, <2>2, AtMoved DEF IInv
  <2> QED
    BY <1>3, <2>1, <2>2
<1> QED
  BY <1>4, <1>6, <1>7, RecUntouched, Quiet

LEMMA CheckAboveStep ==
  ASSUME IInv, NEW r \in Resolvers, NEW t \in Clocks, CheckAbove(r, t)
  PROVE  IInv' /\ Protects
<1> DEFINE name == Head(at[r].above)
           p == [at[r] EXCEPT !.above = Tail(at[r].above)]
<1>1. /\ at[r].pc = "above" /\ Placed(at[r]) /\ name \in Names
      /\ at[r].above \in Seq(Names) /\ Tail(at[r].above) \in Seq(Names)
  BY AtWork DEF CheckAbove, IInv
<1>2. PICK order \in SetToSeqs(NegGroup(name)) :
        NegGet(name, NegLookedUp(t, name, "ENT", TRUE, Stale(r), Refreshing(r), order))
  BY DEF CheckAbove
<1>3. End(r) \/ at' = [at EXCEPT ![r] = p]
  BY DEF CheckAbove
<1>4. UNCHANGED <<now, setup, recVars, recovered>>
  BY DEF CheckAbove
<1>5. Placed(p)
  BY <1>1 DEF Placed
<1> HIDE DEF p, name
<1>6. NegMoves /\ NegShrinks /\ tasks' \subseteq Asking
  BY <1>1, <1>2, NegGetMoves DEF IInv
<1>7. AtPart' /\ Waiting
  <2>1. CASE End(r)
    BY <1>1, <2>1, AtGoes DEF IInv
  <2>2. CASE at' = [at EXCEPT ![r] = p]
    BY <1>1, <1>5, <2>2, AtMoved DEF IInv
  <2> QED
    BY <1>3, <2>1, <2>2
<1> QED
  BY <1>4, <1>6, <1>7, RecUntouched, Quiet

LEMMA CheckRecStep ==
  ASSUME IInv, NEW r \in Resolvers, NEW t \in Clocks, NEW requireAuth,
         CheckRec(r, t, requireAuth)
  PROVE  IInv' /\ Protects
<1> DEFINE name == at[r].name
           flags == [requireAuth |-> requireAuth, refresh |-> Refreshing(r),
                     serveStale |-> Stale(r)]
           S == Group(ShardWith(name), name, NoTag)
<1>1. /\ at[r].pc = "above" /\ name \in Names /\ at[r].type \in QTypes
      /\ at[r].client \in Clients
  BY AtWork DEF CheckRec, IInv, QTypes
<1>2. PICK order \in SetToSeqs(S) :
        Get(name, LookedUp(t, name, at[r].type, flags, at[r].client, NoTag, FALSE, order))
  BY DEF CheckRec
<1>3. End(r) \/ GoTo(r, "asking")
  BY DEF CheckRec
<1>4. UNCHANGED <<now, setup, negVars, recovered>>
  BY DEF CheckRec
<1>5. flags.serveStale \in BOOLEAN /\ S \subseteq DOMAIN ShardWith(name).map
  BY DEF Stale, Group
<1> DEFINE qtype == at[r].type
           client == at[r].client
<1> HIDE DEF name, flags, S, qtype, client
<1>8. Rest /\ RecPart
  BY DEF IInv
<1>9. qtype \in QTypes /\ client \in Clients
  BY <1>1 DEF qtype, client
<1>10. PICK full \in BOOLEAN : full = FALSE
  OBVIOUS
<1>11. Get(name, LookedUp(t, name, qtype, flags, client, NoTag, full, order))
  BY <1>2, <1>10 DEF qtype, client
<1>6. RecMoves /\ tasks' \subseteq Asking
  BY <1>1, <1>2, <1>5, <1>8, <1>9, <1>11, GetMoves
<1>7. AtPart' /\ Waiting
  BY <1>1, <1>3, AtGoes DEF IInv
<1> QED
  BY <1>4, <1>6, <1>7, NegUntouched, Quiet

LEMMA NoAnswerStep ==
  ASSUME IInv, NEW r \in Resolvers, NoAnswer(r)
  PROVE  IInv' /\ Protects
<1> DEFINE p == [at[r] EXCEPT !.pc = "top", !.mode = "stale"]
<1>1. at[r].pc = "asking" /\ Placed(at[r])
  BY AtWork DEF NoAnswer, IInv
<1>2. End(r) \/ at' = [at EXCEPT ![r] = p]
  BY DEF NoAnswer
<1>3. Placed(p)
  BY <1>1 DEF Placed
<1> HIDE DEF p
<1>4. AtPart' /\ Waiting
  <2>1. CASE End(r)
    BY <1>1, <2>1, AtGoes DEF IInv
  <2>2. CASE at' = [at EXCEPT ![r] = p]
    BY <1>1, <1>3, <2>2, AtMoved DEF IInv
  <2> QED
    BY <1>2, <2>1, <2>2
<1>5. UNCHANGED <<now, setup, tasks, recVars, negVars, recovered>> /\ tasks \subseteq Asking
  BY DEF NoAnswer, IInv, Rest
<1> QED
  BY <1>4, <1>5, RecUntouched, NegUntouched, Quiet

\* StoreKey leaves the name and the type.
LEMMA StoreKeyed ==
  ASSUME NEW place \in Keys
  PROVE  StoreKey(place) \in Keys /\ StoreKey(place).name = place.name
         /\ StoreKey(place).type = place.type
<1> DEFINE tag == IF place.mask = NoMask THEN NoTag ELSE place.tag
           mask == IF place.tag = NoTag THEN place.mask ELSE NoMask
           k == [place EXCEPT !.tag = tag, !.mask = mask]
<1>1. tag \in Tags \cup {NoTag} /\ mask \in Masks \cup {NoMask} /\ StoreKey(place) = k
  BY DEF Keys, StoreKey
<1> HIDE DEF tag, mask
<1>2. k \in Keys /\ k.name = place.name /\ k.type = place.type
  BY <1>1 DEF Keys
<1> QED
  BY <1>1, <1>2

LEMMA ReplaceMoves ==
  ASSUME Rest, RecPart, NEW place \in setup.keys, NEW t \in Clocks, NEW answer \in setup.answers,
         Replace(place, t, answer)
  PROVE  RecMoves /\ place.type \in Types
<1>1. place \in Keys
  BY SetupTyped
<1> DEFINE k == StoreKey(place)
<1>2. k \in Keys /\ k.name = place.name
  BY <1>1, StoreKeyed
<1>3. SetShard(ShardOf[k.name], Replaced(k, t, answer))
  BY <1>2 DEF Replace
<1> HIDE DEF k
<1>4. RecMoves
  BY <1>2, <1>3, ReplacedMoves
<1> QED
  BY <1>1, <1>4 DEF Keys

LEMMA AnswerRecordsStep ==
  ASSUME IInv, NEW r \in Resolvers, NEW t \in Clocks, NEW place \in setup.keys,
         NEW answer \in setup.answers, AnswerRecords(r, t, place, answer)
  PROVE  IInv' /\ Protects
<1>1. at[r].pc = "asking" /\ at[r].name \in Names /\ at[r].type = place.type
  BY AtWork DEF AnswerRecords, IInv
<1>2. RecMoves /\ at[r].type \in Types
  BY <1>1, ReplaceMoves DEF AnswerRecords, IInv
<1>3. /\ recovered' = recovered \cup {Asked(r)}
      /\ UNCHANGED <<now, setup, tasks, negVars>>
      /\ (GoTo(r, "wipeNeg") \/ End(r)) /\ (setup.extensions > 0 => GoTo(r, "wipeNeg"))
  BY DEF AnswerRecords
<1>4. AtPart' /\ Waiting /\ (GoTo(r, "wipeNeg") => /\ at'[r].pc = "wipeNeg"
                                                  /\ at'[r].name = at[r].name
                                                  /\ at'[r].type = at[r].type)
  BY <1>1, <1>3, AtGoes DEF IInv
<1>5. Asked(r) \in [name : Names, type : Types]
  BY <1>1, <1>2 DEF Asked
<1>6. recovered' \subseteq [name : Names, type : Types] /\ tasks' \subseteq Asking
  BY <1>3, <1>5 DEF IInv, Rest
<1>7. NegSame
  BY <1>3, NegUntouched
<1>8. RecoveredServed'
  <2> SUFFICES ASSUME setup.extensions > 0, NEW q \in recovered',
                      ~ \E p \in Resolvers : at'[p].pc = "wipeNeg" /\ Asked(p)' = q,
                      NEW type \in {q.type, "ENT"}
               PROVE  [name |-> q.name, type |-> type] \notin DOMAIN neg'[ShardOf[q.name]].map
    BY <1>3 DEF RecoveredServed, NegShard
  <2>1. at'[r].pc = "wipeNeg" /\ Asked(r)' = Asked(r)
    BY <1>3, <1>4 DEF Asked
  <2>2. q # Asked(r) /\ q \in recovered
    BY <1>3, <2>1
  <2>3. ~ \E p \in Resolvers : at[p].pc = "wipeNeg" /\ Asked(p) = q
    BY <1>4 DEF Waiting, Asked
  <2> QED
    BY <1>3, <2>2, <2>3 DEF IInv, RecoveredServed, NegShard, negVars
<1> QED
  BY <1>2, <1>3, <1>4, <1>6, <1>7, <1>8, Together

LEMMA WipeDenialStep ==
  ASSUME IInv, NEW r \in Resolvers, WipeDenial(r)
  PROVE  IInv' /\ Protects
<1> DEFINE name == at[r].name
           type == at[r].type
<1>1. at[r].pc = "wipeNeg" /\ name \in Names
  BY AtWork DEF WipeDenial, IInv
<1>2. /\ WipeTyped(name, type) /\ End(r)
      /\ UNCHANGED <<now, setup, tasks, recVars, recovered>>
  BY DEF WipeDenial
<1>3. /\ (NegSame \/ NegMoves) /\ NegShrinks
      /\ \A k \in DOMAIN neg'[ShardOf[name]].map : ~(k.name = name /\ k.type \in {type, "ENT"})
  <2> HIDE DEF name, type
  <2> QED
    BY <1>1, <1>2, WipeTypedMoves DEF IInv
<1>4. AtPart' /\ \A q \in Resolvers : q # r => at'[q] = at[q]
  BY <1>1, <1>2, AtGoes DEF IInv
<1>5. RecoveredServed'
  <2> SUFFICES ASSUME setup.extensions > 0, NEW q \in recovered,
                      ~ \E p \in Resolvers : at'[p].pc = "wipeNeg" /\ Asked(p)' = q,
                      NEW tp \in {q.type, "ENT"}
               PROVE  [name |-> q.name, type |-> tp] \notin DOMAIN neg'[ShardOf[q.name]].map
    BY <1>2 DEF RecoveredServed, NegShard
  <2>1. CASE q = Asked(r)
    <3>1. q.name = name /\ tp \in {type, "ENT"}
      BY <2>1 DEF Asked
    <3> DEFINE k == [name |-> q.name, type |-> tp]
    <3>2. k.name = name /\ k.type \in {type, "ENT"}
      BY <3>1
    <3> HIDE DEF k
    <3> QED
      BY <1>3, <3>1, <3>2 DEF k
  <2>2. CASE q # Asked(r)
    <3>1. ~ \E p \in Resolvers : at[p].pc = "wipeNeg" /\ Asked(p) = q
      BY <1>4, <2>2 DEF Asked
    <3>2. [name |-> q.name, type |-> tp] \notin DOMAIN neg[ShardOf[q.name]].map
      BY <3>1 DEF IInv, RecoveredServed, NegShard
    <3>3. ShardOf[q.name] \in Shards
      BY ShardIs DEF IInv, Rest
    <3> QED
      BY <1>3, <3>2, <3>3 DEF NegShrinks
  <2> QED
    BY <2>1, <2>2
<1>6. recovered' \subseteq [name : Names, type : Types] /\ tasks' \subseteq Asking
  BY <1>2 DEF IInv, Rest
<1> QED
  BY <1>2, <1>3, <1>4, <1>5, <1>6, RecUntouched, Together

LEMMA AnswerNXDomainStep ==
  ASSUME IInv, NEW r \in Resolvers, NEW t \in Clocks, NEW ttl \in setup.ttls,
         NEW root \in setup.roots, AnswerNXDomain(r, t, ttl, root)
  PROVE  IInv' /\ Protects
<1> DEFINE k == [name |-> at[r].name, type |-> "ENT"]
           e == NegEntry(t, ttl, root)
           pc == IF ~ZapsCNAME(r) THEN "denyTop" ELSE IF root THEN "zapThenTop" ELSE "zapRec"
           p == [at[r] EXCEPT !.pc = pc, !.denial = e]
<1>1. at[r].pc = "asking" /\ at[r].name \in Names /\ Placed(at[r])
  BY AtWork DEF AnswerNXDomain, IInv
<1>2. e \in DenialType /\ e.died = Never
  <2>1. t \in Int /\ ttl \in Nat /\ root \in BOOLEAN
    BY SetupTyped DEF IInv
  <2> QED
    BY <2>1, DenialTyped
<1>3. k \in NegKeys
  BY <1>1 DEF NegKeys
<1>4. UNCHANGED <<now, setup, tasks, rec>> /\ Deny(k, e) /\ (End(r) \/ at' = [at EXCEPT ![r] = p])
  BY DEF AnswerNXDomain, recVars
<1>5. Placed(p)
  <2> HIDE DEF e, pc
  <2> QED
    BY <1>1, <1>2 DEF Placed
<1> HIDE DEF k, e, p
<1>6. AtPart' /\ Waiting
  <2>1. CASE End(r)
    BY <1>1, <2>1, AtGoes DEF IInv
  <2>2. CASE at' = [at EXCEPT ![r] = p]
    BY <1>1, <1>5, <2>2, AtMoved DEF IInv
  <2> QED
    BY <1>4, <2>1, <2>2
<1> QED
  BY <1>2, <1>3, <1>4, <1>6, DenyStep

LEMMA ZapCNAMEStep ==
  ASSUME IInv, NEW r \in Resolvers, ZapCNAME(r)
  PROVE  IInv' /\ Protects
<1> DEFINE name == at[r].name
<1>1. at[r].pc \in {"zapRec", "zapThenTop", "zapThenDeny"} /\ name \in Names
  BY AtWork DEF ZapCNAME, IInv
<1>2. /\ WipeRec(ShardOf[name], {name}, {"CNAME"})
      /\ End(r) \/ GoTo(r, "denyTop") \/ GoTo(r, "denyType")
      /\ UNCHANGED <<now, setup, tasks, negVars, recovered>>
  BY <1>1 DEF ZapCNAME
<1>3. RecMoves
  <2> DEFINE i == ShardOf[name]
             names == {name}
             types == {"CNAME"}
  <2>1. i \in Shards /\ WipeRec(i, names, types)
    BY <1>1, <1>2, ShardIs
  <2> HIDE DEF i, names, types
  <2> QED
    BY <2>1, WipeRecMoves DEF IInv
<1>4. AtPart' /\ Waiting
  <2>1. AtPart /\ at[r].pc # "idle" /\ at[r].pc # "wipeNeg"
    BY <1>1 DEF IInv
  <2>2. CASE GoTo(r, "denyTop") \/ End(r)
    BY <2>1, <2>2, AtGoes
  <2>3. CASE GoTo(r, "denyType")
    BY <2>1, <2>3, AtGoes
  <2> QED
    BY <1>2, <2>2, <2>3
<1>5. tasks' \subseteq Asking
  BY <1>2 DEF IInv, Rest
<1> QED
  BY <1>2, <1>3, <1>4, <1>5, NegUntouched, Quiet

LEMMA DenyTopStep ==
  ASSUME IInv, NEW r \in Resolvers, DenyTop(r)
  PROVE  IInv' /\ Protects
<1> DEFINE k == [name |-> Top[at[r].name], type |-> "ENT"]
           e == at[r].denial
<1>1. at[r].pc = "denyTop" /\ Top[at[r].name] \in Names /\ e \in DenialType /\ e.died = Never
  BY AtWork, CachesAssumption DEF DenyTop, IInv
<1>2. k \in NegKeys
  BY <1>1 DEF NegKeys
<1>3. UNCHANGED <<now, setup, tasks, rec>> /\ Deny(k, e) /\ End(r)
  BY DEF DenyTop, recVars
<1> HIDE DEF k, e
<1>4. AtPart' /\ Waiting
  BY <1>1, <1>3, AtGoes DEF IInv
<1> QED
  BY <1>1, <1>2, <1>3, <1>4, DenyStep

LEMMA AnswerNoDataStep ==
  ASSUME IInv, NEW r \in Resolvers, NEW t \in Clocks, NEW ttl \in setup.ttls,
         AnswerNoData(r, t, ttl)
  PROVE  IInv' /\ Protects
<1> DEFINE k == Asked(r)
           e == NegEntry(t, ttl, FALSE)
<1>1. /\ at[r].pc \in {"denyType", "asking"} /\ at[r].name \in Names
      /\ at[r].type \in Types \cup {"ANY"}
  BY AtWork DEF AnswerNoData, IInv
<1>2. e \in DenialType /\ e.died = Never
  <2>1. t \in Int /\ ttl \in Nat
    BY SetupTyped DEF IInv
  <2> QED
    BY <2>1, DenialTyped
<1>3. k \in NegKeys
  BY <1>1 DEF NegKeys, Asked
<1>4. UNCHANGED <<now, setup, tasks, rec>> /\ Deny(k, e) /\ End(r)
  BY DEF AnswerNoData, recVars
<1> HIDE DEF k, e
<1>5. AtPart' /\ Waiting
  BY <1>1, <1>4, AtGoes DEF IInv
<1> QED
  BY <1>2, <1>3, <1>4, <1>5, DenyStep

LEMMA AnswerNoCNAMEStep ==
  ASSUME IInv, NEW r \in Resolvers, AnswerNoCNAME(r)
  PROVE  IInv' /\ Protects
<1>1. at[r].pc = "asking" /\ GoTo(r, "zapThenDeny")
  BY DEF AnswerNoCNAME
<1>2. AtPart' /\ Waiting
  BY <1>1, AtGoes DEF IInv
<1>3. UNCHANGED <<now, setup, tasks, recVars, negVars, recovered>> /\ tasks \subseteq Asking
  BY DEF AnswerNoCNAME, IInv, Rest
<1> QED
  BY <1>2, <1>3, RecUntouched, NegUntouched, Quiet

LEMMA ResolveStep ==
  ASSUME IInv, NEW r \in setup.resolvers, Resolve(r)
  PROVE  IInv' /\ Protects
<1>1. r \in Resolvers /\ setup.clients \subseteq Clients
      /\ setup.questions \subseteq [name : Names, type : Types]
  BY SetupTyped DEF IInv
<1>2. CASE \E q \in setup.questions, client \in setup.clients : Begin(r, q.name, q.type, client)
  BY <1>1, <1>2, BeginStep
<1>3. CASE \E task \in tasks, client \in setup.clients : BeginTask(r, task, client)
  BY <1>1, <1>3, BeginTaskStep
<1>4. CASE \E t \in Clocks :
             \/ CheckTop(r, t) \/ CheckName(r, t) \/ CheckAbove(r, t)
             \/ \E requireAuth \in setup.auth : CheckRec(r, t, requireAuth)
  BY <1>1, <1>4, CheckTopStep, CheckNameStep, CheckAboveStep, CheckRecStep
<1>5. CASE \E t \in Clocks, place \in setup.keys, answer \in setup.answers :
             AnswerRecords(r, t, place, answer)
  BY <1>1, <1>5, AnswerRecordsStep
<1>6. CASE \E t \in Clocks, ttl \in setup.ttls :
             \/ \E root \in setup.roots : AnswerNXDomain(r, t, ttl, root)
             \/ AnswerNoData(r, t, ttl)
  BY <1>1, <1>6, AnswerNXDomainStep, AnswerNoDataStep
<1>7. CASE NoAnswer(r) \/ DenyTop(r) \/ WipeDenial(r) \/ ZapCNAME(r) \/ AnswerNoCNAME(r)
  BY <1>1, <1>7, NoAnswerStep, DenyTopStep, WipeDenialStep, ZapCNAMEStep, AnswerNoCNAMEStep
<1> QED
  BY <1>2, <1>3, <1>4, <1>5, <1>6, <1>7 DEF Resolve

-----------------------------------------------------------------------------
(* Steps of the other callers *)

LEMMA LookUpStep ==
  ASSUME IInv, LookUp
  PROVE  IInv' /\ Protects
<1>1. PICK t \in Clocks, name \in KeyNames, qtype \in setup.qtypes, client \in setup.clients,
           tag \in setup.tags, requireAuth \in setup.auth, serveStale \in BOOLEAN,
           full \in BOOLEAN :
        LET flags == [requireAuth |-> requireAuth, refresh |-> FALSE,
                      serveStale |-> serveStale]
        IN  /\ serveStale => setup.extensions > 0
            /\ full => qtype = "ANY"
            /\ \E order \in SetToSeqs(Group(ShardWith(name), name, TagUsed(name, tag))) :
                 Get(name, LookedUp(t, name, qtype, flags, client, tag, full, order))
  BY Zenon DEF LookUp
<1> DEFINE flags == [requireAuth |-> requireAuth, refresh |-> FALSE, serveStale |-> serveStale]
           S == Group(ShardWith(name), name, TagUsed(name, tag))
<1>2. PICK order \in SetToSeqs(S) :
        Get(name, LookedUp(t, name, qtype, flags, client, tag, full, order))
  BY <1>1
<1>3. flags.serveStale \in BOOLEAN /\ S \subseteq DOMAIN ShardWith(name).map
  BY DEF Group
<1>4. name \in Names /\ qtype \in QTypes /\ client \in Clients
  BY SetupTyped DEF KeyNames, Keys, QTypes, IInv
<1>5. UNCHANGED <<now, setup, negVars, at, recovered>>
  BY DEF LookUp
<1> HIDE DEF flags, S
<1>6. RecMoves /\ tasks' \subseteq Asking
  BY <1>2, <1>3, <1>4, GetMoves DEF IInv
<1>7. AtPart' /\ Waiting
  BY <1>5, AtSame DEF IInv
<1> QED
  BY <1>5, <1>6, <1>7, NegUntouched, Quiet

LEMMA StoreStep ==
  ASSUME IInv, Store
  PROVE  IInv' /\ Protects
<1>1. RecMoves
  BY ReplaceMoves DEF Store, IInv
<1>2. UNCHANGED <<now, setup, tasks, negVars, at, recovered>> /\ tasks \subseteq Asking
  BY DEF Store, IInv, Rest
<1>3. AtPart' /\ Waiting
  BY <1>2, AtSame DEF IInv
<1> QED
  BY <1>1, <1>2, <1>3, NegUntouched, Quiet

LEMMA StoreDenialStep ==
  ASSUME IInv, StoreDenial
  PROVE  IInv' /\ Protects
<1>1. PICK t \in Clocks, place \in setup.keys, ttl \in setup.ttls :
        Deny([name |-> place.name, type |-> place.type], NegEntry(t, ttl, FALSE))
  BY DEF StoreDenial
<1> DEFINE k == [name |-> place.name, type |-> place.type]
           e == NegEntry(t, ttl, FALSE)
<1>2. k \in NegKeys
  BY SetupTyped DEF Keys, NegKeys, IInv
<1>3. e \in DenialType /\ e.died = Never
  <2>1. t \in Int /\ ttl \in Nat
    BY SetupTyped DEF IInv
  <2> QED
    BY <2>1, DenialTyped
<1>4. UNCHANGED <<now, setup, tasks, rec>> /\ Deny(k, e) /\ at' = at
  BY <1>1 DEF StoreDenial, recVars
<1> HIDE DEF k, e
<1>5. AtPart' /\ Waiting
  BY <1>4, AtSame DEF IInv
<1> QED
  BY <1>2, <1>3, <1>4, <1>5, DenyStep

LEMMA WipeStep ==
  ASSUME IInv, Wipe
  PROVE  IInv' /\ Protects
<1>1. UNCHANGED <<now, setup, tasks, at, recovered>> /\ tasks \subseteq Asking
  BY DEF Wipe, IInv, Rest
<1>2. AtPart' /\ Waiting
  BY <1>1, AtSame DEF IInv
<1>3. PICK i \in Shards, names \in setup.subtrees, type \in Types \cup {"all"} :
        \/ /\ WipeRec(i, names, IF type = "all" THEN Types ELSE {type})
           /\ UNCHANGED negVars
        \/ /\ WipeNeg(i, names)
           /\ UNCHANGED recVars
  BY DEF Wipe
<1>4. CASE WipeRec(i, names, IF type = "all" THEN Types ELSE {type}) /\ UNCHANGED negVars
  <2> DEFINE types == IF type = "all" THEN Types ELSE {type}
  <2>1. WipeRec(i, names, types)
    BY <1>4
  <2> HIDE DEF types
  <2>2. RecMoves
    BY <2>1, WipeRecMoves DEF IInv
  <2> QED
    BY <1>1, <1>2, <1>4, <2>2, NegUntouched, Quiet
<1>5. CASE WipeNeg(i, names) /\ UNCHANGED recVars
  <2>1. (NegSame \/ NegMoves) /\ NegShrinks
    BY <1>5, WipeNegMoves DEF IInv
  <2> QED
    BY <1>1, <1>2, <1>5, <2>1, RecUntouched, Quiet
<1> QED
  BY <1>3, <1>4, <1>5

LEMMA ClearDenialsStep ==
  ASSUME IInv, ClearDenials
  PROVE  IInv' /\ Protects
<1>1. UNCHANGED <<now, setup, tasks, recVars, at, recovered>> /\ tasks \subseteq Asking
  BY DEF ClearDenials, IInv, Rest
<1>2. AtPart' /\ Waiting
  BY <1>1, AtSame DEF IInv
<1>3. NegMoves /\ NegShrinks
  BY ClearNegMoves DEF ClearDenials, IInv
<1> QED
  BY <1>1, <1>2, <1>3, RecUntouched, Quiet

LEMMA AgeStep ==
  ASSUME IInv, Age
  PROVE  IInv' /\ Protects
<1>1. UNCHANGED <<now, setup, tasks, negVars, at, recovered>> /\ tasks \subseteq Asking
  BY DEF Age, IInv, Rest
<1>2. AtPart' /\ Waiting
  BY <1>1, AtSame DEF IInv
<1>3. RecMoves
  BY AgeRecMoves DEF Age, IInv
<1> QED
  BY <1>1, <1>2, <1>3, NegUntouched, Quiet

LEMMA ValidateStep ==
  ASSUME IInv, Validate
  PROVE  IInv' /\ Protects
<1>1. UNCHANGED <<now, setup, at, recovered>> /\ tasks \subseteq Asking /\ Rest /\ RecPart /\ NegPart
  BY DEF Validate, IInv, Rest
<1>2. AtPart' /\ Waiting
  BY <1>1, AtSame DEF IInv
<1>3. PICK t \in Clocks, state \in {"Secure", "Bogus"} :
        \/ /\ \E name \in KeyNames, type \in setup.qtypes \cap Types, client \in setup.clients,
                 tag \in setup.tags, requireAuth \in setup.auth :
                ValidateRec(t, name, type, client, tag, requireAuth, state)
           /\ UNCHANGED negVars
        \/ /\ \E k \in NegKeys : NegValidate(k, t, state = "Bogus")
           /\ UNCHANGED <<tasks, recVars>>
  BY DEF Validate
<1>4. CASE /\ \E name \in KeyNames, type \in setup.qtypes \cap Types, client \in setup.clients,
                 tag \in setup.tags, requireAuth \in setup.auth :
                ValidateRec(t, name, type, client, tag, requireAuth, state)
           /\ UNCHANGED negVars
  <2>1. PICK name \in KeyNames, type \in setup.qtypes \cap Types, client \in setup.clients,
             tag \in setup.tags, requireAuth \in setup.auth :
          ValidateRec(t, name, type, client, tag, requireAuth, state)
    BY <1>4
  <2>2. name \in Names /\ client \in Clients /\ state \in States
    BY <1>1, SetupTyped DEF KeyNames, Keys, States
  <2>3. RecMoves /\ tasks' \subseteq Asking
    BY <1>1, <2>1, <2>2, ValidateRecMoves
  <2> QED
    BY <1>1, <1>2, <1>4, <2>3, NegUntouched, Quiet
<1>5. CASE /\ \E k \in NegKeys : NegValidate(k, t, state = "Bogus")
           /\ UNCHANGED <<tasks, recVars>>
  <2>1. PICK k \in NegKeys : NegValidate(k, t, state = "Bogus")
    BY <1>5
  <2>2. PICK bogus \in BOOLEAN : bogus = (state = "Bogus")
    OBVIOUS
  <2>3. NegValidate(k, t, bogus)
    BY <2>1, <2>2
  <2>4. NegMoves /\ NegShrinks
    BY <1>1, <2>3, NegValidateMoves
  <2> QED
    BY <1>1, <1>2, <1>5, <2>4, RecUntouched, Quiet
<1> QED
  BY <1>3, <1>4, <1>5

LEMMA PruneStepStep ==
  ASSUME IInv, PruneStep
  PROVE  IInv' /\ Protects
<1>1. UNCHANGED <<now, setup, tasks, at, recovered>> /\ tasks \subseteq Asking /\ RecPart /\ NegPart
  BY DEF PruneStep, IInv, Rest
<1>2. AtPart' /\ Waiting
  BY <1>1, AtSame DEF IInv
<1>3. CASE (PruneRec(now) \/ ScanRec \/ TrimRec) /\ UNCHANGED negVars
  <2>1. RecSame \/ RecMoves
    BY <1>1, <1>3, ScanRecMoves, TrimRecMoves DEF PruneRec, RecSame
  <2> QED
    BY <1>1, <1>2, <1>3, <2>1, NegUntouched, Quiet
<1>4. CASE (PruneNeg(now) \/ ScanNeg \/ TrimNeg) /\ UNCHANGED recVars
  <2>1. (NegSame \/ NegMoves) /\ NegShrinks
    BY <1>1, <1>4, ScanNegMoves, TrimNegMoves, NegSameShrinks DEF PruneNeg, NegSame
  <2> QED
    BY <1>1, <1>2, <1>4, <2>1, RecUntouched, Quiet
<1> QED
  BY <1>3, <1>4 DEF PruneStep

\* As time passes less has to be in an index.
LEMMA TickStep ==
  ASSUME IInv, Tick
  PROVE  IInv' /\ Protects
<1>1. /\ UNCHANGED <<setup, tasks, recVars, negVars, at, recovered>>
      /\ now < setup.until /\ now' = now + 1
  BY DEF Tick
<1>2. RecSame /\ NegSame /\ AtPart'
  BY <1>1, RecUntouched, NegUntouched, AtSame DEF IInv
<1>3. Rest'
  BY <1>1, SetupTyped, ShardedCacheAssumption DEF IInv, Rest
<1>4. Protects
  BY <1>2, UntouchedGuards DEF Protects, RecSame, IInv
<1>5. RecPart'
  <2>1. ASSUME NEW j \in Shards PROVE RecSound(rec[j])' /\ Hashed(rec[j].map, Keys, j)'
    <3>1. PICK y : y = rec'[j]
      OBVIOUS
    <3>2. RecSound(y) /\ Hashed(y.map, Keys, j)
      BY <1>2, <3>1 DEF RecSame, RecPart, IInv
    <3>3. \A k \in DOMAIN y.map : y.map[k].ttd \in Int
      BY <3>2, KeptTypes DEF EntryType
    <3>4. Indexes(y)'
      BY <1>1, <3>2, <3>3, SetupTyped DEF RecSound, Indexes, Settled, IInv
    <3> QED
      BY <1>1, <3>1, <3>2, <3>4
         DEF RecSound, RecFields, Entries, Bounded, Indexes, Settled, Group, Hashed
  <2> QED
    BY <1>2, <2>1 DEF RecPart, RecSame, IInv
<1>6. NegPart'
  BY <1>1, <1>2, NegMoved DEF IInv
<1>7. RecoveredServed'
  BY <1>1 DEF IInv, RecoveredServed, Asked, NegShard, negVars
<1> QED
  BY <1>2, <1>3, <1>4, <1>5, <1>6, <1>7 DEF IInv

LEMMA IdleStep ==
  ASSUME IInv, UNCHANGED vars
  PROVE  IInv' /\ Protects
<1>1. UNCHANGED <<now, setup, tasks, recVars, negVars, at, recovered>> /\ tasks \subseteq Asking
  BY DEF vars, IInv, Rest
<1>2. AtPart' /\ Waiting
  BY <1>1, AtSame DEF IInv
<1> QED
  BY <1>1, <1>2, RecUntouched, NegUntouched, Quiet

LEMMA NextInv ==
  ASSUME IInv, [Next]_vars
  PROVE  IInv' /\ Protects
<1>1. CASE \E r \in setup.resolvers : Resolve(r)
  BY <1>1, ResolveStep
<1>2. CASE LookUp \/ Store \/ StoreDenial \/ Wipe \/ ClearDenials
  BY <1>2, LookUpStep, StoreStep, StoreDenialStep, WipeStep, ClearDenialsStep
<1>3. CASE Age \/ Validate \/ PruneStep \/ Tick \/ UNCHANGED vars
  BY <1>3, AgeStep, ValidateStep, PruneStepStep, TickStep, IdleStep
<1> QED
  BY <1>1, <1>2, <1>3 DEF Next

LEMMA InitInv == Init => IInv
<1> SUFFICES ASSUME Init PROVE IInv
  OBVIOUS
<1>1. now = 0 /\ setup \in Setups /\ tasks = {} /\ recovered = {}
  BY DEF Init
<1>2. Rest
  BY <1>1, ShardedCacheAssumption DEF Rest
<1> DEFINE s == [map |-> <<>>, lru |-> <<>>, index |-> {}, range |-> NoRange]
           n == [map |-> <<>>, lru |-> <<>>]
<1>3. RecSound(s) /\ Hashed(s.map, Keys, 0) /\ DOMAIN s.map = {}
  BY DEF RecSound, RecFields, Entries, Lists, Indexes, Hashed, NoRange
<1>4. NegSound(n) /\ DOMAIN n.map = {}
  BY DEF NegSound, Entries, Lists
<1>5. rec = [i \in Shards |-> s] /\ neg = [i \in Shards |-> n]
  BY DEF Init, RecInit, NegInit
<1> HIDE DEF s, n
<1>6. RecPart /\ NegPart
  BY <1>3, <1>4, <1>5 DEF RecPart, NegPart, Hashed
<1>7. AtPart
  BY PlacedIdle DEF Init, AtPart
<1>8. RecoveredServed
  BY <1>1 DEF RecoveredServed
<1> QED
  BY <1>2, <1>6, <1>7, <1>8 DEF IInv

-----------------------------------------------------------------------------
(* Theorems *)

LEMMA Invariance == Spec => [](IInv) /\ [][Protects]_vars
<1>1. IInv /\ [Next]_vars => IInv' /\ Protects
  BY NextInv
<1> QED
  BY <1>1, InitInv, PTL DEF Spec

\* Both caches hold entries of their types only, each in the shard its name is hashed to,
\* and the LRU list of a shard (src/cachecleaner.hh) has the keys of its map, each once:
\* however many lookups, answers, prunes, wipes and validations are interleaved.
THEOREM TypeCorrect == Spec => []TypeOK
<1>1. IInv => TypeOK
  <2> SUFFICES ASSUME IInv PROVE TypeOK
    OBVIOUS
  <2>1. /\ now \in 0 .. MaxNow /\ tasks \subseteq [name : Names, type : QTypes]
        /\ recovered \subseteq [name : Names, type : QTypes]
    BY DEF IInv, Rest, Asking, QTypes
  <2>2. ASSUME NEW i \in Shards
        PROVE  /\ ListMatches(rec[i]) /\ ListMatches(neg[i])
               /\ \A k \in DOMAIN rec[i].map :
                    k \in Keys /\ ShardOf[k.name] = i /\ rec[i].map[k] \in EntryType
               /\ \A k \in DOMAIN neg[i].map :
                    k \in NegKeys /\ ShardOf[k.name] = i /\ neg[i].map[k] \in DenialType
    <3>1. /\ RecSound(rec[i]) /\ Hashed(rec[i].map, Keys, i)
          /\ NegSound(neg[i]) /\ Hashed(neg[i].map, NegKeys, i)
      BY DEF IInv, RecPart, NegPart
    <3>2. ListMatches(rec[i]) /\ ListMatches(neg[i])
      BY <3>1, ListCounts DEF RecSound, NegSound, ListMatches, Size
    <3> QED
      BY <3>1, <3>2, KeptTypes, NegTyped DEF Hashed
  <2> QED
    BY <2>1, <2>2 DEF TypeOK
<1> QED
  BY <1>1, Invariance, PTL

\* The range of entries that a lookup keeps as iterators into the map (d_cachecache) is,
\* whenever it is taken for valid, what there is of its name and tag: nothing that erases
\* or inserts an entry forgets to invalidate it.
THEOREM RangeIsCurrent == Spec => []CachedRange
<1>1. IInv => CachedRange
  BY DEF IInv, RecPart, RecSound, CachedRange
<1> QED
  BY <1>1, Invariance, PTL

\* What the index of netmasks names is in the map, and where nothing is served stale and
\* all clocks agree, every live entry of a netmask is indexed: the comment "it should
\* already be indexed" of replace is true then.
THEOREM IndexIsComplete == Spec => []IndexComplete
<1>1. IInv => IndexComplete
  BY DEF IInv, RecPart, RecSound, Indexes, Settled, IndexComplete
<1> QED
  BY <1>1, Invariance, PTL

\* An entry that may still be extended, of either cache, has outlived its time by less
\* than two periods for each extension it is charged with, whatever the times at which
\* it was looked up (handleServeStaleBookkeeping, updateStaleEntry).
THEOREM StalenessBounded == Spec => []StaleBounded
<1>1. IInv => StaleBounded
  <2> SUFFICES ASSUME IInv, NEW i \in Shards
               PROVE  /\ \A k \in DOMAIN rec[i].map : Bounded(rec[i].map[k])
                      /\ \A k \in DOMAIN neg[i].map : Bounded(neg[i].map[k])
    BY DEF StaleBounded, Everything, Bounded
  <2> QED
    BY DEF IInv, RecPart, NegPart, RecSound, NegSound, Entries
<1> QED
  BY <1>1, Invariance, PTL

\* With serve-stale a name whose records were the last answer is denied by no entry of
\* the negative cache, which doCacheCheck asks first, once its resolver is done with
\* the wiping that follows the storing (updateCacheFromRecords).
THEOREM RecoveredIsServed == Spec => []RecoveredServed
<1>1. IInv => RecoveredServed
  BY DEF IInv
<1> QED
  BY <1>1, Invariance, PTL

\* No step, of whatever caller, puts something that is not authoritative in the place of
\* an authoritative entry good for more than the margin, or raises the time of an
\* authoritative NS set other than by an extension (shouldReplace, replace).
THEOREM AuthIsProtected == Spec => AuthProtected
<1>1. Protects => \A i \in Shards : \A k \in DOMAIN rec[i].map \cap DOMAIN rec'[i].map :
                     LET e == rec[i].map[k]
                         f == rec'[i].map[k]
                     IN  /\ (e.auth /\ e.ttd - Margin > now) => f.auth
                         /\ (e.auth /\ f.auth /\ k.type = "NS" /\ k.name # Root)
                              => (f.ttd <= e.ttd \/ f.servedStale > e.servedStale)
  BY DEF Protects, Guards, Guarded
<1> QED
  BY <1>1, Invariance, PTL DEF AuthProtected

-----------------------------------------------------------------------------
(* The size of a cache *)

CacheFits(c) ==
  /\ DOMAIN c = Shards
  /\ \A i \in Shards : /\ Lists(c[i].lru, DOMAIN c[i].map)
                       /\ \A k \in DOMAIN c[i].map : ShardOf[k.name] = i

InShards(c, I) == UNION {DOMAIN c[i].map : i \in I}

LEMMA SizeIs ==
  ASSUME NEW c, CacheFits(c), NEW i \in Shards
  PROVE  /\ IsFiniteSet(DOMAIN c[i].map) /\ Size(c[i]) = Cardinality(DOMAIN c[i].map)
         /\ Size(c[i]) \in Nat /\ Len(c[i].lru) = Size(c[i])
  BY ListCounts, FS_CardinalityType DEF CacheFits, Size

\* Shards have no key in common.
LEMMA Apart ==
  ASSUME NEW c, CacheFits(c), NEW i \in Shards, NEW I, I \subseteq Shards, i \notin I
  PROVE  DOMAIN c[i].map \cap InShards(c, I) = {}
  BY DEF CacheFits, InShards

\* One more shard has its size more.
LEMMA OneMoreShard ==
  ASSUME NEW c, CacheFits(c), NEW i \in Shards, NEW I, I \subseteq Shards, i \notin I,
         IsFiniteSet(InShards(c, I)), NEW J, J = I \cup {i}
  PROVE  /\ IsFiniteSet(InShards(c, J))
         /\ Cardinality(InShards(c, J)) = Cardinality(InShards(c, I)) + Size(c[i])
<1> DEFINE S == InShards(c, I)
           D == DOMAIN c[i].map
<1>1. InShards(c, J) = S \cup D
  BY DEF InShards
<1>2. S \cap D = {} /\ IsFiniteSet(D) /\ Size(c[i]) = Cardinality(D) /\ Size(c[i]) \in Nat
  BY Apart, SizeIs
<1>3. Cardinality(S) \in Nat
  BY FS_CardinalityType
<1> HIDE DEF S, D
<1>4. /\ IsFiniteSet(S \cup D)
      /\ Cardinality(S \cup D) = Cardinality(S) + Cardinality(D) - Cardinality(S \cap D)
  BY <1>2, FS_Union DEF S
<1>5. Cardinality(S \cap D) = 0
  BY <1>2, FS_EmptySet
<1>6. Cardinality(S \cup D) = Cardinality(S) + Size(c[i])
  <2>1. PICK a, b, d, e : /\ a = Cardinality(S \cup D) /\ b = Cardinality(S)
                          /\ d = Cardinality(D) /\ e = Cardinality(S \cap D)
    OBVIOUS
  <2>2. a = b + d - e /\ e = 0 /\ d = Size(c[i]) /\ d \in Nat /\ b \in Nat
    BY <1>2, <1>3, <1>4, <1>5, <2>1
  <2>3. a = b + d
    BY <2>2
  <2> QED
    BY <2>1, <2>2, <2>3
<1> QED
  BY <1>1, <1>4, <1>6 DEF S

\* How many keys there are in the first shards.
Counts(c) == [n \in 0 .. NumShards |-> Cardinality(InShards(c, 1 .. n))]

LEMMA FirstShards ==
  ASSUME NEW c, CacheFits(c)
  PROVE  \A n \in 0 .. NumShards :
           /\ IsFiniteSet(InShards(c, 1 .. n))
           /\ Counts(c)[n] = IF n = 0 THEN 0 ELSE Counts(c)[n - 1] + Size(c[n])
<1> DEFINE T == {n \in 0 .. NumShards : IsFiniteSet(InShards(c, 1 .. n))}
<1>1. NumShards \in Nat /\ Shards = 1 .. NumShards
  BY ShardedCacheAssumption DEF Shards
<1>2. InShards(c, 1 .. 0) = {}
  BY DEF InShards
<1>3. ASSUME NEW n \in 1 .. NumShards, IsFiniteSet(InShards(c, 1 .. n - 1))
      PROVE  /\ IsFiniteSet(InShards(c, 1 .. n))
             /\ Cardinality(InShards(c, 1 .. n)) = Cardinality(InShards(c, 1 .. n - 1)) + Size(c[n])
  <2> DEFINE I == 1 .. n - 1
             J == 1 .. n
  <2>1. n \in Shards /\ I \subseteq Shards /\ n \notin I /\ J = I \cup {n}
    BY <1>1
  <2> HIDE DEF I, J
  <2>2. IsFiniteSet(InShards(c, I))
    BY <1>3 DEF I
  <2>3. /\ IsFiniteSet(InShards(c, J))
        /\ Cardinality(InShards(c, J)) = Cardinality(InShards(c, I)) + Size(c[n])
    BY <2>1, <2>2, OneMoreShard
  <2> QED
    BY <2>3 DEF I, J
<1>4. \A n \in 0 .. NumShards : n \in T
  <2>1. 0 \in T
    BY <1>1, <1>2, FS_EmptySet
  <2>2. \A n \in 1 .. NumShards : n - 1 \in T => n \in T
    BY <1>1, <1>3
  <2> HIDE DEF T
  <2> QED
    BY <1>1, <2>1, <2>2, Induction
<1>5. ASSUME NEW n \in 0 .. NumShards
      PROVE  Counts(c)[n] = IF n = 0 THEN 0 ELSE Counts(c)[n - 1] + Size(c[n])
  <2>1. CASE n = 0
    BY <1>1, <1>2, <2>1, FS_EmptySet DEF Counts
  <2>2. CASE n # 0
    <3>1. n \in 1 .. NumShards /\ n - 1 \in 0 .. NumShards
      BY <1>1, <2>2
    <3>2. IsFiniteSet(InShards(c, 1 .. n - 1))
      BY <1>4, <3>1
    <3>3. Cardinality(InShards(c, 1 .. n)) = Cardinality(InShards(c, 1 .. n - 1)) + Size(c[n])
      BY <1>3, <3>1, <3>2
    <3> QED
      BY <2>2, <3>1, <3>3 DEF Counts
  <2> QED
    BY <2>1, <2>2
<1> QED
  BY <1>4, <1>5

\* What is added up shard by shard is the number of keys.
LEMMA TotalIs ==
  ASSUME NEW c, CacheFits(c)
  PROVE  /\ IsFiniteSet(InShards(c, Shards)) /\ Cardinality(InShards(c, Shards)) \in Nat
         /\ TotalSize(c) = Cardinality(InShards(c, Shards))
<1> DEFINE Adds(f) == f = [n \in 0 .. NumShards |-> IF n = 0 THEN 0 ELSE f[n - 1] + Size(c[n])]
           count == CHOOSE f : Adds(f)
<1>1. NumShards \in Nat /\ Shards = 1 .. NumShards
  BY ShardedCacheAssumption DEF Shards
<1>2. Adds(Counts(c))
  <2>1. \A n \in 0 .. NumShards :
          Counts(c)[n] = IF n = 0 THEN 0 ELSE Counts(c)[n - 1] + Size(c[n])
    BY FirstShards
  <2>2. Counts(c) = [n \in 0 .. NumShards |-> Counts(c)[n]]
    BY DEF Counts
  <2> QED
    BY <2>1, <2>2
<1>3. Adds(count)
  BY <1>2
<1>4. TotalSize(c) = count[NumShards]
  BY Zenon DEF TotalSize
<1>5. \A n \in 0 .. NumShards : count[n] = IF n = 0 THEN 0 ELSE count[n - 1] + Size(c[n])
  <2> HIDE DEF count
  <2> QED
    BY <1>3, Zenon
<1> HIDE DEF count
<1> DEFINE T == {n \in 0 .. NumShards : count[n] = Counts(c)[n]}
<1>6. 0 \in T /\ \A n \in 1 .. NumShards : n - 1 \in T => n \in T
  BY <1>1, <1>5, FirstShards
<1>7. NumShards \in T
  <2> HIDE DEF T
  <2>1. \A n \in 0 .. NumShards : n \in T
    BY <1>1, <1>6, Induction
  <2> QED
    BY <1>1, <2>1
<1>8. TotalSize(c) = Cardinality(InShards(c, Shards))
  BY <1>1, <1>4, <1>7 DEF Counts
<1>9. IsFiniteSet(InShards(c, Shards))
  BY <1>1, FirstShards
<1> QED
  BY <1>8, <1>9, FS_CardinalityType

\* The keys from shard j on are those of j and those behind it.
LEMMA LastShards ==
  ASSUME NEW c, CacheFits(c), NEW j \in Shards
  PROVE  /\ Cardinality(InShards(c, j .. NumShards)) =
              Cardinality(InShards(c, j + 1 .. NumShards)) + Size(c[j])
         /\ Cardinality(InShards(c, j .. NumShards)) \in Nat
         /\ Cardinality(InShards(c, j + 1 .. NumShards)) \in Nat
         /\ Cardinality(InShards(c, j .. NumShards)) <= TotalSize(c)
<1> DEFINE I == j + 1 .. NumShards
           J == j .. NumShards
<1>1. j \in Nat /\ NumShards \in Nat /\ I \subseteq Shards /\ J \subseteq Shards /\ J = I \cup {j} /\ j \notin I
  BY ShardedCacheAssumption DEF Shards
<1> HIDE DEF I, J
<1>2. InShards(c, I) \subseteq InShards(c, Shards) /\ InShards(c, J) \subseteq InShards(c, Shards)
  BY <1>1 DEF InShards
<1>3. IsFiniteSet(InShards(c, I)) /\ IsFiniteSet(InShards(c, J))
      /\ Cardinality(InShards(c, J)) <= Cardinality(InShards(c, Shards))
  BY <1>2, TotalIs, FS_Subset
<1>4. Cardinality(InShards(c, J)) = Cardinality(InShards(c, I)) + Size(c[j])
  BY <1>1, <1>3, OneMoreShard
<1> QED
  BY <1>3, <1>4, TotalIs, FS_CardinalityType DEF I, J

\* Keys are taken from a shard.
LEMMA ShardCut ==
  ASSUME NEW c, CacheFits(c), NEW j \in Shards, NEW ks, ks \subseteq DOMAIN c[j].map,
         NEW d, CacheFits(d), DOMAIN d[j].map = DOMAIN c[j].map \ ks,
         \A i \in Shards : i # j => d[i] = c[i]
  PROVE  /\ IsFiniteSet(ks) /\ Cardinality(ks) \in Nat /\ Cardinality(ks) <= Size(c[j])
         /\ TotalSize(d) = TotalSize(c) - Cardinality(ks)
         /\ \A I : I \subseteq Shards /\ j \notin I => InShards(d, I) = InShards(c, I)
<1> DEFINE A == InShards(c, Shards)
<1>1. InShards(d, Shards) = A \ ks
  <2>1. \A i \in Shards : i # j => DOMAIN c[i].map \cap ks = {}
    BY DEF CacheFits
  <2>2. \A i \in Shards : DOMAIN d[i].map = DOMAIN c[i].map \ ks
    BY <2>1
  <2> QED
    BY <2>2 DEF InShards
<1>2. ks \subseteq A
  BY DEF InShards
<1>3. IsFiniteSet(A) /\ TotalSize(c) = Cardinality(A) /\ TotalSize(d) = Cardinality(A \ ks)
  BY <1>1, TotalIs
<1> HIDE DEF A
<1>4. A \cap ks = ks
  BY <1>2
<1>5. Cardinality(A \ ks) = Cardinality(A) - Cardinality(ks)
  <2>1. Cardinality(A \ ks) = Cardinality(A) - Cardinality(A \cap ks)
    BY <1>3, FS_Difference
  <2>2. Cardinality(A \cap ks) = Cardinality(ks)
    BY <1>4, Zenon
  <2> QED
    BY <2>1, <2>2
<1>6. IsFiniteSet(ks) /\ Cardinality(ks) <= Size(c[j])
  BY SizeIs, FS_Subset
<1>7. \A I : I \subseteq Shards /\ j \notin I => InShards(d, I) = InShards(c, I)
  <2> SUFFICES ASSUME NEW I, I \subseteq Shards, j \notin I PROVE InShards(d, I) = InShards(c, I)
    OBVIOUS
  <2>1. \A i \in I : DOMAIN d[i].map = DOMAIN c[i].map
    OBVIOUS
  <2> QED
    BY <2>1 DEF InShards
<1> QED
  BY <1>3, <1>5, <1>6, <1>7, FS_CardinalityType

-----------------------------------------------------------------------------
(* Prunes *)

\* The share of a shard of size s, of the t entries to be erased from the c there are
\* from it on: no more than either, and what is left to erase is not more than what
\* is left.
LEMMA Share ==
  ASSUME NEW t \in Nat, NEW s \in Nat, NEW c \in Nat \ {0}, t <= c, s <= c
  PROVE  LET r == Round(t * s, c)
         IN  r \in Nat /\ r <= t /\ r <= s /\ t - r <= c - s
<1> DEFINE a == 2 * (t * s) + c
           b == 2 * c
           r == a \div b
<1>1. t * s \in Nat /\ a \in Nat /\ b \in Nat \ {0} /\ Round(t * s, c) = r
  BY DEF Round
<1>2. r \in Nat /\ b * r <= a /\ a < b * r + b
  <2> HIDE DEF a, b
  <2> QED
    BY <1>1
<1> HIDE DEF r
<1>3. r <= t
  <2>1. ASSUME r >= t + 1 PROVE FALSE
    <3>1. b * r >= b * (t + 1)
      <4> HIDE DEF b
      <4> QED
        BY <1>1, <1>2, <2>1
    <3>2. t * s <= t * c
      OBVIOUS
    <3>3. b * (t + 1) = 2 * (t * c) + 2 * c
      OBVIOUS
    <3>4. t * c \in Nat
      OBVIOUS
    <3> QED
      BY <1>1, <1>2, <3>1, <3>2, <3>3, <3>4
  <2> QED
    BY <1>2, <2>1
<1>4. r <= s
  <2>1. ASSUME r >= s + 1 PROVE FALSE
    <3>1. b * r >= b * (s + 1)
      <4> HIDE DEF b
      <4> QED
        BY <1>1, <1>2, <2>1
    <3>2. t * s <= c * s
      OBVIOUS
    <3>3. b * (s + 1) = 2 * (c * s) + 2 * c
      OBVIOUS
    <3>4. c * s \in Nat
      OBVIOUS
    <3> QED
      BY <1>1, <1>2, <3>1, <3>2, <3>3, <3>4
  <2> QED
    BY <1>2, <2>1
<1>5. t - r <= c - s
  <2>1. ASSUME r + 1 <= t + s - c PROVE FALSE
    <3>1. b * (r + 1) <= b * (t + s - c)
      <4> HIDE DEF b
      <4>1. PICK x \in Int : x = t + s - c
        OBVIOUS
      <4>2. b * (r + 1) <= b * x
        BY <1>1, <1>2, <2>1, <4>1
      <4> QED
        BY <4>1, <4>2
    <3>2. b * (r + 1) = b * r + b
      BY <1>2
    <3>3. (c - t) * (c - s) >= 0
      <4>1. c - t \in Nat /\ c - s \in Nat
        OBVIOUS
      <4> QED
        BY <4>1
    <3>4. (c - t) * (c - s) = c * c - c * s - c * t + t * s
      OBVIOUS
    <3>5. b * (t + s - c) = 2 * (c * t) + 2 * (c * s) - 2 * (c * c)
      OBVIOUS
    <3>6. PICK cc \in Int, cs \in Int, ct \in Int, ts \in Int :
            cc = c * c /\ cs = c * s /\ ct = c * t /\ ts = t * s
      OBVIOUS
    <3>7. cc - cs - ct + ts >= 0
      BY <3>3, <3>4, <3>6
    <3>8. b * r + b <= 2 * ct + 2 * cs - 2 * cc
      BY <3>1, <3>2, <3>5, <3>6
    <3>9. 2 * ts + c < b * r + b
      BY <1>2, <3>6
    <3>10. b * r \in Nat /\ b \in Nat
      BY <1>2
    <3> HIDE DEF b
    <3> QED
      BY <3>7, <3>8, <3>9, <3>10
  <2> QED
    BY <1>2, <2>1
<1> QED
  BY <1>1, <1>2, <1>3, <1>4, <1>5

\* The last shard's share is all of it.
LEMMA LastShare ==
  ASSUME NEW t \in Nat, NEW c \in Nat \ {0} PROVE Round(t * c, c) = t
<1> DEFINE a == 2 * (t * c) + c
           b == 2 * c
<1>1. t * c \in Nat /\ a \in Nat /\ b \in Nat \ {0} /\ Round(t * c, c) = a \div b
  BY DEF Round
<1>2. b * t <= a /\ a < b * t + b
  OBVIOUS
<1> HIDE DEF a, b
<1> QED
  BY <1>1, <1>2

\* The first n keys of a list are n keys.
LEMMA FirstKeys ==
  ASSUME NEW lru, NEW D, Lists(lru, D), NEW n \in 0 .. Len(lru)
  PROVE  ToSet(SubSeq(lru, 1, n)) \subseteq D /\ Cardinality(ToSet(SubSeq(lru, 1, n))) = n
<1> DEFINE part == SubSeq(lru, 1, n)
           P == {lru[i] : i \in 1 .. n}
<1>1. Len(lru) \in Nat /\ lru \in [1 .. Len(lru) -> D] /\ lru \in Seq(D) /\ n \in Nat
  BY DEF Lists
<1>2. part \in Seq(P) /\ Len(part) = n /\ \A i \in 1 .. n : part[i] = lru[i]
  BY <1>1
<1>3. P \subseteq D
  BY <1>1
<1> HIDE DEF part
<1>4. \A k \in P : \E i \in 1 .. Len(part) : part[i] = k
  BY <1>2
<1>5. \A i, j \in 1 .. Len(part) : part[i] = part[j] => i = j
  BY <1>1, <1>2 DEF Lists
<1> HIDE DEF P
<1>6. Lists(part, P)
  BY <1>2, <1>4, <1>5 DEF Lists
<1>7. ToSet(part) = P /\ Cardinality(P) = n
  BY <1>2, <1>6, ListCounts
<1>8. Cardinality(ToSet(part)) = n
  BY <1>7, Zenon
<1> QED
  BY <1>3, <1>7, <1>8 DEF part

\* What the code says of a prune: `toTrim' of `excess' are still to be erased; and as long
\* as nobody else touches the cache, `cacheSize' is what it holds from this shard on.
PrunerTyped(p) ==
  /\ p \in [pc : {"idle", "scan", "trim"}, shard : Shards, t : {p.t}, cacheSize : Nat,
            toTrim : Nat, lookAt : Nat, erased : Nat, excess : Nat, trimmed : Nat,
            alone : BOOLEAN]

Scans(p, c) ==
  /\ p.toTrim = p.excess /\ p.trimmed = 0 /\ p.cacheSize > 0
  /\ p.toTrim = Larger(0, p.cacheSize - setup.maxCached)
  /\ p.alone => p.cacheSize = TotalSize(c) + p.erased

Trims(p, c) ==
  /\ p.trimmed + p.toTrim = p.excess - p.erased /\ p.toTrim > 0
  /\ p.alone => /\ p.cacheSize = Cardinality(InShards(c, p.shard .. NumShards))
                /\ TotalSize(c) = setup.maxCached + p.toTrim
                /\ p.toTrim <= p.cacheSize

PruneSound(p, c) ==
  /\ PrunerTyped(p)
  /\ p.pc = "scan" => Scans(p, c)
  /\ p.pc = "trim" => Trims(p, c)

LEMMA IdleSound ==
  ASSUME NEW c PROVE PruneSound(IdlePruner, c) /\ IdlePruner.pc = "idle"
<1>1. 1 \in Shards
  BY ShardedCacheAssumption DEF Shards
<1> QED
  BY <1>1 DEF PruneSound, PrunerTyped, IdlePruner

LEMMA PrunerBegins ==
  ASSUME Rest, NEW c, CacheFits(c), NEW t
  PROVE  PruneSound(PrunerAt(TotalSize(c), t), c)
<1> DEFINE size == TotalSize(c)
           toTrim == Larger(0, size - setup.maxCached)
           lookAt == IF toTrim = 0 THEN size \div 10 ELSE Larger(5 * toTrim, size \div 10)
           p == [IdlePruner EXCEPT !.pc = "scan", !.t = t, !.cacheSize = size,
                   !.toTrim = toTrim, !.excess = toTrim, !.lookAt = lookAt]
<1>1. PrunerAt(size, t) = IF size = 0 THEN IdlePruner ELSE p
  BY DEF PrunerAt
<1>2. size \in Nat /\ setup.maxCached \in Nat
  BY TotalIs, SetupsAssumption DEF Rest
<1>3. toTrim \in Nat /\ lookAt \in Nat
  BY <1>2 DEF Larger
<1>4. 1 \in Shards
  BY ShardedCacheAssumption DEF Shards
<1> HIDE DEF size, lookAt
<1>5. /\ p.pc = "scan" /\ p.toTrim = toTrim /\ p.excess = toTrim /\ p.trimmed = 0
      /\ p.cacheSize = size /\ p.erased = 0
      /\ p \in [pc : {"scan"}, shard : Shards, t : {p.t}, cacheSize : {size}, toTrim : {toTrim},
                lookAt : {lookAt}, erased : {0}, excess : {toTrim}, trimmed : {0},
                alone : BOOLEAN]
  BY <1>4 DEF IdlePruner
<1> HIDE DEF p
<1>6. PrunerTyped(p)
  <2> HIDE DEF toTrim
  <2> QED
    BY <1>2, <1>3, <1>5 DEF PrunerTyped
<1>7. size # 0 => Scans(p, c)
  BY <1>2, <1>5 DEF Scans, size
<1>8. size # 0 => PruneSound(p, c)
  BY <1>5, <1>6, <1>7 DEF PruneSound
<1> QED
  BY <1>1, <1>8, IdleSound DEF size

\* A pruner with other fields.
Other(p, pc, shard, cacheSize, toTrim, erased, trimmed) ==
  [p EXCEPT !.pc = pc, !.shard = shard, !.cacheSize = cacheSize, !.toTrim = toTrim,
            !.erased = erased, !.trimmed = trimmed]

LEMMA NextPruner ==
  ASSUME NEW p, PrunerTyped(p), NEW pc, pc \in {"scan", "trim"}, NEW shard, shard \in Shards,
         NEW cacheSize, cacheSize \in Nat, NEW toTrim, toTrim \in Nat,
         NEW erased, erased \in Nat, NEW trimmed, trimmed \in Nat,
         NEW q, q = Other(p, pc, shard, cacheSize, toTrim, erased, trimmed)
  PROVE  /\ PrunerTyped(q) /\ q.pc = pc /\ q.shard = shard /\ q.cacheSize = cacheSize
         /\ q.toTrim = toTrim /\ q.erased = erased /\ q.trimmed = trimmed
         /\ q.excess = p.excess /\ q.alone = p.alone
  BY DEF PrunerTyped, Other

\* A shard has been scanned and d is the cache then.
LEMMA PrunerScans ==
  ASSUME Rest, NEW c, CacheFits(c), NEW p, PruneSound(p, c), p.pc = "scan", NEW d, CacheFits(d),
         DOMAIN d[p.shard].map = DOMAIN c[p.shard].map \ Scanned(p, c[p.shard]),
         \A i \in Shards : i # p.shard => d[i] = c[i]
  PROVE  PruneSound(AfterScan(p, c[p.shard]), d)
<1> DEFINE j == p.shard
           ks == Scanned(p, c[j])
           m == Cardinality(ks)
           erased == p.erased + m
           q == AfterScan(p, c[j])
<1>1. PrunerTyped(p) /\ Scans(p, c) /\ j \in Shards
  BY DEF PruneSound, PrunerTyped
<1>2. ks \subseteq DOMAIN c[j].map
  <2>1. Lists(c[j].lru, DOMAIN c[j].map) /\ Len(c[j].lru) = Size(c[j]) /\ Size(c[j]) \in Nat
    BY <1>1, SizeIs DEF CacheFits
  <2> DEFINE toScan == Ceiling(p.lookAt * Size(c[j]), p.cacheSize)
             n == Smaller(toScan + 1, Size(c[j]))
             lru == c[j].lru
  <2>2. toScan \in Nat
    <3>1. PICK a \in Nat, b \in Nat \ {0} : a = p.lookAt * Size(c[j]) /\ b = p.cacheSize
      BY <1>1, <2>1 DEF PrunerTyped, Scans
    <3>2. Ceiling(a, b) \in Nat
      BY DEF Ceiling
    <3> QED
      BY <3>1, <3>2
  <2>3. ks \subseteq ToSet(SubSeq(lru, 1, n))
    BY DEF Scanned
  <2> HIDE DEF toScan
  <2>4. n \in 0 .. Len(lru)
    BY <2>1, <2>2 DEF Smaller
  <2> HIDE DEF n
  <2> QED
    BY <2>1, <2>3, <2>4, FirstKeys
<1>3. m \in Nat /\ TotalSize(d) = TotalSize(c) - m /\ TotalSize(c) \in Nat
  BY <1>1, <1>2, ShardCut, TotalIs
<1>4. erased \in Nat /\ p.erased \in Nat /\ p.toTrim \in Nat /\ p.cacheSize \in Nat
      /\ setup.maxCached \in Nat
  BY <1>1, <1>3, SetupsAssumption DEF PrunerTyped, Rest
<1>5. NumShards \in Nat /\ Shards = 1 .. NumShards
  BY ShardedCacheAssumption DEF Shards
<1>6. CASE j < NumShards
  <2>1. q = [p EXCEPT !.shard = j + 1, !.erased = erased]
    BY <1>6 DEF AfterScan
  <2>2. PICK next \in Shards : next = j + 1
    BY <1>1, <1>5, <1>6
  <2> HIDE DEF q, erased, m, j
  <2>3. p.trimmed \in Nat
    BY <1>1 DEF PrunerTyped
  <2>4. q = Other(p, "scan", next, p.cacheSize, p.toTrim, erased, p.trimmed)
    BY <1>1, <2>1, <2>2 DEF PrunerTyped, Other
  <2>5. /\ q.pc = "scan" /\ q.erased = erased /\ q.toTrim = p.toTrim
        /\ q.excess = p.excess /\ q.trimmed = p.trimmed /\ q.cacheSize = p.cacheSize
        /\ q.alone = p.alone /\ PrunerTyped(q)
    BY <1>1, <1>4, <2>3, <2>4, NextPruner
  <2>6. p.alone => p.cacheSize = TotalSize(d) + erased
    BY <1>1, <1>3, <1>4 DEF Scans, erased
  <2>7. Scans(q, d)
    BY <1>1, <2>5, <2>6 DEF Scans
  <2> QED
    BY <2>5, <2>7 DEF PruneSound, q, j
<1>7. CASE ~(j < NumShards) /\ erased >= p.toTrim
  BY <1>7, IdleSound DEF AfterScan
<1>8. CASE ~(j < NumShards) /\ ~(erased >= p.toTrim)
  <2>1. q = [p EXCEPT !.pc = "trim", !.shard = 1, !.erased = erased,
                      !.toTrim = p.toTrim - erased, !.cacheSize = p.cacheSize - erased]
    BY <1>8 DEF AfterScan
  <2>2. p.cacheSize - erased \in Nat /\ p.toTrim - erased \in Nat \ {0}
    <3> HIDE DEF erased
    <3> QED
      BY <1>1, <1>4, <1>8 DEF Scans, Larger
  <2>7. PICK size \in Nat, left \in Nat : size = p.cacheSize - erased /\ left = p.toTrim - erased
    BY <2>2
  <2> HIDE DEF q, erased, m, j
  <2>3. /\ q.pc = "trim" /\ q.shard = 1 /\ q.erased = erased /\ q.toTrim = p.toTrim - erased
        /\ q.excess = p.excess /\ q.trimmed = 0 /\ q.cacheSize = p.cacheSize - erased
        /\ q.alone = p.alone /\ PrunerTyped(q)
    <3>1. 1 \in Shards /\ p.trimmed = 0 /\ p.trimmed \in Nat
      BY <1>1, <1>5, ShardedCacheAssumption DEF Scans
    <3>2. q = Other(p, "trim", 1, size, left, erased, p.trimmed)
      BY <1>1, <2>1, <2>7 DEF PrunerTyped, Other
    <3>3. /\ q.pc = "trim" /\ q.shard = 1 /\ q.erased = erased /\ q.toTrim = left
          /\ q.excess = p.excess /\ q.trimmed = p.trimmed /\ q.cacheSize = size
          /\ q.alone = p.alone /\ PrunerTyped(q)
      BY <1>1, <1>4, <3>1, <3>2, NextPruner
    <3> QED
      BY <2>7, <3>1, <3>3
  <2>4. InShards(d, 1 .. NumShards) = InShards(d, Shards)
    BY <1>5
  <2>5. Cardinality(InShards(d, 1 .. NumShards)) = TotalSize(d)
    BY <2>4, TotalIs
  <2>6. Trims(q, d)
    <3>1. q.trimmed + q.toTrim = q.excess - q.erased /\ q.toTrim > 0
      <4>1. p.toTrim = p.excess
        BY <1>1 DEF Scans
      <4>2. p.excess \in Nat
        BY <1>4, <4>1
      <4>3. q.toTrim = left /\ left = p.toTrim - erased /\ left > 0
        BY <2>2, <2>3, <2>7
      <4> QED
        BY <1>4, <2>3, <4>1, <4>2, <4>3
    <3>2. ASSUME q.alone
          PROVE  /\ q.cacheSize = TotalSize(d) /\ TotalSize(d) = setup.maxCached + q.toTrim
                 /\ q.toTrim <= q.cacheSize
      <4>1. p.cacheSize = TotalSize(c) + p.erased /\ p.toTrim = p.cacheSize - setup.maxCached
        BY <1>1, <1>4, <2>2, <2>3, <3>2 DEF Scans, Larger
      <4> QED
        BY <1>3, <1>4, <2>2, <2>3, <4>1 DEF erased
    <3> QED
      BY <2>3, <2>5, <3>1, <3>2 DEF Trims
  <2> QED
    BY <2>3, <2>6 DEF PruneSound, q, j
<1> QED
  BY <1>6, <1>7, <1>8

\* How many entries a shard gives up: no more than it has and no more than are too many;
\* and its share of them exactly, as long as the counters are right.
LEMMA TrimCount ==
  ASSUME NEW p, PrunerTyped(p), NEW x, NEW s \in Nat, s = Size(x), NEW n, n \in TrimCounts(p, x)
  PROVE  /\ n \in Nat /\ n <= p.toTrim /\ n <= s
         /\ (p.toTrim > 0 /\ p.toTrim <= p.cacheSize /\ s <= p.cacheSize)
              => p.toTrim - n <= p.cacheSize - s
         /\ (p.toTrim > 0 /\ p.toTrim <= p.cacheSize /\ s = p.cacheSize) => n = p.toTrim
<1>1. PICK t \in Nat, c \in Nat : t = p.toTrim /\ c = p.cacheSize
  BY DEF PrunerTyped
<1>2. CASE c = 0
  <2>1. n \in 0 .. Smaller(t, s)
    BY <1>1, <1>2 DEF TrimCounts
  <2> QED
    BY <1>1, <1>2, <2>1 DEF Smaller
<1>3. CASE c # 0
  <2>1. PICK r : r = Round(t * s, c)
    OBVIOUS
  <2>2. n = Smaller(r, Smaller(t, s))
    BY <1>1, <1>3, <2>1 DEF TrimCounts
  <2>3. r \in Nat
    <3>1. PICK a \in Nat : a = t * s
      OBVIOUS
    <3>2. Round(a, c) \in Nat
      BY <1>3 DEF Round
    <3> QED
      BY <2>1, <3>1, <3>2
  <2>4. (t <= c /\ s <= c) => r <= t /\ r <= s /\ t - r <= c - s
    BY <1>3, <2>1, Share
  <2>5. s = c => r = t
    BY <1>3, <2>1, LastShare
  <2> QED
    BY <1>1, <2>2, <2>3, <2>4, <2>5 DEF Smaller
<1> QED
  BY <1>2, <1>3

\* A shard has been trimmed and d is the cache then.
LEMMA PrunerTrims ==
  ASSUME Rest, NEW c, CacheFits(c), TotalSize(c) < Modulus, NEW p, PruneSound(p, c), p.pc = "trim",
         NEW n, n \in TrimCounts(p, c[p.shard]), NEW d, CacheFits(d),
         DOMAIN d[p.shard].map = DOMAIN c[p.shard].map \ Trimmed(c[p.shard], n),
         \A i \in Shards : i # p.shard => d[i] = c[i]
  PROVE  /\ PruneSound(AfterTrim(p, c[p.shard], n), d)
         /\ HitsTarget(p, AfterTrim(p, c[p.shard], n), c, d)
<1> DEFINE j == p.shard
           q == AfterTrim(p, c[j], n)
           ks == Trimmed(c[j], n)
           rest == j + 1 .. NumShards
<1>1. PrunerTyped(p) /\ Trims(p, c) /\ j \in Shards
  BY DEF PruneSound, PrunerTyped
<1>2. PICK s \in Nat : s = Size(c[j]) /\ Len(c[j].lru) = s
  BY <1>1, SizeIs
<1>3. /\ p.toTrim \in Nat /\ p.cacheSize \in Nat /\ p.trimmed \in Nat /\ p.excess \in Nat
      /\ p.erased \in Nat /\ setup.maxCached \in Nat
  BY <1>1, SetupsAssumption DEF PrunerTyped, Rest
<1>4. NumShards \in Nat /\ Shards = 1 .. NumShards /\ Modulus \in Nat \ {0}
  BY ShardedCacheAssumption DEF Shards
<1>5. n \in Nat /\ n <= p.toTrim /\ n <= s
  BY <1>1, <1>2, TrimCount
<1>6. ks \subseteq DOMAIN c[j].map /\ Cardinality(ks) = n
  <2>1. Lists(c[j].lru, DOMAIN c[j].map) /\ n \in 0 .. Len(c[j].lru)
    BY <1>1, <1>2, <1>5 DEF CacheFits
  <2> QED
    BY <2>1, FirstKeys DEF Trimmed
<1>7. /\ TotalSize(d) = TotalSize(c) - n /\ TotalSize(c) \in Nat
      /\ InShards(d, rest) = InShards(c, rest)
  <2>1. TotalSize(d) = TotalSize(c) - Cardinality(ks)
        /\ \A I : I \subseteq Shards /\ j \notin I => InShards(d, I) = InShards(c, I)
    BY <1>1, <1>6, ShardCut
  <2>2. rest \subseteq Shards /\ j \notin rest
    BY <1>1, <1>4
  <2> QED
    BY <1>6, <2>1, <2>2, TotalIs
<1>8. PICK ahead \in Nat :
        /\ ahead = Cardinality(InShards(c, rest))
        /\ Cardinality(InShards(c, j .. NumShards)) = ahead + s
        /\ ahead + s <= TotalSize(c)
  BY <1>1, <1>2, LastShards
<1>9. p.trimmed + (TotalSize(c) - TotalSize(d)) <= p.excess - p.erased
  BY <1>1, <1>3, <1>5, <1>7 DEF Trims
<1>10. ASSUME p.alone
       PROVE  /\ p.cacheSize = ahead + s /\ p.toTrim - n <= ahead
              /\ TotalSize(d) = setup.maxCached + p.toTrim - n
              /\ ahead = 0 => n = p.toTrim
  <2>1. /\ p.cacheSize = ahead + s /\ TotalSize(c) = setup.maxCached + p.toTrim
        /\ p.toTrim <= p.cacheSize /\ p.toTrim > 0
    BY <1>1, <1>8, <1>10 DEF Trims
  <2>2. p.toTrim - n <= p.cacheSize - s /\ (s = p.cacheSize => n = p.toTrim)
    BY <1>1, <1>2, <2>1, TrimCount
  <2> QED
    BY <1>3, <1>5, <1>7, <2>1, <2>2
<1>11. CASE p.toTrim <= n \/ j = NumShards
  <2>1. q = IdlePruner
    BY <1>11 DEF AfterTrim
  <2>2. ASSUME p.alone PROVE TotalSize(d) = setup.maxCached
    <3>1. ASSUME j = NumShards PROVE ahead = 0
      <4>1. InShards(c, rest) = {}
        BY <1>4, <3>1 DEF InShards
      <4>2. Cardinality(InShards(c, rest)) = 0
        BY <4>1, FS_EmptySet
      <4> QED
        BY <1>8, <4>2
    <3>2. n = p.toTrim
      BY <1>3, <1>5, <1>10, <1>11, <2>2, <3>1
    <3> QED
      BY <1>3, <1>10, <2>2, <3>2
  <2> HIDE DEF j, q
  <2> QED
    BY <1>9, <2>1, <2>2, IdleSound DEF HitsTarget, q, j
<1>12. CASE ~(p.toTrim <= n \/ j = NumShards)
  <2>1. PICK next \in Shards : next = j + 1
    BY <1>1, <1>4, <1>12
  <2>2. PICK left \in Nat, gone \in Nat, size \in Nat :
          /\ left = p.toTrim - n /\ gone = p.trimmed + n /\ size = (p.cacheSize - s) % Modulus
    <3>1. PICK x \in Int : x = p.cacheSize - s
      BY <1>3
    <3>2. PICK m \in Nat \ {0} : m = Modulus
      BY <1>4
    <3>3. x % m \in Nat
      OBVIOUS
    <3>4. (p.cacheSize - s) % Modulus \in Nat
      BY <3>1, <3>2, <3>3
    <3>5. p.toTrim - n \in Nat /\ p.trimmed + n \in Nat
      BY <1>3, <1>5
    <3> QED
      BY <3>4, <3>5
  <2>3. q = [p EXCEPT !.shard = next, !.toTrim = left, !.trimmed = gone, !.cacheSize = size]
    BY <1>2, <1>12, <2>1, <2>2 DEF AfterTrim
  <2> HIDE DEF j, q
  <2>4. q = Other(p, "trim", next, size, left, p.erased, gone)
    BY <1>1, <2>3 DEF PrunerTyped, Other
  <2>5. /\ q.pc = "trim" /\ q.shard = next /\ q.cacheSize = size /\ q.toTrim = left
        /\ q.erased = p.erased /\ q.trimmed = gone
        /\ q.excess = p.excess /\ q.alone = p.alone /\ PrunerTyped(q)
    BY <1>1, <1>3, <2>4, NextPruner
  <2>6. q.trimmed + q.toTrim = q.excess - q.erased /\ q.toTrim > 0
    <3>1. p.trimmed + p.toTrim = p.excess - p.erased
      BY <1>1 DEF Trims
    <3> QED
      BY <1>3, <1>5, <1>12, <2>2, <2>5, <3>1
  <2>7. ASSUME q.alone
        PROVE  /\ q.cacheSize = Cardinality(InShards(d, q.shard .. NumShards))
               /\ TotalSize(d) = setup.maxCached + q.toTrim
               /\ q.toTrim <= q.cacheSize
    <3>1. p.cacheSize = ahead + s /\ left <= ahead /\ TotalSize(d) = setup.maxCached + p.toTrim - n
      BY <1>10, <2>2, <2>5, <2>7
    <3>2. ahead < Modulus
      BY <1>4, <1>7, <1>8
    <3>3. size = ahead
      <4>1. p.cacheSize - s = ahead
        BY <3>1
      <4> QED
        BY <1>4, <2>2, <3>2, <4>1
    <3>4. Cardinality(InShards(d, q.shard .. NumShards)) = ahead
      <4>1. InShards(d, q.shard .. NumShards) = InShards(c, rest)
        BY <1>7, <2>1, <2>5
      <4> QED
        BY <1>8, <4>1, Zenon
    <3> QED
      BY <1>3, <1>5, <2>2, <2>5, <3>1, <3>3, <3>4
  <2>8. PruneSound(q, d)
    BY <2>5, <2>6, <2>7 DEF PruneSound, Trims
  <2> QED
    BY <1>9, <2>5, <2>8 DEF HitsTarget, q, j
<1> QED
  BY <1>11, <1>12

\* Somebody else changes the cache.
LEMMA PrunerDisturbed ==
  ASSUME NEW c, NEW d, NEW p, PruneSound(p, c),
         NEW q, q = IF p.pc = "idle" THEN p ELSE [p EXCEPT !.alone = FALSE]
  PROVE  PruneSound(q, d) /\ (q # p => q.pc = p.pc /\ q.shard = p.shard)
<1>1. CASE p.pc = "idle"
  BY <1>1 DEF PruneSound
<1>2. CASE p.pc # "idle"
  <2>1. PrunerTyped(p) /\ q = [p EXCEPT !.alone = FALSE]
    BY <1>2 DEF PruneSound
  <2>2. /\ PrunerTyped(q) /\ q.alone = FALSE /\ q.pc = p.pc /\ q.shard = p.shard
        /\ q.cacheSize = p.cacheSize /\ q.toTrim = p.toTrim /\ q.erased = p.erased
        /\ q.trimmed = p.trimmed /\ q.excess = p.excess
    BY <2>1 DEF PrunerTyped
  <2> QED
    BY <2>2 DEF PruneSound, Scans, Trims
<1> QED
  BY <1>1, <1>2

\* What a step does to the record cache and its prune ...
RecUsed ==
  /\ setup' = setup
  /\ \/ UNCHANGED recVars
     \/ recPruner' = Disturbed(recPruner)
     \/ PruneRec(now) \/ ScanRec \/ TrimRec

\* ... and to the negative cache and its prune.
NegUsed ==
  \/ UNCHANGED negVars
  \/ negPruner' = Disturbed(negPruner)
  \/ PruneNeg(now) \/ ScanNeg \/ TrimNeg

LEMMA NegSet ==
  ASSUME NEW i, NEW x, SetNeg(i, x) PROVE NegUsed
  BY DEF SetNeg, NegUsed, Disturbed

LEMMA RecSet ==
  ASSUME NEW i, NEW x, SetShard(i, x), setup' = setup PROVE RecUsed
  BY DEF SetShard, RecUsed

LEMMA ResolveUses ==
  ASSUME NEW r, Resolve(r) PROVE RecUsed /\ NegUsed
<1>1. ASSUME NEW name, NEW type, NEW client, Begin(r, name, type, client) PROVE RecUsed /\ NegUsed
  BY <1>1 DEF Begin, RecUsed, NegUsed
<1>2. ASSUME NEW task, NEW client, BeginTask(r, task, client) PROVE RecUsed /\ NegUsed
  BY <1>2 DEF BeginTask, RecUsed, NegUsed
<1>3. ASSUME NEW t, CheckTop(r, t) PROVE RecUsed /\ NegUsed
  <2>1. \E name, l : NegGet(name, l)
    BY <1>3, Zenon DEF CheckTop
  <2>2. setup' = setup /\ UNCHANGED recVars
    BY <1>3 DEF CheckTop
  <2> QED
    BY <2>1, <2>2, NegSet DEF NegGet, RecUsed
<1>4. ASSUME NEW t, CheckName(r, t) PROVE RecUsed /\ NegUsed
  <2>1. \E name, l : NegGet(name, l)
    BY <1>4, Zenon DEF CheckName
  <2>2. setup' = setup /\ UNCHANGED recVars
    BY <1>4 DEF CheckName
  <2> QED
    BY <2>1, <2>2, NegSet DEF NegGet, RecUsed
<1>5. ASSUME NEW t, CheckAbove(r, t) PROVE RecUsed /\ NegUsed
  <2>1. \E name, l : NegGet(name, l)
    BY <1>5, Zenon DEF CheckAbove
  <2>2. setup' = setup /\ UNCHANGED recVars
    BY <1>5 DEF CheckAbove
  <2> QED
    BY <2>1, <2>2, NegSet DEF NegGet, RecUsed
<1>6. ASSUME NEW t, NEW requireAuth, CheckRec(r, t, requireAuth) PROVE RecUsed /\ NegUsed
  <2>1. \E name, l : Get(name, l)
    BY <1>6, Zenon DEF CheckRec
  <2>2. setup' = setup /\ UNCHANGED negVars
    BY <1>6 DEF CheckRec
  <2> QED
    BY <2>1, <2>2, RecSet DEF Get, NegUsed
<1>7. ASSUME NEW t, NEW place, NEW answer, AnswerRecords(r, t, place, answer)
      PROVE  RecUsed /\ NegUsed
  BY <1>7, RecSet DEF AnswerRecords, Replace, NegUsed
<1>8. ASSUME NEW t, NEW ttl, NEW root, AnswerNXDomain(r, t, ttl, root) PROVE RecUsed /\ NegUsed
  <2>1. \E k, e : NegAdd(k, e)
    BY <1>8, Zenon DEF AnswerNXDomain, Deny
  <2>2. setup' = setup /\ UNCHANGED recVars
    BY <1>8 DEF AnswerNXDomain
  <2> QED
    BY <2>1, <2>2, NegSet DEF NegAdd, RecUsed
<1>9. ASSUME NEW t, NEW ttl, AnswerNoData(r, t, ttl) PROVE RecUsed /\ NegUsed
  <2>1. \E k, e : NegAdd(k, e)
    BY <1>9, Zenon DEF AnswerNoData, Deny
  <2>2. setup' = setup /\ UNCHANGED recVars
    BY <1>9 DEF AnswerNoData
  <2> QED
    BY <2>1, <2>2, NegSet DEF NegAdd, RecUsed
<1>10. ASSUME DenyTop(r) PROVE RecUsed /\ NegUsed
  <2>1. \E k, e : NegAdd(k, e)
    BY <1>10, Zenon DEF DenyTop, Deny
  <2>2. setup' = setup /\ UNCHANGED recVars
    BY <1>10 DEF DenyTop
  <2> QED
    BY <2>1, <2>2, NegSet DEF NegAdd, RecUsed
<1>11. ASSUME WipeDenial(r) PROVE RecUsed /\ NegUsed
  BY <1>11, NegSet DEF WipeDenial, WipeTyped, RecUsed
<1>12. ASSUME ZapCNAME(r) PROVE RecUsed /\ NegUsed
  BY <1>12, RecSet DEF ZapCNAME, WipeRec, NegUsed
<1>13. ASSUME NoAnswer(r) \/ AnswerNoCNAME(r) PROVE RecUsed /\ NegUsed
  BY <1>13 DEF NoAnswer, AnswerNoCNAME, RecUsed, NegUsed
<1> QED
  BY <1>1, <1>2, <1>3, <1>4, <1>5, <1>6, <1>7, <1>8, <1>9, <1>10, <1>11, <1>12, <1>13 DEF Resolve

LEMMA NextUses ==
  ASSUME [Next]_vars PROVE RecUsed /\ NegUsed
<1>1. CASE \E r \in setup.resolvers : Resolve(r)
  BY <1>1, ResolveUses
<1>2. CASE LookUp
  <2>1. \E name, l : Get(name, l)
    BY <1>2, ZenonT(60) DEF LookUp
  <2>2. setup' = setup /\ UNCHANGED negVars
    BY <1>2 DEF LookUp
  <2> QED
    BY <2>1, <2>2, RecSet DEF Get, NegUsed
<1>3. CASE Store
  BY <1>3, RecSet DEF Store, Replace, NegUsed
<1>4. CASE StoreDenial
  <2>1. \E k, e : NegAdd(k, e)
    BY <1>4, Zenon DEF StoreDenial, Deny
  <2>2. setup' = setup /\ UNCHANGED recVars
    BY <1>4 DEF StoreDenial
  <2> QED
    BY <2>1, <2>2, NegSet DEF NegAdd, RecUsed
<1>5. CASE Wipe
  <2>1. setup' = setup
    BY <1>5 DEF Wipe
  <2>2. \/ UNCHANGED negVars /\ \E i, names, types : WipeRec(i, names, types)
        \/ UNCHANGED recVars /\ \E i, names : WipeNeg(i, names)
    BY <1>5, Zenon DEF Wipe
  <2> QED
    BY <2>1, <2>2, RecSet, NegSet DEF WipeRec, WipeNeg, RecUsed, NegUsed
<1>6. CASE ClearDenials
  BY <1>6, NegSet DEF ClearDenials, ClearNeg, RecUsed
<1>7. CASE Age
  <2>1. \E t, name : AgeRec(t, name, "NS")
    BY <1>7, Zenon DEF Age
  <2>2. \E i, x : SetShard(i, x)
    BY <2>1, Zenon DEF AgeRec
  <2>3. setup' = setup /\ UNCHANGED negVars
    BY <1>7 DEF Age
  <2> QED
    BY <2>2, <2>3, RecSet DEF NegUsed
<1>8. CASE Validate
  <2>1. setup' = setup
    BY <1>8 DEF Validate
  <2>2. \/ /\ UNCHANGED negVars
           /\ \E t, name, type, client, tag, requireAuth, state :
                ValidateRec(t, name, type, client, tag, requireAuth, state)
        \/ UNCHANGED recVars /\ \E k, t, bogus : NegValidate(k, t, bogus)
    BY <1>8, Zenon DEF Validate
  <2>3. ASSUME NEW t, NEW name, NEW type, NEW client, NEW tag, NEW requireAuth, NEW state,
               ValidateRec(t, name, type, client, tag, requireAuth, state)
        PROVE  \E i, x : SetShard(i, x)
    BY <2>3, Zenon DEF ValidateRec
  <2>4. ASSUME NEW k, NEW t, NEW bogus, NegValidate(k, t, bogus) PROVE \E i, x : SetNeg(i, x)
    BY <2>4, Zenon DEF NegValidate
  <2> QED
    BY <2>1, <2>2, <2>3, <2>4, RecSet, NegSet DEF RecUsed, NegUsed
<1>9. CASE PruneStep
  BY <1>9 DEF PruneStep, RecUsed, NegUsed
<1>10. CASE Tick \/ UNCHANGED vars
  BY <1>10 DEF Tick, vars, RecUsed, NegUsed
<1> QED
  BY <1>1, <1>2, <1>3, <1>4, <1>5, <1>6, <1>7, <1>8, <1>9, <1>10 DEF Next

\* Both caches are ones whose sizes can be told, and a prune takes from its shard what it
\* says.
LEMMA CachesFit ==
  ASSUME RecPart, NegPart PROVE CacheFits(rec) /\ CacheFits(neg)
  BY DEF RecPart, NegPart, RecSound, NegSound, Hashed, CacheFits

LEMMA CachesFitNext ==
  ASSUME RecPart', NegPart' PROVE CacheFits(rec') /\ CacheFits(neg')
  BY DEF RecPart, NegPart, RecSound, NegSound, Hashed, CacheFits

LEMMA RecCut ==
  ASSUME RecPart, NEW i \in Shards, NEW ks, NEW d,
         d = [rec EXCEPT ![i] = Removed(Invalidated(rec[i]), ks)]
  PROVE  /\ DOMAIN d[i].map = DOMAIN rec[i].map \ ks
         /\ \A j \in Shards : j # i => d[j] = rec[j]
<1>1. PICK v : v = Invalidated(rec[i]) /\ RecFields(v) /\ v.map = rec[i].map
  BY InvalidatedSound DEF RecPart, RecSound
<1>2. PICK x : x = Removed(v, ks) /\ DOMAIN x.map = DOMAIN rec[i].map \ ks
  <2>1. Removed(v, ks).map = CutMap(rec[i].map, ks)
    BY <1>1, RemovedFields
  <2> QED
    BY <2>1 DEF CutMap
<1>3. d = [rec EXCEPT ![i] = x]
  BY <1>1, <1>2
<1> QED
  BY <1>2, <1>3 DEF RecPart

LEMMA NegCut ==
  ASSUME NegPart, NEW i \in Shards, NEW ks, NEW x, x = Without(neg[i], ks),
         NEW d, d = [neg EXCEPT ![i] = x]
  PROVE  /\ DOMAIN d[i].map = DOMAIN neg[i].map \ ks
         /\ \A j \in Shards : j # i => d[j] = neg[j]
<1>1. DOMAIN x.map = DOMAIN neg[i].map \ ks
  BY DEF Without, NegPart, NegSound
<1> QED
  BY <1>1 DEF NegPart

\* A cache holds fewer entries than its prune can count.
FewEntries == TotalSize(rec) < Modulus /\ TotalSize(neg) < Modulus

PrunesSound == PruneSound(recPruner, rec) /\ PruneSound(negPruner, neg)

HitTargets ==
  /\ recPruner' # recPruner => HitsTarget(recPruner, recPruner', rec, rec')
  /\ negPruner' # negPruner => HitsTarget(negPruner, negPruner', neg, neg')

LEMMA RecPruned ==
  ASSUME IInv, IInv', PruneSound(recPruner, rec), TotalSize(rec) < Modulus, RecUsed
  PROVE  /\ PruneSound(recPruner, rec)'
         /\ recPruner' # recPruner => HitsTarget(recPruner, recPruner', rec, rec')
<1>1. PICK c, d, p, q : c = rec /\ d = rec' /\ p = recPruner /\ q = recPruner'
  OBVIOUS
<1>2. /\ CacheFits(c) /\ CacheFits(d) /\ TotalSize(c) < Modulus /\ PruneSound(p, c)
      /\ Rest /\ RecPart /\ setup' = setup
  BY <1>1, CachesFit, CachesFitNext DEF IInv, RecUsed
<1>3. CASE UNCHANGED recVars
  <2>1. PruneSound(q, d) /\ q = p
    BY <1>1, <1>2, <1>3 DEF recVars
  <2> QED
    BY <1>1, <1>2, <2>1 DEF PruneSound, Scans, Trims
<1>4. CASE recPruner' = Disturbed(recPruner)
  <2>1. q = IF p.pc = "idle" THEN p ELSE [p EXCEPT !.alone = FALSE]
    BY <1>1, <1>4 DEF Disturbed
  <2>2. PruneSound(q, d) /\ (q # p => q.pc = p.pc /\ q.shard = p.shard)
    BY <1>2, <2>1, PrunerDisturbed
  <2>3. q.pc = "idle" => q = p
    BY <2>1, <2>2
  <2>4. q # p => HitsTarget(p, q, c, d)
    BY <2>2, <2>3 DEF HitsTarget
  <2> QED
    BY <1>1, <1>2, <2>2, <2>4 DEF PruneSound, Scans, Trims
<1>5. CASE PruneRec(now) \/ ScanRec \/ TrimRec
  <2>1. PruneSound(q, d) /\ HitsTarget(p, q, c, d)
    <3>1. CASE PruneRec(now)
      <4>1. p.pc = "idle" /\ d = c /\ q = PrunerAt(TotalSize(c), now)
        BY <1>1, <3>1 DEF PruneRec
      <4> QED
        BY <1>2, <4>1, PrunerBegins DEF HitsTarget
    <3>2. p.shard \in Shards
      BY <1>2 DEF PruneSound, PrunerTyped
    <3>3. CASE ScanRec
      <4>1. PICK ks : ks = Scanned(p, c[p.shard])
        OBVIOUS
      <4>2. /\ p.pc = "scan" /\ q = AfterScan(p, c[p.shard])
            /\ d = [rec EXCEPT ![p.shard] = Removed(Invalidated(rec[p.shard]), ks)]
        BY <1>1, <3>3, <4>1 DEF ScanRec
      <4>3. /\ DOMAIN d[p.shard].map = DOMAIN c[p.shard].map \ ks
            /\ \A i \in Shards : i # p.shard => d[i] = c[i]
        BY <1>1, <1>2, <3>2, <4>2, RecCut
      <4>4. PruneSound(q, d)
        BY <1>2, <4>1, <4>2, <4>3, PrunerScans
      <4> QED
        BY <4>2, <4>4 DEF HitsTarget
    <3>4. CASE TrimRec
      <4>1. PICK n \in TrimCounts(p, c[p.shard]) :
              /\ d = [rec EXCEPT ![p.shard] = TrimmedShard(rec[p.shard], n)]
              /\ q = AfterTrim(p, c[p.shard], n)
        BY <1>1, <3>4 DEF TrimRec
      <4>2. PICK ks : ks = Trimmed(c[p.shard], n)
        OBVIOUS
      <4>3. /\ DOMAIN d[p.shard].map = DOMAIN c[p.shard].map \ ks
            /\ \A i \in Shards : i # p.shard => d[i] = c[i]
        <5>1. CASE n = 0
          <6>1. DOMAIN rec = Shards /\ d = [rec EXCEPT ![p.shard] = rec[p.shard]]
            BY <1>2, <4>1, <5>1 DEF TrimmedShard, RecPart
          <6>2. PICK lru : lru = c[p.shard].lru /\ lru \in Seq(DOMAIN c[p.shard].map)
            BY <1>2, <3>2 DEF CacheFits, Lists
          <6>3. SubSeq(lru, 1, 0) = <<>>
            BY <6>2
          <6>4. ks = {}
            BY <4>2, <5>1, <6>2, <6>3 DEF Trimmed, ToSet
          <6> QED
            BY <1>1, <3>2, <6>1, <6>4
        <5>2. CASE n # 0
          <6>1. d = [rec EXCEPT ![p.shard] = Removed(Invalidated(rec[p.shard]), ks)]
            BY <1>1, <4>1, <4>2, <5>2 DEF TrimmedShard
          <6> QED
            BY <1>1, <1>2, <3>2, <6>1, RecCut
        <5> QED
          BY <5>1, <5>2
      <4>4. p.pc = "trim"
        BY <1>1, <3>4 DEF TrimRec
      <4> QED
        BY <1>2, <4>1, <4>2, <4>3, <4>4, PrunerTrims
    <3> QED
      BY <1>5, <3>1, <3>3, <3>4
  <2> QED
    BY <1>1, <1>2, <2>1 DEF PruneSound, Scans, Trims
<1> QED
  BY <1>2, <1>3, <1>4, <1>5 DEF RecUsed

LEMMA NegPruned ==
  ASSUME IInv, IInv', PruneSound(negPruner, neg), TotalSize(neg) < Modulus, NegUsed, setup' = setup
  PROVE  /\ PruneSound(negPruner, neg)'
         /\ negPruner' # negPruner => HitsTarget(negPruner, negPruner', neg, neg')
<1>1. PICK c, d, p, q : c = neg /\ d = neg' /\ p = negPruner /\ q = negPruner'
  OBVIOUS
<1>2. /\ CacheFits(c) /\ CacheFits(d) /\ TotalSize(c) < Modulus /\ PruneSound(p, c)
      /\ Rest /\ NegPart
  BY <1>1, CachesFit, CachesFitNext DEF IInv
<1>3. CASE UNCHANGED negVars
  <2>1. PruneSound(q, d) /\ q = p
    BY <1>1, <1>2, <1>3 DEF negVars
  <2> QED
    BY <1>1, <1>2, <2>1 DEF PruneSound, Scans, Trims
<1>4. CASE negPruner' = Disturbed(negPruner)
  <2>1. q = IF p.pc = "idle" THEN p ELSE [p EXCEPT !.alone = FALSE]
    BY <1>1, <1>4 DEF Disturbed
  <2>2. PruneSound(q, d) /\ (q # p => q.pc = p.pc /\ q.shard = p.shard)
    BY <1>2, <2>1, PrunerDisturbed
  <2>3. q.pc = "idle" => q = p
    BY <2>1, <2>2
  <2>4. q # p => HitsTarget(p, q, c, d)
    BY <2>2, <2>3 DEF HitsTarget
  <2> QED
    BY <1>1, <1>2, <2>2, <2>4 DEF PruneSound, Scans, Trims
<1>5. CASE PruneNeg(now) \/ ScanNeg \/ TrimNeg
  <2>1. PruneSound(q, d) /\ HitsTarget(p, q, c, d)
    <3>1. CASE PruneNeg(now)
      <4>1. p.pc = "idle" /\ d = c /\ q = PrunerAt(TotalSize(c), now)
        BY <1>1, <3>1 DEF PruneNeg
      <4> QED
        BY <1>2, <4>1, PrunerBegins DEF HitsTarget
    <3>2. p.shard \in Shards
      BY <1>2 DEF PruneSound, PrunerTyped
    <3>3. CASE ScanNeg
      <4>1. PICK ks : ks = Scanned(p, c[p.shard])
        OBVIOUS
      <4>2. /\ p.pc = "scan" /\ q = AfterScan(p, c[p.shard])
            /\ d = [neg EXCEPT ![p.shard] = Without(neg[p.shard], ks)]
        BY <1>1, <3>3, <4>1 DEF ScanNeg
      <4>3. /\ DOMAIN d[p.shard].map = DOMAIN c[p.shard].map \ ks
            /\ \A i \in Shards : i # p.shard => d[i] = c[i]
        <5>1. PICK x : x = Without(neg[p.shard], ks)
          OBVIOUS
        <5>2. d = [neg EXCEPT ![p.shard] = x]
          BY <4>2, <5>1
        <5>3. /\ DOMAIN d[p.shard].map = DOMAIN neg[p.shard].map \ ks
              /\ \A i \in Shards : i # p.shard => d[i] = neg[i]
          <6>1. NegPart /\ p.shard \in Shards
            BY <1>2, <3>2
          <6> QED
            BY <5>1, <5>2, <6>1, NegCut
        <5> QED
          BY <1>1, <5>3
      <4>4. PruneSound(q, d)
        BY <1>2, <4>1, <4>2, <4>3, PrunerScans
      <4> QED
        BY <4>2, <4>4 DEF HitsTarget
    <3>4. CASE TrimNeg
      <4>1. PICK n \in TrimCounts(p, c[p.shard]) :
              /\ d = [neg EXCEPT ![p.shard] = Without(neg[p.shard], Trimmed(neg[p.shard], n))]
              /\ q = AfterTrim(p, c[p.shard], n)
        BY <1>1, <3>4 DEF TrimNeg
      <4>2. PICK ks : ks = Trimmed(c[p.shard], n)
        OBVIOUS
      <4>3. /\ DOMAIN d[p.shard].map = DOMAIN c[p.shard].map \ ks
            /\ \A i \in Shards : i # p.shard => d[i] = c[i]
        <5>1. PICK x : x = Without(neg[p.shard], ks)
          OBVIOUS
        <5>2. d = [neg EXCEPT ![p.shard] = x]
          BY <1>1, <4>1, <4>2, <5>1
        <5>3. /\ DOMAIN d[p.shard].map = DOMAIN neg[p.shard].map \ ks
              /\ \A i \in Shards : i # p.shard => d[i] = neg[i]
          <6>1. NegPart /\ p.shard \in Shards
            BY <1>2, <3>2
          <6> QED
            BY <5>1, <5>2, <6>1, NegCut
        <5> QED
          BY <1>1, <5>3
      <4>4. p.pc = "trim"
        BY <1>1, <3>4 DEF TrimNeg
      <4> QED
        BY <1>2, <4>1, <4>2, <4>3, <4>4, PrunerTrims
    <3> QED
      BY <1>5, <3>1, <3>3, <3>4
  <2> QED
    BY <1>1, <1>2, <2>1 DEF PruneSound, Scans, Trims
<1> QED
  BY <1>3, <1>4, <1>5 DEF NegUsed

LEMMA PruneNext ==
  ASSUME IInv, IInv', FewEntries, PrunesSound, [Next]_vars
  PROVE  PrunesSound' /\ HitTargets
<1>1. RecUsed /\ NegUsed /\ setup' = setup
  BY NextUses DEF RecUsed
<1>2. /\ PruneSound(recPruner, rec)'
      /\ recPruner' # recPruner => HitsTarget(recPruner, recPruner', rec, rec')
  BY <1>1, RecPruned DEF FewEntries, PrunesSound
<1>3. /\ PruneSound(negPruner, neg)'
      /\ negPruner' # negPruner => HitsTarget(negPruner, negPruner', neg, neg')
  BY <1>1, NegPruned DEF FewEntries, PrunesSound
<1> QED
  BY <1>2, <1>3 DEF PrunesSound, HitTargets

\* However large the caches and whatever the shards hold, a prune erases no more entries
\* that are not stale than there are too many, and leaves as many as there may be when
\* nobody disturbs it: the rounding of the shares (src/cachecleaner.hh:195) never adds up
\* to more or less.  The counters of the code are as wide as its memory, so that no cache
\* has as many entries as they can count.
THEOREM PrunesHitTarget == Spec /\ []FewEntries => PruneHitsTarget
<1>1. Init => PrunesSound
  <2> SUFFICES ASSUME Init PROVE PrunesSound
    OBVIOUS
  <2>1. recPruner = IdlePruner /\ negPruner = IdlePruner
    BY DEF Init, RecInit, NegInit
  <2> QED
    BY <2>1, IdleSound DEF PrunesSound
<1>2. IInv /\ IInv' /\ FewEntries /\ PrunesSound /\ [Next]_vars => PrunesSound' /\ HitTargets
  BY PruneNext
<1>3. HitTargets =>
        [/\ recPruner' # recPruner => HitsTarget(recPruner, recPruner', rec, rec')
         /\ negPruner' # negPruner => HitsTarget(negPruner, negPruner', neg, neg')]_vars
  BY DEF HitTargets
<1> QED
  BY <1>1, <1>2, <1>3, Invariance, PTL DEF Spec, PruneHitsTarget
=============================================================================

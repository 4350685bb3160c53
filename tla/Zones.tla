------------------------------- MODULE Zones -------------------------------
(***************************************************************************)
(* The name space and its authoritative servers, as src/syncres.cc sees    *)
(* them: external to the program, modelled from the packets it is made to  *)
(* handle.  A name is the sequence of its labels from the root on, so that *)
(* isPartOf is IsPrefix.                                                   *)
(*                                                                         *)
(* A world w says what there is:                                           *)
(*   w.ns      zone -> the names of its servers, as its parent has them;   *)
(*   w.glue    zone -> addresses its parent gives with them (name -> addr);*)
(*   w.own     zone -> the names of its servers, as itself has them;       *)
(*   w.data    name -> [type, val], its address or what it is an alias of; *)
(*   w.serves  address -> the zones it serves;                             *)
(*   w.asked   names that clients ask for, w.asks times at most (bound);   *)
(*   w.faults  bound: exchanges that fail and entries that expire.         *)
(***************************************************************************)
EXTENDS Naturals, FiniteSets, SequencesExt

Root == <<>>

Names(w) == UNION {{SubSeq(n, 1, k) : k \in 0 .. Len(n)} : n \in DOMAIN w.data \cup DOMAIN w.ns}

Deepest(names) == CHOOSE n \in names : \A m \in names : Len(m) <= Len(n)

ZoneOf(w, n) == Deepest({z \in DOMAIN w.ns : IsPrefix(z, n)})

\* What is at a name: a record, nothing of that type, or no such name.
At(w, n) ==
  IF n \in DOMAIN w.data THEN w.data[n]
  ELSE [type |-> IF \E m \in DOMAIN w.data \cup DOMAIN w.ns : IsPrefix(n, m)
                 THEN "NODATA" ELSE "NX",
        val  |-> n]

Record(n, data) == [name |-> n, type |-> data.type, val |-> data.val]

\* What makes a world: there are finitely many names and zones, a zone has servers as
\* its parent and as itself has them, glue is of servers, and those of the root have it.
IsWorld(w) ==
  /\ IsFiniteSet(DOMAIN w.data) /\ IsFiniteSet(DOMAIN w.ns)
  /\ \A n \in DOMAIN w.data \cup DOMAIN w.ns : n \in Seq(Range(n))
  /\ \A n \in DOMAIN w.data : w.data[n].type \in {"A", "CNAME"}
  /\ Root \in DOMAIN w.ns /\ DOMAIN w.glue = DOMAIN w.ns /\ DOMAIN w.own = DOMAIN w.ns
  /\ \A z \in DOMAIN w.ns : DOMAIN w.glue[z] \subseteq w.ns[z] \cap Names(w)
  /\ w.ns[Root] \subseteq DOMAIN w.glue[Root]
  /\ w.asks \in Nat /\ w.faults \in Nat

----------------------------------------------------------------------------
(* What a server answers to a question for the address of a name. *)

\* A zone it serves holds the name, or a zone right below that was delegated.
Served(w, a, q) == {z \in DOMAIN w.ns : z \in w.serves[a] /\ IsPrefix(z, q)}
Delegated(w, z) ==
  {c \in DOMAIN w.ns : /\ IsStrictPrefix(z, c)
                       /\ ~\E m \in DOMAIN w.ns : IsStrictPrefix(z, m) /\ IsStrictPrefix(m, c)}

\* Addresses of the servers of a zone that it can give itself.
OwnAddresses(w, z) ==
  LET hosts == {n \in w.own[z] : n \in DOMAIN w.data /\ w.data[n].type = "A" /\ IsPrefix(z, n)}
  IN  [n \in hosts |-> w.data[n].val]

\* A packet: what it says (`type' and, of a record, `val'), in the name of which zone
\* (`owner' of NS or SOA records), the servers it names and addresses it adds.
Packet(type, val, owner, ns, extra) ==
  [type |-> type, val |-> val, owner |-> owner, ns |-> ns, extra |-> extra]

Reply(w, a, q) ==
  IF Served(w, a, q) = {} THEN Packet("REFUSED", q, Root, {}, <<>>)
  ELSE LET z     == Deepest(Served(w, a, q))
           below == {c \in Delegated(w, z) : IsPrefix(c, q)}
           at    == At(w, q)
       IN  IF below # {}
           THEN LET c == CHOOSE c \in below : TRUE
                IN  Packet("REFERRAL", q, c, w.ns[c], w.glue[c])
           ELSE IF at.type \in {"A", "CNAME"}
           THEN Packet(at.type, at.val, z, w.own[z], OwnAddresses(w, z))
           ELSE Packet(at.type, q, z, {}, <<>>)

\* Whom a resolver may ask about a zone: the addresses that its servers have, as root
\* servers or in their own zones.
Addresses(w, n) ==
  {w.data[m].val : m \in {n} \cap {d \in DOMAIN w.data : w.data[d].type = "A"}}
    \cup {w.glue[Root][m] : m \in {n} \cap w.ns[Root]}
Hosts(w, z) == UNION {Addresses(w, n) : n \in w.ns[z] \cup w.own[z]}

\* With a delegation, the servers of a zone give names below it the addresses that
\* their owners give them.
GlueAgrees(w) ==
  \A z \in DOMAIN w.ns : \A a \in Hosts(w, z) :
    \A s \in DOMAIN w.ns : s \in w.serves[a] =>
      \A c \in Delegated(w, s) : \A n \in DOMAIN w.glue[c] :
        IsPrefix(z, n) =>
          n \in DOMAIN w.data /\ w.data[n].type = "A" /\ w.data[n].val = w.glue[c][n]

----------------------------------------------------------------------------
(* What is true of a world, whoever asks. *)

IsAlias(w, n) == At(w, n).type = "CNAME"

\* The names an alias leads through, n last to come; the last is an alias only when
\* they go in circles.
Chain(w, q) ==
  LET step[k \in 0 .. Cardinality(DOMAIN w.data)] ==
        IF k = 0 THEN <<q>>
        ELSE IF IsAlias(w, Last(step[k - 1]))
             THEN Append(step[k - 1], w.data[Last(step[k - 1])].val)
             ELSE step[k - 1]
  IN  step[Cardinality(DOMAIN w.data)]

Circular(w, q) == IsAlias(w, Last(Chain(w, q)))

\* The records and the rcode the owners of the names would give.
Truth(w, q) ==
  LET chain == Chain(w, q)
      known == IF Last(chain) \in DOMAIN w.data THEN chain ELSE Front(chain)
  IN  [rcode   |-> IF At(w, Last(chain)).type = "NX" THEN "NXDomain" ELSE "NoError",
       records |-> [i \in DOMAIN known |-> Record(known[i], w.data[known[i]])]]

\* Zones that can be found from the root: some server of such a zone serves it, and
\* its address came with the delegation or lies in a zone found before.
Found(w) ==
  LET zones  == DOMAIN w.ns
      Parent(z) == Deepest({c \in zones : IsStrictPrefix(c, z)})
      Address(z, n) ==
        IF n \in DOMAIN w.glue[z] /\ IsPrefix(Parent(z), n) THEN w.glue[z][n] ELSE At(w, n).val
      step[k \in 0 .. Cardinality(zones)] ==
        IF k = 0 THEN {Root}
        ELSE {z \in zones \ {Root} :
                /\ Parent(z) \in step[k - 1]
                /\ \E n \in w.ns[z] :
                     /\ \/ n \in DOMAIN w.glue[z] /\ IsPrefix(Parent(z), n)
                        \/ At(w, n).type = "A" /\ ZoneOf(w, n) \in step[k - 1]
                     /\ z \in w.serves[Address(z, n)]} \cup {Root}
  IN  step[Cardinality(zones)]

\* Every zone on the way of an answer can be found.
Reachable(w, q) ==
  /\ ~Circular(w, q)
  /\ \A i \in DOMAIN Chain(w, q) :
       {z \in DOMAIN w.ns : IsPrefix(z, Chain(w, q)[i])} \subseteq Found(w)
=============================================================================

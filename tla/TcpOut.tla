------------------------------- MODULE TcpOut -------------------------------
(***************************************************************************)
(* The idle TCP connections a thread keeps to servers                      *)
(* (src/rec-tcpout.cc).  They are taken out while they are used.           *)
(***************************************************************************)
EXTENDS Integers, Sequences, FiniteSets, SequencesExt

CONSTANTS
  MaxIdleTime,     \* s_maxIdleTime, 0 is no timeout
  MaxQueries,      \* s_maxQueries, 0 is no limit
  MaxIdlePerAuth,  \* s_maxIdlePerAuth
  MaxIdlePerThread \* s_maxIdlePerThread

ASSUME TcpOutAssumption ==
  /\ MaxIdleTime \in Nat /\ MaxQueries \in Nat
  /\ MaxIdlePerAuth \in Nat /\ MaxIdlePerThread \in Nat

\* A connection; `open' is whether its socket is connected and not closed by us.
NewConnection(a, open) == [addr |-> a, queries |-> 0, last |-> 0, open |-> open]

\* The places of the connections to an address.
To(a, conns) == {i \in DOMAIN conns : conns[i].addr = a}

\* cleanup
Cleanup(conns, t) ==
  LET kept[n \in 0 .. Len(conns)] ==
        IF n = 0 THEN <<>>
        ELSE IF t - conns[n].last > MaxIdleTime THEN kept[n - 1]
        ELSE Append(kept[n - 1], conns[n])
  IN  IF MaxIdleTime = 0 THEN conns ELSE kept[Len(conns)]

Full(a, conns) ==
  Len(conns) >= MaxIdlePerThread \/ Cardinality(To(a, conns)) >= MaxIdlePerAuth

\* store at time t.
Stored(conns, conn, t) ==
  LET used == [conn EXCEPT !.queries = @ + 1, !.last = t]
      room == IF Full(conn.addr, conns) THEN Cleanup(conns, t) ELSE conns
  IN  IF MaxQueries > 0 /\ used.queries >= MaxQueries THEN conns
      ELSE IF Full(conn.addr, room) THEN room ELSE Append(room, used)

\* get: the one to an address that has been idle longest, and the others.
Got(conns, a) == conns[Min(To(a, conns))]
Left(conns, a) == RemoveAt(conns, Min(To(a, conns)))
=============================================================================

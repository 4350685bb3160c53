------------------------------ MODULE Requests ------------------------------
(***************************************************************************)
(* What the outgoing UDP code promises the mthreads that ask servers, with *)
(* sockets, ids, chains and the scheduler abstracted away.                 *)
(*                                                                         *)
(* Requests for the same thing form a group with one leader, which is the  *)
(* one that talks to the server.  When its answer arrives the group takes  *)
(* no more members; the members receive the answer, the leader last.  An   *)
(* answer that does not name its question is for the leader alone.         *)
(***************************************************************************)
CONSTANTS Clients, Questions, Subnets,
          Numbers,  \* names of groups
          None      \* no group

VARIABLES
  group,      \* per client: the group it waits in, or None
  leads,      \* the clients that wait as the leader of their group
  accepting,  \* the groups that take members: records [number, q, ecs]
  answering   \* None, or the group that is being answered: a record [number, all]
vars == <<group, leads, accepting, answering>>

Init ==
  /\ group = [c \in Clients |-> None]
  /\ leads = {}
  /\ accepting = {}
  /\ answering = None

Members(number) == {c \in Clients : group[c] = number}

Lead(c, q, ecs) ==
  /\ group[c] = None
  /\ \A g \in accepting : ~(g.q = q /\ g.ecs = ecs)
  /\ \E number \in Numbers :
       /\ Members(number) = {}
       /\ answering # None => answering.number # number
       /\ group' = [group EXCEPT ![c] = number]
       /\ accepting' = accepting \cup {[number |-> number, q |-> q, ecs |-> ecs]}
  /\ leads' = leads \cup {c}
  /\ UNCHANGED answering

Join(c, q, ecs) ==
  /\ group[c] = None
  /\ \E g \in accepting :
       g.q = q /\ g.ecs = ecs /\ group' = [group EXCEPT ![c] = g.number]
  /\ UNCHANGED <<leads, accepting, answering>>

\* An answer for the group g has arrived: for all of it, or for its leader.
Begin(g, all) ==
  /\ answering = None
  /\ accepting' = accepting \ {g}
  /\ answering' = [number |-> g.number, all |-> all]
  /\ UNCHANGED <<group, leads>>

Answered(c) ==
  /\ answering # None
  /\ group[c] = answering.number
  /\ group' = [group EXCEPT ![c] = None]

Member(c) ==
  /\ Answered(c) /\ answering.all
  /\ c \notin leads
  /\ UNCHANGED <<leads, accepting, answering>>

\* The leader's turn; an answer for all has reached the others by then.
Leader(c) ==
  /\ Answered(c)
  /\ c \in leads
  /\ answering.all => Members(answering.number) = {c}
  /\ leads' = leads \ {c}
  /\ answering' = None
  /\ UNCHANGED accepting

\* A request ends without an answer; its group goes on only without a leader.
Expire(c) ==
  /\ answering = None
  /\ group[c] # None
  /\ group' = [group EXCEPT ![c] = None]
  /\ leads' = leads \ {c}
  /\ accepting' = IF c \in leads
                  THEN {g \in accepting : g.number # group[c]} ELSE accepting
  /\ UNCHANGED answering

Next ==
  \/ \E c \in Clients :
       \/ \E q \in Questions, ecs \in Subnets : Lead(c, q, ecs) \/ Join(c, q, ecs)
       \/ Member(c)
       \/ Leader(c)
       \/ Expire(c)
  \/ \E g \in accepting, all \in BOOLEAN : Begin(g, all)

Spec == Init /\ [][Next]_vars
=============================================================================

-------------------------- MODULE VoltClientProps --------------------------
(***************************************************************************)
(* What the pool of a client keeps, and what it promises and does not keep *)
(* (ExitTearsDown).                                                        *)
(***************************************************************************)
EXTENDS VoltClient

Held(c, s) == Cardinality({i \in 1 .. Len(s) : s[i] = c})

\* A connection is in one place: in one slot, or once on the bad list, or it
\* has been closed by exit(); an eviction neither loses nor doubles it, however
\* often the scan meets the slot it left.
InOnePlace ==
  connections # <<>> \/ exit # "none" =>
    \A c \in Connections :
      Held(c, connections) + badConnections[c] = IF closed[c] THEN 0 ELSE 1

\* With it, what the scan and exit() need to keep it so: the slots are no more
\* than the connections, and before connect() nothing has happened to any.
PoolInv ==
  /\ ClientTypeOK
  /\ Len(connections) <= Cardinality(Connections)
  /\ connections = <<>> /\ exit = "none" =>
       \A c \in Connections : badConnections[c] = 0 /\ ~closed[c]
  /\ InOnePlace

Serves(c) == c \in Connections /\ valid[c] /\ ~blocked[c]

\* While the pool holds a connection that is valid and not blocked, a call goes
\* to such a one: the scan does not stop early, and its wrap-around leaves no
\* slot out.
CallReachesUsable ==
  [][CallProcedure /\ (\E c \in ToSet(connections) : Serves(c))
       => Serves(target')]_cvars

\* Round robin starves nobody: a connection that stays usable in its slot is
\* given calls again and again, as long as calls are made.
RoundRobin ==
  \A c \in Connections :
    /\ <>[](c \in ToSet(connections) /\ Serves(c))
    /\ []<><<CallProcedure>>_cvars
    => []<>(target = c)

\* lib/client.js:73, the connection is registered early because "otherwise it
\* can't be torn down in the event of a socket failure": exit() closes every
\* connection the client has made.
ExitTearsDown == exit # "none" => \A c \in Connections : closed[c]

=============================================================================

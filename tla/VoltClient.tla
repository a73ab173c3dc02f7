----------------------------- MODULE VoltClient -----------------------------
(***************************************************************************)
(* The pool of connections of a client (lib/client.js): connect, the       *)
(* round-robin choice of a connection for a call, and exit.  Each          *)
(* connection moves by the steps of PooledConnection.  Slots are numbered  *)
(* from 0 as in the code; slot i is connections[i + 1].                    *)
(***************************************************************************)
EXTENDS Integers, Sequences, FiniteSets, SequencesExt

CONSTANTS
  Connections,  \* the connections of the configurations, in no order yet
  NoConnection  \* null: an emptied slot, or no connection found

ASSUME ClientConstantsOK ==
  IsFiniteSet(Connections) /\ NoConnection \notin Connections

VARIABLES
  connections,       \* _connections: a slot per configuration
  badConnections,    \* how often each connection is in _badConnections, of which
                     \* nothing but a log reads the order and the nulls
  connectionCounter, \* _connectionCounter
  valid, blocked, closed, \* of each connection
  target,            \* the connection the last call was given to
  event,             \* what callProcedure emitted on the client, if anything
  exit               \* how exit() ended

poolVars == <<connections, badConnections, connectionCounter>>
connVars == <<valid, blocked, closed>>
cvars    == <<poolVars, connVars, target, event, exit>>

Conn(c) == INSTANCE PooledConnection
             WITH valid <- valid[c], blocked <- blocked[c], closed <- closed[c]

ClientTypeOK ==
  /\ connections \in Seq(Connections \cup {NoConnection})
  /\ badConnections \in [Connections -> Nat]
  /\ connectionCounter \in Nat
  /\ connectionCounter = 0 \/ connectionCounter < Cardinality(Connections)
  /\ valid \in [Connections -> BOOLEAN]
  /\ blocked \in [Connections -> BOOLEAN]
  /\ closed \in [Connections -> BOOLEAN]
  /\ target \in Connections \cup {NoConnection}
  /\ event \in {"none", "noConnection", "invalidConnection"}
  /\ exit \in {"none", "done", "threw"}

\* The constructor.
ClientInit ==
  /\ connections = <<>> /\ connectionCounter = 0
  /\ badConnections = [c \in Connections |-> 0]
  /\ valid = [c \in Connections |-> TRUE]
  /\ blocked = [c \in Connections |-> FALSE]
  /\ closed = [c \in Connections |-> FALSE]
  /\ target = NoConnection /\ event = "none" /\ exit = "none"

\* connect() registers every connection before any of them is connected.
ConnectAll ==
  /\ connections = <<>> /\ exit = "none"
  /\ connections' \in SetToSeqs(Connections)
  /\ UNCHANGED <<badConnections, connectionCounter, connVars, target, event,
                 exit>>

-----------------------------------------------------------------------------
(* _getConnection *)

Length == Len(connections)

\* Mutant of Slot: the wrap-around skips the first slot.
SlotSkips(k) ==
  LET n == connectionCounter + k IN (IF n < Length THEN n ELSE n + 1) % Length

\* The slot examined k-th, from the one after the counter round to it.
Slot(k) ==
  IF connectionCounter < Length THEN (connectionCounter + k) % Length ELSE k - 1

\* The connection in it.
At(k) == connections[Slot(k) + 1]

Invalid(c) == c # NoConnection /\ ~valid[c]
Usable(c)  == c # NoConnection /\ valid[c] /\ ~blocked[c]

\* Mutant of Examined: a blocked connection ends the scan like a usable one.
ExaminedNotBlocked ==
  LET hits == {k \in 1 .. Length : At(k) # NoConnection /\ valid[At(k)]}
  IN  IF hits = {} THEN Length ELSE CHOOSE k \in hits : \A j \in hits : k <= j

\* How many slots the loop examines: up to the first usable connection, or all.
Examined ==
  LET hits == {k \in 1 .. Length : Usable(At(k))}
  IN  IF hits = {} THEN Length ELSE CHOOSE k \in hits : \A j \in hits : k <= j

\* The iterations that find an invalid connection.
Evictions == {k \in 1 .. Examined : Invalid(At(k))}

PutAside ==
  badConnections' =
    [c \in Connections |->
       badConnections[c] + Cardinality({k \in Evictions : At(k) = c})]

\* Mutant of Evict: the slot is not emptied.
EvictKeepsSlot == UNCHANGED connections /\ PutAside

\* Each invalid connection examined goes from its slot to badConnections.
Evict ==
  /\ connections' = [i \in 1 .. Length |->
       IF i \in {Slot(k) + 1 : k \in Evictions} THEN NoConnection ELSE connections[i]]
  /\ PutAside

\* What the loop leaves in its variable: the last connection it looked at,
\* usable or not.
Found == IF Length = 0 THEN NoConnection ELSE At(Examined)

\* Mutant of GetConnection: the counter is advanced past the slot it found.
CounterRunsOn ==
  /\ Evict
  /\ connectionCounter' =
       IF Length = 0 THEN connectionCounter ELSE Slot(Examined) + 1

GetConnection ==
  /\ Evict
  /\ connectionCounter' =
       IF Length = 0 THEN connectionCounter ELSE Slot(Examined)

-----------------------------------------------------------------------------

\* c alone moves, by the step of its interface that the conjunct beside names.
Moves(c) ==
  \E v, b, k \in BOOLEAN :
    /\ valid'   = [valid EXCEPT ![c] = v]
    /\ blocked' = [blocked EXCEPT ![c] = b]
    /\ closed'  = [closed EXCEPT ![c] = k]

\* callProcedure, when the scan ends on a connection.
CallConnection(c) ==
  /\ Found = c
  /\ target' = c
  /\ Moves(c)
  /\ \/ Conn(c)!Accept /\ event' = "none"
     \/ Conn(c)!Refuse /\ event' = "invalidConnection"

\* callProcedure, when it does not.
CallNothing ==
  /\ Found = NoConnection
  /\ target' = NoConnection /\ event' = "noConnection"
  /\ UNCHANGED connVars

CallProcedure ==
  /\ GetConnection
  /\ CallNothing \/ \E c \in Connections : CallConnection(c)
  /\ UNCHANGED exit

\* exit() closes slot after slot and removes it; a slot that was emptied makes
\* it throw, and the slots behind stay as they are.
Exit ==
  LET emptied == {i \in 1 .. Length : connections[i] = NoConnection}
      n    == IF emptied = {} THEN Length
              ELSE (CHOOSE i \in emptied : \A j \in emptied : i <= j) - 1
  IN  /\ connections # <<>>
      /\ closed' = [c \in Connections |->
                      closed[c] \/ c \in ToSet(SubSeq(connections, 1, n))]
      /\ connections' = SubSeq(connections, n + 1, Length)
      /\ exit' = IF emptied = {} THEN "done" ELSE "threw"
      /\ UNCHANGED <<badConnections, connectionCounter, valid, blocked, target,
                     event>>

\* Anything else a connection does: its handlers run between calls.
ConnectionStep(c) ==
  /\ c \in ToSet(connections) \/ badConnections[c] > 0
  /\ Moves(c)
  /\ Conn(c)!Connected \/ Conn(c)!LoggedIn \/ Conn(c)!Unblocked
  /\ UNCHANGED <<poolVars, target, event, exit>>

ClientNext ==
  \/ ConnectAll
  \/ CallProcedure
  \/ Exit
  \/ \E c \in Connections : ConnectionStep(c)

ClientSpec == ClientInit /\ [][ClientNext]_cvars

=============================================================================

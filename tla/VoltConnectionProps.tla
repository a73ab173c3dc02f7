------------------------ MODULE VoltConnectionProps ------------------------
(***************************************************************************)
(* What a connection keeps as long as no uid is given out twice: its       *)
(* invariants, the steps it never takes, the abstract specifications it    *)
(* implements and what it must eventually do; last, the inductive          *)
(* invariant of the proofs.                                                *)
(***************************************************************************)
EXTENDS VoltConnection

\* Fewer calls than uids: _getUID does not come round to 0 again.
ASSUME FewCalls == IsFiniteSet(Calls) /\ Cardinality(Calls) < MaxId

\* No call's readCallback is invoked twice, with another call's result, or
\* with a result after the timeout: the delete in onRead and the one in
\* _checkQueryTimeout exclude each other, whatever callbacks do in between.
OneOutcome == \A c \in Calls : replies[c] \in {<<>>, <<c>>, <<TimedOut>>}

\* A call without an outcome is registered under its uid and a sweep will see
\* it, although the sweep empties _callIndex while callbacks push to it.
PendingIsSwept ==
  \A c \in Calls : Pending(c) =>
    calls[uid[c]] = c /\ uid[c] \in ToSet(callIndex) \cup ToSet(kept)

\* A response on its way finds the manager of its own call, or the call has
\* been told that it timed out: QUERY_RESPONSE_ERROR means what it says.
ResponseFindsItsCall ==
  \A c \in ToSet(inbox) \cup ToSet(chunk) :
    calls[uid[c]] = c \/ replies[c] = <<TimedOut>>

\* While the connection claims not to be blocked, sendCounter is below
\* maxConsecutiveWrites: _send, onRead and the sweep change the two apart.
LimitRaisesBlock == ~blocked => sendCounter < MaxConsecutiveWrites

\* A connection is blocked because of its writes: once the callback of a response has
\* returned, it is blocked below the limit only by as many places as timeouts gave
\* back, which alone lower the counter and leave the switch.  Nested calls, failed
\* flushes and late answers never strand it.
Expired == {c \in Calls : replies[c] = <<TimedOut>>}
BlockedByLimit ==
  blocked /\ at # "response" => sendCounter + Cardinality(Expired) >= MaxConsecutiveWrites

\* sendCounter drifts in exactly two ways: the login keeps the place it took,
\* and a call that was never counted, because its flush threw, gives a place
\* back when it ends.
CounterDrift ==
  sendCounter = (IF socket \in {"open", "broken"} THEN 1 ELSE 0)
    + Cardinality({c \in Calls : Counted(c) /\ Pending(c)})
    - Cardinality({c \in Calls : dispatch[c] = "writeFailed" /\ ~Pending(c)})

\* Calls leave in the order of their uids and none twice, through every
\* failed flush and the calls queued after it.
Outgoing == wire \o sendQueue
DispatchOrder ==
  \A i, j \in 1 .. Len(Outgoing) :
    i < j /\ Outgoing[i] # Login /\ Outgoing[j] # Login
      => uid[Outgoing[i]] < uid[Outgoing[j]]

\* A message that has been queued stays queued or reaches the socket, as long
\* as the socket works and nobody has closed it.
NothingDropped ==
  [][~closed /\ socket \in {"connecting", "open"}
       => IsPrefix(Outgoing, Outgoing')]_vars

\* A connection implements the service: each of its steps is one of the
\* service's or none.
StatusOf(c) ==
  IF ~Registered(c) THEN "none"
  ELSE IF Pending(c) THEN "pending"
  ELSE IF replies[c] = <<c>> THEN "answered" ELSE "expired"
Status  == [c \in Calls |-> StatusOf(c)]
Service == INSTANCE QueryService WITH status <- Status, executed <- answered
ImplementsService == Service!ServiceSpec

\* The pool of VoltClient is built on PooledConnection: a connection does
\* nothing to its flags that the pool does not reckon with.
Pool == INSTANCE PooledConnection WITH valid <- validConnection
ImplementsPooled == Pool!PoolSpec

\* The responses are read as the framing of the bytes delivers them: a chunk when the
\* loop of onRead is through with the one before, its responses one by one.
Phase == IF socket \in {"unreachable", "broken"} THEN "lost"
         ELSE IF isLoggedIn THEN "open" ELSE "login"
Stream ==
  INSTANCE ResponseStream
  WITH Responses <- Calls, phase <- Phase, coming <- inbox, inHand <- chunk
ImplementsStream == Stream!StreamSpec

\* Every call ends, unless the application closes the connection or the
\* process dies: a server that never answers and a lost socket included.
Ended(c) == replies[c] # <<>> \/ closed \/ at = "crashed"
EveryCallEnds == \A c \in Calls : Registered(c) ~> Ended(c)

\* A message does not wait in the queue for ever: the flusher sees to it.
QueueDrains ==
  \A c \in Calls : c \in ToSet(sendQueue) ~>
    c \notin ToSet(sendQueue) \/ closed \/ at = "crashed"

-----------------------------------------------------------------------------
(* The inductive invariant behind OneOutcome and PendingIsSwept *)

IssuedCalls == {c \in Calls : Issued(c)}
Submitted   == {c \in Calls : Registered(c)}

\* Each issued call has a uid of its own; one more has gone to the login.
UidsDistinct ==
  /\ id <= Cardinality(IssuedCalls) + IF socket \in {"open", "broken"} THEN 1 ELSE 0
  /\ \A c \in IssuedCalls : uid[c] < id
  /\ \A c, d \in IssuedCalls : uid[c] = uid[d] => c = d

\* A registered call has no outcome, but for the one that is being timed out.
TableSound ==
  \A u \in Uids : calls[u] # NoCall =>
    LET c == calls[u]
    IN  /\ Registered(c) /\ uid[c] = u
        /\ replies[c] = <<>> \/ (at = "expired" /\ vmm = c)

\* Between the callbacks of a timeout and the delete that follows them.
BeingTimedOut ==
  at = "expired" =>
    vmm \in Submitted /\ calls[uid[vmm]] = vmm /\ replies[vmm] = <<TimedOut>>

\* Only registered calls are written, executed, answered and told anything.
OnlySubmitted ==
  /\ ToSet(sendQueue) \subseteq Submitted
  /\ ToSet(wire) \subseteq Submitted \cup {Login}
  /\ answered \subseteq Submitted
  /\ ToSet(inbox) \subseteq answered /\ ToSet(chunk) \subseteq answered
  /\ \A c \in Calls : replies[c] # <<>> => Registered(c)

\* tmpCallIndex holds nothing outside a sweep, so that none of it is lost.
KeptInSweep == at \notin {"sweep", "expired", "crashed"} => kept = <<>>

ConnectionInv ==
  /\ TypeOK /\ KeptInSweep
  /\ OneOutcome /\ PendingIsSwept
  /\ UidsDistinct /\ TableSound /\ BeingTimedOut /\ OnlySubmitted

=============================================================================

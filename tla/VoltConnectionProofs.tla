------------------------ MODULE VoltConnectionProofs ------------------------
(***************************************************************************)
(* Proofs about a connection, for any set of calls and any limits.         *)
(***************************************************************************)
EXTENDS VoltConnectionProps, FiniteSetTheorems, DataLemmas, TLAPS

-----------------------------------------------------------------------------
(* Type correctness *)

\* What flushing and queueing do to the two sequences of messages.
LEMMA FlushType ==
  ASSUME NEW q \in Seq(Calls \cup {Login}), NEW w, Flush(q, w),
         wire \in Seq(Calls \cup {Login}),
         w = "throws" => q \in Seq(Calls)
  PROVE  sendQueue' \in Seq(Calls) /\ wire' \in Seq(Calls \cup {Login})
<1>1. <<>> \in Seq(Calls) /\ wire \o q \in Seq(Calls \cup {Login})
  BY EmptySeq, ConcatProperties
<1>2. QED BY <1>1 DEF Flush

\* The same for _queue, whose outcome says what the socket did.
LEMMA QueueType ==
  ASSUME TypeOK, NEW m \in Calls \cup {Login}, NEW track \in BOOLEAN, NEW w,
         Queue(m, track, w),
         m = Login => ~track /\ w # "throws"
  PROVE  sendQueue' \in Seq(Calls) /\ wire' \in Seq(Calls \cup {Login})
<1> DEFINE q == Append(sendQueue, m)
<1>1. wire \in Seq(Calls \cup {Login}) /\ sendQueue \in Seq(Calls)
  BY DEF TypeOK
<1>2. q \in Seq(Calls \cup {Login}) /\ (m # Login => q \in Seq(Calls))
  BY <1>1, SeqMonotonic, AppendProperties
<1>3. CASE ~track \/ Len(q) > MessageQueueSize
  BY <1>1, <1>2, <1>3, FlushType DEF Queue
<1>4. CASE ~(~track \/ Len(q) > MessageQueueSize)
  BY <1>1, <1>2, <1>4 DEF Queue
<1>5. QED BY <1>3, <1>4

\* The table, the switch and the writeCallback counts after one of the
\* operators that change nothing else.
LEMMA DeregisterType ==
  ASSUME TypeOK, NEW u, Deregister(u)
  PROVE  calls' \in [Uids -> Calls \cup {NoCall}]
BY DEF TypeOK, Deregister

\* What it may do to the switch and to the counts of writeCallbacks.
LEMMA InvokeType ==
  ASSUME TypeOK, NEW m, NEW writes, InvokeWriteEventHandler(m, writes)
  PROVE  blocked' \in BOOLEAN /\ allowed' \in [Calls -> Nat]
<1>1. blocked' \in BOOLEAN
  BY DEF InvokeWriteEventHandler
<1>2. allowed \in [Calls -> Nat]
  BY DEF TypeOK
<1>3. [allowed EXCEPT ![m] = @ + 1] \in [Calls -> Nat]
  <2>1. m \in Calls => allowed[m] + 1 \in Nat
    BY <1>2
  <2>2. QED BY <1>2, <2>1, Zenon
<1>4. allowed' = [allowed EXCEPT ![m] = @ + 1] \/ allowed' = allowed
  BY Zenon DEF InvokeWriteEventHandler
<1>5. QED BY <1>1, <1>2, <1>3, <1>4

\* The constructor leaves a connection of the right types.
LEMMA InitType == Init => TypeOK
<1> SUFFICES ASSUME Init PROVE TypeOK
  OBVIOUS
<1>1. \A S : <<>> \in Seq(S)
  BY EmptySeq
<1>2. 0 \in Uids /\ 0 \in 0 .. MaxId /\ 0 \in 0 .. QueryTimeout + 1
  BY ConstantsOK DEF Uids
<1>3. /\ calls \in [Uids -> Calls \cup {NoCall}]
      /\ uid \in [Calls -> Uids] /\ age \in [Calls -> 0 .. QueryTimeout + 1]
      /\ replies \in [Calls -> Seq(Calls \cup {TimedOut})]
      /\ allowed \in [Calls -> Nat]
  BY <1>1, <1>2 DEF Init
<1>4. QED BY <1>1, <1>2, <1>3 DEF Init, TypeOK, Places, AppTurn

\* Every step keeps the types, action by action.
LEMMA NextType == TypeOK /\ [Next]_vars => TypeOK'
<1> SUFFICES ASSUME TypeOK, [Next]_vars PROVE TypeOK'
  OBVIOUS
<1> USE ConstantsOK DEF TypeOK
<1>1. ASSUME NEW c \in Calls, CallProcedure(c) PROVE TypeOK'
  <2>1. TakenUID \in Uids /\ NextId \in 0 .. MaxId
    BY DEF TakenUID, NextId, Uids
  <2>2. PICK w \in Outcomes : Queue(c, TRUE, w) /\ IF w = "throws" THEN DispatchError(c) ELSE CountWrite(c)
    BY <1>1 DEF CallProcedure
  <2>3. sendQueue' \in Seq(Calls) /\ wire' \in Seq(Calls \cup {Login})
    BY <2>2, QueueType
  <2>4. /\ calls' \in [Uids -> Calls \cup {NoCall}] /\ callIndex' \in Seq(Uids)
        /\ age' \in [Calls -> 0 .. QueryTimeout + 1]
    BY <1>1, <2>1, AppendProperties DEF CallProcedure, Track
  <2>5. /\ sendCounter' \in Int /\ blocked' \in BOOLEAN /\ validConnection' \in BOOLEAN
        /\ dispatch' \in [Calls -> Dispatches]
        /\ allowed' \in [Calls -> Nat]
    <3>1. CASE w = "throws"
      BY <2>2, <3>1 DEF DispatchError, Dispatches
    <3>2. CASE w # "throws"
      <4>1. sendCounter' \in Int /\ blocked' \in BOOLEAN /\ allowed' \in [Calls -> Nat]
        BY <2>2, <3>2, InvokeType DEF CountWrite
      <4>2. /\ validConnection' \in BOOLEAN
            /\ dispatch' \in [Calls -> Dispatches]
        BY <2>2, <3>2 DEF CountWrite, Dispatches
      <4>3. QED BY <4>1, <4>2
    <3>3. QED BY <3>1, <3>2
  <2>6. id' \in 0 .. MaxId /\ uid' \in [Calls -> Uids]
    BY <1>1, <2>1 DEF CallProcedure
  <2>7. QED BY <1>1, <2>3, <2>4, <2>5, <2>6
    DEF CallProcedure, frame, network, link, server
<1>2. CASE FlushTimer
  <2>1. PICK w : Flush(sendQueue, w) /\ at' = IF w = "throws" THEN "crashed" ELSE at
    BY <1>2 DEF FlushTimer
  <2>2. sendQueue' \in Seq(Calls) /\ wire' \in Seq(Calls \cup {Login})
    BY <2>1, FlushType, SeqMonotonic
  <2>3. at' \in Places
    BY <2>1 DEF Places
  <2>4. QED BY <1>2, <2>2, <2>3
    DEF FlushTimer, table, counter, flags, network, link, server, told
<1>3. CASE OnConnect
  <2>1. NextId \in 0 .. MaxId
    BY DEF NextId
  <2>2. PICK w \in Outcomes : Queue(Login, FALSE, w)
    BY <1>3 DEF OnConnect
  <2>3. w # "throws"
    BY <1>3, <2>2 DEF OnConnect, Queue, Flush, WriteOutcomes
  <2>4. sendQueue' \in Seq(Calls) /\ wire' \in Seq(Calls \cup {Login})
    BY <2>2, <2>3, QueueType
  <2>5. QED BY <1>3, <2>1, <2>4 DEF OnConnect, flags, frame, server, told
<1>4. CASE Close \/ OnError
  BY <1>4
  DEF Close, OnError, table, counter, flags, queue, frame, network, link, server, told
<1>5. ASSUME NEW k \in 0 .. Len(inbox), ReadLogin(k) PROVE TypeOK'
  <2>1. inbox' \in Seq(Calls)
    BY <1>5, LenProperties, ToSetSubSeq DEF ReadLogin
  <2>2. QED BY <1>5, <2>1
    DEF ReadLogin, table, counter, queue, frame, link, server, told
<1>6. ASSUME NEW k \in 1 .. Len(inbox), ReadChunk(k) PROVE TypeOK'
  <2>1. inbox' \in Seq(Calls) /\ chunk' \in Seq(Calls)
    <3>1. Len(inbox) \in 0 .. Len(inbox) /\ k \in 0 .. Len(inbox) /\ k + 1 \in Nat \ {0}
      BY LenProperties
    <3>2. inbox \in Seq(Calls) /\ 1 \in Nat \ {0}
      OBVIOUS
    <3>3. QED BY <1>6, <3>1, <3>2, ToSetSubSeq DEF ReadChunk
  <2>2. QED BY <1>6, <2>1
    DEF ReadChunk, Places, table, counter, flags, queue, link, server, told
<1>7. CASE ReadMessage
  <2>1. Head(chunk) \in Calls /\ chunk' \in Seq(Calls)
    BY <1>7, HeadTailProperties DEF ReadMessage
  <2>2. CASE Respond(Head(chunk))
    <3>1. calls[uid[Head(chunk)]] \in Calls
      BY <2>1, <2>2 DEF Respond
    <3>2. replies' \in [Calls -> Seq(Calls \cup {TimedOut})]
      BY <2>1, <2>2, <3>1, AppendProperties DEF Respond
    <3>3. calls' \in [Uids -> Calls \cup {NoCall}]
      BY <2>2, DeregisterType DEF Respond
    <3>4. sendCounter' \in Int /\ vmm' \in Calls /\ at' \in Places
      BY <2>2, <3>1 DEF Respond, Places, AppTurn
    <3>5. QED BY <1>7, <2>1, <3>2, <3>3, <3>4
      DEF ReadMessage, flags, queue, network, link, server
  <2>3. CASE Orphan(Head(chunk))
    BY <1>7, <2>1, <2>3
    DEF ReadMessage, Orphan, LoopOn, Places, AppTurn, flags, queue, network, link, server
  <2>4. QED BY <1>7, <2>2, <2>3 DEF ReadMessage
<1>8. CASE AfterResponse
  <2>1. blocked' \in BOOLEAN /\ allowed' \in [Calls -> Nat]
    BY <1>8, InvokeType DEF AfterResponse
  <2>2. at' \in Places
    BY <1>8 DEF AfterResponse, LoopOn, Places, AppTurn
  <2>3. QED BY <1>8, <2>1, <2>2
    DEF AfterResponse, table, flags, queue, network, link, server
<1>9. CASE Tick
  BY <1>9 DEF Tick, counter, flags, queue, frame, network, link, server, told
<1>10. CASE SweepStart
  BY <1>10, EmptySeq
  DEF SweepStart, Places, table, counter, flags, queue, network, link, server, told
<1>11. CASE SweepPop
  <2>1. callIndex' \in Seq(Uids) /\ Last(callIndex) \in Uids
    BY <1>11, FrontLast DEF SweepPop
  <2> DEFINE c == calls[Last(callIndex)]
  <2>2. CASE c = NoCall /\ Forget
    BY <1>11, <2>1, <2>2 DEF SweepPop, Forget, flags, queue, network, link, server
  <2>3. CASE c # NoCall /\ Expire(c)
    <3>1. c \in Calls
      BY <2>1, <2>3
    <3>2. replies' \in [Calls -> Seq(Calls \cup {TimedOut})]
      BY <2>3, <3>1, AppendProperties DEF Expire
    <3>3. allowed' \in [Calls -> Nat]
      <4>1. allowed[c] + 1 \in Nat
        BY <3>1
      <4>2. QED BY <2>3, <4>1 DEF Expire
    <3>4. sendCounter' \in Int /\ at' \in Places
      BY <2>3 DEF Expire, Places, AppTurn
    <3>5. QED BY <1>11, <2>1, <2>3, <3>1, <3>2, <3>3, <3>4
          DEF SweepPop, Expire, flags, queue, network, link, server
  <2>4. CASE c # NoCall /\ Keep(c)
    <3>1. c \in Calls
      BY <2>1, <2>4
    <3>2. kept' \in Seq(Uids)
      BY <2>4, <3>1, AppendProperties DEF Keep
    <3>3. QED BY <1>11, <2>1, <2>4, <3>2
      DEF SweepPop, Keep, flags, queue, network, link, server
  <2>5. QED BY <1>11, <2>2, <2>3, <2>4 DEF SweepPop
<1>12. CASE SweepDelete
  BY <1>12
  DEF SweepDelete, Deregister, Places, counter, flags, queue, network, link, server, told
<1>13. CASE SweepEnd
  BY <1>13, EmptySeq
  DEF SweepEnd, Places, AppTurn, counter, flags, queue, network, link, server, told
<1>14. CASE SocketLost \/ ServerLogin
  <2>1. CASE SocketLost
    BY <2>1, EmptySeq
    DEF SocketLost, table, counter, flags, queue, frame, server, told
  <2>2. CASE ServerLogin
    BY <2>2 DEF ServerLogin, table, counter, flags, queue, frame, link, told
  <2>3. QED BY <1>14, <2>1, <2>2
<1>15. ASSUME NEW c \in Calls, ServerAnswer(c) PROVE TypeOK'
  BY <1>15, AppendProperties
  DEF ServerAnswer, table, counter, flags, queue, frame, link, server, told
<1>16. CASE UNCHANGED vars
  BY <1>16
  DEF vars, table, counter, flags, queue, frame, network, link, server, told
<1>17. ASSUME NEW c \in Calls, RejectCall(c) PROVE TypeOK'
  <2>1. TakenUID \in Uids /\ NextId \in 0 .. MaxId
    BY DEF TakenUID, NextId, Uids
  <2>2. dispatch' \in [Calls -> Dispatches]
    BY <1>17 DEF RejectCall, Dispatches
  <2>3. QED BY <1>17, <2>1, <2>2
    DEF RejectCall, counter, flags, queue, frame, network, link, server
<1>18. QED
  BY <1>1, <1>2, <1>3, <1>4, <1>5, <1>6, <1>7, <1>8, <1>9, <1>10, <1>11, <1>12,
     <1>13, <1>14, <1>15, <1>16, <1>17 DEF Next, Read, Sweep, External

\* Type correctness, whatever the calls, the limits and the size of uids:
\* among the rest, the login never waits in the queue and uids stay in range.
THEOREM TypeCorrect == Spec => []TypeOK
BY InitType, NextType, PTL DEF Spec

-----------------------------------------------------------------------------
(* The limit and the switch *)

\* Whatever the invocation of a writeCallback decides, it keeps the switch in
\* step with the counter it was given.
LEMMA InvokeKeepsLimit ==
  ASSUME NEW m, NEW writes \in Int, InvokeWriteEventHandler(m, writes)
  PROVE  ~blocked' => writes < MaxConsecutiveWrites
<1>1. blocked' = (writes >= MaxConsecutiveWrites)
  BY DEF InvokeWriteEventHandler
<1>2. CASE writes >= MaxConsecutiveWrites
  <2>1. blocked' = TRUE
    BY <1>1, <1>2, Zenon
  <2>2. QED BY <2>1
<1>3. CASE ~(writes >= MaxConsecutiveWrites)
  BY <1>3, ConstantsOK
<1>4. QED BY <1>2, <1>3

\* Each handler that moves the counter keeps it below the limit or blocks.
LEMMA LimitStep ==
  TypeOK /\ LimitRaisesBlock /\ [Next]_vars => LimitRaisesBlock'
<1> SUFFICES ASSUME TypeOK, LimitRaisesBlock, [Next]_vars PROVE LimitRaisesBlock'
  OBVIOUS
<1>0. sendCounter \in Int /\ sendCounter + 1 \in Int /\ MaxConsecutiveWrites \in Nat \ {0}
  BY ConstantsOK DEF TypeOK
<1>1. ASSUME NEW c \in Calls, CallProcedure(c) PROVE LimitRaisesBlock'
  <2>1. CASE DispatchError(c)
    BY <2>1 DEF DispatchError, LimitRaisesBlock
  <2>2. CASE CountWrite(c) /\ blocked
    BY <2>2 DEF CountWrite, LimitRaisesBlock
  <2>3. CASE CountWrite(c) /\ ~blocked
    BY <1>0, <2>3, InvokeKeepsLimit DEF CountWrite, LimitRaisesBlock
  <2>4. QED BY <1>1, <2>1, <2>2, <2>3 DEF CallProcedure
<1>2. CASE OnConnect
  <2>1. blocked' = (blocked \/ sendCounter + 1 >= MaxConsecutiveWrites)
    BY <1>2 DEF OnConnect
  <2>2. CASE sendCounter + 1 >= MaxConsecutiveWrites
    BY <2>1, <2>2, Zenon DEF LimitRaisesBlock
  <2>3. CASE ~(sendCounter + 1 >= MaxConsecutiveWrites)
    BY <1>0, <1>2, <2>3 DEF OnConnect, LimitRaisesBlock
  <2>4. QED BY <2>2, <2>3
<1>3. CASE ReadMessage
  <2>1. blocked' = blocked /\ sendCounter' \in {sendCounter, sendCounter - 1}
    BY <1>3 DEF ReadMessage, Respond, Orphan
  <2>2. QED BY <1>0, <2>1 DEF LimitRaisesBlock
<1>4. CASE AfterResponse
  <2>1. CASE blocked
    BY <1>0, <1>4, <2>1, InvokeKeepsLimit DEF AfterResponse, LimitRaisesBlock
  <2>2. CASE ~blocked
    BY <1>4, <2>2 DEF AfterResponse, LimitRaisesBlock
  <2>3. QED BY <2>1, <2>2
<1>5. CASE SweepPop
  <2>1. blocked' = blocked /\ sendCounter' \in {sendCounter, sendCounter - 1}
    BY <1>5 DEF SweepPop, Forget, Expire, Keep
  <2>2. QED BY <1>0, <2>1 DEF LimitRaisesBlock
<1>6. CASE UNCHANGED counter
  BY <1>6 DEF counter, LimitRaisesBlock
<1>7. QED
  BY <1>1, <1>2, <1>3, <1>4, <1>5, <1>6
  DEF Next, RejectCall, FlushTimer, Close, OnError, Read, ReadLogin, ReadChunk, Tick, Sweep,
      SweepStart, SweepDelete, SweepEnd, External, SocketLost, ServerLogin,
      ServerAnswer, counter, vars

\* A connection that says it is not blocked has sent fewer messages than
\* maxConsecutiveWrites that are not answered or given up, for any limit:
\* sendCounter and blocked are changed by four different handlers.
THEOREM LimitRespected == Spec => []LimitRaisesBlock
<1>1. Init => LimitRaisesBlock
  BY ConstantsOK DEF Init, LimitRaisesBlock
<1>2. QED BY <1>1, LimitStep, TypeCorrect, PTL DEF Spec

-----------------------------------------------------------------------------
(* The table of outstanding calls *)

\* A registered call has taken a uid.
LEMMA SubmittedAreIssued ==
  Submitted \subseteq IssuedCalls /\ \A c : Registered(c) => Issued(c)
BY DEF Submitted, IssuedCalls, Registered, Issued

\* A step that decides about no call registers none.
LEMMA SameCalls ==
  ASSUME UNCHANGED dispatch
  PROVE  /\ IssuedCalls' = IssuedCalls /\ Submitted' = Submitted
         /\ \A c : Registered(c)' = Registered(c)
BY DEF Submitted, IssuedCalls, Registered, Issued

\* A uid that is given out is fresh: ids have not come round to 0.
LEMMA FreshUid ==
  ASSUME ConnectionInv, NEW c \in Calls, ~Issued(c)
  PROVE  /\ TakenUID = id /\ NextId = id + 1 /\ id \in Uids
         /\ calls[id] = NoCall
         /\ IsFiniteSet(IssuedCalls)
         /\ Cardinality(IssuedCalls \cup {c}) = Cardinality(IssuedCalls) + 1
         /\ Cardinality(IssuedCalls) \in Nat
<1>1. /\ IsFiniteSet(IssuedCalls \cup {c})
      /\ Cardinality(IssuedCalls \cup {c}) <= Cardinality(Calls)
  BY FewCalls, FS_Subset DEF IssuedCalls
<1>2. /\ IsFiniteSet(IssuedCalls) /\ Cardinality(IssuedCalls) \in Nat
      /\ Cardinality(IssuedCalls \cup {c}) = Cardinality(IssuedCalls) + 1
  BY <1>1, FewCalls, FS_Subset, FS_CardinalityType, FS_AddElement DEF IssuedCalls
<1>3. id \in Nat /\ id < MaxId
  <2>1. id <= Cardinality(IssuedCalls) + 1
    BY <1>2 DEF ConnectionInv, TypeOK, UidsDistinct
  <2>2. Cardinality(Calls) < MaxId /\ Cardinality(Calls) \in Nat /\ MaxId \in Nat
    BY FewCalls, ConstantsOK, FS_CardinalityType
  <2>3. id \in Nat
    BY <2>2 DEF ConnectionInv, TypeOK
  <2>4. QED BY <1>1, <1>2, <2>1, <2>2, <2>3
<1>4. id \in Uids
  BY <1>3, ConstantsOK DEF Uids
<1>5. calls[id] = NoCall
  <2>1. SUFFICES ASSUME calls[id] # NoCall PROVE FALSE
    OBVIOUS
  <2>2. calls[id] \in IssuedCalls /\ uid[calls[id]] = id
    BY <1>4, <2>1, SubmittedAreIssued
    DEF ConnectionInv, TypeOK, TableSound, Submitted
  <2>3. QED BY <1>3, <2>2 DEF ConnectionInv, UidsDistinct
<1>6. QED BY <1>2, <1>3, <1>4, <1>5 DEF TakenUID, NextId

\* The part of the invariant that speaks of the table.
TableInv ==
  /\ OneOutcome /\ PendingIsSwept
  /\ UidsDistinct /\ TableSound /\ BeingTimedOut

\* A step that leaves the table, the uids and the outcomes alone, and does not
\* enter or leave a timeout, keeps that part.
LEMMA TableUntouched ==
  ASSUME TableInv,
         UNCHANGED <<id, calls, callIndex, uid, kept, dispatch, replies>>,
         at = "expired" \/ at' = "expired" => at' = at /\ vmm' = vmm,
         socket \in {"open", "broken"} <=> socket' \in {"open", "broken"}
  PROVE  TableInv'
<1>1. /\ IssuedCalls' = IssuedCalls /\ Submitted' = Submitted
      /\ \A c : Pending(c)' = Pending(c) /\ Registered(c)' = Registered(c)
  BY SameCalls DEF Pending
<1>2. OneOutcome' /\ PendingIsSwept'
  BY <1>1 DEF TableInv, OneOutcome, PendingIsSwept
<1>3. UidsDistinct'
  BY <1>1 DEF TableInv, UidsDistinct
<1>4. TableSound'
  BY <1>1 DEF TableInv, TableSound
<1>5. BeingTimedOut'
  BY <1>1 DEF TableInv, BeingTimedOut
<1>6. QED BY <1>2, <1>3, <1>4, <1>5 DEF TableInv

\* The invariant holds of a fresh connection, which has no calls.
LEMMA InitInv == Init => ConnectionInv
<1> SUFFICES ASSUME Init PROVE ConnectionInv
  OBVIOUS
<1>1. IssuedCalls = {} /\ \A c \in Calls : ~Pending(c)
  BY DEF Init, IssuedCalls, Issued, Registered, Pending
<1>2. id = 0 /\ Cardinality(IssuedCalls) = 0 /\ socket = "connecting" /\ at = "idle"
  BY <1>1, FS_EmptySet DEF Init
<1>3. OneOutcome /\ PendingIsSwept /\ KeptInSweep /\ BeingTimedOut
  BY <1>1 DEF Init, OneOutcome, PendingIsSwept, KeptInSweep, BeingTimedOut
<1>4. UidsDistinct
  BY <1>1, <1>2 DEF UidsDistinct
<1>5. TableSound
  BY DEF Init, TableSound
<1>6. OnlySubmitted
  BY DEF Init, OnlySubmitted, ToSet
<1>7. QED BY InitType, <1>3, <1>4, <1>5, <1>6 DEF ConnectionInv

\* What callProcedure does to the table: the call is issued under a fresh uid.
LEMMA CallProcedureTable ==
  ASSUME ConnectionInv, NEW c \in Calls, CallProcedure(c)
  PROVE  TableInv' /\ Submitted' = Submitted \cup {c}
<1>1. /\ ~Issued(c) /\ replies[c] = <<>>
      /\ id \in Uids /\ calls[id] = NoCall /\ id \in Int
      /\ Cardinality(IssuedCalls \cup {c}) = Cardinality(IssuedCalls) + 1
      /\ Cardinality(IssuedCalls) \in Nat
  <2>1. ~Issued(c)
    BY DEF CallProcedure
  <2>2. replies[c] = <<>>
    BY <2>1, SubmittedAreIssued DEF ConnectionInv, OnlySubmitted
  <2>3. id \in Int
    BY ConstantsOK DEF ConnectionInv, TypeOK
  <2>4. QED BY <2>1, <2>2, <2>3, FreshUid
<1>2. /\ id' = id + 1
      /\ calls' = [calls EXCEPT ![id] = c] /\ uid' = [uid EXCEPT ![c] = id]
      /\ callIndex' = Append(callIndex, id)
      /\ UNCHANGED <<kept, replies, at, vmm, socket>>
  BY FreshUid DEF CallProcedure, Track, frame, network, link
<1>3. dispatch' \in [Calls -> Dispatches]
      /\ dispatch'[c] \notin {"none", "rejected"}
      /\ \A d \in Calls \ {c} : dispatch'[d] = dispatch[d]
  BY NextType
  DEF CallProcedure, CountWrite, DispatchError, ConnectionInv, TypeOK, Next
<1>4. IssuedCalls' = IssuedCalls \cup {c} /\ Submitted' = Submitted \cup {c}
  BY <1>3 DEF IssuedCalls, Issued, Submitted, Registered
<1>5. /\ uid'[c] = id /\ \A d \in Calls \ {c} : uid'[d] = uid[d]
      /\ calls'[id] = c /\ \A u \in Uids \ {id} : calls'[u] = calls[u]
      /\ ToSet(callIndex') = ToSet(callIndex) \cup {id}
  BY <1>1, <1>2, ToSetAppend DEF ConnectionInv, TypeOK
<1>6. \A d \in IssuedCalls : d \in Calls \ {c} /\ uid[d] < id /\ uid[d] \in Int
  BY <1>1 DEF ConnectionInv, UidsDistinct, IssuedCalls, TypeOK, Uids
<1>7. OneOutcome'
  BY <1>2 DEF ConnectionInv, OneOutcome
<1>8. PendingIsSwept'
  <2>1. SUFFICES ASSUME NEW d \in Calls, Pending(d)'
                 PROVE  calls'[uid'[d]] = d /\ uid'[d] \in ToSet(callIndex') \cup ToSet(kept')
    BY DEF PendingIsSwept
  <2>2. CASE d = c
    BY <1>5, <2>2
  <2>3. CASE d # c
    <3>1. Pending(d) /\ d \in IssuedCalls
      BY <1>2, <1>3, <2>1, <2>3, SubmittedAreIssued
      DEF Pending, Registered, Submitted
    <3>2. calls[uid[d]] = d /\ uid[d] \in ToSet(callIndex) \cup ToSet(kept)
          /\ uid[d] \in Uids \ {id}
      BY <1>6, <3>1 DEF ConnectionInv, PendingIsSwept, TypeOK
    <3>3. QED BY <1>2, <1>5, <2>3, <3>2
  <2>4. QED BY <2>2, <2>3
<1>9. UidsDistinct'
  <2>1. id' <= Cardinality(IssuedCalls') + IF socket' \in {"open", "broken"} THEN 1 ELSE 0
    BY <1>1, <1>2, <1>4 DEF ConnectionInv, UidsDistinct
  <2>2. \A d \in IssuedCalls' : uid'[d] < id'
    BY <1>1, <1>2, <1>4, <1>5, <1>6
  <2>3. \A d, e \in IssuedCalls' : uid'[d] = uid'[e] => d = e
    BY <1>1, <1>4, <1>5, <1>6 DEF ConnectionInv, UidsDistinct
  <2>4. QED BY <2>1, <2>2, <2>3 DEF UidsDistinct
<1>10. TableSound'
  <2>1. SUFFICES ASSUME NEW u \in Uids, calls'[u] # NoCall
                 PROVE  /\ dispatch'[calls'[u]] \notin {"none", "rejected"}
                        /\ uid'[calls'[u]] = u
                        /\ replies'[calls'[u]] = <<>> \/ (at' = "expired" /\ vmm' = calls'[u])
    BY DEF TableSound, Registered
  <2>2. CASE u = id
    BY <1>1, <1>2, <1>3, <1>5, <2>2
  <2>3. CASE u # id
    <3>1. calls'[u] = calls[u] /\ calls[u] \in Calls /\ Registered(calls[u])
      BY <1>5, <2>1, <2>3 DEF ConnectionInv, TableSound, TypeOK
    <3>2. calls[u] # c
      BY <1>1, <3>1, SubmittedAreIssued
    <3>3. QED BY <1>2, <1>3, <1>5, <2>1, <3>1, <3>2
      DEF ConnectionInv, TableSound, Registered
  <2>4. QED BY <2>2, <2>3
<1>11. BeingTimedOut'
  <2>1. SUFFICES ASSUME at = "expired"
                 PROVE  vmm \in Submitted' /\ calls'[uid'[vmm]] = vmm /\ replies[vmm] = <<TimedOut>>
    BY <1>2 DEF BeingTimedOut
  <2>2. vmm \in Submitted /\ calls[uid[vmm]] = vmm /\ replies[vmm] = <<TimedOut>>
    BY <2>1 DEF ConnectionInv, BeingTimedOut
  <2>3. uid[vmm] \in Uids \ {id} /\ vmm \in Calls \ {c}
    BY <1>6, <2>2, SubmittedAreIssued DEF ConnectionInv, TypeOK
  <2>4. QED BY <1>4, <1>5, <2>2, <2>3
<1>12. QED BY <1>4, <1>7, <1>8, <1>9, <1>10, <1>11 DEF TableInv

\* A call that is refused takes a fresh uid and no place in the table.
LEMMA RejectCallTable ==
  ASSUME ConnectionInv, NEW c \in Calls, RejectCall(c)
  PROVE  /\ TableInv' /\ Submitted' = Submitted
         /\ \A d \in Calls : Registered(d)' = Registered(d)
<1>1. /\ ~Issued(c) /\ id \in Uids /\ id \in Int
      /\ Cardinality(IssuedCalls \cup {c}) = Cardinality(IssuedCalls) + 1
      /\ Cardinality(IssuedCalls) \in Nat
  <2>1. ~Issued(c)
    BY DEF RejectCall
  <2>2. id \in Int
    BY ConstantsOK DEF ConnectionInv, TypeOK
  <2>3. QED BY <2>1, <2>2, FreshUid
<1>2. /\ id' = id + 1 /\ uid' = [uid EXCEPT ![c] = id]
      /\ UNCHANGED <<calls, callIndex, kept, replies, at, vmm, socket>>
  BY <1>1, FreshUid DEF RejectCall, frame, network, link
<1>3. dispatch'[c] = "rejected" /\ \A d \in Calls \ {c} : dispatch'[d] = dispatch[d]
  BY DEF RejectCall, ConnectionInv, TypeOK
<1>4. /\ IssuedCalls' = IssuedCalls \cup {c} /\ Submitted' = Submitted
      /\ c \notin Submitted /\ \A d \in Calls : Registered(d)' = Registered(d)
  BY <1>1, <1>3 DEF IssuedCalls, Issued, Submitted, Registered
<1>5. uid'[c] = id /\ \A d \in Calls \ {c} : uid'[d] = uid[d]
  BY <1>1, <1>2 DEF ConnectionInv, TypeOK
<1>6. \A d \in IssuedCalls : d \in Calls \ {c} /\ uid[d] < id /\ uid[d] \in Int
  BY <1>1 DEF ConnectionInv, UidsDistinct, IssuedCalls, TypeOK, Uids
<1>7. \A d \in Submitted : d \in Calls \ {c} /\ uid'[d] = uid[d]
  BY <1>4, <1>5 DEF Submitted
<1>8. OneOutcome'
  BY <1>2 DEF ConnectionInv, OneOutcome
<1>9. PendingIsSwept'
  <2>1. \A d \in Calls : Pending(d)' => Pending(d) /\ d \in Submitted
    BY <1>2, <1>4 DEF Pending, Submitted
  <2>2. QED BY <1>2, <1>7, <2>1 DEF ConnectionInv, PendingIsSwept
<1>10. UidsDistinct'
  <2>1. id' <= Cardinality(IssuedCalls') + IF socket' \in {"open", "broken"} THEN 1 ELSE 0
    BY <1>1, <1>2, <1>4 DEF ConnectionInv, UidsDistinct
  <2>2. \A d \in IssuedCalls' : uid'[d] < id'
    BY <1>1, <1>2, <1>4, <1>5, <1>6
  <2>3. \A d, e \in IssuedCalls' : uid'[d] = uid'[e] => d = e
    BY <1>1, <1>4, <1>5, <1>6 DEF ConnectionInv, UidsDistinct
  <2>4. QED BY <2>1, <2>2, <2>3 DEF UidsDistinct
<1>11. TableSound'
  <2>1. \A u \in Uids : calls[u] # NoCall => calls[u] \in Submitted
    BY DEF ConnectionInv, TableSound, TypeOK, Submitted
  <2>2. QED BY <1>2, <1>4, <1>7, <2>1
    DEF ConnectionInv, TableSound, Submitted
<1>12. BeingTimedOut'
  BY <1>2, <1>4, <1>7 DEF ConnectionInv, BeingTimedOut
<1>13. QED BY <1>4, <1>8, <1>9, <1>10, <1>11, <1>12 DEF TableInv

\* A response that finds a manager finds that of its own call, and the call
\* has no outcome yet.
LEMMA ResponseIsOwn ==
  ASSUME ConnectionInv, at # "expired", NEW m \in answered, calls[uid[m]] # NoCall
  PROVE  calls[uid[m]] = m /\ m \in Calls /\ replies[m] = <<>> /\ Registered(m)
<1>1. m \in Submitted /\ m \in Calls /\ uid[m] \in Uids
  BY DEF ConnectionInv, OnlySubmitted, TypeOK, Submitted
<1>2. calls[uid[m]] \in Submitted /\ uid[calls[uid[m]]] = uid[m]
      /\ replies[calls[uid[m]]] = <<>>
  BY <1>1 DEF ConnectionInv, TableSound, TypeOK, Submitted
<1>3. calls[uid[m]] = m
  BY <1>1, <1>2, SubmittedAreIssued DEF ConnectionInv, UidsDistinct
<1>4. QED BY <1>1, <1>2, <1>3 DEF Submitted

\* A response, found or not, leaves the table sound.
LEMMA ReadMessageTable ==
  ASSUME ConnectionInv, ReadMessage
  PROVE  TableInv'
<1>1. /\ at # "expired" /\ Head(chunk) \in answered
      /\ UNCHANGED <<id, callIndex, uid, kept, dispatch, socket>>
  <2>1. Head(chunk) \in ToSet(chunk)
    BY LenProperties, EmptySeq DEF ReadMessage, ConnectionInv, TypeOK, ToSet
  <2>2. QED BY <2>1 DEF ReadMessage, ConnectionInv, OnlySubmitted, network, link
<1>2. CASE Orphan(Head(chunk))
  <2>1. UNCHANGED <<calls, replies>> /\ at' # "expired"
    BY <1>2 DEF Orphan, LoopOn
  <2>2. QED BY <1>1, <2>1, TableUntouched DEF ConnectionInv, TableInv
<1>3. CASE Respond(Head(chunk))
  <2> DEFINE m == Head(chunk)
  <2>1. calls[uid[m]] = m /\ m \in Calls /\ replies[m] = <<>> /\ m # NoCall
    BY <1>1, <1>3, ResponseIsOwn, ConstantsOK DEF Respond
  <2>2. /\ at' = "response" /\ calls' = [calls EXCEPT ![uid[m]] = NoCall]
        /\ replies' = [replies EXCEPT ![m] = Append(replies[m], m)]
    BY <1>3, <2>1 DEF Respond, Deregister
  <2>3. /\ replies'[m] = <<m>> /\ \A d \in Calls \ {m} : replies'[d] = replies[d]
        /\ calls'[uid[m]] = NoCall /\ uid[m] \in Uids
        /\ \A u \in Uids \ {uid[m]} : calls'[u] = calls[u]
    BY <2>1, <2>2 DEF ConnectionInv, TypeOK
  <2>4. IssuedCalls' = IssuedCalls /\ \A d : Registered(d)' = Registered(d)
    BY <1>1, SameCalls
  <2>5. OneOutcome'
    BY <2>3 DEF ConnectionInv, OneOutcome
  <2>6. PendingIsSwept'
    <3>1. \A d \in Calls : Pending(d)' => Pending(d) /\ d # m
      BY <2>3, <2>4 DEF Pending
    <3>2. \A d \in Calls : Pending(d)' => uid[d] \in Uids \ {uid[m]}
      BY <2>1, <3>1 DEF ConnectionInv, PendingIsSwept, TypeOK
    <3>3. QED BY <1>1, <2>3, <3>1, <3>2 DEF ConnectionInv, PendingIsSwept
  <2>7. UidsDistinct'
    BY <1>1, <2>4 DEF ConnectionInv, UidsDistinct
  <2>8. TableSound'
    <3>1. SUFFICES ASSUME NEW u \in Uids, calls'[u] # NoCall
                   PROVE  /\ Registered(calls'[u]) /\ uid[calls'[u]] = u
                          /\ replies'[calls'[u]] = <<>>
      BY <1>1, <2>4 DEF TableSound
    <3>2. u # uid[m] /\ calls'[u] = calls[u] /\ calls[u] \in Calls
      BY <2>3, <3>1 DEF ConnectionInv, TypeOK
    <3>3. Registered(calls[u]) /\ uid[calls[u]] = u /\ replies[calls[u]] = <<>>
      BY <1>1, <3>1, <3>2 DEF ConnectionInv, TableSound
    <3>4. QED BY <2>3, <3>2, <3>3
  <2>9. BeingTimedOut'
    BY <2>2 DEF BeingTimedOut
  <2>10. QED BY <2>5, <2>6, <2>7, <2>8, <2>9 DEF TableInv
<1>4. QED BY <1>2, <1>3 DEF ReadMessage

\* The login takes a uid and no place in the table.
LEMMA OnConnectTable ==
  ASSUME ConnectionInv, OnConnect
  PROVE  TableInv'
<1>1. /\ socket = "connecting" /\ socket' = "open" /\ id' = NextId
      /\ UNCHANGED <<calls, callIndex, uid, kept, dispatch, replies, at, vmm>>
  BY DEF OnConnect, frame, told
<1>2. /\ IssuedCalls' = IssuedCalls /\ Submitted' = Submitted
      /\ \A c : Pending(c)' = Pending(c) /\ Registered(c)' = Registered(c)
  BY <1>1, SameCalls DEF Pending
<1>3. Cardinality(IssuedCalls) \in Nat /\ Cardinality(IssuedCalls) < MaxId
  <2>1. Cardinality(IssuedCalls) \in Nat /\ Cardinality(IssuedCalls) <= Cardinality(Calls)
    BY FewCalls, FS_Subset, FS_CardinalityType DEF IssuedCalls
  <2>2. QED BY <2>1, FewCalls, ConstantsOK, FS_CardinalityType
<1>4. id \in Nat /\ id <= Cardinality(IssuedCalls) /\ MaxId \in Nat
  BY <1>1, <1>3, ConstantsOK DEF ConnectionInv, TypeOK, UidsDistinct
<1>5. id' = id + 1
  BY <1>1, <1>3, <1>4 DEF NextId
<1>6. UidsDistinct'
  <2>1. \A c \in IssuedCalls : uid[c] < id /\ uid[c] \in Int
    BY ConstantsOK DEF ConnectionInv, TypeOK, UidsDistinct, IssuedCalls, Uids
  <2>2. \A c \in IssuedCalls : uid[c] < id + 1
    BY <1>4, <2>1
  <2>3. id' <= Cardinality(IssuedCalls) + 1
    BY <1>3, <1>4, <1>5
  <2>4. QED BY <1>1, <1>2, <1>5, <2>2, <2>3 DEF ConnectionInv, UidsDistinct
<1>7. OneOutcome' /\ PendingIsSwept' /\ BeingTimedOut'
  BY <1>1, <1>2 DEF ConnectionInv, OneOutcome, PendingIsSwept, BeingTimedOut
<1>8. TableSound'
  BY <1>1, <1>2 DEF ConnectionInv, TableSound
<1>9. QED BY <1>6, <1>7, <1>8 DEF TableInv

\* A sweep that takes a uid off the index keeps it, forgets it, or times its
\* call out.
LEMMA SweepPopTable ==
  ASSUME ConnectionInv, SweepPop
  PROVE  TableInv'
<1> DEFINE u == Last(callIndex)
           c == calls[u]
<1>1. /\ at = "sweep" /\ u \in Uids
      /\ ToSet(callIndex) = ToSet(callIndex') \cup {u}
      /\ UNCHANGED <<id, calls, uid, dispatch, socket>>
  BY FrontLast DEF SweepPop, ConnectionInv, TypeOK, network, link
<1>2. /\ IssuedCalls' = IssuedCalls /\ Submitted' = Submitted
      /\ \A d : Registered(d)' = Registered(d)
  BY <1>1, SameCalls
<1>3. UidsDistinct'
  BY <1>1, <1>2 DEF ConnectionInv, UidsDistinct
<1>4. c # NoCall => c \in Calls /\ Registered(c) /\ uid[c] = u /\ replies[c] = <<>>
  BY <1>1 DEF ConnectionInv, TableSound, TypeOK
<1>5. CASE c = NoCall /\ Forget
  <2>1. UNCHANGED <<kept, replies, at, vmm>>
    BY <1>5 DEF Forget
  <2>2. PendingIsSwept'
    <3>1. \A d \in Calls : Pending(d)' => Pending(d)
      BY <1>2, <2>1 DEF Pending
    <3>2. \A d \in Calls : Pending(d) => uid[d] # u
      BY <1>5, ConstantsOK DEF ConnectionInv, PendingIsSwept
    <3>3. QED BY <1>1, <2>1, <3>1, <3>2 DEF ConnectionInv, PendingIsSwept
  <2>3. OneOutcome' /\ BeingTimedOut'
    BY <1>1, <2>1 DEF ConnectionInv, OneOutcome, BeingTimedOut
  <2>4. TableSound'
    BY <1>1, <1>2, <2>1 DEF ConnectionInv, TableSound
  <2>5. QED BY <1>3, <2>2, <2>3, <2>4 DEF TableInv
<1>6. CASE c # NoCall /\ Expire(c)
  <2>1. /\ at' = "expired" /\ vmm' = c /\ kept' = kept
        /\ replies'[c] = <<TimedOut>> /\ \A d \in Calls \ {c} : replies'[d] = replies[d]
    <3>1. /\ at' = "expired" /\ vmm' = c /\ kept' = kept
          /\ replies' = [replies EXCEPT ![c] = Append(replies[c], TimedOut)]
      BY <1>6 DEF Expire
    <3>2. Append(<<>>, TimedOut) = <<TimedOut>>
      OBVIOUS
    <3>3. replies \in [Calls -> Seq(Calls \cup {TimedOut})]
      BY DEF ConnectionInv, TypeOK
    <3>4. QED BY <1>4, <1>6, <3>1, <3>2, <3>3
  <2>2. PendingIsSwept'
    <3>1. \A d \in Calls : Pending(d)' => Pending(d) /\ d # c
      BY <1>2, <2>1 DEF Pending
    <3>2. \A d \in Calls : Pending(d) /\ d # c => uid[d] # u
      BY <1>4 DEF ConnectionInv, PendingIsSwept
    <3>3. QED BY <1>1, <2>1, <3>1, <3>2 DEF ConnectionInv, PendingIsSwept
  <2>3. OneOutcome'
    BY <2>1 DEF ConnectionInv, OneOutcome
  <2>4. BeingTimedOut'
    BY <1>1, <1>2, <1>4, <1>6, <2>1 DEF BeingTimedOut, Submitted
  <2>5. TableSound'
    <3>1. SUFFICES ASSUME NEW v \in Uids, calls[v] # NoCall
                   PROVE  /\ Registered(calls[v]) /\ uid[calls[v]] = v
                          /\ calls[v] # c => replies'[calls[v]] = <<>>
      BY <1>1, <1>2, <2>1 DEF TableSound
    <3>2. calls[v] \in Calls
      BY <3>1 DEF ConnectionInv, TypeOK
    <3>3. QED BY <1>1, <2>1, <3>1, <3>2 DEF ConnectionInv, TableSound
  <2>6. QED BY <1>3, <2>2, <2>3, <2>4, <2>5 DEF TableInv
<1>7. CASE c # NoCall /\ Keep(c)
  <2>1. kept' = Append(kept, u) /\ UNCHANGED <<replies, at, vmm>>
    BY <1>4, <1>7 DEF Keep
  <2>2. ToSet(kept') = ToSet(kept) \cup {u}
    BY <1>1, <2>1, ToSetAppend DEF ConnectionInv, TypeOK
  <2>3. PendingIsSwept'
    <3>1. \A d \in Calls : Pending(d)' => Pending(d)
      BY <1>2, <2>1 DEF Pending
    <3>2. QED BY <1>1, <2>2, <3>1 DEF ConnectionInv, PendingIsSwept
  <2>4. OneOutcome' /\ BeingTimedOut'
    BY <1>1, <2>1 DEF ConnectionInv, OneOutcome, BeingTimedOut
  <2>5. TableSound'
    BY <1>1, <1>2, <2>1 DEF ConnectionInv, TableSound
  <2>6. QED BY <1>3, <2>3, <2>4, <2>5 DEF TableInv
<1>8. QED BY <1>5, <1>6, <1>7 DEF SweepPop

\* The delete that follows the callbacks of a timeout hits the call they were
\* for, even when these callbacks have made new calls.
LEMMA SweepDeleteTable ==
  ASSUME ConnectionInv, SweepDelete
  PROVE  TableInv'
<1>1. /\ at = "expired" /\ at' = "sweep"
      /\ calls' = [calls EXCEPT ![uid[vmm]] = NoCall]
      /\ UNCHANGED <<id, callIndex, uid, kept, dispatch, replies, socket>>
  BY DEF SweepDelete, Deregister, network, link, told
<1>2. /\ vmm \in Submitted /\ vmm \in Calls /\ uid[vmm] \in Uids
      /\ replies[vmm] = <<TimedOut>> /\ calls[uid[vmm]] = vmm
      /\ calls'[uid[vmm]] = NoCall /\ \A u \in Uids \ {uid[vmm]} : calls'[u] = calls[u]
  BY <1>1 DEF ConnectionInv, BeingTimedOut, Submitted, TypeOK
<1>3. /\ IssuedCalls' = IssuedCalls /\ Submitted' = Submitted
      /\ \A d : Registered(d)' = Registered(d) /\ Pending(d)' = Pending(d)
  BY <1>1, SameCalls DEF Pending
<1>4. PendingIsSwept'
  <2>1. \A d \in Calls : Pending(d) => d # vmm /\ calls[uid[d]] = d /\ uid[d] \in Uids
    <3>1. <<TimedOut>> # <<>>
      OBVIOUS
    <3>2. \A d \in Calls : Pending(d) => d # vmm
      BY <1>2, <3>1 DEF Pending
    <3>3. \A d \in Calls : uid[d] \in Uids
      BY DEF ConnectionInv, TypeOK
    <3>4. QED BY <3>2, <3>3 DEF ConnectionInv, PendingIsSwept
  <2>2. \A d \in Calls : Pending(d) => calls'[uid[d]] = d
    BY <1>2, <2>1
  <2>3. QED BY <1>1, <1>3, <2>2 DEF ConnectionInv, PendingIsSwept
<1>5. OneOutcome' /\ UidsDistinct' /\ BeingTimedOut'
  BY <1>1, <1>3 DEF ConnectionInv, OneOutcome, UidsDistinct, BeingTimedOut
<1>6. TableSound'
  <2>1. SUFFICES ASSUME NEW u \in Uids, calls'[u] # NoCall
                 PROVE  /\ Registered(calls'[u]) /\ uid[calls'[u]] = u
                        /\ replies[calls'[u]] = <<>>
    BY <1>1, <1>3 DEF TableSound
  <2>2. calls'[u] = calls[u] /\ u # uid[vmm]
    BY <1>2, <2>1
  <2>3. Registered(calls[u]) /\ uid[calls[u]] = u /\ (replies[calls[u]] = <<>> \/ vmm = calls[u])
    BY <2>1, <2>2 DEF ConnectionInv, TableSound
  <2>4. QED BY <2>2, <2>3
<1>7. QED BY <1>4, <1>5, <1>6 DEF TableInv

\* The kept uids become the index again.
LEMMA SweepEndTable ==
  ASSUME ConnectionInv, SweepEnd
  PROVE  TableInv'
<1>1. /\ callIndex = <<>> /\ callIndex' = kept /\ kept' = <<>>
      /\ at = "sweep" /\ at' = "idle"
      /\ UNCHANGED <<id, calls, uid, dispatch, replies, socket>>
  BY DEF SweepEnd, network, link, told
<1>2. ToSet(callIndex') \cup ToSet(kept') = ToSet(callIndex) \cup ToSet(kept)
  BY <1>1 DEF ToSet
<1>3. /\ IssuedCalls' = IssuedCalls /\ Submitted' = Submitted
      /\ \A d : Registered(d)' = Registered(d) /\ Pending(d)' = Pending(d)
  BY <1>1, SameCalls DEF Pending
<1>4. OneOutcome' /\ UidsDistinct' /\ BeingTimedOut' /\ PendingIsSwept'
  BY <1>1, <1>2, <1>3
  DEF ConnectionInv, OneOutcome, UidsDistinct, BeingTimedOut, PendingIsSwept
<1>5. TableSound'
  BY <1>1, <1>3 DEF ConnectionInv, TableSound
<1>6. QED BY <1>4, <1>5 DEF TableInv

\* Queueing writes what was queued and the new message, and nothing else.
LEMMA QueueElements ==
  ASSUME TypeOK, NEW m \in Calls \cup {Login}, NEW track, NEW w, Queue(m, track, w)
  PROVE  /\ ToSet(sendQueue') \subseteq ToSet(sendQueue) \cup {m}
         /\ ToSet(wire') \subseteq ToSet(wire) \cup ToSet(sendQueue) \cup {m}
<1> DEFINE q == Append(sendQueue, m)
<1>1. wire \in Seq(Calls \cup {Login}) /\ sendQueue \in Seq(Calls \cup {Login})
  BY SeqMonotonic DEF TypeOK
<1>2. q \in Seq(Calls \cup {Login}) /\ ToSet(q) = ToSet(sendQueue) \cup {m}
  BY <1>1, AppendProperties, ToSetAppend
<1>3. sendQueue' \in {q, <<>>} /\ wire' \in {wire, wire \o q}
  BY DEF Queue, Flush
<1> HIDE DEF q
<1>4. ToSet(wire \o q) = ToSet(wire) \cup ToSet(q) /\ ToSet(<<>>) = {}
  BY <1>1, <1>2, ToSetConcat, ToSetEmpty
<1>5. QED BY <1>2, <1>3, <1>4

\* Only registered calls travel, whatever the step.
LEMMA OnlySubmittedStep ==
  ASSUME ConnectionInv, [Next]_vars
  PROVE  OnlySubmitted'
<1>1. ASSUME NEW c \in Calls, CallProcedure(c) PROVE OnlySubmitted'
  <2>1. Submitted' = Submitted \cup {c} /\ UNCHANGED <<answered, inbox, chunk, replies>>
    BY <1>1, CallProcedureTable DEF CallProcedure, frame, network, server
  <2>2. PICK w \in Outcomes : Queue(c, TRUE, w)
    BY <1>1 DEF CallProcedure
  <2>3. /\ ToSet(sendQueue') \subseteq ToSet(sendQueue) \cup {c}
        /\ ToSet(wire') \subseteq ToSet(wire) \cup ToSet(sendQueue) \cup {c}
    BY <2>2, QueueElements DEF ConnectionInv
  <2>4. \A d \in Calls : Registered(d)' <=> d \in Submitted'
    BY DEF Submitted
  <2>5. \A d \in Calls : Registered(d) <=> d \in Submitted
    BY DEF Submitted
  <2>6. QED BY <2>1, <2>3, <2>4, <2>5 DEF ConnectionInv, OnlySubmitted
<1>2. CASE FlushTimer
  <2>1. UNCHANGED <<dispatch, answered, inbox, chunk, replies>>
    BY <1>2 DEF FlushTimer, network, server, told
  <2>2. sendQueue' \in {sendQueue, <<>>} /\ wire' \in {wire, wire \o sendQueue}
    BY <1>2 DEF FlushTimer, Flush
  <2>3. ToSet(wire \o sendQueue) = ToSet(wire) \cup ToSet(sendQueue) /\ ToSet(<<>>) = {}
    <3>1. wire \in Seq(Calls \cup {Login}) /\ sendQueue \in Seq(Calls \cup {Login})
      BY SeqMonotonic DEF ConnectionInv, TypeOK
    <3>2. QED BY <3>1, ToSetConcat DEF ToSet
  <2>4. QED BY <2>1, <2>2, <2>3 DEF ConnectionInv, OnlySubmitted, Submitted, Registered
<1>3. CASE OnConnect
  <2>1. UNCHANGED <<dispatch, answered, inbox, chunk, replies>>
    BY <1>3 DEF OnConnect, frame, server, told
  <2>2. PICK w \in Outcomes : Queue(Login, FALSE, w)
    BY <1>3 DEF OnConnect
  <2>3. /\ ToSet(sendQueue') \subseteq ToSet(sendQueue) \cup {Login}
        /\ ToSet(wire') \subseteq ToSet(wire) \cup ToSet(sendQueue) \cup {Login}
    BY <2>2, QueueElements DEF ConnectionInv
  <2>4. ToSet(sendQueue') \subseteq Calls /\ Login \notin Calls
    <3>1. sendQueue' \in Seq(Calls)
      BY <1>3, NextType DEF ConnectionInv, TypeOK, Next
    <3>2. QED BY <3>1, ToSetType, ConstantsOK
  <2>5. QED BY <2>1, <2>3, <2>4 DEF ConnectionInv, OnlySubmitted, Submitted, Registered
<1>4. ASSUME \/ \E k \in 0 .. Len(inbox) : ReadLogin(k)
             \/ \E k \in 1 .. Len(inbox) : ReadChunk(k)
      PROVE OnlySubmitted'
  <2>1. UNCHANGED <<dispatch, answered, sendQueue, wire, replies>>
    BY <1>4 DEF ReadLogin, ReadChunk, queue, link, server, told
  <2>2. PICK k \in 0 .. Len(inbox) :
          /\ inbox' = SubSeq(inbox, k + 1, Len(inbox))
          /\ chunk' = chunk \/ chunk' = SubSeq(inbox, 1, k)
    <3>1. \A k \in 1 .. Len(inbox) : k \in 0 .. Len(inbox)
      OBVIOUS
    <3>2. QED BY <1>4, <3>1 DEF ReadLogin, ReadChunk, frame
  <2>3. /\ inbox \in Seq(Calls) /\ k + 1 \in Nat \ {0} /\ 1 \in Nat \ {0}
        /\ Len(inbox) \in 0 .. Len(inbox)
    BY LenProperties DEF ConnectionInv, TypeOK
  <2>4. /\ ToSet(SubSeq(inbox, k + 1, Len(inbox))) \subseteq ToSet(inbox)
        /\ ToSet(SubSeq(inbox, 1, k)) \subseteq ToSet(inbox)
    BY <2>3, ToSetSubSeq
  <2>5. QED BY <2>1, <2>2, <2>4 DEF ConnectionInv, OnlySubmitted, Submitted, Registered
<1>5. CASE ReadMessage
  <2>1. UNCHANGED <<dispatch, answered, sendQueue, wire, inbox>>
    BY <1>5 DEF ReadMessage, queue, network, server
  <2>2. ToSet(chunk') \subseteq ToSet(chunk)
    <3>1. chunk \in Seq(Calls) /\ chunk # <<>> /\ chunk' = Tail(chunk)
      BY <1>5 DEF ReadMessage, ConnectionInv, TypeOK
    <3>2. QED BY <3>1, ToSetTail
  <2>3. \A d \in Calls : replies'[d] # <<>> => Registered(d)
    <3>1. CASE Orphan(Head(chunk))
      BY <3>1 DEF Orphan, ConnectionInv, OnlySubmitted
    <3>2. CASE Respond(Head(chunk))
      <4>1. Head(chunk) \in answered /\ at # "expired"
        <5>1. Head(chunk) \in ToSet(chunk)
          BY <1>5, LenProperties, EmptySeq
          DEF ReadMessage, ConnectionInv, TypeOK, ToSet
        <5>2. QED BY <1>5, <5>1 DEF ReadMessage, ConnectionInv, OnlySubmitted
      <4>2. calls[uid[Head(chunk)]] = Head(chunk) /\ Registered(Head(chunk))
        BY <3>2, <4>1, ResponseIsOwn DEF Respond
      <4>3. replies' = [replies EXCEPT ![Head(chunk)] = Append(replies[Head(chunk)], Head(chunk))]
        BY <3>2, <4>2 DEF Respond
      <4>4. QED BY <4>2, <4>3 DEF ConnectionInv, OnlySubmitted, TypeOK
    <3>3. QED BY <1>5, <3>1, <3>2 DEF ReadMessage
  <2>4. QED BY <2>1, <2>2, <2>3 DEF ConnectionInv, OnlySubmitted, Submitted, Registered
<1>6. CASE SweepPop
  <2>1. UNCHANGED <<dispatch, answered, sendQueue, wire, inbox, chunk>>
    BY <1>6 DEF SweepPop, queue, network, server
  <2>2. \A d \in Calls : replies'[d] # <<>> => Registered(d)
    <3> DEFINE c == calls[Last(callIndex)]
    <3>1. CASE c # NoCall /\ Expire(c)
      <4>1. Registered(c)
        BY <1>6, <3>1, FrontLast DEF SweepPop, ConnectionInv, TypeOK, TableSound
      <4>2. replies' = [replies EXCEPT ![c] = Append(replies[c], TimedOut)]
        BY <3>1 DEF Expire
      <4>3. QED BY <4>1, <4>2 DEF ConnectionInv, OnlySubmitted, TypeOK
    <3>2. CASE ~(c # NoCall /\ Expire(c))
      BY <1>6, <3>2 DEF SweepPop, Forget, Keep, ConnectionInv, OnlySubmitted
    <3>3. QED BY <3>1, <3>2
  <2>3. QED BY <2>1, <2>2 DEF ConnectionInv, OnlySubmitted, Submitted, Registered
<1>7. CASE SocketLost
  BY <1>7
  DEF SocketLost, queue, frame, server, told, ConnectionInv, OnlySubmitted, Submitted, Registered, ToSet
<1>8. ASSUME NEW c \in Calls, ServerAnswer(c) PROVE OnlySubmitted'
  <2>1. /\ UNCHANGED <<dispatch, sendQueue, wire, chunk, replies>>
        /\ answered' = answered \cup {c} /\ inbox' = Append(inbox, c)
    BY <1>8 DEF ServerAnswer, queue, frame, told
  <2>2. ToSet(inbox') = ToSet(inbox) \cup {c} /\ c \in Submitted
    BY <1>8, <2>1, ToSetAppend, ConstantsOK
    DEF ServerAnswer, ConnectionInv, TypeOK, OnlySubmitted
  <2>3. QED BY <2>1, <2>2 DEF ConnectionInv, OnlySubmitted, Submitted, Registered
<1>9. CASE UNCHANGED <<dispatch, replies, sendQueue, wire, answered, inbox, chunk>>
  BY <1>9 DEF ConnectionInv, OnlySubmitted, Submitted, Registered
<1>10. ASSUME NEW c \in Calls, RejectCall(c) PROVE OnlySubmitted'
  <2>1. Submitted' = Submitted /\ \A d \in Calls : Registered(d)' = Registered(d)
    BY <1>10, RejectCallTable
  <2>2. UNCHANGED <<sendQueue, wire, answered, inbox, chunk, replies>>
    BY <1>10 DEF RejectCall, queue, frame, network, server
  <2>3. QED BY <2>1, <2>2 DEF ConnectionInv, OnlySubmitted
<1>11. QED
  BY <1>1, <1>2, <1>3, <1>4, <1>5, <1>6, <1>7, <1>8, <1>9, <1>10
  DEF Next, Close, OnError, Read, AfterResponse, Tick, Sweep, SweepStart, SweepDelete,
      SweepEnd, External, ServerLogin, vars, queue, frame, network, server, told

\* The inductive step, put together from the lemmas above.
LEMMA NextInv == ConnectionInv /\ [Next]_vars => ConnectionInv'
<1> SUFFICES ASSUME ConnectionInv, [Next]_vars PROVE ConnectionInv'
  OBVIOUS
<1>1. TypeOK'
  BY NextType DEF ConnectionInv
<1>2. OnlySubmitted'
  BY OnlySubmittedStep
<1>3. KeptInSweep'
  BY DEF ConnectionInv, KeptInSweep, Next, CallProcedure, RejectCall, FlushTimer, OnConnect,
         Close, OnError, Read, ReadLogin, ReadChunk, ReadMessage, Orphan, Respond, AfterResponse,
         LoopOn, Tick, Sweep, SweepStart, SweepPop, Forget, Expire, Keep, SweepDelete,
         SweepEnd, External, SocketLost, ServerLogin, ServerAnswer, vars, frame
<1>4. TableInv'
  <2>1. ASSUME NEW c \in Calls, CallProcedure(c) PROVE TableInv'
    BY <2>1, CallProcedureTable
  <2>2. CASE OnConnect
    BY <2>2, OnConnectTable
  <2>3. CASE ReadMessage
    BY <2>3, ReadMessageTable
  <2>4. CASE SweepPop
    BY <2>4, SweepPopTable
  <2>5. CASE SweepDelete
    BY <2>5, SweepDeleteTable
  <2>6. CASE SweepEnd
    BY <2>6, SweepEndTable
  <2>7. ASSUME UNCHANGED <<id, calls, callIndex, uid, kept, dispatch, replies>>,
               at = "expired" \/ at' = "expired" => at' = at /\ vmm' = vmm,
               socket \in {"open", "broken"} <=> socket' \in {"open", "broken"}
        PROVE  TableInv'
    BY <2>7, TableUntouched DEF ConnectionInv, TableInv
  <2>8. CASE FlushTimer \/ Close \/ OnError \/ Tick
    BY <2>7, <2>8
    DEF FlushTimer, Close, OnError, Tick, table, frame, network, link, told
  <2>9. CASE \/ \E k \in 0 .. Len(inbox) : ReadLogin(k)
             \/ \E k \in 1 .. Len(inbox) : ReadChunk(k)
             \/ AfterResponse
    BY <2>7, <2>9
    DEF ReadLogin, ReadChunk, AfterResponse, LoopOn, table, frame, network, link, told
  <2>10. CASE SweepStart
    BY <2>7, <2>10
    DEF SweepStart, ConnectionInv, KeptInSweep, table, network, link, told
  <2>11. CASE External
    BY <2>7, <2>11
    DEF External, SocketLost, ServerLogin, ServerAnswer, table, frame, link, told
  <2>12. CASE UNCHANGED vars
    BY <2>7, <2>12 DEF vars, table, frame, network, link, told
  <2>13. ASSUME NEW c \in Calls, RejectCall(c) PROVE TableInv'
    BY <2>13, RejectCallTable
  <2>14. QED
    BY <2>1, <2>2, <2>3, <2>4, <2>5, <2>6, <2>8, <2>9, <2>10, <2>11, <2>12, <2>13
    DEF Next, Read, Sweep
<1>5. QED BY <1>1, <1>2, <1>3, <1>4 DEF ConnectionInv, TableInv

\* The inductive invariant of a connection: uids are distinct, the table holds
\* exactly the calls without an outcome and the index covers it, for any number
\* of calls below the number of uids.
THEOREM ConnectionInvariant == Spec => []ConnectionInv
BY InitInv, NextInv, PTL DEF Spec

\* For any number of calls below the number of uids: no readCallback is invoked
\* twice, with the result of another call or after its timeout.
THEOREM AtMostOneOutcome == Spec => []OneOutcome
<1>1. ConnectionInv => OneOutcome
  BY DEF ConnectionInv
<1>2. QED BY <1>1, ConnectionInvariant, PTL

\* Under the same assumption no pending call drops out of the table or of the
\* index the sweep works through.
THEOREM NoPendingCallForgotten == Spec => []PendingIsSwept
<1>1. ConnectionInv => PendingIsSwept
  BY DEF ConnectionInv
<1>2. QED BY <1>1, ConnectionInvariant, PTL

-----------------------------------------------------------------------------
(* A connection implements the service *)

\* A fresh connection is a fresh service.
LEMMA ServiceStart == Init => Service!ServiceInit
<1> SUFFICES ASSUME Init PROVE Service!ServiceInit
  OBVIOUS
<1>1. \A c \in Calls : StatusOf(c) = "none"
  BY DEF Init, StatusOf, Registered
<1>2. QED BY <1>1 DEF Init, Service!ServiceInit, Status

\* A step that changes the status of one call only.
LEMMA StatusOfOne ==
  ASSUME NEW c \in Calls, NEW s, StatusOf(c)' = s,
         \A d \in Calls \ {c} : dispatch'[d] = dispatch[d] /\ replies'[d] = replies[d]
  PROVE  Status' = [Status EXCEPT ![c] = s]
<1>1. \A d \in Calls \ {c} : StatusOf(d)' = StatusOf(d)
  BY DEF StatusOf, Registered, Pending
<1>2. QED BY <1>1 DEF Status

\* Which step of the service a step of the connection is.
LEMMA ServiceStep ==
  ConnectionInv /\ [Next]_vars => [Service!ServiceNext]_Service!svars
<1> SUFFICES ASSUME ConnectionInv, [Next]_vars
             PROVE  Service!ServiceNext \/ UNCHANGED <<Status, answered>>
  BY DEF Service!svars
<1>1. ASSUME NEW c \in Calls, CallProcedure(c) PROVE Service!Submit(c)
  <2>1. /\ ~Registered(c) /\ replies[c] = <<>> /\ UNCHANGED <<replies, answered>>
    BY <1>1, SubmittedAreIssued DEF CallProcedure, network, server, ConnectionInv, OnlySubmitted
  <2>2. /\ dispatch'[c] \notin {"none", "rejected"}
        /\ \A d \in Calls \ {c} : dispatch'[d] = dispatch[d]
    BY <1>1 DEF CallProcedure, CountWrite, DispatchError, ConnectionInv, TypeOK
  <2>3. Status[c] = "none"
    BY <2>1 DEF Status, StatusOf
  <2>4. StatusOf(c)' = "pending"
    BY <2>1, <2>2 DEF StatusOf, Registered, Pending
  <2>6. Status' = [Status EXCEPT ![c] = "pending"]
    BY <2>1, <2>2, <2>4, StatusOfOne
  <2>7. QED BY <2>1, <2>3, <2>6 DEF Service!Submit
<1>2. ASSUME NEW c \in Calls, ServerAnswer(c) PROVE Service!Execute(c)
  <2>1. UNCHANGED Status
    BY <1>2 DEF ServerAnswer, told, Status, StatusOf, Registered, Pending
  <2>2. Registered(c)
    BY <1>2, ConstantsOK DEF ServerAnswer, ConnectionInv, OnlySubmitted, Submitted
  <2>3. Status[c] # "none"
    BY <2>2 DEF Status, StatusOf
  <2>4. QED BY <1>2, <2>1, <2>3 DEF ServerAnswer, Service!Execute
<1>3. ASSUME ReadMessage, NEW m \in Calls, m = Head(chunk), Respond(m)
      PROVE  Service!Answer(m)
  <2>1. m \in answered /\ at # "expired"
    <3>1. m \in ToSet(chunk)
      BY <1>3, LenProperties, EmptySeq DEF ReadMessage, ConnectionInv, TypeOK, ToSet
    <3>2. QED BY <1>3, <3>1 DEF ReadMessage, ConnectionInv, OnlySubmitted
  <2>2. calls[uid[m]] = m /\ m \in Calls /\ replies[m] = <<>> /\ Registered(m)
    BY <1>3, <2>1, ResponseIsOwn DEF Respond
  <2>3. replies' = [replies EXCEPT ![m] = <<m>>] /\ UNCHANGED <<dispatch, answered>>
    BY <1>3, <2>2 DEF ReadMessage, Respond, network, server
  <2>4. Status[m] = "pending"
    BY <2>2 DEF Status, StatusOf, Pending
  <2>5. /\ replies'[m] = <<m>> /\ <<m>> # <<>>
        /\ \A d \in Calls \ {m} : replies'[d] = replies[d]
    BY <2>2, <2>3 DEF ConnectionInv, TypeOK
  <2>6. StatusOf(m)' = "answered"
    BY <2>2, <2>3, <2>5 DEF StatusOf, Registered, Pending
  <2>7. Status' = [Status EXCEPT ![m] = "answered"]
    BY <2>2, <2>3, <2>5, <2>6, StatusOfOne
  <2>8. QED BY <2>1, <2>2, <2>3, <2>4, <2>7 DEF Service!Answer
<1>4. ASSUME SweepPop, NEW c \in Calls, c = calls[Last(callIndex)], c # NoCall, Expire(c)
      PROVE  Service!GiveUp(c)
  <2>1. c \in Calls /\ Registered(c) /\ replies[c] = <<>>
    BY <1>4, FrontLast DEF SweepPop, ConnectionInv, TypeOK, TableSound
  <2>2. replies' = [replies EXCEPT ![c] = <<TimedOut>>] /\ UNCHANGED <<dispatch, answered>>
    BY <1>4, <2>1 DEF SweepPop, Expire, network, server
  <2>3. Status[c] = "pending"
    BY <2>1 DEF Status, StatusOf, Pending
  <2>4. <<TimedOut>> # <<>> /\ <<TimedOut>> # <<c>>
    BY <2>1, ConstantsOK
  <2>5. /\ replies'[c] = <<TimedOut>>
        /\ \A d \in Calls \ {c} : replies'[d] = replies[d]
    BY <2>1, <2>2 DEF ConnectionInv, TypeOK
  <2>6. StatusOf(c)' = "expired"
    BY <2>1, <2>2, <2>4, <2>5 DEF StatusOf, Registered, Pending
  <2>7. Status' = [Status EXCEPT ![c] = "expired"]
    BY <2>1, <2>2, <2>5, <2>6, StatusOfOne
  <2>8. QED BY <2>1, <2>2, <2>3, <2>7 DEF Service!GiveUp
<1>5. CASE UNCHANGED <<dispatch, replies, answered>>
  BY <1>5 DEF Status, StatusOf, Registered, Pending
<1>6. CASE ReadMessage /\ ~Respond(Head(chunk))
  BY <1>5, <1>6 DEF ReadMessage, Orphan, network, server
<1>7. CASE SweepPop /\ ~(calls[Last(callIndex)] # NoCall /\ Expire(calls[Last(callIndex)]))
  BY <1>5, <1>7 DEF SweepPop, Forget, Keep, network, server
<1>8. CASE ReadMessage /\ Respond(Head(chunk))
  <2>1. Head(chunk) \in Calls
    BY <1>8, HeadTailProperties DEF ReadMessage, ConnectionInv, TypeOK
  <2>2. QED BY <1>3, <1>8, <2>1 DEF Service!ServiceNext
<1>9. CASE SweepPop /\ calls[Last(callIndex)] # NoCall /\ Expire(calls[Last(callIndex)])
  <2>1. calls[Last(callIndex)] \in Calls
    BY <1>9, FrontLast DEF SweepPop, ConnectionInv, TypeOK
  <2>2. QED BY <1>4, <1>9, <2>1 DEF Service!ServiceNext
<1>10. ASSUME NEW c \in Calls, RejectCall(c) PROVE UNCHANGED <<Status, answered>>
  <2>1. \A d \in Calls : Registered(d)' = Registered(d)
    BY <1>10, RejectCallTable
  <2>2. UNCHANGED <<replies, answered>>
    BY <1>10 DEF RejectCall, network, server
  <2>3. QED BY <2>1, <2>2 DEF Status, StatusOf, Pending
<1>11. QED
  BY <1>1, <1>2, <1>5, <1>6, <1>7, <1>8, <1>9, <1>10
  DEF Service!ServiceNext, Next, FlushTimer, OnConnect, Close, OnError, Read, ReadLogin,
      ReadChunk, AfterResponse, Tick, Sweep, SweepStart, SweepDelete, SweepEnd, External,
      SocketLost, ServerLogin, vars, network, server, told

\* What happens to a call on a connection is what the service promises: it is
\* submitted once and ends at most once, with its own computed result or with
\* the news of its timeout.
THEOREM ConnectionImplementsService == Spec => ImplementsService
<1>1. Init => Service!ServiceInit
  BY ServiceStart
<1>2. ConnectionInv /\ [Next]_vars => [Service!ServiceNext]_Service!svars
  BY ServiceStep
<1>3. QED BY <1>1, <1>2, ConnectionInvariant, PTL
  DEF Spec, ImplementsService, Service!ServiceSpec

-----------------------------------------------------------------------------
(* What leaves a connection and what comes back, and back pressure *)

Messages == Calls \cup {Login}

\* Messages, one after the other.
LEMMA OutgoingType ==
  ASSUME TypeOK
  PROVE  /\ wire \in Seq(Messages) /\ sendQueue \in Seq(Messages)
         /\ Outgoing \in Seq(Messages)
<1>1. wire \in Seq(Messages) /\ sendQueue \in Seq(Messages)
  BY SeqMonotonic DEF TypeOK, Messages
<1>2. QED BY <1>1, ConcatProperties DEF Outgoing

\* A flush moves messages from the queue to the socket, or loses the queue where the
\* socket drops what is written; only a closed or lost socket does.
LEMMA FlushOutgoing ==
  ASSUME wire \in Seq(Messages), NEW q \in Seq(Messages), NEW w, Flush(q, w)
  PROVE  /\ Outgoing' = wire \o q \/ Outgoing' = wire
         /\ ~closed /\ socket \in {"connecting", "open"} => Outgoing' = wire \o q
<1>1. <<>> \in Seq(Messages) /\ wire \o q \in Seq(Messages)
  BY EmptySeq, ConcatProperties
<1>2. (wire \o q) \o <<>> = wire \o q /\ wire \o <<>> = wire
  BY <1>1, ConcatEmptySeq
<1>3. CASE w = "throws"
  BY <1>3 DEF Flush, WriteOutcomes, Outgoing
<1>4. CASE w = "sent"
  BY <1>2, <1>4 DEF Flush, Outgoing
<1>5. CASE w = "dropped"
  BY <1>2, <1>5 DEF Flush, WriteOutcomes, Outgoing
<1>6. QED BY <1>3, <1>4, <1>5 DEF Flush, WriteOutcomes

\* Queueing adds the message behind the others.
LEMMA QueueOutgoing ==
  ASSUME TypeOK, NEW m \in Messages, NEW track, NEW w, Queue(m, track, w)
  PROVE  /\ Outgoing' = Append(Outgoing, m) \/ Outgoing' = wire
         /\ ~closed /\ socket \in {"connecting", "open"} => Outgoing' = Append(Outgoing, m)
<1> DEFINE q == Append(sendQueue, m)
<1>1. wire \in Seq(Messages) /\ sendQueue \in Seq(Messages) /\ Outgoing \in Seq(Messages)
  BY OutgoingType
<1>2. q \in Seq(Messages) /\ <<m>> \in Seq(Messages)
  BY <1>1, AppendProperties
<1>3. wire \o q = Append(Outgoing, m)
  <2>1. q = sendQueue \o <<m>> /\ Append(Outgoing, m) = Outgoing \o <<m>>
    BY <1>1, AppendIsConcat
  <2>2. wire \o (sendQueue \o <<m>>) = (wire \o sendQueue) \o <<m>>
    BY <1>1, <1>2, ConcatAssociative
  <2>3. QED BY <2>1, <2>2 DEF Outgoing
<1>4. CASE Flush(q, w)
  BY <1>1, <1>2, <1>3, <1>4, FlushOutgoing
<1>5. CASE sendQueue' = q /\ wire' = wire
  BY <1>3, <1>5 DEF Outgoing
<1>6. QED BY <1>4, <1>5 DEF Queue

\* What a step does to the messages: a call or the login is put behind them, or the
\* queue is lost, or they stay what they are.
LEMMA OutgoingStep ==
  ASSUME TypeOK, [Next]_vars
  PROVE  \/ Outgoing' = Outgoing
         \/ Outgoing' = wire /\ ~(~closed /\ socket \in {"connecting", "open"})
         \/ \E m \in Messages :
              /\ Outgoing' = Append(Outgoing, m)
              /\ m # Login => CallProcedure(m)
<1>1. ASSUME NEW c \in Calls, CallProcedure(c)
      PROVE  \/ Outgoing' = Append(Outgoing, c)
             \/ Outgoing' = wire /\ ~(~closed /\ socket \in {"connecting", "open"})
  <2>1. PICK w : Queue(c, TRUE, w)
    BY <1>1 DEF CallProcedure
  <2>2. QED BY <2>1, QueueOutgoing DEF Messages
<1>2. CASE OnConnect
  <2>1. PICK w : Queue(Login, FALSE, w)
    BY <1>2 DEF OnConnect
  <2>2. Login \in Messages
    BY DEF Messages
  <2>3. QED BY <2>1, <2>2, QueueOutgoing
<1>3. CASE FlushTimer
  <2>1. PICK w : Flush(sendQueue, w)
    BY <1>3 DEF FlushTimer
  <2>2. QED BY <2>1, OutgoingType, FlushOutgoing DEF Outgoing
<1>4. CASE UNCHANGED queue
  BY <1>4 DEF queue, Outgoing
<1>5. QED
  BY <1>1, <1>2, <1>3, <1>4
  DEF Messages, Next, RejectCall, Close, OnError, Read, ReadLogin, ReadChunk, ReadMessage,
      AfterResponse, Tick, Sweep, SweepStart, SweepPop, SweepDelete, SweepEnd, External,
      SocketLost, ServerLogin, ServerAnswer, vars

-----------------------------------------------------------------------------
(* Nothing is dropped *)

\* Appending changes nothing before the end.
LEMMA PrefixOfAppend ==
  ASSUME NEW S, NEW s \in Seq(S), NEW e \in S
  PROVE  IsPrefix(s, s) /\ IsPrefix(s, Append(s, e))
<1>1. Len(s) \in Nat /\ Len(Append(s, e)) = Len(s) + 1 /\ Append(s, e) \in Seq(S)
  BY LenProperties, AppendProperties
<1>2. SubSeq(Append(s, e), 1, Len(s)) = SubSeq(s, 1, Len(s))
  <2> DEFINE a == SubSeq(Append(s, e), 1, Len(s))
             b == SubSeq(s, 1, Len(s))
  <2>1. \A i \in 1 .. Len(s) : Append(s, e)[i] = s[i] /\ s[i] \in S
    BY AppendProperties, ElementOfSeq
  <2>2. 1 \in Int /\ Len(s) \in Int /\ Len(s) - 1 + 1 = Len(s)
        /\ \A i \in 1 .. Len(s) : 1 + i - 1 = i
    BY <1>1
  <2>3. /\ a \in Seq(S) /\ Len(a) = IF 1 <= Len(s) THEN Len(s) - 1 + 1 ELSE 0
        /\ \A i \in 1 .. Len(s) - 1 + 1 : a[i] = Append(s, e)[1 + i - 1]
    <3>1. \A i \in 1 .. Len(s) : Append(s, e)[i] \in S
      BY <2>1
    <3>2. QED BY <2>2, <3>1, SubSeqProperties
  <2>4. /\ b \in Seq(S) /\ Len(b) = IF 1 <= Len(s) THEN Len(s) - 1 + 1 ELSE 0
        /\ \A i \in 1 .. Len(s) - 1 + 1 : b[i] = s[1 + i - 1]
    BY <2>1, <2>2, SubSeqProperties
  <2>5. Len(a) = Len(b) /\ \A i \in 1 .. Len(a) : a[i] = b[i]
    <3> HIDE DEF a, b
    <3>1. QED BY <1>1, <2>1, <2>2, <2>3, <2>4
  <2>6. QED
    <3> HIDE DEF a, b
    <3>1. a = b
      BY <2>3, <2>4, <2>5, SeqEqual
    <3>2. QED BY <3>1 DEF a, b
<1>3. QED BY <1>1, <1>2 DEF IsPrefix

\* For any size of the queue, a message that was handed to a connection stays in the
\* queue or has gone to the socket, through every flush of every handler, as long as
\* the socket works.
THEOREM NoMessageDropped == Spec => NothingDropped
<1>1. TypeOK /\ [Next]_vars =>
        [~closed /\ socket \in {"connecting", "open"} => IsPrefix(Outgoing, Outgoing')]_vars
  <2> SUFFICES ASSUME TypeOK, [Next]_vars, ~closed, socket \in {"connecting", "open"}
               PROVE  IsPrefix(Outgoing, Outgoing')
    OBVIOUS
  <2>1. Outgoing' = Outgoing \/ \E m \in Messages : Outgoing' = Append(Outgoing, m)
    BY OutgoingStep
  <2>2. Outgoing \in Seq(Messages) /\ Login \in Messages
    BY OutgoingType DEF Messages
  <2>3. IsPrefix(Outgoing, Outgoing) /\ \A m \in Messages : IsPrefix(Outgoing, Append(Outgoing, m))
    BY <2>2, PrefixOfAppend
  <2>4. QED BY <2>1, <2>3
<1>2. QED BY <1>1, TypeCorrect, PTL DEF Spec, NothingDropped

-----------------------------------------------------------------------------
(* In order *)

\* What leaves has been submitted.
LEMMA OutgoingSubmitted ==
  ASSUME ConnectionInv
  PROVE  \A i \in 1 .. Len(Outgoing) : Outgoing[i] # Login => Outgoing[i] \in Submitted
<1>1. /\ wire \in Seq(Messages) /\ sendQueue \in Seq(Messages) /\ Outgoing \in Seq(Messages)
  BY OutgoingType DEF ConnectionInv
<1>2. ToSet(Outgoing) = ToSet(wire) \cup ToSet(sendQueue)
  BY <1>1, ToSetConcat DEF Outgoing
<1>3. ToSet(Outgoing) \subseteq Submitted \cup {Login}
  BY <1>2 DEF ConnectionInv, OnlySubmitted
<1>4. \A i \in 1 .. Len(Outgoing) : Outgoing[i] \in ToSet(Outgoing)
  BY <1>1, LenProperties DEF ToSet
<1>5. QED BY <1>3, <1>4

\* The messages stay, or the last of them are lost.
LEMMA OrderKept ==
  ASSUME ConnectionInv, DispatchOrder,
         \A c \in Submitted : uid'[c] = uid[c],
         Outgoing' = Outgoing \/ Outgoing' = wire
  PROVE  DispatchOrder'
<1>1. /\ wire \in Seq(Messages) /\ sendQueue \in Seq(Messages) /\ Outgoing \in Seq(Messages)
  BY OutgoingType DEF ConnectionInv
<1>2. /\ Len(Outgoing) = Len(wire) + Len(sendQueue) /\ Len(wire) \in Nat /\ Len(sendQueue) \in Nat
      /\ \A i \in 1 .. Len(wire) : Outgoing[i] = wire[i]
  <2>1. /\ Len(Outgoing) = Len(wire) + Len(sendQueue)
        /\ \A i \in 1 .. Len(wire) + Len(sendQueue) :
             Outgoing[i] = IF i <= Len(wire) THEN wire[i] ELSE sendQueue[i - Len(wire)]
    BY <1>1, ConcatProperties DEF Outgoing
  <2>2. Len(wire) \in Nat /\ Len(sendQueue) \in Nat
    BY <1>1, LenProperties
  <2>3. QED BY <2>1, <2>2
<1>3. /\ Len(Outgoing') <= Len(Outgoing) /\ Len(Outgoing') \in Nat
      /\ \A i \in 1 .. Len(Outgoing') : Outgoing'[i] = Outgoing[i]
  BY <1>2
<1>4. SUFFICES ASSUME NEW i \in 1 .. Len(Outgoing'), NEW j \in 1 .. Len(Outgoing'), i < j,
                      Outgoing'[i] # Login, Outgoing'[j] # Login
               PROVE  uid'[Outgoing'[i]] < uid'[Outgoing'[j]]
  BY DEF DispatchOrder
<1>5. /\ i \in 1 .. Len(Outgoing) /\ j \in 1 .. Len(Outgoing)
      /\ Outgoing'[i] = Outgoing[i] /\ Outgoing'[j] = Outgoing[j]
  BY <1>2, <1>3
<1>6. uid[Outgoing[i]] < uid[Outgoing[j]]
  BY <1>4, <1>5 DEF DispatchOrder
<1>7. QED BY <1>4, <1>5, <1>6, OutgoingSubmitted

\* A message comes behind them, a call's with a uid above theirs.
LEMMA OrderExtended ==
  ASSUME ConnectionInv, DispatchOrder, NEW m \in Messages,
         \A c \in Submitted : uid'[c] = uid[c],
         m # Login => \A c \in Submitted : uid[c] < uid'[m],
         Outgoing' = Append(Outgoing, m)
  PROVE  DispatchOrder'
<1>1. Outgoing \in Seq(Messages) /\ Len(Outgoing) \in Nat
  BY OutgoingType, LenProperties DEF ConnectionInv
<1>2. /\ Len(Outgoing') = Len(Outgoing) + 1 /\ Outgoing'[Len(Outgoing) + 1] = m
      /\ \A i \in 1 .. Len(Outgoing) : Outgoing'[i] = Outgoing[i]
  BY <1>1, AppendProperties
<1>3. SUFFICES ASSUME NEW i \in 1 .. Len(Outgoing'), NEW j \in 1 .. Len(Outgoing'), i < j,
                      Outgoing'[i] # Login, Outgoing'[j] # Login
               PROVE  uid'[Outgoing'[i]] < uid'[Outgoing'[j]]
  BY DEF DispatchOrder
<1>4. i \in 1 .. Len(Outgoing) /\ Outgoing'[i] = Outgoing[i] /\ Outgoing[i] \in Submitted
  BY <1>1, <1>2, <1>3, OutgoingSubmitted
<1>5. CASE j = Len(Outgoing) + 1
  BY <1>2, <1>3, <1>4, <1>5
<1>6. CASE j # Len(Outgoing) + 1
  <2>1. j \in 1 .. Len(Outgoing) /\ Outgoing'[j] = Outgoing[j] /\ Outgoing[j] \in Submitted
    BY <1>1, <1>2, <1>3, <1>6, OutgoingSubmitted
  <2>2. uid[Outgoing[i]] < uid[Outgoing[j]]
    BY <1>3, <1>4, <2>1 DEF DispatchOrder
  <2>3. QED BY <1>4, <2>1, <2>2
<1>7. QED BY <1>5, <1>6

\* No step gives a submitted call another uid, and a new call's uid is the greatest.
LEMMA UidsGrow ==
  ASSUME ConnectionInv, [Next]_vars
  PROVE  /\ \A c \in Submitted : uid'[c] = uid[c]
         /\ \A d \in Calls : CallProcedure(d) => \A c \in Submitted : uid[c] < uid'[d]
<1>1. uid \in [Calls -> Uids] /\ Submitted \subseteq Calls
  BY DEF ConnectionInv, TypeOK, Submitted
<1>2. ASSUME NEW d \in Calls, CallProcedure(d) \/ RejectCall(d)
      PROVE  uid' = [uid EXCEPT ![d] = id] /\ d \notin Submitted
  <2>1. ~Issued(d) /\ uid' = [uid EXCEPT ![d] = TakenUID]
    BY <1>2 DEF CallProcedure, RejectCall
  <2>2. QED BY <2>1, FreshUid, SubmittedAreIssued DEF Submitted
<1>3. \A c \in Submitted : uid[c] < id
  BY SubmittedAreIssued DEF ConnectionInv, UidsDistinct
<1>4. (\A d \in Calls : ~CallProcedure(d) /\ ~RejectCall(d)) => uid' = uid
  BY DEF Next, FlushTimer, OnConnect, Close, OnError, Read, ReadLogin, ReadChunk, ReadMessage,
         AfterResponse, Tick, Sweep, SweepStart, SweepPop, SweepDelete, SweepEnd, External,
         SocketLost, ServerLogin, ServerAnswer, vars, table
<1>5. \A c \in Submitted : uid'[c] = uid[c]
  BY <1>1, <1>2, <1>4
<1>6. ASSUME NEW d \in Calls, CallProcedure(d), NEW c \in Submitted PROVE uid[c] < uid'[d]
  BY <1>1, <1>2, <1>3, <1>6
<1>7. QED BY <1>5, <1>6

\* For any number of calls, fewer than uids, and any size of the queue: calls leave in
\* the order in which they were made and none twice, whatever flushes fail.
THEOREM CallsLeaveInOrder == Spec => []DispatchOrder
<1>1. Init => DispatchOrder
  <2>1. Init => Len(Outgoing) = 0
    BY EmptySeq, ConcatEmptySeq DEF Init, Outgoing
  <2>2. QED BY <2>1 DEF DispatchOrder
<1>2. ConnectionInv /\ DispatchOrder /\ [Next]_vars => DispatchOrder'
  <2> SUFFICES ASSUME ConnectionInv, DispatchOrder, [Next]_vars PROVE DispatchOrder'
    OBVIOUS
  <2>1. CASE Outgoing' = Outgoing \/ Outgoing' = wire
    BY <2>1, UidsGrow, OrderKept
  <2>2. ASSUME NEW m \in Messages, Outgoing' = Append(Outgoing, m), m # Login => CallProcedure(m)
        PROVE  DispatchOrder'
    <3>1. m # Login => m \in Calls
      BY DEF Messages
    <3>2. QED BY <2>2, <3>1, UidsGrow, OrderExtended
  <2>3. TypeOK
    BY DEF ConnectionInv
  <2>4. QED BY <2>1, <2>2, <2>3, OutgoingStep
<1>3. QED BY <1>1, <1>2, ConnectionInvariant, PTL DEF Spec

-----------------------------------------------------------------------------
(* What comes back *)

\* A sequence in which nothing comes twice.
Once(s) == \A i, j \in 1 .. Len(s) : s[i] = s[j] => i = j

\* Cutting such a sequence in two shares no element out to both parts.
LEMMA CutOnce ==
  ASSUME NEW S, NEW s \in Seq(S), Once(s), NEW k \in 0 .. Len(s)
  PROVE  LET a == SubSeq(s, 1, k)
             b == SubSeq(s, k + 1, Len(s))
         IN  /\ Once(a) /\ Once(b)
             /\ ToSet(a) \subseteq ToSet(s) /\ ToSet(b) \subseteq ToSet(s)
             /\ ToSet(a) \cap ToSet(b) = {}
<1> DEFINE a == SubSeq(s, 1, k)
           b == SubSeq(s, k + 1, Len(s))
<1>1. Len(s) \in Nat /\ k \in Nat /\ \A i \in 1 .. Len(s) : s[i] \in S
  BY LenProperties, ElementOfSeq
<1>2. Len(a) = k /\ \A i \in 1 .. k : a[i] = s[i]
  <2>1. /\ Len(a) = (IF 1 <= k THEN k - 1 + 1 ELSE 0)
        /\ \A i \in 1 .. k - 1 + 1 : a[i] = s[1 + i - 1]
    BY <1>1, SubSeqProperties
  <2> HIDE DEF a
  <2>2. QED BY <1>1, <2>1
<1>3. Len(b) = Len(s) - k /\ \A i \in 1 .. Len(s) - k : b[i] = s[k + i]
  <2>1. \A i \in k + 1 .. Len(s) : s[i] \in S
    BY <1>1
  <2>2. k + 1 \in Int /\ Len(s) \in Int
    BY <1>1
  <2>3. /\ Len(b) = (IF k + 1 <= Len(s) THEN Len(s) - (k + 1) + 1 ELSE 0)
        /\ \A i \in 1 .. Len(s) - (k + 1) + 1 : b[i] = s[k + 1 + i - 1]
    BY <2>1, <2>2, SubSeqProperties
  <2>4. Len(s) - (k + 1) + 1 = Len(s) - k
        /\ \A i \in 1 .. Len(s) - k : k + 1 + i - 1 = k + i
    BY <1>1
  <2> HIDE DEF b
  <2>5. Len(b) = Len(s) - k
    BY <1>1, <2>3
  <2>6. \A i \in 1 .. Len(s) - k : b[i] = s[k + i]
    BY <2>3, <2>4, Zenon
  <2>7. QED BY <2>5, <2>6
<1>4. DOMAIN a = 1 .. k /\ DOMAIN b = 1 .. Len(s) - k /\ DOMAIN s = 1 .. Len(s)
  <2>1. a \in Seq(S) /\ b \in Seq(S)
    BY <1>1, ToSetSubSeq
  <2>2. QED BY <1>2, <1>3, <2>1, LenProperties
<1> HIDE DEF a, b
<1>5. \A i \in 1 .. k : i \in 1 .. Len(s)
  BY <1>1
<1>6. \A i \in 1 .. Len(s) - k : k + i \in 1 .. Len(s)
  BY <1>1
<1>7. Once(a)
  BY <1>2, <1>5 DEF Once
<1>8. Once(b)
  <2>1. SUFFICES ASSUME NEW i \in 1 .. Len(s) - k, NEW j \in 1 .. Len(s) - k, b[i] = b[j]
                 PROVE  i = j
    BY <1>3 DEF Once
  <2>2. k + i = k + j
    BY <1>3, <1>6, <2>1 DEF Once
  <2>3. QED BY <1>1, <2>2
<1>9. ToSet(a) \subseteq ToSet(s) /\ ToSet(b) \subseteq ToSet(s)
  BY <1>2, <1>3, <1>4, <1>5, <1>6 DEF ToSet
<1>10. \A i \in 1 .. k, j \in 1 .. Len(s) - k : a[i] # b[j]
  <2>1. SUFFICES ASSUME NEW i \in 1 .. k, NEW j \in 1 .. Len(s) - k, a[i] = b[j] PROVE FALSE
    OBVIOUS
  <2>2. i = k + j
    BY <1>2, <1>3, <1>5, <1>6, <2>1 DEF Once
  <2>3. QED BY <1>1, <2>2
<1>11. ToSet(a) \cap ToSet(b) = {}
  BY <1>4, <1>10 DEF ToSet
<1>12. QED BY <1>7, <1>8, <1>9, <1>11 DEF a, b

\* Something new at the end keeps it so.
LEMMA AppendOnce ==
  ASSUME NEW S, NEW s \in Seq(S), Once(s), NEW e \in S, e \notin ToSet(s)
  PROVE  Once(Append(s, e))
<1>1. /\ Len(s) \in Nat /\ DOMAIN s = 1 .. Len(s)
      /\ Len(Append(s, e)) = Len(s) + 1 /\ Append(s, e)[Len(s) + 1] = e
      /\ \A i \in 1 .. Len(s) : Append(s, e)[i] = s[i]
  BY LenProperties, AppendProperties
<1>2. \A i \in 1 .. Len(s) : s[i] # e
  BY <1>1 DEF ToSet
<1>3. \A i \in 1 .. Len(s) + 1 : i \in 1 .. Len(s) \/ i = Len(s) + 1
  BY <1>1
<1>4. QED BY <1>1, <1>2, <1>3 DEF Once

\* What is taken from the front does not come again.
LEMMA TailOnce ==
  ASSUME NEW S, NEW s \in Seq(S), Once(s), s # <<>>
  PROVE  Once(Tail(s)) /\ Head(s) \notin ToSet(Tail(s)) /\ Head(s) \in ToSet(s)
<1>1. /\ Len(s) \in Nat \ {0} /\ DOMAIN s = 1 .. Len(s)
      /\ Len(Tail(s)) = Len(s) - 1 /\ DOMAIN Tail(s) = 1 .. Len(s) - 1
      /\ Head(s) = s[1] /\ \A i \in 1 .. Len(s) - 1 : Tail(s)[i] = s[i + 1]
  BY EmptySeq, LenProperties, HeadTailProperties
<1>2. 1 \in 1 .. Len(s) /\ \A i \in 1 .. Len(s) - 1 : i + 1 \in 1 .. Len(s) /\ i + 1 # 1
  BY <1>1
<1>3. Once(Tail(s))
  <2>1. SUFFICES ASSUME NEW i \in 1 .. Len(s) - 1, NEW j \in 1 .. Len(s) - 1,
                        s[i + 1] = s[j + 1]
                 PROVE  i = j
    BY <1>1 DEF Once
  <2>2. i + 1 = j + 1
    BY <1>2, <2>1 DEF Once
  <2>3. QED BY <2>2
<1>4. Head(s) \notin ToSet(Tail(s))
  BY <1>1, <1>2 DEF Once, ToSet
<1>5. QED BY <1>1, <1>2, <1>3, <1>4 DEF ToSet

-----------------------------------------------------------------------------

OnTheWay == ToSet(inbox) \cup ToSet(chunk)

\* No call is answered twice: not by the server, not by a chunk that is read again.
AnsweredOnce ==
  /\ Once(inbox) /\ Once(chunk) /\ ToSet(inbox) \cap ToSet(chunk) = {}
  /\ \A c \in OnTheWay : replies[c] # <<c>>
  /\ \A c \in Calls : replies[c] = <<c>> => c \in answered

\* A response that is on its way is of a call without an outcome, or timed out.
LEMMA ResponseFinds ==
  ASSUME ConnectionInv, AnsweredOnce
  PROVE  ResponseFindsItsCall
<1> SUFFICES ASSUME NEW c \in OnTheWay PROVE calls[uid[c]] = c \/ replies[c] = <<TimedOut>>
  BY DEF ResponseFindsItsCall, OnTheWay
<1>1. c \in Calls /\ Registered(c)
  BY DEF OnTheWay, ConnectionInv, OnlySubmitted, Submitted
<1>2. replies[c] \in {<<>>, <<TimedOut>>}
  BY <1>1 DEF ConnectionInv, OneOutcome, AnsweredOnce
<1>3. QED BY <1>1, <1>2 DEF ConnectionInv, PendingIsSwept, Pending

\* Telling a call its outcome leaves the responses of the others outstanding.
LEMMA OutcomeKeepsOnce ==
  ASSUME ConnectionInv, AnsweredOnce, NEW c \in Calls, replies[c] = <<>>,
         NEW r \in {c, TimedOut},
         replies' = [replies EXCEPT ![c] = Append(@, r)],
         Once(inbox'), Once(chunk'), ToSet(inbox') \cap ToSet(chunk') = {},
         OnTheWay' \subseteq OnTheWay, UNCHANGED answered,
         r = c => c \in answered /\ c \notin OnTheWay'
  PROVE  AnsweredOnce'
<1>1. replies'[c] = <<r>> /\ \A d \in Calls : d # c => replies'[d] = replies[d]
  <2>1. replies'[c] = Append(<<>>, r) /\ Append(<<>>, r) = <<r>>
    BY DEF ConnectionInv, TypeOK
  <2>2. QED BY <2>1 DEF ConnectionInv, TypeOK
<1>2. <<TimedOut>> # <<c>>
  BY ConstantsOK
<1>3. OnTheWay \subseteq Calls
  BY DEF OnTheWay, ConnectionInv, OnlySubmitted, Submitted
<1>4. \A d \in OnTheWay' : replies'[d] # <<d>>
  BY <1>1, <1>2, <1>3 DEF AnsweredOnce
<1>5. \A d \in Calls : replies'[d] = <<d>> => d \in answered'
  BY <1>1, <1>2 DEF AnsweredOnce
<1>6. QED BY <1>4, <1>5 DEF AnsweredOnce

\* A step that tells nobody anything and puts nothing on its way.
LEMMA OnceKept ==
  ASSUME ConnectionInv, AnsweredOnce, UNCHANGED replies, answered \subseteq answered',
         Once(inbox'), Once(chunk'), ToSet(inbox') \cap ToSet(chunk') = {},
         OnTheWay' \subseteq OnTheWay
  PROVE  AnsweredOnce'
BY DEF AnsweredOnce

\* A response is made once for each call, and moves on.
LEMMA AnsweredOnceStep == ConnectionInv /\ AnsweredOnce /\ [Next]_vars => AnsweredOnce'
<1> SUFFICES ASSUME ConnectionInv, AnsweredOnce, [Next]_vars PROVE AnsweredOnce'
  OBVIOUS
<1>0. /\ inbox \in Seq(Calls) /\ chunk \in Seq(Calls) /\ Len(inbox) \in Nat
      /\ Once(inbox) /\ Once(chunk) /\ ToSet(inbox) \cap ToSet(chunk) = {}
  BY LenProperties DEF ConnectionInv, TypeOK, AnsweredOnce
<1>1. ASSUME NEW k \in 0 .. Len(inbox), ReadLogin(k) PROVE AnsweredOnce'
  <2>1. /\ inbox' = SubSeq(inbox, k + 1, Len(inbox))
        /\ UNCHANGED <<chunk, replies, answered>>
    BY <1>1 DEF ReadLogin, frame, told
  <2>2. Once(inbox') /\ ToSet(inbox') \subseteq ToSet(inbox)
    BY <1>0, <2>1, CutOnce
  <2>3. QED BY <1>0, <2>1, <2>2, OnceKept DEF OnTheWay
<1>2. ASSUME NEW k \in 1 .. Len(inbox), ReadChunk(k) PROVE AnsweredOnce'
  <2>1. /\ chunk' = SubSeq(inbox, 1, k) /\ inbox' = SubSeq(inbox, k + 1, Len(inbox))
        /\ UNCHANGED <<replies, answered>>
    BY <1>2 DEF ReadChunk, told
  <2>2. /\ Once(inbox') /\ Once(chunk') /\ ToSet(chunk') \cap ToSet(inbox') = {}
        /\ ToSet(inbox') \subseteq ToSet(inbox) /\ ToSet(chunk') \subseteq ToSet(inbox)
    <3>1. k \in 0 .. Len(inbox)
      BY <1>0
    <3>2. QED BY <1>0, <2>1, <3>1, CutOnce
  <2>3. QED BY <2>1, <2>2, OnceKept DEF OnTheWay
<1>3. CASE ReadMessage
  <2> DEFINE m == Head(chunk)
  <2>1. /\ at # "expired" /\ chunk # <<>> /\ chunk' = Tail(chunk)
        /\ UNCHANGED <<inbox, answered>>
    BY <1>3 DEF ReadMessage, network, server
  <2>2. /\ Once(chunk') /\ m \notin ToSet(chunk') /\ m \in ToSet(chunk)
        /\ ToSet(chunk') \subseteq ToSet(chunk)
    BY <1>0, <2>1, TailOnce, ToSetTail
  <2>3. OnTheWay' \subseteq OnTheWay /\ ToSet(inbox') \cap ToSet(chunk') = {}
    BY <1>0, <2>1, <2>2 DEF OnTheWay
  <2>4. CASE Orphan(m)
    BY <1>0, <2>1, <2>2, <2>3, <2>4, OnceKept DEF Orphan
  <2>5. CASE Respond(m)
    <3>1. m \in answered /\ calls[uid[m]] # NoCall
      BY <2>2, <2>5 DEF Respond, ConnectionInv, OnlySubmitted
    <3>2. calls[uid[m]] = m /\ m \in Calls /\ replies[m] = <<>>
      BY <2>1, <3>1, ResponseIsOwn
    <3>3. replies' = [replies EXCEPT ![m] = Append(@, m)]
      BY <2>5, <3>2 DEF Respond
    <3>4. m \notin OnTheWay'
      BY <1>0, <2>1, <2>2 DEF OnTheWay
    <3> HIDE DEF m
    <3>5. QED BY <1>0, <2>1, <2>2, <2>3, <3>1, <3>2, <3>3, <3>4, OutcomeKeepsOnce
  <2>6. QED BY <1>3, <2>4, <2>5 DEF ReadMessage
<1>4. CASE SweepPop
  <2> DEFINE c == calls[Last(callIndex)]
  <2>1. /\ at = "sweep" /\ Last(callIndex) \in Uids
        /\ UNCHANGED <<inbox, chunk, answered>> /\ OnTheWay' = OnTheWay
    BY <1>4, FrontLast DEF SweepPop, ConnectionInv, TypeOK, network, server, OnTheWay
  <2>2. CASE c # NoCall /\ Expire(c)
    <3>1. c \in Calls /\ replies[c] = <<>> /\ TimedOut # c
      BY <2>1, <2>2, ConstantsOK DEF ConnectionInv, TypeOK, TableSound
    <3>2. replies' = [replies EXCEPT ![c] = Append(@, TimedOut)]
      BY <2>2 DEF Expire
    <3> HIDE DEF c
    <3>3. QED BY <1>0, <2>1, <3>1, <3>2, OutcomeKeepsOnce
  <2>3. CASE Forget \/ Keep(c)
    BY <1>0, <2>1, <2>3, OnceKept DEF Forget, Keep
  <2>4. QED BY <1>4, <2>2, <2>3 DEF SweepPop
<1>5. CASE SocketLost
  <2>1. inbox' = <<>> /\ UNCHANGED <<chunk, replies, answered>>
    BY <1>5 DEF SocketLost, frame, told
  <2>2. Once(inbox') /\ ToSet(inbox') = {}
    BY <2>1, ToSetEmpty, EmptySeq DEF Once
  <2>3. QED BY <1>0, <2>1, <2>2, OnceKept DEF OnTheWay
<1>6. ASSUME NEW c \in Calls, ServerAnswer(c) PROVE AnsweredOnce'
  <2>1. /\ c \notin answered /\ answered' = answered \cup {c} /\ inbox' = Append(inbox, c)
        /\ UNCHANGED <<chunk, replies>>
    BY <1>6 DEF ServerAnswer, frame, told
  <2>2. c \notin ToSet(inbox) /\ c \notin ToSet(chunk) /\ replies[c] # <<c>>
    BY <2>1 DEF ConnectionInv, OnlySubmitted, AnsweredOnce
  <2>3. Once(inbox') /\ ToSet(inbox') = ToSet(inbox) \cup {c}
    BY <1>0, <2>1, <2>2, AppendOnce, ToSetAppend
  <2>4. Once(chunk') /\ ToSet(inbox') \cap ToSet(chunk') = {}
    BY <1>0, <2>1, <2>2, <2>3
  <2>5. \A d \in OnTheWay' : replies'[d] # <<d>>
    BY <2>1, <2>2, <2>3 DEF OnTheWay, AnsweredOnce
  <2>6. \A d \in Calls : replies'[d] = <<d>> => d \in answered'
    BY <2>1 DEF AnsweredOnce
  <2>7. QED BY <2>3, <2>4, <2>5, <2>6 DEF AnsweredOnce
<1>7. CASE UNCHANGED <<inbox, chunk, replies, answered>>
  BY <1>7 DEF AnsweredOnce, OnTheWay
<1>8. QED
  BY <1>1, <1>2, <1>3, <1>4, <1>5, <1>6, <1>7
  DEF Next, CallProcedure, RejectCall, FlushTimer, OnConnect, Close, OnError, Read,
      AfterResponse, Tick, Sweep, SweepStart, SweepDelete, SweepEnd, External, ServerLogin,
      vars, network, server, frame, told

\* For any number of calls, fewer than uids, and any interleaving of chunks, sweeps and
\* callbacks: a response that finds no manager belongs to a call that timed out.
THEOREM ResponsesFindTheirCalls == Spec => []ResponseFindsItsCall
<1>1. Init => AnsweredOnce
  <2> SUFFICES ASSUME Init PROVE AnsweredOnce
    OBVIOUS
  <2>1. Once(inbox) /\ Once(chunk) /\ OnTheWay = {}
    BY EmptySeq, ToSetEmpty DEF Init, Once, OnTheWay
  <2>2. \A c \in Calls : replies[c] # <<c>>
    BY DEF Init
  <2>3. QED BY <2>1, <2>2 DEF AnsweredOnce, OnTheWay
<1>2. QED BY <1>1, AnsweredOnceStep, ResponseFinds, ConnectionInvariant, PTL DEF Spec

-----------------------------------------------------------------------------
(* Back pressure *)

\* A step changes the flags as the pool reckons it does, whatever it does else.
LEMMA PoolStep == TypeOK /\ [Next]_vars => [Pool!PoolNext]_<<validConnection, blocked, closed>>
<1> SUFFICES ASSUME TypeOK, [Next]_vars
             PROVE  Pool!PoolNext \/ UNCHANGED <<validConnection, blocked, closed>>
  BY DEF Pool!pvars
<1> USE DEF Pool!PoolNext
<1>0. blocked \in BOOLEAN /\ blocked' \in BOOLEAN
  BY NextType DEF TypeOK
<1>1. ASSUME NEW c \in Calls, CallProcedure(c)
      PROVE  Pool!Accept \/ Pool!Refuse
  <2>1. ~closed /\ closed' = closed
    BY <1>1 DEF CallProcedure, network, link
  <2>2. CASE DispatchError(c)
    BY <2>1, <2>2 DEF DispatchError, Pool!Refuse
  <2>3. CASE CountWrite(c) /\ UNCHANGED validConnection
    BY <1>0, <2>1, <2>3 DEF CountWrite, InvokeWriteEventHandler, Pool!Accept
  <2>4. CASE CountWrite(c) /\ allowed' # allowed /\ validConnection' = FALSE
    <3>1. ~blocked /\ InvokeWriteEventHandler(c, sendCounter + 1)
      BY <2>4 DEF CountWrite
    <3>2. sendCounter + 1 < MaxConsecutiveWrites
      BY <2>4, <3>1 DEF InvokeWriteEventHandler
    <3>3. ~blocked'
      BY <3>1, <3>2, ConstantsOK DEF InvokeWriteEventHandler, TypeOK
    <3>4. QED BY <1>0, <2>1, <2>4, <3>1, <3>3 DEF Pool!Refuse
  <2>5. DispatchError(c) \/ CountWrite(c)
    BY <1>1 DEF CallProcedure
  <2>6. QED BY <2>2, <2>3, <2>4, <2>5 DEF CountWrite
<1>2. CASE OnConnect
  BY <1>0, <1>2 DEF OnConnect, flags, Pool!Connected
<1>3. CASE Close
  BY <1>3 DEF Close, counter, flags, Pool!Closed
<1>4. CASE \E k \in 0 .. Len(inbox) : ReadLogin(k)
  BY <1>4 DEF ReadLogin, counter, Pool!LoggedIn
<1>5. CASE AfterResponse
  BY <1>0, <1>5 DEF AfterResponse, flags, network, link, Pool!Unblocked
<1>6. CASE ReadMessage \/ SweepPop
  BY <1>6 DEF ReadMessage, SweepPop, flags, network, link
<1>7. CASE FlushTimer \/ OnError \/ Tick \/ \E c \in Calls : RejectCall(c)
  BY <1>7 DEF FlushTimer, OnError, Tick, RejectCall, counter, flags, network, link
<1>8. CASE (\E k \in 1 .. Len(inbox) : ReadChunk(k)) \/ SweepStart \/ SweepDelete \/ SweepEnd
  BY <1>8
  DEF ReadChunk, SweepStart, SweepDelete, SweepEnd, counter, flags, network, link
<1>9. CASE External
  BY <1>9 DEF External, SocketLost, ServerLogin, ServerAnswer, counter, flags
<1>10. CASE UNCHANGED vars
  BY <1>10 DEF vars, counter, flags, network, link
<1>11. QED
  BY <1>1, <1>2, <1>3, <1>4, <1>5, <1>6, <1>7, <1>8, <1>9, <1>10
  DEF Next, Read, Sweep, Pool!pvars

\* A connection is one the pool can be built on: for any number of calls and
\* any limits, its three flags change by the steps of PooledConnection only.
THEOREM ConnectionImplementsPooled == Spec => ImplementsPooled
<1>1. Init => Pool!PoolInit
  BY DEF Init, Pool!PoolInit
<1>2. QED
  BY <1>1, PoolStep, TypeCorrect, PTL
  DEF Spec, ImplementsPooled, Pool!PoolSpec, Pool!pvars

-----------------------------------------------------------------------------
(* What is read is the stream of responses *)

\* Responses are in hand only inside the loop of onRead.
HeldInLoop == chunk # <<>> => at \in {"loop", "allowed", "orphan", "response"}

\* The loop is left when none is in hand any more.
LEMMA HeldInLoopStep == HeldInLoop /\ [Next]_vars => HeldInLoop'
<1> SUFFICES ASSUME HeldInLoop, [Next]_vars PROVE HeldInLoop'
  OBVIOUS
<1> USE DEF HeldInLoop
<1>1. CASE UNCHANGED <<at, chunk>>
  BY <1>1
<1>2. CASE UNCHANGED chunk /\ at \in {"idle", "sweep", "expired"}
  BY <1>2
<1>3. ASSUME NEW k, ReadChunk(k) PROVE HeldInLoop'
  BY <1>3 DEF ReadChunk
<1>4. CASE ReadMessage
  BY <1>4 DEF ReadMessage, Respond, Orphan, LoopOn
<1>5. CASE AfterResponse
  BY <1>5 DEF AfterResponse, LoopOn
<1>6. CASE FlushTimer \/ Sweep
  <2>1. UNCHANGED chunk /\ at \in {"idle", "sweep", "expired"}
    BY <1>6 DEF FlushTimer, Sweep, SweepStart, SweepPop, SweepDelete, SweepEnd
  <2>2. QED BY <1>2, <2>1
<1>7. QED
  BY <1>1, <1>3, <1>4, <1>5, <1>6
  DEF Next, CallProcedure, RejectCall, OnConnect, Close, OnError, Read, ReadLogin, Tick,
      External, SocketLost, ServerLogin, ServerAnswer, vars, frame

\* A step reads the stream as onRead's framing delivers it, whatever it does else.
LEMMA StreamStep ==
  TypeOK /\ HeldInLoop /\ [Next]_vars => [Stream!StreamNext]_Stream!streamVars
<1> SUFFICES ASSUME TypeOK, HeldInLoop, [Next]_vars
             PROVE  Stream!StreamNext \/ UNCHANGED <<Phase, inbox, chunk>>
  BY DEF Stream!streamVars
<1> USE DEF Stream!StreamNext
<1>1. ASSUME at = "idle" PROVE chunk = <<>>
  BY <1>1 DEF HeldInLoop
<1>2. ASSUME UNCHANGED <<socket, isLoggedIn>> PROVE UNCHANGED Phase
  BY <1>2 DEF Phase
<1>3. ASSUME NEW k \in 0 .. Len(inbox), ReadLogin(k) PROVE Stream!LogIn(k)
  BY <1>3 DEF ReadLogin, frame, Phase, Stream!LogIn
<1>4. ASSUME NEW k \in 1 .. Len(inbox), ReadChunk(k) PROVE Stream!Arrive(k)
  <2>1. UNCHANGED Phase /\ Phase = "open"
    BY <1>2, <1>4 DEF ReadChunk, flags, Phase
  <2>2. QED BY <1>1, <1>4, <2>1 DEF ReadChunk, Stream!Arrive
<1>5. CASE ReadMessage
  <2>1. UNCHANGED <<Phase, inbox>>
    BY <1>2, <1>5 DEF ReadMessage, flags, network, link
  <2>2. QED BY <1>5, <2>1 DEF ReadMessage, Stream!Decode
<1>6. ASSUME NEW c \in Calls, ServerAnswer(c) PROVE Stream!Sent(c)
  <2>1. UNCHANGED Phase /\ Phase # "lost"
    BY <1>2, <1>6 DEF ServerAnswer, flags, Phase
  <2>2. QED BY <1>6, <2>1 DEF ServerAnswer, frame, Stream!Sent
<1>7. CASE SocketLost
  <2>1. Phase # "lost" /\ Phase' = "lost"
    BY <1>7 DEF SocketLost, Phase
  <2>2. inbox' = <<>> /\ chunk' = <<>>
    BY <1>1, <1>7 DEF SocketLost, frame
  <2>3. QED BY <2>1, <2>2 DEF Stream!Lose
<1>8. CASE OnConnect
  <2>1. UNCHANGED Phase
    BY <1>8 DEF OnConnect, flags, Phase
  <2>2. QED BY <1>8, <2>1 DEF OnConnect, frame
<1>9. CASE AfterResponse \/ FlushTimer \/ Tick \/ Sweep \/ Close \/ OnError \/ ServerLogin
  BY <1>2, <1>9
  DEF AfterResponse, FlushTimer, Tick, Sweep, SweepStart, SweepPop, SweepDelete, SweepEnd,
      Close, OnError, ServerLogin, flags, network, link, frame
<1>10. ASSUME NEW c \in Calls, CallProcedure(c) \/ RejectCall(c)
       PROVE  UNCHANGED <<Phase, inbox, chunk>>
  BY <1>2, <1>10 DEF CallProcedure, RejectCall, flags, network, link, frame
<1>11. CASE UNCHANGED vars
  BY <1>2, <1>11 DEF vars, flags, network, link, frame
<1>12. QED
  BY <1>3, <1>4, <1>5, <1>6, <1>7, <1>8, <1>9, <1>10, <1>11 DEF Next, Read, External

\* For any number of calls, a connection reads each response once and in the order the
\* server sent them, a chunk at a time, as ResponseStream says: what Framing implements.
THEOREM ConnectionImplementsStream == Spec => ImplementsStream
<1>1. Init => Stream!StreamInit
  BY EmptySeq DEF Init, Stream!StreamInit, Phase
<1>2. Init => HeldInLoop
  BY DEF Init, HeldInLoop
<1>3. QED
  BY <1>1, <1>2, HeldInLoopStep, StreamStep, TypeCorrect, PTL
  DEF Spec, ImplementsStream, Stream!StreamSpec

-----------------------------------------------------------------------------
(* How far the counter drifts *)

InFlight       == {c \in Calls : Counted(c) /\ Pending(c)}
EndedUncounted == {c \in Calls : dispatch[c] = "writeFailed" /\ ~Pending(c)}
LoginPlace     == IF socket \in {"open", "broken"} THEN 1 ELSE 0

\* What the counter counts can be counted.
LEMMA DriftFinite ==
  /\ IsFiniteSet(InFlight) /\ Cardinality(InFlight) \in Nat
  /\ IsFiniteSet(EndedUncounted) /\ Cardinality(EndedUncounted) \in Nat
<1>1. InFlight \subseteq Calls /\ EndedUncounted \subseteq Calls
  BY DEF InFlight, EndedUncounted
<1>2. QED BY <1>1, FewCalls, FS_Subset, FS_CardinalityType

\* A call that is counted takes a place, one whose flush threw takes none.
LEMMA DriftOfCall ==
  ASSUME ConnectionInv, CounterDrift, NEW c \in Calls, CallProcedure(c)
  PROVE  CounterDrift'
<1>1. /\ ~Issued(c) /\ ~Registered(c) /\ replies[c] = <<>>
      /\ UNCHANGED <<replies, socket>>
  <2>1. ~Issued(c) /\ UNCHANGED <<replies, socket>>
    BY DEF CallProcedure, network, link
  <2>2. QED BY <2>1, SubmittedAreIssued DEF ConnectionInv, OnlySubmitted
<1>2. \A d \in Calls : d # c => dispatch'[d] = dispatch[d]
  BY DEF CallProcedure, CountWrite, DispatchError, ConnectionInv, TypeOK
<1>3. c \notin InFlight /\ c \notin EndedUncounted
  BY <1>1 DEF InFlight, EndedUncounted, Pending, Registered
<1>4. CASE DispatchError(c)
  <2>1. dispatch'[c] = "writeFailed" /\ sendCounter' = sendCounter
    BY <1>4 DEF DispatchError, ConnectionInv, TypeOK
  <2>2. InFlight' = InFlight /\ EndedUncounted' = EndedUncounted
    BY <1>1, <1>2, <1>3, <2>1 DEF InFlight, EndedUncounted, Pending, Registered, Counted
  <2>3. QED BY <1>1, <2>1, <2>2 DEF CounterDrift, InFlight, EndedUncounted
<1>5. CASE CountWrite(c)
  <2>1. dispatch'[c] \in {"accepted", "callbackFailed"} /\ sendCounter' = sendCounter + 1
    BY <1>5 DEF CountWrite, ConnectionInv, TypeOK
  <2>2. InFlight' = InFlight \cup {c} /\ EndedUncounted' = EndedUncounted
    BY <1>1, <1>2, <1>3, <2>1 DEF InFlight, EndedUncounted, Pending, Registered, Counted
  <2>3. Cardinality(InFlight') = Cardinality(InFlight) + 1
    BY <1>3, <2>2, DriftFinite, FS_AddElement
  <2>4. sendCounter = LoginPlace + Cardinality(InFlight) - Cardinality(EndedUncounted)
    BY DEF CounterDrift, InFlight, EndedUncounted, LoginPlace
  <2>5. LoginPlace \in Int /\ LoginPlace' = LoginPlace
    BY <1>1 DEF LoginPlace
  <2>6. sendCounter' = LoginPlace' + Cardinality(InFlight') - Cardinality(EndedUncounted')
    BY <2>1, <2>2, <2>3, <2>4, <2>5, DriftFinite
  <2>7. QED BY <2>6 DEF CounterDrift, InFlight, EndedUncounted, LoginPlace
<1>6. QED BY <1>4, <1>5 DEF CallProcedure

\* An outcome gives back the place of a call, or one that was never taken.
LEMMA DriftOfOutcome ==
  ASSUME TypeOK, CounterDrift, NEW c \in Calls, Pending(c), NEW r,
         replies' = [replies EXCEPT ![c] = Append(@, r)],
         sendCounter' = sendCounter - 1, UNCHANGED <<dispatch, socket>>
  PROVE  CounterDrift'
<1>1. /\ replies'[c] # <<>> /\ \A d \in Calls : d # c => replies'[d] = replies[d]
  <2>1. replies[c] = <<>> /\ replies'[c] = Append(<<>>, r)
    BY DEF TypeOK, Pending
  <2>2. Append(<<>>, r) # <<>>
    OBVIOUS
  <2>3. QED BY <2>1, <2>2 DEF TypeOK
<1>2. ~Pending(c)' /\ \A d \in Calls : d # c => Pending(d)' = Pending(d)
  BY <1>1 DEF Pending, Registered
<1>3. sendCounter = LoginPlace + Cardinality(InFlight) - Cardinality(EndedUncounted)
  BY DEF CounterDrift, InFlight, EndedUncounted, LoginPlace
<1>4. LoginPlace \in Int /\ LoginPlace' = LoginPlace
  BY DEF LoginPlace
<1>5. CASE Counted(c)
  <2>1. c \in InFlight /\ InFlight' = InFlight \ {c} /\ EndedUncounted' = EndedUncounted
    BY <1>2, <1>5 DEF InFlight, EndedUncounted, Counted
  <2>2. Cardinality(InFlight') = Cardinality(InFlight) - 1
    BY <2>1, DriftFinite, FS_RemoveElement
  <2>3. sendCounter' = LoginPlace' + Cardinality(InFlight') - Cardinality(EndedUncounted')
    BY <1>3, <1>4, <2>1, <2>2, DriftFinite
  <2>4. QED BY <2>3 DEF CounterDrift, InFlight, EndedUncounted, LoginPlace
<1>6. CASE ~Counted(c)
  <2>1. dispatch[c] = "writeFailed"
    BY <1>6 DEF Pending, Registered, Counted, TypeOK, Dispatches
  <2>2. /\ c \notin EndedUncounted /\ EndedUncounted' = EndedUncounted \cup {c}
        /\ InFlight' = InFlight
    BY <1>2, <1>6, <2>1 DEF InFlight, EndedUncounted, Counted
  <2>3. Cardinality(EndedUncounted') = Cardinality(EndedUncounted) + 1
    BY <2>2, DriftFinite, FS_AddElement
  <2>4. sendCounter' = LoginPlace' + Cardinality(InFlight') - Cardinality(EndedUncounted')
    BY <1>3, <1>4, <2>2, <2>3, DriftFinite
  <2>5. QED BY <2>4 DEF CounterDrift, InFlight, EndedUncounted, LoginPlace
<1>7. QED BY <1>5, <1>6

\* A step that decides no call and ends none leaves the places as they are.
LEMMA DriftKept ==
  ASSUME CounterDrift, UNCHANGED <<dispatch, replies, sendCounter>>,
         socket \in {"open", "broken"} <=> socket' \in {"open", "broken"}
  PROVE  CounterDrift'
<1>1. InFlight' = InFlight /\ EndedUncounted' = EndedUncounted
  BY DEF InFlight, EndedUncounted, Pending, Registered, Counted
<1>2. QED BY <1>1 DEF CounterDrift, InFlight, EndedUncounted

\* Each step changes the counter and what it counts alike.
LEMMA DriftStep == ConnectionInv /\ CounterDrift /\ [Next]_vars => CounterDrift'
<1> SUFFICES ASSUME ConnectionInv, CounterDrift, [Next]_vars PROVE CounterDrift'
  OBVIOUS
<1>1. CASE \E c \in Calls : CallProcedure(c)
  BY <1>1, DriftOfCall
<1>2. ASSUME NEW c \in Calls, RejectCall(c) PROVE CounterDrift'
  <2>1. /\ ~Issued(c) /\ UNCHANGED <<replies, sendCounter, socket>>
        /\ dispatch' = [dispatch EXCEPT ![c] = "rejected"] /\ dispatch \in [Calls -> Dispatches]
    BY <1>2 DEF RejectCall, counter, network, link, ConnectionInv, TypeOK
  <2>2. dispatch[c] = "none" /\ dispatch'[c] = "rejected"
        /\ \A d \in Calls : d # c => dispatch'[d] = dispatch[d]
    BY <2>1 DEF Issued
  <2>3. InFlight' = InFlight /\ EndedUncounted' = EndedUncounted
    BY <2>1, <2>2 DEF InFlight, EndedUncounted, Pending, Registered, Counted
  <2>4. QED BY <2>1, <2>3 DEF CounterDrift, InFlight, EndedUncounted
<1>3. CASE OnConnect
  <2>1. /\ sendCounter' = sendCounter + 1 /\ UNCHANGED <<dispatch, replies>>
        /\ LoginPlace = 0 /\ LoginPlace' = 1
    BY <1>3 DEF OnConnect, told, LoginPlace
  <2>2. InFlight' = InFlight /\ EndedUncounted' = EndedUncounted
    BY <2>1 DEF InFlight, EndedUncounted, Pending, Registered, Counted
  <2>3. sendCounter = LoginPlace + Cardinality(InFlight) - Cardinality(EndedUncounted)
    BY DEF CounterDrift, InFlight, EndedUncounted, LoginPlace
  <2>4. sendCounter' = LoginPlace' + Cardinality(InFlight') - Cardinality(EndedUncounted')
    BY <2>1, <2>2, <2>3, DriftFinite
  <2>5. QED BY <2>4 DEF CounterDrift, InFlight, EndedUncounted, LoginPlace
<1>4. CASE ReadMessage
  <2>1. CASE Orphan(Head(chunk))
    BY <1>4, <2>1, DriftKept DEF ReadMessage, Orphan, network, link
  <2>2. CASE Respond(Head(chunk))
    <3>1. at # "expired" /\ Head(chunk) \in answered /\ calls[uid[Head(chunk)]] # NoCall
      <4>1. Head(chunk) \in ToSet(chunk)
        BY <1>4, LenProperties, EmptySeq DEF ReadMessage, ConnectionInv, TypeOK, ToSet
      <4>2. QED BY <1>4, <2>2, <4>1 DEF ReadMessage, Respond, ConnectionInv, OnlySubmitted
    <3>2. /\ calls[uid[Head(chunk)]] = Head(chunk) /\ Head(chunk) \in Calls
          /\ Pending(Head(chunk))
      BY <3>1, ResponseIsOwn DEF Pending
    <3>3. UNCHANGED <<dispatch, socket>>
      BY <1>4 DEF ReadMessage, network, link
    <3>4. QED BY <2>2, <3>2, <3>3, DriftOfOutcome DEF Respond, ConnectionInv
  <2>3. QED BY <1>4, <2>1, <2>2 DEF ReadMessage
<1>5. CASE SweepPop
  <2> DEFINE c == calls[Last(callIndex)]
  <2>1. at = "sweep" /\ Last(callIndex) \in Uids /\ UNCHANGED <<dispatch, socket>>
    BY <1>5, FrontLast DEF SweepPop, ConnectionInv, TypeOK, network, link
  <2>2. CASE c # NoCall /\ Expire(c)
    <3>1. c \in Calls /\ Pending(c)
      BY <2>1, <2>2 DEF ConnectionInv, TypeOK, TableSound, Pending
    <3>2. QED BY <2>1, <2>2, <3>1, DriftOfOutcome DEF Expire, ConnectionInv
  <2>3. CASE Forget \/ Keep(c)
    BY <2>1, <2>3, DriftKept DEF Forget, Keep
  <2>4. QED BY <1>5, <2>2, <2>3 DEF SweepPop
<1>6. CASE SocketLost
  BY <1>6, DriftKept DEF SocketLost, counter, told
<1>7. CASE UNCHANGED <<dispatch, replies, sendCounter, socket>>
  BY <1>7, DriftKept
<1>8. QED
  BY <1>1, <1>2, <1>3, <1>4, <1>5, <1>6, <1>7
  DEF Next, FlushTimer, Close, OnError, Read, ReadLogin, ReadChunk, AfterResponse, Tick, Sweep,
      SweepStart, SweepDelete, SweepEnd, External, ServerLogin, ServerAnswer, vars, counter,
      network, link, told

\* For any number of calls and whatever writes fail, the counter is the login, the
\* calls under way that were counted, less the ended ones that never were.
THEOREM CounterExplained == Spec => []CounterDrift
<1>1. Init => CounterDrift
  <2> SUFFICES ASSUME Init PROVE CounterDrift
    OBVIOUS
  <2>1. InFlight = {} /\ EndedUncounted = {}
    BY DEF Init, InFlight, EndedUncounted, Counted
  <2>2. sendCounter = 0 /\ LoginPlace = 0
    BY DEF Init, LoginPlace
  <2>3. Cardinality(InFlight) = 0 /\ Cardinality(EndedUncounted) = 0
    BY <2>1, FS_EmptySet
  <2>4. sendCounter = LoginPlace + Cardinality(InFlight) - Cardinality(EndedUncounted)
    BY <2>2, <2>3
  <2>5. QED BY <2>4 DEF CounterDrift, InFlight, EndedUncounted, LoginPlace
<1>2. QED BY <1>1, DriftStep, ConnectionInvariant, PTL DEF Spec
-----------------------------------------------------------------------------
(* What a connection is blocked by *)

\* The calls that have timed out can be counted.
LEMMA ExpiredFinite == IsFiniteSet(Expired) /\ Cardinality(Expired) \in Nat
<1>1. Expired \subseteq Calls
  BY DEF Expired
<1>2. QED BY <1>1, FewCalls, FS_Subset, FS_CardinalityType

\* What a timeout takes from the counter it adds to them.
LEMMA BlockedOfExpire ==
  ASSUME TypeOK, BlockedByLimit, NEW c \in Calls, Pending(c), at # "response", Expire(c),
         UNCHANGED blocked
  PROVE  BlockedByLimit'
<1>1. replies[c] = <<>> /\ replies' = [replies EXCEPT ![c] = Append(@, TimedOut)]
      /\ sendCounter' = sendCounter - 1 /\ sendCounter \in Int
  BY DEF TypeOK, Pending, Expire
<1>2. Append(<<>>, TimedOut) = <<TimedOut>> /\ <<>> # <<TimedOut>>
  OBVIOUS
<1>3. replies'[c] = <<TimedOut>> /\ \A d \in Calls : d # c => replies'[d] = replies[d]
  BY <1>1, <1>2 DEF TypeOK
<1>4. c \notin Expired /\ Expired' = Expired \cup {c}
  BY <1>1, <1>2, <1>3 DEF Expired
<1>5. Cardinality(Expired') = Cardinality(Expired) + 1
  BY <1>4, ExpiredFinite, FS_AddElement
<1>6. blocked' => sendCounter' + Cardinality(Expired') >= MaxConsecutiveWrites
  BY <1>1, <1>5, ExpiredFinite, ConstantsOK DEF BlockedByLimit
<1>7. QED BY <1>6 DEF BlockedByLimit

\* A write that blocks has reached the limit, and none brings the counter down.
LEMMA BlockedOfWrite ==
  ASSUME TypeOK, BlockedByLimit, UNCHANGED <<replies, at>>,
         \/ UNCHANGED <<sendCounter, blocked>>
         \/ /\ sendCounter' = sendCounter + 1
            /\ blocked' => blocked \/ sendCounter + 1 >= MaxConsecutiveWrites
  PROVE  BlockedByLimit'
<1>1. Expired' = Expired
  BY DEF Expired
<1> DEFINE n == Cardinality(Expired)
           m == Cardinality(Expired')
<1>2. n \in Nat /\ m = n /\ sendCounter \in Int /\ MaxConsecutiveWrites \in Nat
  BY <1>1, ExpiredFinite, ConstantsOK DEF TypeOK
<1>3. blocked /\ at # "response" => sendCounter + n >= MaxConsecutiveWrites
  BY DEF BlockedByLimit
<1> HIDE DEF n, m
<1>4. SUFFICES ASSUME blocked', at' # "response" PROVE sendCounter' + m >= MaxConsecutiveWrites
  BY DEF BlockedByLimit, m
<1>5. CASE UNCHANGED <<sendCounter, blocked>>
  BY <1>2, <1>3, <1>4, <1>5
<1>6. CASE /\ sendCounter' = sendCounter + 1
           /\ blocked' => blocked \/ sendCounter + 1 >= MaxConsecutiveWrites
  <2>1. blocked \/ sendCounter + 1 >= MaxConsecutiveWrites
    BY <1>4, <1>6
  <2>2. sendCounter + n >= MaxConsecutiveWrites \/ sendCounter + 1 >= MaxConsecutiveWrites
    BY <1>3, <1>4, <2>1
  <2>3. QED BY <1>2, <1>6, <2>2
<1>7. QED BY <1>5, <1>6

\* Each step leaves it blocked by the limit, or by timeouts.
LEMMA BlockedStep == ConnectionInv /\ BlockedByLimit /\ [Next]_vars => BlockedByLimit'
<1> SUFFICES ASSUME ConnectionInv, BlockedByLimit, [Next]_vars PROVE BlockedByLimit'
  OBVIOUS
<1>0. TypeOK
  BY DEF ConnectionInv
<1>1. ASSUME NEW c \in Calls, CallProcedure(c) PROVE BlockedByLimit'
  <2>1. UNCHANGED <<replies, at>>
    BY <1>1 DEF CallProcedure, frame
  <2>2. CASE DispatchError(c)
    BY <1>0, <2>1, <2>2, BlockedOfWrite DEF DispatchError
  <2>3. CASE CountWrite(c)
    <3>1. sendCounter' = sendCounter + 1
          /\ (blocked' => blocked \/ sendCounter + 1 >= MaxConsecutiveWrites)
      BY <2>3 DEF CountWrite, InvokeWriteEventHandler
    <3>2. QED BY <1>0, <2>1, <3>1, BlockedOfWrite
  <2>4. QED BY <1>1, <2>2, <2>3 DEF CallProcedure
<1>2. CASE OnConnect
  <2>1. UNCHANGED <<replies, at>> /\ sendCounter' = sendCounter + 1
        /\ (blocked' => blocked \/ sendCounter + 1 >= MaxConsecutiveWrites)
    BY <1>2 DEF OnConnect, told, frame
  <2>2. QED BY <1>0, <2>1, BlockedOfWrite
<1>3. CASE ReadMessage
  <2>1. CASE Respond(Head(chunk))
    BY <2>1 DEF Respond, BlockedByLimit
  <2>2. CASE Orphan(Head(chunk))
    <3>1. UNCHANGED <<blocked, sendCounter, replies>> /\ at # "response"
      BY <1>3, <2>2 DEF ReadMessage, Orphan
    <3>2. QED BY <3>1 DEF BlockedByLimit, Expired
  <2>3. QED BY <1>3, <2>1, <2>2 DEF ReadMessage
<1>4. CASE AfterResponse
  <2>1. UNCHANGED <<sendCounter, replies>> /\ sendCounter \in Int
        /\ (blocked' => sendCounter >= MaxConsecutiveWrites)
    <3>1. CASE InvokeWriteEventHandler(vmm, sendCounter)
      BY <1>0, <1>4, <3>1 DEF AfterResponse, InvokeWriteEventHandler, TypeOK
    <3>2. CASE ~blocked /\ UNCHANGED <<blocked, allowed>>
      BY <1>0, <1>4, <3>2 DEF AfterResponse, TypeOK
    <3>3. QED BY <1>4, <3>1, <3>2 DEF AfterResponse
  <2>2. Expired' = Expired
    BY <2>1 DEF Expired
  <2>3. blocked' => sendCounter' + Cardinality(Expired') >= MaxConsecutiveWrites
    BY <2>1, <2>2, ExpiredFinite, ConstantsOK
  <2>4. QED BY <2>3 DEF BlockedByLimit
<1>5. CASE SweepPop
  <2> DEFINE c == calls[Last(callIndex)]
  <2>1. at = "sweep" /\ Last(callIndex) \in Uids /\ UNCHANGED blocked
    BY <1>0, <1>5, FrontLast DEF SweepPop, TypeOK
  <2>2. CASE c # NoCall /\ Expire(c)
    <3>1. c \in Calls /\ Pending(c)
      BY <2>1, <2>2 DEF ConnectionInv, TypeOK, TableSound, Pending
    <3>2. QED BY <1>0, <2>1, <2>2, <3>1, BlockedOfExpire
  <2>3. CASE Forget \/ Keep(c)
    <3>1. UNCHANGED <<sendCounter, replies, at>>
      BY <2>3 DEF Forget, Keep
    <3>2. QED BY <1>0, <2>1, <3>1, BlockedOfWrite
  <2>4. QED BY <1>5, <2>2, <2>3 DEF SweepPop
<1>6. CASE UNCHANGED <<blocked, sendCounter, replies>> /\ at # "response"
  BY <1>6 DEF BlockedByLimit, Expired
<1>7. CASE UNCHANGED <<blocked, sendCounter, replies, at>>
  BY <1>7 DEF BlockedByLimit, Expired
<1>8. QED
  BY <1>1, <1>2, <1>3, <1>4, <1>5, <1>6, <1>7
  DEF Next, RejectCall, FlushTimer, Close, OnError, Read, ReadLogin, ReadChunk, Tick, Sweep,
      SweepStart, SweepDelete, SweepEnd, External, SocketLost, ServerLogin, ServerAnswer, vars,
      counter, frame, told

\* For any number of calls and any limit, and whatever writes fail: a connection below
\* its limit is blocked only where timeouts have given places back.
THEOREM BlockIsEarned == Spec => []BlockedByLimit
<1>1. Init => BlockedByLimit
  BY DEF Init, BlockedByLimit
<1>2. QED
  BY <1>1, BlockedStep, ConnectionInvariant, PTL DEF Spec

=============================================================================

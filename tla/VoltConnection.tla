--------------------------- MODULE VoltConnection ---------------------------
(***************************************************************************)
(* One connection of the driver (lib/connection.js): login, the queue of   *)
(* outgoing messages, the table of outstanding calls, the back-pressure    *)
(* counter and the sweep that times calls out.                             *)
(*                                                                         *)
(* JavaScript runs one handler at a time, but a handler that emits an      *)
(* event runs the application's callback before it goes on, and the        *)
(* callback may call the driver again.  at names the place where control   *)
(* is: "idle" between handlers, otherwise a place inside onRead or inside  *)
(* the sweep.  The application may act at the places of AppTurn.  A        *)
(* callback after which the handler changes nothing the driver reads       *)
(* (QUERY_ALLOWED and QUERY_DISPATCH_ERROR in _send, CONNECT) needs no     *)
(* place of its own: what it calls runs as if called just after.           *)
(***************************************************************************)
EXTENDS Integers, Sequences, FiniteSets, SequencesExt

CONSTANTS
  Calls,                \* the calls (message managers) of the application
  NoCall,               \* no manager is registered under a uid
  Login,                \* the login message
  TimedOut,             \* the error object a timed-out call receives
  MaxId,                \* 99999999 in _getUID
  MessageQueueSize,     \* config.messageQueueSize
  MaxConsecutiveWrites, \* config.maxConsecutiveWrites
  QueryTimeout          \* config.queryTimeout, in ticks of the clock

ASSUME ConstantsOK ==
  /\ NoCall \notin Calls /\ Login \notin Calls /\ TimedOut \notin Calls
  /\ MaxId \in Nat \ {0}
  /\ MessageQueueSize \in Nat
  /\ MaxConsecutiveWrites \in Nat \ {0}
  /\ QueryTimeout \in Nat

Uids == 0 .. MaxId - 1

VARIABLES
  (* fields of the VoltConnection object *)
  id,              \* _id, the next uid
  calls,           \* _calls, the manager registered under each uid
  callIndex,       \* _callIndex, the uids the next sweep looks at
  sendQueue,       \* _sendQueue, messages not yet handed to the socket
  sendCounter,     \* writes counted against maxConsecutiveWrites
  blocked, validConnection, isLoggedIn,
  (* fields of the managers: vmm.uid and Date.now() - vmm.time *)
  uid, age,
  (* control, and the local variables of the handler that is running *)
  at,              \* where control is
  chunk,           \* onRead: the responses of data not yet decoded
  vmm,             \* the manager whose callback is running
  kept,            \* tmpCallIndex of _manageOustandingQueries
  (* the socket and the server, external to the driver *)
  socket,          \* life of this.socket
  closed,          \* close() has cleared the timers and ended the socket
  wire,            \* every message the socket has accepted, in order
  loginReply,      \* what the server answered to the login
  answered,        \* calls the server has executed and answered
  inbox,           \* responses sent by the server and not yet read
  (* what the application has been told *)
  dispatch,        \* outcome of callProcedure, per call
  replies,         \* what each readCallback received, in order
  allowed,         \* times each writeCallback was invoked
  connectEvent     \* last status given with a CONNECT event

table   == <<id, calls, callIndex, uid, age>>
counter == <<sendCounter, blocked>>
flags   == <<validConnection, isLoggedIn, connectEvent>>
queue   == <<sendQueue, wire>>
frame   == <<at, chunk, vmm, kept>>
link    == <<socket, closed>>
server  == <<loginReply, answered>>
network == <<link, server, inbox>>
told    == <<dispatch, replies, allowed>>
vars    == <<table, counter, flags, queue, frame, network, told>>

AppTurn == {"idle", "response", "allowed", "orphan", "expired"}
Places  == AppTurn \cup {"loop", "sweep", "crashed"}

Dispatches == {"none", "rejected", "accepted", "callbackFailed", "writeFailed"}

\* Calls that took a uid, that were registered, that are without an outcome,
\* that were counted.
Issued(c)     == dispatch[c] # "none"
Registered(c) == dispatch[c] \notin {"none", "rejected"}
Pending(c)    == Registered(c) /\ replies[c] = <<>>
Counted(c)    == dispatch[c] \in {"accepted", "callbackFailed"}

TypeOK ==
  /\ id \in 0 .. MaxId
  /\ calls \in [Uids -> Calls \cup {NoCall}]
  /\ callIndex \in Seq(Uids) /\ kept \in Seq(Uids)
  /\ sendQueue \in Seq(Calls) /\ wire \in Seq(Calls \cup {Login})
  /\ sendCounter \in Int
  /\ blocked \in BOOLEAN /\ validConnection \in BOOLEAN /\ isLoggedIn \in BOOLEAN
  /\ uid \in [Calls -> Uids] /\ age \in [Calls -> 0 .. QueryTimeout + 1]
  /\ at \in Places /\ vmm \in Calls \cup {NoCall}
  /\ chunk \in Seq(Calls) /\ inbox \in Seq(Calls)
  /\ socket \in {"connecting", "open", "unreachable", "broken"}
  /\ closed \in BOOLEAN
  /\ loginReply \in {"none", "granted", "refused"} /\ answered \subseteq Calls
  /\ dispatch \in [Calls -> Dispatches]
  /\ replies \in [Calls -> Seq(Calls \cup {TimedOut})]
  /\ allowed \in [Calls -> Nat]
  /\ connectEvent \in {"none", "success", "failure"}

\* VoltClient.connect() creates a connection and connects it in one turn.
Init ==
  /\ id = 0
  /\ calls = [u \in Uids |-> NoCall]
  /\ callIndex = <<>> /\ kept = <<>>
  /\ sendQueue = <<>> /\ wire = <<>>
  /\ sendCounter = 0
  /\ blocked = FALSE /\ validConnection = TRUE /\ isLoggedIn = FALSE
  /\ uid = [c \in Calls |-> 0] /\ age = [c \in Calls |-> 0]
  /\ at = "idle" /\ vmm = NoCall
  /\ chunk = <<>> /\ inbox = <<>>
  /\ socket = "connecting" /\ closed = FALSE
  /\ loginReply = "none" /\ answered = {}
  /\ dispatch = [c \in Calls |-> "none"]
  /\ replies = [c \in Calls |-> <<>>]
  /\ allowed = [c \in Calls |-> 0]
  /\ connectEvent = "none"

-----------------------------------------------------------------------------
(* Sending *)

\* _getUID returns TakenUID and leaves NextId in _id.  The eight digits it
\* makes of the number are one-to-one below 10^8, so uids stay numbers here.
TakenUID == IF id < MaxId THEN id ELSE 0
StuckId  == id  \* mutant: the counter is not advanced
NextId   == IF id < MaxId THEN id + 1 ELSE 0

\* What socket.write does: a write on a socket that has been lost may throw,
\* as the code expects, or be dropped; a write after end() is dropped; the
\* socket keeps what is written before it is connected.
WriteOutcomes ==
  IF socket \in {"unreachable", "broken"} THEN {"throws", "dropped"}
  ELSE IF closed THEN {"dropped"} ELSE {"sent"}

Outcomes == {"queued", "sent", "dropped", "throws"}

\* Mutants of Flush: the queue is not emptied, or emptied before the write.
FlushKeeps(q, w) ==
  /\ w \in WriteOutcomes
  /\ wire' = IF w = "sent" THEN wire \o q ELSE wire
  /\ sendQueue' = q
FlushClearedFirst(q, w) ==
  w \in WriteOutcomes /\ sendQueue' = <<>> /\ UNCHANGED wire

\* _flush of the messages q with outcome w: after an exception q stays queued.
Flush(q, w) ==
  /\ w \in WriteOutcomes
  /\ wire' = IF w = "sent" THEN wire \o q ELSE wire
  /\ sendQueue' = IF w = "throws" THEN q ELSE <<>>

\* Mutant of Queue: the login waits like any other message.
QueueLogin(m, track, w) ==
  LET q == Append(sendQueue, m)
  IN  IF Len(q) > MessageQueueSize
        THEN Flush(q, w)
        ELSE w = "queued" /\ sendQueue' = q /\ UNCHANGED wire

\* _queue: an untracked message is flushed at once, a tracked one only when
\* the queue has outgrown its size.
Queue(m, track, w) ==
  LET q == Append(sendQueue, m)
  IN  IF ~track \/ Len(q) > MessageQueueSize
        THEN Flush(q, w)
        ELSE w = "queued" /\ sendQueue' = q /\ UNCHANGED wire

\* Mutant of InvokeWriteEventHandler: one write too many.
InvokeOneMore(m, writes) ==
  /\ blocked' = (writes > MaxConsecutiveWrites)
  /\ allowed' = IF writes <= MaxConsecutiveWrites
                  THEN [allowed EXCEPT ![m] = @ + 1] ELSE allowed

\* _invokeWriteEventHandler, for a manager that is told m's writeCallback.
InvokeWriteEventHandler(m, writes) ==
  /\ blocked' = (writes >= MaxConsecutiveWrites)
  /\ allowed' = IF writes < MaxConsecutiveWrites
                  THEN [allowed EXCEPT ![m] = @ + 1] ELSE allowed

\* _send, once the message has been queued: count it and, unless blocked,
\* tell the caller that it may write again.  Its catch block also catches what
\* the writeCallback throws.
CountWrite(c) ==
  /\ sendCounter' = sendCounter + 1
  /\ IF blocked THEN UNCHANGED <<blocked, allowed>>
                ELSE InvokeWriteEventHandler(c, sendCounter + 1)
  /\ \/ /\ dispatch' = [dispatch EXCEPT ![c] = "accepted"]
        /\ UNCHANGED validConnection
     \/ /\ allowed' # allowed
        /\ dispatch' = [dispatch EXCEPT ![c] = "callbackFailed"]
        /\ validConnection' = FALSE

\* Mutant of DispatchError: the connection is marked blocked as well.
DispatchErrorBlocks(c) ==
  /\ dispatch' = [dispatch EXCEPT ![c] = "writeFailed"]
  /\ validConnection' = FALSE /\ blocked' = TRUE
  /\ UNCHANGED <<sendCounter, allowed>>

\* _send, when the flush throws: the call stays registered, uncounted.
DispatchError(c) ==
  /\ dispatch' = [dispatch EXCEPT ![c] = "writeFailed"]
  /\ validConnection' = FALSE
  /\ UNCHANGED <<sendCounter, blocked, allowed>>

\* The part of _send that registers a tracked message.
Track(c, u) ==
  /\ calls' = [calls EXCEPT ![u] = c]
  /\ callIndex' = Append(callIndex, u)
  /\ age' = [age EXCEPT ![c] = 0]

\* VoltClient.exit() takes a closed connection out of the pool, so that no
\* call reaches it any more; a blocked or invalid one may be called.
CallProcedure(c) ==
  /\ at \in AppTurn
  /\ ~closed
  /\ ~Issued(c)
  /\ id' = NextId
  /\ uid' = [uid EXCEPT ![c] = TakenUID]
  /\ Track(c, TakenUID)
  /\ \E w \in Outcomes :
        /\ Queue(c, TRUE, w)
        /\ IF w = "throws" THEN DispatchError(c) ELSE CountWrite(c)
  /\ UNCHANGED <<frame, network, isLoggedIn, connectEvent, replies>>

\* callProcedure with parameters that cannot be encoded: getMessage throws when
\* the uid is taken and nothing else is done.  The application catches it.
RejectCall(c) ==
  /\ at \in AppTurn
  /\ ~closed
  /\ ~Issued(c)
  /\ id' = NextId
  /\ uid' = [uid EXCEPT ![c] = TakenUID]
  /\ dispatch' = [dispatch EXCEPT ![c] = "rejected"]
  /\ UNCHANGED <<counter, flags, queue, frame, network, calls, callIndex, age,
                 replies, allowed>>

\* Mutant of FlushTimer: it flushes a full queue only, as _queue does.
FlushTimerWhenFull ==
  /\ at = "idle"
  /\ ~closed
  /\ Len(sendQueue) > MessageQueueSize
  /\ \E w \in WriteOutcomes :
        /\ Flush(sendQueue, w)
        /\ at' = IF w = "throws" THEN "crashed" ELSE at
  /\ UNCHANGED <<table, counter, flags, network, told, chunk, vmm, kept>>

\* The flusher interval.  An exception leaves the timer callback uncaught.
FlushTimer ==
  /\ at = "idle"
  /\ ~closed
  /\ \E w \in WriteOutcomes :
        /\ Flush(sendQueue, w)
        /\ at' = IF w = "throws" THEN "crashed" ELSE at
  /\ UNCHANGED <<table, counter, flags, network, told, chunk, vmm, kept>>

-----------------------------------------------------------------------------
(* Connecting and closing *)

\* The socket's 'connect' event: the login message is queued behind what is
\* already there and flushed.  It takes a uid and a place in sendCounter; its
\* manager has no listeners.
OnConnect ==
  /\ at = "idle"
  /\ socket = "connecting"
  /\ socket' = "open"
  /\ id' = NextId
  /\ \E w \in Outcomes : Queue(Login, FALSE, w)
  /\ sendCounter' = sendCounter + 1
  /\ blocked' = (blocked \/ sendCounter + 1 >= MaxConsecutiveWrites)
  /\ UNCHANGED <<flags, frame, told, calls, callIndex, uid, age, closed,
                 loginReply, answered, inbox>>

Close ==
  /\ at \in AppTurn
  /\ ~closed
  /\ closed' = TRUE
  /\ UNCHANGED <<table, counter, flags, queue, frame, told, socket, loginReply,
                 answered, inbox>>

\* The socket's 'error' event: it was lost, or written to after end().
OnError ==
  /\ at = "idle"
  /\ socket \in {"unreachable", "broken"} \/ closed
  /\ connectEvent' = "failure"
  /\ UNCHANGED <<table, counter, queue, frame, network, told, validConnection,
                 isLoggedIn>>

-----------------------------------------------------------------------------
(* Reading *)

\* onRead before the login: the chunk is decoded as the login result, and the
\* k responses that arrived in the same chunk are dropped with it.  The result
\* is taken for a success whatever it says.
ReadLogin(k) ==
  /\ at = "idle"
  /\ socket = "open"
  /\ ~isLoggedIn /\ loginReply # "none"
  /\ isLoggedIn' = TRUE /\ validConnection' = TRUE
  /\ connectEvent' = "success"
  /\ inbox' = SubSeq(inbox, k + 1, Len(inbox))
  /\ UNCHANGED <<table, counter, queue, frame, told, socket, closed,
                 loginReply, answered>>

\* onRead after the login: a chunk of k responses (a message cut by the end of
\* a chunk waits in _overflow and counts in the chunk that completes it).
ReadChunk(k) ==
  /\ at = "idle"
  /\ socket = "open"
  /\ isLoggedIn
  /\ at' = "loop"
  /\ chunk' = SubSeq(inbox, 1, k)
  /\ inbox' = SubSeq(inbox, k + 1, Len(inbox))
  /\ UNCHANGED <<table, counter, flags, queue, told, vmm, kept, socket, closed,
                 loginReply, answered>>

\* Control after an iteration of the while loop of onRead.  Its mutant does one only.
LoopOnce(place) == at' = "idle"
LoopOn(place)   == at' = IF chunk' = <<>> THEN "idle" ELSE place

\* delete this._calls[uid]; its mutant leaves the manager there.
KeepManager(u) == UNCHANGED calls
Deregister(u)  == calls' = [calls EXCEPT ![u] = NoCall]

\* The response m is for the manager registered under its uid.
Respond(m) ==
  LET c == calls[uid[m]]
  IN  /\ c # NoCall
      /\ Deregister(uid[m])
      /\ sendCounter' = sendCounter - 1
      /\ replies' = [replies EXCEPT ![c] = Append(@, m)]
      /\ vmm' = c
      /\ at' = "response"

\* No manager is left for m: the connection emits QUERY_RESPONSE_ERROR.
Orphan(m) ==
  /\ calls[uid[m]] = NoCall
  /\ LoopOn("orphan")
  /\ UNCHANGED <<calls, sendCounter, replies, vmm>>

ReadMessage ==
  /\ at \in {"loop", "allowed", "orphan"}
  /\ chunk # <<>>
  /\ chunk' = Tail(chunk)
  /\ Respond(Head(chunk)) \/ Orphan(Head(chunk))
  /\ UNCHANGED <<flags, queue, network, id, callIndex, uid, age, blocked, kept,
                 dispatch, allowed>>

\* After the readCallback has returned, a blocked connection is unblocked if
\* the counter allows it, and it is the answered call that is told so.
AfterResponse ==
  /\ at = "response"
  /\ vmm' = NoCall
  /\ UNCHANGED chunk
  /\ \/ /\ blocked
        /\ InvokeWriteEventHandler(vmm, sendCounter)
        /\ LoopOn(IF blocked' THEN "loop" ELSE "allowed")
     \/ /\ ~blocked
        /\ LoopOn("loop")
        /\ UNCHANGED <<blocked, allowed>>
  /\ UNCHANGED <<table, flags, queue, network, sendCounter, kept, dispatch,
                 replies>>

-----------------------------------------------------------------------------
(* Timing out *)

\* Time passes: every pending call grows older, up to QueryTimeout + 1, a bound
\* past which nothing tells ages apart.  A sweep reads the clock once, so no
\* tick falls inside a handler.
Tick ==
  /\ at = "idle"
  /\ age' = [c \in Calls |-> IF Pending(c) /\ age[c] <= QueryTimeout
                               THEN age[c] + 1 ELSE age[c]]
  /\ UNCHANGED <<counter, flags, queue, frame, network, told, id, calls,
                 callIndex, uid>>

\* The outstandingQueryManager interval (with an empty index it does nothing).
SweepStart ==
  /\ at = "idle"
  /\ ~closed
  /\ callIndex # <<>>
  /\ at' = "sweep" /\ kept' = <<>>
  /\ UNCHANGED <<table, counter, flags, queue, network, told, chunk, vmm>>

\* _checkQueryTimeout of an overdue call: both its callbacks are invoked, the
\* writeCallback whatever the counter says.
Expire(c) ==
  /\ age[c] > QueryTimeout
  /\ sendCounter' = sendCounter - 1
  /\ replies' = [replies EXCEPT ![c] = Append(@, TimedOut)]
  /\ allowed' = [allowed EXCEPT ![c] = @ + 1]
  /\ vmm' = c
  /\ at' = "expired"
  /\ UNCHANGED kept

\* Mutant of Keep: the uid is not put back.
KeepNothing(c) ==
  /\ age[c] <= QueryTimeout
  /\ UNCHANGED <<sendCounter, replies, allowed, vmm, at, kept>>

\* Not overdue: keep its uid for the next sweep.
Keep(c) ==
  /\ age[c] <= QueryTimeout
  /\ kept' = Append(kept, uid[c])
  /\ UNCHANGED <<sendCounter, replies, allowed, vmm, at>>

\* Already answered: forget the uid.  The mutant gives its place back again.
ForgetAndCount ==
  /\ sendCounter' = sendCounter - 1
  /\ UNCHANGED <<at, vmm, kept, replies, allowed>>
Forget == UNCHANGED <<sendCounter, at, vmm, kept, replies, allowed>>

SweepPop ==
  /\ at = "sweep"
  /\ callIndex # <<>>
  /\ callIndex' = Front(callIndex)
  /\ LET c == calls[Last(callIndex)]
     IN  IF c = NoCall THEN Forget ELSE Expire(c) \/ Keep(c)
  /\ UNCHANGED <<flags, queue, network, id, calls, uid, age, blocked, chunk,
                 dispatch>>

\* The manager is deleted only after its callbacks have returned.
SweepDelete ==
  /\ at = "expired"
  /\ Deregister(uid[vmm])
  /\ at' = "sweep" /\ vmm' = NoCall
  /\ UNCHANGED <<counter, flags, queue, network, told, id, callIndex, uid, age,
                 chunk, kept>>

SweepEnd ==
  /\ at = "sweep"
  /\ callIndex = <<>>
  /\ callIndex' = kept /\ kept' = <<>>
  /\ at' = "idle"
  /\ UNCHANGED <<counter, flags, queue, network, told, id, calls, uid, age,
                 chunk, vmm>>

-----------------------------------------------------------------------------
(* The socket and the server *)

SocketLost ==
  /\ at = "idle"
  /\ socket \in {"connecting", "open"}
  /\ socket' = IF socket = "open" THEN "broken" ELSE "unreachable"
  /\ inbox' = <<>>
  /\ UNCHANGED <<table, counter, flags, queue, frame, told, closed, loginReply,
                 answered>>

\* The first message the server reads has to be the login.
ServerLogin ==
  /\ at = "idle"
  /\ socket = "open"
  /\ loginReply = "none"
  /\ wire # <<>> /\ Head(wire) = Login
  /\ loginReply' \in {"granted", "refused"}
  /\ UNCHANGED <<table, counter, flags, queue, frame, told, socket, closed,
                 answered, inbox>>

\* The server answers the calls it has received in any order, or never.
ServerAnswer(c) ==
  /\ at = "idle"
  /\ socket = "open"
  /\ loginReply = "granted"
  /\ c \in ToSet(wire) /\ c \notin answered
  /\ answered' = answered \cup {c}
  /\ inbox' = Append(inbox, c)
  /\ UNCHANGED <<table, counter, flags, queue, frame, told, socket, closed,
                 loginReply>>

-----------------------------------------------------------------------------

Read  == \/ \E k \in 0 .. Len(inbox) : ReadLogin(k)
         \/ \E k \in 1 .. Len(inbox) : ReadChunk(k)
         \/ ReadMessage
         \/ AfterResponse

Sweep == SweepStart \/ SweepPop \/ SweepDelete \/ SweepEnd

External == SocketLost \/ ServerLogin \/ \E c \in Calls : ServerAnswer(c)

Next ==
  \/ \E c \in Calls : CallProcedure(c) \/ RejectCall(c)
  \/ FlushTimer
  \/ OnConnect \/ Close \/ OnError
  \/ Read
  \/ Tick
  \/ Sweep
  \/ External

Spec == Init /\ [][Next]_vars

\* The event loop runs a handler to its end and fires both intervals again and
\* again; the clock never stops.  Nothing is assumed of the server, the socket
\* or the application.
Fairness ==
  /\ WF_vars(ReadMessage) /\ WF_vars(AfterResponse)
  /\ WF_vars(SweepPop) /\ WF_vars(SweepDelete) /\ WF_vars(SweepEnd)
  /\ SF_vars(SweepStart) /\ SF_vars(FlushTimer) /\ SF_vars(Tick)

FairSpec == Spec /\ Fairness

=============================================================================

------------------------------ MODULE VoterJob ------------------------------
(***************************************************************************)
(* The sample application voternoui.js: a chain of links run on top of one *)
(* connection, with a write loop that counts the votes its writeCallback   *)
(* allows and the votes its readCallback has seen the end of.              *)
(*                                                                         *)
(* Of the connection only what the application feels is kept: sendCounter, *)
(* blocked, whether the pool still has it, and that a call ends by a       *)
(* response or a timeout; the rest is in VoltConnection and VoltClient.  A *)
(* callback runs inside the step that ends its call.                       *)
(* There is one job: a second voltInit follows an error of the socket, over*)
(* which nothing is answered any more.                                     *)
(***************************************************************************)
EXTENDS Integers, Sequences

CONSTANTS
  VoteCount,            \* options.voteCount
  MaxConsecutiveWrites, \* config.maxConsecutiveWrites
  MaxStartups,          \* bound on the CONNECTION events of the connection
  MaxVotes              \* bound on the votes the loop sends

ASSUME VoterConstants ==
  /\ {VoteCount, MaxConsecutiveWrites, MaxStartups} \subseteq Nat \ {0}
  /\ MaxVotes \in Nat /\ MaxVotes >= VoteCount

VARIABLES
  socket,        \* life of the connection, external but for the login it sends
  sendCounter, blocked,
  pool,          \* the connection in the client: valid, invalid or evicted
  startups,      \* how often startup() has run
  inits,         \* calls of Initialize outstanding
  asking,        \* calls of voteResults outstanding
  steps,         \* voteJob.steps, the links still to run
  index, reads,  \* of the write loop
  sent, ended,   \* votes sent, and votes whose readCallback has run
  expired,       \* how many of these timed out
  shown,         \* how often displayResults has come to its end
  process        \* the Node process

connection == <<socket, sendCounter, blocked, pool>>
start      == <<startups, inits>>
loop       == <<index, reads, sent, ended, expired>>
chain      == <<steps, asking, shown, process>>
vars == <<connection, start, loop, chain>>

\* getSteps()
GetSteps == <<"results", "often", "results", "end">>

Started == steps # GetSteps
\* innerLoop sets itself up again for ever once voteOften has run.
Looping == Len(steps) <= 2
\* voteResults runs the next link only from its readCallback.
Asking  == asking > 0

VoterInit ==
  /\ socket = "connecting" /\ sendCounter = 0 /\ blocked = FALSE /\ pool = "valid"
  /\ startups = 0 /\ inits = 0 /\ asking = 0
  /\ index = 0 /\ reads = VoteCount
  /\ sent = 0 /\ ended = 0 /\ expired = 0
  /\ steps = GetSteps /\ shown = 0 /\ process = "running"

-----------------------------------------------------------------------------
(* What the connection does with a call *)

\* How a call goes over a socket: on a lost one the flush may throw, and a call does
\* not reach a connection that was evicted.
Outcomes(s) ==
  IF pool = "evicted" THEN {"vanishes"}
  ELSE IF s = "lost" THEN {"counted", "throws"} ELSE {"counted"}
\* A call whose flush threw is registered too, and will time out.
Registers(w) == IF w \in {"counted", "throws"} THEN 1 ELSE 0
Adds(w)      == IF w = "counted" THEN 1 ELSE 0

\* A flush that throws makes the connection invalid.  The scan of the next call
\* evicts it, but still returns it, since it has no other.
Pooled(w) ==
  pool' = IF w = "none" THEN pool
          ELSE IF pool # "valid" THEN "evicted"
          ELSE IF w = "throws" THEN "invalid" ELSE "valid"

AtLimit == sendCounter' >= MaxConsecutiveWrites

\* Mutant of Call: a call on a blocked connection is not counted.
CallUncounted(w) ==
  /\ Pooled(w)
  /\ sendCounter' = sendCounter + (IF blocked THEN 0 ELSE Adds(w))
  /\ blocked' = (blocked \/ (w = "counted" /\ AtLimit))
\* _send: a call is counted and may block, but not after an exception.
Call(w) ==
  /\ Pooled(w)
  /\ sendCounter' = sendCounter + Adds(w)
  /\ blocked' = (blocked \/ (w = "counted" /\ AtLimit))

\* A response; its readCallback has made the call w, if any, before blocked is
\* looked at.
Answer(w) ==
  /\ Pooled(w)
  /\ sendCounter' = sendCounter - 1 + Adds(w)
  /\ blocked' = ((blocked \/ w = "counted") /\ AtLimit)

\* The response has invoked the writeCallback of its call.
Told       == blocked /\ ~blocked'

\* A timeout: the call w of the readCallback may set blocked, nothing clears it.
Expire(w) ==
  /\ Pooled(w)
  /\ sendCounter' = sendCounter - 1 + Adds(w)
  /\ blocked' = (blocked \/ (w = "counted" /\ AtLimit))

-----------------------------------------------------------------------------
(* The application *)

\* onConnect sends the login, whose place in the counter is never given back.
Connect ==
  /\ process = "running" /\ socket = "connecting" /\ socket' = "connected"
  /\ Call("counted")
  /\ UNCHANGED <<start, loop, chain>>

\* startup() and voltInit(), which any CONNECTION event runs.
Startup(s) ==
  /\ process = "running"
  /\ socket' = s
  /\ startups < MaxStartups /\ startups' = startups + 1
  /\ \E w \in Outcomes(s) : Call(w) /\ inits' = inits + Registers(w)
  /\ UNCHANGED <<loop, chain>>

LogIn       == socket = "connected" /\ Startup("loggedIn")
\* Each write on a lost socket may emit a further error.
SocketError == Startup("lost")

\* The server hangs up: no handler listens to that.
HangUp ==
  /\ process = "running" /\ socket # "lost" /\ socket' = "lost"
  /\ UNCHANGED <<sendCounter, blocked, pool, start, loop, chain>>

\* The flusher writes on the lost socket, and its exception ends the process.
FlusherThrows ==
  /\ process = "running" /\ socket = "lost" /\ process' = "crashed"
  /\ UNCHANGED <<connection, start, loop, steps, asking, shown>>

\* runNextLink, and how the call goes that the link makes at once, if it makes one.
RunNextLink ==
  /\ steps' = Tail(steps)
  /\ process' = IF Head(steps) = "end" THEN "exited" ELSE process
LinkCalls == IF Head(steps) = "results" THEN Outcomes(socket) ELSE {"none"}

\* initVoter with a table: the job is made and its first link run.
InitAnswered ==
  /\ process = "running" /\ socket = "loggedIn" /\ inits > 0
  /\ inits' = inits - 1
  /\ RunNextLink
  /\ \E w \in LinkCalls : Answer(w) /\ asking' = asking + Registers(w)
  /\ UNCHANGED <<socket, startups, shown, loop>>

\* initVoter with an error: no job.
InitExpired ==
  /\ process = "running" /\ inits > 0
  /\ inits' = inits - 1
  /\ Expire("none")
  /\ UNCHANGED <<socket, startups, loop, chain>>

\* displayResults of voteResults, with a table.
ResultsAnswered ==
  /\ process = "running" /\ socket = "loggedIn" /\ Asking
  /\ shown' = shown + 1
  /\ RunNextLink
  /\ \E w \in LinkCalls : Answer(w) /\ asking' = asking - 1 + Registers(w)
  /\ UNCHANGED <<socket, start, loop>>

\* A readCallback that indexes a table finds none, since the response carries an
\* exception or, for displayResults, the call timed out: a TypeError that
\* nothing catches.
NoTable ==
  /\ process = "running"
  /\ Asking \/ (socket = "loggedIn" /\ inits > 0)
  /\ process' = "crashed"
  /\ UNCHANGED <<connection, start, loop, steps, asking, shown>>

\* Mutant of Counted: a vote is counted when it is sent, allowed or not.
CountedAtOnce(told) == (told \/ sent' > sent) /\ index < VoteCount
\* readyToWrite, if it is invoked, counts a vote.
Counted(told)       == told /\ index < VoteCount

WriteCallback(told) == index' = IF Counted(told) THEN index + 1 ELSE index

\* innerLoop with index below voteCount; at voteCount it only comes round.
InnerLoop ==
  /\ process = "running" /\ Looping
  /\ index < VoteCount /\ sent < MaxVotes
  /\ \E w \in Outcomes(socket) :
        /\ Call(w) /\ sent' = sent + Registers(w)
        /\ WriteCallback(w = "counted" /\ ~blocked')
  /\ UNCHANGED <<socket, start, reads, ended, expired, chain>>

\* Mutants of LastVote: the count is tested before it is lowered; a vote after
\* the last one is taken for the last one.
LastVoteStale   == reads = 0
LastVoteOrLater == reads <= 1 /\ steps # <<>>
\* reads is 0 once lowered.
LastVote        == reads - 1 = 0

\* displayResults of voteInsertLoop, for a response or a timeout alike.
ReadCallback ==
  /\ process = "running" /\ ended < sent
  /\ reads' = reads - 1 /\ ended' = ended + 1
  /\ IF LastVote THEN RunNextLink ELSE UNCHANGED <<steps, process>>
  /\ UNCHANGED <<socket, start, shown, sent>>
VoteCalls == IF LastVote THEN LinkCalls ELSE {"none"}

VoteAnswered ==
  /\ socket = "loggedIn"
  /\ ReadCallback
  /\ \E w \in VoteCalls : Answer(w) /\ asking' = asking + Registers(w)
  /\ WriteCallback(Told)
  /\ UNCHANGED expired

VoteExpired ==
  /\ ReadCallback
  /\ \E w \in VoteCalls : Expire(w) /\ asking' = asking + Registers(w)
  /\ WriteCallback(TRUE)
  /\ expired' = expired + 1

VoterNext ==
  \/ Connect \/ LogIn \/ SocketError \/ HangUp \/ FlusherThrows
  \/ InitAnswered \/ InitExpired \/ ResultsAnswered \/ NoTable
  \/ InnerLoop \/ VoteAnswered \/ VoteExpired

VoterSpec == VoterInit /\ [][VoterNext]_vars

\* The event loop runs innerLoop again and again, and every call ends, which is
\* EveryCallEnds of the connection.
FairVoter ==
  /\ VoterSpec
  /\ WF_vars(InnerLoop)
  /\ WF_vars(ResultsAnswered \/ (Asking /\ NoTable))
  /\ WF_vars(VoteAnswered \/ VoteExpired)

-----------------------------------------------------------------------------
(* Properties *)

\* Flushes that may have thrown: one makes the connection invalid, the call that
\* evicts it may be another.
Uncounted == CASE pool = "valid" -> 0 [] pool = "invalid" -> 1 [] OTHER -> 2

VoterTypeOK ==
  /\ socket \in {"connecting", "connected", "loggedIn", "lost"}
  /\ sendCounter \in Int /\ sendCounter + Uncounted >= 0 /\ blocked \in BOOLEAN
  /\ pool \in {"valid", "invalid", "evicted"} /\ asking \in {0, 1}
  /\ startups \in 0 .. MaxStartups /\ inits \in 0 .. startups
  /\ steps \in {GetSteps, <<"often", "results", "end">>, <<"results", "end">>, <<"end">>, <<>>}
  /\ index \in 0 .. VoteCount /\ reads = VoteCount - ended
  /\ sent \in 0 .. MaxVotes /\ ended \in 0 .. sent /\ expired \in 0 .. ended
  /\ shown \in 0 .. 2
  /\ process \in {"running", "exited", "crashed"}

\* The process leaves of itself only when the end of voteCount votes has been seen
\* and the results have been shown before and after them, though the loop goes on
\* sending, and votes go on ending, while the last results are asked for.
ExitIsEarned == process = "exited" => ended >= VoteCount /\ shown = 2

\* Every vote the loop has counted was sent, or else counted again for a timeout:
\* as long as no vote times out the loop does not stop with fewer votes sent than
\* the voteCount answers it waits for, whosever response unblocks the connection
\* and however the writeCallbacks are distributed.
NeverStopsShort == index <= sent + expired

\* An inductive invariant.  Before the login nothing has been started; over a good
\* connection there is one initialisation.
StartedOnce ==
  /\ socket \in {"connecting", "connected"} => startups = 0 /\ inits = 0 /\ ~Started
  /\ socket = "loggedIn" => inits <= (IF Started THEN 0 ELSE 1)
  /\ pool # "valid" => socket = "lost"

\* The counter covers the login and the calls outstanding, but for those whose flush
\* threw.
CounterCovers ==
  sendCounter + Uncounted >=
    (IF socket \in {"connected", "loggedIn"} THEN 1 ELSE 0) + inits + asking + sent - ended

\* How far the chain has come says how far the votes have.
ChainInStep ==
  /\ Len(steps) >= 3 => sent = 0 /\ shown = 0
  /\ Len(steps) = 2 => ended < VoteCount /\ shown = 1
  /\ Len(steps) = 1 => ended >= VoteCount /\ shown = 1
  /\ Len(steps) = 0 => ended >= VoteCount /\ shown = 2
  /\ process = "exited" <=> steps = <<>>
  /\ Asking => Len(steps) \in {3, 1}

\* While the connection is blocked some vote is sent and not counted, so that the
\* response that unblocks it may count one.
OneUncounted ==
  socket = "loggedIn" /\ blocked /\ sent > 0 /\ index < VoteCount => index < sent + expired

JobInv ==
  VoterTypeOK /\ StartedOnce /\ CounterCovers /\ ChainInStep /\ NeverStopsShort /\ OneUncounted

\* A job whose votes do not time out comes to its end, unless the connection leaves the
\* pool under it: then no call reaches it any more.
JobEnds == Started ~> (process # "running" \/ expired > 0 \/ pool = "evicted")
=============================================================================

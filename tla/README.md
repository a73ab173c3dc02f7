# A TLA+ model of the VoltDB client for Node.js

This directory models the driver in `lib/`: what a connection does with the
calls it is given, how it puts messages together from chunks, what bytes it
writes and what it makes of those it reads, how a client chooses among its
connections, and how a sample application is driven by the callbacks. The
modules are checked with TLC on small instances, and the central results are
proved with TLAPS for every value of the constants.

Paths below are relative to the repository (`src/` in `PROJECT.json`).

## 1. Inventory

| Component | State | Operations | Modelled |
|---|---|---|---|
| Connection, `lib/connection.js` | `_id`, `_calls`, `_callIndex`, `_sendQueue`, `sendCounter`, `blocked`, `validConnection`, `isLoggedIn`, `_overflow`, two intervals, the socket | `connect`, `callProcedure`, `close`, handlers of connect / data / error, flush interval, sweep interval | `VoltConnection`; `_overflow` in `Framing` |
| Client, `lib/client.js` | `_connections`, `_badConnections`, `_connectionCounter` | `connect`, `callProcedure`, `_getConnection`, `exit`, event forwarding | `VoltClient` |
| Value codec, `lib/parser.js` | a buffer and a position | read and write of each type, arrays, tables, parameter sets and their checks | `ValueCodec` |
| Messages and queries, `lib/message.js`, `lib/query.js` | a parser with header fields | header, login message and result, query, response | `Messages` |
| Integer and float conversion, `lib/ctio.js`, `lib/ctype.js` (a copy of the ctype library) | none | read and write of integers and floats | `NumberCodec`, the functions the driver calls |
| Configuration, `lib/configuration.js`; constants, `lib/voltconstants.js` | none | none | default values and tables: CONSTANTS of the modules; `PRESENT` in `Messages` |
| Sample applications, `voternoui.js`, `writer.js` | a chain of links, counters of reads and writes | a write loop driven by the callbacks | `VoterJob` is `voternoui.js` |
| Voter example, `examples/voter` | an HTTP server and a session per browser | pages and two calls | no |
| Tests and tools, `test/`, `tools/` | none | they need a running database | read as documentation |

**Interaction.** The application calls `VoltClient.callProcedure`. The client
picks a connection by `isValidConnection()` and `isBlocked()` and calls it. The
connection gives the call a uid, registers its manager, queues the message and
perhaps flushes, and answers later through two callbacks of the manager: the
readCallback once, with a response or a timeout, and the writeCallback whenever
the driver may be written to again. The socket and two intervals drive the
connection; connection events are passed on by the client. A query is encoded
by a `VoltQuery` on a `Parser`, and what `onRead` cuts out of the stream is
decoded by a `VoltMessage`, a `Parser` too, before the table of calls is looked
at. The sample sends its next vote when a writeCallback has been invoked and
goes on to its next link when a readCallback has.

**What is hard.** JavaScript runs one handler at a time, but every `emit` runs
application code before the handler goes on, and that code may call the driver
again: in the middle of the loop of `onRead`, of the sweep, or of `_send`. The
table of calls and its index are changed by three handlers that do not know of
each other. Calls may be made before the socket is connected, over one that has
been lost, or while a sweep is emptying the index. The write counter and the
`blocked` switch are kept up by five. The stream is cut anywhere, and an
exception leaves `onRead` between two of its assignments. Null is a number of
each type, every integer has a sign, and types differ in what they check. The
sample's two counters are advanced by callbacks of calls it has not counted.
Nothing is persisted and there are no threads, so crash recovery and data races
do not arise.

**What makes it correct.**

- Connection: each call ends at most once, with its own result or a timeout;
  no call without an outcome drops out of what the sweep looks at; messages
  leave in order and none is lost while the socket works; the switch never says
  "not blocked" with the limit reached, nor "blocked" below it but for timeouts;
  every call ends.
- Client: a connection is in one place; a usable one is found when there is
  one; the rotation starves nobody; `exit()` closes what `connect()` opened.
- Framing: each response is decoded once, in order and as soon as it is
  complete, however the stream is cut.
- Codec and messages: what is written is read back, null apart from every
  value; a value that is not of its type spoils no other; the fields of a
  response are read as the bits announce; what is documented can be sent.
- Sample: the job exits when its votes have ended, and does come to its end.

`PROJECT.json` lists the hazards line by line with the properties that cover each, or
why none does.

## 2. Modules

| Module | What it is |
|---|---|
| `VoltConnection` | One connection: state, handlers, the socket and the server as environment |
| `QueryService` | Abstract: a call is submitted and ends at most once |
| `PooledConnection` | Abstract: the three flags a pool sees of a connection |
| `ResponseStream` | Abstract: the responses the loop of `onRead` gets to see |
| `VoltConnectionProps` | The properties of a connection, the three refinements, the inductive invariant |
| `VoltConnectionClaims` | What docs and comments say and the code does not keep |
| `Framing` | `onRead` over bytes: the login chunk, `_overflow`, exceptions; its properties and its refinement of `ResponseStream` |
| `VoltClient`, `VoltClientProps` | The pool, built on `PooledConnection`, and its properties |
| `NumberCodec` | Integers and doubles as bytes |
| `ValueCodec` | Values as bytes: types, null, dates, decimals, arrays, parameters, tables |
| `Messages`, `MessagesProps` | One message from its writer to its reader, and what each may expect |
| `VoterJob` | The chain of links and the write loop of `voternoui.js`, with its properties |
| `MCVoltConnection`, `MCVoltClient`, `MCMessages` | Instances for TLC |
| `DataLemmas` | Lemmas on sequences, the sets of their elements, and least numbers |
| `VoltConnectionProofs` | Types, limit, table of calls, refinement of `QueryService`; what leaves, in order and none dropped; a response finds its call; back pressure: refinement of `PooledConnection`, what a connection is blocked by, what the counter counts; refinement of `ResponseStream` |
| `FramingProofs` | Each response is decoded once and in order, however the stream is cut; refinement of `ResponseStream` |
| `VoltClientProofs` | Each connection in one place, a call reaches a usable one |
| `CodecProofs` | Integers, doubles and decimals as bytes and back at every width; whatever the parser accepts becomes bytes; a list of values is read where it was written |
| `MessagesProofs` | Messages are bytes that say their length, documented queries are accepted, logins arrive |
| `RoundTripProofs` | Parameters, arrays of any depth and tables are read where they were written; queries and responses arrive |
| `VoterJobProofs` | The write loop, for any number of votes |

### VoltConnection and the code

Fields keep the names of the code without the underscore. `uid` and `age` are
the manager's `uid` and `Date.now() - time`. `at`, `chunk`, `vmm` and `kept`
are control and the locals of the running handler (`data`, `vmm`,
`tmpCallIndex`). The rest is the outside: the socket and all it accepted, the
server's answers, and what the application has been told (`dispatch`,
`replies`, `allowed`, `connectEvent`).

A handler is one action where nothing can come between its statements. It is
cut where an event is emitted and the handler afterwards still reads or writes
the driver's state:

| Place (`at`) | In the code | Continued by |
|---|---|---|
| `response` | `onRead`, after QUERY_RESPONSE (line 214) | `AfterResponse` |
| `allowed`, `orphan`, `loop` | `onRead`, end of an iteration | `ReadMessage` |
| `expired` | `_checkQueryTimeout`, after both emits (line 355) | `SweepDelete` |
| `sweep` | the loop of `_manageOustandingQueries` | `SweepPop`, `SweepEnd` |
| `crashed` | the flush timer threw and nothing caught it | nothing |

`CallProcedure`, `RejectCall` and `Close` may happen at any place of `AppTurn`,
that is, between handlers and inside callbacks. After the other emits
(QUERY_ALLOWED and QUERY_DISPATCH_ERROR in `_send`, CONNECTION) the handler
changes nothing a callback could read, so a call made there is the same as one
made just after. The two emits of a timeout follow each other with no code
between and share a place.

Abstractions: messages are names; a chunk is a sequence of whole responses
(`Framing` shows that it is); a write to a lost socket may throw (as the code
expects) or be dropped, and a write after `end()` is dropped; eight-digit uids are numbers, of which there
are `MaxId`; the clock is the age of each pending call, up to one tick more
than `QueryTimeout`. An exception of an application callback ends the process,
except where the driver catches it (`callbackFailed`); the application is taken
to catch what `callProcedure` throws (`RejectCall`).

### VoltClient and the code

`GetConnection` is the loop of `_getConnection` in one step: the slots examined
are those from the one after the counter up to the first usable connection, or
all; the invalid ones among them are evicted; the result is the last slot
examined, usable or not. A step of a connection is a step of `PooledConnection`
on its three flags, and `VoltConnection` is shown to take no others.
`_badConnections` is only pushed to, so that the model keeps how often each
connection has been; the nulls it collects are left out, since nothing reads
them.

### Framing and the code

The stream is the login result and a number of responses; a byte is its place in
the stream, and a message is where it ends. What a reader has in hand is then a
run of places, or what is left of a stale one with a fresh one behind it. `ReadLogin` is `onRead` before the login, for
a chunk of any size: a result cut inside its last string is accepted, since a
Buffer's `toString` stops at its end; one cut before that throws; other bytes
may do either. After it, `ReadChunk` joins the chunk to `_overflow`, and
`ReadMessage` and `EndRead` are the loop and the assignment behind it. Where the
bytes in front are no length, `readInt` may find anything. `ReadThrows` is an
iteration that a decoder or a readCallback leaves by an exception: the process
ends, or an `uncaughtException` handler lets it go on with the `_overflow` of
the last chunk.

### ResponseStream, between Framing and VoltConnection

What the loop of `onRead` sees is a stream of whole responses: some are dropped
with the login result (`LogIn(k)`), each later chunk adds those it completes
(`Arrive(k)`, when the ones before have been decoded), and they are decoded one
by one (`Decode`), until the stream is lost. `Framing` implements this with
bytes: `Upto(received)` is the last message received whole, what is coming lies
behind it, and what is in hand lies between it and the messages done with. The
stream counts as lost after an exception, or when the login's chunk ended inside
a message. `VoltConnection` implements it with its inbox and chunk: its
`ReadLogin(k)` is `LogIn(k)`, its `ReadChunk(k)` is `Arrive(k)`, and a lost socket
loses the stream. Thus its chunks of whole responses stand for what `Framing`
makes of any cuts, and what happens behind an exception or a login result that
was cut is left to `Framing` (`OnceInOrder`).

### NumberCodec, ValueCodec, Messages and the code

Values are tagged tuples, bytes are numbers. Writing has two parts: an operator
that says whether the code accepts the value (`WritesKind`, `WritesArray`,
`WritesParameters`, with `CheckType` as in `checkType`), and one for the bytes
(`WriteKind` and so on). Reading goes from a cursor to a cursor, which breaks
where the code throws. Recursion over a value is a recursive function over a
number: the depth of an array when it is written (`Parts` are the values at
each depth), the place in the buffer when it is read (`ArraysIn`: an array in an
array starts behind it), the index in a list of reads (`ReadEach`). A method of
the parser is a function from places of the buffer (`Call`), and `TYPES_READ` a
function from kinds to methods (`TypesRead`); a list that is longer than the
bytes left for it (`ReadMany`) throws at one of its elements. The operators are those of the source, one for the
functions that differ in width only; the widths are constants. A length is written as
an integer, which refuses one it cannot count (`Countable`). A number for a
decimal is an integer or a `Fraction`, a quotient by a power of ten; `toString`
makes text of it (`TextOf`), with an exponent, which `writeDecimal` refuses, from
`PlainDigits` digits on and below a number of `PlainPlaces` places (`Plain`).
Writing a long is what the driver hands to the `bignumber` library, external as
the server is.

Several values pass all tests though they are not of their type, since `checkType`
compares with a `typeof` there is not, and some writers test nothing. They are
written as the code writes them. `wdouble` makes a number of anything (`Coerced`,
by JavaScript's conversion `ToNumber`). `writeVarbinary` makes a byte of each unit
of a string (`Units`); what has no length, such as a number, gets the length of
null, and then the position is no number: from there on (`Lost`) nothing is
written, and the message goes out with what was there before (`Kept`).

Doubles are integers in units of the least positive one. The quotient of
logarithms in `log2` rounds. For doubles below a power of two it may reach the
power's exponent, and for those from the power on it may stay below: how many, is
a number for each exponent (`err`), which depends on the runtime's `Math.log` and
is at most `LogReach` doubles on either side. Below 2^53 it is one or two, below the
largest powers some hundreds, since quotients near 1024 lie 2^-43 apart: with 2^11
for `LogReach` there is room for a logarithm that is not correctly rounded. Any such
function may be among `MathLogs`.

`Messages` takes one message at a time from the side that means it to the side
that makes something of its bytes: queries and logins are written by the driver
and read by the server, login results and responses the other way. The server's
reader and writer are external and follow the formats that the driver's own
other half expects. What can be meant is a parameter of the module, and
`MessageConstants` its assumption: a query has any name, types and values
(`IsQuery`), accepted or not; a login any strings and digest; a login result and
a response what the format has room for. `RefuseQuery` is an exception out of
`callProcedure`, before anything is sent.

### VoterJob and the code

`steps` is `voteJob.steps`, `index` and `reads` are those of `voteInsertLoop`;
`sent`, `ended`, `expired` and `shown` count what has happened. Of the
connection only `sendCounter` and `blocked` are kept, and whether the client still
has it (`pool`), changed as `_send`, `onRead`, the sweep and the scan change them
(`Call`, `Answer`, `Expire`, `Pooled`); a callback runs inside the step that ends
its call, and the calls it makes are counted before `blocked` is looked at, as in
`onRead`. `NoTable` is the TypeError of a readCallback that indexes the table of an
exception or a timeout.

The socket may be lost with or without an error (`SocketError`, `HangUp`). Over a
lost one a call may make the flush throw (`Outcomes`): `_send` catches that when it
has registered the call, and has neither counted it nor invoked its writeCallback,
and makes the connection invalid. The scan of the next call evicts it, but returns
it all the same, since it has looked at no other: so a second flush may throw.
From then on the slot is empty and calls vanish. The interval's flush may throw
too, and ends the process (`FlusherThrows`). Since such calls give a place back
when they time out which they never took, `sendCounter` may become negative, by as
many as flushes have thrown (`Uncounted`), when the socket is lost before the
login has taken its place.

## 3. Runs

| Run | Checks | Bounds |
|---|---|---|
| `connection_safety` | types, one outcome, swept, response finds its call, limit, counter, blocked by the limit or timeouts, order, nothing dropped, all three refinements | 3 calls, queue of 1, limit of 2, 1 tick, 4 uids |
| `connection_liveness` | every call ends, the queue drains | 2 calls, the same limits |
| `client_pool` | types, one place, usable found, round robin | 3 connections |
| `framing` | types, no byte lost or repeated, no message kept back, once and in order, every response decoded, refinement of `ResponseStream` | 3 responses, a length of 2 bytes, bodies of 1 or 2, a login result of 3 or 4, 1 exception survived |
| `messages` | types, length, query, login and response as meant, documented values sent | below |
| `voter_job` | types, exit earned, never stops short, comes to its end | 4 votes, limit of 3, 3 startups, at most 8 votes sent |
| `uid_wraps`, `login_refused`, `allowed_on_timeout`, `login_swallows_response`, `client_exit`, `app_status_alone` | one statement of the documentation each, violated | as above; `uid_wraps` has 2 uids |

Why the bounds are enough to be interesting. With a queue of one the second
call flushes, so that a call can be queued, sent in company, or stuck behind a
failed flush. With a limit of two and the login counted, the connection blocks,
unblocks and overshoots. Three calls let one be timed out while another is
answered and a third is made inside a callback of either. Four uids suffice for
three calls and a login, as 10^8 do in practice; two make them wrap. Three
connections let one slot be empty, one blocked and one usable. Calls are
symmetric and the safety run uses that; the liveness run does not.

`framing` tries every size of each message and every way of cutting the stream,
so that a chunk ends inside a length, at a boundary or several messages on, and
a second exception would be the first of another survivor. In `messages` bytes
are real bytes, so that signs and the presence bits are; shorts have one byte,
so that a list can be too long for one, ints, longs and decimals three, doubles
three bits of exponent and twelve of mantissa, which makes denormals, the greatest
number, infinities and their neighbours few enough to list, and the logarithm's
reach two doubles on either side of a power of two, so that there are doubles one
and two steps away and out of reach, with a logarithm that never errs and two that
err as far as they may. `MCMessages` takes for each type the values just inside and
outside its range, around zero, null's own number, null, and values of other types,
alone, in arrays and in front of a parameter or a cell they could shift; for a
decimal also numbers with more digits than `toString` writes out (three, with room
for four) and with more places than a decimal has. `voter_job` has more votes than
the limit, so that the connection blocks within the loop, room for the loop to go on
sending while the last results are asked for, and startups enough for a call over
a lost socket before and after the connection is evicted.

`messages` checks deadlock. The others do not: after `close()`, after a crash,
at the end of the stream and after `exit()` the system may really stop.

What the properties leave out is what the code gets wrong, or answers for by its
documentation. `QueryAsMeant` says that each parameter that fits its type arrives
as it was meant, whatever the others are. Those that do not fit (`Fits`) are numbers
a writer accepts beyond its type's range (`BelowRangeWraps`), the number that
stands for null, doubles as near to a power of two as the logarithm may misjudge,
and values of another type that `wdouble` or `writeVarbinary` makes something of:
they change, and spoil no other. Two cases do (`Displaces`), and there the
property says nothing: arrays of `tinyint`, whose length is written as a short
and read as an int, and a varbinary given what has no length, such as a number,
behind which everything is lost though the query is sent. `DocumentedIsSent`: the
README says to use a number for a decimal, and some numbers are refused
(`UnwritableDecimal`): those whose text has an exponent, such as 1e21 or 1e-7, and those
with more than twelve places, such as 0.1 + 0.2; and lengths beyond what the
integers of the protocol count. `ResponseAsMeant`: a null date, which is read as
a date; decimals between -1 and 0 with leading zeros, whose minus sign is taken
for a digit; columns of the same name; the application's string alone (below).
`LoginAsMeant`: a leader's address above 127, read with a sign, and a null
start time. `OnceInOrder`: a second exception, or an exception after a login
result that was cut or coalesced, may repeat a response. `JobEnds`: when a vote
times out its writeCallback is invoked twice, `index` counts it twice, and the
loop may stop with fewer votes sent than it waits for; when the connection has been
evicted its calls vanish, and the loop goes on for ever; and a job that crashes has
ended too. `BlockedByLimit` does not say that a blocked connection is ever
unblocked, for it is not, when the last calls outstanding time out: it says that
nothing else than timeouts (`Expired`) keeps it blocked below its limit.

### Fairness

`FairSpec` assumes that the event loop carries a handler to its end (weak
fairness of the steps inside `onRead` and the sweep), that both intervals set
in `connect()` fire again and again until `close()` clears them, and that the
clock goes on. The timers and the clock have strong fairness because they run
between handlers, so that a step of another handler disables them for a
moment. Nothing is assumed of the server, the socket, the application or the
connection being established: the calls end by timing out. `RoundRobin` is
checked without fairness; it says itself that calls are made again and again.

`FairFraming` assumes that what is sent arrives in chunks of some size and that
`onRead` goes on to its end. `FairVoter` assumes that the event loop runs
`innerLoop` again and again (it sets itself up with `process.nextTick` or
`setImmediate`) and that every call ends, which is `EveryCallEnds` of the
connection; not that any call is answered rather than timed out.

### What the violations show

1. `uid_wraps`: `_getUID` comes round after 10^8 ids, with 0 given out twice
   running; a call whose uid is still outstanding loses its manager, and
   another call's result goes to the wrong readCallback. The invariants above
   therefore assume fewer calls than uids.
2. `login_refused`: `onRead` does not look at the login's status.
3. `allowed_on_timeout`: a timeout invokes the writeCallback at the limit.
4. `login_swallows_response`: responses that share a chunk with the login
   result are lost, and the calls are told that the server did not respond.
   It takes a call made after the connect, which goes out behind the login while
   that is on its way. (A call queued before the connect goes out in front of the
   login; what a server makes of that is not in this repository, and the model's
   server then never answers.)
5. `client_exit`: `exit()` throws on a slot that a scan has emptied.
6. `app_status_alone`: the byte of presence bits is read by `readByte`, for
   which 0x80 is null. A response with an application status string and no
   other optional field is read as if it had none, and what follows it is
   misplaced.

## 4. Proofs

Assumptions: the constants are numbers of the kind the code has and the marks
are no calls (`ConstantsOK`, and the like of the other modules); for a
connection also `FewCalls` (finitely many calls, fewer than `MaxId`), which
stands for a lap of the uid counter and is needed for whatever is about the
table. The proofs bound neither calls, queue, limit, timeout, connections, chunks,
messages and their sizes, widths, values, the depth of arrays nor votes. For
the messages the assumptions are those of real formats: the widths are
positive, bytes are bytes, a double's sign, exponent and mantissa fill its bytes
and the number for null is a double out of the logarithm's reach (`LogReach`, any
number, and `MathLogs`, any set of errors up to it: `LogConstants`), what `ToNumber`
gives is a double, the digits of a decimal fit in its bytes, `PlainDigits` is not above
`MaxIntDigits` (`NumberConstants`, `ValueConstants`); and what can be meant
(`MessageConstants`). Fractions that `toString` writes out may have any number of
places (`PlainPlaces`).

| Theorem | Says | How |
|---|---|---|
| `TypeCorrect` | `[]TypeOK` | inductive as it stands |
| `LimitRespected` | `[]LimitRaisesBlock` | inductive with `TypeOK` |
| `ConnectionInvariant` | `[]ConnectionInv` | see below |
| `AtMostOneOutcome`, `NoPendingCallForgotten` | `[]OneOutcome`, `[]PendingIsSwept` | parts of `ConnectionInv` |
| `ConnectionImplementsService` | `Spec => Service!ServiceSpec` | each step under `ConnectionInv` |
| `ConnectionImplementsPooled` | `Spec => Pool!PoolSpec` | each step under `TypeOK` |
| `ConnectionImplementsStream` | `Spec => Stream!StreamSpec` | each step, with nothing in hand outside the loop |
| `BlockIsEarned` | `[]BlockedByLimit` | inductive with `ConnectionInv` |
| `CounterExplained` | `[]CounterDrift` | inductive with `ConnectionInv` |
| `NoMessageDropped` | `NothingDropped` | each step under `TypeOK` |
| `CallsLeaveInOrder` | `[]DispatchOrder` | inductive with `ConnectionInv` |
| `ResponsesFindTheirCalls` | `[]ResponseFindsItsCall` | `AnsweredOnce` with `ConnectionInv` |
| `UsableReached` | `CallReachesUsable` | the scan's end is a least number |
| `PoolInvariant` | `[]PoolInv` | see below |
| `ClientTypeCorrect`, `EachInOnePlace` | `[]ClientTypeOK`, `[]InOnePlace` | from `PoolInv` |
| `FramingInvariant` | `[]FramingInv` | see below |
| `FramingTypeCorrect`, `NothingIsLostOrRepeated`, `NoneIsKeptBack`, `GivenOnceInOrder` | `[]FramingTypeOK`, `[]NothingLostOrRepeated`, `[]NoneKeptBack`, `[]OnceInOrder` | from `FramingInv` |
| `FramingImplementsStream` | `FramingSpec => Stream!StreamSpec` | each step under `FramingInv` |
| `SignedRoundTrip`, `BelowRangeWraps` | what bytes an integer becomes, and what is read from them | digits, then arithmetic on half the capacity |
| `InvariantHolds` | `[]MessagesInvariant` | see below |
| `DecimalWritten`, `PointedSays` | the number a decimal is written as, and the text that is made of one | digits side by side |
| `DoubleRoundTrip` | a double is read as it was written, unless the logarithm may misjudge it | its exponent is the only one that fits |
| `TableIsRead` | a table is read where it was written | piece by piece |
| `QueryArrives`, `ResponseArrives` | `[]QueryAsMeant`, `[]ResponseAsMeant` | from `MessagesInvariant`, by the readings below |
| `MessagesTypeCorrect`, `MessagesFrameThemselves`, `DocumentedIsNotRefused`, `LoginArrives` | `[]MessagesTypeOK`, `[]MessageFramesItself`, `[]DocumentedIsSent`, `[]LoginAsMeant` | from `MessagesInvariant` |
| `JobInvariant` | `[]JobInv` | see below |
| `VoterTypeCorrect`, `ExitEarned`, `JobNeverStopsShort` | `[]VoterTypeOK`, `[]ExitIsEarned`, `[]NeverStopsShort` | from `JobInv` |

`OneOutcome` is not inductive: that a response is given to its own call depends
on what the table holds. `ConnectionInv` adds why it does. `UidsDistinct`: the
counter is at most the number of calls issued, plus one for the login, so with
`FewCalls` it has not wrapped and each call has a uid of its own. `TableSound`:
the manager under a uid is that uid's and has no outcome, except the one whose
timeout is being reported. `BeingTimedOut` describes that one until the delete.
`OnlySubmitted`: what is queued, sent, executed or on its way back belongs to a
registered call. `KeptInSweep`: outside a sweep nothing is in `tmpCallIndex`,
so starting a sweep loses no uid. `VoltConnectionProofs` has a lemma for each
action that touches the table and one, `TableUntouched`, for the rest.

The proofs about what leaves and what comes back use that invariant. They look at what is sent followed by what
is queued: a step appends to it, leaves it, or loses its end where the socket
does (`OutgoingStep`), and a new call's uid is above the submitted ones
(`UidsGrow`). For the responses they add `AnsweredOnce`: no response is on its
way twice or after its call has had it, which cutting a chunk off the inbox
keeps (`CutOnce`). For the counter, an outcome takes a call out of `InFlight` or
puts it into `EndedUncounted`, never both (`DriftOfOutcome`). `BlockedByLimit`
compares the counter with the limit: a timeout lowers the first and adds to
`Expired` in the same step (`BlockedOfExpire`, for which the table must say that the
call had no outcome yet), a write that sets the switch has reached the limit
(`BlockedOfWrite`), and after an answer the switch is looked at again.

In `VoltClientProofs` the slot the scan ends at is chosen by `CHOOSE` as the
least with a property, so that the proof has to show there is a least one, from
the well-foundedness of the naturals; the slots come round modulo the number of
connections, and the slot of the usable one is among them. `InOnePlace` counts
the places of a connection, slots and `badConnections` together. It is not
inductive: `PoolInv` adds `ClientTypeOK`, by which the counter stays among the
slots however many `exit()` has removed, that the slots are no more than the
connections, and that nothing has happened to a connection before `connect()`.
Then an eviction takes out of one slot exactly what it puts aside, and `exit()`
removes each connection it closes.

`NothingLostOrRepeated` speaks of a stream whose login's chunk ended with a message,
the login result or a response dropped with it, and that has thrown nothing; with `BeforeLogin` it is inductive. `OnceInOrder` also
speaks of what follows an exception, when `_overflow` is that of the chunk
before: `OverflowIncomplete` says that it is then a run of bytes in which no
message ends (from which `NoneKeptBack` follows), and `StaleThenFresh`, that what
is held is such a stale run, a gap, and a fresh run behind all that was decoded.
Neither a slice of the stale bytes nor one across the gap is a message
(`SliceIsFresh`), so that what is decoded is new. The lemmas on `Splice` say what
a cut leaves of two runs. `FramingInv` is the conjunction. For the refinement of
`ResponseStream` the last message received whole is chosen by `CHOOSE`; that
there is one, and only one, is `UptoType` and `UptoIs`. Outside the loop every
message received whole is done with (`AllDone`), so that a chunk finds none in
hand; an iteration decodes the next one (`ReadDecodesNext`), and the loop ends
when none is left (`EndReadNoEnd`).

The recursive functions of `NumberCodec` and `ValueCodec` run over intervals,
and the lemmas about them (`PowersRecursion`, `AmountsRecursion`,
`DigitsRoundTrip`, `PartsRecursion`, `ArrayBytes`) are inductions over the set
of the numbers for which such a function exists. `Flattened` says of `FlattenSeq`
that it puts together elements and nothing else. From these, whatever
`checkType` and the writers accept becomes bytes (`ParameterBytes`), arrays of
any depth included; and an integer, null or a string is read where it was
written (`IntegerAt`, `StringAt`), where `At(b, k, w)` says that the bytes `w`
are at `k` in `b`, and one concatenation after another takes a message apart.
`MessagesInvariant` says that the bytes on the wire are `ToBuffer` of the body
of what was meant, with a length that could be written, and that what was
received is what the reader makes of them. `HeaderSays` then gives the length;
`LoginRead` and `ResultRead` follow the two readers along the bytes;
`DocumentedAccepted` goes through the types one by one, where `WritableIsShort`
says that a number `toString` writes without an exponent, and with no more places
than a decimal has, passes `sanitizeDecimal`.

`QueryArrives` and `ResponseArrives` say that what was meant is what is read,
whatever the parameters, tables and widths. Values first. A decimal's text and
the integer it is written as are the same digits side by side (`DecimalWritten`),
and `PointedSays` puts the point back where it was. For a double `Fields` finds
an exponent at which the mantissa fits, unless the logarithm misjudges it, which
`FarFromPower` excludes: the double is `LogReach` doubles away from a power of two; the packed fields come apart again
(`DoubleRoundTrip`). Then lists of them. The elements of a sequence put together
by `FlattenSeq` have places that follow each other (`PlacesOf`); if each is read
at its place and ends at the next, `ReadEach` reads the list (`EachAt`, `ManyAt`), and
since each takes a byte at least, the list is never longer than the bytes left,
which is what `ReadMany` asks. The arrays of an array are written by induction
over the depth and read by induction over the places, so `ArrayRead` goes down
the depths with the bytes of each in hand (`PartRead`). A table is its pieces, one
behind the other (`PiecesOfTable`), and its rows a list of lists (`RowAt`,
`TableIsRead`); so is a response, whose optional pieces the bits announce
(`BitsRead`: a byte read with its sign still says which bits are set, unless it
is 0x80). `Bounded` is used for the counts: what the length field has counted
leaves none of them out of range.

`ExitIsEarned` and `NeverStopsShort` are not inductive either. `JobInv` adds
`ChainInStep`, how far the votes have come at each link; `StartedOnce`, that
over a good connection there is one initialisation and so one chain;
`CounterCovers`, that `sendCounter` is at least the calls under way, but for one or
two whose flush has thrown on a lost socket, so that over a good one the connection
is unblocked only when few are; and `OneUncounted`, that while
it is blocked some vote has been sent that `index` has not counted, since the
one that blocked it was told nothing. The vote that unblocks it may then be
counted.

Only model-checked: the liveness properties (`EveryCallEnds`, `QueueDrains`,
`RoundRobin`, `EveryResponseDecoded`, `JobEnds`), which are out of the prover's
reach. Every invariant, every action property and every refinement that the passing runs
check is proved.

The findings are counterexamples, which need no proof.

## 5. Not modelled

- `lib/ctype.js` and the parts of `lib/ctio.js` that nothing in the driver
  calls: structures, 64-bit pairs, single floats, little-endian order.
- Of `lib/parser.js`, the table `NUMERIC_TYPES` and the function `ones`, which
  nothing that can happen uses; how the `bignumber` library parses a long or a date
  with a fraction; what becomes of a Date or an Array in an array of strings and of
  an Array in one of varbinaries (`HasNotation`).
- `writer.js`: the chain of `voternoui.js` on a cluster, except that its
  readCallbacks take their first argument, a status code, for the result. The
  first to look into it, in front of the loop, throws, so that with this driver
  the loop is never reached.
- The voter's web front end (`examples/voter`): pages around the same calls.
- SHA-1 of the password, logging and statistics, and the forwarding of events by
  the client, which keeps no state.

## 6. Plan

The modules planned are written and joined. What could follow is outside them:
the forwarding of events by the client as a component, once it keeps state, and
the chain of `writer.js` on a cluster, once its readCallbacks take the result.

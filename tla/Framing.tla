------------------------------ MODULE Framing ------------------------------
(***************************************************************************)
(* How a connection puts messages together (onRead, lib/connection.js).    *)
(*                                                                         *)
(* The server sends the login result, then responses, as one stream of     *)
(* bytes which the socket hands over in chunks of any size.  Before the    *)
(* login the whole chunk is taken for the login result; afterwards the     *)
(* bytes wait in _overflow until a message is complete.  A byte is its     *)
(* place in the stream, counted from 1, and a message the places up to its *)
(* end.  VoltConnection, in which a chunk is a number of whole responses,  *)
(* abstracts from this module: both implement ResponseStream.              *)
(***************************************************************************)
EXTENDS Integers, Sequences, SequencesExt

CONSTANTS
  Responses,   \* how many responses follow the login result
  Header,      \* bytes of the length in front of a message, 4
  MaxBody,     \* bound on what follows that length
  LoginFixed,  \* bytes of a login result in front of its last string, build
  MaxBuild,    \* bound on the bytes of build
  MaxThrows    \* bound on the exceptions the process survives

ASSUME FramingConstants ==
  /\ {Responses, Header, MaxBody, LoginFixed} \subseteq Nat \ {0}
  /\ {MaxBuild, MaxThrows} \subseteq Nat
  /\ LoginFixed > Header

Numbers  == 1 .. Responses
Messages == 0 .. Responses  \* 0 stands for the login result

VARIABLES
  end,         \* where each message ends in the stream, external
  received,    \* how much of the stream the socket has handed over, external
  isLoggedIn,
  overflow,    \* _overflow
  data,        \* the local variable of onRead
  at,          \* where control is
  decoded,     \* the responses _decodeQueryResult has made, in order
  loginRead,   \* how many bytes were taken for the login result
  throws       \* exceptions that have left onRead

vars == <<end, received, isLoggedIn, overflow, data, at, decoded, loginRead, throws>>

\* The places in the stream behind a, up to b.
Run(a, b) == [k \in 1 .. b - a |-> a + k]

Start(m) == IF m = 0 THEN 0 ELSE end[m - 1]
Size(m)  == end[m] - Start(m)
Bytes(m) == Run(Start(m), end[m])
Total    == end[Responses]

\* Where the messages may end.
Layouts ==
  {e \in [Messages -> 0 .. LoginFixed + MaxBuild + Responses * (Header + MaxBody)] :
     /\ e[0] \in LoginFixed .. LoginFixed + MaxBuild
     /\ \A m \in Numbers : e[m] - e[m - 1] \in Header + 1 .. Header + MaxBody}

FramingTypeOK ==
  /\ end \in Layouts
  /\ received \in 0 .. Total
  /\ {overflow, data} \subseteq Seq(Nat \ {0})
  /\ isLoggedIn \in BOOLEAN
  /\ at \in {"idle", "loop", "crashed"}
  /\ decoded \in Seq(Numbers)
  /\ loginRead \in 0 .. Total /\ throws \in 0 .. MaxThrows + 1

FramingInit ==
  /\ end \in Layouts /\ received = 0
  /\ isLoggedIn = FALSE
  /\ overflow = <<>> /\ data = <<>>
  /\ at = "idle"
  /\ decoded = <<>>
  /\ loginRead = 0 /\ throws = 0

\* An exception leaves onRead: the process ends, unless the application has
\* asked Node to go on.  The local variables are gone, _overflow is as it was.
Throw ==
  /\ throws' = throws + 1
  /\ \/ at' = "crashed"
     \/ throws < MaxThrows /\ at' = "idle"
  /\ data' = <<>>
  /\ UNCHANGED overflow

\* What the constructor LoginMessage may do with a chunk of n bytes: a result whose
\* last string is cut is accepted, since toString stops at the end of the buffer;
\* one cut before it is not; of other bytes nothing is known.
LoginOutcomes(n) ==
  IF received # 0 THEN {"accepted", "throws"}
  ELSE IF n >= LoginFixed THEN {"accepted"} ELSE {"throws"}

\* onRead of a chunk of n bytes before the login.
ReadLogin(n) ==
  /\ at = "idle" /\ ~isLoggedIn
  /\ received' = received + n
  /\ \E outcome \in LoginOutcomes(n) :
        IF outcome = "accepted"
          THEN /\ isLoggedIn' = TRUE /\ loginRead' = n
               /\ UNCHANGED <<overflow, data, at, throws>>
          ELSE Throw /\ UNCHANGED <<isLoggedIn, loginRead>>
  /\ UNCHANGED <<end, decoded>>

\* onRead of a chunk of n bytes after the login.
ReadChunk(n) ==
  /\ at = "idle" /\ isLoggedIn
  /\ received' = received + n
  /\ data' = overflow \o Run(received, received + n)
  /\ at' = "loop"
  /\ UNCHANGED <<end, isLoggedIn, overflow, decoded, loginRead, throws>>

\* The length of message m stands at the front of data.
Leads(m) == \A k \in 1 .. Header : data[k] = Start(m) + k

\* The length, itself included, that readInt finds there: a message's, or, if the
\* first bytes are none, anything.
Lengths ==
  LET leading == {m \in Messages : Leads(m)}
  IN  IF leading = {} THEN 1 .. Len(data) + 1 ELSE {Size(m) : m \in leading}

\* Mutant of Complete: the last message of a chunk waits for more.
CompleteAndMore(length) == Len(data) > Header /\ Len(data) > length
Complete(length)        == Len(data) > Header /\ Len(data) >= length

\* Mutant of Decodes: a slice is taken for the message its first byte is of.
DecodesByStart(slice) ==
  \E m \in Messages : slice[1] \in Start(m) + 1 .. end[m] /\ decoded' = Append(decoded, m)

\* What _decodeQueryResult makes of a slice: the response it is, or nothing
\* that anybody sent.
Decodes(slice) ==
  \/ \E m \in Numbers : slice = Bytes(m) /\ decoded' = Append(decoded, m)
  \/ (\A m \in Numbers : slice # Bytes(m)) /\ UNCHANGED decoded

\* Mutant of Consume: the message stays in front of data.
ConsumeNothing(length) == UNCHANGED data
Consume(length)        == data' = SubSeq(data, length + 1, Len(data))

\* One iteration of the loop of onRead, whose callbacks return.
ReadMessage ==
  /\ at = "loop" /\ Len(data) > Header
  /\ \E length \in Lengths :
       /\ Complete(length)
       /\ Decodes(SubSeq(data, 1, length))
       /\ Consume(length)
  /\ UNCHANGED <<end, received, isLoggedIn, overflow, at, loginRead, throws>>

\* An iteration that ends in an exception: of the decoder, which finds no
\* message in the slice, or of the readCallback.
ReadThrows ==
  /\ at = "loop" /\ Len(data) > Header
  /\ \E length \in Lengths :
       /\ Complete(length)
       /\ Decodes(SubSeq(data, 1, length))
  /\ Throw
  /\ UNCHANGED <<end, received, isLoggedIn, loginRead>>

\* Mutant of SaveOverflow: what is left of the chunk is forgotten.
SaveNothing  == overflow' = <<>>
SaveOverflow == overflow' = data

\* The end of the loop.
EndRead ==
  /\ at = "loop"
  /\ Len(data) > Header => \E length \in Lengths : ~Complete(length)
  /\ at' = "idle" /\ data' = <<>>
  /\ SaveOverflow
  /\ UNCHANGED <<end, received, isLoggedIn, decoded, loginRead, throws>>

FramingNext ==
  \/ \E n \in 1 .. Total - received : ReadLogin(n) \/ ReadChunk(n)
  \/ ReadMessage
  \/ ReadThrows
  \/ EndRead

FramingSpec == FramingInit /\ [][FramingNext]_vars

\* What is sent arrives, and a handler that has begun goes on to its end.
FairFraming ==
  /\ FramingSpec
  /\ WF_vars(\E n \in 1 .. Total - received : ReadLogin(n) \/ ReadChunk(n))
  /\ WF_vars(ReadMessage \/ EndRead)

-----------------------------------------------------------------------------
(* Properties *)

\* The chunk of the login result ended with a message, the login result itself or a
\* response that is dropped with it, and nothing has thrown.
Clean   == isLoggedIn /\ (\E m \in Messages : loginRead = end[m]) /\ throws = 0
Dropped == CHOOSE m \in Messages : loginRead = end[m]

\* The last message that is done with.
Done == Dropped + Len(decoded)

\* The bytes onRead or _overflow holds.
Waiting == IF at = "loop" THEN data ELSE overflow

\* However the stream is cut, no byte behind the login's chunk is lost, repeated or
\* moved: the messages decoded are the first ones, and the bytes held are those from
\* there to the last one received.
NothingLostOrRepeated ==
  Clean => /\ Done \in Messages /\ \A i \in 1 .. Len(decoded) : decoded[i] = Dropped + i
           /\ end[Done] <= received /\ Waiting = Run(end[Done], received)

\* Between chunks no complete message waits in _overflow: a response is not
\* kept back until the next one comes.
NoneKeptBack ==
  Clean /\ at = "idle" => \A m \in Numbers : ~IsPrefix(Bytes(m), overflow)

\* A response is given out at most once and in order, even where the login
\* result was cut or coalesced, or else after an exception the process survived.
\* (Both together, or a second exception, may repeat a response: _overflow is
\* then older than data.)
InOrderYet == throws = 0 \/ (loginRead = end[0] /\ throws = 1)
OnceInOrder ==
  InOrderYet => \A i, j \in 1 .. Len(decoded) : i < j => decoded[i] < decoded[j]

\* Each response is decoded in the end, without waiting for a further chunk.
EveryResponseDecoded ==
  \A m \in Numbers : Clean ~> (~Clean \/ m <= Dropped \/ m \in ToSet(decoded))

\* What onRead makes of the bytes is a stream of whole responses, to which a chunk
\* adds those it completes, until the bytes cannot be followed any more.
Upto(n) ==
  CHOOSE m \in Messages :
    (m = 0 \/ end[m] <= n) /\ \A j \in Messages : end[j] <= n => j <= m
Phase  == IF ~isLoggedIn /\ throws = 0 THEN "login" ELSE IF Clean THEN "open" ELSE "lost"
Coming == IF Phase = "lost" THEN <<>> ELSE Run(Upto(received), Responses)
InHand ==
  IF Phase = "open" /\ at = "loop" THEN Run(Done, Upto(received)) ELSE <<>>
Stream ==
  INSTANCE ResponseStream
  WITH Responses <- Numbers, phase <- Phase, coming <- Coming, inHand <- InHand
ImplementsStream == Stream!StreamSpec

-----------------------------------------------------------------------------
(* What the invariants rest on *)

\* Nothing is held or decoded before the login, which the first chunk completes
\* unless it throws, and the process survives no more exceptions than it is allowed to.
BeforeLogin ==
  /\ ~isLoggedIn =>
       /\ at # "loop" /\ overflow = <<>> /\ decoded = <<>> /\ loginRead = 0
       /\ throws = 0 => received = 0
  /\ at # "crashed" => throws <= MaxThrows

\* No message ends between a and b.
NoEnd(a, b) == \A m \in Messages : ~(a < end[m] /\ end[m] <= b)

\* _overflow, which an exception leaves behind, is a part of one message, and
\* during onRead the stream has gone on.
OverflowIncomplete ==
  Clean => \E a, b \in 0 .. received :
             /\ a <= b /\ overflow = Run(a, b) /\ NoEnd(a, b)
             /\ at = "loop" => b < received

\* Two runs, one behind the other.
Splice(a, b, c, d) == Run(a, b) \o Run(c, d)

\* What is held is such a stale part, which cannot be decoded with what follows a
\* gap, and a run of bytes up to the last one received, none of them decoded yet.
StaleThenFresh ==
  InOrderYet => \E a, b, c \in 0 .. received :
    /\ a <= b /\ Waiting = Splice(a, b, c, received)
    /\ NoEnd(a, b) /\ (a < b => b < c)
    /\ \A i \in 1 .. Len(decoded) : end[decoded[i]] <= c

FramingInv ==
  /\ FramingTypeOK
  /\ BeforeLogin
  /\ NothingLostOrRepeated
  /\ OverflowIncomplete
  /\ StaleThenFresh
  /\ OnceInOrder
=============================================================================

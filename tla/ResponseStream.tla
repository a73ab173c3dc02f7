--------------------------- MODULE ResponseStream ---------------------------
(***************************************************************************)
(* What the loop of onRead gets to see of the server's stream, without     *)
(* bytes: whole responses, each once, in the order they were sent, and all *)
(* that a chunk completes in one run of the loop.  Framing implements it   *)
(* with bytes cut anywhere, and VoltConnection reads by it.                *)
(***************************************************************************)
EXTENDS Naturals, Sequences

CONSTANT Responses

VARIABLES
  phase,   \* "login", "open", or "lost" when the stream cannot be followed any more
  coming,  \* responses that no chunk has completed yet
  inHand   \* responses of the chunk onRead is at, not yet decoded

streamVars == <<phase, coming, inHand>>

StreamInit == phase = "login" /\ coming \in Seq(Responses) /\ inHand = <<>>

Sent(r) ==
  /\ phase # "lost"
  /\ coming' = Append(coming, r)
  /\ UNCHANGED <<phase, inHand>>

\* The login result has come; the k responses in the same chunk are dropped with it.
LogIn(k) ==
  /\ phase = "login" /\ phase' = "open"
  /\ coming' = SubSeq(coming, k + 1, Len(coming))
  /\ UNCHANGED inHand

\* A chunk completes k responses, when those of the one before have been decoded.
Arrive(k) ==
  /\ phase = "open"
  /\ inHand = <<>> /\ inHand' = SubSeq(coming, 1, k)
  /\ coming' = SubSeq(coming, k + 1, Len(coming))
  /\ UNCHANGED phase

Decode ==
  /\ inHand # <<>> /\ inHand' = Tail(inHand)
  /\ UNCHANGED <<phase, coming>>

\* The socket is lost, an exception leaves onRead, or the chunk of the login result
\* ends inside a message.
Lose ==
  /\ phase # "lost" /\ phase' = "lost"
  /\ coming' = <<>> /\ inHand' = <<>>

StreamNext ==
  \/ \E r \in Responses : Sent(r)
  \/ \E k \in 0 .. Len(coming) : LogIn(k)
  \/ \E k \in 1 .. Len(coming) : Arrive(k)
  \/ Decode
  \/ Lose

StreamSpec == StreamInit /\ [][StreamNext]_streamVars

=============================================================================

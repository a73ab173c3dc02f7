------------------------ MODULE VoltConnectionClaims ------------------------
(***************************************************************************)
(* What the documentation, the comments and the messages of the repository *)
(* say of a connection and the code does not keep: a run shows for each    *)
(* how it fails.                                                           *)
(***************************************************************************)
EXTENDS VoltConnection

\* README.md:78, "readCallback: callback that receives the results of a
\* query": the query it was given with.  Not so once _getUID has come round.
OwnResultOnly ==
  \A c \in Calls :
    \A i \in 1 .. Len(replies[c]) : replies[c][i] \in {c, TimedOut}

\* lib/voltconstants.js:49, "CONNECT: A successful connection to the volt
\* server": the status SUCCESS is given when the server accepted the login.
ConnectMeansLoggedIn == connectEvent = "success" => loginReply = "granted"

\* lib/connection.js:298, "only allow more writes if the queue has not
\* breached a limit": no writeCallback while the limit is reached.
AllowedUnderLimit ==
  [][allowed' # allowed => sendCounter' < MaxConsecutiveWrites]_vars

\* lib/connection.js:352, "Query timed out before server responded": a call
\* is not kept waiting once its response has been read from the socket.
NoResponseIgnored ==
  socket = "open" =>
    \A c \in answered : Pending(c) => c \in ToSet(inbox) \cup ToSet(chunk)

=============================================================================

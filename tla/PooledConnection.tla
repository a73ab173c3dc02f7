-------------------------- MODULE PooledConnection --------------------------
(***************************************************************************)
(* A connection as the pool of VoltClient sees it: whether it is valid,    *)
(* whether it is blocked, whether it has been closed, and which of its     *)
(* steps change that.  VoltConnection implements it, VoltClient is built   *)
(* on it.                                                                  *)
(***************************************************************************)
VARIABLES valid, blocked, closed

pvars == <<valid, blocked, closed>>

PoolInit == valid = TRUE /\ blocked = FALSE /\ closed = FALSE

\* callProcedure returned true: the call may have reached the limit of writes.
Accept ==
  /\ ~closed
  /\ blocked' \in {blocked, TRUE}
  /\ UNCHANGED <<valid, closed>>

\* callProcedure returned false.
Refuse ==
  /\ ~closed
  /\ valid' = FALSE
  /\ UNCHANGED <<blocked, closed>>

\* The login is sent, which counts as a write.
Connected == blocked' \in {blocked, TRUE} /\ UNCHANGED <<valid, closed>>

\* The answer to the login makes the connection valid again.
LoggedIn == valid' = TRUE /\ UNCHANGED <<blocked, closed>>

\* Only a response unblocks.
Unblocked == blocked /\ blocked' = FALSE /\ UNCHANGED <<valid, closed>>

Closed == ~closed /\ closed' = TRUE /\ UNCHANGED <<valid, blocked>>

PoolNext == Accept \/ Refuse \/ Connected \/ LoggedIn \/ Unblocked \/ Closed

PoolSpec == PoolInit /\ [][PoolNext]_pvars

=============================================================================

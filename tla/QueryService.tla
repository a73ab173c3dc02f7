---------------------------- MODULE QueryService ----------------------------
(***************************************************************************)
(* What a connection promises an application, without uids, tables, queues *)
(* or timers: a call that has been submitted ends at most once, either     *)
(* with its own result, which the server has computed, or with the news    *)
(* that it timed out.  A server may execute a call whose caller has been   *)
(* told that it timed out.                                                 *)
(***************************************************************************)
CONSTANT Calls

VARIABLES status, executed

svars == <<status, executed>>

Statuses == {"none", "pending", "answered", "expired"}

ServiceTypeOK == status \in [Calls -> Statuses] /\ executed \subseteq Calls

ServiceInit == status = [c \in Calls |-> "none"] /\ executed = {}

Submit(c) ==
  /\ status[c] = "none"
  /\ status' = [status EXCEPT ![c] = "pending"]
  /\ UNCHANGED executed

Execute(c) ==
  /\ status[c] # "none"
  /\ c \notin executed
  /\ executed' = executed \cup {c}
  /\ UNCHANGED status

Answer(c) ==
  /\ status[c] = "pending"
  /\ c \in executed
  /\ status' = [status EXCEPT ![c] = "answered"]
  /\ UNCHANGED executed

GiveUp(c) ==
  /\ status[c] = "pending"
  /\ status' = [status EXCEPT ![c] = "expired"]
  /\ UNCHANGED executed

ServiceNext ==
  \E c \in Calls : Submit(c) \/ Execute(c) \/ Answer(c) \/ GiveUp(c)

ServiceSpec == ServiceInit /\ [][ServiceNext]_svars

=============================================================================

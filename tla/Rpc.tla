-------------------------------- MODULE Rpc --------------------------------
(***************************************************************************)
(* What the dual-core mailbox promises to the non-secure tasks: a PSA      *)
(* client call is a remote procedure call that the secure side serves once *)
(* and that returns the answer to this call, whatever calls of other tasks *)
(* are under way.                                                          *)
(***************************************************************************)
CONSTANTS Task, Request

VARIABLE call   \* state, request and answer of each task's call

NoRpc(r) == [st |-> "idle", req |-> r, ret |-> r]

RpcInit == call \in [Task -> {NoRpc(r) : r \in Request}]

Send(t, r) ==
  /\ call[t].st = "idle"
  /\ call' = [call EXCEPT ![t] = [st |-> "sent", req |-> r, ret |-> @.ret]]

\* The answer names the request it is the answer to.
Serve(t) ==
  /\ call[t].st = "sent"
  /\ call' = [call EXCEPT ![t].st = "served", ![t].ret = call[t].req]

Return(t) ==
  /\ call[t].st = "served"
  /\ call' = [call EXCEPT ![t].st = "idle"]

RpcNext == \E t \in Task : (\E r \in Request : Send(t, r)) \/ Serve(t) \/ Return(t)

RpcSpec == RpcInit /\ [][RpcNext]_call
=============================================================================

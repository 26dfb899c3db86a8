----------------------------- MODULE ClientRpc -----------------------------
(* A Client in its default configuration is the remote call of Rpc.        *)
EXTENDS Client

Current == IF Running THEN [op |-> call.op, arg |-> call.arg] ELSE NoCall

\* The response to the current call, from the moment the bytes of all of it
\* are on their way to the client.
Arrived == {f \in Pending : f.at + LengthBytes + f.size <= wpos}
Answer  == IF Arrived = {} THEN "none" ELSE (CHOOSE f \in Arrived : TRUE).resp

Link == CASE tcp = "none" -> "none" [] tcp = "open" -> "up" [] OTHER -> "down"

Promise == INSTANCE Rpc WITH
  Operations  <- UNION {[op : {op}, arg : Args(op)] : op \in Methods},
  Selected    <- Trim,
  NoOperation <- NoCall,
  operation   <- Current,
  answer      <- Answer,
  link        <- Link,
  result      <- last.result

\* Without timeouts and oversized replies, and whether or not the server hangs
\* up or answers with something undecodable, what the caller and the server
\* see of each other is a synchronous call: at most one execution, within the
\* call, and the outcome of that execution as the result (round_trip).
IsRpc == Promise!Spec
=============================================================================

-------------------------- MODULE SessionsService --------------------------
(* The Clients of Sessions together are those of Service.                   *)
EXTENDS Sessions

Link == [c \in Clients |->
           CASE thread[c] = "none" -> "none"
             [] thread[c] = "gone" -> "down"
             [] OTHER -> "up"]

Promise == INSTANCE Service WITH
  Operations  <- UNION {[op : {op}, arg : Args(op)] : op \in Methods},
  Selected    <- Trim,
  NoOperation <- NoCall,
  NoAnswer    <- NoReply,
  link        <- Link,
  operation   <- call,
  pending     <- request,
  answer      <- reply,
  result      <- ended

\* Whatever the interleaving of the Clients, of the accept loop and of the
\* server's threads, and however a shutdown or a hang-up ends them, each call
\* takes effect at one instant while it runs or not at all, on the databases
\* all Clients share and the session of its own connection, and returns what
\* was so at that instant; only a call given up may take effect afterwards
\* (Client::round_trip, ClientBuilder::connect).
IsService == Promise!Spec
=============================================================================

---------------------------- MODULE ClientClaims ----------------------------
(* What the comments and tests of the repository say of a Client, without  *)
(* the conditions under which it is true.                                  *)
EXTENDS ClientRpc

\* "Run a query and take its rows" (client.rs:245): the rows a query returns
\* are never the answer to an earlier request.
TakesItsRows ==
  [][call.op = "query" /\ call' = NoCall /\ last'.result = "Ok"
       => last'.to \in {0, call.id}]_vars

\* "this opens one throwaway connection afterwards to wake it" (client.rs:284):
\* the accept loop of a server that has taken the shutdown notices the flag.
ShutdownWakesServer == stopping ~> (listener = "stopped")
=============================================================================

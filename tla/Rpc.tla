-------------------------------- MODULE Rpc --------------------------------
(***************************************************************************)
(* What a Client promises a caller who sets no timeouts and is sent no     *)
(* oversized reply: a synchronous remote call.  The server carries out a   *)
(* request at most once, between the call and its return, and the call     *)
(* returns what the server answered to it, or that the connection is gone. *)
(* There are no bytes, frames or queues here, and no reply but the one.    *)
(***************************************************************************)
EXTENDS Protocol

CONSTANTS
  Operations,   \* the calls a caller makes: records with an op and an arg
  Selected,     \* the database a use_database selects, by its argument
  NoDatabase,   \* Option::None
  NoOperation   \* no call is in progress

VARIABLES
  operation,    \* the call in progress
  answer,       \* the server's response to it, "none" as long as there is none
  link,         \* "none", "up" or "down"
  database,     \* the database the client takes for selected
  bound,        \* the database the server has selected
  result        \* what the last call returned

vars == <<operation, answer, link, database, bound, result>>

Init ==
  /\ operation = NoOperation /\ answer = "none" /\ link = "none"
  /\ database = NoDatabase /\ bound = NoDatabase /\ result = "Ok"

\* The database selected when a call succeeds where `name` is selected.
Selects(o, name) ==
  CASE o.op = "use_database" -> Selected[o.arg]
    [] o.op = "reset_server" -> NoDatabase
    [] OTHER                 -> name

Establish ==
  /\ link = "none" /\ link' = "up"
  /\ operation' \in {NoOperation} \cup {o \in Operations : o.op = "use_database"}
  /\ UNCHANGED <<answer, database, bound, result>>

Begin ==
  /\ operation = NoOperation /\ link # "none"
  /\ operation' \in Operations
  /\ UNCHANGED <<answer, link, database, bound, result>>

\* The client refuses a call by itself.
Refuse ==
  /\ operation = NoOperation
  /\ result' \in {"InvalidArgument", "Unsupported", "MultipleStatements",
                  "RequestTooLarge"}
  /\ UNCHANGED <<operation, answer, link, database, bound>>

\* The server carries the request out and answers, in one step.
Serve ==
  /\ operation # NoOperation /\ answer = "none" /\ link = "up"
  /\ \E resp \in Replies(operation.op, bound # NoDatabase) :
       /\ answer' \in {resp, "Undecodable"}
       /\ bound' = IF Check(resp) = "Ok" THEN Selects(operation, bound) ELSE bound
  /\ UNCHANGED <<operation, link, database, result>>

Answer ==
  /\ operation # NoOperation /\ answer # "none"
  /\ result' = IF answer = "Undecodable" THEN "Decode" ELSE Result(operation.op, answer)
  /\ database' = IF result' = "Ok" THEN Selects(operation, database) ELSE database
  /\ operation' = NoOperation /\ answer' = "none"
  /\ UNCHANGED <<link, bound>>

\* The connection goes down and takes the session with it, perhaps the answer.
Break ==
  /\ link = "up" /\ link' = "down"
  /\ bound' = NoDatabase /\ answer' \in {answer, "none"}
  /\ UNCHANGED <<operation, database, result>>

Lost ==
  /\ operation # NoOperation /\ answer = "none" /\ link = "down"
  /\ result' \in {"ConnectionClosed", "BrokenPipe"}
  /\ operation' = NoOperation
  /\ UNCHANGED <<answer, link, database, bound>>

Next ==
  Establish \/ Begin \/ Refuse \/ Serve \/ Answer \/ Break \/ Lost

Spec == Init /\ [][Next]_vars
=============================================================================

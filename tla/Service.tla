------------------------------ MODULE Service ------------------------------
(***************************************************************************)
(* What the Clients of one server are promised together.  Each call is     *)
(* carried out at one instant between its beginning and its end, or not at *)
(* all, on databases that all share and on the session of its own          *)
(* connection; what it returns is what was so at that instant.  There is no*)
(* listener, no queue, no thread and no shutdown here.                     *)
(***************************************************************************)
EXTENDS Protocol

CONSTANTS
  Clients,     \* Client values, each with a connection of its own
  Operations,  \* the calls they make: records with an op and an arg
  Selected,    \* the database an argument names
  NoDatabase,  \* Option::None
  NoOperation, \* no call is in progress
  NoAnswer     \* no answer has come

VARIABLES
  link,       \* each connection: "none", "up" or "down"
  operation,  \* each Client's call in progress
  pending,    \* the request of each connection that is yet to be carried out
  answer,     \* the answer to each call in progress
  database,   \* the database each Client takes for selected
  result,     \* what each Client's last call returned
  databases,  \* the databases there are
  bound       \* the database selected in each session

vars == <<link, operation, pending, answer, database, result, databases, bound>>

Init ==
  /\ link = [c \in Clients |-> "none"]
  /\ operation = [c \in Clients |-> NoOperation]
  /\ pending = [c \in Clients |-> NoOperation]
  /\ answer = [c \in Clients |-> NoAnswer]
  /\ database = [c \in Clients |-> NoDatabase]
  /\ result = [c \in Clients |-> [result |-> "none", reply |-> NoAnswer]]
  /\ databases = {}
  /\ bound = [c \in Clients |-> NoDatabase]

-----------------------------------------------------------------------------
(* A call carried out, when the server answers `resp` to it.               *)

DatabasesAfter(o, resp) ==
  IF Check(resp) # "Ok" THEN databases
  ELSE CASE o.op = "create_database" -> databases \cup {Selected[o.arg]}
         [] o.op = "reset_server"    -> {}
         [] OTHER                    -> databases

BoundAfter(c, o, resp) ==
  IF Check(resp) # "Ok" THEN bound
  ELSE CASE o.op = "use_database" -> [bound EXCEPT ![c] = Selected[o.arg]]
         [] o.op = "reset_server" -> [d \in Clients |-> NoDatabase]
         [] OTHER                 -> bound

\* A listing says which databases there are at this instant.
Says(o, resp) ==
  [resp |-> resp, list |-> IF o.op = "databases" /\ Check(resp) = "Ok"
                           THEN databases ELSE {}]

Recorded(o, res, name) ==
  IF res # "Ok" THEN name
  ELSE CASE o.op = "use_database" -> Selected[o.arg]
         [] o.op = "reset_server" -> NoDatabase
         [] OTHER                 -> name

-----------------------------------------------------------------------------
Open(c) ==
  /\ link[c] = "none"
  /\ link' = [link EXCEPT ![c] = "up"]
  /\ \E o \in {NoOperation} \cup {p \in Operations : p.op = "use_database"} :
       /\ operation' = [operation EXCEPT ![c] = o]
       /\ pending' = [pending EXCEPT ![c] = o]
  /\ \E r \in {result[c]} \cup {[result |-> "InvalidArgument", reply |-> NoAnswer],
                                [result |-> "InvalidInput", reply |-> NoAnswer]} :
       result' = [result EXCEPT ![c] = r]
  /\ UNCHANGED <<answer, database, databases, bound>>

\* A request is written to a connection that is up; on one that is down it
\* cannot be carried out any more.
Begin(c) ==
  /\ operation[c] = NoOperation /\ link[c] # "none"
  /\ \E o \in Operations :
       /\ operation' = [operation EXCEPT ![c] = o]
       /\ pending' = [pending EXCEPT ![c] = IF link[c] = "up" THEN o ELSE NoOperation]
  /\ UNCHANGED <<link, answer, database, result, databases, bound>>

\* A call that never reaches the server: refused by the Client, or without a
\* connection to make it on.
Refuse(c) ==
  /\ operation[c] = NoOperation
  /\ \E err \in {"InvalidArgument", "InvalidInput", "Refused", "TimedOut"} :
       result' = [result EXCEPT ![c] = [result |-> err, reply |-> NoAnswer]]
  /\ UNCHANGED <<link, operation, pending, answer, database, databases, bound>>

\* The instant of a call.  A call that has been given up is answered to no one.
Perform(c) ==
  /\ link[c] = "up" /\ pending[c] # NoOperation
  /\ \E resp \in Replies(pending[c].op, bound[c] # NoDatabase) :
       /\ answer' = [answer EXCEPT ![c] =
                       IF operation[c] = NoOperation THEN NoAnswer
                       ELSE Says(pending[c], resp)]
       /\ databases' = DatabasesAfter(pending[c], resp)
       /\ bound' = BoundAfter(c, pending[c], resp)
  /\ pending' = [pending EXCEPT ![c] = NoOperation]
  /\ UNCHANGED <<link, operation, database, result>>

Finish(c, res) ==
  /\ result' = [result EXCEPT ![c] = [result |-> res, reply |-> answer[c]]]
  /\ database' = [database EXCEPT ![c] = Recorded(operation[c], res, database[c])]
  /\ operation' = [operation EXCEPT ![c] = NoOperation]
  /\ answer' = [answer EXCEPT ![c] = NoAnswer]
  /\ UNCHANGED <<link, databases, bound>>

End(c) ==
  /\ operation[c] # NoOperation /\ answer[c] # NoAnswer
  /\ Finish(c, Result(operation[c].op, answer[c].resp))
  /\ UNCHANGED pending

\* The connection is gone, and the request has not been carried out or its
\* answer is lost.
Lost(c) ==
  /\ operation[c] # NoOperation /\ answer[c] = NoAnswer /\ link[c] = "down"
  /\ \E err \in {"ConnectionClosed", "BrokenPipe"} : Finish(c, err)
  /\ UNCHANGED pending

\* The caller stops waiting; the request may yet be carried out.
GiveUp(c) ==
  /\ operation[c] # NoOperation
  /\ result' = [result EXCEPT ![c] = [result |-> "TimedOut", reply |-> NoAnswer]]
  /\ operation' = [operation EXCEPT ![c] = NoOperation]
  /\ answer' = [answer EXCEPT ![c] = NoAnswer]
  /\ UNCHANGED <<link, pending, database, databases, bound>>

\* Connections end, each with its session and perhaps with its answer.
Break ==
  \E ending \in SUBSET Clients :
    /\ \A c \in ending : link[c] = "up"
    /\ link' = [c \in Clients |-> IF c \in ending THEN "down" ELSE link[c]]
    /\ bound' = [c \in Clients |-> IF c \in ending THEN NoDatabase ELSE bound[c]]
    /\ pending' = [c \in Clients |-> IF c \in ending THEN NoOperation ELSE pending[c]]
    /\ \E kept \in SUBSET ending :
         answer' = [c \in Clients |-> IF c \in ending \ kept THEN NoAnswer ELSE answer[c]]
    /\ UNCHANGED <<operation, database, result, databases>>

Next ==
  \/ \E c \in Clients :
       \/ Open(c) \/ Begin(c) \/ Refuse(c) \/ Perform(c)
       \/ End(c) \/ Lost(c) \/ GiveUp(c)
  \/ Break

Spec == Init /\ [][Next]_vars
=============================================================================

------------------------------ MODULE Protocol ------------------------------
(***************************************************************************)
(* The pure part of the client: which response a public method of Client   *)
(* turns into Ok, which into which Error variant, and what is refused      *)
(* before anything is sent.                                                *)
(*                                                                         *)
(* A response is its variant; of a payload only what the client looks at   *)
(* is kept.  Response::SystemErr is split by the text that `check` searches*)
(* for, Response::QueryResult by the variant of its payload, and a message,*)
(* whichever of the two brings it, by whether a row count can be parsed out*)
(* of it.  "Undecodable" is a body that serde_cbor::from_slice refuses.    *)
(***************************************************************************)

SystemMethods == {"create_database", "use_database", "databases", "help",
                  "reset_server", "shutdown_server", "close"}

DbMethods == {"tables", "execute", "query", "import_csv", "commit"}

Methods == SystemMethods \cup DbMethods

\* Methods taking `self`: the Client is gone when they return.
Consuming == {"shutdown_server", "close"}

\* What expect_message takes: "Imported" and "ImportedOnly" are a SystemMsg and
\* a MessageOnly that hold a row count.
Counts   == {"Imported", "ImportedOnly"}
Messages == {"SystemMsg", "MessageOnly"} \cup Counts

Responses == Messages \cup
  {"Ok", "QuietOk", "Select", "Insert", "ShutdownTrue", "ShutdownFalse",
   "SystemErr", "NotConnectedErr", "QueryExecutionError", "QuietErr"}

Bodies == Responses \cup {"Undecodable"}

-----------------------------------------------------------------------------
(* From a response to the method's result.                                 *)

\* The variants of Error a call can return, with Error::Io split by the
\* io::ErrorKind it carries: a timeout leaves the socket open, a broken pipe
\* and a refused connection do not.
Errors == {"TimedOut", "BrokenPipe", "ConnectionClosed", "Decode",
           "RequestTooLarge", "ResponseTooLarge", "Server", "Query",
           "NotConnected", "Unsupported", "MultipleStatements",
           "UnexpectedResponse", "InvalidArgument", "ServerShutdown"}

Results == {"Ok"} \cup Errors

Check(resp) ==
  CASE resp = "NotConnectedErr"          -> "NotConnected"
    [] resp \in {"SystemErr", "QuietErr"} -> "Server"
    [] resp = "QueryExecutionError"      -> "Query"
    [] resp = "ShutdownFalse"            -> "ServerShutdown"
    [] OTHER                             -> "Ok"

\* Bug: the acknowledgement of a quiet server is not recognised as one.
AcceptedNoQuiet(op) ==
  CASE op \in {"databases", "tables", "help"} -> Messages
    [] op = "import_csv"                      -> Counts
    [] op = "query"                           -> {"Select"}
    [] op = "shutdown_server"                 -> {"ShutdownTrue", "ShutdownFalse"}
    [] OTHER -> Responses

\* The responses for which the method returns Ok, errors `check` has already
\* taken out left aside.
Accepted(op) ==
  CASE op \in {"databases", "tables", "help"} -> Messages
    [] op = "import_csv"                      -> Counts
    [] op = "execute" -> Messages \cup {"Select", "Insert", "Ok", "QuietOk"}
    [] op = "query"                           -> {"Select"}
    [] op = "shutdown_server" -> {"ShutdownTrue", "ShutdownFalse", "QuietOk"}
    [] OTHER -> Responses

\* shutdown_server alone calls round_trip without `check`.
Checked(op, resp) == IF op = "shutdown_server" THEN "Ok" ELSE Check(resp)

Result(op, resp) ==
  IF Checked(op, resp) # "Ok" THEN Checked(op, resp)
  ELSE IF resp \in Accepted(op) THEN "Ok" ELSE "UnexpectedResponse"

-----------------------------------------------------------------------------
(* What is refused before the request is written.                          *)

NameMethods == {"create_database", "use_database", "import_csv"}
SqlMethods  == {"execute", "query"}

\* Statements by what sql::inspect and the size check make of them: "blank" is
\* empty after trimming, "comment" holds nothing but comments, "huge" is a
\* supported statement whose encoding exceeds MAX_REQUEST_BYTES.
Statements == {"blank", "comment", "supported", "unsupported", "multiple", "huge"}

Inspect(sql) ==
  CASE sql \in {"blank", "comment"} -> "InvalidArgument"
    [] sql = "unsupported"          -> "Unsupported"
    [] sql = "multiple"             -> "MultipleStatements"
    [] OTHER                        -> "Ok"

\* Client::execute up to the request: the guard, or without it the bare check
\* for an empty statement.
StatementError(sql, guard) ==
  IF guard THEN Inspect(sql)
  ELSE IF sql = "blank" THEN "InvalidArgument" ELSE "Ok"

-----------------------------------------------------------------------------
(* The server, from what the client and its tests expect of it.            *)

\* Shutdown(false): another client has asked for the shutdown.
Refusals == {"SystemErr", "QuietErr", "ShutdownFalse"}

Acknowledgements(op) ==
  CASE op = "shutdown_server" -> {"ShutdownTrue", "ShutdownFalse", "QuietOk"}
    [] op = "import_csv"      -> {"Imported", "ImportedOnly", "QuietOk"}
    [] op = "tables"          -> {"MessageOnly", "QuietOk"}
    [] op = "query"           -> {"Select", "Insert", "MessageOnly", "QuietOk"}
    [] op = "execute"         -> {"Select", "Insert", "SystemMsg"}
    [] op = "commit"          -> {"Ok", "QuietOk"}
    [] OTHER                  -> {"SystemMsg", "QuietOk"}

\* A database command on a connection without a database is always refused.
Replies(op, connected) ==
  IF op \in DbMethods /\ ~connected THEN {"NotConnectedErr", "QuietErr"}
  ELSE Acknowledgements(op) \cup Refusals
       \cup (IF op \in SqlMethods THEN {"QueryExecutionError"} ELSE {})
=============================================================================

----------------------------- MODULE MCSessions -----------------------------
(* An instance of Sessions for TLC: names are strings, so that trimming shows.*)
EXTENDS SessionsService

MCClients == {"c1", "c2"}
MCDatabases == {"a", "b"}
MCRawNames == {" a ", "b", "  "}
MCTrim == [raw \in MCRawNames |->
             CASE raw = " a " -> "a" [] raw = "b" -> "b" [] OTHER -> ""]

MCResolutions == {<<>>, <<Server>>, <<"elsewhere", Server>>}

Chosen(connect, read, name) ==
  [connect_timeout |-> connect, read_timeout |-> read, write_timeout |-> "none",
   database |-> name]

MCOptions == {NoOptions, Chosen("zero", "none", NoDatabase),
              Chosen("none", "zero", NoDatabase), Chosen("some", "some", " a "),
              Chosen("none", "none", "  ")}

MCOffered == {"create_database", "use_database", "databases", "query",
              "reset_server", "shutdown_server", "close"}

\* One response of each kind these calls tell apart.
MCSpoken == {"SystemMsg", "Select", "ShutdownTrue", "SystemErr", "NotConnectedErr"}
=============================================================================

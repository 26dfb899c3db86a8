------------------------------ MODULE MCClient ------------------------------
(* Instances of Client for TLC: names are strings, so that trimming shows.  *)
EXTENDS ClientClaims

MCDatabases == {"a", "b"}
MCRawNames == {"a", " b ", "  ", "too long"}
MCTrim == [raw \in MCRawNames |->
             CASE raw = "a" -> "a" [] raw = " b " -> "b" [] raw = "  " -> ""
               [] OTHER -> "a"]
MCLongNames == {"too long"}

NoFaults  == {}
HangUps   == {"hangup"}
AllFaults == {"hangup", "undecodable"}
Unset     == {FALSE}
Set       == {TRUE}
EitherWay == BOOLEAN

\* One response of each kind the client tells apart.
Terse == {"QuietOk", "SystemMsg", "Select", "Insert", "ShutdownTrue", "SystemErr",
          "NotConnectedErr"}
Core == {"use_database", "query", "reset_server", "shutdown_server", "close"}

\* A method that can be refused on the spot or answered, and one after which the
\* Client is gone; an answer, a quiet one and an error.
Few   == {"query", "shutdown_server"}
Brief == {"QuietOk", "Select", "NotConnectedErr"}

Fit     == {1}
Outsize == {2, 3}

\* Bodies of which a part may be taken for a length.
LongBodies == {3, 4}
=============================================================================

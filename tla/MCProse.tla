------------------------------ MODULE MCProse ------------------------------
(* Names with blanks around and inside them, and with commas.               *)
EXTENDS Prose

MCCharacters == {"x", "y", " ", ","}
MCTyped == SeqOf({"x", " ", ","}, 3) \cup {<<"y">>, <<" ", "x", " ", "y", " ">>}
MCCounts == {0, 2, 42}
MCTables == {Plain("users"), Numeral(7)}
=============================================================================

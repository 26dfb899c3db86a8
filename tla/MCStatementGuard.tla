-------------------------- MODULE MCStatementGuard --------------------------
(* All short statements over a part of the bytes that are valid UTF-8.     *)
EXTENDS StatementLexer, SequencesExt

\* Every character from 0x80 on takes two bytes here.
Utf8(s) == \A k \in 1 .. Len(s) + 1 :
  (k <= Len(s) /\ s[k] = "cont") <=> (k > 1 /\ s[k - 1] = "lead")

Texts(bytes, n) == {s \in SeqOf(bytes, n) : Utf8(s)}

\* Quotes, comments and terminators around one kind of word.
Punctuated ==
  Texts({"-", "/", "*", ";", "'", "\"", "newline", "S", "lead", "cont"}, 5)
    \cup Texts({"/", "*", ";", "'", "S"}, 6)
    \cup Texts({"-", "newline", ";", "\"", "S"}, 6)

\* Words and terminators.
Worded == Texts({"S", "I", "C", "T", "x", "space", ";", "."}, 5)
MCStatements == Punctuated \cup Worded
=============================================================================

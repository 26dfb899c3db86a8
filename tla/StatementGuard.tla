--------------------------- MODULE StatementGuard ---------------------------
(***************************************************************************)
(* sql::inspect: the guard that classifies a statement before it is sent.  *)
(* `scan` walks the bytes with one index; every branch of its outer loop,  *)
(* and every turn of its inner loops, is an action.                        *)
(*                                                                         *)
(* A byte is what the scan tells apart.  Of the letters four stand for a   *)
(* keyword: a word that is the letter "S" alone is SELECT or WITH, "I" is  *)
(* INSERT, "C" is CREATE and "T" is TABLE; any other word is not a keyword.*)
(* "lead" and "cont" are the bytes from 0x80 on, the first and the further *)
(* ones of a character.  Upper-casing is left out.                         *)
(***************************************************************************)
EXTENDS Integers, Sequences

Letters    == {"S", "I", "C", "T", "x"}
Whitespace == {"space", "newline"}
High       == {"lead", "cont"}
Bytes      == Letters \cup Whitespace \cup High \cup {"-", "/", "*", ";", "'", "\"", "."}

CONSTANT Statements  \* the statements that are inspected, as bytes

ASSUME StatementsAreBytes == Statements \subseteq Seq(Bytes)

VARIABLES
  sql,         \* the statement
  at,          \* which of scan's loops runs, or "done"
  i,           \* the index of the next byte, from 0
  start,       \* where the current word began
  words,       \* the first two words
  terminated,  \* a semicolon has been passed
  result       \* what inspect returns

vars == <<sql, at, i, start, words, terminated, result>>

length == Len(sql)

\* bytes.get(k), with "end" for None.
Byte(k) == IF k < length THEN sql[k + 1] ELSE "end"

Init ==
  /\ sql \in Statements
  /\ at = "outer" /\ i = 0 /\ start = 0 /\ words = <<>>
  /\ terminated = FALSE /\ result = "none"

-----------------------------------------------------------------------------
(* The outer loop.                                                         *)

OpensLine  == Byte(i) = "-" /\ Byte(i + 1) = "-"
OpensBlock == Byte(i) = "/" /\ Byte(i + 1) = "*"
InsignificantHere == OpensLine \/ OpensBlock \/ Byte(i) \in {";", "end"} \cup Whitespace

LineComment ==
  /\ at = "outer" /\ OpensLine
  /\ i' = i + 2 /\ at' = "line"
  /\ UNCHANGED <<sql, start, words, terminated, result>>

BlockComment ==
  /\ at = "outer" /\ OpensBlock
  /\ i' = i + 2 /\ at' = "block"
  /\ UNCHANGED <<sql, start, words, terminated, result>>

Semicolon ==
  /\ at = "outer" /\ Byte(i) = ";"
  /\ terminated' = TRUE /\ i' = i + 1
  /\ UNCHANGED <<sql, at, start, words, result>>

Space ==
  /\ at = "outer" /\ Byte(i) \in Whitespace
  /\ i' = i + 1
  /\ UNCHANGED <<sql, at, start, words, terminated, result>>

\* significant!() after a semicolon.
SecondStatement ==
  /\ at = "outer" /\ ~InsignificantHere /\ terminated
  /\ result' = "MultipleStatements" /\ at' = "done"
  /\ UNCHANGED <<sql, i, start, words, terminated>>

\* A quote or a word begins; a byte that begins neither is passed.
Significant ==
  /\ at = "outer" /\ ~InsignificantHere /\ ~terminated
  /\ at' = CASE Byte(i) = "'"         -> "string"
             [] Byte(i) = "\""        -> "identifier"
             [] Byte(i) \in Letters   -> "word"
             [] OTHER                 -> "outer"
  /\ start' = IF Byte(i) \in Letters THEN i ELSE start
  /\ i' = IF Byte(i) \in Letters THEN i ELSE i + 1
  /\ UNCHANGED <<sql, words, terminated, result>>

-----------------------------------------------------------------------------
(* The inner loops.                                                        *)

InLine ==
  /\ at = "line"
  /\ IF i < length /\ Byte(i) # "newline"
     THEN i' = i + 1 /\ at' = at
     ELSE i' = i /\ at' = "outer"
  /\ UNCHANGED <<sql, start, words, terminated, result>>

\* Bug: one byte of the comment's end is left behind.
InBlockEndsEarly ==
  /\ at = "block"
  /\ IF i < length /\ ~(Byte(i) = "*" /\ Byte(i + 1) = "/")
     THEN i' = i + 1 /\ at' = at
     ELSE i' = (IF i + 1 < length THEN i + 1 ELSE length) /\ at' = "outer"
  /\ UNCHANGED <<sql, start, words, terminated, result>>

\* Bug: an unterminated comment is left two bytes behind the end.
InBlockOverruns ==
  /\ at = "block"
  /\ IF i < length /\ ~(Byte(i) = "*" /\ Byte(i + 1) = "/")
     THEN i' = i + 1 /\ at' = at
     ELSE i' = i + 2 /\ at' = "outer"
  /\ UNCHANGED <<sql, start, words, terminated, result>>

InBlock ==
  /\ at = "block"
  /\ IF i < length /\ ~(Byte(i) = "*" /\ Byte(i + 1) = "/")
     THEN i' = i + 1 /\ at' = at
     ELSE i' = (IF i + 2 < length THEN i + 2 ELSE length) /\ at' = "outer"
  /\ UNCHANGED <<sql, start, words, terminated, result>>

\* Bug: a doubled quote is recognised and not passed.
InStringStays ==
  /\ at = "string"
  /\ IF Byte(i) = "'" /\ Byte(i + 1) # "'" THEN i' = i + 1 /\ at' = "outer"
     ELSE IF Byte(i) = "end" THEN i' = i /\ at' = "outer"
     ELSE i' = (IF Byte(i) = "'" THEN i ELSE i + 1) /\ at' = at
  /\ UNCHANGED <<sql, start, words, terminated, result>>

InString ==
  /\ at = "string"
  /\ IF Byte(i) = "'" /\ Byte(i + 1) # "'" THEN i' = i + 1 /\ at' = "outer"
     ELSE IF Byte(i) = "end" THEN i' = i /\ at' = "outer"
     ELSE i' = (IF Byte(i) = "'" THEN i + 2 ELSE i + 1) /\ at' = at
  /\ UNCHANGED <<sql, start, words, terminated, result>>

InIdentifier ==
  /\ at = "identifier"
  /\ i' = i + 1
  /\ at' = IF i < length /\ Byte(i) # "\"" THEN at ELSE "outer"
  /\ UNCHANGED <<sql, start, words, terminated, result>>

\* sql[start..i], which panics unless both ends lie between two characters.
Slice == SubSeq(sql, start + 1, i)

\* Bug: the test for the further bytes of a character takes the first only.
InWordLeadOnly ==
  /\ at = "word"
  /\ IF Byte(i) \in Letters \cup {"lead"}
     THEN i' = i + 1 /\ UNCHANGED <<at, words>>
     ELSE /\ at' = "outer" /\ i' = i
          /\ words' = IF Len(words) < 2 THEN Append(words, Slice) ELSE words
  /\ UNCHANGED <<sql, start, terminated, result>>

InWord ==
  /\ at = "word"
  /\ IF Byte(i) \in Letters \cup High
     THEN i' = i + 1 /\ UNCHANGED <<at, words>>
     ELSE /\ at' = "outer" /\ i' = i
          /\ words' = IF Len(words) < 2 THEN Append(words, Slice) ELSE words
  /\ UNCHANGED <<sql, start, terminated, result>>

-----------------------------------------------------------------------------
(* The classification, once scan has returned.                             *)

Kinds   == {"Query", "Insert", "CreateTable"}
Results == Kinds \cup {"Unsupported", "InvalidArgument", "MultipleStatements"}

\* Bug: whatever is created is taken for a table.
KindAnyCreate(leading) ==
  IF leading = <<>> THEN "InvalidArgument"
  ELSE CASE leading[1] = <<"S">> -> "Query"
         [] leading[1] = <<"I">> -> "Insert"
         [] leading[1] = <<"C">> ->
              IF Len(leading) = 1 THEN "InvalidArgument" ELSE "CreateTable"
         [] OTHER                -> "Unsupported"

\* The kind of a statement that begins with these words.
Kind(leading) ==
  IF leading = <<>> THEN "InvalidArgument"
  ELSE CASE leading[1] = <<"S">> -> "Query"
         [] leading[1] = <<"I">> -> "Insert"
         [] leading[1] = <<"C">> ->
              IF Len(leading) = 1 THEN "InvalidArgument"
              ELSE IF leading[2] = <<"T">> THEN "CreateTable" ELSE "Unsupported"
         [] OTHER                -> "Unsupported"

Classify ==
  /\ at = "outer" /\ Byte(i) = "end"
  /\ result' = Kind(words) /\ at' = "done"
  /\ UNCHANGED <<sql, i, start, words, terminated>>

Next ==
  \/ LineComment \/ BlockComment \/ Semicolon \/ Space
  \/ SecondStatement \/ Significant
  \/ InLine \/ InBlock \/ InString \/ InIdentifier \/ InWord
  \/ Classify

\* The scan runs on its caller's thread until it returns.
Spec == Init /\ [][Next]_vars /\ WF_vars(Next)

-----------------------------------------------------------------------------
(* Properties.                                                             *)

\* Every variable has its type; the index never passes the end by more than
\* the one step an unterminated identifier makes.
TypeOK ==
  /\ sql \in Seq(Bytes)
  /\ at \in {"outer", "line", "block", "string", "identifier", "word", "done"}
  /\ i \in 0 .. length + 1 /\ start \in 0 .. length
  /\ words \in Seq(Seq(Bytes)) /\ Len(words) <= 2
  /\ terminated \in BOOLEAN
  /\ result \in Results \cup {"none"}

\* No character lies across k: the byte there does not continue one.
Boundary(k) == Byte(k) # "cont"

\* The slice that takes a word out of the statement does not panic: both its
\* ends lie in the statement and between two characters (scan, line 106).
SliceIsSafe ==
  [][at = "word" /\ at' # "word"
       => start <= i /\ i <= length /\ Boundary(start) /\ Boundary(i)]_vars

\* scan returns, on every statement: no loop stands still.
Terminates == <>(at = "done")
=============================================================================

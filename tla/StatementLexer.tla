--------------------------- MODULE StatementLexer ---------------------------
(***************************************************************************)
(* The reference for the guard: which bytes of a statement are its text,   *)
(* defined byte by byte as a lexer's modes, without the guard's index,     *)
(* flags and early return, and what a statement with that text is.         *)
(***************************************************************************)
EXTENDS StatementGuard, FiniteSetsExt

\* The mode of the byte `next` behind `last`, which is read in `mode`.
After(mode, last, next) ==
  CASE mode = "code" ->
         IF last = "-" /\ next = "-" THEN "line"
         ELSE IF last = "/" /\ next = "*" THEN "opening"
         ELSE IF last = "'" THEN "string"
         ELSE IF last = "\"" THEN "identifier" ELSE "code"
    [] mode = "line"       -> IF last = "newline" THEN "code" ELSE "line"
    [] mode = "opening"    -> "block"
    [] mode = "block"      -> IF last = "*" /\ next = "/" THEN "closing" ELSE "block"
    [] mode = "closing"    -> "code"
    [] mode = "string"     -> IF last = "'" THEN "code" ELSE "string"
    [] mode = "identifier" -> IF last = "\"" THEN "code" ELSE "identifier"

\* The mode in which byte k is read (from 0).
Mode[k \in 0 .. length] ==
  IF k = 0 THEN "code" ELSE After(Mode[k - 1], Byte(k - 1), Byte(k))

\* The bytes at which a comment begins.
Opener(k) == Mode[k] = "code" /\ Mode[k + 1] \in {"line", "opening"}

\* The text of the statement: what is neither space, nor comment, nor a
\* terminator.
Text ==
  {k \in 0 .. length - 1 :
     \/ Mode[k] \in {"string", "identifier"}
     \/ /\ Mode[k] = "code" /\ ~Opener(k)
        /\ Byte(k) \notin Whitespace \cup {";"}}

Terminators == {k \in 0 .. length - 1 : Mode[k] = "code" /\ Byte(k) = ";"}

\* The bytes of words: from a letter outside quotes and comments on there are
\* only letters and further characters.
InAWord ==
  {k \in 0 .. length - 1 :
     \E first \in 0 .. k :
       /\ Byte(first) \in Letters
       /\ \A m \in first .. k : Mode[m] = "code" /\ Byte(m) \in Letters \cup High}

\* The bytes at which a word begins, and the word there.
Begins == {k \in InAWord : k - 1 \notin InAWord}
Word(k) == SubSeq(sql, k + 1, Min({e \in k .. length : e \notin InAWord}))

\* The words at the first two of these bytes.
FirstTwo(begins) ==
  LET rest == begins \ {Min(begins)}
  IN IF begins = {} THEN <<>>
     ELSE IF rest = {} THEN <<Word(Min(begins))>>
     ELSE <<Word(Min(begins)), Word(Min(rest))>>

\* The keywords a supported statement begins with.
Supported == [Query |-> <<<<"S">>>>, Insert |-> <<<<"I">>>>,
              CreateTable |-> <<<<"C">>, <<"T">>>>]

\* A statement that ends before it could be told is incomplete.
Classified(leading) ==
  LET kinds == {k \in DOMAIN Supported :
                  SubSeq(leading, 1, Min({Len(leading), Len(Supported[k])}))
                    = Supported[k]}
  IN IF leading \in {<<>>, <<<<"C">>>>} THEN "InvalidArgument"
     ELSE IF kinds = {} THEN "Unsupported" ELSE CHOOSE k \in kinds : TRUE

\* What a statement is: text after a terminator makes it more than one.
Verdict ==
  IF \E k \in Terminators, t \in Text : k < t THEN "MultipleStatements"
  ELSE Classified(FirstTwo(Begins))

\* The guard's single pass, with its early return, gives every statement the
\* verdict of the reference (inspect, scan).
JudgesCorrectly == at = "done" => result = Verdict
=============================================================================

------------------------------- MODULE Prose -------------------------------
(***************************************************************************)
(* Lists and counts that the server sends as prose and the client parses   *)
(* back out: databases(), tables() and import_csv().  The server's side is *)
(* external and worded as in the client's tests.  Names and lists are      *)
(* characters; a prefix and the fixed words of a message are one symbol.   *)
(***************************************************************************)
EXTENDS Integers, SequencesExt, FiniteSetsExt

CONSTANTS
  Characters,  \* what names are made of
  Typed,     \* names as callers write them, sequences of characters
  Counts,    \* numbers of rows a file holds
  Tables,    \* table names, as words of a message
  MaxNames   \* bound on the names there are

ASSUME TypedAreTexts == MaxNames \in Nat /\ Typed \subseteq Seq(Characters)

VARIABLES
  names,  \* the names the server keeps, in its order
  said,   \* what the server's last message was about
  heard   \* what the client made of it

vars == <<names, said, heard>>

Nothing == [about |-> "nothing"]

Init == names = <<>> /\ said = Nothing /\ heard = Nothing

-----------------------------------------------------------------------------
Blank == " "
Comma == ","

\* str::trim.
Trimmed(s) ==
  LET kept == {k \in DOMAIN s : s[k] # Blank}
  IN IF kept = {} THEN <<>> ELSE SubSeq(s, Min(kept), Max(kept))

\* What the next character makes of the pieces so far.
Further(pieces, c) ==
  IF c = Comma THEN Append(pieces, <<>>)
  ELSE [pieces EXCEPT ![Len(pieces)] = Append(@, c)]

\* str::split(','), after k characters.
Pieces(s) ==
  LET pieces[k \in 0 .. Len(s)] ==
        IF k = 0 THEN <<<<>>>> ELSE Further(pieces[k - 1], s[k])
  IN pieces

Split(s) == Pieces(s)[Len(s)]

\* filter(|item| !item.is_empty()), after k items.
Filled(items) ==
  LET kept[k \in 0 .. Len(items)] ==
        IF k = 0 THEN <<>>
        ELSE IF items[k] = <<>> THEN kept[k - 1] ELSE Append(kept[k - 1], items[k])
  IN kept

\* map(str::trim).
TrimmedAll(items) == [k \in DOMAIN items |-> Trimmed(items[k])]

\* strip_prefix(prefix).unwrap_or(message).
Stripped(message, prefix) ==
  IF message # <<>> /\ message[1] = prefix THEN Tail(message) ELSE message

\* Bug: the blank behind a comma stays with the name.
ParseListUntrimmed(message, prefix) ==
  LET items == Split(Stripped(message, prefix)) IN Filled(items)[Len(items)]

ParseList(message, prefix) ==
  LET items == TrimmedAll(Split(Stripped(message, prefix)))
  IN Filled(items)[Len(items)]

\* A word of a message: one that reads as a number, or any other.
Numeral(n) == [kind |-> "number", value |-> n]
Plain(text) == [kind |-> "text", value |-> text]

\* The positions of the words that parse as a number.
Numerals(words) == {k \in DOMAIN words : words[k].kind = "number"}

\* Bug: the last number in the message is taken.
ParseImportedLast(words) ==
  IF Numerals(words) = {} THEN [kind |-> "UnexpectedResponse"]
  ELSE [kind |-> "Ok", rows |-> words[Max(Numerals(words))].value]

\* The first word that is a number.
ParseImported(words) ==
  IF Numerals(words) = {} THEN [kind |-> "UnexpectedResponse"]
  ELSE [kind |-> "Ok", rows |-> words[Min(Numerals(words))].value]

-----------------------------------------------------------------------------
(* The server's wording, external.                                         *)

\* The first k names with a comma and a blank between them.
Joined(list) ==
  LET text[k \in 0 .. Len(list)] ==
        IF k = 0 THEN <<>> ELSE IF k = 1 THEN list[1]
        ELSE text[k - 1] \o <<Comma, Blank>> \o list[k]
  IN text

Listing(prefix, list) == <<prefix, Blank>> \o Joined(list)[Len(list)]

\* The count may be missing, as in the client's test.
Counting(count, table) ==
  <<Plain("Imported")>> \o count \o <<Plain("rows"), Plain("into"), Plain("table"), table>>

-----------------------------------------------------------------------------
\* create_database, whose name require_name has trimmed.
Create(typed) ==
  /\ Len(names) < MaxNames /\ Trimmed(typed) # <<>> /\ Trimmed(typed) \notin ToSet(names)
  /\ names' = Append(names, Trimmed(typed))
  /\ UNCHANGED <<said, heard>>

\* databases() and tables(), which differ in the prefix alone.
List(prefix) ==
  /\ said' = [about |-> "names", names |-> names]
  /\ heard' = [about |-> "names", names |-> ParseList(Listing(prefix, names), prefix)]
  /\ UNCHANGED names

ImportCsv(count, table) ==
  /\ said' = [about |-> "rows", count |-> count, table |-> table]
  /\ heard' = [about |-> "rows", result |-> ParseImported(Counting(count, table))]
  /\ UNCHANGED names

Next ==
  \/ \E typed \in Typed : Create(typed)
  \/ \E prefix \in {"Databases:", "Tables:"} : List(prefix)
  \/ \E count \in {<<>>} \cup {<<Numeral(n)>> : n \in Counts}, table \in Tables :
       ImportCsv(count, table)

Spec == Init /\ [][Next]_vars

-----------------------------------------------------------------------------
\* The names come back as the server keeps them, in its order, none of them
\* blank, split or lost, as long as none of them holds a comma; a list without
\* names has no entries (parse_list).
ListsNames ==
  said.about = "names" /\ (\A k \in DOMAIN said.names : Comma \notin ToSet(said.names[k]))
    => heard = said

\* A count comes back as itself, even where the name of the table that follows
\* it in the message reads as a number; without either there is an error
\* (parse_imported).
CountsRows ==
  said.about = "rows" =>
    /\ said.count # <<>>
         => heard.result = [kind |-> "Ok", rows |-> said.count[1].value]
    /\ said.count = <<>> /\ said.table.kind # "number"
         => heard.result = [kind |-> "UnexpectedResponse"]
=============================================================================

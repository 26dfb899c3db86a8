---------------------------- MODULE MCResultSet ----------------------------
(* Small replies: many schemas with a plain row, rows of every width for a   *)
(* few schemas, and one column with a value of every type and at every edge. *)
EXTENDS ResultSet, SequencesExt

MCNoDatum == 999

\* i64 is wider than every value, as in the code; the others are cut down.
MCBits == [T \in IntegerTypes |->
             CASE T \in {"i64", "u64", "isize", "usize"} -> 5
               [] T \in {"i32", "u32"} -> 4
               [] T \in {"i16", "u16"} -> 3
               [] OTHER -> 2]

Cell(type, datum, width) == [type |-> type, datum |-> datum, width |-> width]

One  == Cell("BIGINT", 1, 1)
Long == Cell("VARCHAR", 100, 5)

Plain == {<<"id">>, <<"u", "id">>, <<"o", "id">>, <<"n">>}

MCNameWidth == [name \in Plain |-> IF Len(name) = 1 THEN 2 ELSE 4]

\* Cells whose integers lie at and around the edges of every type.
Edges ==
  {Cell("BIGINT", n, 1) : n \in {-16, -9, -8, -5, -4, -3, -2, -1, 0, 1, 2, 3, 4, 7, 8, 15}}
    \cup {Cell("INT", n, 1) : n \in {-8, 7}} \cup {Cell("SMALLINT", n, 1) : n \in {-4, 3}}
    \cup {Cell("CHAR", 101, 3), Cell("DECIMAL", 5, 4), Cell("DATE", 6, 10),
          Cell("BOOL", 102, 4), Cell("NULL", MCNoDatum, 4), Long}

MCCells == Edges \cup {One} \cup {Cell("INT", c, c) : c \in 1 .. 3}

Schemas(n) == SeqOf(Plain, n)

MCResults ==
  {[columns |-> names, rows |-> <<[c \in DOMAIN names |-> Cell("INT", c, c)]>>] :
     names \in Schemas(3)}
  \cup {[columns |-> names, rows |-> given] :
          names \in {<<>>, <<<<"id">>>>, <<<<"u", "id">>, <<"n">>>>},
          given \in SeqOf(SeqOf({One, Long}, 3), 2)}
  \cup {[columns |-> <<<<"n">>>>, rows |-> <<<<cell>>>>] : cell \in Edges}

MCNames == {<<"id">>, <<"u", "id">>, <<"n">>, <<"u">>}
MCIndices == 0 .. 3
=============================================================================

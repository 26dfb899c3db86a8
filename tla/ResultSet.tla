----------------------------- MODULE ResultSet -----------------------------
(***************************************************************************)
(* A result set in the hands of its reader: Rows as `into_outcome` builds  *)
(* them from a decoded reply, a Row, the resolution of a column and the    *)
(* table Display draws.  Nothing makes the server send rows that are as    *)
(* wide as their schema, so a panic is an outcome like any other.          *)
(*                                                                         *)
(* A column name is the sequence of its parts between dots; a cell has a   *)
(* width, the number of characters of its text.                            *)
(***************************************************************************)
EXTENDS Sequences, FiniteSets, Conversion

CONSTANTS
  Attributes, \* the full names of columns
  Cells,    \* the values of rows, each with the width of its text
  Results,  \* replies: the names of the columns and the rows of cells
  Names,    \* names by which columns are asked for
  Indices,  \* positions by which they are asked for, from 0
  Asked,    \* the targets they are read into
  NameWidth \* the number of characters of a full name

ASSUME ShapesAssumption ==
  /\ Results \subseteq [columns : Seq(Attributes), rows : Seq(Seq(Cells))]
  /\ \A cell \in Cells :
       /\ cell.type \in SqlTypes /\ cell.width \in Nat
       /\ cell.type \in SqlIntegers => cell.datum \in Int
       /\ cell.type = "NULL" => cell.datum = NoDatum
  /\ NameWidth \in [Attributes -> Nat]
  /\ Indices \subseteq Nat /\ Asked \subseteq Targets

VARIABLES
  columns,  \* Rows.schema, by the names of its attributes
  rows,     \* Rows.rows
  row,      \* the position of the row in hand, from 1; 0 when there is none
  request,  \* what has been asked for last
  outcome   \* and what came of it

vars == <<columns, rows, row, request, outcome>>

NoRequest == [op |-> "none"]

Init ==
  /\ \E reply \in Results : columns = reply.columns /\ rows = reply.rows
  /\ row = 0 /\ request = NoRequest /\ outcome = [kind |-> "None"]

-----------------------------------------------------------------------------
(* Resolving a column.  Positions are counted from 1, as TLA+ does; 0 is    *)
(* Option::None.                                                            *)

Unqualified(name) == <<name[Len(name)]>>

\* Bug: of several columns with this last part the first is taken.
IndexOfFirst(name) ==
  LET full == {c \in 1 .. Len(columns) : columns[c] = name}
      part == {c \in 1 .. Len(columns) : Unqualified(columns[c]) = name}
      first(s) == CHOOSE c \in s : \A d \in s : c <= d
  IN IF full # {} THEN first(full) ELSE IF part # {} THEN first(part) ELSE 0

\* `position` by the full name: what it has found after c columns.
Position(name) ==
  LET position[c \in 0 .. Len(columns)] ==
        IF c = 0 THEN 0
        ELSE IF position[c - 1] = 0 /\ columns[c] = name THEN c
        ELSE position[c - 1]
  IN position

\* The loop over the last parts: what it has found after c columns, and whether
\* it has returned None.
Loop(name) ==
  LET loop[c \in 0 .. Len(columns)] ==
        IF c = 0 THEN [found |-> 0, returned |-> FALSE]
        ELSE IF loop[c - 1].returned \/ Unqualified(columns[c]) # name
             THEN loop[c - 1]
        ELSE IF loop[c - 1].found # 0 THEN [found |-> 0, returned |-> TRUE]
        ELSE [found |-> c, returned |-> FALSE]
  IN loop

\* Schema::index_of.
IndexOf(name) ==
  IF Position(name)[Len(columns)] # 0 THEN Position(name)[Len(columns)]
  ELSE Loop(name)[Len(columns)].found

ByName(name) == [by |-> "name", name |-> name]
ByIndex(k)   == [by |-> "index", index |-> k]
Columns      == {ByName(n) : n \in Names} \cup {ByIndex(k) : k \in Indices}

\* Bug: the position one past the last column is let through.
IndexInOffByOne(column) ==
  IF column.by = "index"
  THEN IF column.index <= Len(columns) THEN [kind |-> "Ok", at |-> column.index + 1]
       ELSE [kind |-> "ColumnOutOfRange"]
  ELSE IF IndexOf(column.name) # 0 THEN [kind |-> "Ok", at |-> IndexOf(column.name)]
       ELSE [kind |-> "UnknownColumn"]

\* ColumnIndex::index_in, for &str and usize: a position or an error.
IndexIn(column) ==
  IF column.by = "index"
  THEN IF column.index < Len(columns) THEN [kind |-> "Ok", at |-> column.index + 1]
       ELSE [kind |-> "ColumnOutOfRange"]
  ELSE IF IndexOf(column.name) # 0 THEN [kind |-> "Ok", at |-> IndexOf(column.name)]
       ELSE [kind |-> "UnknownColumn"]

-----------------------------------------------------------------------------
(* Rows and Row.                                                           *)

Panic  == [kind |-> "panic"]
Values == rows[row]

\* Rows never change, so that nothing a read yields depends on an earlier one:
\* one read is made of every row taken.
Ready == request.op \in {"none", "row"}

Ask(what, result) ==
  request' = what /\ outcome' = result /\ UNCHANGED <<columns, rows>>

\* Bug: the position of the row is not checked.
TakeRowUnchecked(k) ==
  /\ row' = k
  /\ Ask([op |-> "row"], [kind |-> "Row"])

\* RowIter::next and Rows::get, which find no row past the last one.
TakeRow(k) ==
  /\ row' = IF k \in DOMAIN rows THEN k ELSE 0
  /\ Ask([op |-> "row"], [kind |-> IF k \in DOMAIN rows THEN "Row" ELSE "None"])

\* self.values[index], which panics past the end of the row.
ValueAt(column) ==
  IF IndexIn(column).kind # "Ok" THEN IndexIn(column)
  ELSE IF IndexIn(column).at > Len(Values) THEN Panic
  ELSE [kind |-> "Ok", datum |-> Values[IndexIn(column).at].datum]

Got(column, T, optional) ==
  IF ValueAt(column).kind # "Ok" THEN ValueAt(column)
  ELSE FromValue(T, optional, Values[IndexIn(column).at])

Get(column, T, optional) ==
  /\ Ready /\ row # 0 /\ row' = row
  /\ Ask([op |-> "get", column |-> column, target |-> T, optional |-> optional],
         Got(column, T, optional))

Value(column) ==
  /\ Ready /\ row # 0 /\ row' = row
  /\ Ask([op |-> "value", column |-> column], ValueAt(column))

\* The Index implementations: `expect` on what Row::value returns.
Expect(result) == IF result.kind = "Ok" THEN result ELSE Panic

Subscript(column) ==
  /\ Ready /\ row # 0 /\ row' = row
  /\ Ask([op |-> "index", column |-> column], Expect(ValueAt(column)))

-----------------------------------------------------------------------------
(* Display.                                                                *)

Max2(a, b) == IF a >= b THEN a ELSE b

\* Bug: a column is as wide as its widest cell, whatever its name.
WidthsOfCells ==
  [c \in 1 .. Len(columns) |->
     LET cells == {rows[r][c].width : r \in {q \in DOMAIN rows : c <= Len(rows[q])}}
     IN IF cells = {} THEN 0 ELSE CHOOSE w \in cells : \A v \in cells : v <= w]

\* The width of a column: that of its name or of its widest cell.
Widths ==
  [c \in 1 .. Len(columns) |->
     LET cells == {rows[r][c].width : r \in {q \in DOMAIN rows : c <= Len(rows[q])}}
         widest == IF cells = {} THEN 0
                   ELSE CHOOSE w \in cells : \A v \in cells : v <= w
     IN Max2(widest, NameWidth[columns[c]])]

\* A line, by the widths of its cells: `format!` pads a text to a width and
\* leaves a longer one as it is.
Line(texts) == [c \in DOMAIN texts |-> Max2(Widths[c], texts[c]) + 2]

Header == Line([c \in DOMAIN columns |-> NameWidth[columns[c]]])
Body   == [r \in DOMAIN rows |-> Line([c \in DOMAIN rows[r] |-> rows[r][c].width])]

\* widths[i] panics for a cell to which there is no column.
Drawn ==
  IF columns = <<>> THEN [kind |-> "Table", header |-> <<>>, body |-> <<>>]
  ELSE IF \E r \in DOMAIN rows : Len(rows[r]) > Len(columns) THEN Panic
  ELSE [kind |-> "Table", header |-> Header, body |-> Body]

Display ==
  /\ Ready /\ row' = row
  /\ Ask([op |-> "display"], Drawn)

Next ==
  \/ \E k \in {row + 1, 1, Len(rows) + 1} : TakeRow(k)
  \/ \E column \in Columns :
       \/ \E T \in Asked, optional \in BOOLEAN : Get(column, T, optional)
       \/ Value(column) \/ Subscript(column)
  \/ Display

Spec == Init /\ [][Next]_vars

-----------------------------------------------------------------------------
(* Properties.                                                             *)

\* A row is in hand only if there is one, and every outcome is one of these.
TypeOK ==
  /\ row \in 0 .. Len(rows)
  /\ outcome.kind \in {"None", "Row", "Ok", "Conversion", "UnknownColumn",
                       "ColumnOutOfRange", "Table", "panic"}

\* The columns a name stands for: those with the full name, or else those with
\* it as their last part.
Named(name) ==
  LET full == {c \in DOMAIN columns : columns[c] = name}
      part == {c \in DOMAIN columns : name = <<columns[c][Len(columns[c])]>>}
  IN IF full # {} THEN full ELSE part

Qualifies(name) == \A c \in Named(name) : columns[c] # name

\* A name is resolved whenever it is unambiguous or in full, to one of the
\* columns it stands for; and never when it could be the last part of several
\* (Schema::index_of).
NamesResolve ==
  \A name \in Names :
    IF Named(name) = {} \/ (Qualifies(name) /\ Cardinality(Named(name)) > 1)
    THEN IndexOf(name) = 0
    ELSE /\ IndexOf(name) \in Named(name)
         /\ \A c \in Named(name) : IndexOf(name) <= c

\* What a value read into a type has to come out as: itself, if the type can
\* hold it, and NULL only as the None of an Option, or as a Value.
Expected(cell, T, optional) ==
  IF cell.type = "NULL"
  THEN IF optional \/ T \in {"Value", "&Value"} THEN {cell.datum} ELSE {}
  ELSE IF T \in IntegerTypes
       THEN {n \in Holds(T) : cell.type \in SqlIntegers /\ n = cell.datum}
       ELSE IF cell.type \in Readable(T) THEN {cell.datum} ELSE {}

\* Row::get yields the datum of the column asked for, exactly when the type
\* asked for can hold it, and an error, never another number, otherwise
\* (Row::get, FromValue).
GetsWhatIsThere ==
  request.op = "get" /\ IndexIn(request.column).kind = "Ok"
    /\ IndexIn(request.column).at <= Len(Values)
  => LET expected == Expected(Values[IndexIn(request.column).at],
                              request.target, request.optional)
     IN IF expected = {} THEN outcome.kind = "Conversion"
        ELSE outcome.kind = "Ok" /\ outcome.datum \in expected

\* Nothing panics but the subscript of a column that does not exist, a read of
\* a row that is itself narrower than the schema, and the drawing of a table of
\* which some row is wider: a row as wide as the schema is read safely whatever
\* the others are, and rows that end early are drawn (Row::get, Row::value,
\* Index, Display).
OnlySubscriptsPanic ==
  outcome = Panic =>
    \/ request.op = "index" /\ IndexIn(request.column).kind # "Ok"
    \/ request.op \in {"get", "value", "index"} /\ Len(Values) < Len(columns)
    \/ request.op = "display" /\ \E r \in DOMAIN rows : Len(rows[r]) > Len(columns)

\* Every line of the table has its bars under those of the header: "prints an
\* aligned table" (lib.rs:38, Display).
Aligned ==
  outcome.kind = "Table" =>
    \A r \in DOMAIN outcome.body : \A c \in DOMAIN outcome.body[r] :
      outcome.body[r][c] = outcome.header[c]
=============================================================================

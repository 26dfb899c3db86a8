--------------------------- MODULE ResultSetProofs ---------------------------
(* Proofs about ResultSet, for replies of any size and shape: the column a   *)
(* name resolves to, what a read yields and the lines of the table.          *)
EXTENDS ResultSet, NatFacts, FiniteSetTheorems

\* A reply, whatever its size; its rows may be of any width.
Shape == columns \in Seq(Attributes) /\ rows \in Seq(Seq(Cells))

-----------------------------------------------------------------------------
(* Resolving a column.                                                     *)

\* One turn of `position` after another.
LEMMA PositionTurns ==
  ASSUME Shape, NEW name
  PROVE  Position(name) =
           [c \in 0 .. Len(columns) |->
              IF c = 0 THEN 0
              ELSE IF Position(name)[c - 1] = 0 /\ columns[c] = name THEN c
              ELSE Position(name)[c - 1]]
<1> DEFINE n == Len(columns)
           turn == [c \in 1 .. n |->
                      [p \in Nat |-> IF p = 0 /\ columns[c] = name THEN c ELSE p]]
<1>1. n \in Nat
  BY DEF Shape
<1>2. turn \in [1 .. n -> [Nat -> Nat]]
  BY <1>1
<1>3. PICK f \in [0 .. n -> Nat] : Runs(f, n, 0, turn)
  <2>1. 0 \in Nat
    OBVIOUS
  <2> HIDE DEF n, turn
  <2> QED
    BY <1>1, <1>2, <2>1, LoopExists, Zenon
<1>4. ASSUME NEW c \in 1 .. n
      PROVE  f[c] = IF f[c - 1] = 0 /\ columns[c] = name THEN c ELSE f[c - 1]
  <2>1. f[c - 1] \in Nat
    BY <1>1
  <2>2. turn[c][f[c - 1]]
          = IF f[c - 1] = 0 /\ columns[c] = name THEN c ELSE f[c - 1]
    BY <2>1
  <2> HIDE DEF turn
  <2> QED
    BY <1>3, <2>2 DEF Runs
<1>5. f = [c \in 0 .. n |-> IF c = 0 THEN 0
                            ELSE IF f[c - 1] = 0 /\ columns[c] = name THEN c
                            ELSE f[c - 1]]
  <2> HIDE DEF turn
  <2>1. \A c \in 0 .. n : c = 0 \/ c \in 1 .. n
    BY <1>1
  <2>2. \A c \in 0 .. n : f[c] = IF c = 0 THEN 0
                                 ELSE IF f[c - 1] = 0 /\ columns[c] = name THEN c
                                 ELSE f[c - 1]
    BY <1>3, <1>4, <2>1 DEF Runs
  <2> QED
    BY <2>2
<1> QED
  BY <1>5, Zenon DEF Position

\* After c columns `position` has found the first of them with the full name.
LEMMA PositionFinds ==
  ASSUME Shape, NEW name, NEW c \in 0 .. Len(columns)
  PROVE  /\ Position(name)[c] \in 0 .. c
         /\ Position(name)[c] = 0 => \A d \in 1 .. c : columns[d] # name
         /\ Position(name)[c] # 0 =>
              /\ columns[Position(name)[c]] = name
              /\ \A d \in 1 .. c : columns[d] = name => Position(name)[c] <= d
<1> DEFINE p == Position(name)
           Found(e) == /\ p[e] \in 0 .. e
                       /\ p[e] = 0 => \A d \in 1 .. e : columns[d] # name
                       /\ p[e] # 0 =>
                            /\ columns[p[e]] = name
                            /\ \A d \in 1 .. e : columns[d] = name => p[e] <= d
           H == {e \in 0 .. Len(columns) : Found(e)}
<1>1. Len(columns) \in Nat
  BY DEF Shape
<1>2. \A e \in 0 .. Len(columns) :
        p[e] = IF e = 0 THEN 0
               ELSE IF p[e - 1] = 0 /\ columns[e] = name THEN e ELSE p[e - 1]
  <2>1. p = [e \in 0 .. Len(columns) |->
               IF e = 0 THEN 0
               ELSE IF p[e - 1] = 0 /\ columns[e] = name THEN e ELSE p[e - 1]]
    BY PositionTurns, Zenon
  <2> HIDE DEF p
  <2> QED
    BY <2>1
<1> HIDE DEF p
<1>3. 0 \in H
  <2>1. 0 \in 0 .. Len(columns)
    BY <1>1
  <2>2. p[0] = 0
    BY <1>2, <2>1, Zenon
  <2>3. Found(0)
    BY <2>2
  <2> QED
    BY <2>1, <2>3
<1>4. ASSUME NEW e \in 1 .. Len(columns), e - 1 \in H PROVE e \in H
  <2>1. e \in 0 .. Len(columns) /\ e # 0 /\ Found(e - 1)
    BY <1>1, <1>4
  <2>2. p[e] = IF p[e - 1] = 0 /\ columns[e] = name THEN e ELSE p[e - 1]
    BY <1>2, <2>1
  <2>3. \A d \in 1 .. e : d = e \/ d \in 1 .. e - 1
    BY <1>1
  <2>4. Found(e)
    <3>1. CASE p[e - 1] = 0 /\ columns[e] = name
      <4>1. p[e] = e /\ \A d \in 1 .. e - 1 : columns[d] # name
        BY <2>1, <2>2, <3>1
      <4> QED
        BY <1>1, <2>1, <2>3, <3>1, <4>1
    <3>2. CASE p[e - 1] = 0 /\ columns[e] # name
      <4>1. p[e] = 0 /\ \A d \in 1 .. e - 1 : columns[d] # name
        BY <2>1, <2>2, <3>2
      <4> QED
        BY <1>1, <2>1, <2>3, <3>2, <4>1
    <3>3. CASE p[e - 1] # 0
      <4>1. p[e] = p[e - 1] /\ p[e - 1] \in 1 .. e - 1
        BY <1>1, <2>1, <2>2, <3>3
      <4>2. \A d \in 1 .. e - 1 : columns[d] = name => p[e] <= d
        BY <2>1, <3>3, <4>1
      <4>3. p[e] <= e /\ columns[p[e]] = name
        BY <1>1, <2>1, <3>3, <4>1
      <4> QED
        BY <1>1, <2>3, <3>3, <4>1, <4>2, <4>3
    <3> QED
      BY <3>1, <3>2, <3>3
  <2> QED
    BY <2>1, <2>4
<1>5. \A e \in 0 .. Len(columns) : e \in H
  <2> HIDE DEF H
  <2> QED
    BY <1>1, <1>3, <1>4, Turns
<1> QED
  BY <1>5 DEF p

\* What the loop over the last parts makes of column c.
Turn(name, c, state) ==
  IF state.returned \/ Unqualified(columns[c]) # name THEN state
  ELSE IF state.found # 0 THEN [found |-> 0, returned |-> TRUE]
  ELSE [found |-> c, returned |-> FALSE]

\* One turn of the loop over the last parts after another.
LEMMA LoopTurns ==
  ASSUME Shape, NEW name
  PROVE  /\ Loop(name)[0] = [found |-> 0, returned |-> FALSE]
         /\ \A c \in 1 .. Len(columns) :
              Loop(name)[c] = Turn(name, c, Loop(name)[c - 1])
<1> DEFINE n == Len(columns)
           T == [found : Nat, returned : BOOLEAN]
           start == [found |-> 0, returned |-> FALSE]
           turn == [c \in 1 .. n |-> [state \in T |-> Turn(name, c, state)]]
<1>1. n \in Nat
  BY DEF Shape
<1>2. turn \in [1 .. n -> [T -> T]]
  <2>1. \A c \in 1 .. n : \A state \in T : Turn(name, c, state) \in T
    BY <1>1 DEF Turn
  <2> HIDE DEF n, T
  <2> QED
    BY <2>1
<1>3. PICK f \in [0 .. n -> T] : Runs(f, n, start, turn)
  <2>1. start \in T
    OBVIOUS
  <2> HIDE DEF n, T, start, turn
  <2> QED
    BY <1>1, <1>2, <2>1, LoopExists, Zenon
<1>4. ASSUME NEW c \in 1 .. n
      PROVE  f[c] = Turn(name, c, f[c - 1])
  <2>1. f[c - 1] \in T
    <3> HIDE DEF T
    <3> QED
      BY <1>1
  <2>2. turn[c][f[c - 1]] = Turn(name, c, f[c - 1])
    <3> HIDE DEF T
    <3> QED
      BY <2>1
  <2> HIDE DEF turn
  <2> QED
    BY <1>3, <2>2 DEF Runs
<1>5. f = [c \in 0 .. n |->
             IF c = 0 THEN [found |-> 0, returned |-> FALSE]
             ELSE IF f[c - 1].returned \/ Unqualified(columns[c]) # name
                  THEN f[c - 1]
             ELSE IF f[c - 1].found # 0 THEN [found |-> 0, returned |-> TRUE]
             ELSE [found |-> c, returned |-> FALSE]]
  <2> HIDE DEF turn, T
  <2>1. \A c \in 0 .. n : c = 0 \/ c \in 1 .. n
    BY <1>1
  <2>2. f[0] = [found |-> 0, returned |-> FALSE]
    BY <1>3 DEF Runs
  <2>3. \A c \in 0 .. n :
          f[c] = IF c = 0 THEN [found |-> 0, returned |-> FALSE]
                 ELSE IF f[c - 1].returned \/ Unqualified(columns[c]) # name
                      THEN f[c - 1]
                 ELSE IF f[c - 1].found # 0 THEN [found |-> 0, returned |-> TRUE]
                 ELSE [found |-> c, returned |-> FALSE]
    <3> TAKE c \in 0 .. n
    <3> HIDE DEF n, start
    <3>1. CASE c = 0
      BY <2>2, <3>1, Zenon
    <3>2. CASE c \in 1 .. n
      <4>1. c # 0
        BY <1>1, <3>2
      <4>2. f[c] = Turn(name, c, f[c - 1])
        BY <1>4, <3>2
      <4> QED
        BY <4>1, <4>2, Zenon DEF Turn
    <3> QED
      BY <2>1, <3>1, <3>2
  <2> HIDE DEF n
  <2> QED
    BY <2>3
<1>6. Loop(name) = [c \in 0 .. n |->
             IF c = 0 THEN [found |-> 0, returned |-> FALSE]
             ELSE IF Loop(name)[c - 1].returned \/ Unqualified(columns[c]) # name
                  THEN Loop(name)[c - 1]
             ELSE IF Loop(name)[c - 1].found # 0 THEN [found |-> 0, returned |-> TRUE]
             ELSE [found |-> c, returned |-> FALSE]]
  BY <1>5, Zenon DEF Loop
<1>7. 0 \in 0 .. n /\ \A c \in 1 .. n : c \in 0 .. n /\ c # 0
  BY <1>1
<1> QED
  <2> HIDE DEF n, T, start, turn
  <2>1. Loop(name)[0] = [found |-> 0, returned |-> FALSE]
    BY <1>6, <1>7, Zenon
  <2>2. ASSUME NEW c \in 1 .. n
        PROVE  Loop(name)[c] = Turn(name, c, Loop(name)[c - 1])
    BY <1>6, <1>7, Zenon DEF Turn
  <2> QED
    BY <2>1, <2>2 DEF n

\* The columns with this last part.
Parts(name) == {d \in DOMAIN columns : Unqualified(columns[d]) = name}

\* After c columns the loop has found the only one of them with this last part,
\* or has returned None since there were two.
LEMMA LoopFinds ==
  ASSUME Shape, NEW name
  PROVE  LET end == Loop(name)[Len(columns)]
         IN /\ end.found \in 0 .. Len(columns)
            /\ end.found # 0 => Parts(name) = {end.found}
            /\ end.found = 0 =>
                 \/ Parts(name) = {}
                 \/ \E a, b \in Parts(name) : a # b
<1> DEFINE s == Loop(name)
           Some(e) == {d \in 1 .. e : Unqualified(columns[d]) = name}
           Found(e) == /\ s[e] \in [found : Nat, returned : BOOLEAN]
                       /\ s[e].found <= e
                       /\ s[e].returned => s[e].found = 0
                       /\ s[e].found # 0 => Some(e) = {s[e].found}
                       /\ s[e].found = 0 =>
                            IF s[e].returned THEN \E a, b \in Some(e) : a # b
                            ELSE Some(e) = {}
           H == {e \in 0 .. Len(columns) : Found(e)}
<1>1. Len(columns) \in Nat /\ DOMAIN columns = 1 .. Len(columns)
  BY DEF Shape
<1>2. /\ s[0] = [found |-> 0, returned |-> FALSE]
      /\ \A e \in 1 .. Len(columns) : s[e] = Turn(name, e, s[e - 1])
  BY LoopTurns
<1> HIDE DEF s
<1>3. 0 \in H
  <2>1. Some(0) = {}
    OBVIOUS
  <2>2. Found(0)
    BY <1>2, <2>1
  <2> QED
    BY <1>1, <2>2
<1>4. ASSUME NEW e \in 1 .. Len(columns), e - 1 \in H PROVE e \in H
  <2>1. e \in 0 .. Len(columns) /\ e \in Nat /\ e # 0 /\ Found(e - 1)
    BY <1>1, <1>4
  <2>2. s[e] = Turn(name, e, s[e - 1])
    BY <1>2
  <2>3. Some(e) = IF Unqualified(columns[e]) = name THEN Some(e - 1) \cup {e}
                  ELSE Some(e - 1)
    BY <1>1
  <2>4. \A d \in Some(e - 1) : d # e
    BY <1>1
  <2> DEFINE last == s[e - 1]
  <2>5. Found(e)
    <3>1. CASE last.returned \/ Unqualified(columns[e]) # name
      <4>1. s[e] = last
        BY <2>2, <3>1 DEF Turn
      <4>2. CASE Unqualified(columns[e]) # name
        <5>1. Some(e) = Some(e - 1)
          BY <2>3, <4>2
        <5> HIDE DEF Some
        <5> QED
          BY <2>1, <4>1, <5>1
      <4>3. CASE last.returned
        <5>1. last.found = 0 /\ \E x, y \in Some(e - 1) : x # y
          BY <2>1, <4>3
        <5>2. Some(e - 1) \subseteq Some(e)
          BY <2>3
        <5> HIDE DEF Some
        <5> QED
          BY <2>1, <4>1, <4>3, <5>1, <5>2
      <4> QED
        BY <3>1, <4>2, <4>3
    <3>2. CASE ~last.returned /\ Unqualified(columns[e]) = name /\ last.found # 0
      <4>1. s[e] = [found |-> 0, returned |-> TRUE]
        BY <2>2, <3>2 DEF Turn
      <4>2. Some(e) = {last.found, e} /\ last.found # e
        BY <2>1, <2>3, <2>4, <3>2
      <4> HIDE DEF Some
      <4> QED
        BY <2>1, <4>1, <4>2
    <3>3. CASE ~last.returned /\ Unqualified(columns[e]) = name /\ last.found = 0
      <4>1. s[e] = [found |-> e, returned |-> FALSE]
        BY <2>2, <3>3 DEF Turn
      <4>2. Some(e) = {e}
        BY <2>1, <2>3, <3>3
      <4> HIDE DEF Some
      <4> QED
        BY <2>1, <4>1, <4>2
    <3> QED
      BY <3>1, <3>2, <3>3
  <2> QED
    BY <2>1, <2>5
<1>5. \A e \in 0 .. Len(columns) : e \in H
  <2> HIDE DEF H
  <2> QED
    BY <1>1, <1>3, <1>4, Turns
<1>6. Found(Len(columns)) /\ Some(Len(columns)) = Parts(name)
  BY <1>1, <1>5 DEF Parts
<1> HIDE DEF Some
<1> QED
  BY <1>1, <1>6 DEF s

\* Where a name resolves to (Schema::index_of): the first column with the full
\* name, or else the only one with it as the last part.
LEMMA Resolves ==
  ASSUME Shape, NEW name
  PROVE  /\ IndexOf(name) \in 0 .. Len(columns)
         /\ IF Named(name) = {} \/ (Qualifies(name) /\ Cardinality(Named(name)) > 1)
            THEN IndexOf(name) = 0
            ELSE /\ IndexOf(name) \in Named(name)
                 /\ \A c \in Named(name) : IndexOf(name) <= c
<1> DEFINE n == Len(columns)
           full == {c \in DOMAIN columns : columns[c] = name}
           p == Position(name)[n]
           end == Loop(name)[n]
<1>1. n \in Nat /\ DOMAIN columns = 1 .. n /\ n \in 0 .. n
  BY DEF Shape
<1>2. /\ p \in 0 .. n
      /\ p = 0 => full = {}
      /\ p # 0 => p \in full /\ \A d \in full : p <= d
  BY <1>1, PositionFinds
<1>3. /\ end.found \in 0 .. n
      /\ end.found # 0 => Parts(name) = {end.found}
      /\ end.found = 0 => Parts(name) = {} \/ \E a, b \in Parts(name) : a # b
  BY LoopFinds
<1>4. IndexOf(name) = IF p # 0 THEN p ELSE end.found
  BY DEF IndexOf
<1>5. Named(name) = IF full # {} THEN full ELSE Parts(name)
  BY DEF Named, Parts, Unqualified
<1> HIDE DEF p, end
<1>6. CASE full # {}
  <2>1. Named(name) = full /\ p # 0 /\ IndexOf(name) = p
    BY <1>2, <1>4, <1>5, <1>6
  <2>2. ~Qualifies(name)
    BY <1>6, <2>1 DEF Qualifies
  <2> QED
    BY <1>2, <1>6, <2>1, <2>2
<1>7. CASE full = {}
  <2>1. Named(name) = Parts(name) /\ p = 0 /\ IndexOf(name) = end.found
    BY <1>2, <1>4, <1>5, <1>7
  <2>2. Qualifies(name)
    BY <1>7, <2>1 DEF Qualifies, Parts
  <2>3. CASE end.found # 0
    <3>1. Named(name) = {end.found} /\ Cardinality(Named(name)) = 1
      BY <1>3, <2>1, <2>3, FS_Singleton
    <3> QED
      BY <1>3, <2>1, <3>1
  <2>4. CASE end.found = 0
    <3>1. ASSUME NEW a \in Parts(name), NEW b \in Parts(name), a # b
          PROVE  Cardinality(Parts(name)) > 1
      <4>1. Parts(name) \subseteq 1 .. n /\ IsFiniteSet(1 .. n)
        BY <1>1, FS_Interval DEF Parts
      <4>2. IsFiniteSet(Parts(name))
        BY <4>1, FS_Subset
      <4>3. {a, b} \subseteq Parts(name)
        BY <3>1
      <4>4. IsFiniteSet({a}) /\ Cardinality({a}) = 1
        BY FS_Singleton
      <4>5. {a, b} = {a} \cup {b} /\ b \notin {a}
        BY <3>1
      <4>6. Cardinality({a, b}) = 2
        BY <4>4, <4>5, FS_AddElement
      <4>7. Cardinality({a, b}) <= Cardinality(Parts(name))
        BY <4>2, <4>3, FS_Subset
      <4>8. Cardinality(Parts(name)) \in Nat
        BY <4>2, FS_CardinalityType
      <4> QED
        BY <4>6, <4>7, <4>8
    <3> QED
      BY <1>3, <2>1, <2>2, <2>4, <3>1
  <2> QED
    BY <1>3, <2>1, <2>3, <2>4
<1> QED
  BY <1>6, <1>7

-----------------------------------------------------------------------------
(* One read.                                                               *)

\* A column that is found is one of the columns.
LEMMA IndexInIs ==
  ASSUME Shape, NEW column \in Columns
  PROVE  /\ IndexIn(column).kind \in {"Ok", "UnknownColumn", "ColumnOutOfRange"}
         /\ IndexIn(column).kind = "Ok" => IndexIn(column).at \in 1 .. Len(columns)
<1>1. Len(columns) \in Nat
  BY DEF Shape
<1>2. CASE column.by = "index"
  <2>1. PICK k \in Indices : column = ByIndex(k)
    BY <1>2 DEF Columns, ByIndex, ByName
  <2>2. column.index = k /\ k \in Nat
    BY <2>1, ShapesAssumption DEF ByIndex
  <2> QED
    BY <1>1, <1>2, <2>2 DEF IndexIn
<1>3. CASE column.by # "index"
  <2>1. IndexOf(column.name) \in 0 .. Len(columns)
    BY Resolves
  <2> QED
    BY <1>1, <1>3, <2>1 DEF IndexIn
<1> QED
  BY <1>2, <1>3

LEMMA FromValueIs ==
  ASSUME NEW T, NEW optional, NEW value
  PROVE  FromValue(T, optional, value).kind \in {"Ok", "Conversion"}
  BY DEF FromValue, FromBare, Read, Failed

\* A conversion yields the datum it was given, when the target can hold it, and
\* an error otherwise (FromValue, as_i64, as_f64, as_bool, as_str).
LEMMA ReadsExactly ==
  ASSUME NEW cell \in Cells, NEW T \in Targets, NEW optional \in BOOLEAN
  PROVE  LET expected == Expected(cell, T, optional)
             made     == FromValue(T, optional, cell)
         IN IF expected = {} THEN made.kind = "Conversion"
            ELSE made.kind = "Ok" /\ made.datum \in expected
<1> DEFINE expected == Expected(cell, T, optional)
           made     == FromValue(T, optional, cell)
<1>1. /\ cell.type \in SqlTypes
      /\ cell.type = "NULL" => cell.datum = NoDatum
  BY ShapesAssumption
<1>2. CASE cell.type = "NULL" /\ optional
  <2>1. made = Read(NoDatum) /\ expected = {NoDatum}
    BY <1>1, <1>2 DEF FromValue, Expected
  <2> QED
    BY <2>1 DEF Read
<1>3. CASE ~(cell.type = "NULL" /\ optional)
  <2>1. made = FromBare(T, cell)
    BY <1>3 DEF FromValue
  <2>2. CASE T \in IntegerTypes
    <3>1. Readable(T) = SqlIntegers /\ "NULL" \notin SqlIntegers
          /\ T \notin {"Value", "&Value"}
      BY <2>2 DEF Readable, SqlIntegers, IntegerTypes
    <3>2. CASE cell.type \in SqlIntegers /\ cell.datum \in Holds(T)
      <4>1. expected = {cell.datum} /\ made = Read(cell.datum)
        BY <2>1, <2>2, <3>1, <3>2 DEF Expected, FromBare
      <4> QED
        BY <4>1 DEF Read
    <3>3. CASE cell.type \notin SqlIntegers \/ cell.datum \notin Holds(T)
      <4>1. expected = {}
        BY <1>3, <2>2, <3>1, <3>3 DEF Expected
      <4>2. \E reason : made = Failed(reason)
        BY <2>1, <2>2, <3>1, <3>3 DEF FromBare
      <4>3. made.kind = "Conversion"
        BY <4>2 DEF Failed
      <4> QED
        BY <4>1, <4>3
    <3> QED
      BY <3>2, <3>3
  <2>3. CASE T \notin IntegerTypes
    <3>1. cell.type = "NULL" =>
            (cell.type \in Readable(T) <=> T \in {"Value", "&Value"})
      BY <2>3 DEF Readable, Targets, SqlNumbers, SqlIntegers, SqlText, SqlTypes
    <3>2. CASE cell.type \in Readable(T)
      <4>1. expected = {cell.datum} /\ made = Read(cell.datum)
        BY <1>3, <2>1, <2>3, <3>1, <3>2 DEF Expected, FromBare
      <4> QED
        BY <4>1 DEF Read
    <3>3. CASE cell.type \notin Readable(T)
      <4>1. expected = {}
        BY <1>3, <2>3, <3>1, <3>3 DEF Expected
      <4>2. \E reason : made = Failed(reason)
        BY <2>1, <3>3 DEF FromBare
      <4>3. made.kind = "Conversion"
        BY <4>2 DEF Failed
      <4> QED
        BY <4>1, <4>3
    <3> QED
      BY <3>2, <3>3
  <2> QED
    BY <2>2, <2>3
<1> QED
  BY <1>2, <1>3

-----------------------------------------------------------------------------
(* The table.                                                              *)

\* A column is at least as wide as its name and as every cell it has.
LEMMA WidthsCover ==
  ASSUME Shape, NEW c \in 1 .. Len(columns)
  PROVE  /\ Widths[c] \in Nat
         /\ NameWidth[columns[c]] \in Nat /\ NameWidth[columns[c]] <= Widths[c]
         /\ \A r \in DOMAIN rows : c <= Len(rows[r]) =>
              rows[r][c].width \in Nat /\ rows[r][c].width <= Widths[c]
<1> DEFINE holders == {q \in DOMAIN rows : c <= Len(rows[q])}
           cells == {rows[r][c].width : r \in holders}
           widest == IF cells = {} THEN 0
                     ELSE CHOOSE w \in cells : \A v \in cells : v <= w
           name == NameWidth[columns[c]]
<1>1. Widths[c] = Max2(widest, name)
  BY DEF Widths
<1>2. name \in Nat
  <2>1. columns[c] \in Attributes
    BY DEF Shape
  <2> QED
    BY <2>1, ShapesAssumption
<1>3. Len(rows) \in Nat /\ DOMAIN rows = 1 .. Len(rows)
  BY DEF Shape
<1>4. \A q \in holders : rows[q][c].width \in Nat
  <2> TAKE q \in holders
  <2>1. rows[q] \in Seq(Cells) /\ c \in 1 .. Len(rows[q])
    BY <1>3 DEF Shape
  <2>2. rows[q][c] \in Cells
    BY <2>1
  <2> QED
    BY <2>2, ShapesAssumption
<1>5. widest \in Nat /\ \A w \in cells : w <= widest
  <2>1. CASE cells = {}
    BY <2>1
  <2>2. CASE cells # {}
    <3> DEFINE f == [q \in 1 .. Len(rows) |->
                       IF q \in holders THEN rows[q][c].width ELSE 0]
    <3>1. f \in [1 .. Len(rows) -> Nat]
      BY <1>4
    <3>2. PICK bound \in Nat : \A q \in 1 .. Len(rows) : f[q] <= bound
      <4> HIDE DEF f
      <4> QED
        BY <1>3, <3>1, ListBound
    <3>3. \A w \in cells : w <= bound
      <4> SUFFICES ASSUME NEW q \in holders PROVE rows[q][c].width <= bound
        OBVIOUS
      <4>1. q \in 1 .. Len(rows) /\ f[q] = rows[q][c].width
        BY <1>3
      <4> QED
        BY <3>2, <4>1
    <3>4. cells \in SUBSET Nat
      BY <1>4
    <3>5. \E w \in cells : \A v \in cells : v <= w
      <4> HIDE DEF cells
      <4> QED
        BY <2>2, <3>3, <3>4, Maximum
    <3>6. widest \in cells /\ \A v \in cells : v <= widest
      <4> HIDE DEF cells
      <4> QED
        BY <2>2, <3>5
    <3> QED
      BY <3>4, <3>6
  <2> QED
    BY <2>1, <2>2
<1>6. Widths[c] \in Nat /\ name <= Widths[c] /\ widest <= Widths[c]
  <2> HIDE DEF widest, name
  <2> QED
    BY <1>1, <1>2, <1>5 DEF Max2
<1>7. ASSUME NEW r \in DOMAIN rows, c <= Len(rows[r])
      PROVE  rows[r][c].width \in Nat /\ rows[r][c].width <= Widths[c]
  <2>1. r \in holders /\ rows[r][c].width \in cells
    BY <1>7
  <2> HIDE DEF cells, widest
  <2>2. rows[r][c].width <= widest /\ rows[r][c].width \in Nat
    BY <1>4, <1>5, <2>1
  <2> QED
    BY <1>5, <1>6, <2>2
<1> QED
  BY <1>2, <1>6, <1>7

\* Every line that is drawn has its cells as wide as those of the header.
LEMMA LinesUp ==
  ASSUME Shape, Drawn.kind = "Table",
         NEW r \in DOMAIN Drawn.body, NEW c \in DOMAIN Drawn.body[r]
  PROVE  Drawn.body[r][c] = Drawn.header[c]
<1>1. columns # <<>>
  <2> SUFFICES ASSUME columns = <<>> PROVE FALSE
    OBVIOUS
  <2>1. Drawn.body = <<>>
    BY DEF Drawn
  <2> QED
    BY <2>1
<1>2. ~\E q \in DOMAIN rows : Len(rows[q]) > Len(columns)
  BY <1>1 DEF Drawn, Panic
<1>3. Drawn.header = Header /\ Drawn.body = Body
  BY <1>1, <1>2 DEF Drawn
<1>4. r \in DOMAIN rows /\ Body[r] = Line([d \in DOMAIN rows[r] |-> rows[r][d].width])
  BY <1>3 DEF Body
<1>5. c \in DOMAIN rows[r] /\ Body[r][c] = Max2(Widths[c], rows[r][c].width) + 2
  BY <1>3, <1>4 DEF Line
<1>6. /\ Len(columns) \in Nat /\ DOMAIN columns = 1 .. Len(columns)
      /\ Len(rows[r]) \in Nat /\ DOMAIN rows[r] = 1 .. Len(rows[r])
  BY <1>4 DEF Shape
<1>7. c \in 1 .. Len(columns) /\ c <= Len(rows[r])
  BY <1>2, <1>4, <1>5, <1>6
<1>8. Header[c] = Max2(Widths[c], NameWidth[columns[c]]) + 2
  BY <1>6, <1>7 DEF Header, Line
<1>9. /\ Widths[c] \in Nat
      /\ NameWidth[columns[c]] \in Nat /\ NameWidth[columns[c]] <= Widths[c]
      /\ rows[r][c].width \in Nat /\ rows[r][c].width <= Widths[c]
  BY <1>4, <1>7, WidthsCover
<1> QED
  BY <1>3, <1>5, <1>8, <1>9 DEF Max2

-----------------------------------------------------------------------------
(* The invariants.                                                         *)

\* What has been asked for last has come out as the definitions say, for the
\* row in hand: rows and columns never change, and a read takes no row.
Told ==
  /\ Shape /\ row \in 0 .. Len(rows)
  /\ request.op \in {"none", "row", "get", "value", "index", "display"}
  /\ request.op = "none" => outcome.kind = "None"
  /\ request.op = "row" => outcome.kind \in {"Row", "None"}
  /\ request.op \in {"get", "value", "index"} => row # 0 /\ request.column \in Columns
  /\ request.op = "get" =>
       /\ request.target \in Asked /\ request.optional \in BOOLEAN
       /\ outcome = Got(request.column, request.target, request.optional)
  /\ request.op = "value" => outcome = ValueAt(request.column)
  /\ request.op = "index" => outcome = Expect(ValueAt(request.column))
  /\ request.op = "display" => outcome = Drawn

LEMMA ToldInit == Init => Told
<1> SUFFICES ASSUME Init PROVE Told
  OBVIOUS
<1>1. PICK reply \in Results : columns = reply.columns /\ rows = reply.rows
  BY DEF Init
<1>2. Shape
  BY <1>1, ShapesAssumption DEF Shape
<1>3. Len(rows) \in Nat
  BY <1>2 DEF Shape
<1> QED
  BY <1>2, <1>3 DEF Init, Told, NoRequest

\* What a read yields depends on the reply and the row in hand alone.
LEMMA SameReads ==
  ASSUME UNCHANGED <<columns, rows, row>>, NEW column, NEW T, NEW optional
  PROVE  /\ ValueAt(column)' = ValueAt(column)
         /\ Got(column, T, optional)' = Got(column, T, optional)
         /\ Drawn' = Drawn
<1>1. Position(column.name)' = Position(column.name) /\ Loop(column.name)' = Loop(column.name)
  BY DEF Position, Loop, Unqualified
<1>2. IndexIn(column)' = IndexIn(column)
  BY <1>1 DEF IndexIn, IndexOf
<1>3. ValueAt(column)' = ValueAt(column)
  BY <1>2 DEF ValueAt, Values
<1>4. Got(column, T, optional)' = Got(column, T, optional)
  BY <1>2, <1>3 DEF Got, Values
<1>5. Drawn' = Drawn
  BY DEF Drawn, Header, Body, Line, Widths
<1> QED
  BY <1>3, <1>4, <1>5

LEMMA ToldStep == Told /\ [Next]_vars => Told'
<1> SUFFICES ASSUME Told, [Next]_vars PROVE Told'
  OBVIOUS
<1>1. Len(rows) \in Nat /\ DOMAIN rows = 1 .. Len(rows)
  BY DEF Told, Shape
<1>2. UNCHANGED <<columns, rows>> /\ Shape'
  BY DEF Told, Shape, Next, TakeRow, Get, Value, Subscript, Display, Ask, vars
<1>3. ASSUME NEW k, TakeRow(k) PROVE Told'
  <2>1. row' \in 0 .. Len(rows) /\ request' = [op |-> "row"]
        /\ outcome' \in {[kind |-> "Row"], [kind |-> "None"]}
    BY <1>1, <1>3 DEF TakeRow, Ask
  <2>2. request'.op = "row" /\ outcome'.kind \in {"Row", "None"}
    BY <2>1
  <2> QED
    BY <1>2, <2>1, <2>2 DEF Told
<1>4. ASSUME NEW column \in Columns, NEW T \in Asked, NEW optional \in BOOLEAN,
             Get(column, T, optional)
      PROVE  Told'
  <2>1. row # 0 /\ row' = row /\ outcome' = Got(column, T, optional)
        /\ request' = [op |-> "get", column |-> column, target |-> T,
                       optional |-> optional]
    BY <1>4 DEF Get, Ask
  <2>2. outcome' = Got(column, T, optional)'
    BY <1>2, <2>1, SameReads
  <2>3. /\ request'.op = "get" /\ request'.column = column /\ request'.target = T
        /\ request'.optional = optional
    BY <2>1
  <2>4. outcome' = Got(request.column, request.target, request.optional)'
    BY <2>2, <2>3
  <2>5. request'.column \in Columns'
    BY <2>3 DEF Columns
  <2> QED
    BY <1>2, <2>1, <2>3, <2>4, <2>5 DEF Told
<1>5. ASSUME NEW column \in Columns, Value(column) \/ Subscript(column) PROVE Told'
  <2>1. row # 0 /\ row' = row /\ request'.op \in {"value", "index"}
        /\ request'.column = column
    BY <1>5 DEF Value, Subscript, Ask
  <2>2. /\ request'.op = "value" => outcome' = ValueAt(column)
        /\ request'.op = "index" => outcome' = Expect(ValueAt(column))
    BY <1>5 DEF Value, Subscript, Ask
  <2>3. ValueAt(column)' = ValueAt(column)
    BY <1>2, <2>1, SameReads
  <2>4. /\ request'.op = "value" => outcome' = ValueAt(request.column)'
        /\ request'.op = "index" => outcome' = Expect(ValueAt(request.column))'
    BY <2>1, <2>2, <2>3 DEF Expect
  <2>5. request'.column \in Columns'
    BY <2>1 DEF Columns
  <2> QED
    BY <1>2, <2>1, <2>4, <2>5 DEF Told
<1>6. CASE Display
  <2>1. row' = row /\ request'.op = "display" /\ outcome' = Drawn
    BY <1>6 DEF Display, Ask
  <2>2. outcome' = Drawn'
    BY <1>2, <2>1, SameReads
  <2> QED
    BY <1>2, <2>1, <2>2 DEF Told
<1>7. CASE UNCHANGED vars
  <2>1. UNCHANGED <<columns, rows, row, request, outcome>>
    BY <1>7 DEF vars
  <2>2. /\ ValueAt(request.column)' = ValueAt(request.column)
        /\ Got(request.column, request.target, request.optional)'
             = Got(request.column, request.target, request.optional)
        /\ Drawn' = Drawn /\ Columns' = Columns
    BY <2>1, SameReads DEF Columns
  <2> QED
    BY <1>2, <2>1, <2>2 DEF Told, Expect
<1> QED
  BY <1>3, <1>4, <1>5, <1>6, <1>7 DEF Next

LEMMA AlwaysTold == Spec => []Told
  BY ToldInit, ToldStep, PTL DEF Spec

-----------------------------------------------------------------------------
(* The theorems.                                                           *)

\* A row in hand is a row of the reply, and every outcome is one of the kinds
\* (RowIter::next, Rows::get, Row::get).
THEOREM TypeCorrect == Spec => []TypeOK
<1>1. Told => TypeOK
  <2> SUFFICES ASSUME Told PROVE TypeOK
    OBVIOUS
  <2>1. ASSUME request.op \in {"get", "value", "index"}
        PROVE  ValueAt(request.column).kind
                 \in {"Ok", "UnknownColumn", "ColumnOutOfRange", "panic"}
    BY <2>1, IndexInIs DEF Told, ValueAt, Panic
  <2>2. CASE request.op = "get"
    BY <2>1, <2>2, FromValueIs DEF Told, Got, TypeOK
  <2>3. CASE request.op = "value"
    BY <2>1, <2>3 DEF Told, TypeOK
  <2>4. CASE request.op = "index"
    BY <2>1, <2>4 DEF Told, Expect, Panic, TypeOK
  <2>5. CASE request.op = "display"
    <3>1. Drawn.kind \in {"Table", "panic"}
      BY DEF Drawn, Panic
    <3> QED
      BY <2>5, <3>1 DEF Told, TypeOK
  <2>6. CASE request.op \in {"none", "row"}
    BY <2>6 DEF Told, TypeOK
  <2> QED
    BY <2>2, <2>3, <2>4, <2>5, <2>6 DEF Told
<1> QED
  BY <1>1, AlwaysTold, PTL

\* A name is resolved whenever it is unambiguous or in full, and never to one
\* of several columns it could be the last part of (Schema::index_of).
THEOREM ResolvesNames == Spec => []NamesResolve
<1>1. Told => NamesResolve
  BY Resolves DEF Told, NamesResolve
<1> QED
  BY <1>1, AlwaysTold, PTL

\* Row::get yields the datum of the column asked for, exactly when the type
\* asked for can hold it, and an error otherwise (Row::get, FromValue).
THEOREM GetsIt == Spec => []GetsWhatIsThere
<1>1. Told => GetsWhatIsThere
  <2> SUFFICES ASSUME Told, request.op = "get",
                      IndexIn(request.column).kind = "Ok",
                      IndexIn(request.column).at <= Len(Values)
               PROVE  LET expected == Expected(Values[IndexIn(request.column).at],
                                               request.target, request.optional)
                      IN IF expected = {} THEN outcome.kind = "Conversion"
                         ELSE outcome.kind = "Ok" /\ outcome.datum \in expected
    BY DEF GetsWhatIsThere
  <2> DEFINE at == IndexIn(request.column).at
  <2>1. row \in 1 .. Len(rows) /\ Len(rows) \in Nat
    BY DEF Told, Shape
  <2>2. Values \in Seq(Cells) /\ Len(Values) \in Nat
    BY <2>1 DEF Told, Shape, Values
  <2>3. at \in 1 .. Len(columns) /\ Len(columns) \in Nat
    BY IndexInIs DEF Told, Shape
  <2>4. at \in 1 .. Len(Values)
    BY <2>2, <2>3
  <2>5. Values[at] \in Cells
    <3> HIDE DEF at
    <3> QED
      BY <2>2, <2>4
  <2>6. ValueAt(request.column) = [kind |-> "Ok", datum |-> Values[at].datum]
    <3>1. ~(at > Len(Values))
      BY <2>2, <2>4
    <3> QED
      BY <3>1 DEF ValueAt
  <2>7. ValueAt(request.column).kind = "Ok"
    BY <2>6
  <2>8. outcome = FromValue(request.target, request.optional, Values[at])
    BY <2>7 DEF Told, Got
  <2>9. request.target \in Targets /\ request.optional \in BOOLEAN
    BY ShapesAssumption DEF Told
  <2> QED
    BY <2>5, <2>8, <2>9, ReadsExactly
<1> QED
  BY <1>1, AlwaysTold, PTL

\* Nothing panics but the subscript of a column that does not exist, a read of
\* a row narrower than the schema, and the drawing of one that is wider (Row::get,
\* Row::value, Index, Display).
THEOREM SubscriptsPanic == Spec => []OnlySubscriptsPanic
<1>1. Told => OnlySubscriptsPanic
  <2> SUFFICES ASSUME Told, outcome = Panic,
                      request.op \in {"get", "value", "index"} => ~(Len(Values) < Len(columns)),
                      request.op = "display" =>
                        ~\E r \in DOMAIN rows : Len(rows[r]) > Len(columns)
               PROVE  request.op = "index" /\ IndexIn(request.column).kind # "Ok"
    BY DEF OnlySubscriptsPanic
  <2>1. outcome.kind = "panic"
    BY DEF Panic
  <2>2. ASSUME request.op \in {"get", "value", "index"}
        PROVE  /\ ValueAt(request.column).kind # "panic"
               /\ IndexIn(request.column).kind = "Ok" =>
                    ValueAt(request.column).kind = "Ok"
    <3>1. row \in DOMAIN rows /\ Len(Values) >= Len(columns)
          /\ Len(columns) \in Nat /\ Len(Values) \in Nat
      BY <2>2 DEF Told, Shape, Values
    <3>2. request.column \in Columns /\ Shape
      BY <2>2 DEF Told
    <3> QED
      BY <3>1, <3>2, IndexInIs DEF ValueAt
  <2>3. request.op # "get"
    <3> SUFFICES ASSUME request.op = "get" PROVE FALSE
      OBVIOUS
    <3>1. outcome = Got(request.column, request.target, request.optional)
      BY DEF Told
    <3>2. Got(request.column, request.target, request.optional).kind # "panic"
      BY <2>2, FromValueIs DEF Got
    <3> QED
      BY <2>1, <3>1, <3>2
  <2>4. request.op # "value"
    BY <2>1, <2>2 DEF Told
  <2>5. request.op # "display"
    <3> SUFFICES ASSUME request.op = "display" PROVE FALSE
      OBVIOUS
    <3>1. ~\E r \in DOMAIN rows : Len(rows[r]) > Len(columns)
      OBVIOUS
    <3>2. Drawn.kind = "Table"
      BY <3>1 DEF Drawn
    <3> QED
      BY <2>1, <3>2 DEF Told
  <2>6. request.op = "index"
    BY <2>1, <2>3, <2>4, <2>5 DEF Told
  <2>7. IndexIn(request.column).kind # "Ok"
    BY <2>1, <2>2, <2>6 DEF Told, Expect
  <2> QED
    BY <2>6, <2>7
<1> QED
  BY <1>1, AlwaysTold, PTL

\* Every line of the table has its bars under those of the header (Display).
THEOREM AlwaysAligned == Spec => []Aligned
<1>1. Told => Aligned
  <2> SUFFICES ASSUME Told, outcome.kind = "Table",
                      NEW r \in DOMAIN outcome.body, NEW c \in DOMAIN outcome.body[r]
               PROVE  outcome.body[r][c] = outcome.header[c]
    BY DEF Aligned
  <2>1. ASSUME request.op \in {"get", "value", "index"}
        PROVE  ValueAt(request.column).kind
                 \in {"Ok", "UnknownColumn", "ColumnOutOfRange", "panic"}
    BY <2>1, IndexInIs DEF Told, ValueAt, Panic
  <2>2. request.op = "display"
    <3>1. request.op # "get"
      BY <2>1, FromValueIs DEF Told, Got
    <3>2. request.op \notin {"value", "index"}
      BY <2>1 DEF Told, Expect, Panic
    <3>3. request.op \notin {"none", "row"}
      BY DEF Told
    <3> QED
      BY <3>1, <3>2, <3>3 DEF Told
  <2>3. outcome = Drawn /\ Shape
    BY <2>2 DEF Told
  <2> QED
    BY <2>3, LinesUp
<1> QED
  BY <1>1, AlwaysTold, PTL
=============================================================================

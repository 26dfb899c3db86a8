------------------------ MODULE StatementGuardProofs ------------------------
(* The guard neither runs off the statement nor slices a character in two,  *)
(* and gives every statement the verdict of the reference.                 *)
EXTENDS StatementLexer, NatFacts

\* Inside an inner loop the index has not passed the end, and a word is walked
\* from the first byte of a character.
Walking ==
  /\ at \in {"line", "block", "string", "identifier", "word"} => i <= length
  /\ at = "word" => start <= i /\ Boundary(start)

GuardInv == TypeOK /\ Walking

\* A byte that is there has its index in the statement.
LEMMA ByteInside ==
  ASSUME sql \in Seq(Bytes), NEW k \in Nat, Byte(k) # "end"
  PROVE  k + 1 \in 1 .. length /\ Byte(k) \in Bytes
  BY DEF Byte, length

\* Every classification is a result.
LEMMA KindType ==
  ASSUME NEW leading PROVE Kind(leading) \in Results
  BY DEF Kind, Results, Kinds

\* Taking a word out of the statement yields bytes.
LEMMA SliceType ==
  ASSUME sql \in Seq(Bytes), start \in Nat, i \in Nat, start <= i, i <= length
  PROVE  Slice \in Seq(Bytes)
  BY DEF Slice, length

LEMMA GuardInit == Init => GuardInv
<1> SUFFICES ASSUME Init PROVE GuardInv
  OBVIOUS
<1>1. sql \in Seq(Bytes) /\ length \in Nat
  BY StatementsAreBytes DEF Init, length
<1>2. words \in Seq(Seq(Bytes)) /\ Len(words) <= 2
  BY DEF Init
<1>3. terminated \in BOOLEAN /\ result \in Results \cup {"none"} /\ at = "outer"
        /\ i = 0 /\ start = 0
  BY DEF Init
<1> QED
  BY <1>1, <1>2, <1>3 DEF GuardInv, TypeOK, Walking

\* Every turn of every loop keeps the index in its bounds.
LEMMA GuardStep == GuardInv /\ [Next]_vars => GuardInv'
<1> SUFFICES ASSUME GuardInv, [Next]_vars PROVE GuardInv'
  OBVIOUS
<1> USE DEF GuardInv
<1>1. sql \in Seq(Bytes) /\ length \in Nat /\ i \in Nat /\ start \in Nat
  BY DEF TypeOK, length
<1>2. ASSUME NEW k \in Nat, Byte(k) # "end" PROVE k < length
  BY <1>1, <1>2, ByteInside DEF length
<1>3. CASE LineComment
  <2>1. i + 1 < length
    BY <1>1, <1>2, <1>3 DEF LineComment, OpensLine
  <2> QED
    BY <1>1, <1>3, <2>1 DEF LineComment, TypeOK, Walking, length
<1>4. CASE BlockComment
  <2>1. i + 1 < length
    BY <1>1, <1>2, <1>4 DEF BlockComment, OpensBlock
  <2> QED
    BY <1>1, <1>4, <2>1 DEF BlockComment, TypeOK, Walking, length
<1>5. CASE Semicolon
  <2>1. i < length
    BY <1>1, <1>2, <1>5 DEF Semicolon
  <2> QED
    <3>1. terminated' \in BOOLEAN /\ at' = "outer" /\ i' = i + 1
            /\ UNCHANGED <<sql, start, words, result>>
      BY <1>5 DEF Semicolon
    <3> QED
      BY <1>1, <2>1, <3>1 DEF TypeOK, Walking, length
<1>6. CASE Space
  <2>1. i < length
    BY <1>1, <1>2, <1>6 DEF Space, Whitespace
  <2> QED
    BY <1>1, <1>6, <2>1 DEF Space, TypeOK, Walking, length
<1>7. CASE SecondStatement
  BY <1>1, <1>7 DEF SecondStatement, TypeOK, Walking, length, Results
<1>8. CASE Significant
  <2>1. i < length
    BY <1>1, <1>2, <1>8 DEF Significant, InsignificantHere
  <2>2. Byte(i) \in Letters => Boundary(i)
    BY DEF Boundary, Letters
  <2>3. CASE Byte(i) \in Letters
    <3>1. at' = "word" /\ start' = i /\ i' = i /\ UNCHANGED <<sql, words, terminated, result>>
      BY <1>8, <2>3 DEF Significant, Letters
    <3> QED
      BY <1>1, <2>1, <2>2, <2>3, <3>1 DEF TypeOK, Walking, length, Boundary, Byte
  <2>4. CASE Byte(i) \notin Letters
    <3>1. /\ at' \in {"string", "identifier", "outer"} /\ i' = i + 1
          /\ UNCHANGED <<sql, start, words, terminated, result>>
      BY <1>8, <2>4 DEF Significant
    <3> QED
      BY <1>1, <2>1, <3>1 DEF TypeOK, Walking, length
  <2> QED
    BY <2>3, <2>4
<1>9. CASE InLine
  BY <1>1, <1>9 DEF InLine, TypeOK, Walking, length
<1>10. CASE InBlock
  BY <1>1, <1>10 DEF InBlock, TypeOK, Walking, length
<1>11. CASE InString
  <2>1. CASE Byte(i) = "'"
    <3>1. i < length
      BY <1>1, <1>2, <2>1
    <3>2. Byte(i + 1) = "'" => i + 1 < length
      BY <1>1, <1>2
    <3> QED
      BY <1>1, <1>11, <2>1, <3>1, <3>2 DEF InString, TypeOK, Walking, length
  <2>2. CASE Byte(i) = "end"
    BY <1>1, <1>11, <2>2 DEF InString, TypeOK, Walking, length
  <2>3. CASE Byte(i) \notin {"'", "end"}
    <3>1. i < length
      BY <1>1, <1>2, <2>3
    <3> QED
      BY <1>1, <1>11, <2>3, <3>1 DEF InString, TypeOK, Walking, length
  <2> QED
    BY <2>1, <2>2, <2>3
<1>12. CASE InIdentifier
  <2>1. i <= length /\ i' = i + 1 /\ UNCHANGED <<sql, start, words, terminated, result>>
    BY <1>12 DEF InIdentifier, Walking
  <2>2. at' = "outer" \/ (at' = "identifier" /\ i < length)
    BY <1>12 DEF InIdentifier
  <2> QED
    BY <1>1, <2>1, <2>2 DEF TypeOK, Walking, length
<1>13. CASE InWord
  <2>1. start <= i /\ i <= length /\ Boundary(start) /\ at = "word"
    BY <1>13 DEF InWord, Walking
  <2>2. CASE Byte(i) \in Letters \cup High
    <3>1. i < length
      BY <1>1, <1>2, <2>2 DEF Letters, High
    <3>2. i' = i + 1 /\ UNCHANGED <<sql, at, start, words, terminated, result>>
      BY <1>13, <2>2 DEF InWord
    <3>3. i' \in Nat /\ i' <= length /\ start <= i' /\ Boundary(start)
      BY <1>1, <2>1, <3>1, <3>2 DEF TypeOK, length
    <3>4. TypeOK'
      BY <1>1, <3>2, <3>3 DEF TypeOK, length
    <3>5. Walking'
      BY <2>1, <3>2, <3>3 DEF Walking, length, Boundary, Byte
    <3> QED
      BY <3>4, <3>5
  <2>3. CASE Byte(i) \notin Letters \cup High
    <3>1. words' \in Seq(Seq(Bytes)) /\ Len(words') <= 2
      <4>1. Slice \in Seq(Bytes)
        BY <1>1, <2>1, SliceType
      <4>2. words' = IF Len(words) < 2 THEN Append(words, Slice) ELSE words
        BY <1>13, <2>3 DEF InWord
      <4>3. words \in Seq(Seq(Bytes)) /\ Len(words) <= 2
        BY DEF TypeOK
      <4> QED
        BY <4>1, <4>2, <4>3
    <3>2. at' = "outer" /\ UNCHANGED <<sql, i, start, terminated, result>>
      BY <1>13, <2>3 DEF InWord
    <3> QED
      BY <1>1, <2>1, <3>1, <3>2 DEF TypeOK, Walking, length
  <2> QED
    BY <2>2, <2>3
<1>14. CASE Classify
  BY <1>1, <1>14, KindType DEF Classify, TypeOK, Walking, length
<1>15. CASE UNCHANGED vars
  BY <1>15 DEF vars, TypeOK, Walking, length, Boundary, Byte
<1> QED
  BY <1>3, <1>4, <1>5, <1>6, <1>7, <1>8, <1>9, <1>10, <1>11, <1>12, <1>13,
     <1>14, <1>15 DEF Next

\* The scan stays in its bounds, on every statement.
THEOREM GuardTyped == Spec => []TypeOK
<1>1. GuardInv => TypeOK
  BY DEF GuardInv
<1> QED
  BY <1>1, GuardInit, GuardStep, PTL DEF Spec

\* The one slice of the scan cannot panic: a word begins with a byte that is a
\* character, and ends before one or with the statement (scan, line 106).
THEOREM SlicesSafely == Spec => SliceIsSafe
<1>1. GuardInv /\ [Next]_vars
        => [at = "word" /\ at' # "word"
              => start <= i /\ i <= length /\ Boundary(start) /\ Boundary(i)]_vars
  <2> SUFFICES ASSUME GuardInv, Next, at = "word", at' # "word"
               PROVE  start <= i /\ i <= length /\ Boundary(start) /\ Boundary(i)
    BY DEF vars
  <2>1. InWord
    BY DEF Next, LineComment, BlockComment, Semicolon, Space, SecondStatement,
           Significant, InLine, InBlock, InString, InIdentifier, Classify
  <2>2. Byte(i) \notin High
    BY <2>1 DEF InWord
  <2> QED
    BY <2>2 DEF GuardInv, Walking, Boundary, High
<1> QED
  BY <1>1, GuardInit, GuardStep, PTL DEF Spec, SliceIsSafe

-----------------------------------------------------------------------------
(* The lexer, one byte after the other.                                     *)

Modes == {"code", "line", "opening", "block", "closing", "string", "identifier"}

LEMMA AfterType ==
  ASSUME NEW mode \in Modes, NEW last, NEW next
  PROVE  After(mode, last, next) \in Modes
  BY DEF After, Modes

\* The modes are those a loop over the statement goes through.
LEMMA ModeTurns ==
  ASSUME sql \in Seq(Bytes)
  PROVE  /\ Mode[0] = "code"
         /\ \A k \in 1 .. length : Mode[k] = After(Mode[k - 1], Byte(k - 1), Byte(k))
<1> DEFINE n == length
           turn == [c \in 1 .. n |-> [m \in Modes |-> After(m, Byte(c - 1), Byte(c))]]
<1>1. n \in Nat /\ "code" \in Modes
  BY DEF length, Modes
<1>2. turn \in [1 .. n -> [Modes -> Modes]]
  BY AfterType
<1>3. PICK f \in [0 .. n -> Modes] : Runs(f, n, "code", turn)
  <2> HIDE DEF n, turn
  <2> QED
    BY <1>1, <1>2, LoopExists, Zenon
<1>4. ASSUME NEW c \in 1 .. n
      PROVE  f[c] = After(f[c - 1], Byte(c - 1), Byte(c))
  <2>1. f[c - 1] \in Modes
    BY <1>1
  <2>2. turn[c][f[c - 1]] = After(f[c - 1], Byte(c - 1), Byte(c))
    BY <2>1
  <2> HIDE DEF turn
  <2> QED
    BY <1>3, <2>2 DEF Runs
<1>5. f = [c \in 0 .. n |-> IF c = 0 THEN "code"
                            ELSE After(f[c - 1], Byte(c - 1), Byte(c))]
  <2> HIDE DEF turn
  <2>1. \A c \in 0 .. n : c = 0 \/ c \in 1 .. n
    BY <1>1
  <2>2. \A c \in 0 .. n : f[c] = IF c = 0 THEN "code"
                                 ELSE After(f[c - 1], Byte(c - 1), Byte(c))
    BY <1>3, <1>4, <2>1 DEF Runs
  <2> QED
    BY <2>2
<1>6. Mode = [c \in 0 .. n |-> IF c = 0 THEN "code"
                               ELSE After(Mode[c - 1], Byte(c - 1), Byte(c))]
  BY <1>5, Zenon DEF Mode
<1> QED
  <2> HIDE DEF turn
  <2>1. 0 \in 0 .. n /\ \A k \in 1 .. n : k \in 0 .. n /\ k # 0
    BY <1>1
  <2>2. \A c \in 0 .. n : Mode[c] = IF c = 0 THEN "code"
                                    ELSE After(Mode[c - 1], Byte(c - 1), Byte(c))
    BY <1>6, Zenon
  <2> QED
    BY <2>1, <2>2

\* How one byte leads to the next.
LEMMA NextMode ==
  ASSUME sql \in Seq(Bytes), NEW k \in Nat, k < length
  PROVE  /\ Mode[k] = "code" =>
              Mode[k + 1] = IF Byte(k) = "-" /\ Byte(k + 1) = "-" THEN "line"
                            ELSE IF Byte(k) = "/" /\ Byte(k + 1) = "*" THEN "opening"
                            ELSE IF Byte(k) = "'" THEN "string"
                            ELSE IF Byte(k) = "\"" THEN "identifier" ELSE "code"
         /\ Mode[k] = "line" =>
              Mode[k + 1] = IF Byte(k) = "newline" THEN "code" ELSE "line"
         /\ Mode[k] = "opening" => Mode[k + 1] = "block"
         /\ Mode[k] = "block" =>
              Mode[k + 1] = IF Byte(k) = "*" /\ Byte(k + 1) = "/" THEN "closing" ELSE "block"
         /\ Mode[k] = "closing" => Mode[k + 1] = "code"
         /\ Mode[k] = "string" =>
              Mode[k + 1] = IF Byte(k) = "'" THEN "code" ELSE "string"
         /\ Mode[k] = "identifier" =>
              Mode[k + 1] = IF Byte(k) = "\"" THEN "code" ELSE "identifier"
<1>1. k + 1 \in 1 .. length /\ (k + 1) - 1 = k
  BY DEF length
<1>2. Mode[k + 1] = After(Mode[k], Byte(k), Byte(k + 1))
  BY <1>1, ModeTurns
<1> QED
  BY <1>2 DEF After

\* A byte of a word is a letter, or a further character behind another.
LEMMA WordBytes ==
  ASSUME sql \in Seq(Bytes), NEW k \in Nat
  PROVE  /\ k \in InAWord
              => k < length /\ Mode[k] = "code" /\ Byte(k) \in Letters \cup High
         /\ k < length /\ Mode[k] = "code" /\ Byte(k) \in Letters => k \in InAWord
         /\ k < length /\ Mode[k] = "code" /\ Byte(k) \in High /\ k - 1 \in InAWord
              => k \in InAWord
         /\ Byte(k) \in High /\ k \in InAWord => k - 1 \in InAWord
<1> DEFINE From(first, last) ==
             /\ Byte(first) \in Letters
             /\ \A m \in first .. last : Mode[m] = "code" /\ Byte(m) \in Letters \cup High
<1>1. length \in Nat
  BY DEF length
<1>2. InAWord = {j \in 0 .. length - 1 : \E first \in 0 .. j : From(first, j)}
  BY DEF InAWord
<1>3. ASSUME k \in InAWord
      PROVE  k < length /\ Mode[k] = "code" /\ Byte(k) \in Letters \cup High
  BY <1>1, <1>2, <1>3
<1>4. ASSUME k < length, Mode[k] = "code", Byte(k) \in Letters PROVE k \in InAWord
  <2>1. k \in 0 .. k /\ \A m \in k .. k : m = k
    OBVIOUS
  <2>2. From(k, k)
    BY <1>4, <2>1
  <2> HIDE DEF From
  <2>3. k \in 0 .. length - 1
    BY <1>1, <1>4
  <2> QED
    BY <1>2, <2>1, <2>2, <2>3
<1>5. ASSUME k < length, Mode[k] = "code", Byte(k) \in High, k - 1 \in InAWord
      PROVE  k \in InAWord
  <2>1. PICK first \in 0 .. k - 1 : From(first, k - 1)
    BY <1>2, <1>5
  <2>2. \A m \in first .. k : m = k \/ m \in first .. k - 1
    OBVIOUS
  <2>3. From(first, k)
    BY <1>5, <2>1, <2>2
  <2> HIDE DEF From
  <2>4. k \in 0 .. length - 1 /\ first \in 0 .. k
    BY <1>1, <1>5
  <2> QED
    BY <1>2, <2>3, <2>4
<1>6. ASSUME Byte(k) \in High, k \in InAWord PROVE k - 1 \in InAWord
  <2>1. PICK first \in 0 .. k : From(first, k)
    BY <1>2, <1>6
  <2>2. first # k
    BY <1>6, <2>1 DEF High, Letters
  <2>3. first \in 0 .. k - 1 /\ \A m \in first .. k - 1 : m \in first .. k
    BY <2>2
  <2>4. From(first, k - 1)
    BY <2>1, <2>3
  <2> HIDE DEF From
  <2>5. k - 1 \in 0 .. length - 1
    BY <1>1, <1>2, <1>6, <2>3
  <2> QED
    BY <1>2, <2>3, <2>4, <2>5
<1> HIDE DEF From
<1> QED
  BY <1>3, <1>4, <1>5, <1>6

-----------------------------------------------------------------------------
(* The words.                                                               *)

LEMMA MinIs ==
  ASSUME NEW S \in SUBSET Nat, NEW n \in S, \A m \in S : n <= m
  PROVE  Min(S) = n
<1>1. \A x \in S : (\A y \in S : x <= y) => x = n
  OBVIOUS
<1> QED
  BY <1>1 DEF Min

LEMMA MinIn ==
  ASSUME NEW S \in SUBSET Nat, S # {}
  PROVE  Min(S) \in S /\ \A m \in S : Min(S) <= m
<1>1. PICK n \in S : \A m \in S : n <= m
  BY Minimum
<1>2. Min(S) = n
  BY <1>1, MinIs
<1> QED
  BY <1>1, <1>2

LEMMA MinOfTwo ==
  ASSUME NEW n \in {1, 2}
  PROVE  Min({n, 1}) = 1 /\ Min({n, 2}) = n
<1>1. /\ {n, 1} \in SUBSET Nat /\ 1 \in {n, 1} /\ \A m \in {n, 1} : 1 <= m
      /\ {n, 2} \in SUBSET Nat /\ n \in {n, 2} /\ \A m \in {n, 2} : n <= m
  OBVIOUS
<1>2. Min({n, 1}) = 1
  BY <1>1, MinIs, Zenon
<1>3. Min({n, 2}) = n
  BY <1>1, MinIs, Zenon
<1> QED
  BY <1>2, <1>3

\* The word that starts at `start` ends before the first byte that is in none,
\* and that is where the scan slices it.
LEMMA WordIsSlice ==
  ASSUME sql \in Seq(Bytes), start \in Nat, i \in Nat, start <= i, i <= length,
         start .. i - 1 \subseteq InAWord, i \notin InAWord
  PROVE  Word(start) = Slice
<1> DEFINE outside == {e \in start .. length : e \notin InAWord}
<1>1. outside \in SUBSET Nat /\ i \in outside
  BY DEF length
<1>2. \A m \in outside : i <= m
  <2> SUFFICES ASSUME NEW m \in outside, m < i PROVE FALSE
    BY DEF length
  <2>1. m \in start .. i - 1
    BY DEF length
  <2> QED
    BY <2>1
<1>3. Min(outside) = i
  <2> HIDE DEF outside
  <2> QED
    BY <1>1, <1>2, MinIs
<1> QED
  BY <1>3 DEF Word, Slice

\* A word more, behind the others, is taken when there are fewer than two.
LEMMA OneWordMore ==
  ASSUME NEW S \in SUBSET Nat, NEW n \in Nat, \A m \in S : m < n
  PROVE  FirstTwo(S \cup {n})
           = IF Len(FirstTwo(S)) < 2 THEN Append(FirstTwo(S), Word(n)) ELSE FirstTwo(S)
<1> DEFINE more == S \cup {n}
<1>1. CASE S = {}
  <2>1. more = {n} /\ more \in SUBSET Nat
    BY <1>1
  <2>2. Min(more) = n
    <3> HIDE DEF more
    <3> QED
      BY <2>1, MinIs
  <2>3. FirstTwo(more) = <<Word(n)>>
    <3> HIDE DEF more
    <3> QED
      BY <2>1, <2>2 DEF FirstTwo
  <2>4. FirstTwo(S) = <<>>
    BY <1>1 DEF FirstTwo
  <2> QED
    BY <2>3, <2>4
<1>2. CASE S # {}
  <2> DEFINE first == Min(S)
             rest == S \ {first}
  <2>1. first \in S /\ \A m \in S : first <= m
    BY <1>2, MinIn
  <2>2. more \in SUBSET Nat /\ first \in more /\ \A m \in more : first <= m
    <3>1. first \in Nat /\ first < n
      BY <2>1
    <3> HIDE DEF first
    <3> QED
      BY <2>1, <3>1
  <2>3. Min(more) = first
    <3> HIDE DEF more, first
    <3> QED
      BY <2>2, MinIs
  <2>4. more \ {first} = rest \cup {n}
    BY <2>1
  <2>5. FirstTwo(more) = <<Word(first), Word(Min(rest \cup {n}))>>
    <3>1. more # {} /\ more \ {Min(more)} = rest \cup {n} /\ rest \cup {n} # {}
      BY <2>3, <2>4
    <3> HIDE DEF more, rest, first
    <3> QED
      BY <2>3, <3>1 DEF FirstTwo
  <2>6. CASE rest = {}
    <3>1. rest \cup {n} = {n} /\ {n} \in SUBSET Nat
      BY <2>6
    <3>2. Min({n}) = n
      BY MinIs
    <3>3. FirstTwo(S) = <<Word(first)>>
      BY <1>2, <2>6 DEF FirstTwo
    <3>4. FirstTwo(S \cup {n}) = <<Word(first), Word(n)>>
      BY <2>5, <3>1, <3>2
    <3> HIDE DEF more, rest, first
    <3> QED
      BY <3>3, <3>4
  <2>7. CASE rest # {}
    <3> DEFINE second == Min(rest)
    <3>1. second \in rest /\ \A m \in rest : second <= m
      <4> rest \in SUBSET Nat
        OBVIOUS
      <4> HIDE DEF rest
      <4> QED
        BY <2>7, MinIn
    <3>2. second \in Nat /\ second < n
      BY <3>1
    <3>3. Min(rest \cup {n}) = second
      <4>1. \A m \in rest \cup {n} : second <= m
        <5> HIDE DEF rest, second
        <5> QED
          BY <3>1, <3>2
      <4>2. rest \cup {n} \in SUBSET Nat /\ second \in rest \cup {n}
        BY <3>1
      <4> HIDE DEF rest, second
      <4> QED
        BY <4>1, <4>2, MinIs
    <3>4. FirstTwo(S) = <<Word(first), Word(second)>>
      BY <1>2, <2>7 DEF FirstTwo
    <3>5. FirstTwo(S \cup {n}) = <<Word(first), Word(second)>>
      BY <2>5, <3>3
    <3> HIDE DEF more, rest, first, second
    <3> QED
      BY <3>4, <3>5
  <2> QED
    BY <2>6, <2>7
<1> QED
  BY <1>1, <1>2

\* What the provers need to be told of sequences of one or two elements.
LEMMA SeqFacts ==
  ASSUME NEW T, NEW s \in Seq(T)
  PROVE  /\ s # <<>> /\ Len(s) <= 2 => Len(s) \in {1, 2}
         /\ Len(s) = 1 => s = <<s[1]>>
         /\ Len(s) = 2 => s = <<s[1], s[2]>>
         /\ Len(s) >= 1 => SubSeq(s, 1, 1) = <<s[1]>>
         /\ SubSeq(s, 1, Len(s)) = s
<1>1. s # <<>> /\ Len(s) <= 2 => Len(s) \in {1, 2}
  <2> DEFINE n == Len(s)
  <2> SUFFICES ASSUME s # <<>>, n <= 2 PROVE n \in {1, 2}
    OBVIOUS
  <2>1. n # 0
    OBVIOUS
  <2>2. n \in Nat
    OBVIOUS
  <2> HIDE DEF n
  <2> QED
    BY <2>1, <2>2
<1>2. Len(s) = 1 => s = <<s[1]>>
  OBVIOUS
<1>3. Len(s) = 2 => s = <<s[1], s[2]>>
  OBVIOUS
<1>4. ASSUME Len(s) >= 1 PROVE SubSeq(s, 1, 1) = <<s[1]>>
  <2> DEFINE u == SubSeq(s, 1, 1)
  <2>1. u \in Seq(T) /\ Len(u) = 1 /\ u[1] = s[1]
    BY <1>4
  <2>2. u = <<u[1]>>
    <3> HIDE DEF u
    <3> QED
      BY <2>1
  <2> QED
    BY <2>1, <2>2
<1>5. SubSeq(s, 1, Len(s)) = s
  OBVIOUS
<1> QED
  BY <1>1, <1>2, <1>3, <1>4, <1>5

LEMMA Keywords ==
  /\ <<"S">> # <<"I">> /\ <<"S">> # <<"C">> /\ <<"I">> # <<"C">>
  OBVIOUS

LEMMA SingleWord ==
  ASSUME NEW a, NEW b, <<a>> = <<b>>
  PROVE  a = b
  OBVIOUS

\* The guard's match names the kind of the keywords that the words begin with.
LEMMA KindIsClassified ==
  ASSUME NEW leading \in Seq(Seq(Bytes)), Len(leading) <= 2
  PROVE  Kind(leading) = Classified(leading)
<1> DEFINE taken(k) == SubSeq(leading, 1, Min({Len(leading), Len(Supported[k])}))
           kinds == {k \in DOMAIN Supported : taken(k) = Supported[k]}
<1>1. DOMAIN Supported = {"Query", "Insert", "CreateTable"}
  BY DEF Supported
<1>2. /\ Supported["Query"] = <<<<"S">>>> /\ Supported["Insert"] = <<<<"I">>>>
      /\ Supported["CreateTable"] = <<<<"C">>, <<"T">>>>
  BY DEF Supported
<1>3. CASE leading = <<>>
  <2>1. leading \in {<<>>, <<<<"C">>>>}
    BY <1>3
  <2>2. Classified(leading) = "InvalidArgument"
    BY <2>1, Zenon DEF Classified
  <2>3. Kind(leading) = "InvalidArgument"
    BY <1>3 DEF Kind
  <2> QED
    BY <2>2, <2>3
<1>4. CASE leading # <<>>
  <2>1. Len(leading) \in {1, 2}
    BY <1>4, SeqFacts, Zenon
  <2>2. Min({Len(leading), 1}) = 1
    BY <2>1, MinOfTwo
  <2>3. Min({Len(leading), 2}) = Len(leading)
    BY <2>1, MinOfTwo
  <2>4. taken("Query") = <<leading[1]>> /\ taken("Insert") = <<leading[1]>>
    <3>1. Len(Supported["Query"]) = 1 /\ Len(Supported["Insert"]) = 1
      BY <1>2
    <3>2. SubSeq(leading, 1, 1) = <<leading[1]>>
      BY <2>1, SeqFacts
    <3> QED
      BY <2>2, <3>1, <3>2
  <2>5. taken("CreateTable") = leading
    <3>1. Len(Supported["CreateTable"]) = 2
      BY <1>2
    <3>2. SubSeq(leading, 1, Len(leading)) = leading
      BY SeqFacts
    <3> QED
      BY <2>3, <3>1, <3>2
  <2>6. /\ "Query" \in kinds => leading[1] = <<"S">>
        /\ leading[1] = <<"S">> => "Query" \in kinds
        /\ "Insert" \in kinds => leading[1] = <<"I">>
        /\ leading[1] = <<"I">> => "Insert" \in kinds
        /\ "CreateTable" \in kinds => leading = <<<<"C">>, <<"T">>>>
        /\ leading = <<<<"C">>, <<"T">>>> => "CreateTable" \in kinds
    <3>1. \A k : k \in kinds => taken(k) = Supported[k]
      OBVIOUS
    <3>2. \A k \in {"Query", "Insert", "CreateTable"} : taken(k) = Supported[k] => k \in kinds
      BY <1>1
    <3> HIDE DEF taken, kinds
    <3>3. "Query" \in kinds => leading[1] = <<"S">>
      BY <1>2, <2>4, <3>1, SingleWord, Zenon
    <3>4. leading[1] = <<"S">> => "Query" \in kinds
      BY <1>2, <2>4, <3>2, Zenon
    <3>5. "Insert" \in kinds => leading[1] = <<"I">>
      BY <1>2, <2>4, <3>1, SingleWord, Zenon
    <3>6. leading[1] = <<"I">> => "Insert" \in kinds
      BY <1>2, <2>4, <3>2, Zenon
    <3>7. "CreateTable" \in kinds => leading = <<<<"C">>, <<"T">>>>
      BY <1>2, <2>5, <3>1, Zenon
    <3>8. leading = <<<<"C">>, <<"T">>>> => "CreateTable" \in kinds
      BY <1>2, <2>5, <3>2, Zenon
    <3> QED
      BY <3>3, <3>4, <3>5, <3>6, <3>7, <3>8, Zenon
  <2>7. kinds \subseteq {"Query", "Insert", "CreateTable"}
    BY <1>1
  <2>8. Classified(leading) =
          IF leading \in {<<>>, <<<<"C">>>>} THEN "InvalidArgument"
          ELSE IF kinds = {} THEN "Unsupported" ELSE CHOOSE k \in kinds : TRUE
    BY DEF Classified
  <2>9. leading = <<<<"C">>, <<"T">>>> => leading[1] = <<"C">>
    OBVIOUS
  <2> HIDE DEF kinds
  <2>10. CASE leading[1] = <<"S">>
    <3>1. kinds = {"Query"}
      BY <2>6, <2>7, <2>10, <2>9, Keywords, Zenon
    <3>2. leading \notin {<<>>, <<<<"C">>>>} /\ Kind(leading) = "Query"
      BY <1>4, <2>10 DEF Kind
    <3> QED
      BY <2>8, <3>1, <3>2
  <2>11. CASE leading[1] = <<"I">>
    <3>1. kinds = {"Insert"}
      BY <2>6, <2>7, <2>11, <2>9, Keywords, Zenon
    <3>2. leading \notin {<<>>, <<<<"C">>>>} /\ Kind(leading) = "Insert"
      BY <1>4, <2>11 DEF Kind
    <3> QED
      BY <2>8, <3>1, <3>2
  <2>12. CASE leading[1] = <<"C">>
    <3>1. CASE Len(leading) = 1
      <4>1. leading = <<<<"C">>>>
        BY <2>12, <3>1, SeqFacts
      <4>2. Kind(leading) = "InvalidArgument"
        BY <1>4, <2>12, <3>1 DEF Kind
      <4> QED
        BY <2>8, <4>1, <4>2
    <3>2. CASE Len(leading) = 2
      <4>1. leading \notin {<<>>, <<<<"C">>>>}
        BY <3>2
      <4>2. CASE leading[2] = <<"T">>
        <5>1. leading = <<<<"C">>, <<"T">>>>
          BY <2>12, <3>2, <4>2, SeqFacts
        <5>2. kinds = {"CreateTable"}
          BY <2>6, <2>7, <2>12, <5>1, Keywords, Zenon
        <5>3. Kind(leading) = "CreateTable"
          BY <1>4, <2>12, <3>2, <4>2 DEF Kind
        <5> QED
          BY <2>8, <4>1, <5>2, <5>3
      <4>3. CASE leading[2] # <<"T">>
        <5>1. leading # <<<<"C">>, <<"T">>>>
          BY <4>3
        <5>2. kinds = {}
          BY <2>6, <2>7, <2>12, <5>1, Keywords, Zenon
        <5>3. Kind(leading) = "Unsupported"
          BY <1>4, <2>12, <3>2, <4>3 DEF Kind
        <5> QED
          BY <2>8, <4>1, <5>2, <5>3
      <4> QED
        BY <4>2, <4>3
    <3> QED
      BY <2>1, <3>1, <3>2
  <2>13. CASE leading[1] \notin {<<"S">>, <<"I">>, <<"C">>}
    <3>1. leading \notin {<<>>, <<<<"C">>>>} /\ leading # <<<<"C">>, <<"T">>>>
      BY <1>4, <2>13
    <3>2. kinds = {}
      BY <2>6, <2>7, <2>13, <3>1
    <3>3. Kind(leading) = "Unsupported"
      BY <1>4, <2>13 DEF Kind
    <3> QED
      BY <2>8, <3>1, <3>2, <3>3
  <2> QED
    BY <2>10, <2>11, <2>12, <2>13
<1> QED
  BY <1>3, <1>4


-----------------------------------------------------------------------------
(* What the scan knows once it has gone past some bytes.                    *)

\* The words of the first two that begin before byte n.
WordsBefore == [n \in 0 .. length + 1 |-> FirstTwo({k \in Begins : k < n})]

\* Before byte n there are the words w, and a terminator just if `ended`; no
\* text there follows one.
Seen(n, w, ended) ==
  /\ w = WordsBefore[n]
  /\ ended => \E k \in Terminators : k < n
  /\ ~ended => \A k \in Terminators : n <= k
  /\ \A k \in Terminators, t \in Text : k < t => n <= t

\* The loop `loop` is at a byte of its mode.  The outer loop meets the newline
\* behind a comment as well.
Stands(loop, n) ==
  /\ loop = "outer" => \/ length <= n \/ Mode[n] = "code"
                       \/ Mode[n] = "line" /\ Byte(n) = "newline"
  /\ loop \in {"line", "block", "string", "identifier"} => Mode[n] = loop
  /\ loop = "word" => Mode[n] = "code"

\* The scan, in `loop` at byte n, has seen what is before n, or before the word
\* it is in; it meets no word in its middle, and no text behind a terminator.
Sound(loop, n, first, w, ended, verdict) ==
  /\ loop # "done" => /\ Stands(loop, n)
                      /\ Seen(IF loop = "word" THEN first ELSE n, w, ended)
  /\ loop = "outer" => n - 1 \notin InAWord \/ n \notin InAWord
  /\ loop = "word" => first \in Begins /\ first .. n - 1 \subseteq InAWord
  /\ loop \in {"string", "identifier", "word"} => ~ended
  /\ loop = "done" => verdict = Verdict

JudgeInv == Sound(at, i, start, words, terminated, result)

\* The reference looks at nothing but the statement, which never changes.
LEMMA LexerKept ==
  ASSUME sql' = sql, Sound(at', i', start', words', terminated', result')
  PROVE  JudgeInv'
<1>1. length' = length /\ Mode' = Mode
  <2>1. length' = length
    BY DEF length
  <2>2. Mode' = Mode
    BY Zenon DEF Mode, length, Byte
  <2> QED
    BY <2>1, <2>2
<1>2. \A k : Byte(k)' = Byte(k)
  BY DEF Byte, length
<1>3. InAWord' = InAWord
  BY <1>1, Zenon DEF InAWord, Byte, length
<1>4. Begins' = Begins
  BY <1>3, Zenon DEF Begins
<1>5. Terminators' = Terminators
  BY <1>1, Zenon DEF Terminators, Byte, length
<1>6. Text' = Text
  BY <1>1, Zenon DEF Text, Opener, Byte, length
<1>7. WordsBefore' = WordsBefore
  BY <1>1, <1>3, <1>4, Zenon DEF WordsBefore, FirstTwo, Word
<1>8. Verdict' = Verdict
  BY <1>1, <1>3, <1>4, <1>5, <1>6, Zenon DEF Verdict, FirstTwo, Word
<1>9. Byte(i)' = Byte(i')
  BY DEF Byte, length
<1> QED
  BY <1>1, <1>3, <1>4, <1>5, <1>6, <1>7, <1>8, <1>9, Zenon
     DEF JudgeInv, Sound, Seen, Stands

LEMMA Places ==
  ASSUME sql \in Seq(Bytes)
  PROVE  /\ length \in Nat /\ \A k \in Begins : k \in Nat
         /\ \A k \in Terminators : k \in Nat
         /\ \A t \in Text : t \in Nat
<1>1. length \in Nat /\ \A k \in 0 .. length - 1 : k \in Nat
  BY DEF length
<1>2. Begins \subseteq 0 .. length - 1
  BY Zenon DEF Begins, InAWord
<1>3. Terminators \subseteq 0 .. length - 1
  BY Zenon DEF Terminators
<1>4. Text \subseteq 0 .. length - 1
  BY Zenon DEF Text
<1> QED
  BY <1>1, <1>2, <1>3, <1>4

\* A terminator is neither text nor part of a word.
LEMMA TerminatorsApart ==
  ASSUME sql \in Seq(Bytes), NEW n \in Terminators
  PROVE  n \notin InAWord /\ n \notin Begins /\ n \notin Text
<1>1. n \in Nat
  BY Places
<1>2. Byte(n) = ";" /\ Mode[n] = "code"
  BY Zenon DEF Terminators
<1>3. n \notin InAWord
  BY <1>1, <1>2, WordBytes, Zenon DEF Letters, High
<1>4. n \notin Text
  BY <1>2, Zenon DEF Text
<1>5. n \notin Begins
  BY <1>3, Zenon DEF Begins
<1> QED
  BY <1>3, <1>4, <1>5

\* A byte that begins no word, ends no statement and is no text behind one.
LEMMA StepOver ==
  ASSUME sql \in Seq(Bytes), NEW n \in Nat, n <= length, NEW w, NEW ended \in BOOLEAN,
         Seen(n, w, ended), n \notin Begins, n \notin Terminators, ended => n \notin Text
  PROVE  Seen(n + 1, w, ended)
<1>1. /\ length \in Nat /\ \A k \in Begins : k \in Nat
      /\ \A k \in Terminators : k \in Nat
      /\ \A t \in Text : t \in Nat
  BY Places
<1>2. {k \in Begins : k < n + 1} = {k \in Begins : k < n}
  BY <1>1
<1>3. WordsBefore[n + 1] = WordsBefore[n]
  BY <1>1, <1>2 DEF WordsBefore
<1>4. \A k \in Terminators : n <= k => n + 1 <= k
  BY <1>1
<1>5. ASSUME NEW k \in Terminators, NEW t \in Text, k < t PROVE n + 1 <= t
  <2>1. n <= t
    BY <1>5 DEF Seen
  <2>2. n # t
    BY <1>1, <1>5 DEF Seen
  <2> QED
    BY <1>1, <2>1, <2>2
<1>6. \A k \in Terminators : k < n => k < n + 1
  BY <1>1
<1> QED
  BY <1>3, <1>4, <1>5, <1>6 DEF Seen

\* A terminator.
LEMMA StepOverEnd ==
  ASSUME sql \in Seq(Bytes), NEW n \in Nat, n < length, NEW w, NEW ended \in BOOLEAN,
         Seen(n, w, ended), n \in Terminators
  PROVE  Seen(n + 1, w, TRUE)
<1>1. /\ length \in Nat /\ \A k \in Begins : k \in Nat
      /\ \A k \in Terminators : k \in Nat
      /\ \A t \in Text : t \in Nat
  BY Places
<1>2. n \notin Begins /\ n \notin Text
  BY TerminatorsApart
<1>3. {k \in Begins : k < n + 1} = {k \in Begins : k < n}
  BY <1>1, <1>2
<1>4. WordsBefore[n + 1] = WordsBefore[n]
  BY <1>1, <1>3 DEF WordsBefore
<1>5. ASSUME NEW k \in Terminators, NEW t \in Text, k < t PROVE n + 1 <= t
  <2>1. n <= t /\ n # t
    BY <1>2, <1>5 DEF Seen
  <2> QED
    BY <1>1, <2>1
<1>6. n < n + 1
  OBVIOUS
<1> QED
  BY <1>2, <1>4, <1>5, <1>6 DEF Seen

\* A word, from its first byte to the first that is not in it.
LEMMA StepOverWord ==
  ASSUME sql \in Seq(Bytes), start \in Nat, i \in Nat, i <= length, NEW w,
         Seen(start, w, FALSE), start \in Begins, start < i,
         start .. i - 1 \subseteq InAWord, i \notin InAWord
  PROVE  Seen(i, IF Len(w) < 2 THEN Append(w, Slice) ELSE w, FALSE)
<1>1. /\ length \in Nat /\ \A k \in Begins : k \in Nat
      /\ \A k \in Terminators : k \in Nat
      /\ \A t \in Text : t \in Nat
  BY Places
<1> DEFINE S == {k \in Begins : k < start}
<1>2. {k \in Begins : k < i} = S \cup {start}
  <2>1. ASSUME NEW k \in Begins, k < i PROVE k \in S \cup {start}
    <3> SUFFICES ASSUME start < k PROVE FALSE
      BY <1>1, <2>1
    <3>1. k - 1 \in start .. i - 1
      BY <1>1, <2>1
    <3> QED
      BY <3>1 DEF Begins
  <2>2. \A k \in S : k < i
    BY <1>1
  <2> QED
    BY <2>1, <2>2
<1>3. S \in SUBSET Nat /\ \A m \in S : m < start
  BY <1>1
<1>4. Word(start) = Slice
  BY WordIsSlice
<1>5. w = FirstTwo(S) /\ WordsBefore[i] = FirstTwo(S \cup {start})
  <2>1. start \in 0 .. length + 1 /\ i \in 0 .. length + 1
    BY <1>1
  <2>2. WordsBefore[i] = FirstTwo({k \in Begins : k < i})
    BY <2>1 DEF WordsBefore
  <2>3. WordsBefore[start] = FirstTwo(S)
    BY <2>1 DEF WordsBefore
  <2> HIDE DEF S
  <2> QED
    BY <1>2, <2>2, <2>3 DEF Seen
<1>6. WordsBefore[i] = IF Len(w) < 2 THEN Append(w, Slice) ELSE w
  <2> HIDE DEF S
  <2>1. FirstTwo(S \cup {start})
          = IF Len(FirstTwo(S)) < 2 THEN Append(FirstTwo(S), Word(start)) ELSE FirstTwo(S)
    BY <1>3, OneWordMore
  <2> QED
    BY <1>4, <1>5, <2>1
<1>7. \A k \in Terminators : i <= k
  <2> SUFFICES ASSUME NEW k \in Terminators, k < i PROVE FALSE
    BY <1>1
  <2>1. k \in start .. i - 1
    BY <1>1 DEF Seen
  <2>2. k \in InAWord
    BY <2>1
  <2> QED
    BY <2>2, TerminatorsApart
<1>8. \A k \in Terminators, t \in Text : k < t => i <= t
  BY <1>1, <1>7
<1> QED
  BY <1>6, <1>7, <1>8 DEF Seen


\* Which bytes the scan may go past without a word.
LEMMA Skipped ==
  ASSUME sql \in Seq(Bytes), NEW n \in Nat
  PROVE  /\ Mode[n] \in {"line", "opening", "block", "closing"}
              => n \notin Text /\ n \notin Terminators /\ n \notin InAWord
         /\ Mode[n] \in {"string", "identifier"} => n \notin Terminators /\ n \notin InAWord
         /\ Byte(n) \notin Letters \cup High => n \notin InAWord
         /\ Byte(n) # ";" => n \notin Terminators
         /\ Mode[n] = "code" /\ Byte(n) \in Whitespace => n \notin Text
         /\ Mode[n] = "code" /\ Mode[n + 1] \in {"line", "opening"} => n \notin Text
         /\ length <= n => n \notin Text /\ n \notin Terminators /\ n \notin InAWord
<1>1. ASSUME Mode[n] \in {"line", "opening", "block", "closing"}
      PROVE  n \notin Text /\ n \notin Terminators
  BY <1>1, Zenon DEF Text, Terminators
<1>2. ASSUME Mode[n] \in {"string", "identifier"} PROVE n \notin Terminators
  BY <1>2, Zenon DEF Terminators
<1>3. Mode[n] # "code" => n \notin InAWord
  BY WordBytes
<1>4. Byte(n) \notin Letters \cup High => n \notin InAWord
  BY WordBytes
<1>5. Byte(n) # ";" => n \notin Terminators
  BY Zenon DEF Terminators
<1>6. Mode[n] = "code" /\ Byte(n) \in Whitespace => n \notin Text
  BY Zenon DEF Text
<1>7. Mode[n] = "code" /\ Mode[n + 1] \in {"line", "opening"} => n \notin Text
  BY Zenon DEF Text, Opener
<1>8. length <= n => n \notin Text /\ n \notin Terminators /\ n \notin InAWord
  <2>1. length <= n => n \notin 0 .. length - 1
    BY DEF length
  <2> QED
    BY <2>1, Zenon DEF Text, Terminators, InAWord
<1> QED
  BY <1>1, <1>2, <1>3, <1>4, <1>5, <1>6, <1>7, <1>8, Zenon

LEMMA SoundOuter ==
  ASSUME NEW n, NEW first, NEW w, NEW ended, NEW verdict, Seen(n, w, ended),
         length <= n \/ Mode[n] = "code" \/ (Mode[n] = "line" /\ Byte(n) = "newline"),
         n - 1 \notin InAWord \/ n \notin InAWord
  PROVE  Sound("outer", n, first, w, ended, verdict)
  BY DEF Sound, Stands

LEMMA SoundComment ==
  ASSUME NEW loop \in {"line", "block"}, NEW n, NEW first, NEW w, NEW ended, NEW verdict,
         Seen(n, w, ended), Mode[n] = loop
  PROVE  Sound(loop, n, first, w, ended, verdict)
  BY DEF Sound, Stands

LEMMA SoundQuote ==
  ASSUME NEW loop \in {"string", "identifier"}, NEW n, NEW first, NEW w, NEW verdict,
         Seen(n, w, FALSE), Mode[n] = loop
  PROVE  Sound(loop, n, first, w, FALSE, verdict)
  BY DEF Sound, Stands

LEMMA SoundWord ==
  ASSUME NEW n, NEW first \in Begins, NEW w, NEW verdict,
         Seen(first, w, FALSE), Mode[n] = "code", first .. n - 1 \subseteq InAWord
  PROVE  Sound("word", n, first, w, FALSE, verdict)
  BY DEF Sound, Stands

LEMMA JudgeInit == Init => JudgeInv
<1> SUFFICES ASSUME Init PROVE JudgeInv
  OBVIOUS
<1>1. sql \in Seq(Bytes) /\ at = "outer" /\ i = 0 /\ words = <<>> /\ terminated = FALSE
  BY StatementsAreBytes DEF Init
<1>2. Mode[0] = "code"
  BY <1>1, ModeTurns
<1>3. \A k \in Begins : ~(k < 0)
  BY <1>1, Places
<1>4. WordsBefore[0] = <<>>
  <2>1. {k \in Begins : k < 0} = {} /\ 0 \in 0 .. length + 1
    BY <1>1, <1>3, Places
  <2>2. FirstTwo({}) = <<>>
    BY DEF FirstTwo
  <2> QED
    BY <2>1, <2>2 DEF WordsBefore
<1>5. Seen(0, <<>>, FALSE)
  BY <1>1, <1>4, Places DEF Seen
<1>6. -1 \notin InAWord
  BY <1>1 DEF InAWord
<1>7. Sound("outer", 0, start, <<>>, FALSE, result)
  <2>1. 0 - 1 \notin InAWord
    BY <1>6
  <2> QED
    BY <1>2, <1>5, <2>1, SoundOuter
<1> QED
  BY <1>1, <1>7 DEF JudgeInv


-----------------------------------------------------------------------------
(* Every turn of every loop.                                                *)

LEMMA Bounds ==
  ASSUME GuardInv
  PROVE  /\ sql \in Seq(Bytes) /\ length \in Nat /\ i \in Nat /\ start \in Nat
         /\ terminated \in BOOLEAN
         /\ at \in {"line", "block", "string", "identifier", "word"} => i <= length
         /\ words \in Seq(Seq(Bytes)) /\ Len(words) <= 2
<1>1. sql \in Seq(Bytes) /\ length \in Nat /\ i \in Nat /\ start \in Nat
  BY DEF GuardInv, TypeOK, length
<1>2. words \in Seq(Seq(Bytes)) /\ Len(words) <= 2
  BY DEF GuardInv, TypeOK
<1>3. terminated \in BOOLEAN
  BY Zenon DEF GuardInv, TypeOK
<1> QED
  BY <1>1, <1>2, <1>3 DEF GuardInv, Walking

LEMMA Inside ==
  ASSUME sql \in Seq(Bytes), NEW k \in Nat, Byte(k) # "end"
  PROVE  k < length /\ k <= length
  BY ByteInside DEF length

\* What the outer loop knows of a byte that is not the newline of a comment.
LEMMA OuterKnows ==
  ASSUME GuardInv, JudgeInv, at = "outer"
  PROVE  /\ Seen(i, words, terminated)
         /\ Byte(i) \notin {"newline", "end"} => Mode[i] = "code"
         /\ i - 1 \notin InAWord \/ i \notin InAWord
         /\ Byte(i) # "end" => i < length
         /\ Byte(i) = "newline" => Mode[i] \in {"code", "line"}
<1>1. /\ Seen(i, words, terminated) /\ Stands("outer", i)
      /\ i - 1 \notin InAWord \/ i \notin InAWord
  BY DEF JudgeInv, Sound
<1>2. Byte(i) # "end" => i < length /\ ~(length <= i)
  BY Bounds, Inside
<1> QED
  BY <1>1, <1>2 DEF Stands

LEMMA JudgeLineComment ==
  ASSUME GuardInv, JudgeInv, LineComment
  PROVE  JudgeInv'
<1>1. /\ at = "outer" /\ Byte(i) = "-" /\ Byte(i + 1) = "-" /\ i' = i + 2 /\ at' = "line"
      /\ sql' = sql /\ start' = start /\ words' = words
      /\ terminated' = terminated /\ result' = result
  BY DEF LineComment, OpensLine
<1>2. i + 1 < length /\ i < length /\ i + 1 \in Nat /\ (i + 1) + 1 = i + 2
  BY <1>1, Bounds, Inside
<1>3. Mode[i] = "code" /\ Mode[i + 1] = "line" /\ Mode[i + 2] = "line"
  <2>1. Mode[i] = "code"
    BY <1>1, OuterKnows
  <2>2. Mode[i + 1] = "line"
    BY <1>1, <1>2, <2>1, NextMode, Bounds
  <2>3. Mode[(i + 1) + 1] = "line"
    BY <1>1, <1>2, <2>2, NextMode, Bounds
  <2> QED
    BY <1>2, <2>1, <2>2, <2>3
<1>4. Seen(i + 1, words, terminated)
  <2>1. i \notin Terminators /\ i \notin InAWord /\ i \notin Text
    BY <1>1, <1>3, Skipped, Bounds DEF Letters, High
  <2>2. Seen(i, words, terminated)
    BY <1>1, OuterKnows
  <2> QED
    BY <1>2, <2>1, <2>2, StepOver, Bounds DEF Begins
<1>5. Seen((i + 1) + 1, words, terminated)
  <2>1. i + 1 \notin Terminators /\ i + 1 \notin InAWord /\ i + 1 \notin Text
    BY <1>2, <1>3, Skipped, Bounds
  <2> QED
    BY <1>2, <1>4, <2>1, StepOver, Bounds DEF Begins
<1>6. Sound("line", i + 2, start, words, terminated, result)
  BY <1>2, <1>3, <1>5, SoundComment
<1> QED
  BY <1>1, <1>6, LexerKept

LEMMA JudgeBlockComment ==
  ASSUME GuardInv, JudgeInv, BlockComment
  PROVE  JudgeInv'
<1>1. /\ at = "outer" /\ Byte(i) = "/" /\ Byte(i + 1) = "*" /\ i' = i + 2 /\ at' = "block"
      /\ sql' = sql /\ start' = start /\ words' = words
      /\ terminated' = terminated /\ result' = result
  BY DEF BlockComment, OpensBlock
<1>2. i + 1 < length /\ i < length /\ i + 1 \in Nat /\ (i + 1) + 1 = i + 2
  BY <1>1, Bounds, Inside
<1>3. Mode[i] = "code" /\ Mode[i + 1] = "opening" /\ Mode[i + 2] = "block"
  <2>1. Mode[i] = "code"
    BY <1>1, OuterKnows
  <2>2. Mode[i + 1] = "opening"
    BY <1>1, <1>2, <2>1, NextMode, Bounds
  <2>3. Mode[(i + 1) + 1] = "block"
    BY <1>2, <2>2, NextMode, Bounds
  <2> QED
    BY <1>2, <2>1, <2>2, <2>3
<1>4. Seen(i + 1, words, terminated)
  <2>1. i \notin Terminators /\ i \notin InAWord /\ i \notin Text
    BY <1>1, <1>3, Skipped, Bounds DEF Letters, High
  <2>2. Seen(i, words, terminated)
    BY <1>1, OuterKnows
  <2> QED
    BY <1>2, <2>1, <2>2, StepOver, Bounds DEF Begins
<1>5. Seen((i + 1) + 1, words, terminated)
  <2>1. i + 1 \notin Terminators /\ i + 1 \notin InAWord /\ i + 1 \notin Text
    BY <1>2, <1>3, Skipped, Bounds
  <2> QED
    BY <1>2, <1>4, <2>1, StepOver, Bounds DEF Begins
<1>6. Sound("block", i + 2, start, words, terminated, result)
  BY <1>2, <1>3, <1>5, SoundComment
<1> QED
  BY <1>1, <1>6, LexerKept

LEMMA JudgeSemicolon ==
  ASSUME GuardInv, JudgeInv, Semicolon
  PROVE  JudgeInv'
<1>1. /\ at = "outer" /\ i' = i + 1 /\ at' = "outer" /\ terminated' = TRUE
      /\ sql' = sql /\ start' = start /\ words' = words /\ result' = result
  BY Zenon DEF Semicolon
<1>2. Byte(i) = ";" /\ Byte(i) \notin {"newline", "end", "-", "/", "'", "\""}
  BY Zenon DEF Semicolon
<1>3. /\ i < length /\ Mode[i] = "code" /\ i \in Nat /\ sql \in Seq(Bytes)
      /\ terminated \in BOOLEAN /\ Seen(i, words, terminated)
  BY <1>1, <1>2, OuterKnows, Bounds, Zenon
<1>4. i \in Terminators
  <2>1. i \in 0 .. length - 1
    BY <1>3 DEF length
  <2> QED
    BY <1>2, <1>3, <2>1, Zenon DEF Terminators
<1>5. Seen(i + 1, words, TRUE)
  BY <1>3, <1>4, StepOverEnd, Zenon
<1>6. Mode[i + 1] = "code"
  BY <1>2, <1>3, NextMode, Zenon
<1>7. (i + 1) - 1 \notin InAWord
  <2>1. i \notin InAWord
    BY <1>3, <1>4, TerminatorsApart, Zenon
  <2>2. (i + 1) - 1 = i
    BY <1>3
  <2> QED
    BY <2>1, <2>2
<1>8. Sound("outer", i + 1, start, words, TRUE, result)
  BY <1>5, <1>6, <1>7, SoundOuter, Zenon
<1> QED
  BY <1>1, <1>8, LexerKept, Zenon

LEMMA JudgeSpace ==
  ASSUME GuardInv, JudgeInv, Space
  PROVE  JudgeInv'
<1>1. /\ at = "outer" /\ Byte(i) \in {"space", "newline"} /\ i' = i + 1 /\ at' = "outer"
      /\ sql' = sql /\ start' = start /\ words' = words
      /\ terminated' = terminated /\ result' = result
  BY DEF Space, Whitespace
<1>2. /\ i < length /\ i \in Nat /\ i <= length /\ (i + 1) - 1 = i
      /\ Mode[i] = "code" \/ (Mode[i] = "line" /\ Byte(i) = "newline")
  BY <1>1, OuterKnows, Bounds
<1>3. Mode[i + 1] = "code"
  BY <1>1, <1>2, NextMode, Bounds
<1>4. i \notin Terminators /\ i \notin InAWord /\ i \notin Text
  BY <1>1, <1>2, Skipped, Bounds DEF Letters, High, Whitespace
<1>5. Seen(i + 1, words, terminated)
  <2>1. Seen(i, words, terminated)
    BY <1>1, OuterKnows
  <2> QED
    BY <1>2, <1>4, <2>1, StepOver, Bounds DEF Begins
<1>6. Sound("outer", i + 1, start, words, terminated, result)
  BY <1>2, <1>3, <1>4, <1>5, SoundOuter
<1> QED
  BY <1>1, <1>6, LexerKept

LEMMA JudgeSecondStatement ==
  ASSUME GuardInv, JudgeInv, SecondStatement
  PROVE  JudgeInv'
<1>1. /\ at = "outer" /\ terminated /\ at' = "done" /\ result' = "MultipleStatements"
      /\ sql' = sql /\ i' = i /\ start' = start /\ words' = words
      /\ terminated' = terminated
  BY Zenon DEF SecondStatement
<1>2. /\ Byte(i) \notin Whitespace \cup {";"} /\ Byte(i) \notin {"newline", "end"}
      /\ ~(Byte(i) = "-" /\ Byte(i + 1) = "-") /\ ~(Byte(i) = "/" /\ Byte(i + 1) = "*")
  BY Zenon DEF SecondStatement, InsignificantHere, OpensLine, OpensBlock, Whitespace
<1>3. /\ i < length /\ Mode[i] = "code" /\ i \in Nat /\ sql \in Seq(Bytes)
      /\ Seen(i, words, terminated)
  BY <1>1, <1>2, OuterKnows, Bounds, Zenon
<1>4. Mode[i + 1] \notin {"line", "opening"}
  BY <1>2, <1>3, NextMode, Zenon
<1>5. i \in Text
  <2>1. i \in 0 .. length - 1
    BY <1>3 DEF length
  <2> QED
    BY <1>2, <1>3, <1>4, <2>1, Zenon DEF Text, Opener
<1>6. \E k \in Terminators : k < i
  BY <1>1, <1>3, Zenon DEF Seen
<1>7. Verdict = "MultipleStatements"
  BY <1>5, <1>6, Zenon DEF Verdict
<1>8. Sound("done", i, start, words, terminated, "MultipleStatements")
  BY <1>7 DEF Sound
<1> QED
  BY <1>1, <1>8, LexerKept

LEMMA JudgeSignificant ==
  ASSUME GuardInv, JudgeInv, Significant
  PROVE  JudgeInv'
<1>1. at = "outer" /\ terminated = FALSE /\ sql' = sql /\ words' = words
        /\ terminated' = FALSE /\ result' = result
  <2>1. terminated \in BOOLEAN
    BY Bounds
  <2> QED
    BY <2>1, Zenon DEF Significant
<1>2. /\ Byte(i) \notin {"newline", "space", "end", ";"}
      /\ ~(Byte(i) = "-" /\ Byte(i + 1) = "-") /\ ~(Byte(i) = "/" /\ Byte(i + 1) = "*")
  BY Zenon DEF Significant, InsignificantHere, OpensLine, OpensBlock, Whitespace
<1>3. /\ i < length /\ Mode[i] = "code" /\ i \in Nat /\ sql \in Seq(Bytes)
      /\ Seen(i, words, FALSE) /\ (i - 1 \notin InAWord \/ i \notin InAWord)
  BY <1>1, <1>2, OuterKnows, Bounds, Zenon
<1>4. i <= length /\ (i + 1) - 1 = i
  BY <1>3, Bounds
<1>5. i \notin Terminators
  BY <1>2, <1>3, Skipped, Zenon
<1>6. ASSUME i \notin InAWord PROVE Seen(i + 1, words, FALSE)
  <2>1. i \notin Begins
    BY <1>6 DEF Begins
  <2> QED
    BY <1>3, <1>4, <1>5, <2>1, StepOver, Zenon
<1>7. CASE Byte(i) = "'"
  <2>1. at' = "string" /\ i' = i + 1 /\ start' = start
    BY <1>7, Zenon DEF Significant, Letters
  <2>2. i \notin InAWord
    BY <1>3, <1>7, Skipped, Zenon DEF Letters, High
  <2>3. Mode[i + 1] = "string"
    BY <1>3, <1>7, NextMode, Zenon
  <2>4. Sound("string", i + 1, start, words, FALSE, result)
    BY <1>6, <2>2, <2>3, SoundQuote, Zenon
  <2> QED
    BY <1>1, <2>1, <2>4, LexerKept, Zenon
<1>8. CASE Byte(i) = "\""
  <2>1. at' = "identifier" /\ i' = i + 1 /\ start' = start
    BY <1>8, Zenon DEF Significant, Letters
  <2>2. i \notin InAWord
    BY <1>3, <1>8, Skipped, Zenon DEF Letters, High
  <2>3. Mode[i + 1] = "identifier"
    BY <1>3, <1>8, NextMode, Zenon
  <2>4. Sound("identifier", i + 1, start, words, FALSE, result)
    BY <1>6, <2>2, <2>3, SoundQuote, Zenon
  <2> QED
    BY <1>1, <2>1, <2>4, LexerKept, Zenon
<1>9. CASE Byte(i) \in Letters
  <2>1. at' = "word" /\ i' = i /\ start' = i
    BY <1>9, Zenon DEF Significant, Letters
  <2>2. i \in InAWord
    BY <1>3, <1>9, WordBytes, Zenon
  <2>3. i \in Begins
    BY <1>3, <2>2, Zenon DEF Begins
  <2>4. i .. i - 1 \subseteq InAWord
    BY <1>3
  <2>5. Sound("word", i, i, words, FALSE, result)
    BY <1>3, <2>3, <2>4, SoundWord, Zenon
  <2> QED
    BY <1>1, <2>1, <2>5, LexerKept, Zenon
<1>10. CASE Byte(i) \notin Letters \cup {"'", "\""}
  <2>1. at' = "outer" /\ i' = i + 1 /\ start' = start
    BY <1>10, Zenon DEF Significant
  <2>2. i \notin InAWord
    <3>1. i \in InAWord => Byte(i) \in Letters \cup High
      BY <1>3, WordBytes, Zenon
    <3>2. Byte(i) \in High /\ i \in InAWord => i - 1 \in InAWord
      BY <1>3, WordBytes, Zenon
    <3> QED
      BY <1>3, <1>10, <3>1, <3>2, Zenon
  <2>3. Mode[i + 1] = "code"
    BY <1>2, <1>3, <1>10, NextMode, Zenon
  <2>4. (i + 1) - 1 \notin InAWord
    BY <1>4, <2>2, Zenon
  <2>5. Sound("outer", i + 1, start, words, FALSE, result)
    BY <1>6, <2>2, <2>3, <2>4, SoundOuter, Zenon
  <2> QED
    BY <1>1, <2>1, <2>5, LexerKept, Zenon
<1> QED
  BY <1>7, <1>8, <1>9, <1>10, Zenon


\* Before the end there is a byte.
LEMMA Present ==
  ASSUME sql \in Seq(Bytes), NEW k \in Nat, k < length
  PROVE  Byte(k) # "end"
<1>1. k + 1 \in 1 .. Len(sql)
  BY DEF length
<1>2. sql[k + 1] \in Bytes
  BY <1>1
<1>3. "end" \notin Bytes
  BY Zenon DEF Bytes, Letters, Whitespace, High
<1> QED
  BY <1>2, <1>3, Zenon DEF Byte

\* What an inner loop knows, other than the one over a word.
LEMMA InnerKnows ==
  ASSUME GuardInv, JudgeInv, at \in {"line", "block", "string", "identifier"}
  PROVE  /\ Mode[i] = at /\ Seen(i, words, terminated) /\ i \in Nat /\ i <= length
         /\ i \notin InAWord /\ i \notin Begins /\ i \notin Terminators
         /\ at \in {"line", "block"} => i \notin Text
         /\ at \in {"string", "identifier"} => terminated = FALSE
         /\ sql \in Seq(Bytes) /\ terminated \in BOOLEAN
<1>1. /\ Mode[i] = at /\ Seen(i, words, terminated)
      /\ at \in {"string", "identifier"} => ~terminated
  BY DEF JudgeInv, Sound, Stands
<1>2. i \in Nat /\ i <= length /\ sql \in Seq(Bytes) /\ terminated \in BOOLEAN
  BY Bounds
<1>3. i \notin InAWord /\ i \notin Terminators /\ (at \in {"line", "block"} => i \notin Text)
  BY <1>1, <1>2, Skipped
<1>4. i \notin Begins
  BY <1>3 DEF Begins
<1> QED
  BY <1>1, <1>2, <1>3, <1>4, Zenon

LEMMA JudgeInLine ==
  ASSUME GuardInv, JudgeInv, InLine
  PROVE  JudgeInv'
<1>1. /\ at = "line" /\ sql' = sql /\ start' = start /\ words' = words
      /\ terminated' = terminated /\ result' = result
  BY DEF InLine
<1>2. /\ Mode[i] = "line" /\ Seen(i, words, terminated) /\ i \in Nat /\ i <= length
      /\ i \notin InAWord /\ i \notin Begins /\ i \notin Terminators /\ i \notin Text
      /\ sql \in Seq(Bytes) /\ terminated \in BOOLEAN
  BY <1>1, InnerKnows, Zenon
<1>3. CASE i < length /\ Byte(i) # "newline"
  <2>1. at' = "line" /\ i' = i + 1
    BY <1>1, <1>3 DEF InLine
  <2>2. Mode[i + 1] = "line"
    BY <1>2, <1>3, NextMode, Zenon
  <2>3. Seen(i + 1, words, terminated)
    BY <1>2, StepOver, Zenon
  <2>4. Sound("line", i + 1, start, words, terminated, result)
    BY <2>2, <2>3, SoundComment, Zenon
  <2> QED
    BY <1>1, <2>1, <2>4, LexerKept, Zenon
<1>4. CASE ~(i < length /\ Byte(i) # "newline")
  <2>1. at' = "outer" /\ i' = i
    BY <1>4 DEF InLine
  <2>2. length <= i \/ Byte(i) = "newline"
    BY <1>2, <1>4, Bounds
  <2>3. Sound("outer", i, start, words, terminated, result)
    BY <1>2, <2>2, SoundOuter, Zenon
  <2> QED
    BY <1>1, <2>1, <2>3, LexerKept, Zenon
<1> QED
  BY <1>3, <1>4, Zenon

LEMMA JudgeInBlock ==
  ASSUME GuardInv, JudgeInv, InBlock
  PROVE  JudgeInv'
<1>1. /\ at = "block" /\ sql' = sql /\ start' = start /\ words' = words
      /\ terminated' = terminated /\ result' = result
  BY DEF InBlock
<1>2. /\ Mode[i] = "block" /\ Seen(i, words, terminated) /\ i \in Nat /\ i <= length
      /\ i \notin InAWord /\ i \notin Begins /\ i \notin Terminators /\ i \notin Text
      /\ sql \in Seq(Bytes) /\ terminated \in BOOLEAN
  BY <1>1, InnerKnows, Zenon
<1>3. CASE i < length /\ ~(Byte(i) = "*" /\ Byte(i + 1) = "/")
  <2>1. at' = "block" /\ i' = i + 1
    BY <1>1, <1>3 DEF InBlock
  <2>2. Mode[i + 1] = "block"
    BY <1>2, <1>3, NextMode, Zenon
  <2>3. Seen(i + 1, words, terminated)
    BY <1>2, StepOver, Zenon
  <2>4. Sound("block", i + 1, start, words, terminated, result)
    BY <2>2, <2>3, SoundComment, Zenon
  <2> QED
    BY <1>1, <2>1, <2>4, LexerKept, Zenon
<1>4. CASE i < length /\ Byte(i) = "*" /\ Byte(i + 1) = "/"
  <2>1. i + 1 < length /\ i + 1 <= length /\ i + 1 \in Nat
    BY <1>2, <1>4, Inside
  <2>2. /\ i + 2 < length \/ i + 2 = length
        /\ (i + 1) + 1 = i + 2 /\ (i + 2) - 1 = i + 1
    BY <1>2, <2>1, Bounds
  <2>3. at' = "outer" /\ i' = i + 2
    <3>1. at' = "outer" /\ i' = (IF i + 2 < length THEN i + 2 ELSE length)
      BY <1>4 DEF InBlock
    <3> QED
      BY <2>2, <3>1, Zenon
  <2>4. Mode[i + 1] = "closing"
    BY <1>2, <1>4, NextMode, Zenon
  <2>5. Mode[(i + 1) + 1] = "code"
    BY <1>2, <2>1, <2>4, NextMode, Zenon
  <2>6. i + 1 \notin Terminators /\ i + 1 \notin InAWord /\ i + 1 \notin Text
    BY <1>2, <2>1, <2>4, Skipped, Zenon
  <2>7. Seen(i + 1, words, terminated)
    BY <1>2, StepOver, Zenon
  <2>8. Seen((i + 1) + 1, words, terminated)
    <3>1. i + 1 \notin Begins
      BY <2>6, Zenon DEF Begins
    <3> QED
      BY <1>2, <2>1, <2>6, <2>7, <3>1, StepOver, Zenon
  <2>9. Sound("outer", i + 2, start, words, terminated, result)
    BY <2>2, <2>5, <2>6, <2>8, SoundOuter, Zenon
  <2> QED
    BY <1>1, <2>3, <2>9, LexerKept, Zenon
<1>5. CASE ~(i < length)
  <2>1. i = length /\ length <= i
    BY <1>2, <1>5, Bounds
  <2>2. at' = "outer" /\ i' = i
    <3>1. at' = "outer" /\ i' = (IF i + 2 < length THEN i + 2 ELSE length)
      BY <1>5 DEF InBlock
    <3> QED
      BY <1>2, <2>1, <3>1, Bounds
  <2>3. Sound("outer", i, start, words, terminated, result)
    BY <1>2, <2>1, SoundOuter, Zenon
  <2> QED
    BY <1>1, <2>2, <2>3, LexerKept, Zenon
<1> QED
  BY <1>3, <1>4, <1>5, Zenon

LEMMA JudgeInString ==
  ASSUME GuardInv, JudgeInv, InString
  PROVE  JudgeInv'
<1>1. /\ at = "string" /\ sql' = sql /\ start' = start /\ words' = words
      /\ terminated' = terminated /\ result' = result
  BY DEF InString
<1>2. /\ Mode[i] = "string" /\ Seen(i, words, FALSE) /\ i \in Nat /\ i <= length
      /\ i \notin InAWord /\ i \notin Begins /\ i \notin Terminators
      /\ sql \in Seq(Bytes) /\ terminated = FALSE
  BY <1>1, InnerKnows, Zenon
<1>3. Seen(i + 1, words, FALSE) /\ (i + 1) - 1 = i
  <2>1. (i + 1) - 1 = i
    BY <1>2
  <2> QED
    BY <1>2, <2>1, StepOver, Zenon
<1>4. Byte(i) # "end" => i < length
  BY <1>2, Inside
<1>5. CASE Byte(i) = "'" /\ Byte(i + 1) # "'"
  <2>1. at' = "outer" /\ i' = i + 1
    BY <1>5, Zenon DEF InString
  <2>2. Mode[i + 1] = "code"
    BY <1>2, <1>4, <1>5, NextMode, Zenon
  <2>3. Sound("outer", i + 1, start, words, FALSE, result)
    BY <1>2, <1>3, <2>2, SoundOuter, Zenon
  <2> QED
    BY <1>1, <1>2, <2>1, <2>3, LexerKept, Zenon
<1>6. CASE Byte(i) = "'" /\ Byte(i + 1) = "'"
  <2>1. at' = "string" /\ i' = i + 2
    BY <1>1, <1>6, Zenon DEF InString
  <2>2. i + 1 < length /\ i + 1 <= length /\ i + 1 \in Nat /\ (i + 1) + 1 = i + 2
    BY <1>2, <1>6, Inside
  <2>3. Mode[i + 1] = "code"
    BY <1>2, <1>4, <1>6, NextMode, Zenon
  <2>4. Mode[(i + 1) + 1] = "string"
    BY <1>2, <1>6, <2>2, <2>3, NextMode, Zenon
  <2>5. i + 1 \notin Terminators /\ i + 1 \notin Begins
    <3>1. i + 1 \notin Terminators /\ i + 1 \notin InAWord
      BY <1>2, <1>6, <2>2, Skipped, Zenon DEF Letters, High
    <3> QED
      BY <3>1, Zenon DEF Begins
  <2>6. Seen((i + 1) + 1, words, FALSE)
    BY <1>2, <1>3, <2>2, <2>5, StepOver, Zenon
  <2>7. Sound("string", i + 2, start, words, FALSE, result)
    BY <2>2, <2>4, <2>6, SoundQuote, Zenon
  <2> QED
    BY <1>1, <1>2, <2>1, <2>7, LexerKept, Zenon
<1>7. CASE Byte(i) = "end"
  <2>1. at' = "outer" /\ i' = i
    BY <1>7, Zenon DEF InString
  <2>2. length <= i
    <3>1. i < length => Byte(i) # "end"
      BY <1>2, Present
    <3> QED
      BY <1>2, <1>7, <3>1, Bounds
  <2>3. Sound("outer", i, start, words, FALSE, result)
    BY <1>2, <2>2, SoundOuter, Zenon
  <2> QED
    BY <1>1, <1>2, <2>1, <2>3, LexerKept, Zenon
<1>8. CASE Byte(i) \notin {"'", "end"}
  <2>1. at' = "string" /\ i' = i + 1
    BY <1>1, <1>8, Zenon DEF InString
  <2>2. Mode[i + 1] = "string"
    BY <1>2, <1>4, <1>8, NextMode, Zenon
  <2>3. Sound("string", i + 1, start, words, FALSE, result)
    BY <1>3, <2>2, SoundQuote, Zenon
  <2> QED
    BY <1>1, <1>2, <2>1, <2>3, LexerKept, Zenon
<1> QED
  BY <1>5, <1>6, <1>7, <1>8, Zenon

LEMMA JudgeInIdentifier ==
  ASSUME GuardInv, JudgeInv, InIdentifier
  PROVE  JudgeInv'
<1>1. /\ at = "identifier" /\ i' = i + 1 /\ sql' = sql /\ start' = start /\ words' = words
      /\ terminated' = terminated /\ result' = result
  BY Zenon DEF InIdentifier
<1>2. /\ Mode[i] = "identifier" /\ Seen(i, words, FALSE) /\ i \in Nat /\ i <= length
      /\ i \notin InAWord /\ i \notin Begins /\ i \notin Terminators
      /\ sql \in Seq(Bytes) /\ terminated = FALSE
  BY <1>1, InnerKnows, Zenon
<1>3. Seen(i + 1, words, FALSE) /\ (i + 1) - 1 = i
  <2>1. (i + 1) - 1 = i
    BY <1>2
  <2> QED
    BY <1>2, <2>1, StepOver, Zenon
<1>4. CASE i < length /\ Byte(i) # "\""
  <2>1. at' = "identifier"
    BY <1>1, <1>4, Zenon DEF InIdentifier
  <2>2. Mode[i + 1] = "identifier"
    BY <1>2, <1>4, NextMode, Zenon
  <2>3. Sound("identifier", i + 1, start, words, FALSE, result)
    BY <1>3, <2>2, SoundQuote, Zenon
  <2> QED
    BY <1>1, <1>2, <2>1, <2>3, LexerKept, Zenon
<1>5. CASE ~(i < length /\ Byte(i) # "\"")
  <2>1. at' = "outer"
    BY <1>5, Zenon DEF InIdentifier
  <2>2. length <= i + 1 \/ Mode[i + 1] = "code"
    <3>1. CASE i < length
      BY <1>2, <1>5, <3>1, NextMode, Zenon
    <3>2. CASE ~(i < length)
      BY <1>2, <3>2, Bounds
    <3> QED
      BY <3>1, <3>2
  <2>3. Sound("outer", i + 1, start, words, FALSE, result)
    BY <1>2, <1>3, <2>2, SoundOuter, Zenon
  <2> QED
    BY <1>1, <1>2, <2>1, <2>3, LexerKept, Zenon
<1> QED
  BY <1>4, <1>5, Zenon

LEMMA JudgeInWord ==
  ASSUME GuardInv, JudgeInv, InWord
  PROVE  JudgeInv'
<1>1. at = "word" /\ sql' = sql /\ start' = start /\ terminated' = terminated /\ result' = result
  BY Zenon DEF InWord
<1>2. /\ Mode[i] = "code" /\ Seen(start, words, FALSE) /\ start \in Begins
      /\ start .. i - 1 \subseteq InAWord /\ terminated = FALSE
  <2>1. terminated \in BOOLEAN
    BY Bounds
  <2> QED
    BY <1>1, <2>1, Zenon DEF JudgeInv, Sound, Stands
<1>3. /\ i \in Nat /\ start \in Nat /\ start <= i /\ i <= length /\ sql \in Seq(Bytes)
  BY <1>1, Bounds DEF GuardInv, Walking
<1>4. Byte(i) # "end" => i < length
  BY <1>3, Inside
<1>5. start \in InAWord /\ start - 1 \notin InAWord
  BY <1>2, Zenon DEF Begins
<1>6. CASE Byte(i) \in Letters \cup High
  <2>1. at' = "word" /\ i' = i + 1 /\ words' = words
    BY <1>1, <1>6, Zenon DEF InWord
  <2>2. Byte(i) \notin {"-", "/", "'", "\"", "end"}
    BY <1>6, Zenon DEF Letters, High
  <2>3. Mode[i + 1] = "code"
    BY <1>2, <1>3, <1>4, <2>2, NextMode, Zenon
  <2>4. i \in InAWord
    <3>1. CASE Byte(i) \in Letters
      BY <1>2, <1>3, <1>4, <2>2, <3>1, WordBytes, Zenon
    <3>2. CASE Byte(i) \in High
      <4>1. CASE i = start
        BY <1>5, <4>1
      <4>2. CASE i # start
        <5>1. i - 1 \in start .. i - 1
          BY <1>3, <4>2
        <5>2. i - 1 \in InAWord
          BY <1>2, <5>1, Zenon
        <5> QED
          BY <1>2, <1>3, <1>4, <2>2, <3>2, <5>2, WordBytes, Zenon
      <4> QED
        BY <4>1, <4>2
    <3> QED
      BY <1>6, <3>1, <3>2, Zenon
  <2>5. start .. (i + 1) - 1 \subseteq InAWord
    <3>1. \A m \in start .. (i + 1) - 1 : m = i \/ m \in start .. i - 1
      BY <1>3
    <3> QED
      BY <1>2, <2>4, <3>1, Zenon
  <2>6. Sound("word", i + 1, start, words, FALSE, result)
    BY <1>2, <2>3, <2>5, SoundWord, Zenon
  <2> QED
    BY <1>1, <1>2, <2>1, <2>6, LexerKept, Zenon
<1>7. CASE Byte(i) \notin Letters \cup High
  <2> DEFINE w == IF Len(words) < 2 THEN Append(words, Slice) ELSE words
  <2>1. at' = "outer" /\ i' = i /\ words' = w
    BY <1>7, Zenon DEF InWord
  <2>2. i \notin InAWord
    BY <1>3, <1>7, WordBytes, Zenon
  <2>3. start < i
    <3>1. start # i
      BY <1>5, <2>2
    <3> QED
      BY <1>3, <3>1
  <2>4. Seen(i, w, FALSE)
    BY <1>2, <1>3, <2>2, <2>3, StepOverWord
  <2> HIDE DEF w
  <2>5. Sound("outer", i, start, w, FALSE, result)
    BY <1>2, <2>2, <2>4, SoundOuter, Zenon
  <2> QED
    BY <1>1, <1>2, <2>1, <2>5, LexerKept, Zenon
<1> QED
  BY <1>6, <1>7, Zenon

LEMMA JudgeClassify ==
  ASSUME GuardInv, JudgeInv, Classify
  PROVE  JudgeInv'
<1>1. /\ at = "outer" /\ Byte(i) = "end" /\ at' = "done" /\ result' = Kind(words)
      /\ sql' = sql /\ i' = i /\ start' = start /\ words' = words
      /\ terminated' = terminated
  BY DEF Classify
<1>2. /\ Seen(i, words, terminated) /\ i \in Nat /\ length \in Nat /\ sql \in Seq(Bytes)
      /\ words \in Seq(Seq(Bytes)) /\ Len(words) <= 2
  BY <1>1, OuterKnows, Bounds
<1>3. length <= i /\ i \in 0 .. length + 1
  <2>1. i < length => Byte(i) # "end"
    BY <1>2, Present
  <2>2. i <= length + 1
    BY DEF GuardInv, TypeOK
  <2> QED
    BY <1>1, <1>2, <2>1, <2>2
<1>4. words = FirstTwo(Begins)
  <2>1. \A k \in Begins : k < i
    <3>1. \A k \in Begins : k \in 0 .. length - 1
      BY Zenon DEF Begins, InAWord
    <3> QED
      BY <1>2, <1>3, <3>1
  <2>2. {k \in Begins : k < i} = Begins
    BY <2>1
  <2>3. WordsBefore[i] = FirstTwo({k \in Begins : k < i})
    BY <1>3 DEF WordsBefore
  <2> QED
    BY <1>2, <2>2, <2>3 DEF Seen
<1>5. ~(\E k \in Terminators, t \in Text : k < t)
  <2> SUFFICES ASSUME NEW k \in Terminators, NEW t \in Text, k < t PROVE FALSE
    OBVIOUS
  <2>1. i <= t
    BY <1>2 DEF Seen
  <2>2. t \in 0 .. length - 1
    BY Zenon DEF Text
  <2> QED
    BY <1>2, <1>3, <2>1, <2>2
<1>6. Verdict = Kind(words)
  BY <1>2, <1>4, <1>5, KindIsClassified, Zenon DEF Verdict
<1>7. Sound("done", i, start, words, terminated, Kind(words))
  BY <1>6 DEF Sound
<1> QED
  BY <1>1, <1>7, LexerKept

LEMMA JudgeStep == GuardInv /\ JudgeInv /\ [Next]_vars => JudgeInv'
<1> SUFFICES ASSUME GuardInv, JudgeInv, [Next]_vars PROVE JudgeInv'
  OBVIOUS
<1>1. CASE UNCHANGED vars
  <2>1. /\ sql' = sql /\ at' = at /\ i' = i /\ start' = start /\ words' = words
        /\ terminated' = terminated /\ result' = result
    BY <1>1, Zenon DEF vars
  <2>2. Sound(at', i', start', words', terminated', result')
    BY <2>1, Zenon DEF JudgeInv
  <2> QED
    BY <2>1, <2>2, LexerKept
<1>2. CASE Next
  BY <1>2, JudgeLineComment, JudgeBlockComment, JudgeSemicolon, JudgeSpace,
     JudgeSecondStatement, JudgeSignificant, JudgeInLine, JudgeInBlock, JudgeInString,
     JudgeInIdentifier, JudgeInWord, JudgeClassify, Zenon DEF Next
<1> QED
  BY <1>1, <1>2

\* The guard's verdict on every statement is the lexer's: what it lets through
\* is one statement of the kind it says, whatever quotes, comments and
\* terminators it holds (inspect, scan).
THEOREM JudgesEveryStatement == Spec => []JudgesCorrectly
<1>1. JudgeInv => JudgesCorrectly
  BY DEF JudgeInv, Sound, JudgesCorrectly
<1> QED
  BY <1>1, GuardInit, GuardStep, JudgeInit, JudgeStep, PTL DEF Spec


=============================================================================

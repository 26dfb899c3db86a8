---------------------------- MODULE ProseProofs ----------------------------
(* Proofs about Prose, for names and lists of any length: what the client    *)
(* parses out of the server's prose is what the server put into it.          *)
EXTENDS Prose, NatFacts, SequenceTheorems

Chars == Characters \cup {Blank, Comma}
Texts == Seq(Chars)
Lists == Seq(Texts)

LEMMA BlankIsNoComma == Blank # Comma
  BY Zenon DEF Blank, Comma

-----------------------------------------------------------------------------
(* Splitting a text.                                                         *)

LEMMA FurtherType ==
  ASSUME NEW T, NEW pieces \in Seq(Seq(T)), NEW c \in T, pieces # <<>>
  PROVE  Further(pieces, c) \in Seq(Seq(T)) /\ Further(pieces, c) # <<>>
<1> DEFINE S == Seq(T)
<1>1. CASE c = Comma
  <2>1. <<>> \in S
    OBVIOUS
  <2> HIDE DEF S
  <2>2. Append(pieces, <<>>) \in Seq(S) /\ Append(pieces, <<>>) # <<>>
    BY <2>1 DEF S
  <2> QED
    BY <1>1, <2>2 DEF Further, S
<1>2. CASE c # Comma
  <2>1. \A v \in S : Append(v, c) \in S
    OBVIOUS
  <2> HIDE DEF S
  <2>2. pieces \in Seq(S)
    BY DEF S
  <2>3. Len(pieces) \in 1 .. Len(pieces) /\ pieces[Len(pieces)] \in S
    BY <2>2
  <2>4. Append(pieces[Len(pieces)], c) \in S
    BY <2>1, <2>3
  <2> DEFINE q == [pieces EXCEPT ![Len(pieces)] = Append(pieces[Len(pieces)], c)]
  <2>5. q \in Seq(S) /\ Len(q) = Len(pieces)
    BY <2>2, <2>3, <2>4, ExceptSeq
  <2>6. q # <<>>
    <3> HIDE DEF q
    <3> QED
      BY <2>3, <2>5
  <2>7. Further(pieces, c) = q
    BY <1>2 DEF Further
  <2> QED
    BY <2>5, <2>6, <2>7 DEF S
<1> QED
  BY <1>1, <1>2

\* `Pieces` is a loop over the characters.
LEMMA PiecesTurns ==
  ASSUME NEW T, NEW s \in Seq(T)
  PROVE  /\ Pieces(s)[0] = <<<<>>>>
         /\ \A k \in 1 .. Len(s) : Pieces(s)[k] = Further(Pieces(s)[k - 1], s[k])
<1> DEFINE n == Len(s)
           P == Seq(Seq(T)) \ {<<>>}
           begun == <<<<>>>>
           turn == [k \in 1 .. n |-> [p \in P |-> Further(p, s[k])]]
<1>1. n \in Nat /\ begun \in P /\ \A k \in 1 .. n : s[k] \in T
  OBVIOUS
<1>2. turn \in [1 .. n -> [P -> P]]
  <2>1. \A k \in 1 .. n : \A p \in P : Further(p, s[k]) \in P
    BY <1>1, FurtherType
  <2> HIDE DEF P, n
  <2> QED
    BY <2>1
<1>3. PICK f \in [0 .. n -> P] : Runs(f, n, begun, turn)
  <2> HIDE DEF n, turn, P, begun
  <2> QED
    BY <1>1, <1>2, LoopExists, Zenon
<1>4. f[0] = begun
  BY <1>3, Zenon DEF Runs
<1>5. ASSUME NEW k \in 1 .. n PROVE f[k] = Further(f[k - 1], s[k])
  <2>1. k - 1 \in 0 .. n
    BY <1>1
  <2>2. f[k - 1] \in P
    <3> HIDE DEF P
    <3> QED
      BY <1>3, <2>1
  <2>3. turn[k][f[k - 1]] = Further(f[k - 1], s[k])
    <3> HIDE DEF P
    <3> QED
      BY <2>2
  <2> HIDE DEF turn
  <2> QED
    BY <1>3, <2>3, Zenon DEF Runs
<1>6. f = [k \in 0 .. n |-> IF k = 0 THEN begun ELSE Further(f[k - 1], s[k])]
  <2>1. \A k \in 0 .. n : k = 0 \/ k \in 1 .. n
    BY <1>1
  <2>2. \A k \in 0 .. n : f[k] = IF k = 0 THEN begun ELSE Further(f[k - 1], s[k])
    <3> HIDE DEF n, begun, turn, P
    <3> QED
      BY <1>4, <1>5, <2>1, Zenon
  <2> HIDE DEF n, begun, turn, P
  <2> QED
    BY <2>2
<1>7. Pieces(s) = [k \in 0 .. n |-> IF k = 0 THEN begun ELSE Further(Pieces(s)[k - 1], s[k])]
  BY <1>6, Zenon DEF Pieces
<1>8. \A k \in 0 .. n : Pieces(s)[k] = IF k = 0 THEN begun ELSE Further(Pieces(s)[k - 1], s[k])
  <2> HIDE DEF n, begun
  <2> QED
    BY <1>7, Zenon
<1>9. 0 \in 0 .. n /\ \A k \in 1 .. n : k \in 0 .. n /\ k # 0
  BY <1>1
<1> QED
  <2> HIDE DEF turn, P
  <2> QED
    BY <1>8, <1>9, Zenon

\* A text one character longer.
LEMMA SplitFurther ==
  ASSUME NEW T, NEW s \in Seq(T), NEW c \in T
  PROVE  Split(Append(s, c)) = Further(Split(s), c)
<1> DEFINE n == Len(s)
           t == Append(s, c)
           H == {k \in 0 .. n : Pieces(t)[k] = Pieces(s)[k]}
<1>1. /\ n \in Nat /\ t \in Seq(T) /\ Len(t) = n + 1 /\ t[n + 1] = c
      /\ \A k \in 1 .. n : t[k] = s[k]
  OBVIOUS
<1>2. /\ Pieces(t)[0] = <<<<>>>>
      /\ \A k \in 1 .. Len(t) : Pieces(t)[k] = Further(Pieces(t)[k - 1], t[k])
  <2> HIDE DEF t
  <2> QED
    BY <1>1, PiecesTurns
<1>3. /\ Pieces(s)[0] = <<<<>>>>
      /\ \A k \in 1 .. n : Pieces(s)[k] = Further(Pieces(s)[k - 1], s[k])
  BY PiecesTurns
<1> HIDE DEF t
<1>4. 0 \in H
  BY <1>1, <1>2, <1>3
<1>5. ASSUME NEW k \in 1 .. n, k - 1 \in H PROVE k \in H
  <2>1. k \in 1 .. Len(t) /\ k \in 0 .. n
    BY <1>1
  <2>2. Pieces(t)[k - 1] = Pieces(s)[k - 1]
    BY <1>5
  <2>3. Pieces(t)[k] = Pieces(s)[k]
    BY <1>1, <1>2, <1>3, <2>1, <2>2
  <2> QED
    BY <2>1, <2>3
<1>6. n \in H
  <2> HIDE DEF H, n
  <2>1. \A k \in 0 .. n : k \in H
    BY <1>1, <1>4, <1>5, Turns
  <2> QED
    BY <1>1, <2>1
<1>7. Pieces(t)[n + 1] = Further(Pieces(t)[n], c)
  <2>1. n + 1 \in 1 .. Len(t) /\ (n + 1) - 1 = n
    BY <1>1
  <2> QED
    BY <1>1, <1>2, <2>1
<1> QED
  BY <1>1, <1>6, <1>7 DEF Split, t

LEMMA SplitNothing == Split(<<>>) = <<<<>>>>
<1>1. <<>> \in Seq(Nat) /\ Len(<<>>) = 0
  OBVIOUS
<1>2. Pieces(<<>>)[0] = <<<<>>>>
  BY <1>1, PiecesTurns
<1> QED
  BY <1>1, <1>2 DEF Split

\* A comma begins a piece, any other character goes on with the last.
LEMMA FurtherIs ==
  ASSUME NEW T, NEW before \in Seq(Seq(T)), NEW last \in Seq(T), NEW c \in T
  PROVE  Further(Append(before, last), c)
           = IF c = Comma THEN Append(Append(before, last), <<>>)
             ELSE Append(before, Append(last, c))
<1> DEFINE S == Seq(T)
           p == Append(before, last)
           n == Len(before) + 1
           v == Append(last, c)
<1>1. v \in S
  OBVIOUS
<1> SUFFICES ASSUME c # Comma PROVE Further(p, c) = Append(before, v)
  BY DEF Further
<1>2. before \in Seq(S) /\ last \in S
  OBVIOUS
<1> HIDE DEF S
<1>3. p \in Seq(S) /\ Len(p) = n /\ p[n] = last /\ n \in 1 .. Len(p)
  BY <1>2
<1>4. [p EXCEPT ![n] = v] = Append(before, v)
  <2> HIDE DEF v
  <2>1. Append(before, v) \in Seq(S) /\ Len(Append(before, v)) = n
    BY <1>1, <1>2
  <2>2. [p EXCEPT ![n] = v] \in Seq(S) /\ Len([p EXCEPT ![n] = v]) = n
    <3> HIDE DEF p, n
    <3> QED
      BY <1>1, <1>3, ExceptSeq
  <2>3. \A k \in 1 .. n : [p EXCEPT ![n] = v][k] = Append(before, v)[k]
    <3>1. \A k \in 1 .. n : [p EXCEPT ![n] = v][k] = IF k = n THEN v ELSE p[k]
      <4> HIDE DEF p, n
      <4> QED
        BY <1>1, <1>3, ExceptSeq
    <3>2. \A k \in 1 .. n : Append(before, v)[k] = IF k = n THEN v ELSE p[k]
      BY <1>1, <1>2
    <3> HIDE DEF p, n
    <3> QED
      BY <3>1, <3>2
  <2> HIDE DEF p, n
  <2> QED
    BY <2>1, <2>2, <2>3, SeqEqual
<1>5. Further(p, c) = [p EXCEPT ![n] = v]
  <2> HIDE DEF p, n
  <2>1. Further(p, c) = [p EXCEPT ![Len(p)] = Append(p[Len(p)], c)]
    BY DEF Further
  <2> QED
    BY <1>3, <2>1 DEF v
<1> QED
  BY <1>4, <1>5

LEMMA ConcatAppend ==
  ASSUME NEW T, NEW s \in Seq(T), NEW u \in Seq(T), NEW c \in T
  PROVE  s \o Append(u, c) = Append(s \o u, c)
<1> DEFINE a == s \o Append(u, c)
           b == Append(s \o u, c)
           n == Len(s) + Len(u) + 1
<1>1. a \in Seq(T) /\ b \in Seq(T) /\ Len(a) = n /\ Len(b) = n
  OBVIOUS
<1>2. \A k \in 1 .. n : a[k] = b[k]
  OBVIOUS
<1> HIDE DEF a, b
<1>3. a = b
  BY <1>1, <1>2, SeqEqual
<1> QED
  BY <1>3 DEF a, b

\* Any character but a comma goes on with the last piece.
LEMMA SplitCharacter ==
  ASSUME NEW s \in Texts, NEW before \in Lists, NEW last \in Texts,
         NEW c \in Chars, c # Comma, Split(s) = Append(before, last)
  PROVE  Split(Append(s, c)) = Append(before, Append(last, c))
<1>1. s \in Seq(Chars) /\ before \in Seq(Seq(Chars)) /\ last \in Seq(Chars)
  BY Zenon DEF Texts, Lists
<1>2. Split(Append(s, c)) = Further(Append(before, last), c)
  BY <1>1, SplitFurther
<1>3. Further(Append(before, last), c) = Append(before, Append(last, c))
  BY <1>1, FurtherIs
<1> QED
  BY <1>2, <1>3

LEMMA TextFacts ==
  ASSUME NEW s \in Texts, NEW v \in Texts, NEW c \in Chars
  PROVE  /\ s \o v \in Texts /\ Append(s, c) \in Texts
         /\ s \o Append(v, c) = Append(s \o v, c)
         /\ s \o <<>> = s /\ <<>> \o s = s /\ <<>> \in Texts /\ <<c>> \in Texts
<1>1. s \o v \in Texts /\ Append(s, c) \in Texts
  BY DEF Texts
<1>2. s \o Append(v, c) = Append(s \o v, c)
  BY ConcatAppend DEF Texts
<1>3. s \o <<>> = s /\ <<>> \o s = s
  BY DEF Texts
<1>4. <<>> \in Texts /\ <<c>> \in Texts
  BY DEF Texts
<1> QED
  BY <1>1, <1>2, <1>3, <1>4

\* The pieces of s are those of `before`, and `last`.
Ending(s, before, last) == Split(s) = Append(before, last)

LEMMA SplitLonger ==
  ASSUME NEW s \in Texts, NEW before \in Lists, NEW last \in Texts,
         NEW v \in Texts, NEW c \in Chars, c # Comma,
         Ending(s \o v, before, last \o v)
  PROVE  Ending(s \o Append(v, c), before, last \o Append(v, c))
<1>1. s \o v \in Texts /\ last \o v \in Texts
  BY TextFacts, Zenon
<1>2. Split(Append(s \o v, c)) = Append(before, Append(last \o v, c))
  BY <1>1, SplitCharacter, Zenon DEF Ending
<1>3. s \o Append(v, c) = Append(s \o v, c)
  BY TextFacts
<1>4. last \o Append(v, c) = Append(last \o v, c)
  BY TextFacts
<1> QED
  BY <1>2, <1>3, <1>4 DEF Ending

\* A word without commas goes on with the last piece.
LEMMA SplitWord ==
  ASSUME NEW s \in Texts, NEW before \in Lists, NEW last \in Texts, NEW w \in Texts,
         \A k \in 1 .. Len(w) : w[k] # Comma,
         Ending(s, before, last)
  PROVE  Ending(s \o w, before, last \o w)
<1> DEFINE n == Len(w)
           u(k) == SubSeq(w, 1, k)
           H == {k \in 0 .. n : Ending(s \o u(k), before, last \o u(k))}
<1>1. n \in Nat /\ u(0) = <<>> /\ u(n) = w
  BY DEF Texts
<1>2. 0 \in H
  <2>1. s \o <<>> = s /\ last \o <<>> = last
    BY DEF Texts
  <2> HIDE DEF u
  <2>2. Ending(s \o u(0), before, last \o u(0))
    BY <1>1, <2>1
  <2>3. 0 \in 0 .. n
    BY <1>1
  <2> QED
    BY <2>2, <2>3
<1>3. ASSUME NEW k \in 1 .. n, k - 1 \in H PROVE k \in H
  <2>1. u(k) = Append(u(k - 1), w[k]) /\ u(k - 1) \in Texts
    <3>1. /\ u(k) \in Seq(Chars) /\ u(k - 1) \in Seq(Chars)
          /\ Len(u(k)) = k /\ Len(u(k - 1)) = k - 1
      BY DEF Texts
    <3>2. \A j \in 1 .. k : u(k)[j] = w[j] /\ (j <= k - 1 => u(k - 1)[j] = w[j])
      BY DEF Texts
    <3> DEFINE v == Append(u(k - 1), w[k])
    <3>3. w[k] \in Chars
      BY DEF Texts
    <3> HIDE DEF u
    <3>4. v \in Seq(Chars) /\ Len(v) = k /\ \A j \in 1 .. k : v[j] = w[j]
      BY <3>1, <3>2, <3>3
    <3> HIDE DEF v
    <3>5. u(k) = v
      BY <3>1, <3>2, <3>4, SeqEqual
    <3> QED
      BY <3>1, <3>5 DEF v, Texts
  <2> HIDE DEF u
  <2>2. w[k] \in Chars /\ w[k] # Comma
    BY DEF Texts
  <2>3. Ending(s \o u(k - 1), before, last \o u(k - 1))
    BY <1>3
  <2> DEFINE v == u(k - 1)
             c == w[k]
  <2>4. v \in Texts /\ c \in Chars /\ c # Comma /\ Ending(s \o v, before, last \o v)
    BY <2>1, <2>2, <2>3
  <2>5. u(k) = Append(v, c)
    BY <2>1
  <2> HIDE DEF v, c, H, n
  <2>6. Ending(s \o Append(v, c), before, last \o Append(v, c))
    BY <2>4, SplitLonger, Zenon
  <2>7. Ending(s \o u(k), before, last \o u(k))
    BY <2>5, <2>6, Zenon
  <2>8. k \in 0 .. n
    BY <1>1
  <2> QED
    BY <2>7, <2>8, Zenon DEF H
<1>4. n \in H
  <2> HIDE DEF H, n
  <2>1. \A k \in 0 .. n : k \in H
    BY <1>1, <1>2, <1>3, Turns
  <2> QED
    BY <1>1, <2>1
<1> QED
  <2> HIDE DEF u, n
  <2> QED
    BY <1>1, <1>4

-----------------------------------------------------------------------------
(* A list of names.                                                          *)

\* `Joined` is a loop over the names.
LEMMA JoinedTurns ==
  ASSUME NEW T, Blank \in T, Comma \in T, NEW list \in Seq(Seq(T))
  PROVE  /\ Joined(list)[0] = <<>>
         /\ \A k \in 0 .. Len(list) : Joined(list)[k] \in Seq(T)
         /\ \A k \in 1 .. Len(list) :
              Joined(list)[k] = IF k = 1 THEN list[1]
                                ELSE Joined(list)[k - 1] \o <<Comma, Blank>> \o list[k]
<1> DEFINE n == Len(list)
           S == Seq(T)
           Longer(k, t) == IF k = 1 THEN list[1] ELSE t \o <<Comma, Blank>> \o list[k]
           turn == [k \in 1 .. n |-> [t \in S |-> Longer(k, t)]]
<1>1. n \in Nat /\ <<>> \in S /\ \A k \in 1 .. n : list[k] \in S
  OBVIOUS
<1>2. \A k \in 1 .. n : \A t \in S : Longer(k, t) \in S
  <2> SUFFICES ASSUME NEW k \in 1 .. n, NEW t \in S PROVE Longer(k, t) \in S
    OBVIOUS
  <2>1. <<Comma, Blank>> \in Seq(T)
    OBVIOUS
  <2>2. t \o <<Comma, Blank>> \in Seq(T)
    BY <2>1, ConcatProperties
  <2>3. list[k] \in Seq(T)
    BY <1>1
  <2>4. (t \o <<Comma, Blank>>) \o list[k] \in Seq(T)
    BY <2>2, <2>3, ConcatProperties
  <2>5. k = 1 => list[1] \in S
    BY <1>1
  <2> QED
    BY <2>4, <2>5
<1> HIDE DEF Longer
<1>3. turn \in [1 .. n -> [S -> S]]
  <2> HIDE DEF S, n
  <2> QED
    BY <1>2
<1>4. PICK f \in [0 .. n -> S] : Runs(f, n, <<>>, turn)
  <2> HIDE DEF n, turn, S
  <2> QED
    BY <1>1, <1>3, LoopExists, Zenon
<1>5. f[0] = <<>>
  BY <1>4, Zenon DEF Runs
<1>6. ASSUME NEW k \in 1 .. n PROVE f[k] = Longer(k, f[k - 1])
  <2>1. k - 1 \in 0 .. n
    BY <1>1
  <2>2. f[k - 1] \in S
    <3> HIDE DEF S
    <3> QED
      BY <1>4, <2>1
  <2>3. turn[k][f[k - 1]] = Longer(k, f[k - 1])
    <3> HIDE DEF S
    <3> QED
      BY <2>2
  <2> HIDE DEF turn
  <2> QED
    BY <1>4, <2>3, Zenon DEF Runs
<1>7. f = [k \in 0 .. n |-> IF k = 0 THEN <<>>
                            ELSE IF k = 1 THEN list[1]
                            ELSE f[k - 1] \o <<Comma, Blank>> \o list[k]]
  <2>1. \A k \in 0 .. n : k = 0 \/ k \in 1 .. n
    BY <1>1
  <2>2. \A k \in 0 .. n : f[k] = IF k = 0 THEN <<>> ELSE Longer(k, f[k - 1])
    <3> HIDE DEF n, turn, S
    <3> QED
      BY <1>5, <1>6, <2>1, Zenon
  <2>3. f = [k \in 0 .. n |-> IF k = 0 THEN <<>> ELSE Longer(k, f[k - 1])]
    <3> HIDE DEF n, turn, S
    <3> QED
      BY <2>2
  <2> HIDE DEF n, turn, S
  <2> QED
    BY <2>3, Zenon DEF Longer
<1>8. Joined(list) = [k \in 0 .. n |-> IF k = 0 THEN <<>>
                            ELSE IF k = 1 THEN list[1]
                            ELSE Joined(list)[k - 1] \o <<Comma, Blank>> \o list[k]]
      /\ Joined(list) \in [0 .. n -> S]
  <2> DEFINE Is(g) == g = [k \in 0 .. n |-> IF k = 0 THEN <<>>
                            ELSE IF k = 1 THEN list[1]
                            ELSE g[k - 1] \o <<Comma, Blank>> \o list[k]]
  <2>1. Joined(list) = CHOOSE g : Is(g)
    BY Zenon DEF Joined
  <2>2. Is(Joined(list))
    <3>1. Is(f)
      BY <1>7, Zenon
    <3> HIDE DEF Is
    <3> QED
      BY <2>1, <3>1, Zenon
  <2>3. \A k \in 0 .. n : k \in Nat /\ (k = 0 \/ k \in 1 .. n)
    BY <1>1
  <2>4. \A k \in 0 .. n : Joined(list)[k]
          = IF k = 0 THEN <<>> ELSE Longer(k, Joined(list)[k - 1])
    <3> HIDE DEF n, S, turn
    <3> QED
      BY <2>2, Zenon DEF Longer
  <2> DEFINE H == {k \in 0 .. n : Joined(list)[k] \in S}
  <2>5. 0 \in H /\ \A k \in 1 .. n : k - 1 \in H => k \in H
    <3>1. \A k \in 1 .. n : k \in 0 .. n /\ k # 0
      BY <1>1
    <3>2. 0 \in 0 .. n
      BY <1>1
    <3> HIDE DEF n, S, turn, Is
    <3> QED
      BY <1>1, <1>2, <2>4, <3>1, <3>2, Zenon
  <2>6. \A k \in 0 .. n : k \in H
    <3> HIDE DEF n, H
    <3> QED
      BY <1>1, <2>5, Turns
  <2>7. Joined(list) \in [0 .. n -> S]
    <3>1. \A k \in 0 .. n : Joined(list)[k] \in S
      BY <2>6
    <3>2. Joined(list) = [k \in 0 .. n |-> Joined(list)[k]]
      <4> HIDE DEF n, S, H
      <4> QED
        BY <2>2
    <3> HIDE DEF n, S, H, Is
    <3> QED
      BY <3>1, <3>2
  <2> QED
    BY <2>2, <2>7
<1>9. 0 \in 0 .. n /\ \A k \in 1 .. n : k \in 0 .. n /\ k # 0
  BY <1>1
<1>10. \A k \in 0 .. n : Joined(list)[k] = IF k = 0 THEN <<>>
                            ELSE IF k = 1 THEN list[1]
                            ELSE Joined(list)[k - 1] \o <<Comma, Blank>> \o list[k]
  <2> HIDE DEF n, S, turn
  <2> QED
    BY <1>8, Zenon
<1>11. \A k \in 0 .. n : Joined(list)[k] \in S
  <2> HIDE DEF n, S, turn
  <2> QED
    BY <1>8
<1> QED
  <2> HIDE DEF turn
  <2> QED
    BY <1>9, <1>10, <1>11, Zenon

\* The first m pieces of a list.
Lines(list, m) == [k \in 1 .. m |-> <<Blank>> \o list[k]]

LEMMA LinesFacts ==
  ASSUME NEW list \in Lists
  PROVE  /\ \A k \in 1 .. Len(list) : list[k] \in Texts /\ <<Blank>> \o list[k] \in Texts
         /\ Lines(list, 0) = <<>>
         /\ \A m \in 0 .. Len(list) : Lines(list, m) \in Lists
         /\ \A m \in 1 .. Len(list) :
              Lines(list, m) = Append(Lines(list, m - 1), <<Blank>> \o list[m])
<1> DEFINE S == Texts
<1>1. Len(list) \in Nat /\ \A k \in 1 .. Len(list) : list[k] \in S
  <2>1. list \in Seq(S)
    BY Zenon DEF Lists
  <2> HIDE DEF S
  <2> QED
    BY <2>1
<1>2. Blank \in Chars
  BY DEF Chars
<1>3. \A t \in S : <<Blank>> \o t \in S
  <2>1. <<Blank>> \in Texts
    BY <1>2 DEF Texts
  <2> QED
    BY <2>1, TextFacts, <1>2
<1>4. Lines(list, 0) = <<>>
  BY DEF Lines
<1> HIDE DEF S
<1>5. ASSUME NEW m \in 0 .. Len(list) PROVE Lines(list, m) \in Seq(S) /\ Len(Lines(list, m)) = m
  BY <1>1, <1>3 DEF Lines
<1>6. ASSUME NEW m \in 1 .. Len(list)
      PROVE  Lines(list, m) = Append(Lines(list, m - 1), <<Blank>> \o list[m])
  <2> DEFINE piece == <<Blank>> \o list[m]
             before == Lines(list, m - 1)
             both == Append(before, piece)
  <2>1. m - 1 \in 0 .. Len(list) /\ m \in 0 .. Len(list) /\ (m - 1) + 1 = m
    BY <1>1
  <2>2. before \in Seq(S) /\ Len(before) = m - 1 /\ piece \in S
    BY <1>1, <1>3, <1>5, <2>1
  <2>3. both \in Seq(S) /\ Len(both) = m
    <3> HIDE DEF before, piece
    <3> QED
      BY <2>1, <2>2
  <2>4. \A k \in 1 .. m : both[k] = <<Blank>> \o list[k]
    <3> SUFFICES ASSUME NEW k \in 1 .. m PROVE both[k] = <<Blank>> \o list[k]
      OBVIOUS
    <3>1. both[k] = IF k = m THEN piece ELSE before[k]
      <4> HIDE DEF before, piece
      <4> QED
        BY <2>1, <2>2
    <3>2. k # m => k \in 1 .. m - 1
      BY <2>1
    <3>3. k # m => before[k] = <<Blank>> \o list[k]
      BY <3>2 DEF Lines
    <3> HIDE DEF before, both
    <3> QED
      BY <3>1, <3>3
  <2>5. Lines(list, m) \in Seq(S) /\ Len(Lines(list, m)) = m
    BY <1>5, <2>1
  <2>6. \A k \in 1 .. m : Lines(list, m)[k] = <<Blank>> \o list[k]
    BY DEF Lines
  <2>7. Lines(list, m) = both
    <3> HIDE DEF both
    <3> QED
      BY <2>3, <2>4, <2>5, <2>6, SeqEqual
  <2> QED
    BY <2>7
<1> QED
  BY <1>1, <1>3, <1>4, <1>5, <1>6 DEF S, Lists

\* What stands in front of one name and behind another.
LEMMA Glue ==
  ASSUME NEW j \in Texts, NEW w \in Texts
  PROVE  <<Blank>> \o (j \o <<Comma, Blank>> \o w)
           = Append(Append(<<Blank>> \o j, Comma), Blank) \o w
<1> DEFINE one == <<Blank>>
           two == <<Comma, Blank>>
<1>1. /\ j \in Seq(Chars) /\ w \in Seq(Chars) /\ one \in Seq(Chars) /\ two \in Seq(Chars)
      /\ Comma \in Chars /\ Blank \in Chars
  BY DEF Chars, Texts
<1>2. j \o two = Append(Append(j, Comma), Blank)
  <2>1. Append(j, Comma) \in Seq(Chars)
    BY <1>1
  <2>2. <<>> \in Seq(Chars) /\ <<Comma>> \in Seq(Chars)
    BY <1>1
  <2>3. two = Append(Append(<<>>, Comma), Blank) /\ Append(<<>>, Comma) \in Seq(Chars)
    BY <1>1
  <2>4. j \o Append(Append(<<>>, Comma), Blank) = Append(j \o Append(<<>>, Comma), Blank)
    BY <1>1, <2>3, ConcatAppend
  <2>5. j \o Append(<<>>, Comma) = Append(j \o <<>>, Comma)
    BY <1>1, <2>2, ConcatAppend
  <2>6. j \o <<>> = j
    BY <1>1, ConcatEmptySeq
  <2> QED
    BY <2>3, <2>4, <2>5, <2>6
<1>3. one \o Append(Append(j, Comma), Blank) = Append(Append(one \o j, Comma), Blank)
  <2> HIDE DEF one
  <2>1. Append(j, Comma) \in Seq(Chars)
    BY <1>1
  <2>2. one \o Append(Append(j, Comma), Blank) = Append(one \o Append(j, Comma), Blank)
    BY <1>1, <2>1, ConcatAppend
  <2>3. one \o Append(j, Comma) = Append(one \o j, Comma)
    BY <1>1, ConcatAppend
  <2> QED
    BY <2>2, <2>3
<1>4. one \o ((j \o two) \o w) = (one \o (j \o two)) \o w
  <2> HIDE DEF one, two
  <2>1. j \o two \in Seq(Chars)
    BY <1>1
  <2> QED
    BY <1>1, <2>1, ConcatAssociative
<1> QED
  BY <1>2, <1>3, <1>4

\* The text of m names splits into the names, each behind a blank.
LEMMA SplitJoined ==
  ASSUME NEW list \in Lists,
         \A k \in 1 .. Len(list) : \A j \in 1 .. Len(list[k]) : list[k][j] # Comma,
         NEW m \in 1 .. Len(list)
  PROVE  Split(<<Blank>> \o Joined(list)[m]) = Lines(list, m)
<1> DEFINE n == Len(list)
           J == Joined(list)
           H == {k \in 0 .. n : k # 0 => Ending(<<Blank>> \o J[k], Lines(list, k - 1),
                                                <<Blank>> \o list[k])}
<1>1. n \in Nat /\ Blank \in Chars /\ Comma \in Chars /\ Blank # Comma
  BY BlankIsNoComma DEF Lists, Chars
<1>2. /\ J[0] = <<>>
      /\ \A k \in 0 .. n : J[k] \in Texts
      /\ \A k \in 1 .. n : J[k] = IF k = 1 THEN list[1]
                                  ELSE J[k - 1] \o <<Comma, Blank>> \o list[k]
  <2>1. list \in Seq(Seq(Chars))
    BY Zenon DEF Lists, Texts
  <2> HIDE DEF n
  <2> QED
    BY <1>1, <2>1, JoinedTurns DEF Texts, n
<1>3. <<>> \in Texts /\ <<Blank>> \in Texts /\ <<>> \in Lists /\ Append(<<>>, Blank) = <<Blank>>
  BY <1>1 DEF Texts, Lists
<1> HIDE DEF J
<1>4. 0 \in H
  BY <1>1
<1>5. ASSUME NEW k \in 1 .. n, k - 1 \in H PROVE k \in H
  <2>1. list[k] \in Texts /\ \A j \in 1 .. Len(list[k]) : list[k][j] # Comma
    BY LinesFacts
  <2>2. CASE k = 1
    <3>1. Ending(<<>>, <<>>, <<>>)
      <4>1. <<<<>>>> = Append(<<>>, <<>>)
        OBVIOUS
      <4> QED
        BY <4>1, SplitNothing DEF Ending
    <3>2. Ending(<<Blank>>, <<>>, <<Blank>>)
      <4>1. Split(Append(<<>>, Blank)) = Append(<<>>, Append(<<>>, Blank))
        BY <1>1, <1>3, <3>1, SplitCharacter DEF Ending
      <4> QED
        BY <1>3, <4>1 DEF Ending
    <3>3. Ending(<<Blank>> \o list[k], <<>>, <<Blank>> \o list[k])
      BY <1>3, <2>1, <3>2, SplitWord, Zenon
    <3>4. Lines(list, k - 1) = <<>> /\ J[k] = list[k] /\ k \in 0 .. n
      BY <1>1, <1>2, <2>2, LinesFacts
    <3> QED
      BY <3>3, <3>4
  <2>3. CASE k # 1
    <3>1. /\ k - 1 \in 1 .. n /\ k - 1 \in 0 .. n /\ k \in 0 .. n /\ k - 1 # 0
          /\ (k - 1) - 1 = k - 2
      BY <1>1, <2>3
    <3> DEFINE t == <<Blank>> \o J[k - 1]
               before == Lines(list, k - 1)
    <3>2. t \in Texts /\ before \in Lists
      BY <1>2, <1>3, <3>1, TextFacts, LinesFacts, <1>1
    <3>3. Split(t) = before
      <4>1. Ending(t, Lines(list, (k - 1) - 1), <<Blank>> \o list[k - 1])
        BY <1>5, <3>1
      <4>2. before = Append(Lines(list, (k - 1) - 1), <<Blank>> \o list[k - 1])
        BY <3>1, LinesFacts
      <4> QED
        BY <4>1, <4>2 DEF Ending
    <3> HIDE DEF t, before
    <3>4. Append(t, Comma) \in Texts /\ Append(Append(t, Comma), Blank) \in Texts
      BY <1>1, <3>2, TextFacts
    <3>5. Ending(Append(t, Comma), before, <<>>)
      <4>1. t \in Seq(Chars)
        BY <3>2 DEF Texts
      <4>2. Split(Append(t, Comma)) = Further(Split(t), Comma)
        BY <1>1, <4>1, SplitFurther
      <4> QED
        BY <3>3, <4>2 DEF Further, Ending
    <3>6. Ending(Append(Append(t, Comma), Blank), before, <<Blank>>)
      <4>1. Split(Append(Append(t, Comma), Blank)) = Append(before, Append(<<>>, Blank))
        BY <1>1, <1>3, <3>2, <3>4, <3>5, SplitCharacter DEF Ending
      <4> QED
        BY <1>3, <4>1 DEF Ending
    <3>7. Ending(Append(Append(t, Comma), Blank) \o list[k], before, <<Blank>> \o list[k])
      BY <1>3, <2>1, <3>2, <3>4, <3>6, SplitWord, Zenon
    <3>8. <<Blank>> \o J[k] = Append(Append(t, Comma), Blank) \o list[k]
      <4>1. J[k] = J[k - 1] \o <<Comma, Blank>> \o list[k] /\ J[k - 1] \in Texts
        BY <1>2, <2>3, <3>1
      <4>2. <<Blank>> \o (J[k - 1] \o <<Comma, Blank>> \o list[k])
              = Append(Append(<<Blank>> \o J[k - 1], Comma), Blank) \o list[k]
        BY <2>1, <4>1, Glue
      <4> QED
        BY <4>1, <4>2 DEF t
    <3> QED
      BY <3>1, <3>7, <3>8 DEF before
  <2> QED
    BY <2>2, <2>3
<1>6. m \in H /\ m # 0
  <2>1. m \in 0 .. n /\ m # 0
    BY <1>1
  <2> HIDE DEF H, n
  <2>2. \A k \in 0 .. n : k \in H
    BY <1>1, <1>4, <1>5, Turns
  <2> QED
    BY <2>1, <2>2
<1>7. Split(<<Blank>> \o J[m]) = Append(Lines(list, m - 1), <<Blank>> \o list[m])
  BY <1>6 DEF Ending
<1> QED
  BY <1>7, LinesFacts DEF J

\* `Filled` is a loop over the items.
LEMMA FilledTurns ==
  ASSUME NEW items \in Lists
  PROVE  /\ Filled(items)[0] = <<>>
         /\ \A k \in 1 .. Len(items) :
              Filled(items)[k] = IF items[k] = <<>> THEN Filled(items)[k - 1]
                                 ELSE Append(Filled(items)[k - 1], items[k])
<1> DEFINE n == Len(items)
           Longer(k, kept) == IF items[k] = <<>> THEN kept ELSE Append(kept, items[k])
           turn == [k \in 1 .. n |-> [kept \in Lists |-> Longer(k, kept)]]
<1>1. n \in Nat /\ <<>> \in Lists /\ \A k \in 1 .. n : items[k] \in Texts
  BY DEF Lists
<1>2. \A k \in 1 .. n : \A kept \in Lists : Longer(k, kept) \in Lists
  BY <1>1 DEF Lists
<1> HIDE DEF Longer
<1>3. turn \in [1 .. n -> [Lists -> Lists]]
  <2> HIDE DEF n
  <2> QED
    BY <1>2
<1>4. PICK f \in [0 .. n -> Lists] : Runs(f, n, <<>>, turn)
  <2> HIDE DEF n, turn
  <2> QED
    BY <1>1, <1>3, LoopExists, Zenon
<1>5. f[0] = <<>>
  BY <1>4, Zenon DEF Runs
<1>6. ASSUME NEW k \in 1 .. n PROVE f[k] = Longer(k, f[k - 1])
  <2>1. k - 1 \in 0 .. n
    BY <1>1
  <2>2. f[k - 1] \in Lists
    BY <1>4, <2>1
  <2>3. turn[k][f[k - 1]] = Longer(k, f[k - 1])
    BY <2>2
  <2> HIDE DEF turn
  <2> QED
    BY <1>4, <2>3, Zenon DEF Runs
<1>7. f = [k \in 0 .. n |-> IF k = 0 THEN <<>>
                            ELSE IF items[k] = <<>> THEN f[k - 1]
                            ELSE Append(f[k - 1], items[k])]
  <2>1. \A k \in 0 .. n : k = 0 \/ k \in 1 .. n
    BY <1>1
  <2>2. \A k \in 0 .. n : f[k] = IF k = 0 THEN <<>> ELSE Longer(k, f[k - 1])
    <3> HIDE DEF n, turn
    <3> QED
      BY <1>5, <1>6, <2>1, Zenon
  <2>3. f = [k \in 0 .. n |-> IF k = 0 THEN <<>> ELSE Longer(k, f[k - 1])]
    <3> HIDE DEF n, turn
    <3> QED
      BY <2>2
  <2> HIDE DEF n, turn
  <2> QED
    BY <2>3, Zenon DEF Longer
<1>8. Filled(items) = [k \in 0 .. n |-> IF k = 0 THEN <<>>
                            ELSE IF items[k] = <<>> THEN Filled(items)[k - 1]
                            ELSE Append(Filled(items)[k - 1], items[k])]
  BY <1>7, Zenon DEF Filled
<1>9. 0 \in 0 .. n /\ \A k \in 1 .. n : k \in 0 .. n /\ k # 0
  BY <1>1
<1>10. \A k \in 0 .. n : Filled(items)[k] = IF k = 0 THEN <<>>
                            ELSE IF items[k] = <<>> THEN Filled(items)[k - 1]
                            ELSE Append(Filled(items)[k - 1], items[k])
  <2> HIDE DEF n, turn
  <2> QED
    BY <1>8, Zenon
<1> QED
  <2> HIDE DEF turn
  <2> QED
    BY <1>9, <1>10, Zenon

\* The filter keeps items that are all there.
LEMMA FilledKeeps ==
  ASSUME NEW items \in Lists, \A k \in 1 .. Len(items) : items[k] # <<>>
  PROVE  Filled(items)[Len(items)] = items
<1> DEFINE n == Len(items)
           u(k) == SubSeq(items, 1, k)
           H == {k \in 0 .. n : Filled(items)[k] = u(k)}
<1>1. n \in Nat /\ u(0) = <<>> /\ u(n) = items
  <2>1. items \in Seq(Texts)
    BY DEF Lists
  <2> QED
    BY <2>1
<1>2. 0 \in H
  <2> HIDE DEF u
  <2>1. Filled(items)[0] = <<>> /\ 0 \in 0 .. n
    BY <1>1, FilledTurns
  <2> QED
    BY <1>1, <2>1
<1>3. ASSUME NEW k \in 1 .. n, k - 1 \in H PROVE k \in H
  <2>1. Filled(items)[k] = Append(Filled(items)[k - 1], items[k]) /\ k \in 0 .. n
    <3> HIDE DEF H, u
    <3>1. \A i \in 1 .. n : Filled(items)[i] = IF items[i] = <<>> THEN Filled(items)[i - 1]
                                              ELSE Append(Filled(items)[i - 1], items[i])
      BY FilledTurns, Zenon
    <3>2. items[k] # <<>>
      BY Zenon
    <3>3. k \in 0 .. n
      BY <1>1
    <3> QED
      BY <3>1, <3>2, <3>3, Zenon
  <2>2. u(k) = Append(u(k - 1), items[k])
    <3> DEFINE v == Append(u(k - 1), items[k])
    <3>1. items \in Seq(Texts) /\ items[k] \in Texts
      BY DEF Lists
    <3>2. /\ u(k) \in Seq(Texts) /\ u(k - 1) \in Seq(Texts)
          /\ Len(u(k)) = k /\ Len(u(k - 1)) = k - 1
      BY <3>1
    <3>3. \A j \in 1 .. k : u(k)[j] = items[j] /\ (j <= k - 1 => u(k - 1)[j] = items[j])
      BY <3>1
    <3> HIDE DEF u
    <3>4. v \in Seq(Texts) /\ Len(v) = k /\ \A j \in 1 .. k : v[j] = items[j]
      BY <3>1, <3>2, <3>3
    <3> HIDE DEF v
    <3>5. u(k) = v
      BY <3>2, <3>3, <3>4, SeqEqual
    <3> QED
      BY <3>5 DEF v
  <2> HIDE DEF u
  <2>3. Filled(items)[k - 1] = u(k - 1)
    BY <1>3
  <2> QED
    BY <2>1, <2>2, <2>3
<1>4. n \in H
  <2> HIDE DEF H, n
  <2>1. \A k \in 0 .. n : k \in H
    BY <1>1, <1>2, <1>3, Turns
  <2> QED
    BY <1>1, <2>1
<1> QED
  <2> HIDE DEF u
  <2> QED
    BY <1>1, <1>4

-----------------------------------------------------------------------------
(* Trimming a name.                                                          *)

LEMMA MinIs ==
  ASSUME NEW S \in SUBSET Nat, NEW n \in S, \A m \in S : n <= m
  PROVE  Min(S) = n
<1>1. \A x \in S : (\A y \in S : x <= y) => x = n
  OBVIOUS
<1> QED
  BY <1>1 DEF Min

LEMMA MaxIs ==
  ASSUME NEW S \in SUBSET Nat, NEW n \in S, \A m \in S : m <= n
  PROVE  Max(S) = n
<1>1. \A x \in S : (\A y \in S : x >= y) => x = n
  OBVIOUS
<1> QED
  BY <1>1 DEF Max

\* What `create` keeps: names that neither begin nor end with a blank.
Names ==
  {t \in Seq(Characters) : t # <<>> /\ t[1] # Blank /\ t[Len(t)] # Blank}

LEMMA TrimmedIsName ==
  ASSUME NEW s \in Seq(Characters), Trimmed(s) # <<>>
  PROVE  Trimmed(s) \in Names
<1> DEFINE kept == {k \in DOMAIN s : s[k] # Blank}
<1>1. DOMAIN s = 1 .. Len(s) /\ Len(s) \in Nat
  OBVIOUS
<1>2. kept # {} /\ Trimmed(s) = SubSeq(s, Min(kept), Max(kept))
  BY DEF Trimmed
<1>3. kept \in SUBSET Nat /\ \A k \in kept : k <= Len(s)
  BY <1>1
<1>4. PICK a \in kept : \A k \in kept : a <= k
  <2> HIDE DEF kept
  <2> QED
    BY <1>2, <1>3, Minimum
<1>5. PICK b \in kept : \A k \in kept : k <= b
  <2> HIDE DEF kept
  <2> QED
    BY <1>1, <1>2, <1>3, Maximum
<1>6. Min(kept) = a /\ Max(kept) = b
  <2> HIDE DEF kept
  <2> QED
    BY <1>3, <1>4, <1>5, MinIs, MaxIs
<1>7. a \in 1 .. Len(s) /\ b \in 1 .. Len(s) /\ a <= b /\ s[a] # Blank /\ s[b] # Blank
  BY <1>1, <1>4, <1>5
<1> DEFINE t == SubSeq(s, a, b)
<1>8. t \in Seq(Characters) /\ Len(t) = b - a + 1 /\ t[1] = s[a] /\ t[b - a + 1] = s[b]
  <2> HIDE DEF kept
  <2> QED
    BY <1>7
<1>9. t # <<>>
  <2>1. Len(t) # 0
    BY <1>7, <1>8
  <2> HIDE DEF t
  <2> QED
    BY <2>1
<1>10. t = Trimmed(s)
  <2> HIDE DEF kept
  <2> QED
    BY <1>2, <1>6
<1> HIDE DEF kept, t
<1> QED
  BY <1>7, <1>8, <1>9, <1>10 DEF Names

LEMMA TrimmedSpoken ==
  ASSUME NEW t \in Names
  PROVE  Trimmed(<<Blank>> \o t) = t
<1> DEFINE s == <<Blank>> \o t
           kept == {k \in DOMAIN s : s[k] # Blank}
           n == Len(t)
<1>1. t \in Seq(Chars) /\ n \in Nat /\ n # 0 /\ t[1] # Blank /\ t[n] # Blank
  <2>1. t \in Seq(Characters) /\ t # <<>> /\ t[1] # Blank /\ t[n] # Blank
    BY DEF Names
  <2>2. n # 0
    BY <2>1
  <2>3. t \in Seq(Chars)
    BY <2>1 DEF Chars
  <2> QED
    BY <2>1, <2>2, <2>3
<1>2. /\ s \in Seq(Chars) /\ Len(s) = n + 1 /\ s[1] = Blank
      /\ \A k \in 1 .. n : s[k + 1] = t[k]
  <2>1. <<Blank>> \in Seq(Chars) /\ Len(<<Blank>>) = 1 /\ <<Blank>>[1] = Blank
    BY DEF Chars
  <2> QED
    BY <1>1, <2>1
<1> HIDE DEF s
<1>3. DOMAIN s = 1 .. n + 1
  BY <1>2
<1>4. 2 \in kept /\ n + 1 \in kept
  BY <1>1, <1>2, <1>3
<1>5. kept \in SUBSET Nat /\ \A k \in kept : 2 <= k /\ k <= n + 1
  BY <1>1, <1>2, <1>3
<1>6. Min(kept) = 2 /\ Max(kept) = n + 1
  <2> HIDE DEF kept, n
  <2> QED
    BY <1>4, <1>5, MinIs, MaxIs
<1>7. Trimmed(s) = SubSeq(s, 2, n + 1)
  <2>1. Trimmed(s) = IF kept = {} THEN <<>> ELSE SubSeq(s, Min(kept), Max(kept))
    BY DEF Trimmed
  <2> HIDE DEF kept, n
  <2> QED
    BY <1>4, <1>6, <2>1
<1>8. SubSeq(s, 2, n + 1) = t
  <2> DEFINE u == SubSeq(s, 2, n + 1)
  <2>1. u \in Seq(Chars) /\ Len(u) = n /\ \A k \in 1 .. n : u[k] = s[k + 1]
    BY <1>1, <1>2
  <2>2. \A k \in 1 .. n : u[k] = t[k]
    BY <1>2, <2>1
  <2> HIDE DEF u
  <2>3. u = t
    BY <1>1, <2>1, <2>2, SeqEqual
  <2> QED
    BY <2>3 DEF u
<1> QED
  BY <1>7, <1>8 DEF s

LEMMA TrimmedBlank == Trimmed(<<Blank>>) = <<>>
<1>1. {k \in DOMAIN <<Blank>> : <<Blank>>[k] # Blank} = {}
  OBVIOUS
<1> QED
  BY <1>1 DEF Trimmed

LEMMA FilledBlank == Filled(<<<<>>>>)[1] = <<>>
<1> DEFINE items == <<<<>>>>
<1>1. items \in Lists /\ Len(items) = 1 /\ items[1] = <<>>
  BY DEF Lists, Texts
<1> HIDE DEF items
<1>2. /\ Filled(items)[0] = <<>>
      /\ \A k \in 1 .. Len(items) :
           Filled(items)[k] = IF items[k] = <<>> THEN Filled(items)[k - 1]
                              ELSE Append(Filled(items)[k - 1], items[k])
  BY <1>1, FilledTurns, Zenon
<1>3. 1 \in 1 .. Len(items) /\ 1 - 1 = 0
  BY <1>1
<1>4. Filled(items)[1] = Filled(items)[1 - 1]
  BY <1>1, <1>2, <1>3, Zenon
<1>5. Filled(items)[1] = <<>>
  BY <1>2, <1>3, <1>4
<1> QED
  BY <1>5 DEF items

-----------------------------------------------------------------------------
(* Lists: what the client parses out of a listing.                           *)

\* No name holds a comma.
Commaless(list) == \A k \in 1 .. Len(list) : \A j \in 1 .. Len(list[k]) : list[k][j] # Comma

LEMMA NamesAreLists == Names \subseteq Texts /\ Seq(Names) \subseteq Lists
<1>1. Names \subseteq Texts
  BY DEF Names, Texts, Chars
<1> QED
  BY <1>1 DEF Lists

LEMMA StrippedListing ==
  ASSUME NEW text \in Texts, NEW prefix
  PROVE  Stripped(<<prefix, Blank>> \o text, prefix) = <<Blank>> \o text
<1> DEFINE T == Chars \cup {prefix}
           message == <<prefix, Blank>> \o text
           rest == <<Blank>> \o text
           n == Len(text)
<1>1. text \in Seq(T) /\ prefix \in T /\ Blank \in T /\ n \in Nat
  BY DEF Texts, Chars
<1>2. /\ message \in Seq(T) /\ Len(message) = n + 2 /\ message[1] = prefix
      /\ message[2] = Blank /\ \A k \in 1 .. n : message[k + 2] = text[k]
  <2>1. <<prefix, Blank>> \in Seq(T) /\ Len(<<prefix, Blank>>) = 2
    BY <1>1
  <2> HIDE DEF T
  <2> QED
    BY <1>1, <2>1
<1>3. /\ rest \in Seq(T) /\ Len(rest) = n + 1 /\ rest[1] = Blank
      /\ \A k \in 1 .. n : rest[k + 1] = text[k]
  <2>1. <<Blank>> \in Seq(T) /\ Len(<<Blank>>) = 1
    BY <1>1
  <2> HIDE DEF T
  <2> QED
    BY <1>1, <2>1
<1> HIDE DEF message, rest, T
<1>4. message # <<>>
  BY <1>1, <1>2
<1>5. /\ Tail(message) \in Seq(T) /\ Len(Tail(message)) = n + 1
      /\ \A k \in 1 .. n + 1 : Tail(message)[k] = message[k + 1]
  BY <1>1, <1>2, <1>4
<1>6. \A k \in 1 .. n + 1 : Tail(message)[k] = rest[k]
  <2> TAKE k \in 1 .. n + 1
  <2>1. CASE k = 1
    BY <1>1, <1>2, <1>3, <1>5, <2>1
  <2>2. CASE k # 1
    <3>1. k - 1 \in 1 .. n /\ (k - 1) + 1 = k /\ (k - 1) + 2 = k + 1
      BY <1>1, <2>2
    <3>2. message[k + 1] = text[k - 1] /\ rest[k] = text[k - 1]
      BY <1>2, <1>3, <3>1
    <3> QED
      BY <1>5, <3>2
  <2> QED
    BY <2>1, <2>2
<1>7. Tail(message) = rest
  BY <1>1, <1>3, <1>5, <1>6, SeqEqual
<1>8. Stripped(message, prefix) = rest
  BY <1>2, <1>4, <1>7, Zenon DEF Stripped
<1> QED
  BY <1>8 DEF message, rest

LEMMA ListComesBack ==
  ASSUME NEW list \in Seq(Names), NEW prefix, Commaless(list)
  PROVE  ParseList(Listing(prefix, list), prefix) = list
<1> DEFINE n == Len(list)
           J == Joined(list)[n]
           text == <<Blank>> \o J
           items == TrimmedAll(Split(text))
<1>1. list \in Lists /\ n \in Nat
  BY NamesAreLists
<1>2. Joined(list)[0] = <<>> /\ J \in Texts
  <2>1. Blank \in Chars /\ Comma \in Chars /\ list \in Seq(Seq(Chars))
    BY <1>1 DEF Chars, Lists, Texts
  <2>2. /\ Joined(list)[0] = <<>>
        /\ \A k \in 0 .. n : Joined(list)[k] \in Seq(Chars)
    BY <2>1, JoinedTurns
  <2>3. n \in 0 .. n
    BY <1>1
  <2> QED
    BY <2>2, <2>3 DEF Texts
<1>3. Stripped(Listing(prefix, list), prefix) = text
  <2> HIDE DEF J
  <2>1. Stripped(<<prefix, Blank>> \o J, prefix) = <<Blank>> \o J
    BY <1>2, StrippedListing
  <2> QED
    BY <2>1, Zenon DEF J, Listing
<1>4. ParseList(Listing(prefix, list), prefix) = Filled(items)[Len(items)]
  BY <1>3, Zenon DEF ParseList
<1>5. CASE n = 0
  <2>1. list = <<>>
    BY <1>5
  <2>2. text = <<Blank>>
    <3>1. J = <<>>
      BY <1>2, <1>5
    <3>2. <<Blank>> \o <<>> = <<Blank>>
      <4>1. Blank \in Chars /\ <<Blank>> \in Seq(Chars)
        BY DEF Chars
      <4> QED
        BY <4>1
    <3> HIDE DEF J
    <3> QED
      BY <3>1, <3>2
  <2>3. Split(<<Blank>>) = <<<<Blank>>>>
    <3> DEFINE e == <<>>
    <3>1. e \in Texts /\ e \in Lists /\ Blank \in Chars
      BY DEF Texts, Lists, Chars
    <3>2. Append(e, e) = <<<<>>>> /\ Append(e, Blank) = <<Blank>>
          /\ Append(e, <<Blank>>) = <<<<Blank>>>>
      OBVIOUS
    <3>3. Split(e) = Append(e, e)
      BY <3>2, SplitNothing
    <3> HIDE DEF e
    <3>4. Split(Append(e, Blank)) = Append(e, Append(e, Blank))
      BY <3>1, <3>3, BlankIsNoComma, SplitCharacter
    <3> QED
      BY <3>2, <3>4
  <2>4. items = <<Trimmed(<<Blank>>)>>
    <3> HIDE DEF text
    <3>1. TrimmedAll(<<<<Blank>>>>) = <<Trimmed(<<Blank>>)>>
      BY DEF TrimmedAll
    <3>2. Split(text) = <<<<Blank>>>>
      BY <2>2, <2>3
    <3> QED
      BY <3>1, <3>2, Zenon
  <2>5. items = <<<<>>>>
    BY <2>4, TrimmedBlank, Zenon
  <2>6. Len(<<<<>>>>) = 1
    OBVIOUS
  <2> HIDE DEF items
  <2> QED
    BY <1>4, <2>1, <2>5, <2>6, FilledBlank, Zenon
<1>6. CASE n # 0
  <2>1. n \in 1 .. n /\ \A k \in 1 .. n : list[k] \in Names
    BY <1>1, <1>6
  <2>2. Split(text) = Lines(list, n)
    BY <1>1, <2>1, SplitJoined DEF Commaless
  <2>3. Lines(list, n) = [k \in 1 .. n |-> <<Blank>> \o list[k]]
    BY DEF Lines
  <2>4. items = [k \in 1 .. n |-> Trimmed(<<Blank>> \o list[k])]
    <3> DEFINE L == [k \in 1 .. n |-> <<Blank>> \o list[k]]
    <3>1. DOMAIN L = 1 .. n /\ \A k \in 1 .. n : L[k] = <<Blank>> \o list[k]
      BY Zenon
    <3>2. Split(text) = L
      BY <2>2, <2>3, Zenon
    <3> HIDE DEF L, text, n
    <3>3. items = [k \in DOMAIN L |-> Trimmed(L[k])]
      BY <3>2, Zenon DEF TrimmedAll
    <3> QED
      BY <3>1, <3>3, Zenon
  <2>5. \A k \in 1 .. n : Trimmed(<<Blank>> \o list[k]) = list[k]
    BY <2>1, TrimmedSpoken
  <2>6. items = [k \in 1 .. n |-> list[k]]
    <3> HIDE DEF items
    <3> QED
      BY <2>4, <2>5, Zenon
  <2>7. [k \in 1 .. n |-> list[k]] = list
    OBVIOUS
  <2> HIDE DEF items
  <2>8. items = list
    BY <2>6, <2>7, Zenon
  <2>9. \A k \in 1 .. n : list[k] # <<>>
    BY <2>1 DEF Names
  <2>10. Filled(list)[n] = list
    BY <1>1, <2>9, FilledKeeps
  <2> QED
    BY <1>4, <2>8, <2>10, Zenon
<1> QED
  BY <1>5, <1>6

-----------------------------------------------------------------------------
(* Counts.                                                                   *)

\* The words of a message: a first one, the count if there is one, and four more.
SixRead(words, a, b, c, d, e, f) == words = <<a>> \o <<b>> \o <<c, d, e, f>>
FiveRead(words, a, c, d, e, f) == words = <<a>> \o <<>> \o <<c, d, e, f>>

LEMMA SixWords ==
  ASSUME NEW a, NEW b, NEW c, NEW d, NEW e, NEW f, NEW words,
         SixRead(words, a, b, c, d, e, f)
  PROVE  DOMAIN words = 1 .. 6 /\ words[1] = a /\ words[2] = b
<1> DEFINE T == {a, b, c, d, e, f}
<1>1. a \in T /\ b \in T /\ c \in T /\ d \in T /\ e \in T /\ f \in T
  OBVIOUS
<1> HIDE DEF T
<1>2. words \in Seq(T) /\ Len(words) = 6 /\ words[1] = a /\ words[2] = b
  BY <1>1 DEF SixRead
<1> QED
  BY <1>2

LEMMA FiveWords ==
  ASSUME NEW a, NEW c, NEW d, NEW e, NEW f, NEW words,
         FiveRead(words, a, c, d, e, f)
  PROVE  /\ DOMAIN words = 1 .. 5 /\ words[1] = a /\ words[2] = c
         /\ words[3] = d /\ words[4] = e /\ words[5] = f
<1> DEFINE T == {a, c, d, e, f}
<1>1. a \in T /\ c \in T /\ d \in T /\ e \in T /\ f \in T
  OBVIOUS
<1> HIDE DEF T
<1>2. /\ words \in Seq(T) /\ Len(words) = 5 /\ words[1] = a /\ words[2] = c
      /\ words[3] = d /\ words[4] = e /\ words[5] = f
  BY <1>1 DEF FiveRead
<1> QED
  BY <1>2

\* The count stands before the table in the server's message.
LEMMA CountFirst ==
  ASSUME NEW n, NEW table
  PROVE  ParseImported(Counting(<<Numeral(n)>>, table)) = [kind |-> "Ok", rows |-> n]
<1> DEFINE words == Counting(<<Numeral(n)>>, table)
           places == Numerals(words)
<1>1. SixRead(words, Plain("Imported"), Numeral(n), Plain("rows"), Plain("into"),
            Plain("table"), table)
  BY Zenon DEF Counting, SixRead
<1> HIDE DEF words
<1>2. DOMAIN words = 1 .. 6 /\ words[1] = Plain("Imported") /\ words[2] = Numeral(n)
  BY <1>1, SixWords
<1>3. words[1].kind # "number" /\ words[2].kind = "number" /\ words[2].value = n
  BY <1>2 DEF Plain, Numeral
<1>4. 2 \in places /\ places \in SUBSET Nat /\ \A k \in places : 2 <= k
  BY <1>2, <1>3 DEF Numerals
<1> HIDE DEF places
<1>5. Min(places) = 2 /\ places # {}
  BY <1>4, MinIs
<1>6. ParseImported(words) = [kind |-> "Ok", rows |-> words[2].value]
  BY <1>5, Zenon DEF ParseImported, places
<1> QED
  BY <1>3, <1>6 DEF words

LEMMA CountMissing ==
  ASSUME NEW table, table.kind # "number"
  PROVE  ParseImported(Counting(<<>>, table)) = [kind |-> "UnexpectedResponse"]
<1> DEFINE words == Counting(<<>>, table)
<1>1. FiveRead(words, Plain("Imported"), Plain("rows"), Plain("into"),
            Plain("table"), table)
  BY Zenon DEF Counting, FiveRead
<1> HIDE DEF words
<1>2. /\ DOMAIN words = 1 .. 5 /\ words[1] = Plain("Imported") /\ words[2] = Plain("rows")
      /\ words[3] = Plain("into") /\ words[4] = Plain("table") /\ words[5] = table
  BY <1>1, FiveWords
<1>3. \A k \in 1 .. 5 : words[k].kind # "number"
  <2>1. \A text : Plain(text).kind # "number"
    BY DEF Plain
  <2>2. \A k \in 1 .. 5 : k = 1 \/ k = 2 \/ k = 3 \/ k = 4 \/ k = 5
    OBVIOUS
  <2> QED
    BY <1>2, <2>1, <2>2, Zenon
<1>4. Numerals(words) = {}
  BY <1>2, <1>3 DEF Numerals
<1> QED
  BY <1>4, Zenon DEF ParseImported, words

-----------------------------------------------------------------------------
(* The invariant: the server keeps names that trimming leaves alone.         *)

ProseInv == names \in Seq(Names) /\ ListsNames /\ CountsRows

LEMMA InitInv == Init => ProseInv
<1> SUFFICES ASSUME Init PROVE ProseInv
  OBVIOUS
<1>1. names \in Seq(Names)
  BY DEF Init
<1>2. said.about = "nothing"
  BY DEF Init, Nothing
<1> QED
  BY <1>1, <1>2 DEF ProseInv, ListsNames, CountsRows

LEMMA CreateKeeps ==
  ASSUME ProseInv, NEW typed \in Typed, Create(typed)
  PROVE  ProseInv'
<1>1. Trimmed(typed) \in Names
  BY TypedAreTexts, TrimmedIsName DEF Create
<1>2. names' \in Seq(Names)
  BY <1>1 DEF Create, ProseInv
<1>3. said' = said /\ heard' = heard
  BY DEF Create
<1>4. ListsNames' /\ CountsRows'
  BY <1>3, Zenon DEF ProseInv, ListsNames, CountsRows
<1> QED
  BY <1>2, <1>4 DEF ProseInv

LEMMA ListKeeps ==
  ASSUME ProseInv, NEW prefix, List(prefix)
  PROVE  ProseInv'
<1>1. names \in Seq(Names) /\ names' = names
  BY DEF List, ProseInv
<1>2. /\ said' = [about |-> "names", names |-> names]
      /\ heard' = [about |-> "names", names |-> ParseList(Listing(prefix, names), prefix)]
  BY DEF List
<1>3. said'.about = "names" /\ said'.names = names
  BY <1>2
<1>4. ASSUME \A k \in DOMAIN names : Comma \notin ToSet(names[k])
      PROVE  heard' = said'
  <2>1. Commaless(names)
    <3> SUFFICES ASSUME NEW k \in 1 .. Len(names), NEW j \in 1 .. Len(names[k])
                 PROVE  names[k][j] # Comma
      BY DEF Commaless
    <3>1. k \in DOMAIN names /\ names[k] \in Seq(Characters)
      BY <1>1 DEF Names
    <3>2. names[k][j] \in ToSet(names[k])
      BY <3>1 DEF ToSet
    <3> QED
      BY <1>4, <3>1, <3>2
  <2>2. ParseList(Listing(prefix, names), prefix) = names
    BY <1>1, <2>1, ListComesBack
  <2> QED
    BY <1>2, <2>2, Zenon
<1>5. ListsNames'
  BY <1>3, <1>4, Zenon DEF ListsNames
<1>6. CountsRows'
  BY <1>3 DEF CountsRows
<1> QED
  BY <1>1, <1>5, <1>6 DEF ProseInv

LEMMA ImportKeeps ==
  ASSUME ProseInv, NEW count, NEW table, ImportCsv(count, table),
         count = <<>> \/ \E n \in Counts : count = <<Numeral(n)>>
  PROVE  ProseInv'
<1>1. names' \in Seq(Names)
  BY DEF ImportCsv, ProseInv
<1>2. /\ said' = [about |-> "rows", count |-> count, table |-> table]
      /\ heard' = [about |-> "rows", result |-> ParseImported(Counting(count, table))]
  BY DEF ImportCsv
<1>3. /\ said'.about = "rows" /\ said'.count = count /\ said'.table = table
      /\ heard'.result = ParseImported(Counting(count, table))
  BY <1>2
<1>4. ListsNames'
  BY <1>3 DEF ListsNames
<1>5. ASSUME count # <<>>
      PROVE  heard'.result = [kind |-> "Ok", rows |-> count[1].value]
  <2>1. PICK n \in Counts : count = <<Numeral(n)>>
    BY <1>5
  <2>2. count[1].value = n
    BY <2>1 DEF Numeral
  <2> QED
    BY <1>3, <2>1, <2>2, CountFirst, Zenon
<1>6. ASSUME count = <<>>, table.kind # "number"
      PROVE  heard'.result = [kind |-> "UnexpectedResponse"]
  BY <1>3, <1>6, CountMissing, Zenon
<1>7. CountsRows'
  BY <1>3, <1>5, <1>6, Zenon DEF CountsRows
<1> QED
  BY <1>1, <1>4, <1>7 DEF ProseInv

LEMMA NextKeeps == ProseInv /\ [Next]_vars => ProseInv'
<1> SUFFICES ASSUME ProseInv, [Next]_vars PROVE ProseInv'
  OBVIOUS
<1>1. CASE \E typed \in Typed : Create(typed)
  BY <1>1, CreateKeeps
<1>2. CASE \E prefix \in {"Databases:", "Tables:"} : List(prefix)
  BY <1>2, ListKeeps, Zenon
<1>3. CASE \E count \in {<<>>} \cup {<<Numeral(n)>> : n \in Counts}, table \in Tables :
             ImportCsv(count, table)
  <2>1. PICK count \in {<<>>} \cup {<<Numeral(n)>> : n \in Counts}, table \in Tables :
               ImportCsv(count, table)
    BY <1>3
  <2>2. count = <<>> \/ \E n \in Counts : count = <<Numeral(n)>>
    OBVIOUS
  <2> QED
    BY <2>1, <2>2, ImportKeeps, Zenon
<1>4. CASE UNCHANGED vars
  BY <1>4, Zenon DEF ProseInv, ListsNames, CountsRows, vars
<1> QED
  BY <1>1, <1>2, <1>3, <1>4, Zenon DEF Next

LEMMA Invariance == Spec => []ProseInv
  BY InitInv, NextKeeps, PTL DEF Spec

\* Whatever names were created, and however many, a list comes back as the
\* server keeps it, unless a name holds a comma (parse_list).
THEOREM ListsEveryName == Spec => []ListsNames
<1>1. ProseInv => ListsNames
  BY DEF ProseInv
<1> QED
  BY <1>1, Invariance, PTL

\* Whatever the count and the table are, the count comes back as itself, and a
\* message without a number is an error (parse_imported).
THEOREM CountsEveryRow == Spec => []CountsRows
<1>1. ProseInv => CountsRows
  BY DEF ProseInv
<1> QED
  BY <1>1, Invariance, PTL
=============================================================================

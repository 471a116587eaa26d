---------------------------- MODULE SqlInputProofs ----------------------------
(***************************************************************************)
(* ParseQueries splits a file as it is written, for a file of any length   *)
(* of any lexemes, whatever they contain.                                  *)
(*                                                                         *)
(* The position of the scanner is that of a lexeme, and of a character in  *)
(* it: at the beginning of a lexeme it has read what Said says, and inside *)
(* of one it is where a character, a pair or a comment's end may begin.    *)
(***************************************************************************)
EXTENDS SqlInputReference, SequenceTheorems, WellFoundedInduction, TLAPS

---------------------------------------------------------------------------
(* Every nonempty set of natural numbers has a least one, which gives      *)
(* induction over 0 .. N for a set.                                        *)
LEMMA Least ==
  ASSUME NEW S \in SUBSET Nat, S # {}
  PROVE  \E m \in S : \A k \in S : m =< k
<1>1. PICK m \in S : \A k \in S : ~(<<k, m>> \in OpToRel(<, Nat))
  BY NatLessThanWellFounded, WFMin
<1>2. ASSUME NEW k \in S, k < m PROVE FALSE
  <2>1. <<k, m>> \in Nat \X Nat /\ <<k, m>>[1] < <<k, m>>[2]
    BY <1>2
  <2>2. QED BY <1>1, <2>1 DEF OpToRel
<1>3. QED BY <1>2

(* Induction over 0 .. N, for a set.                                       *)
LEMMA Induction ==
  ASSUME NEW N \in Nat, NEW S, 0 \in S, \A n \in 1 .. N : n - 1 \in S => n \in S
  PROVE  0 .. N \subseteq S
<1> DEFINE Bad == {n \in 0 .. N : n \notin S}
<1>1. SUFFICES ASSUME Bad # {} PROVE FALSE
  OBVIOUS
<1>2. PICK m \in Bad : \A k \in Bad : m =< k
  <2>1. Bad \in SUBSET Nat
    OBVIOUS
  <2> HIDE DEF Bad
  <2>2. QED BY <1>1, <2>1, Least
<1>3. m \in 1 .. N /\ m - 1 \in 0 .. N /\ ~(m =< m - 1)
  OBVIOUS
<1>4. m - 1 \in S
  BY <1>2, <1>3
<1>5. QED BY <1>3, <1>4

(* A function is defined by recursion over 0 .. N.                         *)
Repeats(f, N, S, z, g) ==
  /\ f \in [0 .. N -> S] /\ f[0] = z
  /\ \A n \in 1 .. N : f[n] = g[n][f[n - 1]]

(* Such a function exists, which is what is to be known of a CHOOSE.       *)
LEMMA Recursion ==
  ASSUME NEW N, NEW S, NEW z, NEW g, N \in Nat, z \in S, g \in [1 .. N -> [S -> S]]
  PROVE  \E f : Repeats(f, N, S, z, g)
<1> DEFINE Upto(m, f) == f[0] = z /\ \A n \in 1 .. m : f[n] = g[n][f[n - 1]]
           Good == {m \in 0 .. N : \E f \in [0 .. m -> S] : Upto(m, f)}
<1>1. 0 \in Good
  <2>1. [n \in 0 .. 0 |-> z] \in [0 .. 0 -> S] /\ Upto(0, [n \in 0 .. 0 |-> z])
    OBVIOUS
  <2>2. \E f \in [0 .. 0 -> S] : Upto(0, f)
    BY <2>1
  <2>3. QED BY <2>2
<1>2. ASSUME NEW n \in 1 .. N, n - 1 \in Good PROVE n \in Good
  <2>1. PICK f \in [0 .. n - 1 -> S] : Upto(n - 1, f)
    BY <1>2
  <2> DEFINE h == [k \in 0 .. n |-> IF k = n THEN g[n][f[n - 1]] ELSE f[k]]
  <2>2. n - 1 \in 0 .. n - 1 /\ 0 \in 0 .. n - 1 /\ f[n - 1] \in S
    OBVIOUS
  <2>3. g[n][f[n - 1]] \in S
    BY <2>2
  <2>4. h \in [0 .. n -> S]
    BY <2>3
  <2>5. h[0] = z
    BY <2>1
  <2>6. ASSUME NEW k \in 1 .. n PROVE h[k] = g[k][h[k - 1]]
    <3>1. k - 1 \in 0 .. n - 1 /\ h[k - 1] = f[k - 1]
      OBVIOUS
    <3>2. CASE k = n
      BY <3>1, <3>2
    <3>3. CASE k # n
      <4>1. k \in 1 .. n - 1 /\ h[k] = f[k]
        BY <3>3
      <4>2. QED BY <2>1, <3>1, <4>1
    <3>4. QED BY <3>2, <3>3
  <2>7. Upto(n, h)
    BY <2>5, <2>6
  <2>8. \E e \in [0 .. n -> S] : Upto(n, e)
    <3> HIDE DEF Upto, h
    <3>1. QED BY <2>4, <2>7
  <2>9. n \in 0 .. N
    OBVIOUS
  <2>10. QED
    <3> HIDE DEF Upto
    <3>1. QED BY <2>8, <2>9
<1>3. 0 .. N \subseteq Good
  <2> HIDE DEF Good
  <2>1. QED BY <1>1, <1>2, Induction
<1>4. PICK f \in [0 .. N -> S] : Upto(N, f)
  BY <1>3
<1>5. Repeats(f, N, S, z, g)
  BY <1>4 DEF Repeats
<1>6. QED BY <1>5

---------------------------------------------------------------------------
(* The characters the scanner writes itself are characters of files.       *)
LEMMA Punctuation == " " \in Character /\ "\n" \in Character /\ ";" \in Character
<1>1. {" ", "\n", ";"} \subseteq Character
  BY LexemeAssumption
<1>2. QED BY <1>1

(* A lexeme is not empty.                                                  *)
LEMMA LexemeText ==
  ASSUME NEW file \in Seq(Lexemes), NEW n \in 1 .. Len(file)
  PROVE  file[n] \in Lexemes /\ file[n].text \in Seq(Character) /\ Len(file[n].text) >= 1
<1>1. file[n] \in Lexemes
  OBVIOUS
<1>2. \A l \in Lexemes : l.text \in Seq(Character) /\ l.text # <<>>
  BY LexemeAssumption
<1>3. file[n].text \in Seq(Character) /\ file[n].text # <<>>
  BY <1>1, <1>2
<1>4. QED BY <1>1, <1>3, EmptySeq

(* Sequences of one and of two elements.                                   *)
LEMMA Short ==
  ASSUME NEW S, NEW a \in S, NEW b \in S
  PROVE  <<a>> \in Seq(S) /\ <<a, b>> \in Seq(S)
OBVIOUS

(* What a file of lexemes spells, lexeme by lexeme.                        *)
LEMMA TextUnfolds ==
  ASSUME NEW file \in Seq(Lexemes)
  PROVE  /\ Texts(file) \in [0 .. Len(file) -> Seq(Character)]
         /\ Texts(file)[0] = <<>>
         /\ \A n \in 1 .. Len(file) : Texts(file)[n] = Texts(file)[n - 1] \o file[n].text
<1> DEFINE N == Len(file)
           S == Seq(Character)
           Longer(s, n) == s \o file[n].text
           g == [n \in 1 .. N |-> [s \in S |-> Longer(s, n)]]
           Is(f) == f = [n \in 0 .. N |-> IF n = 0 THEN <<>> ELSE Longer(f[n - 1], n)]
           t == Texts(file)
<1>1. N \in Nat /\ <<>> \in S
  OBVIOUS
<1>2. \A n \in 1 .. N, s \in S : Longer(s, n) \in S
  BY LexemeText, ConcatProperties
<1>3. (\E f : Is(f)) => Is(t)
  BY DEF Texts
<1> HIDE DEF N, S, Longer, t
<1>4. g \in [1 .. N -> [S -> S]]
  BY <1>2
<1>5. PICK f : Repeats(f, N, S, <<>>, g)
  <2> HIDE DEF g
  <2>1. QED BY <1>1, <1>4, Recursion
<1> USE <1>5 DEF Repeats
<1>6. \A n \in 1 .. N : f[n - 1] \in S
  BY <1>1
<1>7. \A n \in 1 .. N : f[n] = Longer(f[n - 1], n)
  BY <1>6
<1>8. Is(f)
  <2>1. f = [n \in 0 .. N |-> f[n]]
    OBVIOUS
  <2>2. \A n \in 0 .. N : f[n] = IF n = 0 THEN <<>> ELSE Longer(f[n - 1], n)
    BY <1>1, <1>7
  <2>3. QED BY <2>1, <2>2
<1>9. Is(t)
  <2> HIDE DEF Is
  <2>1. QED BY <1>3, <1>8
<1>10. t[0] = <<>> /\ \A n \in 1 .. N : t[n] = Longer(t[n - 1], n)
  BY <1>1, <1>9
<1>11. 0 .. N \subseteq {n \in 0 .. N : t[n] \in S}
  <2> DEFINE Good == {n \in 0 .. N : t[n] \in S}
  <2>1. 0 \in Good
    BY <1>1, <1>10
  <2>2. ASSUME NEW n \in 1 .. N, n - 1 \in Good PROVE n \in Good
    BY <1>1, <1>2, <1>10, <2>2
  <2> HIDE DEF Good
  <2>3. 0 .. N \subseteq Good
    BY <1>1, <2>1, <2>2, Induction
  <2>4. QED BY <2>3 DEF Good
<1>12. t \in [0 .. N -> S]
  BY <1>9, <1>11
<1>13. QED BY <1>10, <1>12 DEF N, S, Longer, t

(* Trim leaves a part of the text.                                         *)
LEMMA TrimType ==
  ASSUME NEW s \in Seq(Character)
  PROVE  Trim(s) \in Seq(Character)
<1> DEFINE solid == {k \in 1 .. Len(s) : s[k] \notin Blanks}
           first == CHOOSE k \in solid : \A l \in solid : k =< l
           last == CHOOSE k \in solid : \A l \in solid : l =< k
<1>1. CASE solid = {}
  BY <1>1 DEF Trim
<1>2. CASE solid # {}
  <2>1. solid \in SUBSET Nat
    OBVIOUS
  <2>2. first \in solid
    <3> HIDE DEF solid
    <3>1. \E k \in solid : \A l \in solid : k =< l
      BY <1>2, <2>1, Least
    <3>2. QED BY <3>1
  <2>3. last \in solid
    <3> DEFINE Behind == {Len(s) - k : k \in solid}
    <3>1. Behind \in SUBSET Nat /\ Behind # {}
      BY <1>2
    <3>2. PICK m \in Behind : \A k \in Behind : m =< k
      <4> HIDE DEF Behind
      <4>1. QED BY <3>1, Least
    <3>3. PICK k \in solid : m = Len(s) - k
      OBVIOUS
    <3>4. ASSUME NEW l \in solid PROVE l =< k
      <4>1. Len(s) - k =< Len(s) - l
        BY <3>2, <3>3
      <4>2. QED BY <4>1
    <3>5. \E x \in solid : \A l \in solid : l =< x
      BY <3>4
    <3> HIDE DEF solid
    <3>6. QED BY <3>5
  <2>4. first \in 1 .. Len(s) /\ last \in 1 .. Len(s)
    BY <2>2, <2>3
  <2>5. Trim(s) = SubSeq(s, first, last)
    BY <1>2 DEF Trim
  <2> HIDE DEF first, last, solid
  <2>6. \A k \in first .. last : s[k] \in Character
    BY <2>4
  <2>7. QED BY <2>4, <2>5, <2>6, SubSeqProperties
<1>3. QED BY <1>1, <1>2

SaidSoFar == [statements : Seq(Seq(Character)), begun : Seq(Character)]

(* Statements are made of characters of the file.                          *)
LEMMA MeaningType ==
  ASSUME NEW l \in Lexemes
  PROVE  Meaning(l) \in Seq(Character)
<1>1. l.text \in Seq(Character)
  BY LexemeAssumption
<1>2. <<" ">> \in Seq(Character) /\ <<" ", " ">> \in Seq(Character)
  BY Punctuation, Short
<1>3. <<" ", "\n">> \in Seq(Character)
  BY Punctuation, Short
<1>4. QED BY <1>1, <1>2, <1>3 DEF Meaning

(* ... also when one is completed                                          *)
LEMMA WithType ==
  ASSUME NEW s \in SaidSoFar, NEW end \in Seq(Character)
  PROVE  With(s, end) \in Seq(Seq(Character))
<1>1. s.statements \in Seq(Seq(Character)) /\ s.begun \in Seq(Character)
  BY DEF SaidSoFar
<1>2. Trim(s.begun) \o end \in Seq(Character)
  BY <1>1, TrimType, ConcatProperties
<1>3. Append(s.statements, Trim(s.begun) \o end) \in Seq(Seq(Character))
  BY <1>1, <1>2, AppendProperties
<1>4. QED BY <1>1, <1>3 DEF With

(* ... and when a lexeme is added.                                         *)
LEMMA FurtherType ==
  ASSUME NEW s \in SaidSoFar, NEW l \in Lexemes
  PROVE  Further(s, l) \in SaidSoFar
<1>1. s.statements \in Seq(Seq(Character)) /\ s.begun \in Seq(Character)
  BY DEF SaidSoFar
<1>2. <<";">> \in Seq(Character) /\ <<>> \in Seq(Character)
  BY Punctuation, Short, EmptySeq
<1>3. With(s, <<";">>) \in Seq(Seq(Character))
  BY <1>2, WithType
<1>4. s.begun \o Meaning(l) \in Seq(Character)
  BY <1>1, MeaningType, ConcatProperties
<1>5. CASE l.kind = "end"
  BY <1>2, <1>3, <1>5 DEF Further, SaidSoFar
<1>6. CASE l.kind # "end"
  BY <1>1, <1>4, <1>6 DEF Further, SaidSoFar
<1>7. QED BY <1>5, <1>6

(* What the lexemes say, lexeme by lexeme.                                 *)
LEMMA SaidUnfolds ==
  ASSUME NEW file \in Seq(Lexemes)
  PROVE  /\ Said(file) \in [0 .. Len(file) -> SaidSoFar]
         /\ Said(file)[0] = Nothing
         /\ \A n \in 1 .. Len(file) : Said(file)[n] = Further(Said(file)[n - 1], file[n])
<1> DEFINE N == Len(file)
           S == SaidSoFar
           g == [n \in 1 .. N |-> [s \in S |-> Further(s, file[n])]]
           Is(f) == f = [n \in 0 .. N |-> IF n = 0 THEN Nothing ELSE Further(f[n - 1], file[n])]
           t == Said(file)
<1>1. N \in Nat /\ Nothing \in S
  BY DEF Nothing, SaidSoFar
<1>2. \A n \in 1 .. N, s \in S : Further(s, file[n]) \in S
  BY FurtherType
<1>3. (\E f : Is(f)) => Is(t)
  BY DEF Said
<1> HIDE DEF N, S, t
<1>4. g \in [1 .. N -> [S -> S]]
  BY <1>2
<1>5. PICK f : Repeats(f, N, S, Nothing, g)
  <2> HIDE DEF g
  <2>1. QED BY <1>1, <1>4, Recursion
<1> USE <1>5 DEF Repeats
<1>6. \A n \in 1 .. N : f[n - 1] \in S
  BY <1>1
<1>7. \A n \in 1 .. N : f[n] = Further(f[n - 1], file[n])
  BY <1>6
<1>8. Is(f)
  <2>1. f = [n \in 0 .. N |-> f[n]]
    OBVIOUS
  <2>2. \A n \in 0 .. N : f[n] = IF n = 0 THEN Nothing ELSE Further(f[n - 1], file[n])
    BY <1>1, <1>7
  <2>3. QED BY <2>1, <2>2
<1>9. Is(t)
  <2> HIDE DEF Is
  <2>1. QED BY <1>3, <1>8
<1>10. t[0] = Nothing /\ \A n \in 1 .. N : t[n] = Further(t[n - 1], file[n])
  BY <1>1, <1>9
<1>11. 0 .. N \subseteq {n \in 0 .. N : t[n] \in S}
  <2> DEFINE Good == {n \in 0 .. N : t[n] \in S}
  <2>1. 0 \in Good
    BY <1>1, <1>10
  <2>2. ASSUME NEW n \in 1 .. N, n - 1 \in Good PROVE n \in Good
    BY <1>1, <1>2, <1>10, <2>2
  <2> HIDE DEF Good
  <2>3. 0 .. N \subseteq Good
    BY <1>1, <2>1, <2>2, Induction
  <2>4. QED BY <2>3 DEF Good
<1>12. t \in [0 .. N -> S]
  BY <1>9, <1>11
<1>13. QED BY <1>10, <1>12 DEF N, S, t

(* The characters of a lexeme stand in the text in their place, and those  *)
(* of the next one behind them.                                            *)
LEMMA Prefixes ==
  ASSUME NEW file \in Seq(Lexemes)
  PROVE  LET T == Texts(file) IN
         \A m \in 0 .. Len(file) : \A n \in 1 .. m :
           /\ Len(T[n]) = Len(T[n - 1]) + Len(file[n].text)
           /\ Len(T[n]) =< Len(T[m])
           /\ \A o \in 1 .. Len(file[n].text) : T[m][Len(T[n - 1]) + o] = file[n].text[o]
<1> DEFINE T == Texts(file)
           N == Len(file)
           x(n) == file[n].text
           Fits(m) == \A n \in 1 .. m :
                        /\ Len(T[n]) = Len(T[n - 1]) + Len(x(n))
                        /\ Len(T[n]) =< Len(T[m])
                        /\ \A o \in 1 .. Len(x(n)) : T[m][Len(T[n - 1]) + o] = x(n)[o]
           Good == {m \in 0 .. N : Fits(m)}
<1> HIDE DEF T, N, x
<1>1. N \in Nat /\ T \in [0 .. N -> Seq(Character)]
  <2>1. N \in Nat
    BY LenProperties DEF N
  <2>2. T \in [0 .. N -> Seq(Character)]
    BY TextUnfolds DEF N, T
  <2>3. QED BY <2>1, <2>2
<1>0. \A n \in 1 .. N : T[n] = T[n - 1] \o x(n)
  BY TextUnfolds DEF N, T, x
<1>2. \A n \in 1 .. N : x(n) \in Seq(Character)
  BY LexemeText DEF N, x
<1>3. 0 \in Good
  <2>1. Fits(0)
    OBVIOUS
  <2> HIDE DEF Fits
  <2>2. QED BY <1>1, <2>1
<1>4. ASSUME NEW m \in 1 .. N, m - 1 \in Good PROVE m \in Good
  <2> DEFINE B == T[m - 1]
             y == x(m)
  <2>1. /\ B \in Seq(Character) /\ y \in Seq(Character) /\ T[m] = B \o y
        /\ m - 1 \in 0 .. N
    BY <1>0, <1>1, <1>2
  <2> HIDE DEF B, y
  <2>2. /\ Len(B) \in Nat /\ Len(y) \in Nat
        /\ Len(B \o y) = Len(B) + Len(y)
        /\ \A k \in 1 .. Len(B) + Len(y) :
             (B \o y)[k] = IF k =< Len(B) THEN B[k] ELSE y[k - Len(B)]
    BY <2>1, ConcatProperties
  <2>3. Len(B \o y) = Len(B) + Len(y) /\ Len(B) =< Len(B \o y)
    BY <2>2
  <2>4. ASSUME NEW o \in 1 .. Len(y) PROVE (B \o y)[Len(B) + o] = y[o]
    <3>1. /\ Len(B) + o \in 1 .. Len(B) + Len(y) /\ ~(Len(B) + o =< Len(B))
          /\ (Len(B) + o) - Len(B) = o
      BY <2>2
    <3>2. QED BY <2>2, <3>1
  <2>5. ASSUME NEW k \in 1 .. Len(B) PROVE (B \o y)[k] = B[k]
    <3>1. k \in 1 .. Len(B) + Len(y) /\ k =< Len(B)
      BY <2>2
    <3>2. QED BY <2>2, <3>1
  <2>6. ASSUME NEW n \in 1 .. m
        PROVE  /\ Len(T[n]) = Len(T[n - 1]) + Len(x(n))
               /\ Len(T[n]) =< Len(T[m])
               /\ \A o \in 1 .. Len(x(n)) : T[m][Len(T[n - 1]) + o] = x(n)[o]
    <3>1. CASE n = m
      <4>1. /\ Len(T[m]) = Len(T[m - 1]) + Len(x(m)) /\ Len(T[m]) =< Len(T[m])
            /\ \A o \in 1 .. Len(x(m)) : T[m][Len(T[m - 1]) + o] = x(m)[o]
        BY <2>1, <2>2, <2>4 DEF B, y
      <4>2. QED BY <3>1, <4>1
    <3>2. CASE n # m
      <4>0. n \in 1 .. m - 1 /\ n \in 1 .. N /\ n - 1 \in 0 .. N
        BY <1>1, <3>2
      <4>1. /\ Len(T[n]) = Len(T[n - 1]) + Len(x(n)) /\ Len(T[n]) =< Len(B)
            /\ \A o \in 1 .. Len(x(n)) : B[Len(T[n - 1]) + o] = x(n)[o]
        BY <1>4, <4>0 DEF B
      <4>2. Len(T[n - 1]) \in Nat /\ Len(x(n)) \in Nat
        BY <1>1, <1>2, <4>0
      <4>3. ASSUME NEW o \in 1 .. Len(x(n)) PROVE T[m][Len(T[n - 1]) + o] = x(n)[o]
        <5>1. Len(T[n - 1]) + o \in 1 .. Len(B)
          BY <2>2, <4>1, <4>2
        <5>2. (B \o y)[Len(T[n - 1]) + o] = B[Len(T[n - 1]) + o]
          BY <2>5, <5>1
        <5>3. QED BY <2>1, <4>1, <5>2
      <4>4. Len(T[n]) =< Len(T[m])
        BY <2>1, <2>2, <2>3, <4>1, <4>2
      <4>5. QED BY <4>1, <4>3, <4>4
    <3>3. QED BY <3>1, <3>2
  <2>7. Fits(m)
    BY <2>6
  <2> HIDE DEF Fits
  <2>8. QED BY <1>1, <2>7
<1>5. 0 .. N \subseteq Good
  <2> HIDE DEF Good
  <2>1. QED BY <1>1, <1>3, <1>4, Induction
<1>6. \A m \in 0 .. N : Fits(m)
  BY <1>5
<1>7. QED BY <1>6 DEF T, N, x
---------------------------------------------------------------------------
(* The position of the scanner.  Lead(n) characters spell the first n      *)
(* lexemes, which say Before(n).                                           *)
Lead(n) == Len(Texts(lexemes)[n])
Before(n) == Said(lexemes)[n]
Starts(t, last) == CHOOSE starts \in SUBSET (2 .. last) : Divides(starts, t, last)

(* It is behind the n-th lexeme, at the beginning of the next one.         *)
ReadTo(n) ==
  /\ n \in 0 .. Len(lexemes) /\ (n > 0 => lexemes[n].kind \notin {"last", "open"})
  /\ i = Lead(n) + 1 /\ mode = "plain"
  /\ queries = Before(n).statements /\ current = Before(n).begun

(* It is behind the o-th character t[o] of a lexeme, before which begun    *)
(* has been read.                                                          *)
InString(md, t, o, last) == md = t[1] /\ t[1] \in Quotes /\ o + 1 \in Starts(t, last)
Reached(kind, t, o, begun, md, cur) ==
  \/ kind = "quoted" /\ InString(md, t, o, Len(t)) /\ cur = begun \o SubSeq(t, 1, o)
  \/ kind = "kept" /\ md = "kept" /\ o \in 2 .. Len(t) - 2 /\ cur = begun \o SubSeq(t, 1, o)
  \/ kind = "comment" /\ md = "block" /\ o \in 2 .. Len(t) - 2 /\ cur = begun \o <<" ">>
  \/ kind = "line" /\ md = "line" /\ o \in 1 .. Len(t) - 1 /\ cur = begun \o <<" ">>
  \/ kind = "last" /\ md = "line" /\ cur = begun \o <<" ">>
  \/ kind = "open" /\ InString(md, t, o, Len(t) + 1)
  \/ kind = "open" /\ BlockTo(t, Len(t)) /\ md \in {"block", "kept"} /\ o >= 2

ReadInto(n, o) ==
  /\ n \in 1 .. Len(lexemes) /\ o \in 1 .. Len(lexemes[n].text)
  /\ i = Lead(n - 1) + o + 1
  /\ queries = Before(n - 1).statements
  /\ Reached(lexemes[n].kind, lexemes[n].text, o, Before(n - 1).begun, mode, current)

Position ==
  \/ \E n \in 0 .. Len(lexemes) : ReadTo(n)
  \/ \E n \in 1 .. Len(lexemes) : \E o \in 1 .. Len(lexemes[n].text) : ReadInto(n, o)

IInv ==
  /\ lexemes \in Files /\ sql = Spelled(lexemes)
  /\ result = "scanning" => Position
  /\ SplitAsWritten

---------------------------------------------------------------------------
(* The text of the file.                                                   *)
LEMMA FileFacts ==
  ASSUME lexemes \in Files
  PROVE  lexemes \in Seq(Lexemes) /\ WellFormed(lexemes) /\ Len(lexemes) \in Nat
<1>1. PICK n \in 0 .. MaxLexemes : lexemes \in [1 .. n -> Lexemes]
  BY DEF Files
<1>2. n \in Nat
  <2>1. MaxLexemes \in Nat
    BY LexemeAssumption
  <2>2. QED BY <2>1
<1>3. lexemes \in Seq(Lexemes)
  BY <1>1, <1>2
<1>4. QED BY <1>3, LenProperties DEF Files

(* The lexemes lie one behind the other in the text.                       *)
LEMMA LeadFacts ==
  ASSUME lexemes \in Files, sql = Spelled(lexemes), NEW n \in 0 .. Len(lexemes)
  PROVE  /\ Lead(n) \in Nat /\ Lead(0) = 0 /\ Lead(n) =< Len(sql)
         /\ Len(sql) = Lead(Len(lexemes))
<1> DEFINE N == Len(lexemes)
           T == Texts(lexemes)
<1>1. lexemes \in Seq(Lexemes) /\ N \in Nat
  BY FileFacts
<1>2. T \in [0 .. N -> Seq(Character)] /\ T[0] = <<>>
  BY <1>1, TextUnfolds DEF N, T
<1>3. \A k \in 1 .. N : Len(T[k]) =< Len(T[N])
  <2>1. N \in 0 .. N
    BY <1>1
  <2>2. QED BY <1>1, <2>1, Prefixes DEF N, T
<1>4. Len(sql) = Len(T[N])
  BY DEF Spelled, T
<1> HIDE DEF N, T
<1>5. n \in 0 .. N
  BY DEF N
<1>6. Len(T[n]) \in Nat /\ Len(T[N]) \in Nat /\ Len(T[0]) = 0
  BY <1>1, <1>2, <1>5, LenProperties
<1>7. Len(T[n]) =< Len(T[N])
  BY <1>3, <1>5, <1>6
<1>8. QED BY <1>4, <1>6, <1>7 DEF Lead, T, N

(* A lexeme of the file spells what its kind says.                         *)
LEMMA LexemeFacts ==
  ASSUME lexemes \in Files, NEW n \in 1 .. Len(lexemes)
  PROVE  /\ lexemes[n] \in Lexemes /\ lexemes[n].kind \in Kinds
         /\ lexemes[n].text \in Seq(Character) /\ Len(lexemes[n].text) \in Nat
         /\ Len(lexemes[n].text) >= 1 /\ \A o \in 1 .. Len(lexemes[n].text) : lexemes[n].text[o] # ""
         /\ Spells(lexemes[n].text, lexemes[n].kind)
<1>1. lexemes \in Seq(Lexemes)
  BY FileFacts
<1>2. lexemes[n] \in Lexemes /\ lexemes[n].text \in Seq(Character) /\ Len(lexemes[n].text) >= 1
  BY <1>1, LexemeText
<1>3. "" \notin Character
  BY LexemeAssumption
<1>4. lexemes[n].kind \in Kinds /\ Spells(lexemes[n].text, lexemes[n].kind)
  BY <1>2, LexemeAssumption
<1>5. Len(lexemes[n].text) \in Nat /\ \A o \in 1 .. Len(lexemes[n].text) : lexemes[n].text[o] \in Character
  BY <1>2, LenProperties
<1>6. QED BY <1>2, <1>3, <1>4, <1>5

(* The n-th lexeme is read behind Lead(n - 1) characters ...               *)
LEMMA TextAt ==
  ASSUME lexemes \in Files, sql = Spelled(lexemes), NEW n \in 1 .. Len(lexemes)
  PROVE  /\ Lead(n) = Lead(n - 1) + Len(lexemes[n].text)
         /\ \A o \in 1 .. Len(lexemes[n].text) :
              /\ Lead(n - 1) + o =< Len(sql)
              /\ At(Lead(n - 1) + o) = lexemes[n].text[o] /\ At(Lead(n - 1) + o) # ""
<1> DEFINE N == Len(lexemes)
           T == Texts(lexemes)
           t == lexemes[n].text
<1>1. lexemes \in Seq(Lexemes) /\ N \in Nat /\ n \in 0 .. N /\ n - 1 \in 0 .. N /\ N \in 0 .. N
  BY FileFacts
<1>2. /\ Len(T[n]) = Len(T[n - 1]) + Len(t)
      /\ \A o \in 1 .. Len(t) : T[N][Len(T[n - 1]) + o] = t[o]
  BY <1>1, Prefixes DEF N, T, t
<1>3. Lead(n) = Lead(n - 1) + Len(t)
  BY <1>2 DEF Lead, T
<1>4. /\ Lead(n) \in Nat /\ Lead(n - 1) \in Nat /\ Lead(n) =< Len(sql) /\ Len(sql) \in Nat
      /\ Len(t) \in Nat
  BY <1>1, LeadFacts, LexemeFacts
<1>5. ASSUME NEW o \in 1 .. Len(t)
      PROVE  Lead(n - 1) + o =< Len(sql) /\ At(Lead(n - 1) + o) = t[o] /\ At(Lead(n - 1) + o) # ""
  <2>1. sql[Lead(n - 1) + o] = t[o]
    BY <1>2 DEF Spelled, Lead, T, N
  <2> HIDE DEF t
  <2>2. Lead(n - 1) + o =< Len(sql)
    BY <1>3, <1>4
  <2>3. t[o] # ""
    BY LexemeFacts DEF t
  <2>4. QED BY <2>1, <2>2, <2>3 DEF At
<1>6. QED BY <1>3, <1>5

(* ... and the next one behind it, unless it is the last one.              *)
LEMMA TextBehind ==
  ASSUME lexemes \in Files, sql = Spelled(lexemes), NEW n \in 0 .. Len(lexemes)
  PROVE  /\ At(Lead(n) + 1) = First(lexemes, n + 1)
         /\ Lead(n) + 1 =< Len(sql) <=> n < Len(lexemes)
         /\ n = Len(lexemes) => First(lexemes, n + 1) = ""
<1> DEFINE N == Len(lexemes)
           L == Lead(n)
<1>1. N \in Nat /\ L \in Nat /\ Len(sql) \in Nat
  BY FileFacts, LeadFacts
<1>2. CASE n = N
  <2>1. L = Len(sql)
    BY <1>2, LeadFacts
  <2> HIDE DEF L
  <2>2. ~(L + 1 =< Len(sql)) /\ ~(n < N) /\ ~(n + 1 =< N)
    BY <1>1, <1>2, <2>1
  <2>3. At(L + 1) = "" /\ First(lexemes, n + 1) = ""
    BY <2>2 DEF At, First, N
  <2>4. QED BY <2>2, <2>3 DEF L
<1>3. CASE n # N
  <2> DEFINE m == n + 1
  <2>1. m \in 1 .. N /\ n < N /\ m - 1 = n /\ m =< N
    BY <1>1, <1>3
  <2> HIDE DEF m, L
  <2>2. 1 \in 1 .. Len(lexemes[m].text)
    <3>1. m \in 1 .. Len(lexemes)
      BY <2>1 DEF N
    <3>2. Len(lexemes[m].text) \in Nat /\ Len(lexemes[m].text) >= 1
      BY <3>1, LexemeFacts
    <3>3. QED BY <3>2
  <2>3. Lead(m - 1) + 1 =< Len(sql) /\ At(Lead(m - 1) + 1) = lexemes[m].text[1]
    BY <2>1, <2>2, TextAt DEF N
  <2>4. First(lexemes, m) = lexemes[m].text[1]
    BY <2>1 DEF First, N
  <2>5. L + 1 =< Len(sql) /\ At(L + 1) = First(lexemes, m)
    BY <2>1, <2>3, <2>4 DEF L
  <2>6. QED BY <1>3, <2>1, <2>5 DEF L, m
<1>4. QED BY <1>2, <1>3

(* What has been said is made of characters.                               *)
LEMMA SaidFacts ==
  ASSUME lexemes \in Files, NEW n \in 0 .. Len(lexemes)
  PROVE  Before(n).statements \in Seq(Seq(Character)) /\ Before(n).begun \in Seq(Character)
<1>1. Before(n) \in SaidSoFar
  BY FileFacts, SaidUnfolds DEF Before
<1>2. QED BY <1>1 DEF SaidSoFar

(* A lexeme adds to what has been said before it.                          *)
LEMMA SaysMore ==
  ASSUME lexemes \in Files, NEW n \in 1 .. Len(lexemes)
  PROVE  /\ Before(n) = Further(Before(n - 1), lexemes[n])
         /\ n - 1 \in 0 .. Len(lexemes) /\ n \in 0 .. Len(lexemes)
<1>1. Before(n) = Further(Before(n - 1), lexemes[n])
  BY FileFacts, SaidUnfolds DEF Before
<1>2. QED BY <1>1, FileFacts

(* The characters ahead of the scanner in the n-th lexeme.                 *)
LEMMA Ahead ==
  ASSUME lexemes \in Files, sql = Spelled(lexemes), NEW n \in 1 .. Len(lexemes),
         NEW o \in Nat, o < Len(lexemes[n].text), i = Lead(n - 1) + o + 1
  PROVE  LET t == lexemes[n].text IN
         /\ c = t[o + 1] /\ c # "" /\ i =< Len(sql)
         /\ o + 1 < Len(t) => next = t[o + 2] /\ next # ""
         /\ o + 1 = Len(t) => next = First(lexemes, n + 1)
         /\ o + 2 < Len(t) => At(i + 2) = t[o + 3] /\ At(i + 2) # ""
         /\ o + 2 = Len(t) => At(i + 2) = First(lexemes, n + 1)
         /\ o + 3 < Len(t) => At(i + 3) = t[o + 4]
<1> DEFINE t == lexemes[n].text
           L == Lead(n - 1)
<1>1. Len(t) \in Nat
  BY LexemeFacts
<1>2. L \in Nat /\ n \in 0 .. Len(lexemes) /\ n - 1 \in 0 .. Len(lexemes)
  BY SaysMore, LeadFacts
<1>3. \A k \in 1 .. Len(t) : L + k =< Len(sql) /\ At(L + k) = t[k] /\ At(L + k) # ""
  BY TextAt
<1>4. At(L + Len(t) + 1) = First(lexemes, n + 1)
  BY <1>2, TextAt, TextBehind
<1>5. i = L + (o + 1) /\ i + 1 = L + (o + 2) /\ i + 2 = L + (o + 3) /\ i + 3 = L + (o + 4)
  BY <1>2
<1>0. o \in Nat /\ o < Len(t)
  OBVIOUS
<1> HIDE DEF t, L
<1>6. /\ o + 1 \in 1 .. Len(t)
      /\ o + 1 < Len(t) => o + 2 \in 1 .. Len(t)
      /\ o + 2 < Len(t) => o + 3 \in 1 .. Len(t)
      /\ o + 3 < Len(t) => o + 4 \in 1 .. Len(t)
      /\ o + 1 = Len(t) => L + (o + 2) = L + Len(t) + 1
      /\ o + 2 = Len(t) => L + (o + 3) = L + Len(t) + 1
  BY <1>0, <1>1, <1>2
<1>7. c = t[o + 1] /\ c # "" /\ i =< Len(sql)
  BY <1>3, <1>5, <1>6 DEF c
<1>8. /\ o + 1 < Len(t) => next = t[o + 2] /\ next # ""
      /\ o + 1 = Len(t) => next = First(lexemes, n + 1)
  BY <1>3, <1>4, <1>5, <1>6 DEF next
<1>9. /\ o + 2 < Len(t) => At(i + 2) = t[o + 3] /\ At(i + 2) # ""
      /\ o + 2 = Len(t) => At(i + 2) = First(lexemes, n + 1)
  BY <1>3, <1>4, <1>5, <1>6
<1>10. o + 3 < Len(t) => At(i + 3) = t[o + 4]
  BY <1>3, <1>5, <1>6
<1>11. QED BY <1>7, <1>8, <1>9, <1>10 DEF t

(* Putting together three sequences in either order is the same.           *)
LEMMA Regroup ==
  ASSUME NEW S, NEW a \in Seq(S), NEW b \in Seq(S), NEW d \in Seq(S)
  PROVE  (a \o b) \o d = a \o (b \o d)
BY ConcatAssociative

(* A pair is one character behind the other.                               *)
LEMMA Joined ==
  ASSUME NEW S, NEW x \in S, NEW y \in S
  PROVE  <<x, y>> = <<x>> \o <<y>>
<1> DEFINE u == <<x>>
           v == <<y>>
           w == <<x, y>>
<1>1. u \in Seq(S) /\ v \in Seq(S) /\ w \in Seq(S)
  OBVIOUS
<1>2. Len(u) = 1 /\ Len(v) = 1 /\ Len(w) = 2 /\ u[1] = x /\ v[1] = y /\ w[1] = x /\ w[2] = y
  OBVIOUS
<1> SUFFICES w = u \o v
  OBVIOUS
<1> HIDE DEF u, v, w
<1> DEFINE z == u \o v
<1>3. z \in Seq(S) /\ Len(z) = 2 /\ z[1] = x /\ z[2] = y
  BY <1>1, <1>2, ConcatProperties
<1> HIDE DEF z
<1>4. \A k \in 1 .. Len(w) : w[k] = z[k]
  BY <1>2, <1>3
<1>5. w = z
  BY <1>1, <1>2, <1>3, <1>4, SeqEqual
<1>6. QED BY <1>5 DEF z

(* Copying two characters is copying one and then the other.               *)
LEMMA OneByOne ==
  ASSUME NEW S, NEW q \in Seq(S), NEW x \in S, NEW y \in S
  PROVE  q \o <<x, y>> = (q \o <<x>>) \o <<y>>
<1> DEFINE a == <<x>>
           b == <<y>>
           d == <<x, y>>
<1>1. a \in Seq(S) /\ b \in Seq(S)
  OBVIOUS
<1>2. d = a \o b
  BY Joined
<1> SUFFICES q \o d = (q \o a) \o b
  OBVIOUS
<1> HIDE DEF a, b, d
<1>3. (q \o a) \o b = q \o (a \o b)
  BY <1>1, ConcatAssociative
<1>4. QED BY <1>2, <1>3

(* What has been copied of a lexeme grows by a character or by two.        *)
LEMMA Copied ==
  ASSUME NEW S, NEW b \in Seq(S), NEW t \in Seq(S), Len(t) >= 1
  PROVE  /\ b \o <<t[1]>> = b \o SubSeq(t, 1, 1)
         /\ b \o SubSeq(t, 1, Len(t)) = b \o t
<1>1. Len(t) \in Nat /\ \A o \in 1 .. Len(t) : t[o] \in S
  BY LenProperties
<1>2. SubSeq(t, 1, Len(t)) = t
  BY SubSeqFull
<1>3. SubSeq(t, 1, 1) = <<t[1]>>
  <2>1. SubSeq(t, 1, 1) = SubSeq(t, 1, 1 - 1) \o <<t[1]>> /\ <<t[1]>> \in Seq(S)
    BY <1>1, SubSeqRecursiveSecond
  <2>2. SubSeq(t, 1, 1 - 1) = <<>>
    BY SubSeqEmpty
  <2>3. QED BY <2>1, <2>2, ConcatEmptySeq
<1>4. QED BY <1>2, <1>3

(* ... by one,                                                             *)
LEMMA CopiedOne ==
  ASSUME NEW S, NEW b \in Seq(S), NEW t \in Seq(S), NEW o \in 1 .. Len(t) - 1
  PROVE  (b \o SubSeq(t, 1, o)) \o <<t[o + 1]>> = b \o SubSeq(t, 1, o + 1)
<1> DEFINE p(k) == SubSeq(t, 1, k)
           w == <<t[o + 1]>>
           q == p(o)
<1>1. Len(t) \in Nat /\ \A k \in 1 .. Len(t) : t[k] \in S
  BY LenProperties
<1>2. o + 1 \in 1 .. Len(t) /\ (o + 1) - 1 = o /\ 1 \in 1 .. Len(t) /\ o \in 1 .. Len(t)
      /\ o + 1 \in 1 .. Len(t)
  BY <1>1
<1>3. p(o + 1) = q \o w
  <2>1. p(o + 1) = p((o + 1) - 1) \o <<t[o + 1]>>
    BY <1>2, SubSeqRecursiveSecond
  <2>2. QED BY <1>2, <2>1
<1>4. w \in Seq(S)
  BY <1>1, <1>2
<1>5. q \in Seq(S)
  BY <1>1, <1>2, SubSeqProperties
<1> HIDE DEF p, w, q
<1>6. (b \o q) \o w = b \o (q \o w)
  BY <1>4, <1>5, Regroup, SMTT(20)
<1>7. (b \o q) \o w = b \o p(o + 1)
  BY <1>3, <1>6
<1>8. QED BY <1>7 DEF p, w, q

(* ... by two,                                                             *)
LEMMA CopiedTwo ==
  ASSUME NEW S, NEW b \in Seq(S), NEW t \in Seq(S), NEW o \in 1 .. Len(t) - 2
  PROVE  (b \o SubSeq(t, 1, o)) \o <<t[o + 1], t[o + 2]>> = b \o SubSeq(t, 1, o + 2)
<1> DEFINE q == b \o SubSeq(t, 1, o)
           x == t[o + 1]
           y == t[o + 2]
<1>1. Len(t) \in Nat /\ \A k \in 1 .. Len(t) : t[k] \in S
  BY LenProperties
<1>2. o \in 1 .. Len(t) - 1 /\ o + 1 \in 1 .. Len(t) - 1 /\ o + 1 + 1 = o + 2 /\ o \in 1 .. Len(t)
  BY <1>1
<1>3. x \in S /\ y \in S
  BY <1>1
<1>4. q \in Seq(S)
  <2>1. SubSeq(t, 1, o) \in Seq(S)
    BY <1>1, <1>2, SubSeqProperties
  <2>2. QED BY <2>1, ConcatProperties
<1>5. (q \o <<x>>) \o <<y>> = b \o SubSeq(t, 1, o + 2)
  <2>1. q \o <<x>> = b \o SubSeq(t, 1, o + 1)
    BY <1>2, CopiedOne
  <2>2. (b \o SubSeq(t, 1, o + 1)) \o <<t[o + 1 + 1]>> = b \o SubSeq(t, 1, o + 1 + 1)
    BY <1>2, CopiedOne
  <2>3. QED BY <1>2, <2>1, <2>2
<1> HIDE DEF q, x, y
<1>6. q \o <<x, y>> = (q \o <<x>>) \o <<y>>
  BY <1>3, <1>4, OneByOne
<1>7. q \o <<x, y>> = b \o SubSeq(t, 1, o + 2)
  BY <1>5, <1>6
<1>8. QED BY <1>7 DEF q, x, y

(* ... by two at the beginning.                                            *)
LEMMA CopiedPair ==
  ASSUME NEW S, NEW b \in Seq(S), NEW t \in Seq(S), Len(t) >= 2
  PROVE  b \o <<t[1], t[2]>> = b \o SubSeq(t, 1, 2)
<1> DEFINE x == t[1]
           y == t[2]
<1>1. Len(t) \in Nat /\ \A k \in 1 .. Len(t) : t[k] \in S
  BY LenProperties
<1>2. 1 \in 1 .. Len(t) - 1 /\ 1 + 1 = 2 /\ Len(t) >= 1
  BY <1>1
<1>3. x \in S /\ y \in S
  BY <1>1
<1>4. (b \o <<x>>) \o <<y>> = b \o SubSeq(t, 1, 2)
  <2>1. (b \o SubSeq(t, 1, 1)) \o <<t[1 + 1]>> = b \o SubSeq(t, 1, 1 + 1)
    BY <1>2, CopiedOne
  <2>2. b \o <<x>> = b \o SubSeq(t, 1, 1)
    BY <1>2, Copied
  <2>3. QED BY <1>2, <2>1, <2>2
<1> HIDE DEF x, y
<1>5. b \o <<x, y>> = (b \o <<x>>) \o <<y>>
  BY <1>3, OneByOne
<1>6. QED BY <1>4, <1>5 DEF x, y

---------------------------------------------------------------------------
(* What the loop does with the character, by where it is.                  *)
Plain ==
  mode = "plain" =>
    /\ c \in Quotes => Take(1, <<c>>, c)
    /\ OpensLine => Take(1, <<" ">>, "line")
    /\ OpensBlock => IF IsKept THEN Take(2, <<c, next>>, "kept") ELSE Take(2, <<" ">>, "block")
    /\ c = ";" => EndStatement
    /\ c \notin Quotes \cup {";"} /\ ~OpensLine /\ ~OpensBlock => Take(1, <<c>>, "plain")
Commented ==
  /\ mode = "line" => IF c = "\n" THEN Take(1, <<"\n">>, "plain") ELSE Take(1, <<>>, "line")
  /\ mode = "block" => IF c = "*" /\ next = "/" THEN Take(2, <<" ">>, "plain")
                       ELSE Take(1, <<>>, "block")
  /\ mode = "kept" => IF c = "*" /\ next = "/" THEN Take(2, <<c, next>>, "plain")
                      ELSE Take(1, <<c>>, "kept")
Quoted ==
  mode \in Quotes =>
    IF Escaped \/ (c = mode /\ next = mode) THEN Take(2, <<c, next>>, mode)
    ELSE Take(1, <<c>>, IF Ended THEN "plain" ELSE mode)

(* A step of Scan, by the mode the scanner is in.                          *)
LEMMA ScanCases == Scan => Plain /\ Commented /\ Quoted /\ i =< Len(sql)
<1> SUFFICES ASSUME Scan PROVE Plain /\ Commented /\ Quoted /\ i =< Len(sql)
  OBVIOUS
<1> USE DEF Reading, Quotes
<1>1. CASE InLineComment
  BY <1>1 DEF InLineComment, Plain, Commented, Quoted
<1>2. CASE InBlockComment
  BY <1>2 DEF InBlockComment, Plain, Commented, Quoted
<1>3. CASE InQuote
  BY <1>3 DEF InQuote, Plain, Commented, Quoted
<1> USE DEF Plain, Commented, Quoted
<1>4. CASE OpenQuote
  BY <1>4 DEF OpenQuote, OpensLine, OpensBlock
<1>5. CASE OpenLine
  BY <1>5 DEF OpenLine, OpensLine, OpensBlock
<1>6. CASE OpenBlock
  BY <1>6 DEF OpenBlock, OpensLine, OpensBlock
<1>7. CASE EndStatement
  BY <1>7 DEF EndStatement, OpensLine, OpensBlock
<1>8. CASE Copy
  BY <1>8 DEF Copy
<1>9. QED BY <1>1, <1>2, <1>3, <1>4, <1>5, <1>6, <1>7, <1>8 DEF Scan

Scanning == lexemes \in Files /\ sql = Spelled(lexemes) /\ Scan /\ lexemes' = lexemes

(* It has come to the end of a lexeme, or to a character in one.           *)
LEMMA Arrives ==
  ASSUME lexemes' = lexemes, NEW n \in 0 .. Len(lexemes),
         n > 0 => lexemes[n].kind \notin {"last", "open"},
         i' = Lead(n) + 1, mode' = "plain",
         queries' = Before(n).statements, current' = Before(n).begun
  PROVE  Position'
<1>1. ReadTo(n)'
  BY DEF ReadTo, Lead, Before
<1>2. QED BY <1>1 DEF Position

(* ... or inside of one.                                                   *)
LEMMA Enters ==
  ASSUME lexemes' = lexemes, NEW n \in 1 .. Len(lexemes), NEW o \in 1 .. Len(lexemes[n].text),
         i' = Lead(n - 1) + o + 1, queries' = Before(n - 1).statements,
         Reached(lexemes[n].kind, lexemes[n].text, o, Before(n - 1).begun, mode', current')
  PROVE  Position'
<1>1. ReadInto(n, o)'
  BY DEF ReadInto, Lead, Before
<1>2. QED BY <1>1 DEF Position

(* What the scanner has read behind the n-th lexeme.                       *)
LEMMA Ends ==
  ASSUME lexemes \in Files, NEW n \in 1 .. Len(lexemes), lexemes[n].kind = "end"
  PROVE  Before(n).statements = With(Before(n - 1), <<";">>) /\ Before(n).begun = <<>>
<1> DEFINE s == Before(n - 1)
           l == lexemes[n]
           x == Before(n)
<1>1. x = Further(s, l)
  BY SaysMore
<1> HIDE DEF s, l, x
<1>2. x = [statements |-> With(s, <<";">>), begun |-> <<>>]
  BY <1>1 DEF Further, l
<1>3. x.statements = With(s, <<";">>) /\ x.begun = <<>>
  BY <1>2
<1>4. QED BY <1>3 DEF s, x

(* All lexemes but semicolons add their meaning to the statement begun.    *)
LEMMA Says ==
  ASSUME lexemes \in Files, NEW n \in 1 .. Len(lexemes), lexemes[n].kind # "end"
  PROVE  /\ Before(n).statements = Before(n - 1).statements
         /\ Before(n).begun = Before(n - 1).begun \o Meaning(lexemes[n])
<1> DEFINE s == Before(n - 1)
           l == lexemes[n]
           x == Before(n)
<1>1. x = Further(s, l)
  BY SaysMore
<1> HIDE DEF s, l, x
<1>2. x = [statements |-> s.statements, begun |-> s.begun \o Meaning(l)]
  BY <1>1 DEF Further, l
<1>3. x.statements = s.statements /\ x.begun = s.begun \o Meaning(l)
  BY <1>2
<1>4. QED BY <1>3 DEF s, l, x

(* The lexemes of a kind, and how they begin.                              *)
LEMMA OfKind ==
  ASSUME NEW t
  PROVE  /\ Spells(t, "code") => Len(t) = 1 /\ t[1] \notin Quotes \cup {";", "#"}
         /\ Spells(t, "end") => Len(t) = 1 /\ t[1] = ";"
         /\ Spells(t, "quoted") => Len(t) >= 2 /\ ReadsTo(t, Len(t)) /\ t[Len(t)] = t[1]
         /\ Spells(t, "kept") => Block(t) /\ Executable(t)
         /\ Spells(t, "comment") => Block(t) /\ ~Executable(t)
         /\ Spells(t, "line") => Len(t) >= 2 /\ LineTo(t, Len(t)) /\ t[Len(t)] = "\n"
         /\ Spells(t, "last") => LineTo(t, Len(t) + 1)
         /\ Spells(t, "open") => ReadsTo(t, Len(t) + 1) \/ BlockTo(t, Len(t))
<1>1. Spells(t, "code") => Len(t) = 1 /\ t[1] \notin Quotes \cup {";", "#"}
  BY DEF Spells
<1>2. Spells(t, "end") => Len(t) = 1 /\ t[1] = ";"
  <2>1. Spells(t, "end") => t = <<";">>
    BY DEF Spells
  <2>2. Len(<<";">>) = 1 /\ <<";">>[1] = ";"
    OBVIOUS
  <2>3. QED BY <2>1, <2>2
<1>3. Spells(t, "quoted") => Len(t) >= 2 /\ ReadsTo(t, Len(t)) /\ t[Len(t)] = t[1]
  BY DEF Spells
<1>4. Spells(t, "kept") => Block(t) /\ Executable(t)
  BY DEF Spells
<1>5. Spells(t, "comment") => Block(t) /\ ~Executable(t)
  BY DEF Spells
<1>6. Spells(t, "line") => Len(t) >= 2 /\ LineTo(t, Len(t)) /\ t[Len(t)] = "\n"
  BY DEF Spells
<1>7. Spells(t, "last") => LineTo(t, Len(t) + 1)
  BY DEF Spells
<1>8. Spells(t, "open") => ReadsTo(t, Len(t) + 1) \/ BlockTo(t, Len(t))
  BY DEF Spells
<1>9. QED BY <1>1, <1>2, <1>3, <1>4, <1>5, <1>6, <1>7, <1>8

(* What the first character of a lexeme says of its kind.                  *)
LEMMA FirstOfKind ==
  ASSUME lexemes \in Files, NEW n \in 1 .. Len(lexemes)
  PROVE  LET t == lexemes[n].text
             kind == lexemes[n].kind IN
         /\ t[1] \in Quotes => kind \in {"quoted", "open"}
         /\ t[1] = "-" => kind = "code" \/ (kind \in {"line", "last"} /\ Len(t) >= 2 /\ t[2] = "-")
         /\ t[1] = "*" => kind = "code"
<1> DEFINE t == lexemes[n].text
           kind == lexemes[n].kind
<1>1. kind \in Kinds /\ Spells(t, kind) /\ Len(t) \in Nat /\ Len(t) >= 1
  BY LexemeFacts
<1> SUFFICES
      /\ t[1] \in Quotes => kind \in {"quoted", "open"}
      /\ t[1] = "-" => kind = "code" \/ (kind \in {"line", "last"} /\ Len(t) >= 2 /\ t[2] = "-")
      /\ t[1] = "*" => kind = "code"
  OBVIOUS
<1> HIDE DEF t, kind
<1>2. CASE kind = "code"
  BY <1>1, <1>2, OfKind
<1>3. CASE kind = "end"
  BY <1>1, <1>3, OfKind DEF Quotes
<1>4. CASE kind = "quoted"
  <2>1. t[1] \in Quotes
    BY <1>1, <1>4, OfKind DEF ReadsTo
  <2>2. QED BY <1>4, <2>1 DEF Quotes
<1>5. CASE kind \in {"kept", "comment"}
  <2>1. t[1] = "/"
    BY <1>1, <1>5, OfKind DEF Block, BlockTo
  <2>2. QED BY <2>1 DEF Quotes
<1>6. CASE kind \in {"line", "last"}
  <2>1. t[1] = "#" \/ (t[1] = "-" /\ Len(t) >= 2 /\ t[2] = "-")
    BY <1>1, <1>6, OfKind DEF LineTo
  <2>2. QED BY <1>6, <2>1 DEF Quotes
<1>7. CASE kind = "open"
  <2>1. t[1] \in Quotes \/ t[1] = "/"
    BY <1>1, <1>7, OfKind DEF ReadsTo, BlockTo
  <2>2. QED BY <1>7, <2>1 DEF Quotes
<1>8. QED
  <2>1. kind \in {"code", "end", "quoted", "kept", "comment", "line", "last", "open"}
    BY <1>1 DEF Kinds
  <2>2. QED BY <1>2, <1>3, <1>4, <1>5, <1>6, <1>7, <2>1

(* Where the pairs and the single characters of a string begin.            *)
LEMMA Divided ==
  ASSUME NEW t, NEW last, ReadsTo(t, last)
  PROVE  /\ Starts(t, last) \subseteq 2 .. last /\ 2 \in Starts(t, last) /\ t[1] \in Quotes
         /\ \A k \in Starts(t, last) : k # last =>
              IF Pair(t, k) THEN k + 2 \in Starts(t, last)
              ELSE t[k] # t[1] /\ k + 1 \in Starts(t, last)
<1>1. \E starts \in SUBSET (2 .. last) : Divides(starts, t, last)
  BY DEF ReadsTo
<1>2. Divides(Starts(t, last), t, last)
  BY <1>1 DEF Starts
<1>3. QED BY <1>2 DEF Divides, ReadsTo

(* What is read at the beginning of the n-th lexeme.                       *)
LEMMA Facing ==
  ASSUME Scanning, NEW n \in 1 .. Len(lexemes), ReadTo(n - 1)
  PROVE  LET t == lexemes[n].text IN
         /\ c = t[1] /\ Len(t) \in Nat /\ Len(t) >= 1 /\ Spells(t, lexemes[n].kind)
         /\ Len(t) >= 2 => next = t[2]
         /\ Len(t) = 1 => next = First(lexemes, n + 1)
         /\ Len(t) >= 3 => At(i + 2) = t[3]
         /\ Len(t) = 2 => At(i + 2) = First(lexemes, n + 1)
         /\ Len(t) >= 4 => At(i + 3) = t[4]
         /\ i = Lead(n - 1) + 1 /\ Lead(n - 1) \in Nat /\ Lead(n) = Lead(n - 1) + Len(t)
<1> DEFINE t == lexemes[n].text
<1>1. lexemes \in Files /\ sql = Spelled(lexemes) /\ i = Lead(n - 1) + 1
  BY DEF Scanning, ReadTo
<1>2. Len(t) \in Nat /\ Len(t) >= 1 /\ Spells(t, lexemes[n].kind)
  BY <1>1, LexemeFacts
<1>3. Lead(n - 1) \in Nat /\ Lead(n) = Lead(n - 1) + Len(t)
  BY <1>1, SaysMore, LeadFacts, TextAt
<1>4. 0 \in Nat /\ 0 < Len(t) /\ i = Lead(n - 1) + 0 + 1
  BY <1>1, <1>2, <1>3
<1>5. /\ c = t[0 + 1]
      /\ 0 + 1 < Len(t) => next = t[0 + 2]
      /\ 0 + 1 = Len(t) => next = First(lexemes, n + 1)
      /\ 0 + 2 < Len(t) => At(i + 2) = t[0 + 3]
      /\ 0 + 2 = Len(t) => At(i + 2) = First(lexemes, n + 1)
      /\ 0 + 3 < Len(t) => At(i + 3) = t[0 + 4]
  BY <1>1, <1>4, Ahead
<1> HIDE DEF t
<1>6. /\ c = t[1]
      /\ Len(t) >= 2 => next = t[2]
      /\ Len(t) = 1 => next = First(lexemes, n + 1)
      /\ Len(t) >= 3 => At(i + 2) = t[3]
      /\ Len(t) = 2 => At(i + 2) = First(lexemes, n + 1)
      /\ Len(t) >= 4 => At(i + 3) = t[4]
  BY <1>2, <1>5
<1>7. QED BY <1>1, <1>2, <1>3, <1>6 DEF t

(* Reading a character by itself or a pair, without leaving the mode.      *)
LEMMA Taken ==
  ASSUME NEW n, NEW emitted, NEW then, Take(n, emitted, then)
  PROVE  i' = i + n /\ current' = current \o emitted /\ mode' = then /\ queries' = queries
BY DEF Take

(* At the beginning of a lexeme the scanner knows its kind.                *)
LEMMA BeginCode ==
  ASSUME Scanning, NEW n \in 1 .. Len(lexemes), ReadTo(n - 1), lexemes[n].kind = "code"
  PROVE  Position'
<1> DEFINE t == lexemes[n].text
           b == Before(n - 1).begun
<1>1. /\ lexemes \in Files /\ sql = Spelled(lexemes) /\ lexemes' = lexemes /\ WellFormed(lexemes)
      /\ mode = "plain" /\ queries = Before(n - 1).statements /\ current = b
  BY FileFacts DEF Scanning, ReadTo
<1>2. /\ Len(t) = 1 /\ c = t[1] /\ next = First(lexemes, n + 1)
      /\ c \notin Quotes \cup {";", "#"}
      /\ i = Lead(n - 1) + 1 /\ Lead(n - 1) \in Nat /\ Lead(n) = Lead(n - 1) + 1
  BY Facing, OfKind
<1>3. n \in Nat /\ Len(lexemes) \in Nat /\ n \in 0 .. Len(lexemes) /\ n =< Len(lexemes)
  BY <1>1, FileFacts, SaysMore
<1>4. First(lexemes, n) = c
  BY <1>2, <1>3 DEF First
<1>5. \A k \in 1 .. Len(lexemes) : lexemes[k].kind = "code" =>
         /\ ~(First(lexemes, k) = "/" /\ First(lexemes, k + 1) = "*")
         /\ ~(/\ First(lexemes, k) = "-" /\ First(lexemes, k + 1) = "-"
              /\ lexemes[k + 1].kind = "code"
              /\ First(lexemes, k + 2) \in Blanks \cup {""})
  BY <1>1 DEF WellFormed
<1>6. ~OpensBlock
  BY <1>2, <1>4, <1>5 DEF OpensBlock
<1>7. ~OpensLine
  <2>1. SUFFICES ASSUME c = "-", next = "-" PROVE At(i + 2) \notin Blanks \cup {""}
    BY <1>2 DEF OpensLine
  <2> DEFINE m == n + 1
  <2>2. m \in 1 .. Len(lexemes) /\ m - 1 = n /\ m + 1 = n + 2
    BY <1>2, <1>3, <2>1 DEF First
  <2> DEFINE u == lexemes[m].text
  <2>3. u[1] = "-"
    BY <1>2, <2>1, <2>2 DEF First
  <2> HIDE DEF m
  <2>4. lexemes[m].kind = "code" \/ (Len(u) >= 2 /\ u[2] = "-")
    BY <1>1, <2>2, <2>3, FirstOfKind
  <2>5. /\ Spells(u, lexemes[m].kind) /\ Len(u) \in Nat
        /\ \A o \in 1 .. Len(u) : At(Lead(n) + o) = u[o]
    BY <1>1, <2>2, TextAt, LexemeFacts
  <2>6. i + 2 = Lead(n) + 2 /\ Lead(m) = Lead(n) + Len(u) /\ Lead(n) \in Nat
    <3>1. Lead(m) = Lead(n) + Len(u)
      BY <1>1, <2>2, TextAt
    <3>2. i = Lead(n - 1) + 1 /\ Lead(n - 1) \in Nat /\ Lead(n) = Lead(n - 1) + 1
      BY <1>2
    <3>3. QED BY <3>1, <3>2
  <2>7. CASE lexemes[m].kind = "code"
    <3>1. Len(u) = 1
      BY <2>5, <2>7, OfKind
    <3>2. i + 2 = Lead(m) + 1
      BY <2>6, <3>1
    <3>3. At(Lead(m) + 1) = First(lexemes, m + 1)
      BY <1>1, <2>2, SaysMore, TextBehind
    <3>4. First(lexemes, m + 1) \notin Blanks \cup {""}
      BY <1>2, <1>4, <1>5, <2>1, <2>2, <2>7 DEF m
    <3>5. QED BY <3>2, <3>3, <3>4
  <2>8. CASE Len(u) >= 2 /\ u[2] = "-"
    <3>1. 2 \in 1 .. Len(u)
      BY <2>5, <2>8
    <3>2. At(i + 2) = "-"
      BY <2>5, <2>6, <2>8, <3>1
    <3>3. QED BY <3>2 DEF Blanks
  <2>9. QED BY <2>4, <2>7, <2>8
<1>8. Take(1, <<c>>, "plain")
  BY <1>1, <1>2, <1>6, <1>7, ScanCases DEF Scanning, Plain
<1>9. i' = Lead(n) + 1 /\ mode' = "plain" /\ queries' = queries /\ current' = b \o <<c>>
  BY <1>1, <1>2, <1>8, Taken
<1>10. b \o <<c>> = b \o t
  <2>1. t \in Seq(Character) /\ b \in Seq(Character) /\ Len(t) >= 1
    BY <1>1, LexemeFacts, SaidFacts, SaysMore
  <2> HIDE DEF t, b
  <2>2. b \o <<t[1]>> = b \o SubSeq(t, 1, 1) /\ b \o SubSeq(t, 1, Len(t)) = b \o t
    BY <2>1, Copied
  <2>3. QED BY <1>2, <2>2
<1>11. Before(n).statements = Before(n - 1).statements /\ Before(n).begun = b \o t
  BY <1>1, Says DEF Meaning
<1>12. QED BY <1>1, <1>3, <1>9, <1>10, <1>11, Arrives

(* A semicolon completes a statement.                                      *)
LEMMA BeginEnd ==
  ASSUME Scanning, NEW n \in 1 .. Len(lexemes), ReadTo(n - 1), lexemes[n].kind = "end"
  PROVE  Position'
<1> DEFINE b == Before(n - 1).begun
           q == Before(n - 1).statements
<1>1. /\ lexemes \in Files /\ lexemes' = lexemes
      /\ mode = "plain" /\ queries = q /\ current = b
  BY DEF Scanning, ReadTo
<1>2. /\ c = ";" /\ i = Lead(n - 1) + 1 /\ Lead(n - 1) \in Nat /\ Lead(n) = Lead(n - 1) + 1
  BY Facing, OfKind
<1>3. EndStatement
  BY <1>1, <1>2, ScanCases DEF Scanning, Plain
<1>4. /\ i' = Lead(n) + 1 /\ mode' = "plain" /\ current' = <<>>
      /\ queries' = IF Trim(b) = <<>> THEN q ELSE Append(q, Append(Trim(b), ";"))
  BY <1>1, <1>2, <1>3 DEF EndStatement
<1>5. Append(Trim(b), ";") = Trim(b) \o <<";">>
  <2>1. Trim(b) \in Seq(Character)
    BY <1>1, SaidFacts, SaysMore, TrimType
  <2>2. QED BY <2>1, Punctuation, AppendIsConcat
<1>6. Before(n).statements = With(Before(n - 1), <<";">>) /\ Before(n).begun = <<>>
  BY <1>1, Ends
<1>7. Before(n).statements = queries' /\ Before(n).begun = <<>>
  <2>2. With(Before(n - 1), <<";">>) = IF Trim(b) = <<>> THEN q ELSE Append(q, Trim(b) \o <<";">>)
    BY DEF With
  <2> HIDE DEF b, q
  <2>3. QED BY <1>4, <1>5, <1>6, <2>2
<1>8. QED BY <1>1, <1>4, <1>7, SaysMore, Arrives

(* Nothing stands behind what is left open.                                *)
LEMMA AtTheEnd ==
  ASSUME lexemes \in Files, sql = Spelled(lexemes), NEW n \in 1 .. Len(lexemes),
         lexemes[n].kind \in {"last", "open"}
  PROVE  n = Len(lexemes) /\ First(lexemes, n + 1) = ""
<1>1. WellFormed(lexemes)
  BY FileFacts
<1>2. n = Len(lexemes)
  BY <1>1 DEF WellFormed
<1>3. QED BY <1>2, SaysMore, TextBehind

(* A quote opens a string or an identifier.                                *)
LEMMA BeginQuote ==
  ASSUME Scanning, NEW n \in 1 .. Len(lexemes), ReadTo(n - 1),
         lexemes[n].kind \in {"quoted", "open"}, lexemes[n].text[1] \in Quotes
  PROVE  Position'
<1> DEFINE t == lexemes[n].text
           kind == lexemes[n].kind
           b == Before(n - 1).begun
           q == Before(n - 1).statements
<1>1. lexemes \in Files /\ lexemes' = lexemes /\ mode = "plain" /\ queries = q /\ current = b
  BY DEF Scanning, ReadTo
<1>2. c = t[1] /\ i = Lead(n - 1) + 1 /\ Lead(n - 1) \in Nat /\ Spells(t, kind)
  BY Facing
<1>3. t \in Seq(Character) /\ b \in Seq(Character) /\ Len(t) >= 1 /\ Len(t) \in Nat
  BY <1>1, LexemeFacts, SaidFacts, SaysMore
<1>4. Take(1, <<t[1]>>, t[1])
  BY <1>1, <1>2, ScanCases DEF Scanning, Plain
<1>5. i' = Lead(n - 1) + 1 + 1 /\ mode' = t[1] /\ queries' = q /\ current' = b \o <<t[1]>>
  BY <1>1, <1>2, <1>4, Taken
<1> SUFFICES Reached(kind, t, 1, b, mode', current')
  <2>1. 1 \in 1 .. Len(t)
    BY <1>3
  <2>2. QED BY <1>1, <1>5, <2>1, Enters
<1> HIDE DEF t, kind, b, q
<1>6. current' = b \o SubSeq(t, 1, 1)
  BY <1>3, <1>5, Copied
<1>7. t[1] \in Quotes
  BY DEF t
<1>8. CASE kind = "quoted"
  <2>1. ReadsTo(t, Len(t))
    BY <1>2, <1>8, OfKind
  <2>2. 1 + 1 \in Starts(t, Len(t))
    BY <2>1, Divided
  <2>3. QED BY <1>5, <1>6, <1>7, <1>8, <2>2 DEF Reached, InString
<1>9. CASE kind = "open"
  <2>1. ~BlockTo(t, Len(t))
    BY <1>7 DEF BlockTo, Quotes
  <2>2. ReadsTo(t, Len(t) + 1)
    BY <1>2, <1>9, <2>1, OfKind
  <2>3. 1 + 1 \in Starts(t, Len(t) + 1)
    BY <2>2, Divided
  <2>4. QED BY <1>5, <1>7, <1>9, <2>3 DEF Reached, InString
<1>10. QED BY <1>8, <1>9 DEF kind

(* A comment of the form / * ... * / begins.                               *)
LEMMA BeginBlock ==
  ASSUME Scanning, NEW n \in 1 .. Len(lexemes), ReadTo(n - 1),
         lexemes[n].kind \in {"kept", "comment", "open"},
         lexemes[n].kind = "open" => lexemes[n].text[1] \notin Quotes
  PROVE  Position'
<1> DEFINE t == lexemes[n].text
           kind == lexemes[n].kind
           b == Before(n - 1).begun
           q == Before(n - 1).statements
<1>1. lexemes \in Files /\ lexemes' = lexemes /\ mode = "plain" /\ queries = q /\ current = b
  BY DEF Scanning, ReadTo
<1>2. t \in Seq(Character) /\ b \in Seq(Character) /\ Len(t) >= 1 /\ Len(t) \in Nat
  BY <1>1, LexemeFacts, SaidFacts, SaysMore
<1>3. /\ c = t[1] /\ i = Lead(n - 1) + 1 /\ Lead(n - 1) \in Nat /\ Spells(t, kind)
      /\ Len(t) >= 2 => next = t[2]
      /\ Len(t) >= 3 => At(i + 2) = t[3]
      /\ Len(t) >= 4 => At(i + 3) = t[4]
  BY Facing
<1>4. /\ Len(t) >= 2 /\ t[1] = "/" /\ t[2] = "*"
      /\ kind \in {"kept", "comment"} => Len(t) >= 4
      /\ kind = "open" => BlockTo(t, Len(t))
      /\ kind = "kept" => Executable(t)
      /\ kind = "comment" => ~Executable(t)
  <2>1. CASE kind \in {"kept", "comment"}
    BY <1>3, <2>1, OfKind DEF Block, BlockTo
  <2>2. CASE kind = "open"
    <3>1. BlockTo(t, Len(t))
      BY <1>3, <2>2, OfKind DEF ReadsTo
    <3>2. QED BY <2>2, <3>1 DEF BlockTo
  <2>3. QED BY <2>1, <2>2
<1>5. next = "*" /\ OpensBlock
  BY <1>3, <1>4 DEF OpensBlock
<1>6. kind \in {"kept", "comment"} => (IsKept <=> Executable(t))
  <2>1. SUFFICES ASSUME Len(t) >= 4 PROVE IsKept <=> Executable(t)
    BY <1>4
  <2>2. At(i + 2) = t[3] /\ At(i + 3) = t[4]
    BY <1>2, <1>3, <2>1
  <2>3. QED BY <2>2 DEF IsKept, Executable
<1>7. IF IsKept THEN Take(2, <<t[1], t[2]>>, "kept") ELSE Take(2, <<" ">>, "block")
  <2>1. c = t[1] /\ next = t[2]
    BY <1>3, <1>4
  <2>2. QED BY <1>1, <1>5, <2>1, ScanCases DEF Scanning, Plain
<1>8. /\ i' = Lead(n - 1) + 2 + 1 /\ queries' = q
      /\ IF IsKept THEN mode' = "kept" /\ current' = b \o <<t[1], t[2]>>
         ELSE mode' = "block" /\ current' = b \o <<" ">>
  <2>1. CASE IsKept
    <3>1. Take(2, <<t[1], t[2]>>, "kept")
      BY <1>7, <2>1
    <3>2. i' = i + 2 /\ queries' = queries /\ mode' = "kept" /\ current' = current \o <<t[1], t[2]>>
      BY <3>1, Taken
    <3>3. i + 2 = Lead(n - 1) + 2 + 1
      BY <1>3
    <3>4. QED BY <1>1, <2>1, <3>2, <3>3
  <2>2. CASE ~IsKept
    <3>1. Take(2, <<" ">>, "block")
      BY <1>7, <2>2
    <3>2. i' = i + 2 /\ queries' = queries /\ mode' = "block" /\ current' = current \o <<" ">>
      BY <3>1, Taken
    <3>3. i + 2 = Lead(n - 1) + 2 + 1
      BY <1>3
    <3>4. QED BY <1>1, <2>2, <3>2, <3>3
  <2>3. QED BY <2>1, <2>2
<1> SUFFICES Reached(kind, t, 2, b, mode', current')
  <2>1. 2 \in 1 .. Len(t)
    BY <1>2, <1>4
  <2>2. QED BY <1>1, <1>8, <2>1, Enters
<1> HIDE DEF t, kind, b, q
<1>9. b \o <<t[1], t[2]>> = b \o SubSeq(t, 1, 2)
  BY <1>2, <1>4, CopiedPair
<1>10. CASE kind = "kept"
  <2>1. 2 \in 2 .. Len(t) - 2
    BY <1>2, <1>4, <1>10
  <2>2. mode' = "kept" /\ current' = b \o SubSeq(t, 1, 2)
    BY <1>4, <1>6, <1>8, <1>9, <1>10
  <2>3. QED BY <1>10, <2>1, <2>2 DEF Reached
<1>11. CASE kind = "comment"
  <2>1. 2 \in 2 .. Len(t) - 2
    BY <1>2, <1>4, <1>11
  <2>2. mode' = "block" /\ current' = b \o <<" ">>
    BY <1>4, <1>6, <1>8, <1>11
  <2>3. QED BY <1>11, <2>1, <2>2 DEF Reached
<1>12. CASE kind = "open"
  <2>1. BlockTo(t, Len(t)) /\ mode' \in {"block", "kept"}
    BY <1>4, <1>8, <1>12
  <2>2. QED BY <1>12, <2>1 DEF Reached
<1>13. QED BY <1>10, <1>11, <1>12 DEF kind

(* A comment of the form # ... or -- ... begins.                           *)
LEMMA BeginLine ==
  ASSUME Scanning, NEW n \in 1 .. Len(lexemes), ReadTo(n - 1), lexemes[n].kind \in {"line", "last"}
  PROVE  Position'
<1> DEFINE t == lexemes[n].text
           kind == lexemes[n].kind
           b == Before(n - 1).begun
           q == Before(n - 1).statements
<1>1. /\ lexemes \in Files /\ sql = Spelled(lexemes) /\ lexemes' = lexemes
      /\ mode = "plain" /\ queries = q /\ current = b
  BY DEF Scanning, ReadTo
<1>2. Len(t) >= 1 /\ Len(t) \in Nat
  BY <1>1, LexemeFacts
<1>3. /\ c = t[1] /\ i = Lead(n - 1) + 1 /\ Lead(n - 1) \in Nat /\ Spells(t, kind)
      /\ Len(t) >= 2 => next = t[2]
      /\ Len(t) >= 3 => At(i + 2) = t[3]
      /\ Len(t) = 2 => At(i + 2) = First(lexemes, n + 1)
  BY Facing
<1>4. kind = "last" => First(lexemes, n + 1) = ""
  BY <1>1, AtTheEnd
<1>5. /\ t[1] = "#" \/ (Len(t) >= 2 /\ t[1] = "-" /\ t[2] = "-" /\ (Len(t) > 2 => t[3] \in Blanks))
      /\ kind = "line" => Len(t) >= 2 /\ t[Len(t)] = "\n"
  BY <1>3, OfKind DEF LineTo
<1>6. OpensLine
  <2>1. CASE t[1] = "#"
    BY <1>3, <2>1 DEF OpensLine
  <2>2. CASE Len(t) >= 2 /\ t[1] = "-" /\ t[2] = "-" /\ (Len(t) > 2 => t[3] \in Blanks)
    <3>1. c = "-" /\ next = "-"
      BY <1>3, <2>2
    <3>2. CASE Len(t) = 2
      <4>1. kind # "line"
        BY <1>5, <2>2, <3>2
      <4>2. At(i + 2) = ""
        BY <1>3, <1>4, <3>2, <4>1
      <4>3. QED BY <3>1, <4>2 DEF OpensLine
    <3>3. CASE Len(t) # 2
      <4>1. Len(t) >= 3 /\ Len(t) > 2
        <5>1. Len(t) >= 2
          BY <2>2
        <5> DEFINE k == Len(t)
        <5>2. k \in Nat /\ k >= 2 /\ k # 2
          BY <1>2, <3>3, <5>1
        <5> HIDE DEF k
        <5>3. k >= 3 /\ k > 2
          BY <5>2
        <5>4. QED BY <5>3 DEF k
      <4>2. At(i + 2) \in Blanks
        BY <1>3, <2>2, <4>1
      <4>3. QED BY <3>1, <4>2 DEF OpensLine
    <3>4. QED BY <3>2, <3>3
  <2>3. QED BY <1>5, <2>1, <2>2
<1>7. Take(1, <<" ">>, "line")
  BY <1>1, <1>6, ScanCases DEF Scanning, Plain
<1>8. i' = Lead(n - 1) + 1 + 1 /\ mode' = "line" /\ queries' = q /\ current' = b \o <<" ">>
  BY <1>1, <1>3, <1>7, Taken
<1>9. 1 \in 1 .. Len(t) /\ (kind = "line" => 1 \in 1 .. Len(t) - 1)
  BY <1>2, <1>5
<1>10. Reached(kind, t, 1, b, mode', current')
  BY <1>8, <1>9 DEF Reached
<1>11. QED BY <1>1, <1>8, <1>9, <1>10, Enters

(* Whatever the next lexeme is, the scanner gets behind it or into it.     *)
LEMMA BeginLexeme ==
  ASSUME Scanning, NEW n \in 1 .. Len(lexemes), ReadTo(n - 1)
  PROVE  Position'
<1> DEFINE kind == lexemes[n].kind
<1>1. kind \in {"code", "end", "quoted", "kept", "comment", "line", "last", "open"}
  BY LexemeFacts DEF Scanning, Kinds
<1>2. CASE kind = "code"
  BY <1>2, BeginCode
<1>3. CASE kind = "end"
  BY <1>3, BeginEnd
<1>4. CASE kind = "quoted"
  <2>1. lexemes[n].text[1] \in Quotes
    BY <1>4, Facing, OfKind DEF ReadsTo
  <2>2. QED BY <1>4, <2>1, BeginQuote
<1>5. CASE kind \in {"kept", "comment"}
  BY <1>5, BeginBlock
<1>6. CASE kind \in {"line", "last"}
  BY <1>6, BeginLine
<1>7. CASE kind = "open"
  BY <1>7, BeginQuote, BeginBlock
<1>8. QED BY <1>1, <1>2, <1>3, <1>4, <1>5, <1>6, <1>7

(* In a lexeme there is a character ahead, for only those that run to the  *)
(* end of the file end without one that closes them.                       *)
LEMMA CharacterAhead ==
  ASSUME lexemes \in Files, NEW n \in 1 .. Len(lexemes), NEW o, ReadInto(n, o),
         lexemes[n].kind \notin {"last", "open"}
  PROVE  o # Len(lexemes[n].text)
<1> DEFINE t == lexemes[n].text
           kind == lexemes[n].kind
           b == Before(n - 1).begun
<1>1. Reached(kind, t, o, b, mode, current)
  BY DEF ReadInto
<1>2. Len(t) \in Nat /\ Spells(t, kind) /\ kind \notin {"last", "open"}
  BY LexemeFacts
<1> HIDE DEF t, kind, b
<1> SUFFICES ASSUME o = Len(t) PROVE FALSE
  BY DEF t
<1>3. CASE kind = "quoted"
  <2>1. o + 1 \in Starts(t, Len(t))
    BY <1>1, <1>3 DEF Reached, InString
  <2>2. ReadsTo(t, Len(t))
    BY <1>2, <1>3, OfKind
  <2>3. o + 1 \in 2 .. Len(t)
    BY <2>1, <2>2, Divided
  <2>4. QED BY <1>2, <2>3
<1>4. CASE kind # "quoted"
  <2>1. o \in 2 .. Len(t) - 2 \/ o \in 1 .. Len(t) - 1
    BY <1>1, <1>2, <1>4 DEF Reached
  <2>2. QED BY <1>2, <2>1
<1>5. QED BY <1>3, <1>4

(* What is read inside of the n-th lexeme.                                 *)
LEMMA Amid ==
  ASSUME Scanning, NEW n \in 1 .. Len(lexemes), NEW o, ReadInto(n, o)
  PROVE  LET t == lexemes[n].text IN
         /\ Len(t) \in Nat /\ o \in 1 .. Len(t) - 1 /\ Spells(t, lexemes[n].kind)
         /\ c = t[o + 1]
         /\ o + 1 < Len(t) => next = t[o + 2] /\ next # ""
         /\ o + 1 = Len(t) => next = First(lexemes, n + 1)
         /\ i = Lead(n - 1) + o + 1 /\ Lead(n - 1) \in Nat /\ Lead(n) = Lead(n - 1) + Len(t)
<1> DEFINE t == lexemes[n].text
           kind == lexemes[n].kind
<1>1. lexemes \in Files /\ sql = Spelled(lexemes) /\ i = Lead(n - 1) + o + 1 /\ o \in 1 .. Len(t)
  BY DEF Scanning, ReadInto
<1>2. Len(t) \in Nat /\ Spells(t, kind)
  BY <1>1, LexemeFacts
<1>3. Lead(n - 1) \in Nat /\ Lead(n) \in Nat /\ Lead(n) = Lead(n - 1) + Len(t)
  BY <1>1, SaysMore, LeadFacts, TextAt
<1>4. ASSUME o = Len(t) PROVE FALSE
  <2>1. CASE kind \in {"last", "open"}
    <3>1. n = Len(lexemes)
      BY <1>1, <2>1, AtTheEnd
    <3>2. Len(sql) = Lead(n)
      BY <1>1, <3>1, SaysMore, LeadFacts
    <3>3. i =< Len(sql)
      BY ScanCases DEF Scanning
    <3>4. i = Lead(n) + 1
      BY <1>1, <1>3, <1>4
    <3>5. QED BY <1>3, <3>2, <3>3, <3>4
  <2>2. CASE kind \notin {"last", "open"}
    BY <1>1, <1>4, <2>2, CharacterAhead
  <2>3. QED BY <2>1, <2>2
<1>5. o \in Nat /\ o < Len(t) /\ o \in 1 .. Len(t) - 1
  BY <1>1, <1>2, <1>4
<1>6. /\ c = t[o + 1]
      /\ o + 1 < Len(t) => next = t[o + 2] /\ next # ""
      /\ o + 1 = Len(t) => next = First(lexemes, n + 1)
  BY <1>1, <1>5, Ahead
<1>7. QED BY <1>1, <1>2, <1>3, <1>5, <1>6

(* What is left of a comment.                                              *)
LEMMA Blanked ==
  ASSUME NEW b \in Seq(Character)
  PROVE  /\ (b \o <<" ">>) \o <<"\n">> = b \o <<" ", "\n">>
         /\ (b \o <<" ">>) \o <<" ">> = b \o <<" ", " ">>
         /\ (b \o <<" ">>) \o <<>> = b \o <<" ">>
<1> DEFINE x == " "
           y == "\n"
           a == b \o <<x>>
<1>1. x \in Character /\ y \in Character
  BY Punctuation
<1>2. <<x>> \in Seq(Character)
  BY <1>1, Short
<1>3. a \in Seq(Character)
  BY <1>2, ConcatProperties
<1> SUFFICES /\ (b \o <<x>>) \o <<y>> = b \o <<x, y>>
             /\ (b \o <<x>>) \o <<x>> = b \o <<x, x>>
             /\ a \o <<>> = a
  OBVIOUS
<1> HIDE DEF x, y, a
<1>4. (b \o <<x>>) \o <<y>> = b \o <<x, y>>
  BY <1>1, OneByOne
<1>5. (b \o <<x>>) \o <<x>> = b \o <<x, x>>
  BY <1>1, OneByOne
<1>6. a \o <<>> = a
  BY <1>3, ConcatEmptySeq
<1>7. QED BY <1>4, <1>5, <1>6

(* A step inside of a line comment, or out of it.                          *)
LEMMA ThroughLine ==
  ASSUME Scanning, NEW n \in 1 .. Len(lexemes), NEW o, ReadInto(n, o),
         lexemes[n].kind \in {"line", "last"}
  PROVE  Position'
<1> DEFINE t == lexemes[n].text
           kind == lexemes[n].kind
           b == Before(n - 1).begun
           q == Before(n - 1).statements
<1>1. lexemes \in Files /\ lexemes' = lexemes /\ queries = q /\ Reached(kind, t, o, b, mode, current)
  BY DEF Scanning, ReadInto
<1>2. /\ Len(t) \in Nat /\ o \in 1 .. Len(t) - 1 /\ Spells(t, kind) /\ c = t[o + 1]
      /\ i = Lead(n - 1) + o + 1 /\ Lead(n - 1) \in Nat /\ Lead(n) = Lead(n - 1) + Len(t)
  BY Amid
<1>3. mode = "line" /\ current = b \o <<" ">>
  BY <1>1 DEF Reached
<1>4. b \in Seq(Character)
  BY <1>1, SaysMore, SaidFacts
<1>5. /\ kind = "line" => LineTo(t, Len(t)) /\ t[Len(t)] = "\n"
      /\ kind = "last" => LineTo(t, Len(t) + 1)
  BY <1>2, OfKind
<1>6. CASE kind = "line" /\ o + 1 = Len(t)
  <2>1. c = "\n"
    BY <1>2, <1>5, <1>6
  <2>2. Take(1, <<"\n">>, "plain")
    BY <1>3, <2>1, ScanCases DEF Scanning, Commented
  <2>3. i' = i + 1 /\ mode' = "plain" /\ queries' = q /\ current' = (b \o <<" ">>) \o <<"\n">>
    BY <1>1, <1>3, <2>2, Taken
  <2>4. i' = Lead(n) + 1
    <3>1. i' = i + 1 /\ o + 1 = Len(t)
      BY <1>6, <2>3
    <3>2. /\ i = Lead(n - 1) + o + 1 /\ Lead(n) = Lead(n - 1) + Len(t)
          /\ Lead(n - 1) \in Nat /\ o \in 1 .. Len(t) - 1 /\ Len(t) \in Nat
      BY <1>2
    <3> HIDE DEF t
    <3>3. QED BY <3>1, <3>2
  <2>5. (b \o <<" ">>) \o <<"\n">> = b \o <<" ", "\n">>
    BY <1>4, Blanked
  <2>6. Before(n).statements = q /\ Before(n).begun = b \o <<" ", "\n">>
    BY <1>1, <1>6, Says DEF Meaning
  <2>7. queries' = Before(n).statements /\ current' = Before(n).begun
    BY <2>3, <2>5, <2>6
  <2>8. n \in 0 .. Len(lexemes) /\ lexemes[n].kind \notin {"last", "open"}
    BY <1>1, <1>6, SaysMore
  <2>9. QED BY <1>1, <2>3, <2>4, <2>7, <2>8, Arrives
<1>7. CASE ~(kind = "line" /\ o + 1 = Len(t))
  <2>1. c # "\n"
    <3>1. o \in 1 .. Len(t) - 1 /\ Len(t) \in Nat /\ c = t[o + 1]
      BY <1>2
    <3> HIDE DEF t, kind
    <3>2. o + 1 \in 1 .. Len(t) /\ (o + 1 # Len(t) => o + 1 \in 1 .. Len(t) - 1)
      BY <3>1
    <3>3. (Len(t) + 1) - 1 = Len(t)
      BY <3>1
    <3>4. kind \in {"line", "last"}
      BY DEF kind
    <3>5. CASE kind = "line"
      BY <1>5, <1>7, <3>1, <3>2, <3>5 DEF LineTo
    <3>6. CASE kind = "last"
      BY <1>5, <3>1, <3>2, <3>3, <3>6 DEF LineTo
    <3>7. QED BY <3>4, <3>5, <3>6
  <2>2. Take(1, <<>>, "line")
    BY <1>3, <2>1, ScanCases DEF Scanning, Commented
  <2>3. i' = i + 1 /\ mode' = "line" /\ queries' = q /\ current' = (b \o <<" ">>) \o <<>>
    BY <1>1, <1>3, <2>2, Taken
  <2>4. i' = Lead(n - 1) + (o + 1) + 1 /\ o + 1 \in 1 .. Len(t)
    <3>1. i' = i + 1
      BY <2>3
    <3> HIDE DEF t
    <3>2. QED BY <1>2, <3>1
  <2>5. (b \o <<" ">>) \o <<>> = b \o <<" ">>
    BY <1>4, Blanked
  <2>6. kind = "line" => o + 1 \in 1 .. Len(t) - 1
    BY <1>2, <1>7
  <2>7. Reached(kind, t, o + 1, b, mode', current')
    <3> HIDE DEF t, kind, b, q
    <3>1. kind \in {"line", "last"}
      BY DEF kind
    <3>2. QED BY <2>3, <2>5, <2>6, <3>1 DEF Reached
  <2>8. QED BY <1>1, <2>3, <2>4, <2>7, Enters
<1>8. QED BY <1>6, <1>7

(* A step inside of a closed block comment, or out of it.                  *)
LEMMA ThroughBlock ==
  ASSUME Scanning, NEW n \in 1 .. Len(lexemes), NEW o, ReadInto(n, o),
         lexemes[n].kind \in {"kept", "comment"}
  PROVE  Position'
<1> DEFINE t == lexemes[n].text
           kind == lexemes[n].kind
           b == Before(n - 1).begun
           q == Before(n - 1).statements
           p == b \o SubSeq(t, 1, o)
<1>1. lexemes \in Files /\ lexemes' = lexemes /\ queries = q /\ Reached(kind, t, o, b, mode, current)
  BY DEF Scanning, ReadInto
<1>2. /\ Len(t) \in Nat /\ o \in 1 .. Len(t) - 1 /\ Spells(t, kind) /\ c = t[o + 1]
      /\ o + 1 < Len(t) => next = t[o + 2]
      /\ i = Lead(n - 1) + o + 1 /\ Lead(n - 1) \in Nat /\ Lead(n) = Lead(n - 1) + Len(t)
  BY Amid
<1>0. o \in 2 .. Len(t) - 2
  BY <1>1 DEF Reached
<1>3. /\ kind = "kept" => mode = "kept" /\ current = p
      /\ kind = "comment" => mode = "block" /\ current = b \o <<" ">>
  BY <1>1 DEF Reached
<1>4. b \in Seq(Character) /\ t \in Seq(Character)
  BY <1>1, SaysMore, SaidFacts, LexemeFacts
<1>5. BlockTo(t, Len(t) - 1) /\ ClosesAt(t, Len(t) - 1)
  BY <1>2, OfKind DEF Block
<1>6. /\ Before(n).statements = q
      /\ kind = "kept" => Before(n).begun = b \o t
      /\ kind = "comment" => Before(n).begun = b \o <<" ", " ">>
  BY <1>1, Says DEF Meaning
<1> HIDE DEF t, b, q, p
<1>7. o \in Nat /\ o + 1 < Len(t) /\ Len(t) >= 1 /\ Len(t) \in Nat /\ next = t[o + 2]
  <2>1. o \in Nat /\ o + 1 < Len(t) /\ Len(t) >= 1 /\ Len(t) \in Nat
    <3>1. Len(t) \in Nat
      BY <1>2
    <3>2. QED BY <1>0, <3>1
  <2>2. QED BY <1>2, <2>1
<1>8. CASE o + 2 = Len(t)
  <2>1. c = "*" /\ next = "/"
    <3>1. Len(t) - 1 = o + 1 /\ (Len(t) - 1) + 1 = o + 2
      BY <1>7, <1>8
    <3>2. t[o + 1] = "*" /\ t[o + 2] = "/"
      BY <1>5, <3>1 DEF ClosesAt
    <3>3. QED BY <1>2, <1>7, <3>2
  <2>2. i + 2 = Lead(n) + 1
    <3>1. i = Lead(n - 1) + o + 1 /\ Lead(n - 1) \in Nat /\ Lead(n) = Lead(n - 1) + Len(t)
      BY <1>2
    <3>2. QED BY <1>7, <1>8, <3>1
  <2>3. CASE kind = "kept"
    <3>1. Take(2, <<t[o + 1], t[o + 2]>>, "plain")
      BY <1>2, <1>3, <1>7, <2>1, <2>3, ScanCases DEF Scanning, Commented
    <3>2. i' = i + 2 /\ mode' = "plain" /\ queries' = q /\ current' = p \o <<t[o + 1], t[o + 2]>>
      BY <1>1, <1>3, <2>3, <3>1, Taken
    <3>3. p \o <<t[o + 1], t[o + 2]>> = b \o t
      <4>1. o \in 1 .. Len(t) - 2
        BY <1>0, <1>7
      <4>2. p \o <<t[o + 1], t[o + 2]>> = b \o SubSeq(t, 1, o + 2)
        BY <1>4, <4>1, CopiedTwo DEF p
      <4>3. b \o SubSeq(t, 1, Len(t)) = b \o t
        BY <1>4, <1>7, Copied
      <4>4. QED BY <1>8, <4>2, <4>3
    <3>4. i' = Lead(n) + 1 /\ current' = Before(n).begun /\ queries' = Before(n).statements
      BY <1>6, <2>2, <2>3, <3>2, <3>3
    <3>5. QED BY <1>1, <2>3, <3>2, <3>4, SaysMore, Arrives
  <2>4. CASE kind = "comment"
    <3>1. Take(2, <<" ">>, "plain")
      BY <1>3, <2>1, <2>4, ScanCases DEF Scanning, Commented
    <3>2. i' = i + 2 /\ mode' = "plain" /\ queries' = q /\ current' = (b \o <<" ">>) \o <<" ">>
      BY <1>1, <1>3, <2>4, <3>1, Taken
    <3>3. (b \o <<" ">>) \o <<" ">> = b \o <<" ", " ">>
      BY <1>4, Blanked
    <3>4. i' = Lead(n) + 1 /\ current' = Before(n).begun /\ queries' = Before(n).statements
      BY <1>6, <2>2, <2>4, <3>2, <3>3
    <3>5. QED BY <1>1, <2>4, <3>2, <3>4, SaysMore, Arrives
  <2>5. QED BY <2>3, <2>4
<1>9. CASE o + 2 # Len(t)
  <2>1. o + 1 \in 3 .. Len(t) - 2 /\ o + 1 \in 2 .. Len(t) - 2 /\ o + 1 \in 1 .. Len(t)
        /\ (o + 1) + 1 = o + 2 /\ o \in 1 .. Len(t) - 1
    BY <1>0, <1>7, <1>9
  <2>2. ~(c = "*" /\ next = "/")
    <3>1. \A k \in 3 .. (Len(t) - 1) - 1 : ~(t[k] = "*" /\ t[k + 1] = "/")
      BY <1>5 DEF BlockTo, ClosesAt
    <3>2. (Len(t) - 1) - 1 = Len(t) - 2
      BY <1>2
    <3>3. ~(t[o + 1] = "*" /\ t[o + 1 + 1] = "/")
      BY <2>1, <3>1, <3>2
    <3>4. QED BY <1>2, <1>7, <2>1, <3>3
  <2>3. i + 1 = Lead(n - 1) + (o + 1) + 1
    BY <1>2
  <2>4. CASE kind = "kept"
    <3>1. Take(1, <<t[o + 1]>>, "kept")
      BY <1>2, <1>3, <2>2, <2>4, ScanCases DEF Scanning, Commented
    <3>2. i' = i + 1 /\ mode' = "kept" /\ queries' = q /\ current' = p \o <<t[o + 1]>>
      BY <1>1, <1>3, <2>4, <3>1, Taken
    <3>3. p \o <<t[o + 1]>> = b \o SubSeq(t, 1, o + 1)
      BY <1>4, <2>1, CopiedOne DEF p
    <3>4. Reached(kind, t, o + 1, b, mode', current')
      BY <2>1, <2>4, <3>2, <3>3 DEF Reached
    <3>5. i' = Lead(n - 1) + (o + 1) + 1
      BY <2>3, <3>2
    <3>6. QED BY <1>1, <2>1, <3>2, <3>4, <3>5, Enters DEF t, b, q
  <2>5. CASE kind = "comment"
    <3>1. Take(1, <<>>, "block")
      BY <1>3, <2>2, <2>5, ScanCases DEF Scanning, Commented
    <3>2. i' = i + 1 /\ mode' = "block" /\ queries' = q /\ current' = (b \o <<" ">>) \o <<>>
      BY <1>1, <1>3, <2>5, <3>1, Taken
    <3>3. (b \o <<" ">>) \o <<>> = b \o <<" ">>
      BY <1>4, Blanked
    <3>4. Reached(kind, t, o + 1, b, mode', current')
      BY <2>1, <2>5, <3>2, <3>3 DEF Reached
    <3>5. i' = Lead(n - 1) + (o + 1) + 1
      BY <2>3, <3>2
    <3>6. QED BY <1>1, <2>1, <3>2, <3>4, <3>5, Enters DEF t, b, q
  <2>6. QED BY <2>4, <2>5
<1>10. QED BY <1>8, <1>9

(* A step inside of a block comment that is never closed.                  *)
LEMMA ThroughOpenBlock ==
  ASSUME Scanning, NEW n \in 1 .. Len(lexemes), NEW o, ReadInto(n, o),
         lexemes[n].kind = "open", mode \in {"block", "kept"}
  PROVE  Position'
<1> DEFINE t == lexemes[n].text
           b == Before(n - 1).begun
           q == Before(n - 1).statements
<1>1. /\ lexemes \in Files /\ sql = Spelled(lexemes) /\ lexemes' = lexemes /\ queries = q
      /\ Reached("open", t, o, b, mode, current)
  BY DEF Scanning, ReadInto
<1>2. /\ Len(t) \in Nat /\ o \in 1 .. Len(t) - 1
      /\ i = Lead(n - 1) + o + 1 /\ Lead(n - 1) \in Nat
  BY Amid
<1>3. /\ c = t[o + 1]
      /\ o + 1 < Len(t) => next = t[o + 2]
      /\ o + 1 = Len(t) => next = First(lexemes, n + 1)
  BY Amid
<1>4. BlockTo(t, Len(t)) /\ o >= 2
  BY <1>1 DEF Reached, InString, Quotes
<1>5. First(lexemes, n + 1) = ""
  BY <1>1, AtTheEnd
<1> HIDE DEF t, b, q
<1>6. ~(c = "*" /\ next = "/")
  <2>1. CASE o + 1 = Len(t)
    BY <1>3, <1>5, <2>1
  <2>2. CASE o + 1 # Len(t)
    <3>1. o + 1 \in 3 .. Len(t) - 1 /\ o + 1 < Len(t) /\ o + 1 + 1 = o + 2
      BY <1>2, <1>4, <2>2
    <3>2. \A k \in 3 .. Len(t) - 1 : ~(t[k] = "*" /\ t[k + 1] = "/")
      BY <1>4 DEF BlockTo, ClosesAt
    <3>3. ~(t[o + 1] = "*" /\ t[o + 1 + 1] = "/")
      BY <3>1, <3>2
    <3>4. QED BY <1>3, <3>1, <3>3
  <2>3. QED BY <2>1, <2>2
<1>7. \E emitted : Take(1, emitted, mode)
  BY <1>6, ScanCases DEF Scanning, Commented
<1>8. i' = i + 1 /\ mode' = mode /\ queries' = q
  BY <1>1, <1>7, Taken
<1>9. i' = Lead(n - 1) + (o + 1) + 1 /\ o + 1 \in 1 .. Len(t) /\ o + 1 >= 2
  BY <1>2, <1>8
<1>10. Reached("open", t, o + 1, b, mode', current')
  BY <1>4, <1>8, <1>9 DEF Reached
<1>11. QED BY <1>1, <1>8, <1>9, <1>10, Enters DEF t, b, q

(* A string is read pair by pair.                                          *)
LEMMA ThroughString ==
  ASSUME Scanning, NEW n \in 1 .. Len(lexemes), NEW o, ReadInto(n, o),
         NEW last, last = IF lexemes[n].kind = "open" THEN Len(lexemes[n].text) + 1
                          ELSE Len(lexemes[n].text),
         lexemes[n].kind \in {"quoted", "open"}, mode \in Quotes,
         o + 1 # last
  PROVE  Position'
<1> DEFINE t == lexemes[n].text
           kind == lexemes[n].kind
           b == Before(n - 1).begun
           q == Before(n - 1).statements
           p == b \o SubSeq(t, 1, o)
           k == o + 1
<1>1. /\ lexemes \in Files /\ sql = Spelled(lexemes) /\ lexemes' = lexemes /\ queries = q
      /\ Reached(kind, t, o, b, mode, current)
  BY DEF Scanning, ReadInto
<1>2. /\ Len(t) \in Nat /\ o \in 1 .. Len(t) - 1
      /\ i = Lead(n - 1) + o + 1 /\ Lead(n - 1) \in Nat
  BY Amid
<1>3. /\ c = t[o + 1] /\ Spells(t, kind)
      /\ o + 1 < Len(t) => next = t[o + 2] /\ next # ""
      /\ o + 1 = Len(t) => next = First(lexemes, n + 1)
  BY Amid
<1>4. kind = "open" => First(lexemes, n + 1) = ""
  BY <1>1, AtTheEnd
<1>5. b \in Seq(Character) /\ t \in Seq(Character)
  BY <1>1, SaysMore, SaidFacts, LexemeFacts
<1>6. last = IF kind = "open" THEN Len(t) + 1 ELSE Len(t)
  OBVIOUS
<1>7. kind \in {"quoted", "open"}
  OBVIOUS
<1> HIDE DEF t, kind, b, q, p
<1>8. mode = t[1] /\ k \in Starts(t, last) /\ (kind = "quoted" => current = p)
  BY <1>1, <1>6, <1>7 DEF Reached, InString, Quotes, p
<1>9. ReadsTo(t, last)
  <2>1. ~BlockTo(t, Len(t))
    BY <1>8 DEF BlockTo, Quotes
  <2>2. QED BY <1>3, <1>6, <1>7, <2>1, OfKind
<1>10. /\ Starts(t, last) \subseteq 2 .. last
       /\ IF Pair(t, k) THEN k + 2 \in Starts(t, last)
          ELSE t[k] # t[1] /\ k + 1 \in Starts(t, last)
  BY <1>8, <1>9, Divided
<1>11. last \in Nat /\ last =< Len(t) + 1 /\ (kind = "quoted" => last = Len(t))
       /\ (kind = "open" => last = Len(t) + 1)
  BY <1>2, <1>6, <1>7
<1>12. ASSUME NEW m \in {1, 2}, o + m + 1 \in Starts(t, last), NEW emitted,
             i' = i + m, mode' = mode, queries' = queries, current' = current \o emitted,
             kind = "quoted" => p \o emitted = b \o SubSeq(t, 1, o + m)
       PROVE  Position'
  <2>1. o + m \in 1 .. Len(t)
    <3>1. o + m + 1 \in 2 .. last
      BY <1>10, <1>12
    <3>2. o \in 1 .. Len(t) - 1 /\ Len(t) \in Nat
      BY <1>2
    <3>3. QED BY <1>11, <3>1, <3>2
  <2>2. i' = Lead(n - 1) + (o + m) + 1
    BY <1>2, <1>12
  <2>3. InString(mode', t, o + m, last)
    BY <1>8, <1>12 DEF InString
  <2>4. Reached(kind, t, o + m, b, mode', current')
    <3>1. CASE kind = "quoted"
      BY <1>8, <1>11, <1>12, <2>3, <3>1 DEF Reached
    <3>2. CASE kind = "open"
      BY <1>11, <2>3, <3>2 DEF Reached
    <3>3. QED BY <1>7, <3>1, <3>2
  <2>5. QED BY <1>1, <1>12, <2>1, <2>2, <2>4, Enters DEF t, kind, b, q
<1>13. CASE Pair(t, k)
  <2>0. k < Len(t) /\ k + 1 = o + 2
    <3>1. k < Len(t)
      BY <1>13 DEF Pair
    <3>2. QED BY <1>2, <3>1
  <2>1. k < Len(t) /\ next = t[o + 2] /\ next # "" /\ k + 1 = o + 2
    BY <1>3, <2>0
  <2>2. Escaped \/ (c = mode /\ next = mode)
    BY <1>3, <1>8, <1>13, <2>1 DEF Pair, Escaped
  <2>3. Take(2, <<t[o + 1], t[o + 2]>>, mode)
    BY <1>3, <2>1, <2>2, ScanCases DEF Scanning, Quoted
  <2>4. /\ i' = i + 2 /\ mode' = mode /\ queries' = queries
        /\ current' = current \o <<t[o + 1], t[o + 2]>>
    BY <2>3, Taken
  <2>5. o + 2 + 1 \in Starts(t, last)
    <3>1. k + 2 = o + 2 + 1
      BY <1>2
    <3>2. QED BY <1>10, <1>13, <3>1
  <2>6. p \o <<t[o + 1], t[o + 2]>> = b \o SubSeq(t, 1, o + 2)
    <3>1. o \in 1 .. Len(t) - 2
      BY <1>2, <2>0
    <3>2. QED BY <1>5, <3>1, CopiedTwo DEF p
  <2>7. QED BY <1>12, <2>4, <2>5, <2>6
<1>14. CASE ~Pair(t, k)
  <2>1. c # mode
    BY <1>3, <1>8, <1>10, <1>14
  <2>2. ~Escaped
    <3>1. SUFFICES ASSUME mode # "grave", c = "\\", next # "" PROVE FALSE
      BY DEF Escaped
    <3>2. k =< Len(t)
      BY <1>2
    <3>3. CASE k = Len(t)
      <4>1. kind = "open"
        BY <1>7, <1>11, <3>3
      <4>2. QED BY <1>3, <1>4, <3>1, <3>3, <4>1
    <3>4. CASE k < Len(t)
      BY <1>3, <1>8, <1>14, <3>1, <3>4 DEF Pair
    <3>5. QED BY <1>2, <3>2, <3>3, <3>4
  <2>3. Take(1, <<t[o + 1]>>, mode)
    BY <1>3, <2>1, <2>2, ScanCases DEF Scanning, Quoted, Ended
  <2>4. i' = i + 1 /\ mode' = mode /\ queries' = queries /\ current' = current \o <<t[o + 1]>>
    BY <2>3, Taken
  <2>5. o + 1 + 1 \in Starts(t, last)
    BY <1>10, <1>14
  <2>6. p \o <<t[o + 1]>> = b \o SubSeq(t, 1, o + 1)
    BY <1>2, <1>5, CopiedOne DEF p
  <2>7. QED BY <1>12, <2>4, <2>5, <2>6
<1>15. QED BY <1>13, <1>14

(* Its closing quote ends it, unless the next one begins with the same     *)
(* quote: they are one string then, which reads as it is written.          *)
LEMMA CloseString ==
  ASSUME Scanning, NEW n \in 1 .. Len(lexemes), NEW o, ReadInto(n, o),
         lexemes[n].kind = "quoted", o + 1 = Len(lexemes[n].text)
  PROVE  Position'
<1> DEFINE t == lexemes[n].text
           b == Before(n - 1).begun
           q == Before(n - 1).statements
           p == b \o SubSeq(t, 1, o)
           m == n + 1
           u == lexemes[m].text
<1>1. /\ lexemes \in Files /\ sql = Spelled(lexemes) /\ lexemes' = lexemes /\ queries = q
      /\ Reached("quoted", t, o, b, mode, current)
  BY DEF Scanning, ReadInto
<1>2. /\ Len(t) \in Nat /\ o \in 1 .. Len(t) - 1
      /\ i = Lead(n - 1) + o + 1 /\ Lead(n - 1) \in Nat /\ Lead(n) = Lead(n - 1) + Len(t)
  BY Amid
<1>3. /\ c = t[o + 1] /\ Spells(t, "quoted")
      /\ o + 1 = Len(t) => next = First(lexemes, m)
  BY Amid
<1>4. b \in Seq(Character) /\ t \in Seq(Character)
  BY <1>1, SaysMore, SaidFacts, LexemeFacts
<1>5. o + 1 = Len(t)
  OBVIOUS
<1>6. Before(n).statements = q /\ Before(n).begun = b \o t
  BY <1>1, Says DEF Meaning
<1>7. n \in Nat /\ Len(lexemes) \in Nat /\ m - 1 = n
  BY <1>1, FileFacts
<1> HIDE DEF t, b, q, p, m
<1>8. mode = t[1] /\ t[1] \in Quotes /\ current = p
  BY <1>1 DEF Reached, InString, Quotes, p
<1>9. c = mode /\ next = First(lexemes, m)
  BY <1>3, <1>5, <1>8, OfKind
<1>10. i + 1 = Lead(n) + 1
  <2> DEFINE before == Lead(n - 1)
             behind == Lead(n)
  <2>1. /\ i = before + o + 1 /\ before \in Nat /\ behind = before + Len(t)
        /\ o \in 1 .. Len(t) - 1 /\ Len(t) \in Nat
    BY <1>2
  <2>2. before + o + 1 + 1 = behind + 1
    <3> HIDE DEF before, behind
    <3>1. QED BY <1>5, <2>1
  <2>3. QED BY <2>1, <2>2
<1>11. p \o <<c>> = b \o t
  <2>1. p \o <<t[o + 1]>> = b \o SubSeq(t, 1, o + 1)
    BY <1>2, <1>4, CopiedOne DEF p
  <2>2. b \o SubSeq(t, 1, Len(t)) = b \o t
    <3>1. Len(t) >= 1
      BY <1>2, <1>5
    <3>2. QED BY <1>4, <3>1, Copied
  <2>3. QED BY <1>3, <1>5, <2>1, <2>2
<1>12. ~Escaped
  BY <1>8, <1>9 DEF Escaped, Quotes
<1>13. CASE next # mode
  <2>1. Take(1, <<c>>, "plain")
    BY <1>8, <1>9, <1>12, <1>13, ScanCases DEF Scanning, Quoted, Ended
  <2>2. i' = i + 1 /\ mode' = "plain" /\ queries' = q /\ current' = p \o <<c>>
    BY <1>1, <1>8, <2>1, Taken
  <2>3. QED BY <1>1, <1>6, <1>10, <1>11, <2>2, SaysMore, Arrives
<1>14. CASE next = mode
  <2>1. next \in Quotes
    BY <1>8, <1>14
  <2>2. m \in 1 .. Len(lexemes) /\ next = u[1]
    <3>1. next # ""
      BY <2>1 DEF Quotes
    <3>2. m =< Len(lexemes) /\ next = u[1]
      BY <1>9, <3>1 DEF First
    <3>3. QED BY <1>7, <3>2 DEF m
  <2>3. lexemes[m].kind \in {"quoted", "open"}
    BY <1>1, <2>1, <2>2, FirstOfKind
  <2>4. Take(2, <<c, u[1]>>, mode)
    BY <1>8, <1>9, <1>14, <2>2, ScanCases DEF Scanning, Quoted
  <2>5. i' = i + 2 /\ mode' = u[1] /\ queries' = q /\ current' = p \o <<c, u[1]>>
    BY <1>1, <1>8, <1>14, <2>2, <2>4, Taken
  <2>6. u \in Seq(Character) /\ Len(u) \in Nat /\ Len(u) >= 1 /\ Spells(u, lexemes[m].kind)
    BY <1>1, <2>2, LexemeFacts
  <2>7. i' = Lead(n) + 1 + 1 /\ 1 \in 1 .. Len(u)
    BY <1>10, <1>2, <2>5, <2>6
  <2>8. p \o <<c, u[1]>> = Before(n).begun \o SubSeq(u, 1, 1)
    <3> DEFINE x == u[1]
    <3>1. c \in Character /\ x \in Character /\ p \in Seq(Character)
      <4>1. o + 1 \in 1 .. Len(t) /\ o \in 1 .. Len(t)
        BY <1>2, <1>5
      <4>2. c \in Character
        BY <1>3, <1>4, <4>1, ElementOfSeq
      <4>3. x \in Character
        BY <2>6, <2>7, ElementOfSeq
      <4>4. \A k \in 1 .. o : t[k] \in Character
        BY <1>2, <1>4, <4>1, ElementOfSeq
      <4>5. SubSeq(t, 1, o) \in Seq(Character)
        BY <1>2, <4>4, SubSeqProperties
      <4>6. p \in Seq(Character)
        BY <1>4, <4>5, ConcatProperties DEF p
      <4>7. QED BY <4>2, <4>3, <4>6
    <3>2. b \o t \in Seq(Character)
      BY <1>4, ConcatProperties
    <3>3. (b \o t) \o <<x>> = (b \o t) \o SubSeq(u, 1, 1)
      <4> DEFINE a == b \o t
      <4>1. a \in Seq(Character)
        BY <3>2
      <4> HIDE DEF a
      <4>2. a \o <<u[1]>> = a \o SubSeq(u, 1, 1)
        BY <2>6, <4>1, Copied
      <4>3. QED BY <4>2 DEF a
    <3> HIDE DEF x
    <3>4. p \o <<c, x>> = (p \o <<c>>) \o <<x>>
      BY <3>1, OneByOne
    <3>5. p \o <<c, x>> = (b \o t) \o SubSeq(u, 1, 1)
      BY <1>11, <3>3, <3>4
    <3>6. QED BY <1>6, <3>5 DEF x
  <2>9. Reached(lexemes[m].kind, u, 1, Before(n).begun, mode', current')
    <3> DEFINE kind == lexemes[m].kind
    <3>0. mode' = u[1] /\ u[1] \in Quotes
      BY <2>1, <2>2, <2>5
    <3> HIDE DEF u, kind
    <3>1. CASE kind = "quoted"
      <4>1. ReadsTo(u, Len(u))
        BY <2>6, <3>1, OfKind DEF kind
      <4>2. 1 + 1 \in Starts(u, Len(u))
        BY <4>1, Divided
      <4>3. QED BY <2>5, <2>8, <3>0, <3>1, <4>2 DEF Reached, InString, kind
    <3>2. CASE kind = "open"
      <4>1. ~BlockTo(u, Len(u))
        BY <3>0 DEF BlockTo, Quotes
      <4>2. ReadsTo(u, Len(u) + 1)
        BY <2>6, <3>2, <4>1, OfKind DEF kind
      <4>3. 1 + 1 \in Starts(u, Len(u) + 1)
        BY <4>2, Divided
      <4>4. QED BY <3>0, <3>2, <4>3 DEF Reached, InString, kind
    <3>3. QED BY <2>3, <3>1, <3>2 DEF kind
  <2>10. QED BY <1>1, <1>6, <1>7, <2>2, <2>5, <2>7, <2>9, Enters
<1>15. QED BY <1>13, <1>14

(* Every step of the loop leads from a position to a position.             *)
LEMMA ScanKeepsPosition == Scanning /\ Position => Position'
<1> SUFFICES ASSUME Scanning, Position PROVE Position'
  OBVIOUS
<1>1. lexemes \in Files /\ sql = Spelled(lexemes)
  BY DEF Scanning
<1>2. ASSUME NEW n \in 0 .. Len(lexemes), ReadTo(n) PROVE Position'
  <2>1. i =< Len(sql) /\ i = Lead(n) + 1
    BY <1>2, ScanCases DEF Scanning, ReadTo
  <2>2. n < Len(lexemes)
    BY <1>1, <2>1, TextBehind
  <2> DEFINE m == n + 1
  <2>3. m \in 1 .. Len(lexemes) /\ m - 1 = n
    BY <1>1, <2>2, FileFacts
  <2> HIDE DEF m
  <2>4. ReadTo(m - 1)
    BY <1>2, <2>3
  <2>5. QED BY <2>3, <2>4, BeginLexeme
<1>3. ASSUME NEW n \in 1 .. Len(lexemes), NEW o, ReadInto(n, o) PROVE Position'
  <2> DEFINE t == lexemes[n].text
             kind == lexemes[n].kind
             last == IF kind = "open" THEN Len(t) + 1 ELSE Len(t)
  <2>1. Reached(kind, t, o, Before(n - 1).begun, mode, current)
    BY <1>3 DEF ReadInto
  <2>2. CASE kind = "quoted" /\ o + 1 = Len(t)
    BY <1>3, <2>2, CloseString
  <2>3. CASE (kind = "quoted" /\ o + 1 # Len(t)) \/ (kind = "open" /\ mode \in Quotes)
    <3>1. mode \in Quotes /\ kind \in {"quoted", "open"}
      BY <2>1, <2>3 DEF Reached, InString
    <3>2. o + 1 # last
      <4>1. Len(t) \in Nat /\ o \in 1 .. Len(t) - 1
        BY <1>3, Amid
      <4> HIDE DEF t, kind
      <4>2. CASE kind = "open"
        BY <4>1, <4>2
      <4>3. CASE kind # "open"
        BY <2>3, <4>3
      <4>4. QED BY <4>2, <4>3
    <3>3. QED BY <1>3, <3>1, <3>2, ThroughString
  <2>4. CASE kind = "open" /\ mode \notin Quotes
    <3>1. mode \in {"block", "kept"}
      BY <2>1, <2>4 DEF Reached, InString
    <3>2. QED BY <1>3, <2>4, <3>1, ThroughOpenBlock
  <2>5. CASE kind \in {"kept", "comment"}
    BY <1>3, <2>5, ThroughBlock
  <2>6. CASE kind \in {"line", "last"}
    BY <1>3, <2>6, ThroughLine
  <2>7. kind \in {"quoted", "kept", "comment", "line", "last", "open"}
    BY <2>1 DEF Reached
  <2>8. QED BY <2>2, <2>3, <2>4, <2>5, <2>6, <2>7
<1>4. QED BY <1>2, <1>3 DEF Position

---------------------------------------------------------------------------
(* The end of the file: everything has been said, or something is open.    *)
LEMMA EndOfText ==
  ASSUME lexemes \in Files, sql = Spelled(lexemes), Position, i > Len(sql)
  PROVE  LET N == Len(lexemes) IN
         /\ Unclosed <=> Has("open")
         /\ ~Has("open") => queries = Before(N).statements /\ current = Before(N).begun
<1> DEFINE N == Len(lexemes)
           Over == /\ Unclosed <=> Has("open")
                   /\ ~Has("open") => queries = Before(N).statements /\ current = Before(N).begun
<1>1. N \in Nat /\ WellFormed(lexemes) /\ Len(sql) \in Nat /\ DOMAIN lexemes = 1 .. N
  <2>1. 0 \in 0 .. N
    BY FileFacts
  <2>2. Lead(N) \in Nat /\ Len(sql) = Lead(N)
    BY FileFacts, LeadFacts
  <2>3. DOMAIN lexemes = 1 .. N
    BY FileFacts, LenProperties
  <2>4. QED BY <2>2, <2>3, FileFacts
<1>2. ASSUME NEW n \in 0 .. N, ReadTo(n) PROVE Over
  <2>1. i = Lead(n) + 1
    BY <1>2 DEF ReadTo
  <2>2. ~(Lead(n) + 1 =< Len(sql))
    <3>1. Lead(n) \in Nat
      BY LeadFacts
    <3>2. QED BY <1>1, <2>1, <3>1
  <2>3. n = N
    <3>1. ~(n < N)
      BY <2>2, TextBehind
    <3>2. N \in Nat
      BY <1>1
    <3> HIDE DEF N
    <3>3. QED BY <3>1, <3>2
  <2>4. ~Has("open")
    <3>1. SUFFICES ASSUME NEW k \in 1 .. N, lexemes[k].kind = "open" PROVE FALSE
      BY <1>1 DEF Has
    <3>2. k = N
      BY <1>1, <3>1 DEF WellFormed
    <3>3. n > 0
      BY <1>1, <2>3, <3>2
    <3>4. QED BY <1>2, <2>3, <3>1, <3>2, <3>3 DEF ReadTo
  <2>5. ~Unclosed
    BY <1>2 DEF ReadTo, Unclosed, Quotes
  <2>6. QED BY <1>2, <2>3, <2>4, <2>5 DEF ReadTo
<1>3. ASSUME NEW n \in 1 .. N, NEW o, ReadInto(n, o) PROVE Over
  <2> DEFINE t == lexemes[n].text
             kind == lexemes[n].kind
             b == Before(n - 1).begun
  <2>1. /\ i = Lead(n - 1) + o + 1 /\ o \in 1 .. Len(t) /\ queries = Before(n - 1).statements
        /\ Reached(kind, t, o, b, mode, current)
    BY <1>3 DEF ReadInto
  <2>2. o = Len(t)
    <3>1. Lead(n) =< Len(sql) /\ Lead(n - 1) \in Nat /\ Lead(n) = Lead(n - 1) + Len(t) /\ Len(t) \in Nat
      BY SaysMore, LeadFacts, TextAt, LexemeFacts
    <3> HIDE DEF t
    <3>2. i =< Lead(n) + 1 /\ Lead(n) \in Nat
      BY <2>1, <3>1
    <3>3. i = Lead(n) + 1
      <4>1. i \in Int
        BY <2>1, <3>1
      <4>2. QED BY <1>1, <3>1, <3>2, <4>1
    <3>4. QED BY <2>1, <3>1, <3>3
  <2>3. kind \in {"last", "open"}
    BY <1>3, <2>2, CharacterAhead
  <2>4. n = N
    BY <2>3, AtTheEnd
  <2>5. Has("open") <=> kind = "open"
    <3>1. \A k \in 1 .. N : lexemes[k].kind = "open" => k = N
      BY <1>1 DEF WellFormed
    <3>2. QED BY <1>1, <2>4, <3>1 DEF Has
  <2>6. CASE kind = "open"
    <3>1. Unclosed
      BY <2>1, <2>6 DEF Reached, InString, Unclosed, Quotes
    <3>2. QED BY <2>5, <2>6, <3>1
  <2>7. CASE kind = "last"
    <3>1. mode = "line" /\ current = b \o <<" ">>
      BY <2>1, <2>7 DEF Reached
    <3>2. ~Unclosed
      BY <3>1 DEF Unclosed, Quotes
    <3>3. Before(n).statements = Before(n - 1).statements /\ Before(n).begun = b \o <<" ">>
      BY <2>7, Says DEF Meaning
    <3>4. QED BY <2>1, <2>4, <2>5, <2>7, <3>1, <3>2, <3>3
  <2>8. QED BY <2>3, <2>6, <2>7
<1>4. QED BY <1>2, <1>3 DEF Position

(* The code's test finds a directive among the statements of the file.     *)
HasDirective == \E n \in DOMAIN Statements : IsDirective(Statements[n])

(* What ParseQueries has in hand then are the statements of the file.      *)
LEMMA InHand ==
  ASSUME lexemes \in Files,
         queries = Before(Len(lexemes)).statements, current = Before(Len(lexemes)).begun
  PROVE  /\ AllQueries = Statements
         /\ (\E k \in 1 .. Len(AllQueries) : IsDirective(AllQueries[k])) <=> HasDirective
<1> DEFINE s == Before(Len(lexemes))
<1>1. s \in SaidSoFar /\ s.statements \in Seq(Seq(Character)) /\ s.begun \in Seq(Character)
  <2>1. Len(lexemes) \in 0 .. Len(lexemes)
    BY FileFacts
  <2>2. s \in SaidSoFar
    BY <2>1, FileFacts, SaidUnfolds DEF Before
  <2>3. QED BY <2>2 DEF SaidSoFar
<1>2. Statements = With(s, <<>>)
  BY DEF Statements, Before
<1> HIDE DEF s
<1>3. Trim(s.begun) \o <<>> = Trim(s.begun)
  BY <1>1, TrimType, ConcatEmptySeq
<1>4. AllQueries = With(s, <<>>)
  BY <1>3 DEF AllQueries, With, s
<1>5. Statements \in Seq(Seq(Character))
  BY <1>1, <1>2, EmptySeq, WithType
<1>6. DOMAIN Statements = 1 .. Len(Statements)
  BY <1>5, LenProperties
<1>7. QED BY <1>2, <1>4, <1>6 DEF HasDirective

(* It finds every client command but those that are left open, and nothing *)
(* that is no client command.                                              *)
LEMMA OtherCommands ==
  /\ ~HasDirective => Commands \subseteq OnlySemicolon
  /\ HasDirective => Commands # {}
BY DEF HasDirective, IsDirective, Commands, OnlySemicolon, IsCommand

---------------------------------------------------------------------------
(* The invariant holds at the beginning of the file.                       *)
LEMMA Initially == Init => IInv
<1> SUFFICES ASSUME Init PROVE IInv
  OBVIOUS
<1>1. lexemes \in Files /\ sql = Spelled(lexemes)
  BY DEF Init
<1>2. 0 \in 0 .. Len(lexemes) /\ Lead(0) = 0
  <2>1. 0 \in 0 .. Len(lexemes)
    BY <1>1, FileFacts
  <2>2. QED BY <1>1, <2>1, LeadFacts
<1>3. Before(0) = Nothing
  BY <1>1, FileFacts, SaidUnfolds DEF Before
<1>4. ReadTo(0)
  BY <1>2, <1>3 DEF Init, Begin, ReadTo, Nothing
<1>5. Position
  BY <1>2, <1>4 DEF Position
<1>6. SplitAsWritten
  BY DEF Init, Begin, SplitAsWritten, Done
<1>7. QED BY <1>1, <1>5, <1>6 DEF IInv

(* What ParseQueries returns at the end of the file is right.              *)
LEMMA Returns ==
  ASSUME IInv, lexemes' = lexemes, Accept \/ Reject
  PROVE  result' # "scanning" /\ SplitAsWritten'
<1> DEFINE N == Len(lexemes)
<1>1. lexemes \in Files /\ sql = Spelled(lexemes) /\ Position /\ i > Len(sql)
  BY DEF IInv, Accept, Reject
<1>2. /\ Unclosed <=> Has("open")
      /\ ~Has("open") => queries = Before(N).statements /\ current = Before(N).begun
  BY <1>1, EndOfText
<1>3. Has("open")' = Has("open") /\ Statements' = Statements
      /\ Commands' = Commands /\ OnlySemicolon' = OnlySemicolon
  BY DEF Has, Commands, OnlySemicolon, Statements
<1>4. CASE Accept
  <2>1. ~Has("open") /\ queries' = AllQueries /\ result' = "accepted"
    BY <1>2, <1>4 DEF Accept, Refused
  <2>2. ~HasDirective /\ queries' = Statements
    BY <1>1, <1>2, <1>4, <2>1, InHand DEF Accept, Refused
  <2>3. Commands \subseteq OnlySemicolon
    BY <2>2, OtherCommands
  <2>4. QED BY <1>3, <2>1, <2>2, <2>3 DEF SplitAsWritten
<1>5. CASE Reject
  <2>1. queries' = <<>> /\ result' = "rejected"
    BY <1>5 DEF Reject
  <2>2. Has("open") \/ HasDirective
    BY <1>1, <1>2, <1>5, InHand DEF Reject, Refused
  <2>3. Has("open") \/ Commands # {}
    BY <2>2, OtherCommands
  <2>4. QED BY <1>3, <2>1, <2>3 DEF SplitAsWritten
<1>6. QED BY <1>4, <1>5

(* Every step keeps the invariant.                                         *)
LEMMA Step == IInv /\ [ScanFile]_<<vars, lexemes>> => IInv'
<1> SUFFICES ASSUME IInv, [ScanFile]_<<vars, lexemes>> PROVE IInv'
  OBVIOUS
<1>1. CASE Next /\ lexemes' = lexemes
  <2>1. CASE Scan
    <3>1. result = "scanning" /\ result' = "scanning" /\ sql' = sql
      <4>1. result = "scanning"
        BY <2>1 DEF Scan, InLineComment, InBlockComment, InQuote, OpenQuote, OpenLine, OpenBlock,
                    EndStatement, Copy, Reading
      <4>2. result' = result /\ sql' = sql
        BY <2>1 DEF Scan, InLineComment, InBlockComment, InQuote, OpenQuote, OpenLine, OpenBlock,
                    EndStatement, Copy, Take
      <4>3. QED BY <4>1, <4>2
    <3>2. Scanning /\ Position
      BY <1>1, <2>1, <3>1 DEF IInv, Scanning
    <3>3. Position'
      BY <3>2, ScanKeepsPosition
    <3>4. SplitAsWritten'
      BY <3>1 DEF SplitAsWritten, Done
    <3>5. QED BY <1>1, <3>1, <3>3, <3>4 DEF IInv
  <2>2. CASE Accept \/ Reject
    <3>1. result' # "scanning" /\ SplitAsWritten'
      BY <1>1, <2>2, Returns
    <3>2. sql' = sql
      BY <2>2 DEF Accept, Reject
    <3>3. QED BY <1>1, <3>1, <3>2 DEF IInv
  <2>3. CASE Returned
    <3>1. UNCHANGED <<vars, lexemes>>
      BY <1>1, <2>3 DEF Returned
    <3>2. QED BY <3>1 DEF IInv, vars, Position, ReadTo, ReadInto, Lead, Before, SplitAsWritten,
                          Has, Commands, OnlySemicolon, Statements, Done
  <2>4. QED BY <1>1, <2>1, <2>2, <2>3 DEF Next
<1>2. CASE UNCHANGED <<vars, lexemes>>
  BY <1>2 DEF IInv, vars, Position, ReadTo, ReadInto, Lead, Before, SplitAsWritten,
              Has, Commands, OnlySemicolon, Statements, Done
<1>3. QED BY <1>1, <1>2 DEF ScanFile

(* SqlInput::ParseQueries returns the statements that are written in the   *)
(* file, for a file of any length made of any lexemes, or refuses it:      *)
(* when it ends inside a string, an identifier or a comment, or has a      *)
(* client command, and only then.                                          *)
THEOREM SplitsAsWritten == Spec => []SplitAsWritten
<1>1. IInv => SplitAsWritten
  BY DEF IInv
<1>2. QED BY Initially, Step, <1>1, PTL DEF Spec
=============================================================================

------------------------------ MODULE FormProofs ------------------------------
(***************************************************************************)
(* Proofs about the two functions of the examples that read a body by its  *)
(* content type, for names of any length and bytes, and for forms of any   *)
(* number of parts with bodies of any length.                              *)
(*                                                                         *)
(* A text that is decoded or cut is described first by the positions of    *)
(* its marks (IsQuery, IsMultipart, IsToken): the function is then shown   *)
(* to find these positions, and what is between them.                      *)
(***************************************************************************)
EXTENDS EventProofs, TLAPS

-----------------------------------------------------------------------------
(* Forms: what urldecode makes of the escapes of a sender. A function that *)
(* is defined by recursion is reached by an induction on its own values:   *)
(* the least place at which a claim fails is taken to a contradiction.     *)

\* A recursive function from the end of a text: there is one, as it only looks forward.
Decoding(encoded, f, i) ==
  IF i > Len(encoded) THEN <<>>
  ELSE IF encoded[i] # F!Percent THEN <<encoded[i]>> \o f[i + 1]
  ELSE IF ~F!EscapeFits(encoded, i) THEN f[i + 1]
  ELSE LET value == F!FromChars(encoded[i + 1], encoded[i + 2])
       IN  IF value # -1 THEN <<value>> \o f[i + 3] ELSE <<F!Percent>> \o f[i + 1]

\* f is such a function.
DecodedBy(encoded, f) == \A i \in 1..(Len(encoded) + 3) : f[i] = Decoding(encoded, f, i)

\* urldecode is the first value of such a function.
LEMMA DecodesFromEnd ==
  ASSUME NEW encoded, Len(encoded) \in Nat
  PROVE  \E f : F!urldecode(encoded) = f[1] /\ DecodedBy(encoded, f)
<1> DEFINE n == Len(encoded)
           D == 1..(n + 3)
           Next3(f) == [i \in D |-> Decoding(encoded, f, i)]
           From == CHOOSE f : f = Next3(f)
           Dom(k) == ((n + 4) - k)..(n + 3)
           Good(k) == \E g : \A i \in Dom(k) : g[i] = Decoding(encoded, g, i)
           bad == {k \in 0..(n + 3) : ~Good(k)}
<1>1. F!urldecode(encoded) = From[1]
  BY Zenon DEF F!urldecode, Decoding
<1>2. n \in Nat
  OBVIOUS
<1>3. bad = {}
  <2>1. SUFFICES ASSUME bad # {} PROVE FALSE
    OBVIOUS
  <2>2. bad \subseteq Nat
    BY <1>2
  <2>3. PICK m \in bad : \A k \in bad : m <= k
    <3> HIDE DEF bad
    <3> QED
      BY <2>1, <2>2, LeastNatural
  <2>4. m # 0
    <3>1. Dom(0) = {}
      BY <1>2
    <3>2. Good(0)
      BY <3>1
    <3> QED
      BY <2>3, <3>2
  <2>5. m \in 1..(n + 3)
    BY <1>2, <2>3, <2>4
  <2>6. Good(m - 1)
    <3>1. m - 1 \in 0..(n + 3) /\ ~(m <= m - 1)
      BY <1>2, <2>5
    <3>2. m - 1 \notin bad
      <4> HIDE DEF bad
      <4> QED
        BY <2>3, <3>1
    <3> HIDE DEF Good
    <3> QED
      BY <3>1, <3>2
  <2>7. PICK g : \A i \in Dom(m - 1) : g[i] = Decoding(encoded, g, i)
    BY <2>6
  <2> DEFINE new == (n + 4) - m
             h == [i \in Dom(m) |-> IF i = new THEN Decoding(encoded, g, new) ELSE g[i]]
  <2>8. ASSUME NEW i \in Dom(m)
        PROVE  h[i] = Decoding(encoded, h, i)
    <3>1. /\ i \in Nat /\ new \in Nat /\ new <= i /\ i <= n + 3
          /\ i # new => i \in Dom(m - 1)
      BY <1>2, <2>5
    <3>2. ASSUME NEW j \in {i + 1, i + 3}, i <= n
          PROVE  h[j] = g[j]
      BY <1>2, <2>5, <3>1, <3>2
    <3>3. Decoding(encoded, h, i) = Decoding(encoded, g, i)
      <4>1. CASE i > n
        BY <4>1 DEF Decoding
      <4>2. CASE ~(i > n)
        <5>1. h[i + 1] = g[i + 1] /\ h[i + 3] = g[i + 3]
          BY <1>2, <3>1, <3>2, <4>2
        <5> HIDE DEF h
        <5> QED
          BY <5>1 DEF Decoding
      <4> QED
        BY <4>1, <4>2
    <3>4. CASE i = new
      BY <3>3, <3>4
    <3>5. CASE i # new
      BY <2>7, <3>1, <3>3, <3>5
    <3> QED
      BY <3>4, <3>5
  <2>9. Good(m)
    <3> HIDE DEF h
    <3> QED
      BY <2>8
  <2> QED
    BY <2>3, <2>9
<1>4. Good(n + 3)
  BY <1>2, <1>3
<1>5. PICK g : \A i \in D : g[i] = Decoding(encoded, g, i)
  <2>1. Dom(n + 3) = D
    BY <1>2
  <2> QED
    BY <1>4, <2>1
<1>6. [i \in D |-> g[i]] = Next3([i \in D |-> g[i]])
  <2> DEFINE h == [i \in D |-> g[i]]
  <2>1. ASSUME NEW i \in D
        PROVE  Decoding(encoded, h, i) = Decoding(encoded, g, i)
    <3>1. CASE i > n
      BY <3>1 DEF Decoding
    <3>2. CASE ~(i > n)
      <4>1. h[i + 1] = g[i + 1] /\ h[i + 3] = g[i + 3]
        BY <1>2, <3>2
      <4> HIDE DEF h
      <4> QED
        BY <4>1 DEF Decoding
    <3> QED
      BY <3>1, <3>2
  <2> QED
    BY <1>5, <2>1
<1>7. From = Next3(From)
  BY <1>6
<1>8. \A i \in D : From[i] = Decoding(encoded, From, i)
  <2> HIDE DEF From
  <2> QED
    BY <1>7
<1>9. DecodedBy(encoded, From)
  <2> HIDE DEF From
  <2> QED
    BY <1>8 DEF DecodedBy
<1> HIDE DEF From
<1> QED
  BY <1>1, <1>9

\* What is decoded of a piece: a character itself, that of an escape, or an escape as it is.
Decodes(p, q) ==
  \/ \E c \in Int : c # F!Percent /\ p = <<c>> /\ q = <<c>>
  \/ \E h, l \in Int :
       /\ p = <<F!Percent, h, l>>
       /\ IF F!FromChars(h, l) # -1 THEN q = <<F!FromChars(h, l)>> /\ F!FromChars(h, l) \in Int
          ELSE h # F!Percent /\ l # F!Percent /\ q = p

\* Both are texts.
LEMMA OfPieces == ASSUME NEW p, NEW q, Decodes(p, q) PROVE p \in Seq(Int) /\ q \in Seq(Int)
<1>1. F!Percent \in Int
  BY DEF F!Percent
<1>2. \A c \in Int : <<c>> \in Seq(Int)
  OBVIOUS
<1>3. \A a, b, c \in Int : <<a, b, c>> \in Seq(Int)
  OBVIOUS
<1> HIDE DEF F!Percent, F!FromChars
<1> QED
  BY <1>1, <1>2, <1>3 DEF Decodes

\* Joining three texts.
LEMMA Associative == \A s, t, u \in Seq(Int) : (s \o t) \o u = s \o (t \o u)
<1> TAKE s, t, u \in Seq(Int)
<1> QED
  BY ConcatAssociative, SMTT(30)

\* Characters joined are a text of them.
LEMMA Joining == \A a, b, c \in Int : <<a>> \o <<b>> = <<a, b>> /\ <<a, b>> \o <<c>> = <<a, b, c>>
<1> TAKE a, b, c \in Int
<1> DEFINE two == <<a>> \o <<b>>
           pair == <<a, b>>
           three == <<a, b>> \o <<c>>
           triple == <<a, b, c>>
<1>1. two \in Seq(Int) /\ Len(two) = 2 /\ two[1] = a /\ two[2] = b
  OBVIOUS
<1>2. pair \in Seq(Int) /\ Len(pair) = 2 /\ pair[1] = a /\ pair[2] = b
  OBVIOUS
<1>3. three \in Seq(Int) /\ Len(three) = 3 /\ three[1] = a /\ three[2] = b /\ three[3] = c
  OBVIOUS
<1>4. triple \in Seq(Int) /\ Len(triple) = 3 /\ triple[1] = a /\ triple[2] = b /\ triple[3] = c
  OBVIOUS
<1>5. two = pair
  <2>1. \A k \in 1..2 : k = 1 \/ k = 2
    OBVIOUS
  <2> HIDE DEF two, pair
  <2> QED
    BY <1>1, <1>2, <2>1, SeqEqual
<1>6. three = triple
  <2>1. \A k \in 1..3 : k = 1 \/ k = 2 \/ k = 3
    OBVIOUS
  <2> HIDE DEF three, triple
  <2> QED
    BY <1>3, <1>4, <2>1, SeqEqual
<1> QED
  BY <1>5, <1>6

\* Three characters, one at a time, before a text.
LEMMA ThreeThenRest == ASSUME NEW a \in Int, NEW b \in Int, NEW c \in Int, NEW rest \in Seq(Int)
               PROVE  <<a>> \o (<<b>> \o (<<c>> \o rest)) = <<a, b, c>> \o rest
<1>1. /\ <<a>> \in Seq(Int) /\ <<b>> \in Seq(Int) /\ <<c>> \in Seq(Int) /\ <<a, b>> \in Seq(Int)
      /\ <<c>> \o rest \in Seq(Int)
  OBVIOUS
<1>2. <<a>> \o (<<b>> \o (<<c>> \o rest)) = (<<a>> \o <<b>>) \o (<<c>> \o rest)
  <2> DEFINE x == <<a>>
             y == <<b>>
             z == <<c>> \o rest
  <2>1. x \in Seq(Int) /\ y \in Seq(Int) /\ z \in Seq(Int)
    BY <1>1
  <2> HIDE DEF x, y, z
  <2>2. (x \o y) \o z = x \o (y \o z)
    BY <2>1, ConcatAssociative, SMTT(30)
  <2> QED
    BY <2>2 DEF x, y, z
<1>3. <<a, b>> \o (<<c>> \o rest) = (<<a, b>> \o <<c>>) \o rest
  BY <1>1, Associative, ZenonT(40)
<1> QED
  BY <1>2, <1>3, Joining, Zenon

\* A piece is in a text, after o characters.
LiesAt(encoded, p, o) ==
  o \in Nat /\ o + Len(p) <= Len(encoded) /\ \A k \in 1..Len(p) : encoded[o + k] = p[k]

\* A text is a sequence of codes.
IsCodes(s) == s \in Seq(Int)

\* What can be done with texts, in the terms the provers need.
LEMMA CodesJoined ==
  /\ IsCodes(<<>>)
  /\ \A x, y : IsCodes(x) /\ IsCodes(y) => IsCodes(x \o y)
  /\ \A x, y, z : IsCodes(x) /\ IsCodes(y) /\ IsCodes(z) => x \o (y \o z) = (x \o y) \o z
<1>1. <<>> \in Seq(Int)
  OBVIOUS
<1>2. ASSUME NEW x, NEW y, IsCodes(x), IsCodes(y) PROVE IsCodes(x \o y)
  <2>1. x \in Seq(Int) /\ y \in Seq(Int)
    BY <1>2 DEF IsCodes
  <2>2. x \o y \in Seq(Int)
    BY <2>1, ConcatProperties
  <2> QED
    BY <2>2 DEF IsCodes
<1>3. ASSUME NEW x, NEW y, NEW z, IsCodes(x), IsCodes(y), IsCodes(z)
      PROVE  x \o (y \o z) = (x \o y) \o z
  BY ConcatAssociative DEF IsCodes
<1>4. \A x, y : IsCodes(x) /\ IsCodes(y) => IsCodes(x \o y)
  BY <1>2
<1>5. \A x, y, z : IsCodes(x) /\ IsCodes(y) /\ IsCodes(z) => x \o (y \o z) = (x \o y) \o z
  BY <1>3
<1> QED
  BY <1>1, <1>4, <1>5 DEF IsCodes

\* A piece is decoded where it is, whatever follows it.
LEMMA PieceDecoded ==
  ASSUME NEW encoded, Len(encoded) \in Nat, NEW f, DecodedBy(encoded, f),
         NEW p, NEW q, Decodes(p, q), NEW o, LiesAt(encoded, p, o), IsCodes(f[o + Len(p) + 1])
  PROVE  f[o + 1] = q \o f[o + Len(p) + 1]
<1>0. /\ \A i \in 1..(Len(encoded) + 3) : f[i] = Decoding(encoded, f, i)
      /\ o \in Nat /\ o + Len(p) <= Len(encoded) /\ \A k \in 1..Len(p) : encoded[o + k] = p[k]
      /\ f[o + Len(p) + 1] \in Seq(Int)
  BY DEF DecodedBy, LiesAt, IsCodes
<1> USE <1>0
<1>1. CASE \E c \in Int : c # F!Percent /\ p = <<c>> /\ q = <<c>>
  <2>1. PICK c \in Int : c # F!Percent /\ p = <<c>> /\ q = <<c>>
    BY <1>1
  <2>2. Len(p) = 1 /\ encoded[o + 1] = c /\ o + 1 <= Len(encoded)
    BY <2>1
  <2>3. f[o + 1] = Decoding(encoded, f, o + 1) /\ (o + 1) + 1 = o + Len(p) + 1
    BY <2>2
  <2> QED
    BY <2>1, <2>2, <2>3 DEF Decoding
<1>2. CASE \E h, l \in Int :
       /\ p = <<F!Percent, h, l>>
       /\ IF F!FromChars(h, l) # -1 THEN q = <<F!FromChars(h, l)>> /\ F!FromChars(h, l) \in Int
          ELSE h # F!Percent /\ l # F!Percent /\ q = p
  <2>1. PICK h, l \in Int :
          /\ p = <<F!Percent, h, l>>
          /\ IF F!FromChars(h, l) # -1 THEN q = <<F!FromChars(h, l)>> /\ F!FromChars(h, l) \in Int
             ELSE h # F!Percent /\ l # F!Percent /\ q = p
    BY <1>2
  <2>2. /\ Len(p) = 3 /\ o + 3 <= Len(encoded)
        /\ p[1] = F!Percent /\ p[2] = h /\ p[3] = l
    BY <2>1
  <2>3. /\ encoded[o + 1] = F!Percent /\ encoded[o + 2] = h /\ encoded[o + 3] = l
    BY <2>2
  <2>4. /\ (o + 1) + 1 = o + 2 /\ (o + 1) + 2 = o + 3 /\ (o + 1) + 3 = o + 4
        /\ (o + 2) + 1 = o + 3 /\ (o + 3) + 1 = o + 4 /\ o + Len(p) + 1 = o + 4
    BY <2>2
  <2>5. /\ f[o + 1] = Decoding(encoded, f, o + 1)
        /\ f[o + 2] = Decoding(encoded, f, o + 2)
        /\ f[o + 3] = Decoding(encoded, f, o + 3)
        /\ ~(o + 1 > Len(encoded)) /\ ~(o + 2 > Len(encoded)) /\ ~(o + 3 > Len(encoded))
    BY <2>2, SMTT(30)
  <2>6. F!EscapeFits(encoded, o + 1)
    BY <2>2, <2>4 DEF F!EscapeFits
  <2>7. CASE F!FromChars(h, l) # -1
    BY <2>1, <2>3, <2>4, <2>5, <2>6, <2>7 DEF Decoding
  <2>8. CASE F!FromChars(h, l) = -1
    <3> DEFINE rest == f[o + 4]
    <3>1. rest \in Seq(Int) /\ F!Percent \in Int
      BY <2>4 DEF F!Percent
    <3>2. f[o + 1] = <<F!Percent>> \o f[o + 2]
      BY <2>3, <2>4, <2>5, <2>6, <2>8 DEF Decoding
    <3>3. f[o + 2] = <<h>> \o f[o + 3]
      BY <2>1, <2>3, <2>4, <2>5, <2>8 DEF Decoding
    <3>4. f[o + 3] = <<l>> \o rest
      BY <2>1, <2>3, <2>4, <2>5, <2>8 DEF Decoding
    <3>5. q = <<F!Percent, h, l>>
      BY <2>1, <2>8
    <3> HIDE DEF rest
    <3>6. <<F!Percent>> \o (<<h>> \o (<<l>> \o rest)) = <<F!Percent, h, l>> \o rest
      BY <3>1, ThreeThenRest
    <3> QED
      BY <2>4, <3>2, <3>3, <3>4, <3>5, <3>6 DEF rest
  <2> QED
    BY <2>7, <2>8
<1> QED
  BY <1>1, <1>2 DEF Decodes

\* What the pieces of a text are decoded to.
AreDecoded(ins, outs, n) ==
  /\ n \in Nat \ {0} /\ ins # <<>> /\ outs # <<>>
  /\ DOMAIN ins = 1..n /\ Len(ins) = n /\ DOMAIN outs = 1..n /\ Len(outs) = n
  /\ \A i \in 1..n : Decodes(ins[i], outs[i])

\* Of a text put together of pieces, what was decoded of each, in order.
LEMMA PiecesDecoded ==
  ASSUME NEW n, NEW ins, NEW outs, AreDecoded(ins, outs, n)
  PROVE  F!urldecode(FlattenSeq(ins)) = FlattenSeq(outs)
<1>1. /\ n \in Nat \ {0} /\ ins # <<>> /\ outs # <<>>
      /\ DOMAIN ins = 1..n /\ Len(ins) = n /\ DOMAIN outs = 1..n /\ Len(outs) = n
  BY DEF AreDecoded
<1>2. \A i \in 1..n : Decodes(ins[i], outs[i])
  BY DEF AreDecoded
<1>3. \A i \in 1..n : ins[i] \in Seq(Int) /\ IsCodes(outs[i])
  BY <1>2, OfPieces DEF IsCodes
<1>4. PICK o : PlacedAt(Int, ins, n, FlattenSeq(ins), o)
  <2>1. AreTexts(Int, ins, n)
    BY <1>1, <1>3 DEF AreTexts
  <2> QED
    BY <1>1, <2>1, Flattened
<1> DEFINE encoded == FlattenSeq(ins)
<1>5. /\ o \in [1..(n + 1) -> Nat] /\ o[1] = 0
      /\ \A i \in 1..n : o[i + 1] = o[i] + Len(ins[i])
      /\ encoded \in Seq(Int) /\ Len(encoded) = o[n + 1]
      /\ \A i \in 1..n : \A k \in 1..Len(ins[i]) : encoded[o[i] + k] = ins[i][k]
  BY <1>4 DEF PlacedAt
<1>6. Len(encoded) \in Nat
  BY <1>5
<1> HIDE DEF encoded
<1>7. PICK f : F!urldecode(encoded) = f[1] /\ DecodedBy(encoded, f)
  BY <1>6, DecodesFromEnd
<1>8. PICK g : FlattenSeq(outs) = g[n] /\ \A i \in 1..n : g[i] = Joined(outs, g, i)
  BY <1>1, FlattensFromStart
<1>9. /\ n \in Nat /\ n >= 1 /\ 1 \in 1..n /\ n \in 1..n /\ n + 1 \in 1..(n + 1)
      /\ \A i \in 1..n : i \in 1..(n + 1) /\ i + 1 \in 1..(n + 1)
  BY <1>1
<1>10. f[o[n + 1] + 1] = <<>>
  <2>1. o[n + 1] + 1 \in 1..(Len(encoded) + 3) /\ o[n + 1] + 1 > Len(encoded)
    BY <1>5, <1>6
  <2> QED
    BY <1>7, <2>1 DEF DecodedBy, Decoding
\* The pieces follow each other.
<1>11. \A i \in 1..n : /\ o[i] \in Nat /\ o[i + 1] \in Nat /\ Len(ins[i]) \in Nat
                       /\ o[i + 1] = o[i] + Len(ins[i])
  BY <1>3, <1>5, <1>9
<1> DEFINE rest(i) == f[o[i] + 1]
           Fits(i) == o[i] <= Len(encoded) /\ IsCodes(rest(i))
<1>12. ASSUME NEW i \in 1..n, Fits(i + 1)
       PROVE  rest(i) = outs[i] \o rest(i + 1) /\ Fits(i)
  <2>1. LiesAt(encoded, ins[i], o[i]) /\ o[i] <= Len(encoded)
    <3>1. o[i] + Len(ins[i]) <= Len(encoded)
      BY <1>11, <1>12
    <3>2. o[i] <= Len(encoded)
      <4>1. \A a, c, l \in Nat : a + l <= c => a <= c
        OBVIOUS
      <4> QED
        BY <1>6, <1>11, <3>1, <4>1
    <3> QED
      BY <1>5, <1>11, <3>1, <3>2 DEF LiesAt
  <2>2. IsCodes(f[o[i] + Len(ins[i]) + 1])
    BY <1>11, <1>12
  <2>3. f[o[i] + 1] = outs[i] \o f[o[i] + Len(ins[i]) + 1]
    <3>1. PICK p, q, a : p = ins[i] /\ q = outs[i] /\ a = o[i]
      OBVIOUS
    <3>2. Decodes(p, q) /\ LiesAt(encoded, p, a) /\ IsCodes(f[a + Len(p) + 1]) /\ DecodedBy(encoded, f)
      BY <1>2, <1>7, <2>1, <2>2, <3>1
    <3>3. f[a + 1] = q \o f[a + Len(p) + 1]
      BY <1>6, <3>2, PieceDecoded
    <3> QED
      BY <3>1, <3>3
  <2>4. rest(i) = outs[i] \o rest(i + 1)
    BY <1>11, <2>3
  <2>5. IsCodes(rest(i))
    BY <1>3, <1>12, <2>4, CodesJoined
  <2> QED
    BY <2>1, <2>4, <2>5
<1>13. Fits(n + 1)
  BY <1>5, <1>6, <1>10, CodesJoined
<1> HIDE DEF Fits, rest
\* From the end: what is left fits.
<1>14. \A i \in 1..n : Fits(i + 1)
  <2> DEFINE G == {k \in 1..n : Fits((n + 1) - (k - 1))}
  <2>1. 1 \in G
    BY <1>9, <1>13
  <2>2. ASSUME NEW m \in 1..n, m # n, m \in G PROVE m + 1 \in G
    <3>1. PICK i : i = (n + 1) - m
      OBVIOUS
    <3>2. i \in 1..n /\ i + 1 = (n + 1) - (m - 1) /\ (n + 1) - ((m + 1) - 1) = i /\ m + 1 \in 1..n
      BY <1>9, <2>2, <3>1
    <3>3. Fits(i + 1)
      BY <2>2, <3>2
    <3>4. Fits(i)
      BY <1>12, <3>2, <3>3
    <3> QED
      BY <3>2, <3>4
  <2>3. \A m \in 1..n : m \in G
    <3> HIDE DEF G
    <3> QED
      BY <1>9, <2>1, <2>2, SetInduction
  <2>4. ASSUME NEW i \in 1..n PROVE Fits(i + 1)
    <3>1. PICK k : k = (n + 1) - i
      OBVIOUS
    <3>2. k \in 1..n /\ (n + 1) - (k - 1) = i + 1
      BY <1>9, <3>1
    <3> QED
      BY <2>3, <3>2
  <2> QED
    BY <2>4
\* From the start: what the first pieces gave, and what is left.
<1>15. \A i \in 1..n : IsCodes(g[i]) /\ f[1] = g[i] \o rest(i + 1)
  <2> DEFINE G == {i \in 1..n : IsCodes(g[i]) /\ f[1] = g[i] \o rest(i + 1)}
  <2>1. 1 \in G
    <3>1. g[1] = outs[1]
      BY <1>8, <1>9 DEF Joined
    <3>2. rest(1) = outs[1] \o rest(1 + 1)
      BY <1>9, <1>12, <1>14
    <3>3. rest(1) = f[1]
      BY <1>5 DEF rest
    <3> QED
      BY <1>3, <1>9, <3>1, <3>2, <3>3
  <2>2. ASSUME NEW m \in 1..n, m # n, m \in G PROVE m + 1 \in G
    <3>1. PICK i : i = m + 1
      OBVIOUS
    <3>2. i \in 1..n /\ i # 1 /\ i - 1 = m
      BY <1>9, <2>2, <3>1
    <3>3. IsCodes(g[m]) /\ f[1] = g[m] \o rest(i)
      BY <2>2, <3>1
    <3>4. g[i] = g[m] \o outs[i]
      BY <1>8, <3>2 DEF Joined
    <3>5. rest(i) = outs[i] \o rest(i + 1) /\ IsCodes(outs[i]) /\ IsCodes(rest(i + 1))
      BY <1>3, <1>12, <1>14, <3>2 DEF Fits
    <3>6. f[1] = g[i] \o rest(i + 1) /\ IsCodes(g[i])
      <4>1. PICK a, b, c : a = g[m] /\ b = outs[i] /\ c = rest(i + 1)
        OBVIOUS
      <4>2. IsCodes(a) /\ IsCodes(b) /\ IsCodes(c)
        BY <3>3, <3>5, <4>1
      <4>3. a \o (b \o c) = (a \o b) \o c /\ IsCodes(a \o b)
        BY <4>2, CodesJoined, SMTT(30)
      <4> QED
        BY <3>3, <3>4, <3>5, <4>1, <4>3
    <3> QED
      BY <3>1, <3>2, <3>6
  <2>3. \A m \in 1..n : m \in G
    <3> HIDE DEF G
    <3> QED
      BY <1>9, <2>1, <2>2, SetInduction
  <2> QED
    BY <2>3
<1>16. f[1] = g[n] \o <<>> /\ g[n] \in Seq(Int)
  BY <1>9, <1>10, <1>15 DEF rest, IsCodes
<1>17. g[n] \o <<>> = g[n]
  BY <1>16, ConcatEmptySeq
<1> QED
  BY <1>7, <1>8, <1>16, <1>17 DEF encoded

\* What a sender makes of a character.
IsPlain(c) == c \in (48..57) \cup (97..122)
Piece(c) == IF IsPlain(c) THEN <<c>> ELSE Escaped(c)
BrowserPiece(c) == IF c = 32 THEN <<43>> ELSE Piece(c)

\* What is there after it was decoded.
Kept(c) == IF c < 128 THEN <<c>> ELSE Escaped(c)
BrowserKept(c) == IF c < 128 THEN (IF c = 32 THEN <<43>> ELSE <<c>>) ELSE Escaped(c)

\* The escape of a byte is read as that byte, if it fits in a signed char.
LEMMA EscapeRead ==
  ASSUME NEW c \in 0..255
  PROVE  /\ Hex(c \div 16) \in Int \ {F!Percent} /\ Hex(c % 16) \in Int \ {F!Percent}
         /\ F!FromChars(Hex(c \div 16), Hex(c % 16)) = IF c < 128 THEN c ELSE -1
<1>1. PICK a, b : a = c \div 16 /\ b = c % 16
  OBVIOUS
<1>2. a \in 0..15 /\ b \in 0..15 /\ c = 16 * a + b
  BY <1>1
<1>3. ASSUME NEW d \in 0..15
      PROVE  /\ Hex(d) \in F!HexDigits /\ F!HexValue(Hex(d)) = d
             /\ Hex(d) \in Int /\ Hex(d) # F!Percent /\ Hex(d) # F!Minus
  BY DEF Hex, F!HexDigits, F!HexValue, F!Percent, F!Minus
<1>4. F!FromChars(Hex(a), Hex(b)) = IF c < 128 THEN c ELSE -1
  <2>1. F!HexValue(Hex(a)) = a /\ F!HexValue(Hex(b)) = b /\ Hex(a) # F!Minus
        /\ Hex(a) \in F!HexDigits \cup {F!Minus} /\ Hex(b) \in F!HexDigits
    BY <1>2, <1>3
  <2>2. F!FromChars(Hex(a), Hex(b)) = IF 16 * a + b <= 127 THEN (16 * a + b) % 256 ELSE -1
    BY <2>1, Zenon DEF F!FromChars
  <2>3. c < 128 => c % 256 = c
    OBVIOUS
  <2> QED
    BY <1>2, <2>2, <2>3
<1> QED
  BY <1>1, <1>2, <1>3, <1>4

\* Each piece is decoded to what is kept of it.
LEMMA PieceKept ==
  ASSUME NEW c \in 0..255
  PROVE  Decodes(Piece(c), Kept(c)) /\ Decodes(BrowserPiece(c), BrowserKept(c))
<1>1. ASSUME NEW x \in Int, x # 37 PROVE Decodes(<<x>>, <<x>>)
  BY <1>1 DEF Decodes, F!Percent
<1>2. Decodes(Escaped(c), Kept(c))
  <2>1. PICK h, l : h = Hex(c \div 16) /\ l = Hex(c % 16)
    OBVIOUS
  <2>2. /\ h \in Int /\ h # F!Percent /\ l \in Int /\ l # F!Percent
        /\ F!FromChars(h, l) = IF c < 128 THEN c ELSE -1
    BY <2>1, EscapeRead
  <2>3. Escaped(c) = <<F!Percent, h, l>>
    BY <2>1 DEF Escaped, F!Percent
  <2>4. CASE c < 128
    <3>1. F!FromChars(h, l) = c /\ c # -1 /\ c \in Int /\ Kept(c) = <<c>>
      BY <2>2, <2>4 DEF Kept
    <3> QED
      BY <2>2, <2>3, <3>1, Zenon DEF Decodes
  <2>5. CASE ~(c < 128)
    <3>1. F!FromChars(h, l) = -1 /\ Kept(c) = Escaped(c)
      BY <2>2, <2>5 DEF Kept
    <3> QED
      BY <2>2, <2>3, <3>1, Zenon DEF Decodes
  <2> QED
    BY <2>4, <2>5
<1>3. Decodes(Piece(c), Kept(c))
  <2>1. CASE IsPlain(c)
    <3>1. Piece(c) = <<c>> /\ Kept(c) = <<c>> /\ c \in Int /\ c # 37
      BY <2>1 DEF IsPlain, Piece, Kept
    <3> QED
      BY <1>1, <3>1
  <2>2. CASE ~IsPlain(c)
    BY <1>2, <2>2 DEF Piece
  <2> QED
    BY <2>1, <2>2
<1>4. Decodes(BrowserPiece(c), BrowserKept(c))
  <2>1. CASE c = 32
    <3>1. BrowserPiece(c) = <<43>> /\ BrowserKept(c) = <<43>>
      BY <2>1 DEF BrowserPiece, BrowserKept
    <3> QED
      BY <1>1, <3>1
  <2>2. CASE c # 32
    BY <1>3, <2>2 DEF BrowserPiece, BrowserKept, Kept
  <2> QED
    BY <2>1, <2>2
<1> QED
  BY <1>3, <1>4

\* A name of no character.
LEMMA NothingDecoded == F!urldecode(<<>>) = <<>> /\ FlattenSeq(<<>>) = <<>>
<1>1. FlattenSeq(<<>>) = <<>>
  BY DEF FlattenSeq
<1>2. Len(<<>>) = 0
  OBVIOUS
<1>3. PICK f : F!urldecode(<<>>) = f[1] /\ DecodedBy(<<>>, f)
  BY <1>2, DecodesFromEnd
<1>4. f[1] = Decoding(<<>>, f, 1)
  BY <1>2, <1>3 DEF DecodedBy
<1>5. Decoding(<<>>, f, 1) = <<>>
  BY <1>2 DEF Decoding
<1> QED
  BY <1>1, <1>3, <1>4, <1>5

\* Sequences with the pieces of a name.
LEMMA OfName ==
  ASSUME NEW name \in Seq(0..255), name # <<>>,
         NEW ins, ins = [i \in DOMAIN name |-> ins[i]],
         NEW outs, outs = [i \in DOMAIN name |-> outs[i]],
         \A i \in DOMAIN name : Decodes(ins[i], outs[i])
  PROVE  F!urldecode(FlattenSeq(ins)) = FlattenSeq(outs)
<1>1. PICK n : n = Len(name)
  OBVIOUS
<1>2. n \in Nat \ {0} /\ DOMAIN name = 1..n
  BY <1>1, EmptySeq, LenProperties
<1>3. \A i \in 1..n : ins[i] \in Seq(Int) /\ outs[i] \in Seq(Int)
  BY <1>2, OfPieces
<1>4. Len(ins) = n /\ DOMAIN ins = 1..n /\ ins # <<>>
  <2>1. ins \in Seq(Seq(Int)) /\ Len(ins) = n
    BY <1>2, <1>3, IsSequence
  <2> QED
    BY <1>2, <2>1
<1>5. Len(outs) = n /\ DOMAIN outs = 1..n /\ outs # <<>>
  <2>1. outs \in Seq(Seq(Int)) /\ Len(outs) = n
    BY <1>2, <1>3, IsSequence
  <2> QED
    BY <1>2, <2>1
<1>6. AreDecoded(ins, outs, n)
  BY <1>2, <1>4, <1>5 DEF AreDecoded
<1> QED
  BY <1>6, PiecesDecoded

\* A sender's value is the pieces of its characters.
LEMMA InPieces ==
  ASSUME NEW name \in Seq(0..255)
  PROVE  /\ UrlEncoded(name) = FlattenSeq([i \in DOMAIN name |-> Piece(name[i])])
         /\ FromBrowser(name) = FlattenSeq([i \in DOMAIN name |-> BrowserPiece(name[i])])
<1>1. \A i \in DOMAIN name : name[i] \in 0..255
  BY ElementOfSeq, LenProperties, ZenonT(40)
<1>2. \A s : UrlEncoded(s) = FlattenSeq([i \in DOMAIN s |-> Piece(s[i])])
  BY Zenon DEF UrlEncoded, Piece, IsPlain
<1>3. ASSUME NEW c \in 0..255 PROVE UrlEncoded(<<c>>) = Piece(c)
  <2>1. [i \in DOMAIN <<c>> |-> Piece(<<c>>[i])] = <<Piece(c)>>
    OBVIOUS
  <2> QED
    BY <1>2, <2>1, OneFlattened
<1>4. \A i \in DOMAIN name :
        BrowserPiece(name[i]) = IF name[i] = 32 THEN <<43>> ELSE UrlEncoded(<<name[i]>>)
  BY <1>1, <1>3 DEF BrowserPiece
<1>5. [i \in DOMAIN name |-> BrowserPiece(name[i])] =
        [i \in DOMAIN name |-> IF name[i] = 32 THEN <<43>> ELSE UrlEncoded(<<name[i]>>)]
  BY <1>4
<1> QED
  BY <1>2, <1>5, Zenon DEF FromBrowser

\* What a sender or a browser escaped is what it was, up to the '+' and to the escapes of
\* what is no ASCII character (http_content.cc:28).
THEOREM EscapesUndone ==
  ASSUME NEW name \in Seq(0..255)
  PROVE  /\ F!urldecode(UrlEncoded(name)) = Greeted(name, "form")
         /\ F!urldecode(FromBrowser(name)) = Greeted(name, "browser")
<1> DEFINE ins == [i \in DOMAIN name |-> Piece(name[i])]
           outs == [i \in DOMAIN name |-> Kept(name[i])]
           bins == [i \in DOMAIN name |-> BrowserPiece(name[i])]
           bouts == [i \in DOMAIN name |-> BrowserKept(name[i])]
<1>1. \A i \in DOMAIN name : name[i] \in 0..255
  BY ElementOfSeq, LenProperties, ZenonT(40)
<1>2. UrlEncoded(name) = FlattenSeq(ins) /\ FromBrowser(name) = FlattenSeq(bins)
  BY InPieces
<1>5. Greeted(name, "form") = FlattenSeq(outs)
  BY DEF Greeted, Kept
<1>6. Greeted(name, "browser") = FlattenSeq(bouts)
  <2>1. ASSUME NEW c \in 0..255 PROVE Plus(<<c>>) = <<IF c = 32 THEN 43 ELSE c>>
    BY DEF Plus
  <2>2. \A i \in DOMAIN name :
          BrowserKept(name[i]) = IF name[i] < 128 THEN Plus(<<name[i]>>) ELSE Escaped(name[i])
    BY <1>1, <2>1 DEF BrowserKept
  <2>3. bouts = [i \in DOMAIN name |-> IF name[i] < 128 THEN Plus(<<name[i]>>) ELSE Escaped(name[i])]
    BY <2>2
  <2> QED
    BY <2>3 DEF Greeted
<1>7. CASE name = <<>>
  <2>1. ins = <<>> /\ outs = <<>> /\ bins = <<>> /\ bouts = <<>>
    BY <1>7
  <2> QED
    BY <1>2, <1>5, <1>6, <2>1, NothingDecoded
<1>8. CASE name # <<>>
  <2>1. \A i \in DOMAIN name : Decodes(ins[i], outs[i]) /\ Decodes(bins[i], bouts[i])
    BY <1>1, PieceKept
  <2>2. /\ ins = [i \in DOMAIN name |-> ins[i]] /\ outs = [i \in DOMAIN name |-> outs[i]]
        /\ bins = [i \in DOMAIN name |-> bins[i]] /\ bouts = [i \in DOMAIN name |-> bouts[i]]
    OBVIOUS
  <2>3. UrlEncoded(name) = FlattenSeq(ins) /\ FromBrowser(name) = FlattenSeq(bins)
    BY <1>2
  <2> HIDE DEF ins, outs, bins, bouts
  <2>4. F!urldecode(FlattenSeq(ins)) = FlattenSeq(outs)
    BY <1>8, <2>1, <2>2, OfName
  <2>5. F!urldecode(FlattenSeq(bins)) = FlattenSeq(bouts)
    BY <1>8, <2>1, <2>2, OfName
  <2> QED
    BY <1>5, <1>6, <2>3, <2>4, <2>5
<1> QED
  BY <1>7, <1>8

-----------------------------------------------------------------------------
(* Forms: the tokens a text is split into.                                 *)

\* A character more of the text that is split.
SplitStep(text, c, f, i) ==
  IF i = 0 THEN << <<>> >>
  ELSE IF text[i] = c THEN Append(f[i - 1], <<>>)
  ELSE [f[i - 1] EXCEPT ![Len(f[i - 1])] = Append(@, text[i])]

\* f is the tokens of the first characters.
SplitBy(text, c, f) == \A i \in 0..Len(text) : f[i] = SplitStep(text, c, f, i)

\* SplitAt is the last value of such a function: there is one, as it only looks back.
LEMMA SplitsFromStart ==
  ASSUME NEW text, NEW c, Len(text) \in Nat
  PROVE  \E f : F!SplitAt(text, c) = f[Len(text)] /\ SplitBy(text, c, f)
<1> DEFINE n == Len(text)
           Split(f) == [i \in 0..n |-> SplitStep(text, c, f, i)]
           split == CHOOSE f : f = Split(f)
           Good(k) == \E g : \A i \in 0..(k - 1) : g[i] = SplitStep(text, c, g, i)
           G == {k \in 1..(n + 1) : Good(k)}
<1>1. F!SplitAt(text, c) = split[n]
  BY Zenon DEF F!SplitAt, SplitStep
<1>2. Good(1)
  <2> DEFINE g == [i \in 0..0 |-> << <<>> >>]
  <2>1. \A i \in 0..(1 - 1) : g[i] = SplitStep(text, c, g, i)
    BY DEF SplitStep
  <2> QED
    BY <2>1
<1>3. ASSUME NEW m \in 1..(n + 1), m # n + 1, Good(m)
      PROVE  Good(m + 1)
  <2>1. PICK g : \A i \in 0..(m - 1) : g[i] = SplitStep(text, c, g, i)
    BY <1>3
  <2> DEFINE h == [i \in 0..m |-> IF i = m THEN SplitStep(text, c, g, m) ELSE g[i]]
  <2>2. \A i \in 0..(m - 1) : h[i] = g[i]
    OBVIOUS
  <2>3. h[m] = SplitStep(text, c, g, m)
    <3>1. m \in 0..m
      OBVIOUS
    <3> QED
      BY <3>1
  <2> HIDE DEF h
  <2>4. ASSUME NEW i \in 0..m
        PROVE  h[i] = SplitStep(text, c, h, i)
    <3>1. i # 0 => i - 1 \in 0..(m - 1)
      OBVIOUS
    <3>2. SplitStep(text, c, h, i) = SplitStep(text, c, g, i)
      BY <2>2, <3>1 DEF SplitStep
    <3>3. i # m => i \in 0..(m - 1)
      OBVIOUS
    <3> QED
      BY <2>1, <2>2, <2>3, <3>2, <3>3
  <2>5. (m + 1) - 1 = m
    OBVIOUS
  <2> QED
    BY <2>4, <2>5
<1>4. Good(n + 1)
  <2>1. n + 1 \in Nat /\ 1 \in G /\ n + 1 \in 1..(n + 1)
    BY <1>2
  <2>2. \A m \in 1..(n + 1) : m # n + 1 /\ m \in G => m + 1 \in G
    <3> HIDE DEF Good
    <3> QED
      BY <1>3
  <2>3. \A m \in 1..(n + 1) : m \in G
    <3> HIDE DEF G, n
    <3> QED
      BY <2>1, <2>2, SetInduction
  <2> QED
    BY <2>1, <2>3
<1>5. PICK g : \A i \in 0..n : g[i] = SplitStep(text, c, g, i)
  <2>1. (n + 1) - 1 = n
    OBVIOUS
  <2> QED
    BY <1>4, <2>1
<1>6. [i \in 0..n |-> g[i]] = Split([i \in 0..n |-> g[i]])
  <2> DEFINE h == [i \in 0..n |-> g[i]]
  <2>1. ASSUME NEW i \in 0..n
        PROVE  SplitStep(text, c, h, i) = SplitStep(text, c, g, i)
    <3>1. i # 0 => h[i - 1] = g[i - 1]
      OBVIOUS
    <3> HIDE DEF h
    <3> QED
      BY <3>1 DEF SplitStep
  <2> QED
    BY <1>5, <2>1
<1>7. split = Split(split)
  BY <1>6
<1>8. SplitBy(text, c, split)
  <2> HIDE DEF split
  <2> QED
    BY <1>7 DEF SplitBy
<1> HIDE DEF split
<1> QED
  BY <1>1, <1>8

\* What is in a part of a text.
LEMMA PartOfText ==
  ASSUME NEW s \in Seq(Int), NEW a \in Nat, NEW b \in Nat, a <= b, b <= Len(s)
  PROVE  /\ SubSeq(s, a + 1, b) \in Seq(Int) /\ Len(SubSeq(s, a + 1, b)) = b - a
         /\ \A j \in 1..(b - a) : SubSeq(s, a + 1, b)[j] = s[a + j]
<1>1. \A j \in 1..(b - a) : a + j \in 1..Len(s)
  OBVIOUS
<1> QED
  BY <1>1

\* A part with the character after it.
LEMMA OneMore ==
  ASSUME NEW text \in Seq(Int), NEW a \in Nat, NEW k \in Nat, a <= k, k < Len(text)
  PROVE  Append(SubSeq(text, a + 1, k), text[k + 1]) = SubSeq(text, a + 1, k + 1)
<1>1. PICK s, x, r, t : /\ s = SubSeq(text, a + 1, k) /\ x = text[k + 1]
                        /\ r = Append(s, x) /\ t = SubSeq(text, a + 1, k + 1)
  OBVIOUS
<1>2. k + 1 \in 1..Len(text) /\ x \in Int
  BY <1>1
<1>3. s \in Seq(Int) /\ Len(s) = k - a /\ \A j \in 1..(k - a) : s[j] = text[a + j]
  BY <1>1, <1>2, PartOfText, SMTT(30)
<1>4. t \in Seq(Int) /\ Len(t) = (k + 1) - a /\ \A j \in 1..((k + 1) - a) : t[j] = text[a + j]
  <2>1. PICK b : b = k + 1 /\ b \in Nat /\ a <= b /\ b <= Len(text)
    BY <1>2
  <2>2. t = SubSeq(text, a + 1, b)
    BY <1>1, <2>1
  <2>3. t \in Seq(Int) /\ Len(t) = b - a /\ \A j \in 1..(b - a) : t[j] = text[a + j]
    BY <2>1, <2>2, PartOfText
  <2> QED
    BY <2>1, <2>3
<1>5. /\ r \in Seq(Int) /\ Len(r) = (k - a) + 1 /\ r[(k - a) + 1] = x
      /\ \A j \in 1..(k - a) : r[j] = s[j]
  BY <1>1, <1>2, <1>3, SMTT(30)
<1>6. (k - a) + 1 = (k + 1) - a /\ a + ((k - a) + 1) = k + 1
  OBVIOUS
<1>7. \A j \in 1..Len(r) : r[j] = t[j]
  <2> SUFFICES ASSUME NEW j \in 1..((k - a) + 1) PROVE r[j] = t[j]
    BY <1>5
  <2>1. CASE j = (k - a) + 1
    <3>1. r[j] = x
      BY <1>5, <2>1, Zenon
    <3>2. j \in 1..((k + 1) - a) /\ a + j = k + 1
      BY <1>6, <2>1
    <3>3. t[j] = text[k + 1]
      BY <1>4, <3>2, Zenon
    <3>4. x = text[k + 1]
      BY <1>1, Zenon
    <3> QED
      BY <3>1, <3>3, <3>4, Zenon
  <2>2. CASE j # (k - a) + 1
    <3>1. j \in 1..(k - a) /\ j \in 1..((k + 1) - a)
      BY <2>2
    <3> QED
      BY <1>3, <1>4, <1>5, <3>1
  <2> QED
    BY <2>1, <2>2
<1>8. r = t
  BY <1>4, <1>5, <1>6, <1>7, SeqEqual
<1> QED
  BY <1>1, <1>8

\* A part with the character before it.
LEMMA OneBefore ==
  ASSUME NEW text \in Seq(Int), NEW i \in 1..Len(text)
  PROVE  <<text[i]>> \o SubSeq(text, i + 1, Len(text)) = SubSeq(text, i, Len(text))
<1>1. PICK n, x, s, r, t : /\ n = Len(text) /\ x = <<text[i]>> /\ s = SubSeq(text, i + 1, n)
                           /\ r = x \o s /\ t = SubSeq(text, (i - 1) + 1, n)
  OBVIOUS
<1>2. n \in Nat /\ i - 1 \in Nat /\ i <= n /\ text[i] \in Int /\ (i - 1) + 1 = i
  BY <1>1
<1>3. s \in Seq(Int) /\ Len(s) = n - i /\ \A j \in 1..(n - i) : s[j] = text[i + j]
  BY <1>1, <1>2, PartOfText, SMTT(30)
<1>4. t \in Seq(Int) /\ Len(t) = n - (i - 1) /\ \A j \in 1..(n - (i - 1)) : t[j] = text[(i - 1) + j]
  BY <1>1, <1>2, PartOfText
<1>5. x \in Seq(Int) /\ Len(x) = 1 /\ x[1] = text[i]
  BY <1>1, <1>2
<1>6. /\ r \in Seq(Int) /\ Len(r) = 1 + (n - i)
      /\ \A j \in 1..(1 + (n - i)) : r[j] = IF j <= 1 THEN x[j] ELSE s[j - 1]
  BY <1>1, <1>3, <1>5, ConcatProperties
<1>7. \A j \in 1..Len(r) : r[j] = t[j]
  <2> SUFFICES ASSUME NEW j \in 1..(1 + (n - i)) PROVE r[j] = t[j]
    BY <1>6
  <2>0. j \in 1..(n - (i - 1))
    BY <1>2
  <2>1. CASE j = 1
    BY <1>2, <1>4, <1>5, <1>6, <2>0, <2>1
  <2>2. CASE j # 1
    <3>1. j - 1 \in 1..(n - i) /\ i + (j - 1) = (i - 1) + j
      BY <1>2, <2>2
    <3> QED
      BY <1>2, <1>3, <1>4, <1>6, <2>0, <2>2, <3>1
  <2> QED
    BY <2>1, <2>2
<1>8. Len(r) = Len(t)
  BY <1>2, <1>4, <1>6
<1>9. r = t
  BY <1>4, <1>6, <1>7, <1>8, SeqEqual
<1> QED
  BY <1>1, <1>2, <1>9

\* A character more of the last token.
LEMMA LastExtended ==
  ASSUME NEW T \in Seq(Seq(Int)), NEW s \in Seq(Int), NEW x \in Int
  PROVE  [Append(T, s) EXCEPT ![Len(Append(T, s))] = Append(@, x)] = Append(T, Append(s, x))
<1>1. PICK n, u, v, e : n = Len(T) /\ u = Append(T, s) /\ e = Append(s, x) /\ v = Append(T, e)
  OBVIOUS
<1>2. n \in Nat /\ e \in Seq(Int)
  BY <1>1
<1>3. u \in Seq(Seq(Int)) /\ Len(u) = n + 1 /\ u[n + 1] = s /\ \A j \in 1..n : u[j] = T[j]
  BY <1>1, <1>2
<1>4. v \in Seq(Seq(Int)) /\ Len(v) = n + 1 /\ v[n + 1] = e /\ \A j \in 1..n : v[j] = T[j]
  BY <1>1, <1>2
<1>5. PICK w : w = [u EXCEPT ![n + 1] = e]
  OBVIOUS
<1>6. n + 1 \in 1..Len(u)
  BY <1>2, <1>3
<1>7. w \in Seq(Seq(Int)) /\ Len(w) = n + 1 /\ \A j \in 1..(n + 1) : w[j] = IF j = n + 1 THEN e ELSE u[j]
  BY <1>2, <1>3, <1>5, <1>6, ExceptSeq
<1>8. \A j \in 1..(n + 1) : w[j] = v[j]
  <2> SUFFICES ASSUME NEW j \in 1..(n + 1) PROVE w[j] = v[j]
    OBVIOUS
  <2>1. CASE j = n + 1
    BY <1>4, <1>7, <2>1
  <2>2. CASE j # n + 1
    <3>1. j \in 1..n
      BY <1>2, <2>2
    <3> QED
      BY <1>3, <1>4, <1>7, <2>2, <3>1
  <2> QED
    BY <2>1, <2>2
<1>9. w = v
  BY <1>4, <1>7, <1>8, SeqEqual
<1> QED
  BY <1>1, <1>3, <1>5, <1>9

\* The characters after a up to b, and that they are no separator.
Slice(text, a, b) == SubSeq(text, a + 1, b)
NoneIn(text, c, a, b) == \A i \in (a + 1)..b : text[i] # c
AreTokens(T) == T \in Seq(Seq(Int))

\* A token begins after T; the one from a to b has been read.
Begins(f, T, a) == f[a] = Append(T, <<>>)
IsRead(f, T, text, a, b) == f[b] = Append(T, Slice(text, a, b))

\* The characters up to the next separator are one token more.
LEMMA TokenRead ==
  ASSUME NEW text \in Seq(Int), NEW c, NEW f, SplitBy(text, c, f),
         NEW T, AreTokens(T), NEW a \in Nat, NEW b \in Nat, a <= b, b <= Len(text),
         Begins(f, T, a), NoneIn(text, c, a, b)
  PROVE  IsRead(f, T, text, a, b)
<1>0. T \in Seq(Seq(Int)) /\ f[a] = Append(T, <<>>) /\ \A i \in (a + 1)..b : text[i] # c
  BY DEF AreTokens, Begins, NoneIn
<1> USE <1>0
<1> DEFINE Read(k) == f[k] = Append(T, SubSeq(text, a + 1, k))
           G == {k \in 1..((b - a) + 1) : Read((a + k) - 1)}
<1>1. Read(a)
  <2>1. SubSeq(text, a + 1, a) = <<>>
    OBVIOUS
  <2> QED
    BY <2>1
<1>2. ASSUME NEW k \in a..b, k # b, Read(k) PROVE Read(k + 1)
  <2>1. k + 1 \in 0..Len(text) /\ k + 1 # 0 /\ (k + 1) - 1 = k /\ k + 1 \in 1..Len(text)
        /\ text[k + 1] # c /\ text[k + 1] \in Int /\ k \in Nat
    BY <1>2, SMTT(30)
  <2>2. PICK s, x : s = SubSeq(text, a + 1, k) /\ x = text[k + 1]
    OBVIOUS
  <2>3. s \in Seq(Int) /\ x \in Int
    BY <2>1, <2>2
  <2>4. f[k + 1] = [f[k] EXCEPT ![Len(f[k])] = Append(@, x)]
    BY <2>1, <2>2 DEF SplitBy, SplitStep
  <2>5. f[k + 1] = Append(T, Append(s, x))
    <3>1. f[k] = Append(T, s)
      BY <1>2, <2>2
    <3> QED
      BY <2>3, <2>4, <3>1, LastExtended
  <2>6. Append(s, x) = SubSeq(text, a + 1, k + 1)
    <3>1. a <= k /\ k < Len(text)
      BY <1>2
    <3> QED
      BY <3>1, <2>1, <2>2, OneMore
  <2> QED
    BY <2>5, <2>6
<1>3. \A k \in 1..((b - a) + 1) : k \in G
  <2>1. PICK n : n = (b - a) + 1
    OBVIOUS
  <2>2. n \in Nat /\ n >= 1
    BY <2>1
  <2>3. 1 \in G
    BY <1>1
  <2>4. ASSUME NEW m \in 1..n, m # n, m \in G PROVE m + 1 \in G
    <3>1. PICK k : k = (a + m) - 1
      OBVIOUS
    <3>2. k \in a..b /\ k # b /\ (a + (m + 1)) - 1 = k + 1 /\ m + 1 \in 1..n
      BY <2>1, <2>4, <3>1
    <3>3. Read(k)
      BY <2>4, <3>1
    <3>4. Read(k + 1)
      BY <1>2, <3>2, <3>3
    <3> HIDE DEF Read
    <3> QED
      BY <2>1, <3>2, <3>4
  <2> HIDE DEF G
  <2> QED
    BY <2>1, <2>2, <2>3, <2>4, SetInduction
<1>4. (b - a) + 1 \in 1..((b - a) + 1) /\ (a + ((b - a) + 1)) - 1 = b
  OBVIOUS
<1>5. Read(b)
  <2> HIDE DEF Read
  <2> QED
    BY <1>3, <1>4
<1> QED
  BY <1>5 DEF IsRead, Slice

\* What is in a slice.
LEMMA InSlice ==
  ASSUME NEW s \in Seq(Int), NEW a \in Nat, NEW b \in Nat, a <= b, b <= Len(s)
  PROVE  /\ Slice(s, a, b) \in Seq(Int) /\ Len(Slice(s, a, b)) = b - a
         /\ \A j \in 1..(b - a) : Slice(s, a, b)[j] = s[a + j]
BY PartOfText DEF Slice

\* At a separator the next token begins.
LEMMA TokenEnds ==
  ASSUME NEW text, NEW c, NEW f, SplitBy(text, c, f), Len(text) \in Nat,
         NEW b \in Nat, b < Len(text), text[b + 1] = c
  PROVE  f[b + 1] = Append(f[b], <<>>)
<1>1. b + 1 \in 0..Len(text) /\ b + 1 # 0 /\ (b + 1) - 1 = b
  OBVIOUS
<1> QED
  BY <1>1 DEF SplitBy, SplitStep

\* A text without escapes is decoded to itself.
LEMMA PlainDecoded ==
  ASSUME NEW s \in Seq(Int), \A i \in 1..Len(s) : s[i] # F!Percent
  PROVE  F!urldecode(s) = s
<1>1. PICK n : n = Len(s) /\ n \in Nat
  OBVIOUS
<1>2. PICK f : F!urldecode(s) = f[1] /\ DecodedBy(s, f)
  BY DecodesFromEnd
<1> DEFINE Left(i) == f[i] = SubSeq(s, i, n)
           G == {k \in 1..(n + 1) : Left((n + 2) - k)}
<1>3. Left(n + 1)
  <2>1. n + 1 \in 1..(Len(s) + 3) /\ n + 1 > Len(s)
    BY <1>1
  <2>2. f[n + 1] = <<>>
    BY <1>2, <2>1 DEF DecodedBy, Decoding
  <2>3. SubSeq(s, n + 1, n) = <<>>
    BY <1>1
  <2> QED
    BY <2>2, <2>3
<1>4. ASSUME NEW i \in 1..n, Left(i + 1) PROVE Left(i)
  <2>1. i \in 1..(Len(s) + 3) /\ ~(i > Len(s)) /\ s[i] # F!Percent /\ s[i] \in Int
    BY <1>1
  <2>2. f[i] = <<s[i]>> \o SubSeq(s, i + 1, n)
    BY <1>2, <1>4, <2>1 DEF DecodedBy, Decoding
  <2>3. <<s[i]>> \o SubSeq(s, i + 1, n) = SubSeq(s, i, n)
    BY <1>1, OneBefore
  <2> QED
    BY <2>2, <2>3
<1>5. \A k \in 1..(n + 1) : k \in G
  <2>1. n + 1 \in Nat /\ 1 \in G
    BY <1>1, <1>3
  <2>2. ASSUME NEW m \in 1..(n + 1), m # n + 1, m \in G PROVE m + 1 \in G
    <3>1. PICK i : i = (n + 2) - (m + 1)
      OBVIOUS
    <3>2. i \in 1..n /\ (n + 2) - m = i + 1 /\ m + 1 \in 1..(n + 1)
      BY <1>1, <2>2, <3>1
    <3>3. Left(i + 1)
      BY <2>2, <3>2
    <3>4. Left(i)
      BY <1>4, <3>2, <3>3
    <3> HIDE DEF Left
    <3> QED
      BY <3>1, <3>2, <3>4
  <2> HIDE DEF G
  <2> QED
    BY <2>1, <2>2, SetInduction
<1>6. Left(1)
  <2>1. n + 1 \in 1..(n + 1) /\ (n + 2) - (n + 1) = 1
    BY <1>1
  <2> HIDE DEF Left
  <2> QED
    BY <1>5, <2>1
<1>7. SubSeq(s, 1, n) = s
  BY <1>1
<1> QED
  BY <1>2, <1>6, <1>7

-----------------------------------------------------------------------------
(* Forms: a form with a name in it.                                        *)

\* What is in two texts, one after the other.
HasLength(s, a) == s \in Seq(Int) /\ a \in Nat /\ Len(s) = a
IsBoth(r, s, a, t, b) ==
  /\ r \in Seq(Int) /\ Len(r) = a + b
  /\ \A j \in 1..a : r[j] = s[j]
  /\ \A j \in 1..b : r[a + j] = t[j]

\* Each character of both is at its place in the whole.
LEMMA TwoTexts ==
  ASSUME NEW s, NEW t, NEW a, NEW b, HasLength(s, a), HasLength(t, b)
  PROVE  IsBoth(s \o t, s, a, t, b)
<1>0. PICK r : r = s \o t
  OBVIOUS
<1>1. /\ r \in Seq(Int) /\ Len(r) = a + b
      /\ \A j \in 1..(a + b) : r[j] = IF j <= a THEN s[j] ELSE t[j - a]
  BY <1>0, ConcatProperties DEF HasLength
<1>2. ASSUME NEW j \in 1..a PROVE r[j] = s[j]
  BY <1>1 DEF HasLength
<1>3. ASSUME NEW j \in 1..b PROVE r[a + j] = t[j]
  <2>1. a + j \in 1..(a + b) /\ ~(a + j <= a) /\ (a + j) - a = j
    BY DEF HasLength
  <2> QED
    BY <1>1, <2>1
<1> QED
  BY <1>0, <1>1, <1>2, <1>3 DEF IsBoth

\* "id=1&name=" ...
IsHead(text) ==
  /\ text[1] = 105 /\ text[2] = 100 /\ text[3] = 61 /\ text[4] = 49 /\ text[5] = 38
  /\ text[6] = 110 /\ text[7] = 97 /\ text[8] = 109 /\ text[9] = 101 /\ text[10] = 61

\* ... and the value v of l characters less ten, and what may come after it.
HasAt(text, k, n, v) == \A j \in 1..n : text[k + j] = v[j]
IsQuery(text, v, l, rest) ==
  /\ text \in Seq(Int) /\ l \in Nat /\ l = 10 + Len(v) /\ Len(text) = l + Len(rest)
  /\ IsHead(text) /\ HasAt(text, 10, Len(v), v) /\ HasAt(text, l, Len(rest), rest)

\* "&name=x"
LEMMA InAgain ==
  /\ Again \in Seq(Int) /\ Len(Again) = 7
  /\ Again[1] = 38 /\ Again[2] = 110 /\ Again[3] = 97 /\ Again[4] = 109
  /\ Again[5] = 101 /\ Again[6] = 61 /\ Again[7] = 120
<1>1. PICK x, y, z, xy, r : /\ x = <<38>> /\ y = <<110, 97, 109, 101>> /\ z = <<61, 120>>
                            /\ xy = x \o y /\ r = xy \o z
  OBVIOUS
<1>2. HasLength(x, 1) /\ HasLength(y, 4) /\ HasLength(z, 2)
  BY <1>1 DEF HasLength
<1>3. IsBoth(xy, x, 1, y, 4)
  BY <1>1, <1>2, TwoTexts
<1>4. HasLength(xy, 5)
  BY <1>3 DEF HasLength, IsBoth
<1>5. IsBoth(r, xy, 5, z, 2)
  BY <1>1, <1>2, <1>4, TwoTexts
<1>6. /\ \A j \in 1..1 : xy[j] = x[j]
      /\ \A j \in 1..4 : xy[1 + j] = y[j]
  BY <1>3 DEF IsBoth
<1>9. /\ r \in Seq(Int) /\ Len(r) = 7 /\ \A j \in 1..5 : r[j] = xy[j]
      /\ \A j \in 1..2 : r[5 + j] = z[j]
  BY <1>5 DEF IsBoth
<1>10. r[1] = xy[1] /\ r[2] = xy[2] /\ r[3] = xy[3] /\ r[4] = xy[4] /\ r[5] = xy[5]
  BY <1>9
<1>11. r[6] = z[1] /\ r[7] = z[2]
  BY <1>9
<1>12. xy[1] = x[1] /\ xy[2] = y[1] /\ xy[3] = y[2] /\ xy[4] = y[3] /\ xy[5] = y[4]
  BY <1>6
<1>13. x[1] = 38 /\ y[1] = 110 /\ y[2] = 97 /\ y[3] = 109 /\ y[4] = 101 /\ z[1] = 61 /\ z[2] = 120
  BY <1>1
<1>14. r = Again
  BY <1>1 DEF Again, NameKey
<1> QED
  BY <1>9, <1>10, <1>11, <1>12, <1>13, <1>14

\* The text of a form is put together so.
LEMMA QueryText ==
  ASSUME NEW v \in Seq(Int)
  PROVE  /\ IsQuery(Query(v), v, 10 + Len(v), <<>>)
         /\ IsQuery(Query(v) \o Again, v, 10 + Len(v), Again)
<1>1. PICK p : p = <<105, 100, 61, 49, 38>> \o NameKey \o <<61>>
  OBVIOUS
<1>2. p \in Seq(Int) /\ Len(p) = 10 /\ IsHead(p)
  <2>1. PICK x, y, z, xy : /\ x = <<105, 100, 61, 49, 38>> /\ y = <<110, 97, 109, 101>>
                           /\ z = <<61>> /\ xy = x \o y
    OBVIOUS
  <2>2. HasLength(x, 5) /\ HasLength(y, 4) /\ HasLength(z, 1)
    BY <2>1 DEF HasLength
  <2>3. IsBoth(xy, x, 5, y, 4)
    BY <2>1, <2>2, TwoTexts
  <2>4. HasLength(xy, 9)
    BY <2>3 DEF HasLength, IsBoth
  <2>5. p = xy \o z
    BY <1>1, <2>1 DEF NameKey
  <2>6. IsBoth(p, xy, 9, z, 1)
    BY <2>2, <2>4, <2>5, TwoTexts
  <2>7. (\A j \in 1..5 : xy[j] = x[j]) /\ \A j \in 1..4 : xy[5 + j] = y[j]
    BY <2>3 DEF IsBoth
  <2>10. /\ p \in Seq(Int) /\ Len(p) = 10 /\ \A j \in 1..9 : p[j] = xy[j]
         /\ \A j \in 1..1 : p[9 + j] = z[j]
    BY <2>6 DEF IsBoth
  <2>11. /\ p[1] = xy[1] /\ p[2] = xy[2] /\ p[3] = xy[3] /\ p[4] = xy[4] /\ p[5] = xy[5]
         /\ p[6] = xy[6] /\ p[7] = xy[7] /\ p[8] = xy[8] /\ p[9] = xy[9] /\ p[10] = z[1]
    BY <2>10
  <2>12. xy[1] = x[1] /\ xy[2] = x[2] /\ xy[3] = x[3] /\ xy[4] = x[4] /\ xy[5] = x[5]
    BY <2>7
  <2>13. xy[6] = y[1] /\ xy[7] = y[2] /\ xy[8] = y[3] /\ xy[9] = y[4]
    BY <2>7
  <2>14. /\ x[1] = 105 /\ x[2] = 100 /\ x[3] = 61 /\ x[4] = 49 /\ x[5] = 38
         /\ y[1] = 110 /\ y[2] = 97 /\ y[3] = 109 /\ y[4] = 101 /\ z[1] = 61
    BY <2>1
  <2>15. IsHead(p)
    BY <2>11, <2>12, <2>13, <2>14 DEF IsHead
  <2> QED
    BY <2>10, <2>15
<1>3. Query(v) = p \o v
  BY <1>1 DEF Query
<1>4. PICK q, n, ten, l : q = p \o v /\ n = Len(v) /\ ten = 10 /\ l = ten + n
  OBVIOUS
<1>5. HasLength(p, ten) /\ HasLength(v, n) /\ n \in Nat /\ l \in Nat
  BY <1>2, <1>4 DEF HasLength
<1>6. /\ q \in Seq(Int) /\ Len(q) = ten + n /\ \A j \in 1..ten : q[j] = p[j]
      /\ \A j \in 1..n : q[ten + j] = v[j]
  <2>1. IsBoth(q, p, ten, v, n)
    BY <1>4, <1>5, TwoTexts
  <2> QED
    BY <2>1 DEF IsBoth
<1>7. IsHead(q)
  <2>1. \A j \in 1..10 : q[j] = p[j]
    BY <1>4, <1>6
  <2>2. /\ q[1] = p[1] /\ q[2] = p[2] /\ q[3] = p[3] /\ q[4] = p[4] /\ q[5] = p[5]
        /\ q[6] = p[6] /\ q[7] = p[7] /\ q[8] = p[8] /\ q[9] = p[9] /\ q[10] = p[10]
    BY <2>1
  <2> QED
    BY <1>2, <2>2 DEF IsHead
<1>8. IsQuery(q, v, 10 + Len(v), <<>>)
  <2>1. HasAt(q, 10, Len(v), v)
    BY <1>4, <1>6 DEF HasAt
  <2>2. Len(<<>>) = 0 /\ HasAt(q, 10 + Len(v), Len(<<>>), <<>>)
    BY DEF HasAt
  <2>3. q \in Seq(Int) /\ 10 + Len(v) \in Nat /\ Len(q) = (10 + Len(v)) + Len(<<>>)
    BY <1>4, <1>5, <1>6, <2>2
  <2> QED
    BY <1>7, <2>1, <2>2, <2>3 DEF IsQuery
<1>9. PICK a, m, r : a = Again /\ m = Len(a) /\ r = q \o a
  OBVIOUS
<1>10. a \in Seq(Int) /\ m \in Nat
  BY <1>9, InAgain
<1>11. HasLength(q, l) /\ HasLength(a, m)
  BY <1>4, <1>5, <1>6, <1>9, <1>10 DEF HasLength
<1>12. /\ r \in Seq(Int) /\ Len(r) = l + m /\ \A j \in 1..l : r[j] = q[j]
       /\ \A j \in 1..m : r[l + j] = a[j]
  <2>1. IsBoth(r, q, l, a, m)
    BY <1>9, <1>11, TwoTexts
  <2> QED
    BY <2>1 DEF IsBoth
<1>13. IsHead(r)
  <2>1. \A j \in 1..10 : j \in 1..l
    BY <1>4, <1>5
  <2>2. \A j \in 1..10 : r[j] = q[j]
    BY <1>12, <2>1
  <2>3. /\ r[1] = q[1] /\ r[2] = q[2] /\ r[3] = q[3] /\ r[4] = q[4] /\ r[5] = q[5]
        /\ r[6] = q[6] /\ r[7] = q[7] /\ r[8] = q[8] /\ r[9] = q[9] /\ r[10] = q[10]
    BY <2>2
  <2> QED
    BY <1>7, <2>3 DEF IsHead
<1>14. IsQuery(r, v, 10 + Len(v), a)
  <2>1. HasAt(r, 10, Len(v), v)
    <3>1. ASSUME NEW j \in 1..n PROVE r[10 + j] = v[j]
      <4>1. 10 + j \in 1..l
        BY <1>4, <1>5
      <4>2. r[10 + j] = q[10 + j]
        BY <1>12, <4>1
      <4>3. q[10 + j] = v[j]
        BY <1>4, <1>6
      <4> QED
        BY <4>2, <4>3
    <3> QED
      BY <1>4, <3>1 DEF HasAt
  <2>2. HasAt(r, 10 + Len(v), Len(a), a)
    BY <1>4, <1>9, <1>12 DEF HasAt
  <2>3. r \in Seq(Int) /\ 10 + Len(v) \in Nat /\ Len(r) = (10 + Len(v)) + Len(a)
    BY <1>4, <1>5, <1>9, <1>12
  <2> QED
    BY <1>13, <2>1, <2>2, <2>3 DEF IsQuery
<1> QED
  BY <1>3, <1>4, <1>8, <1>9, <1>14

\* Two tokens, and maybe a third.
Tokens2(T, x, y) == AreTokens(T) /\ Len(T) \in Nat /\ Len(T) >= 2 /\ T[1] = x /\ T[2] = y

\* A last token that is not empty is one of the tokens.
LEMMA TokensAre ==
  ASSUME NEW text, NEW T, AreTokens(T), NEW t \in Seq(Int), Len(t) > 0,
         F!SplitAt(text, F!Ampersand) = Append(T, t)
  PROVE  F!Tokens(text) = Append(T, t)
<1>1. PICK n, u : n = Len(T) /\ u = Append(T, t)
  OBVIOUS
<1>2. T \in Seq(Seq(Int)) /\ n \in Nat
  BY <1>1 DEF AreTokens
<1>3. Len(u) = n + 1 /\ u[n + 1] = t
  BY <1>1, <1>2
<1>4. F!Last(u) = t
  BY <1>3 DEF F!Last
<1>5. t # <<>>
  OBVIOUS
<1> QED
  BY Zenon, <1>1, <1>4, <1>5 DEF F!Tokens

\* The tokens of a form: the first ends at the first '&', the second is the name with its
\* value, which has none.
LEMMA QueryTokens ==
  ASSUME NEW v \in Seq(Int), \A j \in 1..Len(v) : v[j] # F!Ampersand,
         NEW rest \in {<<>>, Again}, NEW text, NEW l, IsQuery(text, v, l, rest)
  PROVE  Tokens2(F!Tokens(text), Slice(text, 0, 4), Slice(text, 5, l))
<1>1. PICK n, m, k : n = Len(text) /\ m = Len(v) /\ k = Len(rest)
  OBVIOUS
<1>2. m \in Nat /\ k \in {0, 7} /\ (rest = <<>> => k = 0) /\ (rest = Again => k = 7)
  <2>1. rest = <<>> => k = 0
    BY <1>1
  <2>2. rest = Again => k = 7
    BY <1>1, InAgain
  <2>3. m \in Nat
    BY <1>1
  <2> QED
    BY <2>1, <2>2, <2>3
<1>3. /\ text \in Seq(Int) /\ l \in Nat /\ l = 10 + m /\ n = l + k /\ n \in Nat
      /\ IsHead(text) /\ HasAt(text, 10, m, v) /\ HasAt(text, l, k, rest)
  BY <1>1 DEF IsQuery
<1>4. PICK f : F!SplitAt(text, F!Ampersand) = f[n] /\ SplitBy(text, F!Ampersand, f)
  BY <1>1, <1>3, SplitsFromStart
<1>5. PICK t1, t2, amp, zero, four, five : /\ t1 = Slice(text, 0, 4) /\ t2 = Slice(text, 5, l)
                                           /\ amp = F!Ampersand
                                           /\ zero = 0 /\ four = 4 /\ five = 5
  OBVIOUS
<1>6. /\ zero \in Nat /\ four \in Nat /\ five \in Nat /\ zero <= four /\ four <= n /\ four < n
      /\ five <= l /\ l <= n /\ text \in Seq(Int) /\ l \in Nat /\ n = Len(text) /\ Len(text) \in Nat
      /\ four <= Len(text) /\ four < Len(text) /\ l <= Len(text)
      /\ t1 = Slice(text, zero, four) /\ t2 = Slice(text, five, l) /\ SplitBy(text, amp, f)
  BY <1>1, <1>2, <1>3, <1>4, <1>5
<1>7. t1 \in Seq(Int) /\ t2 \in Seq(Int) /\ Len(t2) = l - 5
  <2>1. t1 \in Seq(Int)
    BY <1>6, InSlice
  <2>2. t2 \in Seq(Int) /\ Len(t2) = l - five
    BY <1>6, InSlice
  <2> QED
    BY <1>5, <2>1, <2>2
<1>8. PICK T0, T1, T2 : T0 = <<>> /\ T1 = Append(T0, t1) /\ T2 = Append(T1, t2)
  OBVIOUS
<1>9. AreTokens(T0) /\ Len(T0) = 0
  BY <1>8 DEF AreTokens
<1>10. AreTokens(T1) /\ Len(T1) = 1 /\ T1[1] = t1
  BY <1>7, <1>8, <1>9 DEF AreTokens
<1>11. AreTokens(T2) /\ Len(T2) = 2 /\ T2[1] = t1 /\ T2[2] = t2
  BY <1>7, <1>8, <1>10 DEF AreTokens
<1>12. f[0] = Append(T0, <<>>)
  <2>1. 0 \in 0..Len(text)
    BY <1>1, <1>3
  <2>2. f[0] = << <<>> >>
    BY Zenon, <1>4, <2>1 DEF SplitBy, SplitStep
  <2>3. Append(<<>>, <<>>) = << <<>> >>
    OBVIOUS
  <2> QED
    BY Zenon, <1>8, <2>2, <2>3
<1>13. f[4] = T1
  <2>1. NoneIn(text, F!Ampersand, 0, 4)
    <3>1. \A i \in (0 + 1)..4 : i = 1 \/ i = 2 \/ i = 3 \/ i = 4
      OBVIOUS
    <3>2. text[1] # 38 /\ text[2] # 38 /\ text[3] # 38 /\ text[4] # 38
      <4>1. text[1] = 105 /\ text[2] = 100 /\ text[3] = 61 /\ text[4] = 49
        BY Zenon, <1>3 DEF IsHead
      <4> QED
        BY <4>1
    <3> QED
      BY Zenon, <3>1, <3>2 DEF NoneIn, F!Ampersand
  <2>2. NoneIn(text, amp, zero, four) /\ Begins(f, T0, zero)
    BY <1>5, <1>12, <2>1 DEF Begins
  <2>3. IsRead(f, T0, text, zero, four)
    BY <1>6, <1>9, <2>2, TokenRead
  <2> QED
    BY <1>5, <1>6, <1>8, <2>3 DEF IsRead
<1>14. f[5] = Append(T1, <<>>)
  <2>1. text[4 + 1] = F!Ampersand
    BY <1>3 DEF IsHead, F!Ampersand
  <2>2. text[four + 1] = amp
    BY <1>5, <2>1
  <2>3. f[four + 1] = Append(f[four], <<>>)
    BY <1>6, <2>2, TokenEnds, ZenonT(40)
  <2> QED
    BY <1>5, <1>13, <2>3
<1>15. f[l] = T2
  <2>1. ASSUME NEW i \in (5 + 1)..l PROVE text[i] # F!Ampersand
    <3>1. CASE i <= 10
      <4>1. i = 6 \/ i = 7 \/ i = 8 \/ i = 9 \/ i = 10
        BY <1>3, <3>1
      <4>2. text[6] # 38 /\ text[7] # 38 /\ text[8] # 38 /\ text[9] # 38 /\ text[10] # 38
        <5>1. text[6] = 110 /\ text[7] = 97 /\ text[8] = 109 /\ text[9] = 101 /\ text[10] = 61
          BY Zenon, <1>3 DEF IsHead
        <5> QED
          BY <5>1
      <4> QED
        BY Zenon, <4>1, <4>2 DEF F!Ampersand
    <3>2. CASE ~(i <= 10)
      <4>1. PICK j : j = i - 10
        OBVIOUS
      <4>2. j \in 1..m /\ 10 + j = i
        BY <1>2, <1>3, <3>2, <4>1
      <4>3. text[10 + j] = v[j]
        BY <1>3, <4>2 DEF HasAt
      <4> QED
        BY <1>1, <4>2, <4>3
    <3> QED
      BY <3>1, <3>2
  <2>2. NoneIn(text, F!Ampersand, 5, l)
    BY <2>1 DEF NoneIn
  <2>3. NoneIn(text, amp, five, l) /\ Begins(f, T1, five)
    BY <1>5, <1>14, <2>2 DEF Begins
  <2>4. IsRead(f, T1, text, five, l)
    BY <1>6, <1>10, <2>3, TokenRead
  <2> QED
    BY <1>6, <1>8, <2>4 DEF IsRead
<1>16. CASE rest = <<>>
  <2>1. n = l
    BY <1>2, <1>3, <1>16
  <2>2. F!SplitAt(text, F!Ampersand) = Append(T1, t2)
    BY <1>4, <1>8, <1>15, <2>1
  <2>3. Len(t2) > 0
    BY <1>2, <1>3, <1>7
  <2>4. F!Tokens(text) = T2
    BY <1>7, <1>8, <1>10, <2>2, <2>3, TokensAre
  <2> QED
    <3>1. Len(T2) \in Nat /\ Len(T2) >= 2
      BY <1>11
    <3> QED
      BY Zenon, <1>5, <1>11, <2>4, <3>1 DEF Tokens2
<1>17. CASE rest = Again
  <2>1. PICK a, t3, T3 : a = l + 1 /\ t3 = Slice(text, a, n) /\ T3 = Append(T2, t3)
    OBVIOUS
  <2>2. /\ rest[1] = 38 /\ rest[2] = 110 /\ rest[3] = 97 /\ rest[4] = 109
        /\ rest[5] = 101 /\ rest[6] = 61 /\ rest[7] = 120
    BY <1>17, InAgain
  <2>3. k = 7 /\ n = l + 7
    BY <1>2, <1>3, <1>17
  <2>4. /\ text[l + 1] = 38 /\ text[l + 2] = 110 /\ text[l + 3] = 97 /\ text[l + 4] = 109
        /\ text[l + 5] = 101 /\ text[l + 6] = 61 /\ text[l + 7] = 120
    <3>1. \A j \in 1..7 : text[l + j] = rest[j]
      BY <1>3, <2>3 DEF HasAt
    <3>2. /\ text[l + 1] = rest[1] /\ text[l + 2] = rest[2] /\ text[l + 3] = rest[3]
          /\ text[l + 4] = rest[4] /\ text[l + 5] = rest[5] /\ text[l + 6] = rest[6]
          /\ text[l + 7] = rest[7]
      BY <3>1
    <3> QED
      BY <2>2, <3>2
  <2>5. /\ a \in Nat /\ a <= n /\ l < n /\ n \in Nat /\ a <= Len(text) /\ n <= Len(text)
        /\ l < Len(text) /\ t3 = Slice(text, a, n)
    BY <1>1, <1>3, <2>1, <2>3
  <2>6. t3 \in Seq(Int) /\ Len(t3) > 0
    <3>1. t3 \in Seq(Int) /\ Len(t3) = n - a
      BY <1>6, <2>5, InSlice
    <3> QED
      BY <1>3, <2>1, <2>3, <3>1, SMTT(30)
  <2>7. f[a] = Append(T2, <<>>)
    <3>1. text[l + 1] = F!Ampersand
      BY <2>4 DEF F!Ampersand
    <3>2. text[l + 1] = amp
      BY <1>5, <3>1
    <3>3. f[l + 1] = Append(f[l], <<>>)
      BY <1>6, <2>5, <3>2, TokenEnds
    <3> QED
      BY <1>15, <2>1, <3>3
  <2>8. f[n] = T3
    <3>1. ASSUME NEW i \in (a + 1)..n PROVE text[i] # F!Ampersand
      <4>1. i = l + 2 \/ i = l + 3 \/ i = l + 4 \/ i = l + 5 \/ i = l + 6 \/ i = l + 7
        <5>1. i \in Int /\ a + 1 <= i /\ i <= n
          BY <2>5
        <5>2. l \in Nat /\ a = l + 1 /\ n = l + 7
          BY <1>3, <2>1, <2>3
        <5> QED
          BY <5>1, <5>2
      <4> QED
        BY <2>4, <4>1 DEF F!Ampersand
    <3>2. NoneIn(text, F!Ampersand, a, n)
      BY <3>1 DEF NoneIn
    <3>3. NoneIn(text, amp, a, n) /\ Begins(f, T2, a)
      BY <1>5, <2>7, <3>2 DEF Begins
    <3>4. IsRead(f, T2, text, a, n)
      BY <1>6, <1>11, <2>5, <3>3, TokenRead
    <3> QED
      BY <2>1, <3>4 DEF IsRead
  <2>9. F!Tokens(text) = T3
    <3>1. F!SplitAt(text, F!Ampersand) = Append(T2, t3)
      BY <1>4, <2>1, <2>8
    <3>2. F!Tokens(text) = Append(T2, t3)
      BY <1>11, <2>6, <3>1, TokensAre
    <3> QED
      BY <2>1, <3>2
  <2>10. AreTokens(T3) /\ Len(T3) = 3 /\ T3[1] = t1 /\ T3[2] = t2
    <3>1. T2 \in Seq(Seq(Int)) /\ Len(T2) = 2 /\ t3 \in Seq(Int) /\ T3 = Append(T2, t3)
      BY <1>11, <2>1, <2>6 DEF AreTokens
    <3>2. T3 \in Seq(Seq(Int)) /\ Len(T3) = 3 /\ T3[1] = T2[1] /\ T3[2] = T2[2]
      <4>1. T3 \in Seq(Seq(Int))
        BY <3>1
      <4>2. PICK c : c = Len(T2)
        OBVIOUS
      <4>3. Len(T3) = c + 1 /\ \A j \in 1..c : T3[j] = T2[j]
        <5>1. T2 \in Seq(Seq(Int)) /\ t3 \in Seq(Int) /\ T3 = Append(T2, t3) /\ c \in Nat
          BY <3>1, <4>2
        <5> QED
          BY <4>2, <5>1
      <4>4. 1 \in 1..c /\ 2 \in 1..c /\ c + 1 = 3
        BY <3>1, <4>2
      <4> QED
        BY <4>1, <4>3, <4>4
    <3> QED
      BY <1>11, <3>2 DEF AreTokens
  <2> QED
    BY <1>5, <2>9, <2>10 DEF Tokens2
<1> QED
  BY <1>16, <1>17

\* t is what is in s after a up to b.
IsSlice(t, s, a, b) ==
  t \in Seq(Int) /\ Len(t) = b - a /\ \A j \in 1..(b - a) : t[j] = s[a + j]

\* So is the slice.
LEMMA Sliced ==
  ASSUME NEW s \in Seq(Int), NEW a \in Nat, NEW b \in Nat, a <= b, b <= Len(s)
  PROVE  IsSlice(Slice(s, a, b), s, a, b)
BY InSlice DEF IsSlice

\* The least of a set of numbers.
LEMMA Least ==
  ASSUME NEW I \in SUBSET Int, NEW k \in I, \A y \in I : k <= y
  PROVE  F!Min(I) = k
<1>1. PICK m : m = F!Min(I)
  OBVIOUS
<1>2. m = CHOOSE x \in I : \A y \in I : x <= y
  BY <1>1 DEF F!Min
<1>3. m \in I /\ \A y \in I : m <= y
  BY Zenon, <1>2
<1>4. m <= k /\ k <= m /\ m \in Int /\ k \in Int
  BY <1>3
<1>5. m = k
  BY <1>4
<1> QED
  BY <1>1, <1>5

\* Where a token is cut, and its key.
Cut(tk) == F!SelectInSeq(tk, LAMBDA c : c = F!Equals)
KeyOf(tk) == F!urldecode(IF Cut(tk) = 0 THEN tk ELSE SubSeq(tk, 1, Cut(tk) - 1))

\* A token is cut at its first '='.
LEMMA CutAt ==
  ASSUME NEW t \in Seq(Int), NEW k \in 1..Len(t), t[k] = F!Equals,
         \A j \in 1..Len(t) : t[j] = F!Equals => k <= j
  PROVE  Cut(t) = k
<1> DEFINE I == {i \in 1..Len(t) : t[i] = F!Equals}
<1>1. k \in I /\ (\A y \in I : k <= y) /\ I \in SUBSET Int
  OBVIOUS
<1>2. Cut(t) = IF I # {} THEN F!Min(I) ELSE 0
  BY Zenon DEF Cut, F!SelectInSeq
<1>3. F!Min(I) = k
  <2> HIDE DEF I
  <2> QED
    BY <1>1, Least
<1>4. I # {}
  BY <1>1
<1> QED
  BY <1>2, <1>3, <1>4

\* Of the tokens the first counts that has the key.
LEMMA FirstWithKey ==
  ASSUME NEW text, NEW key, NEW T, T = F!Tokens(text), Len(T) \in Nat, Len(T) >= 2,
         KeyOf(T[1]) # key, KeyOf(T[2]) = key
  PROVE  F!parse_www_form_urlencoded(text, key) =
           F!urldecode(SubSeq(T[2], Cut(T[2]) + 1, Len(T[2])))
<1> DEFINE at == F!SelectInSeq(T, LAMBDA tk : KeyOf(tk) = key)
           I == {i \in 1..Len(T) : KeyOf(T[i]) = key}
<1>1. F!parse_www_form_urlencoded(text, key) =
        IF at = 0 THEN <<>> ELSE F!urldecode(SubSeq(T[at], Cut(T[at]) + 1, Len(T[at])))
  BY Zenon DEF F!parse_www_form_urlencoded, KeyOf, Cut
<1>2. at = IF I # {} THEN F!Min(I) ELSE 0
  BY Zenon DEF F!SelectInSeq
<1>3. 2 \in I /\ (\A y \in I : 2 <= y) /\ I \in SUBSET Int
  <2>1. 2 \in 1..Len(T) /\ \A y \in 1..Len(T) : y # 1 => 2 <= y
    OBVIOUS
  <2>2. \A y \in I : y # 1
    OBVIOUS
  <2> QED
    BY <2>1, <2>2
<1>4. F!Min(I) = 2
  <2> HIDE DEF I
  <2> QED
    BY <1>3, Least
<1>5. at = 2
  <2> HIDE DEF at
  <2> QED
    BY <1>2, <1>3, <1>4
<1> HIDE DEF at
<1> QED
  BY <1>1, <1>5

\* Of a form the value of the name is decoded, whatever comes after it.
LEMMA NameFound ==
  ASSUME NEW v \in Seq(Int), \A j \in 1..Len(v) : v[j] # F!Ampersand,
         NEW rest \in {<<>>, Again}, NEW text, NEW l, IsQuery(text, v, l, rest)
  PROVE  F!parse_www_form_urlencoded(text, NameKey) = F!urldecode(v)
<1>1. PICK T, m : T = F!Tokens(text) /\ m = Len(v)
  OBVIOUS
<1>2. Tokens2(T, Slice(text, 0, 4), Slice(text, 5, l))
  BY <1>1, QueryTokens
<1>3. /\ m \in Nat /\ l = 10 + m /\ l \in Nat /\ text \in Seq(Int) /\ Len(text) \in Nat
      /\ IsHead(text) /\ \A j \in 1..m : text[10 + j] = v[j]
  BY <1>1 DEF IsQuery, HasAt
<1>4. l <= Len(text)
  <2>1. Len(<<>>) = 0 /\ Len(Again) = 7
    BY InAgain
  <2>2. Len(rest) \in Nat
    BY <2>1
  <2> QED
    BY <1>3, <2>2 DEF IsQuery
<1>5. PICK t1, t2 : t1 = Slice(text, 0, 4) /\ t2 = Slice(text, 5, l)
  OBVIOUS
<1>6. T[1] = t1 /\ T[2] = t2 /\ Len(T) \in Nat /\ Len(T) >= 2
  BY <1>2, <1>5 DEF Tokens2
<1>7. t1 \in Seq(Int) /\ Len(t1) = 4 /\ \A j \in 1..4 : t1[j] = text[0 + j]
  <2>1. 0 \in Nat /\ 4 \in Nat /\ 0 <= 4 /\ 4 <= Len(text)
    BY <1>3, <1>4
  <2>2. IsSlice(t1, text, 0, 4)
    BY <1>3, <1>5, <2>1, Sliced
  <2> QED
    BY <2>2 DEF IsSlice
<1>8. t2 \in Seq(Int) /\ Len(t2) = l - 5 /\ \A j \in 1..(l - 5) : t2[j] = text[5 + j]
  <2>1. 5 \in Nat /\ 5 <= l
    BY <1>3
  <2>2. IsSlice(t2, text, 5, l)
    BY <1>3, <1>4, <1>5, <2>1, Sliced
  <2> QED
    BY <2>2 DEF IsSlice
<1>9. t1[1] = 105 /\ t1[2] = 100 /\ t1[3] = 61
  <2>1. t1[1] = text[1] /\ t1[2] = text[2] /\ t1[3] = text[3]
    BY <1>7
  <2> QED
    BY <1>3, <2>1 DEF IsHead
<1>10. t2[1] = 110 /\ t2[2] = 97 /\ t2[3] = 109 /\ t2[4] = 101 /\ t2[5] = 61
  <2>1. 1 \in 1..(l - 5) /\ 2 \in 1..(l - 5) /\ 3 \in 1..(l - 5) /\ 4 \in 1..(l - 5) /\ 5 \in 1..(l - 5)
    BY <1>3
  <2>2. /\ t2[1] = text[6] /\ t2[2] = text[7] /\ t2[3] = text[8] /\ t2[4] = text[9]
        /\ t2[5] = text[10]
    BY <1>8, <2>1
  <2> QED
    BY <1>3, <2>2 DEF IsHead
<1>11. Cut(t1) = 3
  <2>1. 3 \in 1..Len(t1) /\ t1[3] = F!Equals
    BY <1>7, <1>9 DEF F!Equals
  <2>2. \A j \in 1..Len(t1) : t1[j] = F!Equals => 3 <= j
    <3>1. \A j \in 1..Len(t1) : j = 1 \/ j = 2 \/ 3 <= j
      BY <1>7
    <3> QED
      BY <1>9, <3>1 DEF F!Equals
  <2> QED
    BY <1>7, <2>1, <2>2, CutAt
<1>12. Cut(t2) = 5
  <2>1. 5 \in 1..Len(t2) /\ t2[5] = F!Equals
    BY <1>3, <1>8, <1>10 DEF F!Equals
  <2>2. \A j \in 1..Len(t2) : t2[j] = F!Equals => 5 <= j
    <3>1. \A j \in 1..Len(t2) : j = 1 \/ j = 2 \/ j = 3 \/ j = 4 \/ 5 <= j
      BY <1>3, <1>8
    <3> QED
      BY <1>10, <3>1, SMTT(30) DEF F!Equals
  <2> QED
    BY <1>8, <2>1, <2>2, CutAt
<1>13. KeyOf(t1) # NameKey
  <2>1. PICK s : s = Slice(t1, 0, 2)
    OBVIOUS
  <2>2. s \in Seq(Int) /\ Len(s) = 2 /\ s[1] = 105 /\ s[2] = 100
    <3>1. 0 \in Nat /\ 2 \in Nat /\ 0 <= 2 /\ 2 <= Len(t1)
      BY <1>7
    <3>2. IsSlice(s, t1, 0, 2)
      BY <1>7, <2>1, <3>1, Sliced
    <3>3. s \in Seq(Int) /\ Len(s) = 2 /\ \A j \in 1..2 : s[j] = t1[0 + j]
      BY <3>2 DEF IsSlice
    <3> QED
      BY <1>9, <3>3
  <2>3. F!urldecode(s) = s
    <3>1. \A i \in 1..Len(s) : s[i] # F!Percent
      BY <2>2 DEF F!Percent
    <3> QED
      BY <2>2, <3>1, PlainDecoded
  <2>4. KeyOf(t1) = s
    <3>1. Slice(t1, 0, 2) = SubSeq(t1, 1, Cut(t1) - 1) /\ Cut(t1) # 0
      BY <1>11 DEF Slice
    <3> QED
      BY <2>1, <2>3, <3>1 DEF KeyOf
  <2>5. Len(NameKey) = 4
    BY DEF NameKey
  <2>6. 2 # 4
    OBVIOUS
  <2> QED
    BY Zenon, <2>2, <2>4, <2>5, <2>6
<1>14. KeyOf(t2) = NameKey
  <2>1. PICK s : s = Slice(t2, 0, 4)
    OBVIOUS
  <2>2. s \in Seq(Int) /\ Len(s) = 4 /\ s[1] = 110 /\ s[2] = 97 /\ s[3] = 109 /\ s[4] = 101
    <3>1. 0 \in Nat /\ 4 \in Nat /\ 0 <= 4 /\ 4 <= Len(t2)
      BY <1>3, <1>8
    <3>2. IsSlice(s, t2, 0, 4)
      BY <1>8, <2>1, <3>1, Sliced
    <3>3. s \in Seq(Int) /\ Len(s) = 4 /\ \A j \in 1..4 : s[j] = t2[0 + j]
      BY <3>2 DEF IsSlice
    <3> QED
      BY <1>10, <3>3
  <2>3. \A i \in 1..4 : i = 1 \/ i = 2 \/ i = 3 \/ i = 4
    OBVIOUS
  <2>4. F!urldecode(s) = s
    <3>1. \A i \in 1..Len(s) : s[i] # F!Percent
      BY <2>2, <2>3 DEF F!Percent
    <3> QED
      BY <2>2, <3>1, PlainDecoded
  <2>5. KeyOf(t2) = s
    <3>1. Slice(t2, 0, 4) = SubSeq(t2, 1, Cut(t2) - 1) /\ Cut(t2) # 0
      BY <1>12 DEF Slice
    <3> QED
      BY <2>1, <2>4, <3>1 DEF KeyOf
  <2>6. PICK k : k = NameKey
    OBVIOUS
  <2>7. k \in Seq(Int) /\ Len(k) = 4 /\ k[1] = 110 /\ k[2] = 97 /\ k[3] = 109 /\ k[4] = 101
    BY <2>6 DEF NameKey
  <2>8. \A j \in 1..Len(s) : s[j] = k[j]
    BY <2>2, <2>3, <2>7
  <2>9. s = k
    <3>1. PICK n : n = Len(s)
      OBVIOUS
    <3>2. n = Len(k)
      BY <2>2, <2>7, <3>1
    <3>3. s \in Seq(Int) /\ k \in Seq(Int)
      BY <2>2, <2>7
    <3>4. Len(s) = Len(k)
      BY <3>1, <3>2
    <3> QED
      BY <2>8, <3>3, <3>4, SeqEqual
  <2> QED
    BY <2>5, <2>6, <2>9
<1>15. SubSeq(t2, Cut(t2) + 1, Len(t2)) = v
  <2>1. PICK s, n : s = Slice(t2, 5, n) /\ n = Len(t2)
    OBVIOUS
  <2>2. n = l - 5 /\ n \in Nat /\ 5 \in Nat /\ 5 <= n /\ n - 5 = m
    BY <1>3, <1>8, <2>1
  <2>3. IsSlice(s, t2, 5, n)
    BY <1>8, <2>1, <2>2, Sliced
  <2>4. s \in Seq(Int) /\ Len(s) = m /\ \A j \in 1..m : s[j] = t2[5 + j]
    BY <2>2, <2>3 DEF IsSlice
  <2>5. ASSUME NEW j \in 1..m PROVE s[j] = v[j]
    <3>1. 5 + j \in 1..(l - 5) /\ 5 + (5 + j) = 10 + j
      BY <1>3
    <3>2. t2[5 + j] = text[10 + j]
      BY <1>8, <3>1
    <3> QED
      BY <1>3, <2>4, <3>2
  <2>6. s = v
    BY <1>1, <2>4, <2>5, SeqEqual
  <2> QED
    BY <1>12, <2>1, <2>6 DEF Slice
<1> QED
  BY <1>1, <1>6, <1>13, <1>14, <1>15, FirstWithKey

-----------------------------------------------------------------------------
(* Forms: no value has a separator in it.                                  *)

\* The codes a value may have in it.
NoSeparator == Int \ {F!Ampersand}

\* What is put together of texts has no other characters than they have.
LEMMA FlattenedIn ==
  ASSUME NEW name \in Seq(0..255), NEW S, NEW ins, ins = [i \in DOMAIN name |-> ins[i]],
         \A i \in DOMAIN name : ins[i] \in Seq(S)
  PROVE  FlattenSeq(ins) \in Seq(S)
<1>1. PICK n : n = Len(name)
  OBVIOUS
<1>2. CASE name = <<>>
  <2>1. ins = <<>>
    BY <1>2
  <2>2. FlattenSeq(ins) = <<>>
    BY <2>1, NothingDecoded
  <2> QED
    BY <2>2
<1>3. CASE name # <<>>
  <2>1. n \in Nat \ {0} /\ DOMAIN name = 1..n
    BY <1>1, <1>3, EmptySeq, LenProperties
  <2>2. Len(ins) = n /\ DOMAIN ins = 1..n /\ ins # <<>>
    <3>1. ins \in Seq(Seq(S)) /\ Len(ins) = n
      BY <2>1, IsSequence
    <3> QED
      BY <2>1, <3>1
  <2>3. AreTexts(S, ins, n)
    BY <2>1, <2>2 DEF AreTexts
  <2>4. PICK o : PlacedAt(S, ins, n, FlattenSeq(ins), o)
    BY <2>1, <2>2, <2>3, Flattened
  <2> QED
    BY <2>4 DEF PlacedAt
<1> QED
  BY <1>2, <1>3

\* Neither does the piece of a character.
LEMMA PieceHasNone ==
  ASSUME NEW c \in 0..255
  PROVE  Piece(c) \in Seq(NoSeparator) /\ BrowserPiece(c) \in Seq(NoSeparator)
<1>1. ASSUME NEW x \in Int, x # 38 PROVE <<x>> \in Seq(NoSeparator)
  BY <1>1 DEF NoSeparator, F!Ampersand
<1>2. Escaped(c) \in Seq(NoSeparator)
  <2>1. PICK a, b : a = c \div 16 /\ b = c % 16
    OBVIOUS
  <2>2. a \in 0..15 /\ b \in 0..15
    BY <2>1
  <2>3. ASSUME NEW d \in 0..15 PROVE Hex(d) \in NoSeparator
    BY DEF Hex, NoSeparator, F!Ampersand
  <2>4. PICK h, l : h = Hex(a) /\ l = Hex(b)
    OBVIOUS
  <2>5. h \in NoSeparator /\ l \in NoSeparator /\ 37 \in NoSeparator
    BY <2>2, <2>3, <2>4 DEF NoSeparator, F!Ampersand
  <2>6. Escaped(c) = <<37, h, l>>
    BY <2>1, <2>4 DEF Escaped
  <2> QED
    BY <2>5, <2>6
<1>3. Piece(c) \in Seq(NoSeparator)
  <2>1. CASE IsPlain(c)
    <3>1. Piece(c) = <<c>> /\ c \in Int /\ c # 38
      BY <2>1 DEF IsPlain, Piece
    <3> QED
      BY <1>1, <3>1
  <2>2. CASE ~IsPlain(c)
    BY <1>2, <2>2 DEF Piece
  <2> QED
    BY <2>1, <2>2
<1> QED
  BY <1>1, <1>3 DEF BrowserPiece

\* No value of a sender has a separator in it.
LEMMA ValueHasNone ==
  ASSUME NEW name \in Seq(0..255), NEW v \in {UrlEncoded(name), FromBrowser(name)}
  PROVE  v \in Seq(Int) /\ \A j \in 1..Len(v) : v[j] # F!Ampersand
<1> DEFINE ins == [i \in DOMAIN name |-> Piece(name[i])]
           bins == [i \in DOMAIN name |-> BrowserPiece(name[i])]
<1>1. \A i \in DOMAIN name : name[i] \in 0..255
  BY ElementOfSeq, LenProperties, ZenonT(40)
<1>2. v = FlattenSeq(ins) \/ v = FlattenSeq(bins)
  BY InPieces
<1>3. \A i \in DOMAIN name : ins[i] \in Seq(NoSeparator) /\ bins[i] \in Seq(NoSeparator)
  BY <1>1, PieceHasNone
<1>4. ins = [i \in DOMAIN name |-> ins[i]] /\ bins = [i \in DOMAIN name |-> bins[i]]
  OBVIOUS
<1> HIDE DEF ins, bins
<1>5. v \in Seq(NoSeparator)
  BY <1>2, <1>3, <1>4, FlattenedIn
<1>6. v \in Seq(Int) /\ \A j \in 1..Len(v) : v[j] \in NoSeparator
  BY <1>5 DEF NoSeparator
<1> QED
  BY <1>6 DEF NoSeparator

-----------------------------------------------------------------------------
(* Forms: the request, and what http_content finds in it.                  *)

\* The request has the verb and the one header it was sent with, and the payload.
LEMMA PostedRequest ==
  ASSUME NEW verb, NEW shown, NEW type, NEW payload
  PROVE  /\ Posted(verb, shown, <<type>>, payload).payload = payload
         /\ Posted(verb, shown, <<type>>, payload).verb = verb
         /\ Posted(verb, shown, <<type>>, payload).headers =
              <<[name |-> [lower |-> "content-type", shown |-> shown], value |-> type]>>
<1> DEFINE field == [name |-> [lower |-> "content-type", shown |-> shown], value |-> type]
           beast == [verb |-> verb, target |-> "/", payload |-> payload, version |-> F!Version(1, 1),
                     headers |-> <<field>>]
           r == F!set_version(F!set_target(F!set_verb(F!HttpRequest, verb), "/"),
                              F!version_major(beast), F!version_minor(beast))
           Step(f) == [n \in 0..Len(<<field>>) |->
                         IF n = 0 THEN r ELSE F!add_header(f[n - 1], <<field>>[n].name, <<field>>[n].value)]
           added == CHOOSE f : f = Step(f)
<1>1. Posted(verb, shown, <<type>>, payload) = F!MakeHttpRequest(beast)
  BY DEF Posted, F!Field, F!Name
<1>2. F!MakeHttpRequest(beast) = F!set_payload(added[Len(<<field>>)], payload)
  BY ZenonT(40) DEF F!MakeHttpRequest
<1>3. Len(<<field>>) = 1 /\ <<field>>[1] = field
  OBVIOUS
<1>4. r.headers = <<>> /\ r.verb = verb /\ r = [verb |-> r.verb, target |-> r.target, payload |-> r.payload,
                               headers |-> r.headers, version |-> r.version]
  <2>1. PICK a, b, v : /\ a = F!set_verb(F!HttpRequest, verb) /\ b = F!set_target(a, "/")
                       /\ v = F!Version(F!version_major(beast), F!version_minor(beast))
    OBVIOUS
  <2>2. a = [verb |-> verb, target |-> "", payload |-> F!NoText, headers |-> <<>>, version |-> F!Version(1, 1)]
    BY <2>1 DEF F!set_verb, F!HttpRequest
  <2>3. b = [verb |-> verb, target |-> "/", payload |-> F!NoText, headers |-> <<>>, version |-> F!Version(1, 1)]
    <3>1. b = [a EXCEPT !.target = "/"]
      BY <2>1 DEF F!set_target
    <3>2. PICK w : w = F!Version(1, 1)
      OBVIOUS
    <3>3. a = [verb |-> verb, target |-> "", payload |-> F!NoText, headers |-> <<>>, version |-> w]
      BY <2>2, <3>2
    <3>4. b = [verb |-> verb, target |-> "/", payload |-> F!NoText, headers |-> <<>>, version |-> w]
      BY <3>1, <3>3
    <3> QED
      BY <3>2, <3>4
  <2>4. r = [b EXCEPT !.version = v]
    BY <2>1 DEF F!set_version
  <2>5. r = [verb |-> verb, target |-> "/", payload |-> F!NoText, headers |-> <<>>, version |-> v]
    <3> HIDE DEF r
    <3> QED
      BY <2>3, <2>4
  <2> HIDE DEF r
  <2> QED
    BY <2>5
<1> HIDE DEF r, field
<1>5. added = Step(added)
  <2> DEFINE g == [n \in 0..1 |-> IF n = 0 THEN r ELSE F!add_header(r, field.name, field.value)]
  <2>1. ASSUME NEW n \in 0..1
        PROVE  g[n] = IF n = 0 THEN r ELSE F!add_header(g[n - 1], <<field>>[n].name, <<field>>[n].value)
    <3>1. n = 0 \/ n = 1
      OBVIOUS
    <3>2. g[0] = r
      OBVIOUS
    <3> QED
      BY <1>3, <3>1, <3>2
  <2>2. g = Step(g)
    BY <1>3, <2>1
  <2> HIDE DEF g, Step
  <2> QED
    BY <2>2
<1> HIDE DEF added
<1>6. added[1] = F!add_header(r, field.name, field.value)
  <2>1. \A n \in 0..1 : added[n] = IF n = 0 THEN r
                          ELSE F!add_header(added[n - 1], <<field>>[n].name, <<field>>[n].value)
    BY <1>3, <1>5
  <2>2. added[0] = r
    BY <2>1
  <2> QED
    BY <1>3, <2>1, <2>2
<1>7. /\ F!set_payload(added[1], payload).payload = payload
      /\ F!set_payload(added[1], payload).verb = verb
      /\ F!set_payload(added[1], payload).headers = <<F!Field(field.name, field.value)>>
  BY <1>4, <1>6 DEF F!set_payload, F!add_header
<1>8. F!Field(field.name, field.value) = field
  BY DEF F!Field, field
<1> QED
  BY <1>1, <1>2, <1>3, <1>7, <1>8 DEF field

\* Its content type is found under the spelling the function looks for, and no other.
LEMMA ContentType ==
  ASSUME NEW shown, NEW type, NEW payload,
         NEW r, r = Posted("POST", shown, <<type>>, payload)
  PROVE  /\ r.payload = payload
         /\ F!Found(r, "content-type") <=> shown = "content-type"
         /\ shown = "content-type" => F!Find(r, "content-type") = type
<1>1. PICK field, h : /\ field = [name |-> [lower |-> "content-type", shown |-> shown], value |-> type]
                      /\ h = <<field>>
  OBVIOUS
<1>2. r.payload = payload /\ r.headers = h
  BY <1>1, PostedRequest
<1>3. Len(h) = 1 /\ h[1] = field /\ field.name.shown = shown /\ field.value = type
  BY <1>1
<1>4. \A i \in 1..Len(h) : i = 1
  BY <1>3
<1>5. F!Found(r, "content-type") <=> shown = "content-type"
  BY <1>2, <1>3, <1>4 DEF F!Found
<1>6. ASSUME shown = "content-type" PROVE F!Find(r, "content-type") = type
  <2> DEFINE IsFirst(i) == /\ h[i].name.shown = "content-type"
                           /\ \A j \in 1..(i - 1) : h[j].name.shown # "content-type"
  <2>1. IsFirst(1) /\ 1 \in 1..Len(h)
    BY <1>3, <1>6
  <2>2. F!Find(r, "content-type") = h[CHOOSE i \in 1..Len(h) : IsFirst(i)].value
    BY Zenon, <1>2 DEF F!Find
  <2>3. (CHOOSE i \in 1..Len(h) : IsFirst(i)) \in 1..Len(h)
    <3> HIDE DEF IsFirst
    <3> QED
      BY Zenon, <2>1
  <2>4. (CHOOSE i \in 1..Len(h) : IsFirst(i)) = 1
    <3> HIDE DEF IsFirst
    <3> QED
      BY <1>4, <2>3
  <2> HIDE DEF IsFirst
  <2> QED
    BY <1>3, <2>2, <2>4
<1> QED
  BY <1>2, <1>5, <1>6

\* What is read of a request, by its content type.
LEMMA ReadByType ==
  ASSUME NEW type, NEW payload, NEW key, NEW r, r = Posted("POST", "content-type", <<type>>, payload)
  PROVE  /\ type = "text/plain" => F!http_content(r, key) = payload
         /\ type = "application/x-www-form-urlencoded" =>
              F!http_content(r, key) = F!parse_www_form_urlencoded(payload, key)
         /\ type = "application/json" =>
              F!http_content(r, key) =
                IF ~F!IsJson(payload) \/ F!ValueThrows(F!Parsed(payload), "name") THEN F!Thrown
                ELSE F!Value(F!Parsed(payload), "name").text
<1>1. r.payload = payload /\ F!Found(r, "content-type") /\ F!Find(r, "content-type") = type
  BY ContentType
<1> HIDE DEF F!Found, F!Find
<1> QED
  BY <1>1 DEF F!http_content, F!content_type

\* Under another spelling there is no name.
LEMMA ReadByNoType ==
  ASSUME NEW payload, NEW key, NEW r, r = Posted("POST", "Content-Type", <<"text/plain">>, payload)
  PROVE  F!http_content(r, key) = <<>>
<1>1. ~F!Found(r, "content-type")
  BY ContentType
<1> QED
  BY <1>1 DEF F!http_content, F!content_type

\* A name in a member of a JSON object.
LEMMA NameOfObject ==
  ASSUME NEW name, NEW payload, payload = Dump(Object([name |-> Str(Text(name))]))
  PROVE  /\ F!IsJson(payload) /\ ~F!ValueThrows(F!Parsed(payload), "name")
         /\ F!Value(F!Parsed(payload), "name").text = name
<1>1. PICK v : v = Object([name |-> Str(Text(name))])
  OBVIOUS
<1>2. F!IsJson(payload) /\ F!Parsed(payload) = v
  BY <1>1 DEF Dump, F!IsJson, F!Parsed
<1>3. "object" \in DOMAIN v /\ v.object = [name |-> Str(Text(name))]
  BY <1>1 DEF Object
<1>4. F!IsObject(v) /\ F!Has(v, "name") /\ F!At(v, "name") = Str(Text(name))
  BY <1>3 DEF F!IsObject, F!Has, F!At
<1>5. F!IsString(Str(Text(name))) /\ Str(Text(name)).string = Text(name) /\ Text(name).text = name
  BY DEF Str, Text, F!IsString
<1> QED
  BY <1>2, <1>4, <1>5 DEF F!ValueThrows, F!Value

\* The ways of a name.
LEMMA NameWays ==
  ASSUME NEW name, NEW way \in DOMAIN NameRequests(name)
  PROVE  LET form(value) == Posted("POST", "content-type", <<"application/x-www-form-urlencoded">>, value)
             r == NameRequests(name)[way]
         IN  \/ way = "plain" /\ r = Posted("POST", "content-type", <<"text/plain">>, name)
             \/ way = "spelled" /\ r = Posted("POST", "Content-Type", <<"text/plain">>, name)
             \/ way = "form" /\ r = form(Query(UrlEncoded(name)))
             \/ way = "again" /\ r = form(Query(UrlEncoded(name)) \o Again)
             \/ way = "browser" /\ r = form(Query(FromBrowser(name)))
             \/ way = "json" /\ r = Posted("POST", "content-type", <<"application/json">>,
                                           Dump(Object([name |-> Str(Text(name))])))
<1> DEFINE form(value) == Posted("POST", "content-type", <<"application/x-www-form-urlencoded">>, value)
           plain(shown) == Posted("POST", shown, <<"text/plain">>, name)
<1>1. PICK p, s, f, a, b, j, k :
        /\ p = plain("content-type") /\ s = plain("Content-Type")
        /\ f = form(Query(UrlEncoded(name))) /\ a = form(Query(UrlEncoded(name)) \o Again)
        /\ b = form(Query(FromBrowser(name)))
        /\ j = Posted("POST", "content-type", <<"application/json">>,
                      Dump(Object([name |-> Str(Text(name))])))
        /\ k = IF \A i \in DOMAIN name : name[i] < 128 THEN j ELSE None
  OBVIOUS
<1>2. PICK all : all = [plain |-> p, spelled |-> s, form |-> f, again |-> a, browser |-> b, json |-> k]
  OBVIOUS
<1>3. NameRequests(name) = Present(all)
  BY Zenon, <1>1, <1>2 DEF NameRequests
<1>4. way \in DOMAIN all /\ all[way] # None /\ NameRequests(name)[way] = all[way]
  BY <1>3, PresentPart
<1>5. DOMAIN all = {"plain", "spelled", "form", "again", "browser", "json"}
  BY <1>2
<1>6. /\ all["plain"] = p /\ all["spelled"] = s /\ all["form"] = f /\ all["again"] = a
      /\ all["browser"] = b /\ all["json"] = k
  BY <1>2
<1>7. way = "json" => NameRequests(name)[way] = j
  BY <1>1, <1>4, <1>6
<1> QED
  BY <1>1, <1>4, <1>5, <1>6, <1>7, Zenon

\* What a form greets.
LEMMA FormGreets ==
  ASSUME NEW name \in Seq(0..255), NEW v \in {UrlEncoded(name), FromBrowser(name)},
         NEW text \in {Query(v), Query(v) \o Again},
         NEW r, r = Posted("POST", "content-type", <<"application/x-www-form-urlencoded">>, text)
  PROVE  F!http_content(r, NameKey) = F!urldecode(v)
<1>1. v \in Seq(Int) /\ \A j \in 1..Len(v) : v[j] # F!Ampersand
  BY ValueHasNone
<1>2. F!http_content(r, NameKey) = F!parse_www_form_urlencoded(text, NameKey)
  BY ReadByType
<1>3. IsQuery(text, v, 10 + Len(v), <<>>) \/ IsQuery(text, v, 10 + Len(v), Again)
  BY <1>1, QueryText
<1>4. F!parse_www_form_urlencoded(text, NameKey) = F!urldecode(v)
  <2>1. CASE IsQuery(text, v, 10 + Len(v), <<>>)
    <3>1. PICK l, rest : l = 10 + Len(v) /\ rest = <<>>
      OBVIOUS
    <3>2. IsQuery(text, v, l, rest) /\ rest \in {<<>>, Again}
      BY <2>1, <3>1
    <3> QED
      BY <1>1, <3>2, NameFound
  <2>2. CASE IsQuery(text, v, 10 + Len(v), Again)
    <3>1. PICK l, rest : l = 10 + Len(v) /\ rest = Again
      OBVIOUS
    <3>2. IsQuery(text, v, l, rest) /\ rest \in {<<>>, Again}
      BY <2>2, <3>1
    <3> QED
      BY <1>1, <3>2, NameFound
  <2> QED
    BY <1>3, <2>1, <2>2
<1> QED
  BY <1>2, <1>4

\* A function that greets finds the name its sender put in the request, whatever it came in
\* and up to its last escape, and of two names in a form the first (http_content.cc:63).
THEOREM NamesUnderstood == Spec => []NameUnderstood
<1>1. AsParsed => NameUnderstood
  <2> SUFFICES ASSUME AsParsed, sent.kind = "name", NEW way \in DOMAIN outcome
               PROVE  outcome[way] = Greeted(sent.name, way)
    BY DEF NameUnderstood
  <2>1. PICK name, r : name = sent.name /\ r = NameRequests(name)[way]
    OBVIOUS
  <2>2. name \in Seq(0..255)
    BY <2>1, MessagesAssumption DEF AsParsed
  <2>3. Sendings(sent) = NameRequests(name)
    BY <2>1 DEF Sendings
  <2>4. way \in DOMAIN NameRequests(name) /\ outcome[way] = F!http_content(r, NameKey)
    BY <2>1, <2>3 DEF AsParsed
  <2> SUFFICES F!http_content(r, NameKey) = Greeted(name, way)
    BY <2>1, <2>4
  <2>5. CASE way = "plain" /\ r = Posted("POST", "content-type", <<"text/plain">>, name)
    <3>1. F!http_content(r, NameKey) = name
      BY <2>5, ReadByType
    <3> QED
      BY <2>5, <3>1 DEF Greeted
  <2>6. CASE way = "spelled" /\ r = Posted("POST", "Content-Type", <<"text/plain">>, name)
    <3>1. F!http_content(r, NameKey) = <<>>
      BY <2>6, ReadByNoType
    <3> QED
      BY <2>6, <3>1 DEF Greeted
  <2>7. CASE way \in {"form", "again"} /\ F!http_content(r, NameKey) = F!urldecode(UrlEncoded(name))
    <3>1. Greeted(name, way) = Greeted(name, "form")
      BY Zenon, <2>7 DEF Greeted
    <3> QED
      BY <2>2, <2>7, <3>1, EscapesUndone
  <2>8. CASE way = "browser" /\ F!http_content(r, NameKey) = F!urldecode(FromBrowser(name))
    BY <2>2, <2>8, EscapesUndone
  <2>9. CASE way = "json" /\ r = Posted("POST", "content-type", <<"application/json">>,
                                        Dump(Object([name |-> Str(Text(name))])))
    <3>1. F!http_content(r, NameKey) = name
      <4>1. PICK payload : payload = Dump(Object([name |-> Str(Text(name))]))
        OBVIOUS
      <4>2. /\ F!IsJson(payload) /\ ~F!ValueThrows(F!Parsed(payload), "name")
            /\ F!Value(F!Parsed(payload), "name").text = name
        BY <4>1, NameOfObject
      <4>3. r = Posted("POST", "content-type", <<"application/json">>, payload)
        BY <2>9, <4>1
      <4> QED
        BY <4>2, <4>3, ReadByType
    <3> QED
      BY <2>9, <3>1 DEF Greeted
  <2>10. (way \in {"form", "again"} /\ F!http_content(r, NameKey) = F!urldecode(UrlEncoded(name)))
         \/ (way = "browser" /\ F!http_content(r, NameKey) = F!urldecode(FromBrowser(name)))
         \/ way \in {"plain", "spelled", "json"}
    <3> DEFINE form(value) == Posted("POST", "content-type", <<"application/x-www-form-urlencoded">>, value)
    <3>1. \/ way = "form" /\ r = form(Query(UrlEncoded(name)))
          \/ way = "again" /\ r = form(Query(UrlEncoded(name)) \o Again)
          \/ way = "browser" /\ r = form(Query(FromBrowser(name)))
          \/ way \in {"plain", "spelled", "json"}
      BY <2>1, <2>4, NameWays
    <3>2. CASE way = "form" /\ r = form(Query(UrlEncoded(name)))
      BY <2>2, <3>2, FormGreets
    <3>3. CASE way = "again" /\ r = form(Query(UrlEncoded(name)) \o Again)
      BY <2>2, <3>3, FormGreets
    <3>4. CASE way = "browser" /\ r = form(Query(FromBrowser(name)))
      BY <2>2, <3>4, FormGreets
    <3> QED
      BY <3>1, <3>2, <3>3, <3>4
  <2>11. /\ way = "plain" => r = Posted("POST", "content-type", <<"text/plain">>, name)
         /\ way = "spelled" => r = Posted("POST", "Content-Type", <<"text/plain">>, name)
         /\ way = "json" => r = Posted("POST", "content-type", <<"application/json">>,
                                       Dump(Object([name |-> Str(Text(name))])))
    BY <2>1, <2>4, NameWays
  <2> QED
    BY <2>5, <2>6, <2>7, <2>8, <2>9, <2>10, <2>11
<1> QED
  BY <1>1, EachAsParsed, PTL

-----------------------------------------------------------------------------
(* Forms of parts: the tokens a text is cut into at the places of a marker. *)

\* One cut more, at the first place there is.
BeginStep(width, next, f, n) ==
  IF n = 0 THEN <<1>>
  ELSE IF next[F!Last(f[n - 1])] = {} THEN f[n - 1]
  ELSE Append(f[n - 1], F!Min(next[F!Last(f[n - 1])]) + width)

\* Begins is the last value of such a function: there is one, as it only looks back.
LEMMA BeginsFromStart ==
  ASSUME NEW width, NEW splits \in Nat, NEW next
  PROVE  \E f : /\ F!Begins(width, splits, next) = f[splits]
                /\ \A n \in 0..splits : f[n] = BeginStep(width, next, f, n)
<1> DEFINE Cutting(f) == [n \in 0..splits |-> BeginStep(width, next, f, n)]
           begins == CHOOSE f : f = Cutting(f)
           Good(k) == \E g : \A i \in 0..(k - 1) : g[i] = BeginStep(width, next, g, i)
           G == {k \in 1..(splits + 1) : Good(k)}
<1>1. F!Begins(width, splits, next) = begins[splits]
  BY Zenon DEF F!Begins, BeginStep
<1>2. Good(1)
  <2> DEFINE g == [i \in 0..0 |-> <<1>>]
  <2>1. \A i \in 0..(1 - 1) : g[i] = BeginStep(width, next, g, i)
    BY DEF BeginStep
  <2> QED
    BY <2>1
<1>3. ASSUME NEW m \in 1..(splits + 1), m # splits + 1, Good(m)
      PROVE  Good(m + 1)
  <2>1. PICK g : \A i \in 0..(m - 1) : g[i] = BeginStep(width, next, g, i)
    BY <1>3
  <2> DEFINE h == [i \in 0..m |-> IF i = m THEN BeginStep(width, next, g, m) ELSE g[i]]
  <2>2. \A i \in 0..(m - 1) : h[i] = g[i]
    OBVIOUS
  <2>3. h[m] = BeginStep(width, next, g, m)
    <3>1. m \in 0..m
      OBVIOUS
    <3> QED
      BY <3>1
  <2> HIDE DEF h
  <2>4. ASSUME NEW i \in 0..m
        PROVE  h[i] = BeginStep(width, next, h, i)
    <3>1. i # 0 => i - 1 \in 0..(m - 1)
      OBVIOUS
    <3>2. BeginStep(width, next, h, i) = BeginStep(width, next, g, i)
      BY <2>2, <3>1 DEF BeginStep
    <3>3. i # m => i \in 0..(m - 1)
      OBVIOUS
    <3> QED
      BY <2>1, <2>2, <2>3, <3>2, <3>3
  <2>5. (m + 1) - 1 = m
    OBVIOUS
  <2> QED
    BY <2>4, <2>5
<1>4. Good(splits + 1)
  <2>1. splits + 1 \in Nat /\ 1 \in G /\ splits + 1 \in 1..(splits + 1)
    BY <1>2
  <2>2. \A m \in 1..(splits + 1) : m # splits + 1 /\ m \in G => m + 1 \in G
    <3> HIDE DEF Good
    <3> QED
      BY <1>3
  <2>3. \A m \in 1..(splits + 1) : m \in G
    <3> HIDE DEF G
    <3> QED
      BY <2>1, <2>2, SetInduction
  <2> QED
    BY <2>1, <2>3
<1>5. PICK g : \A i \in 0..splits : g[i] = BeginStep(width, next, g, i)
  <2>1. (splits + 1) - 1 = splits
    OBVIOUS
  <2> QED
    BY <1>4, <2>1
<1>6. [i \in 0..splits |-> g[i]] = Cutting([i \in 0..splits |-> g[i]])
  <2> DEFINE h == [i \in 0..splits |-> g[i]]
  <2>1. ASSUME NEW i \in 0..splits
        PROVE  BeginStep(width, next, h, i) = BeginStep(width, next, g, i)
    <3>1. i # 0 => h[i - 1] = g[i - 1]
      OBVIOUS
    <3> HIDE DEF h
    <3> QED
      BY <3>1 DEF BeginStep
  <2> QED
    BY <1>5, <2>1
<1>7. begins = Cutting(begins)
  BY <1>6
<1>8. \A n \in 0..splits : begins[n] = BeginStep(width, next, begins, n)
  <2> HIDE DEF begins
  <2> QED
    BY <1>7
<1> HIDE DEF begins
<1> QED
  BY <1>1, <1>8

\* Where the tokens begin: after each cut, until there is no place or no cut left.
AreBegins(S, k, width, splits, next) ==
  /\ S \in [1..(k + 1) -> Nat] /\ S[1] = 1 /\ k <= splits
  /\ \A i \in 1..k : next[S[i]] # {} /\ S[i + 1] = F!Min(next[S[i]]) + width
  /\ k = splits \/ next[S[k + 1]] = {}

\* The first tokens, one more for each cut.
Prefix(S, k) == [i \in 1..k |-> S[i]]

\* The tokens begin there.
LEMMA BeginsAre ==
  ASSUME NEW S, NEW k \in Nat, NEW width, NEW splits \in Nat, NEW next,
         AreBegins(S, k, width, splits, next)
  PROVE  F!Begins(width, splits, next) = S
<1>1. PICK f : /\ F!Begins(width, splits, next) = f[splits]
               /\ \A n \in 0..splits : f[n] = BeginStep(width, next, f, n)
  BY BeginsFromStart
<1>2. /\ S \in [1..(k + 1) -> Nat] /\ S[1] = 1 /\ k <= splits
      /\ \A i \in 1..k : next[S[i]] # {} /\ S[i + 1] = F!Min(next[S[i]]) + width
      /\ k = splits \/ next[S[k + 1]] = {}
  BY DEF AreBegins
<1> DEFINE Upto(m) == IF m <= k + 1 THEN m ELSE k + 1
           G == {m \in 1..(splits + 1) : f[m - 1] = Prefix(S, Upto(m))}
<1>3. ASSUME NEW j \in 1..(k + 1)
      PROVE  Prefix(S, j) \in Seq(Nat) /\ Len(Prefix(S, j)) = j /\ F!Last(Prefix(S, j)) = S[j]
  <2>1. Prefix(S, j) \in [1..j -> Nat] /\ Prefix(S, j)[j] = S[j]
    BY <1>2 DEF Prefix
  <2>2. Prefix(S, j) \in Seq(Nat) /\ Len(Prefix(S, j)) = j
    BY <2>1
  <2> QED
    BY <2>1, <2>2 DEF F!Last
<1>4. 1 \in G
  <2>1. f[0] = <<1>>
    BY <1>1 DEF BeginStep
  <2>2. Prefix(S, 1) = <<1>>
    BY <1>2 DEF Prefix
  <2>3. Upto(1) = 1 /\ 1 - 1 = 0 /\ 1 \in 1..(splits + 1)
    OBVIOUS
  <2> QED
    BY <2>1, <2>2, <2>3
<1>5. ASSUME NEW m \in 1..(splits + 1), m # splits + 1, m \in G
      PROVE  m + 1 \in G
  <2>1. m \in 0..splits /\ m # 0 /\ (m + 1) - 1 = m /\ m + 1 \in 1..(splits + 1)
    BY <1>5
  <2>2. PICK j : j = Upto(m) /\ j \in 1..(k + 1)
    OBVIOUS
  <2>3. f[m - 1] = Prefix(S, j)
    BY <1>5, <2>2
  <2>4. f[m] = IF next[S[j]] = {} THEN Prefix(S, j) ELSE Append(Prefix(S, j), F!Min(next[S[j]]) + width)
    <3>1. f[m] = BeginStep(width, next, f, m)
      BY <1>1, <2>1
    <3>2. F!Last(f[m - 1]) = S[j]
      BY <1>3, <2>2, <2>3
    <3> HIDE DEF G, Upto
    <3> QED
      BY <2>1, <2>3, <3>1, <3>2 DEF BeginStep
  <2>5. CASE m <= k
    <3>1. j = m /\ j \in 1..k /\ j + 1 \in 1..(k + 1) /\ Upto(m + 1) = j + 1
      BY <2>2, <2>5
    <3>2. next[S[j]] # {} /\ S[j + 1] = F!Min(next[S[j]]) + width
      BY <1>2, <3>1
    <3>3. f[m] = Append(Prefix(S, j), S[j + 1])
      BY <2>4, <3>2
    <3>4. Append(Prefix(S, j), S[j + 1]) = Prefix(S, j + 1)
      <4>1. PICK p, x, r : p = Prefix(S, j) /\ x = S[j + 1] /\ r = Append(p, x)
        OBVIOUS
      <4>2. p \in Seq(Nat) /\ Len(p) = j /\ x \in Nat
        BY <1>2, <1>3, <2>2, <3>1, <4>1
      <4>3. r \in Seq(Nat) /\ Len(r) = j + 1 /\ r[j + 1] = x /\ \A i \in 1..j : r[i] = p[i]
        BY <4>1, <4>2, AppendProperties
      <4>4. \A i \in 1..(j + 1) : r[i] = S[i]
        BY <3>1, <4>1, <4>3 DEF Prefix
      <4>5. r = [i \in 1..(j + 1) |-> r[i]]
        BY <4>3
      <4> QED
        BY <4>1, <4>4, <4>5 DEF Prefix
    <3> QED
      BY <2>1, <3>1, <3>3, <3>4
  <2>6. CASE ~(m <= k)
    <3>1. j = k + 1 /\ Upto(m + 1) = k + 1 /\ k # splits
      BY <2>1, <2>2, <2>6, <1>2
    <3>2. next[S[j]] = {}
      BY <1>2, <3>1
    <3> QED
      BY <2>1, <2>4, <3>1, <3>2
  <2> QED
    BY <2>5, <2>6
<1>6. splits + 1 \in G
  <2>1. \A m \in 1..(splits + 1) : m \in G
    <3>1. splits + 1 \in Nat
      OBVIOUS
    <3> HIDE DEF G
    <3> QED
      BY <1>4, <1>5, <3>1, SetInduction
  <2> QED
    BY <2>1
<1>7. Upto(splits + 1) = k + 1 /\ (splits + 1) - 1 = splits
  BY <1>2
<1>8. f[splits] = Prefix(S, k + 1)
  BY <1>6, <1>7
<1>9. Prefix(S, k + 1) = S
  BY <1>2 DEF Prefix
<1> QED
  BY <1>1, <1>8, <1>9

\* The token that begins at S[i]: up to the next cut, or to the end of the text.
TokenOf(text, S, k, width, i) ==
  SubSeq(text, S[i], IF i = k + 1 THEN Len(text) ELSE S[i + 1] - width - 1)

\* The tokens.
LEMMA CutsAre ==
  ASSUME NEW text, NEW S, NEW k \in Nat, NEW width, NEW splits \in Nat, NEW next,
         AreBegins(S, k, width, splits, next)
  PROVE  F!Cuts(text, width, splits, next) = [i \in 1..(k + 1) |-> TokenOf(text, S, k, width, i)]
<1>1. F!Begins(width, splits, next) = S
  BY BeginsAre
<1>2. Len(S) = k + 1
  BY DEF AreBegins
<1> QED
  BY <1>1, <1>2, Zenon DEF F!Cuts, TokenOf

\* The module of the forms flattens as this one does.
LEMMA SameFlatten == ASSUME NEW s PROVE F!FlattenSeq(s) = FlattenSeq(s)
BY Zenon DEF F!FlattenSeq, FlattenSeq

-----------------------------------------------------------------------------
(* Forms of parts: what is left of the tokens without the empty ones.      *)

\* The last token is empty, and before the others there may be another one.
EmptyAround(t, m, e) ==
  /\ t = [i \in 1..m |-> t[i]] /\ e \in {0, 1} /\ e < m
  /\ t[m] = <<>> /\ (e = 1 => t[1] = <<>>)
  /\ \A i \in (e + 1)..(m - 1) : t[i] # <<>>

\* What is between is left, in its order.
LEMMA SkipsEmpty ==
  ASSUME NEW t, NEW m \in Nat \ {0}, NEW e, EmptyAround(t, m, e)
  PROVE  F!SkipEmpty(t) = [i \in 1..(m - 1 - e) |-> t[e + i]]
<1>0. /\ t = [i \in 1..m |-> t[i]] /\ e \in {0, 1} /\ e < m
      /\ t[m] = <<>> /\ (e = 1 => t[1] = <<>>)
      /\ \A i \in (e + 1)..(m - 1) : t[i] # <<>>
  BY DEF EmptyAround
<1>1. PICK S : S = {t[i] : i \in 1..m}
  OBVIOUS
<1>2. PICK seqs : seqs = [i \in DOMAIN t |-> IF t[i] = <<>> THEN <<>> ELSE <<t[i]>>]
  OBVIOUS
<1>3. F!SkipEmpty(t) = FlattenSeq(seqs)
  BY <1>2, SameFlatten DEF F!SkipEmpty
<1>4. /\ DOMAIN seqs = 1..m /\ Len(seqs) = m /\ seqs # <<>>
      /\ \A i \in 1..m : seqs[i] = IF t[i] = <<>> THEN <<>> ELSE <<t[i]>>
  <2>1. DOMAIN t = 1..m
    BY <1>0
  <2>2. DOMAIN seqs = 1..m
    BY <1>2, <2>1
  <2>3. Len(seqs) = m /\ 1 \in DOMAIN seqs
    BY <2>2
  <2>4. seqs # <<>>
    BY <2>3
  <2> QED
    BY <1>2, <2>1, <2>2, <2>3, <2>4
<1>5. \A i \in 1..m : seqs[i] \in Seq(S) /\ Len(seqs[i]) = IF t[i] = <<>> THEN 0 ELSE 1
  <2> SUFFICES ASSUME NEW i \in 1..m
               PROVE  seqs[i] \in Seq(S) /\ Len(seqs[i]) = IF t[i] = <<>> THEN 0 ELSE 1
    OBVIOUS
  <2>1. t[i] \in S
    BY <1>1
  <2>2. CASE t[i] = <<>>
    <3>1. seqs[i] = <<>>
      BY <1>4, <2>2
    <3>2. <<>> \in Seq(S) /\ Len(<<>>) = 0
      OBVIOUS
    <3> QED
      BY <2>2, <3>1, <3>2
  <2>3. CASE t[i] # <<>>
    <3>1. seqs[i] = <<t[i]>>
      BY <1>4, <2>3
    <3> QED
      BY <2>1, <2>3, <3>1
  <2> QED
    BY <2>2, <2>3
<1>6. AreTexts(S, seqs, m)
  BY <1>4, <1>5 DEF AreTexts
<1>7. PICK o : PlacedAt(S, seqs, m, FlattenSeq(seqs), o)
  BY <1>4, <1>6, Flattened
<1>8. PICK r : r = FlattenSeq(seqs)
  OBVIOUS
<1>9. /\ o \in [1..(m + 1) -> Nat] /\ o[1] = 0
      /\ \A i \in 1..m : o[i + 1] = o[i] + Len(seqs[i])
      /\ r \in Seq(S) /\ Len(r) = o[m + 1]
      /\ \A i \in 1..m : \A k \in 1..Len(seqs[i]) : r[o[i] + k] = seqs[i][k]
  BY <1>7, <1>8 DEF PlacedAt
<1> DEFINE G == {i \in 1..m : o[i] = IF i <= e THEN 0 ELSE i - 1 - e}
<1>10. \A i \in 1..m : i \in G
  <2>1. 1 \in G
    BY <1>0, <1>9
  <2>2. ASSUME NEW i \in 1..m, i # m, i \in G PROVE i + 1 \in G
    <3>1. o[i + 1] = o[i] + (IF t[i] = <<>> THEN 0 ELSE 1) /\ o[i] \in Nat /\ i + 1 \in 1..m
      BY <1>5, <1>9, <2>2
    <3>2. CASE i <= e
      <4>1. i = 1 /\ e = 1 /\ t[i] = <<>>
        BY <1>0, <3>2
      <4>2. o[i] = 0 /\ o[i + 1] = 0
        BY <1>9, <3>1, <4>1
      <4> QED
        BY <3>1, <4>1, <4>2
    <3>3. CASE ~(i <= e)
      <4>1. i \in (e + 1)..(m - 1)
        BY <1>0, <2>2, <3>3
      <4>2. t[i] # <<>>
        BY <1>0, <4>1
      <4>3. o[i] = i - 1 - e
        BY <2>2, <3>3
      <4>4. o[i + 1] = (i + 1) - 1 - e /\ ~(i + 1 <= e)
        BY <1>0, <3>1, <3>3, <4>2, <4>3
      <4> QED
        BY <3>1, <4>4
    <3> QED
      BY <3>2, <3>3
  <2> HIDE DEF G
  <2> QED
    BY <2>1, <2>2, SetInduction
<1>11. Len(r) = m - 1 - e
  <2>1. m \in 1..m /\ Len(seqs[m]) = 0 /\ o[m] \in Nat
    BY <1>0, <1>5, <1>9
  <2>2. o[m + 1] = o[m] /\ o[m] = m - 1 - e
    BY <1>0, <1>9, <1>10, <2>1
  <2> QED
    BY <1>9, <2>2
<1>12. ASSUME NEW i \in 1..(m - 1 - e) PROVE r[i] = t[e + i]
  <2>1. e + i \in 1..m /\ e + i \in (e + 1)..(m - 1) /\ ~(e + i <= e) /\ (e + i) - 1 - e = i - 1
    BY <1>0
  <2>2. o[e + i] = i - 1 /\ t[e + i] # <<>>
    BY <1>0, <1>10, <2>1
  <2>3. Len(seqs[e + i]) = 1 /\ seqs[e + i] = <<t[e + i]>>
    BY <1>4, <1>5, <2>1, <2>2
  <2>4. r[o[e + i] + 1] = seqs[e + i][1]
    <3>1. PICK j : j = e + i /\ j \in 1..m
      BY <2>1
    <3>2. \A k \in 1..Len(seqs[j]) : r[o[j] + k] = seqs[j][k]
      BY <1>9, <3>1
    <3>3. 1 \in 1..Len(seqs[j])
      <4>1. Len(seqs[j]) = 1
        BY <2>3, <3>1
      <4> QED
        BY <4>1
    <3> QED
      BY <3>1, <3>2, <3>3
  <2>5. (i - 1) + 1 = i
    OBVIOUS
  <2> QED
    BY <2>2, <2>3, <2>4, <2>5
<1>13. r = [i \in 1..(m - 1 - e) |-> r[i]]
  BY <1>9, <1>11
<1> QED
  BY <1>3, <1>8, <1>12, <1>13

-----------------------------------------------------------------------------
(* Forms of parts: the text of a form, as its sender put it together.      *)

\* The pieces of a form.
More == F!Line("more")
First == F!Boundary("B")
Final == F!LastBoundary("B")
FormPiece ==
  Seq(STRING) \cup {F!CRLF, More, First, Final} \cup
  UNION {{F!Disposition(name, filename) : filename \in STRING} : name \in STRING}

\* They are told apart by what they begin with, and by their length.
LEMMA Pieces ==
  /\ F!CRLF \in FormPiece /\ More \in FormPiece /\ First \in FormPiece /\ Final \in FormPiece
  /\ F!CRLF # More /\ F!CRLF # First /\ F!CRLF # Final /\ First # More /\ Final # More /\ First # Final
  /\ F!CRLF # <<>> /\ First # <<>> /\ More # <<>> /\ Final # <<>>
  /\ First[1] = "--" /\ More[1] = "line" /\ F!CRLF[1] = "CRLF" /\ Final[1] = "--"
<1>1. PICK c, m, f, l : c = <<"CRLF">> /\ m = <<"line", "more">> /\ f = <<"--", "B">> /\ l = <<"--", "B", "--">>
  OBVIOUS
<1>2. F!CRLF = c /\ More = m /\ First = f /\ Final = l
  BY <1>1 DEF F!CRLF, More, F!Line, First, F!Boundary, Final, F!LastBoundary
<1>3. Len(c) = 1 /\ c[1] = "CRLF"
  BY <1>1
<1>4. Len(m) = 2 /\ m[1] = "line"
  BY <1>1
<1>5. Len(f) = 2 /\ f[1] = "--"
  BY <1>1
<1>6. Len(l) = 3 /\ l[1] = "--"
  BY <1>1
<1>7. Len(<<>>) = 0
  OBVIOUS
<1>8. f # l /\ f # <<>> /\ m # <<>> /\ c # <<>> /\ l # <<>>
  BY <1>3, <1>4, <1>5, <1>6, <1>7
<1>9. c # m /\ c # f /\ c # l /\ f # m /\ l # m
  BY <1>3, <1>4, <1>5, <1>6
<1>10. F!CRLF \in FormPiece /\ More \in FormPiece /\ First \in FormPiece /\ Final \in FormPiece
  BY DEF FormPiece
<1> QED
  BY <1>2, <1>3, <1>4, <1>5, <1>6, <1>8, <1>9, <1>10

\* The line with the name of a part is none of those.
LEMMA NameLine ==
  ASSUME NEW name \in STRING, NEW filename \in STRING
  PROVE  /\ F!Disposition(name, filename) \in FormPiece
         /\ F!Disposition(name, filename) \notin {F!CRLF, More, First, Final, <<>>}
         /\ F!Disposition(name, filename)[1] = "disposition"
         /\ F!Disposition(name, filename)[2] = name /\ F!Disposition(name, filename)[3] = filename
<1>0. PICK d : d = F!Disposition(name, filename)
  OBVIOUS
<1>1. d = <<"disposition", name, filename>>
  BY <1>0 DEF F!Disposition
<1>2. d[1] = "disposition" /\ d[2] = name /\ d[3] = filename /\ Len(d) = 3
  BY <1>1
<1>3. d \in FormPiece
  <2>1. d \in {F!Disposition(name, x) : x \in STRING}
    BY <1>0
  <2>2. {F!Disposition(name, x) : x \in STRING} \in {{F!Disposition(n, x) : x \in STRING} : n \in STRING}
    OBVIOUS
  <2>3. d \in UNION {{F!Disposition(n, x) : x \in STRING} : n \in STRING}
    BY <2>1, <2>2
  <2> QED
    BY <2>3 DEF FormPiece
<1>4. Len(<<>>) = 0
  OBVIOUS
<1>5. d # F!CRLF /\ d # More /\ d # First /\ d # Final
  <2>1. d[1] # "CRLF" /\ d[1] # "line" /\ d[1] # "--"
    BY <1>2
  <2> QED
    BY <2>1, Pieces
<1>6. d # <<>>
  BY <1>2, <1>4
<1> QED
  BY <1>0, <1>2, <1>3, <1>5, <1>6

\* One text after another.
LEMMA Concat ==
  ASSUME NEW S, NEW s \in Seq(S), NEW t \in Seq(S)
  PROVE  /\ s \o t \in Seq(S) /\ Len(s \o t) = Len(s) + Len(t)
         /\ \A i \in 1..Len(s) : (s \o t)[i] = s[i]
         /\ \A i \in 1..Len(t) : (s \o t)[Len(s) + i] = t[i]
<1>1. /\ s \o t \in Seq(S) /\ Len(s \o t) = Len(s) + Len(t)
      /\ \A i \in 1..(Len(s) + Len(t)) : (s \o t)[i] = IF i <= Len(s) THEN s[i] ELSE t[i - Len(s)]
  BY ConcatProperties
<1>2. Len(s) \in Nat /\ Len(t) \in Nat
  OBVIOUS
<1>3. ASSUME NEW i \in 1..Len(s) PROVE (s \o t)[i] = s[i]
  <2>1. i \in 1..(Len(s) + Len(t)) /\ i <= Len(s)
    BY <1>2
  <2> QED
    BY <1>1, <2>1
<1>4. ASSUME NEW i \in 1..Len(t) PROVE (s \o t)[Len(s) + i] = t[i]
  <2>1. Len(s) + i \in 1..(Len(s) + Len(t)) /\ ~(Len(s) + i <= Len(s)) /\ (Len(s) + i) - Len(s) = i
    BY <1>2
  <2> QED
    BY <1>1, <2>1
<1> QED
  BY <1>1, <1>3, <1>4

\* What is in a text put together is in one of its texts.
LEMMA InSome ==
  ASSUME NEW S, NEW seqs, NEW n \in Nat \ {0}, AreTexts(S, seqs, n), NEW whole, NEW o,
         PlacedAt(S, seqs, n, whole, o)
  PROVE  \A k \in 1..o[n + 1] : \E i \in 1..n : \E j \in 1..Len(seqs[i]) : k = o[i] + j
<1>1. /\ o \in [1..(n + 1) -> Nat] /\ o[1] = 0
      /\ \A i \in 1..n : o[i + 1] = o[i] + Len(seqs[i])
      /\ \A i \in 1..n : Len(seqs[i]) \in Nat
  BY DEF PlacedAt, AreTexts
<1> DEFINE In(k) == \E i \in 1..n : \E j \in 1..Len(seqs[i]) : k = o[i] + j
           G == {m \in 1..n : \A k \in 1..o[m + 1] : In(k)}
<1>2. ASSUME NEW m \in 1..n, NEW k \in 1..o[m + 1], k > o[m] PROVE In(k)
  <2>1. o[m] \in Nat /\ o[m + 1] \in Nat /\ Len(seqs[m]) \in Nat
    BY <1>1
  <2>2. k - o[m] \in 1..Len(seqs[m]) /\ k = o[m] + (k - o[m])
    BY <1>1, <1>2, <2>1, SMTT(30)
  <2> QED
    BY <2>2
<1>3. 1 \in G
  <2>1. \A k \in 1..o[1 + 1] : k > o[1]
    BY <1>1
  <2> HIDE DEF In
  <2> QED
    BY <1>2, <2>1
<1>4. ASSUME NEW m \in 1..n, m # n, m \in G PROVE m + 1 \in G
  <2>1. m + 1 \in 1..n /\ o[m + 1] \in Nat /\ o[(m + 1) + 1] \in Nat
    BY <1>1, <1>4
  <2>2. \A k \in 1..o[(m + 1) + 1] : k > o[m + 1] \/ k \in 1..o[m + 1]
    BY <2>1
  <2> HIDE DEF In
  <2> QED
    BY <1>2, <1>4, <2>1, <2>2
<1>5. n \in G
  <2> HIDE DEF G
  <2> QED
    BY <1>3, <1>4, SetInduction
<1> QED
  BY <1>5

\* The headers of a part: lines with a line end between them.
AreHeaders(h, c) ==
  /\ h \in Seq(FormPiece) /\ c \in Nat /\ Len(h) = 2 * c + 1
  /\ \A i \in 1..c : h[2 * i] = F!CRLF
  /\ \A i \in 0..c : h[2 * i + 1] \notin {F!CRLF, <<>>}

\* Those a sender writes: first the line with the name.
LEMMA HeadersOf ==
  ASSUME NEW p, p.lines \in Nat, p.name \in STRING, p.filename \in STRING
  PROVE  LET h == HeadOf(p)
         IN  /\ AreHeaders(h, p.lines) /\ h[1] = F!Disposition(p.name, p.filename)
             /\ \A i \in 1..p.lines : h[2 * i + 1] = More
<1>1. PICK d, c, seqs : /\ d = F!Disposition(p.name, p.filename) /\ c = p.lines
                        /\ seqs = [i \in 1..c |-> <<F!CRLF, More>>]
  OBVIOUS
<1>2. d \in FormPiece /\ d \notin {F!CRLF, More, First, Final, <<>>}
  <2>1. PICK name, filename : name = p.name /\ filename = p.filename /\ name \in STRING /\ filename \in STRING
    OBVIOUS
  <2>2. d = F!Disposition(name, filename)
    BY <1>1, <2>1
  <2>3. /\ F!Disposition(name, filename) \in FormPiece
        /\ F!Disposition(name, filename) \notin {F!CRLF, More, First, Final, <<>>}
    BY <2>1, NameLine
  <2> QED
    BY <2>2, <2>3
<1>3. PICK rest : rest = FlattenSeq(seqs)
  OBVIOUS
<1>4. HeadOf(p) = <<d>> \o rest
  BY <1>1, <1>3 DEF HeadOf, More
<1>5. /\ rest \in Seq(FormPiece) /\ Len(rest) = 2 * c
      /\ \A i \in 1..c : rest[2 * i - 1] = F!CRLF /\ rest[2 * i] = More
  <2>1. CASE c = 0
    <3>1. seqs = <<>>
      BY <1>1, <2>1
    <3>2. rest = <<>>
      BY <1>3, <3>1, NothingDecoded
    <3> QED
      BY <2>1, <3>2
  <2>2. CASE c # 0
    <3>1. c \in Nat \ {0}
      BY <1>1, <2>2
    <3>2. DOMAIN seqs = 1..c /\ Len(seqs) = c /\ seqs # <<>>
      <4>1. DOMAIN seqs = 1..c
        BY <1>1
      <4>2. Len(seqs) = c /\ 1 \in DOMAIN seqs
        BY <3>1, <4>1
      <4> QED
        BY <4>1, <4>2
    <3>3. /\ <<F!CRLF, More>> \in Seq(FormPiece) /\ Len(<<F!CRLF, More>>) = 2
          /\ <<F!CRLF, More>>[1] = F!CRLF /\ <<F!CRLF, More>>[2] = More
      BY Pieces
    <3>4. \A i \in 1..c : seqs[i] = <<F!CRLF, More>>
      BY <1>1
    <3>5. AreTexts(FormPiece, seqs, c)
      BY <3>2, <3>3, <3>4 DEF AreTexts
    <3>6. PICK o : PlacedAt(FormPiece, seqs, c, rest, o)
      BY <1>3, <3>1, <3>2, <3>5, Flattened
    <3>7. /\ o \in [1..(c + 1) -> Nat] /\ o[1] = 0
          /\ \A i \in 1..c : o[i + 1] = o[i] + 2
          /\ rest \in Seq(FormPiece) /\ Len(rest) = o[c + 1]
          /\ \A i \in 1..c : rest[o[i] + 1] = F!CRLF /\ rest[o[i] + 2] = More
      <4>1. /\ o \in [1..(c + 1) -> Nat] /\ o[1] = 0
            /\ \A i \in 1..c : o[i + 1] = o[i] + Len(seqs[i])
            /\ rest \in Seq(FormPiece) /\ Len(rest) = o[c + 1]
            /\ \A i \in 1..c : \A k \in 1..Len(seqs[i]) : rest[o[i] + k] = seqs[i][k]
        BY <3>6 DEF PlacedAt
      <4>2. 1 \in 1..2 /\ 2 \in 1..2
        OBVIOUS
      <4>3. ASSUME NEW i \in 1..c PROVE rest[o[i] + 1] = F!CRLF /\ rest[o[i] + 2] = More
        <5>1. \A k \in 1..2 : rest[o[i] + k] = seqs[i][k]
          BY <3>3, <3>4, <4>1
        <5> QED
          BY <3>3, <3>4, <4>2, <5>1
      <4> QED
        BY <3>3, <3>4, <4>1, <4>3
    <3> DEFINE G == {i \in 1..c : o[i] = 2 * i - 2}
    <3>8. \A i \in 1..c : i \in G
      <4>1. 1 \in G
        BY <3>1, <3>7
      <4>2. ASSUME NEW i \in 1..c, i # c, i \in G PROVE i + 1 \in G
        <5>1. o[i] = 2 * i - 2 /\ o[i + 1] = o[i] + 2 /\ i + 1 \in 1..c
          BY <3>1, <3>7, <4>2
        <5>2. o[i + 1] = 2 * (i + 1) - 2
          BY <5>1
        <5> QED
          BY <5>1, <5>2
      <4> HIDE DEF G
      <4> QED
        BY <3>1, <4>1, <4>2, SetInduction
    <3>9. ASSUME NEW i \in 1..c PROVE rest[2 * i - 1] = F!CRLF /\ rest[2 * i] = More
      <4>1. o[i] + 1 = 2 * i - 1 /\ o[i] + 2 = 2 * i
        BY <3>8
      <4> QED
        BY <3>7, <4>1
    <3>10. o[c + 1] = 2 * c
      <4>1. c \in 1..c
        BY <3>1
      <4>2. o[c] = 2 * c - 2 /\ o[c + 1] = o[c] + 2
        BY <3>7, <3>8, <4>1
      <4> QED
        BY <3>1, <4>2
    <3> QED
      BY <3>7, <3>9, <3>10
  <2> QED
    BY <2>1, <2>2
<1>6. <<d>> \in Seq(FormPiece) /\ Len(<<d>>) = 1 /\ <<d>>[1] = d
  BY <1>2
<1>7. PICK h : h = HeadOf(p)
  OBVIOUS
<1>8. /\ h \in Seq(FormPiece) /\ Len(h) = 1 + 2 * c /\ h[1] = d
      /\ \A i \in 1..(2 * c) : h[1 + i] = rest[i]
  <2>1. /\ h \in Seq(FormPiece) /\ Len(h) = Len(<<d>>) + Len(rest)
        /\ \A i \in 1..Len(<<d>>) : h[i] = <<d>>[i]
        /\ \A i \in 1..Len(rest) : h[Len(<<d>>) + i] = rest[i]
    BY <1>4, <1>5, <1>6, <1>7, Concat
  <2>2. 1 \in 1..1
    OBVIOUS
  <2> QED
    BY <1>5, <1>6, <2>1, <2>2
<1>9. c \in Nat
  BY <1>1
<1>10. ASSUME NEW i \in 1..c PROVE h[2 * i] = F!CRLF /\ h[2 * i + 1] = More
  <2>1. /\ 2 * i - 1 \in 1..(2 * c) /\ 2 * i \in 1..(2 * c)
        /\ 1 + (2 * i - 1) = 2 * i /\ 1 + 2 * i = 2 * i + 1
    BY <1>9
  <2>2. h[1 + (2 * i - 1)] = rest[2 * i - 1] /\ h[1 + 2 * i] = rest[2 * i]
    BY <1>8, <2>1
  <2> QED
    BY <1>5, <2>1, <2>2
<1>11. ASSUME NEW i \in 0..c PROVE h[2 * i + 1] \notin {F!CRLF, <<>>}
  <2>1. CASE i = 0
    <3>1. 2 * i + 1 = 1
      BY <2>1
    <3> QED
      BY <1>2, <1>8, <3>1
  <2>2. CASE i # 0
    <3>1. h[2 * i + 1] = More
      BY <1>10, <2>2
    <3> QED
      BY <3>1, Pieces
  <2> QED
    BY <2>1, <2>2
<1>12. AreHeaders(h, c)
  BY <1>8, <1>9, <1>10, <1>11 DEF AreHeaders
<1> QED
  BY <1>1, <1>7, <1>8, <1>10, <1>12

\* A number is even or odd.
LEMMA Parity == ASSUME NEW k \in Nat PROVE \E i \in Nat : k = 2 * i \/ k = 2 * i + 1
<1>1. k \div 2 \in Nat /\ (k = 2 * (k \div 2) \/ k = 2 * (k \div 2) + 1)
  OBVIOUS
<1> QED
  BY <1>1

\* One text after another, named.
LEMMA ConcatAs ==
  ASSUME NEW S, NEW s \in Seq(S), NEW t \in Seq(S), NEW r, r = s \o t
  PROVE  /\ r \in Seq(S) /\ Len(r) = Len(s) + Len(t)
         /\ \A i \in 1..Len(s) : r[i] = s[i]
         /\ \A i \in 1..Len(t) : r[Len(s) + i] = t[i]
BY Concat

\* Pieces that are no boundary.
Free(s) == s \in Seq(FormPiece) /\ \A i \in 1..Len(s) : s[i] \notin {First, Final}

\* There is none in the headers of a part, ...
LEMMA HeadFree ==
  ASSUME NEW p, p.lines \in Nat, p.name \in STRING, p.filename \in STRING
  PROVE  Free(HeadOf(p)) /\ Len(HeadOf(p)) >= 1
<1>1. PICK h, c, d : h = HeadOf(p) /\ c = p.lines /\ d = F!Disposition(p.name, p.filename)
  OBVIOUS
<1>2. AreHeaders(h, c) /\ h[1] = d /\ \A i \in 1..c : h[2 * i + 1] = More
  BY <1>1, HeadersOf
<1>3. h \in Seq(FormPiece) /\ c \in Nat /\ Len(h) = 2 * c + 1 /\ \A i \in 1..c : h[2 * i] = F!CRLF
  BY <1>2 DEF AreHeaders
<1>4. d \notin {First, Final}
  <2>1. PICK name, filename : name = p.name /\ filename = p.filename /\ name \in STRING /\ filename \in STRING
    OBVIOUS
  <2>2. d = F!Disposition(name, filename)
    BY <1>1, <2>1
  <2> QED
    BY <2>1, <2>2, NameLine
<1>5. ASSUME NEW k \in 1..Len(h) PROVE h[k] \notin {First, Final}
  <2>0. k \in Nat
    BY <1>3
  <2>1. PICK i \in Nat : k = 2 * i \/ k = 2 * i + 1
    BY <2>0, Parity
  <2>2. CASE k = 2 * i
    <3>1. i \in 1..c
      BY <1>3, <2>2
    <3>2. h[k] = F!CRLF
      BY <1>3, <2>2, <3>1
    <3> QED
      BY <3>2, Pieces
  <2>3. CASE k = 2 * i + 1 /\ i # 0
    <3>1. i \in 1..c
      BY <1>3, <2>3
    <3>2. h[k] = More
      BY <1>2, <2>3, <3>1
    <3> QED
      BY <3>2, Pieces
  <2>4. CASE k = 2 * i + 1 /\ i = 0
    BY <1>2, <1>4, <2>4
  <2> QED
    BY <2>1, <2>2, <2>3, <2>4
<1> QED
  BY <1>1, <1>3, <1>5 DEF Free

\* A part as it is sent: its boundary, its headers, a blank line and its body.
IsPartText(d, h, b) ==
  /\ d \in Seq(FormPiece) /\ Len(d) = Len(h) + Len(b) + 5
  /\ d[1] = First /\ d[2] = F!CRLF
  /\ \A k \in 1..Len(h) : d[2 + k] = h[k]
  /\ d[Len(h) + 3] = F!CRLF /\ d[Len(h) + 4] = F!CRLF
  /\ \A k \in 1..Len(b) : d[Len(h) + 4 + k] = b[k]
  /\ d[Len(h) + Len(b) + 5] = F!CRLF

\* So are the pieces of a part, one after another.
LEMMA PartText ==
  ASSUME NEW h \in Seq(FormPiece), NEW b \in Seq(FormPiece)
  PROVE  IsPartText(<<First, F!CRLF>> \o h \o <<F!CRLF, F!CRLF>> \o b \o <<F!CRLF>>, h, b)
<1>1. PICK s, m, z, f, l : s = <<f, l>> /\ m = <<l, l>> /\ z = <<l>> /\ f = First /\ l = F!CRLF
  OBVIOUS
<1>2. /\ s \in Seq(FormPiece) /\ Len(s) = 2 /\ s[1] = First /\ s[2] = F!CRLF
      /\ m \in Seq(FormPiece) /\ Len(m) = 2 /\ m[1] = F!CRLF /\ m[2] = F!CRLF
      /\ z \in Seq(FormPiece) /\ Len(z) = 1 /\ z[1] = F!CRLF
  <2>1. f \in FormPiece /\ l \in FormPiece
    BY <1>1, Pieces
  <2>2. s \in Seq(FormPiece) /\ Len(s) = 2 /\ s[1] = f /\ s[2] = l
    BY <1>1, <2>1
  <2>3. m \in Seq(FormPiece) /\ Len(m) = 2 /\ m[1] = l /\ m[2] = l
    BY <1>1, <2>1
  <2>4. z \in Seq(FormPiece) /\ Len(z) = 1 /\ z[1] = l
    BY <1>1, <2>1
  <2> QED
    BY <1>1, <2>2, <2>3, <2>4
<1>3. PICK u, v, w, d : u = s \o h /\ v = u \o m /\ w = v \o b /\ d = w \o z
  OBVIOUS
<1>4. <<First, F!CRLF>> \o h \o <<F!CRLF, F!CRLF>> \o b \o <<F!CRLF>> = d
  BY <1>1, <1>3
<1>5. PICK x \in Nat, y \in Nat : x = Len(h) /\ y = Len(b)
  <2>1. Len(h) \in Nat /\ Len(b) \in Nat
    OBVIOUS
  <2> QED
    BY <2>1
<1>6. /\ u \in Seq(FormPiece) /\ Len(u) = 2 + x
      /\ \A i \in 1..2 : u[i] = s[i]
      /\ \A i \in 1..x : u[2 + i] = h[i]
  <2>1. /\ u \in Seq(FormPiece) /\ Len(u) = Len(s) + Len(h)
        /\ \A i \in 1..Len(s) : u[i] = s[i]
        /\ \A i \in 1..Len(h) : u[Len(s) + i] = h[i]
    <3>1. s \in Seq(FormPiece)
      BY <1>2, <1>3
    <3>2. h \in Seq(FormPiece) /\ u = s \o h
      BY <1>2, <1>3
    <3> QED
      BY <3>1, <3>2, ConcatAs
  <2> QED
    BY <1>2, <1>5, <2>1
<1>7. /\ v \in Seq(FormPiece) /\ Len(v) = (2 + x) + 2
      /\ \A i \in 1..(2 + x) : v[i] = u[i]
      /\ \A i \in 1..2 : v[(2 + x) + i] = m[i]
  <2>1. /\ v \in Seq(FormPiece) /\ Len(v) = Len(u) + Len(m)
        /\ \A i \in 1..Len(u) : v[i] = u[i]
        /\ \A i \in 1..Len(m) : v[Len(u) + i] = m[i]
    <3>1. u \in Seq(FormPiece)
      BY <1>2, <1>3, <1>6
    <3>2. m \in Seq(FormPiece) /\ v = u \o m
      BY <1>2, <1>3, <1>6
    <3> QED
      BY <3>1, <3>2, ConcatAs
  <2> QED
    BY <1>2, <1>6, <2>1
<1>8. /\ w \in Seq(FormPiece) /\ Len(w) = ((2 + x) + 2) + y
      /\ \A i \in 1..((2 + x) + 2) : w[i] = v[i]
      /\ \A i \in 1..y : w[((2 + x) + 2) + i] = b[i]
  <2>1. /\ w \in Seq(FormPiece) /\ Len(w) = Len(v) + Len(b)
        /\ \A i \in 1..Len(v) : w[i] = v[i]
        /\ \A i \in 1..Len(b) : w[Len(v) + i] = b[i]
    <3>1. v \in Seq(FormPiece)
      BY <1>3, <1>7
    <3>2. b \in Seq(FormPiece) /\ w = v \o b
      BY <1>3, <1>7
    <3> QED
      BY <3>1, <3>2, ConcatAs
  <2> QED
    BY <1>5, <1>7, <2>1
<1>9. /\ d \in Seq(FormPiece) /\ Len(d) = x + y + 5
      /\ \A i \in 1..(x + y + 4) : d[i] = w[i]
      /\ \A i \in 1..1 : d[x + y + 4 + i] = z[i]
  <2>1. /\ d \in Seq(FormPiece) /\ Len(d) = (((2 + x) + 2) + y) + 1
        /\ \A i \in 1..(((2 + x) + 2) + y) : d[i] = w[i]
        /\ \A i \in 1..1 : d[(((2 + x) + 2) + y) + i] = z[i]
    <3>1. /\ d \in Seq(FormPiece) /\ Len(d) = Len(w) + Len(z)
          /\ \A i \in 1..Len(w) : d[i] = w[i]
          /\ \A i \in 1..Len(z) : d[Len(w) + i] = z[i]
      <4>1. w \in Seq(FormPiece)
        BY <1>2, <1>3, <1>8
      <4>2. z \in Seq(FormPiece) /\ d = w \o z
        BY <1>2, <1>3, <1>8
      <4> QED
        BY <4>1, <4>2, ConcatAs
    <3> QED
      BY <1>2, <1>8, <3>1
  <2>2. ((2 + x) + 2) + y = x + y + 4
    OBVIOUS
  <2>3. (x + y + 4) + 1 = x + y + 5
    OBVIOUS
  <2> QED
    BY <2>1, <2>2, <2>3
<1>10. ASSUME NEW i \in 1..(x + 4) PROVE d[i] = v[i]
  <2>1. i \in 1..(x + y + 4)
    BY <1>5
  <2> QED
    BY <1>8, <1>9, <2>1
<1>11. ASSUME NEW i \in 1..(x + 2) PROVE d[i] = u[i]
  <2>1. i \in 1..(x + 4)
    BY <1>5
  <2> QED
    BY <1>7, <1>10, <2>1
<1>12. d[1] = First /\ d[2] = F!CRLF
  <2>1. 1 \in 1..(x + 2) /\ 2 \in 1..(x + 2) /\ 1 \in 1..2 /\ 2 \in 1..2
    BY <1>5
  <2> QED
    BY <1>2, <1>6, <1>11, <2>1
<1>13. ASSUME NEW k \in 1..x PROVE d[2 + k] = h[k]
  <2>1. 2 + k \in 1..(x + 2)
    BY <1>5
  <2> QED
    BY <1>6, <1>11, <2>1
<1>14. d[x + 3] = F!CRLF /\ d[x + 4] = F!CRLF
  <2>1. x + 3 \in 1..(x + 4) /\ x + 4 \in 1..(x + 4) /\ x + 2 + 1 = x + 3 /\ x + 2 + 2 = x + 4 /\ 1 \in 1..2 /\ 2 \in 1..2
    BY <1>5
  <2> QED
    BY <1>2, <1>7, <1>10, <2>1
<1>15. ASSUME NEW k \in 1..y PROVE d[x + 4 + k] = b[k]
  <2>1. x + 4 + k \in 1..(x + y + 4)
    BY <1>5
  <2> QED
    BY <1>8, <1>9, <2>1, SMTT(30)
<1>16. d[x + y + 5] = F!CRLF
  <2>1. x + y + 4 + 1 = x + y + 5 /\ 1 \in 1..1
    BY <1>5
  <2> QED
    BY <1>2, <1>9, <2>1
<1>17. IsPartText(d, h, b)
  BY <1>5, <1>9, <1>12, <1>13, <1>14, <1>15, <1>16 DEF IsPartText
<1> QED
  BY <1>4, <1>17

\* A whole form: e pieces of a preamble, the parts from q[i] on, and the last boundary.
IsMultipart(T, h, b, n, e, q) ==
  /\ n \in Nat /\ e \in {0, 1} /\ q \in [1..(n + 1) -> Nat] /\ q[1] = e
  /\ T \in Seq(FormPiece) /\ Len(T) = q[n + 1] + 2
  /\ e = 1 => T[1] = F!CRLF
  /\ \A i \in 1..n :
       /\ Free(h[i]) /\ Len(h[i]) >= 1 /\ Free(b[i])
       /\ q[i + 1] = q[i] + Len(h[i]) + Len(b[i]) + 5
       /\ T[q[i] + 1] = First /\ T[q[i] + 2] = F!CRLF
       /\ \A k \in 1..Len(h[i]) : T[q[i] + 2 + k] = h[i][k]
       /\ T[q[i] + Len(h[i]) + 3] = F!CRLF /\ T[q[i] + Len(h[i]) + 4] = F!CRLF
       /\ \A k \in 1..Len(b[i]) : T[q[i] + Len(h[i]) + 4 + k] = b[i][k]
       /\ T[q[i + 1]] = F!CRLF
  /\ \A k \in (e + 1)..q[n + 1] : \E i \in 1..n : k \in (q[i] + 1)..q[i + 1]
  /\ T[q[n + 1] + 1] = Final /\ T[q[n + 1] + 2] = F!CRLF

\* What comes before the first part.
IsPreamble(x, e) == x \in Seq(FormPiece) /\ e \in {0, 1} /\ Len(x) = e /\ (e = 1 => x[1] = F!CRLF)

\* The text of the parts alone.
LEMMA PartsPlaced ==
  ASSUME NEW n \in Nat, NEW seqs, AreTexts(FormPiece, seqs, n)
  PROVE  \E o : /\ PlacedAt(FormPiece, seqs, n, FlattenSeq(seqs), o)
                /\ \A k \in 1..o[n + 1] : \E i \in 1..n : \E j \in 1..Len(seqs[i]) : k = o[i] + j
<1>0. DOMAIN seqs = 1..n /\ \A i \in 1..n : seqs[i] \in Seq(FormPiece)
  BY DEF AreTexts
<1>1. CASE n = 0
  <2>1. seqs = <<>>
    BY <1>0, <1>1
  <2>2. PICK w : w = FlattenSeq(seqs) /\ w = <<>>
    BY <2>1, NothingDecoded
  <2> DEFINE o == [i \in 1..1 |-> 0]
  <2>3. w \in Seq(FormPiece) /\ Len(w) = 0
    BY <2>2
  <2>4. o \in [1..(n + 1) -> Nat] /\ o[1] = 0 /\ o[n + 1] = 0
    BY <1>1
  <2>5. PlacedAt(FormPiece, seqs, n, w, o)
    BY <1>1, <2>3, <2>4 DEF PlacedAt
  <2> HIDE DEF o
  <2> QED
    BY <2>2, <2>4, <2>5
<1>2. CASE n # 0
  <2>1. n \in Nat \ {0} /\ 1 \in DOMAIN seqs
    BY <1>0, <1>2
  <2>2. Len(seqs) = n /\ seqs # <<>>
    BY <1>0, <2>1
  <2>4. PICK o : PlacedAt(FormPiece, seqs, n, FlattenSeq(seqs), o)
    BY <2>1, <2>2, Flattened
  <2> QED
    BY <2>1, <2>4, InSome
<1> QED
  BY <1>1, <1>2

\* A form is put together so.
LEMMA TextOfForm ==
  ASSUME NEW parts, IsForm(parts), NEW e, NEW x, IsPreamble(x, e),
         NEW h, h = [i \in 1..Len(parts) |-> HeadOf(parts[i])],
         NEW b, b = [i \in 1..Len(parts) |-> parts[i].body]
  PROVE  \E q : IsMultipart(Multipart(parts, x), h, b, Len(parts), e, q)
<1>1. PICK n \in Nat : n = Len(parts) /\ DOMAIN parts = 1..n
  BY DEF IsForm
<1>2. ASSUME NEW i \in 1..n
      PROVE  Free(h[i]) /\ Len(h[i]) >= 1 /\ Free(b[i]) /\ h[i] = HeadOf(parts[i]) /\ b[i] = parts[i].body
  <2>1. /\ parts[i].name \in STRING /\ parts[i].filename \in STRING /\ parts[i].lines \in Nat
        /\ parts[i].body \in Seq(Seq(STRING) \ {F!Boundary("B"), F!LastBoundary("B")})
    BY <1>1 DEF IsForm
  <2>2. h[i] = HeadOf(parts[i]) /\ b[i] = parts[i].body
    BY <1>1
  <2>3. Free(HeadOf(parts[i])) /\ Len(HeadOf(parts[i])) >= 1
    BY <2>1, HeadFree
  <2>4. PICK s, A : s = parts[i].body /\ A = Seq(STRING) \ {First, Final} /\ s \in Seq(A)
    BY <2>1 DEF First, Final
  <2>5. A \subseteq FormPiece /\ First \notin A /\ Final \notin A
    BY <2>4 DEF FormPiece
  <2>6. s \in Seq(FormPiece) /\ \A k \in 1..Len(s) : s[k] \in A
    <3>1. \A k \in 1..Len(s) : s[k] \in A
      BY <2>4
    <3>2. s \in [1..Len(s) -> A] /\ Len(s) \in Nat
      BY <2>4
    <3>3. s \in [1..Len(s) -> FormPiece]
      BY <2>5, <3>2
    <3> HIDE <2>4
    <3> QED
      BY <3>1, <3>2, <3>3
  <2>7. Free(s)
    BY <2>5, <2>6 DEF Free
  <2> QED
    BY <2>2, <2>3, <2>4, <2>7
<1>3. PICK seqs : seqs = [i \in DOMAIN parts |->
          <<First, F!CRLF>> \o HeadOf(parts[i]) \o <<F!CRLF, F!CRLF>> \o parts[i].body \o <<F!CRLF>>]
  OBVIOUS
<1>4. ASSUME NEW i \in 1..n PROVE IsPartText(seqs[i], h[i], b[i])
  <2>1. PICK s, t : s = h[i] /\ t = b[i] /\ s \in Seq(FormPiece) /\ t \in Seq(FormPiece)
    BY <1>2 DEF Free
  <2>2. seqs[i] = <<First, F!CRLF>> \o s \o <<F!CRLF, F!CRLF>> \o t \o <<F!CRLF>>
    BY <1>1, <1>2, <1>3, <2>1
  <2>3. IsPartText(<<First, F!CRLF>> \o s \o <<F!CRLF, F!CRLF>> \o t \o <<F!CRLF>>, s, t)
    BY <2>1, PartText
  <2> QED
    BY <2>1, <2>2, <2>3
<1>5. PICK mid : mid = FlattenSeq(seqs)
  OBVIOUS
<1>6. PICK o : /\ PlacedAt(FormPiece, seqs, n, mid, o)
               /\ \A k \in 1..o[n + 1] : \E i \in 1..n : \E j \in 1..Len(seqs[i]) : k = o[i] + j
  <2>1. \A i \in 1..n : seqs[i] \in Seq(FormPiece)
    BY <1>4 DEF IsPartText
  <2>2. DOMAIN seqs = 1..n
    BY <1>1, <1>3
  <2>3. \E o : /\ PlacedAt(FormPiece, seqs, n, FlattenSeq(seqs), o)
               /\ \A k \in 1..o[n + 1] : \E i \in 1..n : \E j \in 1..Len(seqs[i]) : k = o[i] + j
    <3>1. Len(seqs) = n
      BY <2>2
    <3>2. AreTexts(FormPiece, seqs, n)
      BY <2>1, <2>2, <3>1 DEF AreTexts
    <3> QED
      BY <3>2, PartsPlaced
  <2> QED
    BY <1>5, <2>3
<1>7. /\ o \in [1..(n + 1) -> Nat] /\ o[1] = 0
      /\ \A i \in 1..n : o[i + 1] = o[i] + Len(seqs[i])
      /\ mid \in Seq(FormPiece) /\ Len(mid) = o[n + 1]
      /\ \A i \in 1..n : \A k \in 1..Len(seqs[i]) : mid[o[i] + k] = seqs[i][k]
  BY <1>6 DEF PlacedAt
<1>8. /\ x \in Seq(FormPiece) /\ e \in {0, 1} /\ Len(x) = e /\ (e = 1 => x[1] = F!CRLF)
  BY DEF IsPreamble
<1>9. PICK z, u, T : z = <<Final, F!CRLF>> /\ u = x \o mid /\ T = u \o z
  OBVIOUS
<1>10. z \in Seq(FormPiece) /\ Len(z) = 2 /\ z[1] = Final /\ z[2] = F!CRLF
  <2>1. PICK f, l : f = Final /\ l = F!CRLF /\ f \in FormPiece /\ l \in FormPiece
    BY Pieces
  <2> QED
    BY <1>9, <2>1
<1>11. Multipart(parts, x) = T
  BY <1>3, <1>5, <1>9, Zenon DEF Multipart, First, Final
<1>12. PICK l \in Nat : l = o[n + 1] /\ l = Len(mid)
  BY <1>7
<1>13. /\ u \in Seq(FormPiece) /\ Len(u) = e + l
       /\ \A i \in 1..e : u[i] = x[i]
       /\ \A i \in 1..l : u[e + i] = mid[i]
  <2>1. x \in Seq(FormPiece) /\ mid \in Seq(FormPiece) /\ u = x \o mid
    BY <1>7, <1>8, <1>9
  <2>2. /\ u \in Seq(FormPiece) /\ Len(u) = Len(x) + Len(mid)
        /\ \A i \in 1..Len(x) : u[i] = x[i]
        /\ \A i \in 1..Len(mid) : u[Len(x) + i] = mid[i]
    BY <2>1, ConcatAs
  <2> QED
    BY <1>8, <1>12, <2>2
<1>14. /\ T \in Seq(FormPiece) /\ Len(T) = e + l + 2
       /\ \A i \in 1..(e + l) : T[i] = u[i]
       /\ \A i \in 1..2 : T[e + l + i] = z[i]
  <2>1. u \in Seq(FormPiece) /\ z \in Seq(FormPiece) /\ T = u \o z
    BY <1>9, <1>10, <1>13
  <2>2. /\ T \in Seq(FormPiece) /\ Len(T) = Len(u) + Len(z)
        /\ \A i \in 1..Len(u) : T[i] = u[i]
        /\ \A i \in 1..Len(z) : T[Len(u) + i] = z[i]
    BY <2>1, ConcatAs
  <2> QED
    BY <1>10, <1>13, <2>2
<1>15. ASSUME NEW i \in 1..l PROVE T[e + i] = mid[i]
  <2>1. e + i \in 1..(e + l)
    BY <1>8
  <2> QED
    BY <1>13, <1>14, <2>1
<1>16. PICK q : q = [i \in 1..(n + 1) |-> e + o[i]]
  OBVIOUS
<1>17. /\ q \in [1..(n + 1) -> Nat] /\ q[1] = e /\ q[n + 1] = e + l
       /\ \A i \in 1..n : q[i + 1] = q[i] + Len(seqs[i]) /\ q[i] = e + o[i]
  <2>1. 1 \in 1..(n + 1) /\ n + 1 \in 1..(n + 1) /\ \A i \in 1..n : i \in 1..(n + 1) /\ i + 1 \in 1..(n + 1)
    OBVIOUS
  <2>2. ASSUME NEW i \in 1..n PROVE q[i + 1] = q[i] + Len(seqs[i]) /\ q[i] = e + o[i]
    <3>1. q[i + 1] = e + o[i + 1] /\ q[i] = e + o[i]
      BY <1>16, <2>1
    <3>2. o[i] \in Nat /\ o[i + 1] \in Nat /\ o[i + 1] = o[i] + Len(seqs[i]) /\ Len(seqs[i]) \in Nat
      <4>1. seqs[i] \in Seq(FormPiece)
        BY <1>4 DEF IsPartText
      <4>2. Len(seqs[i]) \in Nat
        BY <4>1
      <4> QED
        BY <1>7, <2>1, <4>2
    <3> QED
      BY <1>8, <3>1, <3>2
  <2>3. q[1] = e + o[1] /\ q[n + 1] = e + o[n + 1]
    BY <1>16, <2>1
  <2>4. q[1] = e /\ q[n + 1] = e + l
    BY <1>7, <1>8, <1>12, <2>3
  <2>5. \A i \in 1..(n + 1) : e + o[i] \in Nat
    BY <1>7, <1>8
  <2>6. q \in [1..(n + 1) -> Nat]
    BY <1>16, <2>5
  <2> QED
    BY <2>2, <2>4, <2>6
<1>18. ASSUME NEW i \in 1..n, NEW k \in 1..Len(seqs[i])
       PROVE  T[q[i] + k] = seqs[i][k]
  <2>1. PICK d \in Nat, m \in Nat, p \in Nat : d = o[i] /\ m = Len(seqs[i]) /\ p = o[i + 1] /\ k \in 1..m
    <3>1. seqs[i] \in Seq(FormPiece)
      BY <1>4 DEF IsPartText
    <3>2. Len(seqs[i]) \in Nat
      BY <3>1
    <3>3. i \in 1..(n + 1) /\ i + 1 \in 1..(n + 1)
      OBVIOUS
    <3> QED
      BY <1>7, <3>2, <3>3
  <2>2. p = d + m /\ mid[d + k] = seqs[i][k]
    BY <1>7, <2>1
  <2>3. p <= l
    <3> DEFINE G == {j \in 1..n : i <= j => p <= o[j + 1]}
    <3>1. 1 \in G
      BY <2>1
    <3>2. ASSUME NEW j \in 1..n, j # n, j \in G PROVE j + 1 \in G
      <4>1. j + 1 \in 1..n /\ o[j + 1] \in Nat /\ o[(j + 1) + 1] \in Nat /\ o[(j + 1) + 1] = o[j + 1] + Len(seqs[j + 1])
        BY <1>7, <3>2, SMTT(30)
      <4>2. Len(seqs[j + 1]) \in Nat
        <5>1. seqs[j + 1] \in Seq(FormPiece)
          BY <1>4, <4>1 DEF IsPartText
        <5> QED
          BY <5>1
      <4>3. o[j + 1] <= o[(j + 1) + 1]
        BY <4>1, <4>2
      <4>4. CASE i <= j
        BY <2>1, <3>2, <4>1, <4>3, <4>4
      <4>5. CASE ~(i <= j)
        <5>1. i <= j + 1 => i = j + 1
          BY <4>5
        <5> QED
          BY <2>1, <4>1, <5>1
      <4> QED
        BY <4>4, <4>5
    <3>3. \A j \in 1..n : j \in G
      <4> HIDE DEF G
      <4> QED
        BY <3>1, <3>2, SetInduction
    <3>4. n \in 1..n /\ i <= n
      OBVIOUS
    <3>5. p <= o[n + 1]
      BY <3>3, <3>4
    <3> QED
      BY <1>12, <3>5
  <2>4. d + k \in 1..l /\ q[i] + k = e + (d + k)
    <3>1. q[i] = e + d
      BY <1>17, <2>1
    <3>2. e \in Nat
      BY <1>8
    <3>3. k \in Nat /\ k >= 1 /\ k <= m
      BY <2>1
    <3>4. p = d + m
      BY <2>2
    <3>5. d + k <= l /\ d + k >= 1 /\ d + k \in Nat
      BY <2>3, <3>3, <3>4
    <3> QED
      BY <3>1, <3>2, <3>3, <3>5
  <2> QED
    BY <1>15, <2>2, <2>4
<1>19. ASSUME NEW i \in 1..n
       PROVE  /\ q[i + 1] = q[i] + Len(h[i]) + Len(b[i]) + 5
              /\ T[q[i] + 1] = First /\ T[q[i] + 2] = F!CRLF
              /\ \A k \in 1..Len(h[i]) : T[q[i] + 2 + k] = h[i][k]
              /\ T[q[i] + Len(h[i]) + 3] = F!CRLF /\ T[q[i] + Len(h[i]) + 4] = F!CRLF
              /\ \A k \in 1..Len(b[i]) : T[q[i] + Len(h[i]) + 4 + k] = b[i][k]
              /\ T[q[i + 1]] = F!CRLF
  <2>1. PICK d, s, t, a : d = seqs[i] /\ s = h[i] /\ t = b[i] /\ a = q[i]
    OBVIOUS
  <2>2. /\ d \in Seq(FormPiece) /\ Len(d) = Len(s) + Len(t) + 5
        /\ d[1] = First /\ d[2] = F!CRLF
        /\ \A k \in 1..Len(s) : d[2 + k] = s[k]
        /\ d[Len(s) + 3] = F!CRLF /\ d[Len(s) + 4] = F!CRLF
        /\ \A k \in 1..Len(t) : d[Len(s) + 4 + k] = t[k]
        /\ d[Len(s) + Len(t) + 5] = F!CRLF
    <3>1. IsPartText(d, s, t)
      BY <1>4, <2>1
    <3> QED
      BY <3>1 DEF IsPartText
  <2>3. PICK y \in Nat, w \in Nat : y = Len(s) /\ w = Len(t)
    <3>1. s \in Seq(FormPiece) /\ t \in Seq(FormPiece)
      BY <1>2, <2>1 DEF Free
    <3>2. Len(s) \in Nat /\ Len(t) \in Nat
      BY <3>1
    <3> QED
      BY <3>2
  <2>4. \A k \in 1..(y + w + 5) : T[a + k] = d[k]
    <3>1. Len(d) = y + w + 5
      BY <2>2, <2>3
    <3>2. \A k \in 1..Len(d) : T[a + k] = d[k]
      BY <1>18, <2>1
    <3> QED
      BY <3>1, <3>2
  <2>5. a \in Nat /\ q[i + 1] = a + (y + w + 5)
    <3>1. i \in 1..(n + 1)
      OBVIOUS
    <3>2. Len(d) = y + w + 5
      BY <2>2, <2>3
    <3>3. q[i + 1] = q[i] + Len(d) /\ q[i] \in Nat
      BY <1>17, <2>1, <3>1
    <3> QED
      BY <2>1, <3>2, <3>3
  <2>6. /\ 1 \in 1..(y + w + 5) /\ 2 \in 1..(y + w + 5) /\ y + 3 \in 1..(y + w + 5)
        /\ y + 4 \in 1..(y + w + 5) /\ y + w + 5 \in 1..(y + w + 5)
    OBVIOUS
  <2>7. T[a + 1] = First /\ T[a + 2] = F!CRLF /\ T[a + (y + 3)] = F!CRLF /\ T[a + (y + 4)] = F!CRLF
        /\ T[a + (y + w + 5)] = F!CRLF
    BY <2>2, <2>3, <2>4, <2>6
  <2>8. ASSUME NEW k \in 1..y PROVE T[a + 2 + k] = s[k]
    <3>1. 2 + k \in 1..(y + w + 5) /\ a + (2 + k) = a + 2 + k
      BY <2>5
    <3> QED
      BY <2>2, <2>3, <2>4, <3>1
  <2>9. ASSUME NEW k \in 1..w PROVE T[a + y + 4 + k] = t[k]
    <3>1. y + 4 + k \in 1..(y + w + 5) /\ a + (y + 4 + k) = a + y + 4 + k
      BY <2>5
    <3> QED
      BY <2>2, <2>3, <2>4, <3>1
  <2>10. a + (y + 3) = a + y + 3 /\ a + (y + 4) = a + y + 4 /\ a + (y + w + 5) = a + y + w + 5
    BY <2>5
  <2>11. /\ q[i + 1] = a + y + w + 5
         /\ T[a + 1] = First /\ T[a + 2] = F!CRLF
         /\ T[a + y + 3] = F!CRLF /\ T[a + y + 4] = F!CRLF
         /\ T[q[i + 1]] = F!CRLF
    <3>1. q[i + 1] = a + (y + w + 5)
      BY <2>5
    <3>2. T[q[i + 1]] = F!CRLF
      BY <2>7, <3>1
    <3>3. T[a + y + 3] = F!CRLF /\ T[a + y + 4] = F!CRLF
      BY <2>7, <2>10
    <3> QED
      BY <2>7, <2>10, <3>1, <3>2, <3>3
  <2> QED
    BY <2>1, <2>3, <2>8, <2>9, <2>11, ZenonT(40)
<1>20. ASSUME NEW k \in (e + 1)..q[n + 1] PROVE \E i \in 1..n : k \in (q[i] + 1)..q[i + 1]
  <2>1. k - e \in 1..o[n + 1]
    BY <1>8, <1>12, <1>17
  <2>2. PICK i \in 1..n : \E j \in 1..Len(seqs[i]) : k - e = o[i] + j
    BY <1>6, <2>1
  <2>3. PICK j \in 1..Len(seqs[i]) : k - e = o[i] + j
    BY <2>2
  <2>4. PICK m \in Nat, c \in Nat : m = Len(seqs[i]) /\ c = o[i]
    <3>1. seqs[i] \in Seq(FormPiece)
      BY <1>4 DEF IsPartText
    <3>2. Len(seqs[i]) \in Nat /\ i \in 1..(n + 1)
      BY <3>1
    <3> QED
      BY <1>7, <3>2
  <2>5. q[i] = e + c /\ q[i + 1] = e + c + m /\ j \in 1..m /\ k - e = c + j
    <3>1. q[i + 1] = q[i] + Len(seqs[i]) /\ q[i] = e + o[i]
      BY <1>17
    <3> QED
      BY <2>3, <2>4, <3>1
  <2>6. k \in (q[i] + 1)..q[i + 1]
    BY <1>8, <2>5
  <2> QED
    BY <2>6
<1>21. e = 1 => T[1] = F!CRLF
  <2>1. e = 1 => 1 \in 1..e /\ 1 \in 1..(e + l)
    OBVIOUS
  <2> QED
    BY <1>8, <1>13, <1>14, <2>1
<1>22. T[q[n + 1] + 1] = Final /\ T[q[n + 1] + 2] = F!CRLF
  <2>1. 1 \in 1..2 /\ 2 \in 1..2
    OBVIOUS
  <2> QED
    BY <1>10, <1>14, <1>17, <2>1
<1>23. Len(T) = q[n + 1] + 2
  BY <1>14, <1>17
<1>24. IsMultipart(T, h, b, n, e, q)
  BY <1>2, <1>8, <1>14, <1>17, <1>19, <1>20, <1>21, <1>22, <1>23 DEF IsMultipart
<1> QED
  BY <1>1, <1>11, <1>24

-----------------------------------------------------------------------------
(* Forms of parts: where the boundaries are.                               *)

\* A text of so many pieces.
LEMMA OfLength ==
  ASSUME NEW S, NEW s \in Seq(S)
  PROVE  /\ Len(s) = 1 => s = <<s[1]>>
         /\ Len(s) = 2 => s = <<s[1], s[2]>>
         /\ Len(s) = 3 => s = <<s[1], s[2], s[3]>>
<1>1. s = [i \in 1..Len(s) |-> s[i]]
  OBVIOUS
<1>2. ASSUME Len(s) = 1 PROVE s = <<s[1]>>
  BY <1>1, <1>2
<1>3. ASSUME Len(s) = 2 PROVE s = <<s[1], s[2]>>
  BY <1>1, <1>3
<1>4. ASSUME Len(s) = 3 PROVE s = <<s[1], s[2], s[3]>>
  BY <1>1, <1>4
<1> QED
  BY <1>2, <1>3, <1>4

\* A marker of one, two or three pieces, at its place.
LEMMA AtPlace ==
  ASSUME NEW S, NEW T \in Seq(S), NEW x \in Nat \ {0}, NEW u, NEW v, NEW w
  PROVE  /\ F!IsAt(T, <<u>>, x) <=> x <= Len(T) /\ T[x] = u
         /\ F!IsAt(T, <<u, v>>, x) <=> x + 1 <= Len(T) /\ T[x] = u /\ T[x + 1] = v
         /\ F!IsAt(T, <<u, v, w>>, x) <=>
              x + 2 <= Len(T) /\ T[x] = u /\ T[x + 1] = v /\ T[x + 2] = w
<1>1. PICK l \in Nat : l = Len(T)
  OBVIOUS
<1>2. ASSUME NEW d \in 0..2, x + d <= l
      PROVE  /\ SubSeq(T, x, x + d) \in Seq(S) /\ Len(SubSeq(T, x, x + d)) = d + 1
             /\ \A i \in 1..(d + 1) : SubSeq(T, x, x + d)[i] = T[x + i - 1]
  <2>1. x \in 1..(l + 1) /\ x + d \in 0..l /\ (x + d) - x + 1 = d + 1 /\ x <= x + d
    BY <1>2
  <2>2. PICK y : y = x + d
    OBVIOUS
  <2> QED
    BY <1>1, <2>1, <2>2, SubSeqProperties
<1>3. F!IsAt(T, <<u>>, x) <=> x <= Len(T) /\ T[x] = u
  <2>1. F!IsAt(T, <<u>>, x) <=> x + 0 <= l /\ SubSeq(T, x, x + 0) = <<u>>
    <3>1. PICK m : m = <<u>>
      OBVIOUS
    <3>2. Len(m) = 1
      BY <3>1
    <3>3. x + Len(m) - 1 = x + 0
      BY <3>2
    <3> QED
      BY <1>1, <3>1, <3>3 DEF F!IsAt
  <2>2. ASSUME x + 0 <= l PROVE SubSeq(T, x, x + 0) = <<u>> <=> T[x] = u
    <3>0. PICK s : s = SubSeq(T, x, x + 0)
      OBVIOUS
    <3>1. s \in Seq(S) /\ Len(s) = 1 /\ \A i \in 1..1 : s[i] = T[x + i - 1]
      <4>1. 0 \in 0..2 /\ 0 + 1 = 1
        OBVIOUS
      <4>2. /\ SubSeq(T, x, x + 0) \in Seq(S) /\ Len(SubSeq(T, x, x + 0)) = 0 + 1
            /\ \A i \in 1..(0 + 1) : SubSeq(T, x, x + 0)[i] = T[x + i - 1]
        BY <1>2, <2>2, <4>1
      <4> QED
        BY <3>0, <4>1, <4>2
    <3>2. s[1] = T[x]
      <4>1. x + 1 - 1 = x /\ 1 \in 1..1
        OBVIOUS
      <4> QED
        BY <3>1, <4>1
    <3>3. s = <<s[1]>>
      BY <3>1, OfLength
    <3>4. PICK t : t = <<u>>
      OBVIOUS
    <3>5. t[1] = u
      BY <3>4
    <3> QED
      BY <3>0, <3>2, <3>3, <3>4, <3>5
  <2> QED
    BY <1>1, <2>1, <2>2
<1>4. F!IsAt(T, <<u, v>>, x) <=> x + 1 <= Len(T) /\ T[x] = u /\ T[x + 1] = v
  <2>1. F!IsAt(T, <<u, v>>, x) <=> x + 1 <= l /\ SubSeq(T, x, x + 1) = <<u, v>>
    <3>1. PICK m : m = <<u, v>>
      OBVIOUS
    <3>2. Len(m) = 2
      BY <3>1
    <3>3. x + Len(m) - 1 = x + 1
      BY <3>2
    <3> QED
      BY <1>1, <3>1, <3>3 DEF F!IsAt
  <2>2. ASSUME x + 1 <= l PROVE SubSeq(T, x, x + 1) = <<u, v>> <=> T[x] = u /\ T[x + 1] = v
    <3>0. PICK s : s = SubSeq(T, x, x + 1)
      OBVIOUS
    <3>1. s \in Seq(S) /\ Len(s) = 2 /\ \A i \in 1..2 : s[i] = T[x + i - 1]
      <4>1. 1 \in 0..2 /\ 1 + 1 = 2
        OBVIOUS
      <4>2. /\ SubSeq(T, x, x + 1) \in Seq(S) /\ Len(SubSeq(T, x, x + 1)) = 1 + 1
            /\ \A i \in 1..(1 + 1) : SubSeq(T, x, x + 1)[i] = T[x + i - 1]
        BY <1>2, <2>2, <4>1
      <4> QED
        BY <3>0, <4>1, <4>2
    <3>2. s[1] = T[x] /\ s[2] = T[x + 1]
      <4>1. x + 1 - 1 = x /\ 1 \in 1..2 /\ x + 2 - 1 = x + 1 /\ 2 \in 1..2
        OBVIOUS
      <4> QED
        BY <3>1, <4>1
    <3>3. s = <<s[1], s[2]>>
      BY <3>1, OfLength
    <3>4. PICK t : t = <<u, v>>
      OBVIOUS
    <3>5. t[1] = u /\ t[2] = v
      BY <3>4
    <3> QED
      BY <3>0, <3>2, <3>3, <3>4, <3>5
  <2> QED
    BY <1>1, <2>1, <2>2
<1>5. F!IsAt(T, <<u, v, w>>, x) <=> x + 2 <= Len(T) /\ T[x] = u /\ T[x + 1] = v /\ T[x + 2] = w
  <2>1. F!IsAt(T, <<u, v, w>>, x) <=> x + 2 <= l /\ SubSeq(T, x, x + 2) = <<u, v, w>>
    <3>1. PICK m : m = <<u, v, w>>
      OBVIOUS
    <3>2. Len(m) = 3
      BY <3>1
    <3>3. x + Len(m) - 1 = x + 2
      BY <3>2
    <3> QED
      BY <1>1, <3>1, <3>3 DEF F!IsAt
  <2>2. ASSUME x + 2 <= l PROVE SubSeq(T, x, x + 2) = <<u, v, w>> <=> T[x] = u /\ T[x + 1] = v /\ T[x + 2] = w
    <3>0. PICK s : s = SubSeq(T, x, x + 2)
      OBVIOUS
    <3>1. s \in Seq(S) /\ Len(s) = 3 /\ \A i \in 1..3 : s[i] = T[x + i - 1]
      <4>1. 2 \in 0..2 /\ 2 + 1 = 3
        OBVIOUS
      <4>2. /\ SubSeq(T, x, x + 2) \in Seq(S) /\ Len(SubSeq(T, x, x + 2)) = 2 + 1
            /\ \A i \in 1..(2 + 1) : SubSeq(T, x, x + 2)[i] = T[x + i - 1]
        BY <1>2, <2>2, <4>1
      <4> QED
        BY <3>0, <4>1, <4>2
    <3>2. s[1] = T[x] /\ s[2] = T[x + 1] /\ s[3] = T[x + 2]
      <4>1. /\ x + 1 - 1 = x /\ x + 2 - 1 = x + 1 /\ x + 3 - 1 = x + 2
            /\ 1 \in 1..3 /\ 2 \in 1..3 /\ 3 \in 1..3
        OBVIOUS
      <4> QED
        BY <3>1, <4>1
    <3>3. s = <<s[1], s[2], s[3]>>
      BY <3>1, OfLength
    <3>4. PICK t : t = <<u, v, w>>
      OBVIOUS
    <3>5. t[1] = u /\ t[2] = v /\ t[3] = w
      BY <3>4
    <3> QED
      BY <3>0, <3>2, <3>3, <3>4, <3>5
  <2> QED
    BY <1>1, <2>1, <2>2
<1> QED
  BY <1>3, <1>4, <1>5

\* The parts begin one after the other.
LEMMA Ascending ==
  ASSUME NEW T, NEW h, NEW b, NEW n, NEW e, NEW q, IsMultipart(T, h, b, n, e, q)
  PROVE  /\ \A i, j \in 1..(n + 1) : i < j => q[i] + 6 <= q[j]
         /\ \A j \in 1..(n + 1) : e + (j - 1) <= q[j]
<1>1. /\ n \in Nat /\ e \in {0, 1} /\ q \in [1..(n + 1) -> Nat] /\ q[1] = e
      /\ \A i \in 1..n : Free(h[i]) /\ Len(h[i]) >= 1 /\ Free(b[i]) /\ q[i + 1] = q[i] + Len(h[i]) + Len(b[i]) + 5
  BY DEF IsMultipart
<1>2. ASSUME NEW i \in 1..n PROVE i \in 1..(n + 1) /\ i + 1 \in 1..(n + 1) /\ q[i] + 6 <= q[i + 1]
  <2>1. i \in 1..(n + 1) /\ i + 1 \in 1..(n + 1)
    BY <1>1
  <2>2. PICK s, t : s = h[i] /\ t = b[i] /\ s \in Seq(FormPiece) /\ t \in Seq(FormPiece)
    BY <1>1 DEF Free
  <2>3. Len(s) \in Nat /\ Len(t) \in Nat
    BY <2>2
  <2>4. q[i] \in Nat /\ q[i + 1] \in Nat /\ Len(s) >= 1 /\ q[i + 1] = q[i] + Len(s) + Len(t) + 5
    BY <1>1, <2>1, <2>2
  <2> QED
    BY <2>1, <2>3, <2>4
<1>3. n + 1 \in Nat /\ n + 1 >= 1
  BY <1>1
<1>4. ASSUME NEW i \in 1..(n + 1)
      PROVE  \A j \in 1..(n + 1) : i < j => q[i] + 6 <= q[j]
  <2> DEFINE G == {j \in 1..(n + 1) : i < j => q[i] + 6 <= q[j]}
  <2>1. 1 \in G
    BY <1>3
  <2>2. ASSUME NEW j \in 1..(n + 1), j # n + 1, j \in G PROVE j + 1 \in G
    <3>1. j \in 1..n /\ j + 1 \in 1..(n + 1)
      BY <1>1, <2>2
    <3>2. q[i] \in Nat /\ q[j] \in Nat /\ q[j + 1] \in Nat /\ q[j] + 6 <= q[j + 1]
      BY <1>1, <1>2, <3>1
    <3>3. CASE i < j
      <4>1. q[i] + 6 <= q[j]
        BY <2>2, <3>3
      <4> QED
        BY <3>1, <3>2, <4>1
    <3>4. CASE ~(i < j)
      <4>1. i < j + 1 => i = j
        BY <3>4
      <4> QED
        BY <3>1, <3>2, <4>1
    <3> QED
      BY <3>3, <3>4
  <2>3. \A j \in 1..(n + 1) : j \in G
    <3> HIDE DEF G
    <3> QED
      BY <1>3, <2>1, <2>2, SetInduction
  <2> QED
    BY <2>3
<1>5. \A j \in 1..(n + 1) : e + (j - 1) <= q[j]
  <2> DEFINE G == {j \in 1..(n + 1) : e + (j - 1) <= q[j]}
  <2>1. 1 \in G
    BY <1>1, <1>3
  <2>2. ASSUME NEW j \in 1..(n + 1), j # n + 1, j \in G PROVE j + 1 \in G
    <3>1. j \in 1..n /\ j + 1 \in 1..(n + 1)
      BY <1>1, <2>2
    <3>2. q[j] \in Nat /\ q[j + 1] \in Nat /\ q[j] + 6 <= q[j + 1] /\ e \in Nat
      BY <1>1, <1>2, <3>1
    <3>3. e + (j - 1) <= q[j]
      BY <2>2
    <3>4. e + ((j + 1) - 1) <= q[j + 1]
      BY <3>2, <3>3
    <3> QED
      BY <3>1, <3>4
  <2>3. \A j \in 1..(n + 1) : j \in G
    <3> HIDE DEF G
    <3> QED
      BY <1>3, <2>1, <2>2, SetInduction
  <2> QED
    BY <2>3
<1> QED
  BY <1>4, <1>5

\* The boundaries are where the sender put them and nowhere else.
LEMMA Boundaries ==
  ASSUME NEW T, NEW h, NEW b, NEW n, NEW e, NEW q, IsMultipart(T, h, b, n, e, q), NEW k \in 1..Len(T)
  PROVE  /\ T[k] = First => \E i \in 1..n : k = q[i] + 1
         /\ T[k] = Final => k = q[n + 1] + 1
<1>1. /\ n \in Nat /\ e \in {0, 1} /\ q \in [1..(n + 1) -> Nat] /\ q[1] = e
      /\ T \in Seq(FormPiece) /\ Len(T) = q[n + 1] + 2 /\ (e = 1 => T[1] = F!CRLF)
      /\ \A m \in (e + 1)..q[n + 1] : \E i \in 1..n : m \in (q[i] + 1)..q[i + 1]
      /\ T[q[n + 1] + 1] = Final /\ T[q[n + 1] + 2] = F!CRLF
  BY DEF IsMultipart
<1>2. q[n + 1] \in Nat /\ k \in 1..(q[n + 1] + 2)
  BY <1>1
<1>3. CASE k <= e
  <2>1. T[k] = F!CRLF
    BY <1>1, <1>2, <1>3
  <2> QED
    BY <2>1, Pieces
<1>4. CASE k = q[n + 1] + 1
  BY <1>1, <1>4, Pieces
<1>5. CASE k = q[n + 1] + 2
  BY <1>1, <1>5, Pieces
<1>6. CASE k \in (e + 1)..q[n + 1]
  <2>1. PICK i \in 1..n : k \in (q[i] + 1)..q[i + 1]
    BY <1>1, <1>6
  <2>2. PICK s, t, a, z : s = h[i] /\ t = b[i] /\ a = q[i] /\ z = q[i + 1]
    OBVIOUS
  <2>3. /\ Free(s) /\ Free(t) /\ z = a + Len(s) + Len(t) + 5
        /\ T[a + 1] = First /\ T[a + 2] = F!CRLF
        /\ \A m \in 1..Len(s) : T[a + 2 + m] = s[m]
        /\ T[a + Len(s) + 3] = F!CRLF /\ T[a + Len(s) + 4] = F!CRLF
        /\ \A m \in 1..Len(t) : T[a + Len(s) + 4 + m] = t[m]
        /\ T[z] = F!CRLF
    BY <2>2 DEF IsMultipart
  <2>4. PICK x \in Nat, y \in Nat : x = Len(s) /\ y = Len(t)
    <3>1. s \in Seq(FormPiece) /\ t \in Seq(FormPiece)
      BY <2>3 DEF Free
    <3>2. Len(s) \in Nat /\ Len(t) \in Nat
      BY <3>1
    <3> QED
      BY <3>2
  <2>5. a \in Nat /\ k \in (a + 1)..(a + x + y + 5) /\ z = a + x + y + 5
    <3>1. i \in 1..(n + 1)
      BY <1>1
    <3>2. z = a + x + y + 5
      BY <2>3, <2>4
    <3> QED
      BY <1>1, <2>1, <2>2, <3>1, <3>2
  <2>6. CASE k = a + 1
    <3>1. T[k] # Final
      BY <2>3, <2>6, Pieces
    <3> QED
      BY <2>2, <2>6, <3>1
  <2>7. CASE k \in {a + 2, a + x + 3, a + x + 4, z}
    <3>1. T[k] = F!CRLF
      BY <2>3, <2>4, <2>7
    <3> QED
      BY <3>1, Pieces
  <2>8. CASE k \in (a + 3)..(a + 2 + x)
    <3>1. PICK m \in 1..x : k = a + 2 + m
      <4>1. k - (a + 2) \in 1..x /\ k = a + 2 + (k - (a + 2))
        BY <2>5, <2>8
      <4> QED
        BY <4>1
    <3>2. T[k] = s[m] /\ s[m] \notin {First, Final}
      BY <2>3, <2>4, <3>1 DEF Free
    <3> QED
      BY <3>2
  <2>9. CASE k \in (a + x + 5)..(a + x + 4 + y)
    <3>1. PICK m \in 1..y : k = a + x + 4 + m
      <4>1. k - (a + x + 4) \in 1..y /\ k = a + x + 4 + (k - (a + x + 4))
        BY <2>5, <2>9
      <4> QED
        BY <4>1
    <3>2. T[k] = t[m] /\ t[m] \notin {First, Final}
      BY <2>3, <2>4, <3>1 DEF Free
    <3> QED
      BY <3>2
  <2>10. \/ k = a + 1 \/ k \in {a + 2, a + x + 3, a + x + 4, z}
         \/ k \in (a + 3)..(a + 2 + x) \/ k \in (a + x + 5)..(a + x + 4 + y)
    BY <2>5
  <2> QED
    BY <2>6, <2>7, <2>8, <2>9, <2>10
<1>7. k <= e \/ k = q[n + 1] + 1 \/ k = q[n + 1] + 2 \/ k \in (e + 1)..q[n + 1]
  BY <1>1, <1>2
<1> QED
  BY <1>3, <1>4, <1>5, <1>6, <1>7

-----------------------------------------------------------------------------
(* Forms of parts: a form is read as its parts.                            *)

\* The marker before a part, and that before the end of the body.
PartMarker == <<F!CRLF, First, F!CRLF>>
BodyMarker == <<F!CRLF, Final, F!CRLF>>
NextOf(T) ==
  [pos \in 1..(Len(T) + 1) |->
     IF F!Places(T, PartMarker, pos) # {} THEN F!Places(T, PartMarker, pos)
     ELSE F!Places(T, BodyMarker, pos)]

\* Where they are.
LEMMA Markers ==
  ASSUME NEW T, NEW h, NEW b, NEW n, NEW e, NEW q, IsMultipart(T, h, b, n, e, q),
         NEW pos \in 1..(Len(T) + 1), NEW x \in Nat
  PROVE  /\ x \in F!Places(T, PartMarker, pos) <=> \E i \in 1..n : x = q[i] /\ q[i] >= pos
         /\ x \in F!Places(T, BodyMarker, pos) <=> x = q[n + 1] /\ q[n + 1] >= pos
<1>1. /\ n \in Nat /\ e \in {0, 1} /\ q \in [1..(n + 1) -> Nat] /\ q[1] = e
      /\ T \in Seq(FormPiece) /\ Len(T) = q[n + 1] + 2 /\ (e = 1 => T[1] = F!CRLF)
      /\ \A i \in 1..n : T[q[i] + 1] = First /\ T[q[i] + 2] = F!CRLF /\ T[q[i + 1]] = F!CRLF
      /\ T[q[n + 1] + 1] = Final /\ T[q[n + 1] + 2] = F!CRLF
  BY DEF IsMultipart
<1>2. pos \in Nat \ {0} /\ Len(T) \in Nat /\ q[n + 1] \in Nat
  BY <1>1
<1>3. ASSUME NEW i \in 1..(n + 1), q[i] >= 1 PROVE T[q[i]] = F!CRLF
  <2>1. CASE i = 1
    BY <1>1, <1>3, <2>1
  <2>2. CASE i # 1
    <3>1. i - 1 \in 1..n /\ (i - 1) + 1 = i
      BY <1>1, <2>2
    <3>2. T[q[(i - 1) + 1]] = F!CRLF
      BY <1>1, <3>1
    <3> QED
      BY <3>1, <3>2
  <2> QED
    BY <2>1, <2>2
<1>4. \A i \in 1..n : q[i] + 6 <= q[n + 1] /\ q[i] \in Nat /\ i \in 1..(n + 1)
  <2>1. ASSUME NEW i \in 1..n PROVE q[i] + 6 <= q[n + 1] /\ q[i] \in Nat /\ i \in 1..(n + 1)
    <3>1. i \in 1..(n + 1) /\ n + 1 \in 1..(n + 1) /\ i < n + 1
      BY <1>1
    <3> QED
      BY <1>1, <3>1, Ascending
  <2> QED
    BY <2>1
<1>5. ASSUME NEW m \in {First, Final}, x >= pos
      PROVE  F!IsAt(T, <<F!CRLF, m, F!CRLF>>, x) <=>
               x + 2 <= Len(T) /\ T[x] = F!CRLF /\ T[x + 1] = m /\ T[x + 2] = F!CRLF
  <2>1. x \in Nat \ {0}
    BY <1>2, <1>5
  <2>2. T \in Seq(FormPiece)
    BY <1>1
  <2>3. PICK l : l = F!CRLF
    OBVIOUS
  <2>4. F!IsAt(T, <<l, m, l>>, x) <=> x + 2 <= Len(T) /\ T[x] = l /\ T[x + 1] = m /\ T[x + 2] = l
    BY <2>1, <2>2, AtPlace
  <2> QED
    BY <2>3, <2>4
<1>6. x \in F!Places(T, PartMarker, pos) <=>
        x >= pos /\ x + 2 <= Len(T) /\ T[x] = F!CRLF /\ T[x + 1] = First /\ T[x + 2] = F!CRLF
  <2>1. x \in F!Places(T, PartMarker, pos) <=> x \in pos..Len(T) /\ F!IsAt(T, PartMarker, x)
    BY DEF F!Places
  <2> QED
    BY <1>2, <1>5, <2>1 DEF PartMarker
<1>7. x \in F!Places(T, BodyMarker, pos) <=>
        x >= pos /\ x + 2 <= Len(T) /\ T[x] = F!CRLF /\ T[x + 1] = Final /\ T[x + 2] = F!CRLF
  <2>1. x \in F!Places(T, BodyMarker, pos) <=> x \in pos..Len(T) /\ F!IsAt(T, BodyMarker, x)
    BY DEF F!Places
  <2> QED
    BY <1>2, <1>5, <2>1 DEF BodyMarker
<1>8. x + 2 <= Len(T) /\ x >= pos => x + 1 \in 1..Len(T)
  BY <1>2
<1>9. x \in F!Places(T, PartMarker, pos) <=> \E i \in 1..n : x = q[i] /\ q[i] >= pos
  <2>1. ASSUME x \in F!Places(T, PartMarker, pos) PROVE \E i \in 1..n : x = q[i] /\ q[i] >= pos
    <3>1. x >= pos /\ x + 1 \in 1..Len(T) /\ T[x + 1] = First
      BY <1>6, <1>8, <2>1
    <3>2. PICK i \in 1..n : x + 1 = q[i] + 1
      BY <3>1, Boundaries
    <3>3. x = q[i]
      BY <1>4, <3>2
    <3> QED
      BY <3>1, <3>3
  <2>2. ASSUME NEW i \in 1..n, x = q[i], q[i] >= pos PROVE x \in F!Places(T, PartMarker, pos)
    <3>0. x + 6 <= q[n + 1] /\ x >= pos
      BY <1>4, <2>2
    <3>1. x >= 1 /\ x + 2 <= Len(T)
      <4>1. Len(T) = q[n + 1] + 2
        BY <1>1
      <4> QED
        BY <1>2, <3>0, <4>1
    <3>2. T[x] = F!CRLF
      BY <1>3, <1>4, <2>2, <3>1
    <3>3. T[x + 1] = First /\ T[x + 2] = F!CRLF
      BY <1>1, <2>2
    <3> QED
      BY <1>6, <2>2, <3>1, <3>2, <3>3
  <2> QED
    BY <2>1, <2>2
<1>10. x \in F!Places(T, BodyMarker, pos) <=> x = q[n + 1] /\ q[n + 1] >= pos
  <2>1. ASSUME x \in F!Places(T, BodyMarker, pos) PROVE x = q[n + 1] /\ q[n + 1] >= pos
    <3>1. x >= pos /\ x + 1 \in 1..Len(T) /\ T[x + 1] = Final
      BY <1>7, <1>8, <2>1
    <3>2. x + 1 = q[n + 1] + 1
      BY <3>1, Boundaries
    <3> QED
      BY <1>2, <3>1, <3>2
  <2>2. ASSUME x = q[n + 1], q[n + 1] >= pos PROVE x \in F!Places(T, BodyMarker, pos)
    <3>1. x >= 1 /\ x + 2 <= Len(T) /\ n + 1 \in 1..(n + 1)
      BY <1>1, <1>2, <2>2
    <3>2. T[x] = F!CRLF
      BY <1>3, <2>2, <3>1
    <3>3. T[x + 1] = Final /\ T[x + 2] = F!CRLF
      BY <1>1, <2>2
    <3> QED
      BY <1>7, <2>2, <3>1, <3>2, <3>3
  <2> QED
    BY <2>1, <2>2
<1> QED
  BY <1>9, <1>10

\* Places are positions.
LEMMA PlacesNat ==
  ASSUME NEW T, NEW m, NEW pos \in Nat
  PROVE  F!Places(T, m, pos) \subseteq Nat
BY DEF F!Places

\* The next cut is before the next part, or before the end of the body.
LEMMA NextPart ==
  ASSUME NEW T, NEW h, NEW b, NEW n, NEW e, NEW q, IsMultipart(T, h, b, n, e, q),
         NEW pos \in 1..(Len(T) + 1), NEW c \in 1..(n + 1), pos <= q[c],
         \A j \in 1..n : j < c => q[j] < pos
  PROVE  NextOf(T)[pos] # {} /\ F!Min(NextOf(T)[pos]) = q[c]
<1>1. n \in Nat /\ q \in [1..(n + 1) -> Nat]
  BY DEF IsMultipart
<1>2. pos \in Nat /\ q[c] \in Nat
  <2>1. Len(T) \in Nat
    BY DEF IsMultipart
  <2> QED
    BY <1>1, <2>1
<1>3. PICK P, B : P = F!Places(T, PartMarker, pos) /\ B = F!Places(T, BodyMarker, pos)
  OBVIOUS
<1>4. /\ P \subseteq Nat /\ B \subseteq Nat
      /\ \A x \in Nat : x \in P <=> \E i \in 1..n : x = q[i] /\ q[i] >= pos
      /\ \A x \in Nat : x \in B <=> x = q[n + 1] /\ q[n + 1] >= pos
  <2>1. P \subseteq Nat /\ B \subseteq Nat
    BY <1>2, <1>3, PlacesNat
  <2> QED
    BY <1>3, <2>1, Markers
<1>5. NextOf(T)[pos] = IF P # {} THEN P ELSE B
  BY <1>3 DEF NextOf
<1>6. PICK I : I = NextOf(T)[pos]
  OBVIOUS
<1>7. I \in SUBSET Int /\ q[c] \in I /\ \A y \in I : q[c] <= y
  <2>1. CASE c \in 1..n
    <3>1. q[c] \in P
      BY <1>2, <1>4, <2>1
    <3>2. I = P
      BY <1>5, <1>6, <3>1
    <3>3. ASSUME NEW y \in P PROVE q[c] <= y
      <4>1. PICK i \in 1..n : y = q[i] /\ q[i] >= pos
        BY <1>4, <3>3
      <4>2. ~(i < c) /\ i \in 1..(n + 1) /\ q[i] \in Nat
        BY <1>1, <1>2, <4>1
      <4>3. CASE i = c
        BY <1>2, <4>1, <4>3
      <4>4. CASE c < i
        <5>1. q[c] + 6 <= q[i]
          BY <4>2, <4>4, Ascending
        <5> QED
          BY <1>2, <4>1, <4>2, <5>1
      <4> QED
        BY <1>1, <4>2, <4>3, <4>4
    <3> QED
      BY <1>4, <3>1, <3>2, <3>3
  <2>2. CASE c = n + 1
    <3>1. P = {}
      <4>1. ASSUME NEW y \in P PROVE FALSE
        <5>1. PICK i \in 1..n : y = q[i] /\ q[i] >= pos
          BY <1>4, <4>1
        <5>2. i < c /\ q[i] \in Nat
          BY <1>1, <2>2
        <5> QED
          BY <1>2, <5>1, <5>2
      <4> QED
        BY <4>1
    <3>2. I = B /\ q[c] \in B
      BY <1>2, <1>4, <1>5, <1>6, <2>2, <3>1
    <3>3. \A y \in B : y = q[c]
      BY <1>4, <2>2
    <3> QED
      BY <1>2, <1>4, <3>2, <3>3
  <2> QED
    BY <1>1, <2>1, <2>2
<1>8. F!Min(I) = q[c]
  BY <1>7, Least
<1> QED
  BY <1>6, <1>7, <1>8

\* After the last boundary there is none.
LEMMA NextNone ==
  ASSUME NEW T, NEW h, NEW b, NEW n, NEW e, NEW q, IsMultipart(T, h, b, n, e, q)
  PROVE  NextOf(T)[q[n + 1] + 3] = {}
<1>1. n \in Nat /\ q \in [1..(n + 1) -> Nat] /\ Len(T) = q[n + 1] + 2
  BY DEF IsMultipart
<1>2. PICK pos : pos = q[n + 1] + 3 /\ pos \in Nat /\ pos \in 1..(Len(T) + 1)
  BY <1>1
<1>3. F!Places(T, PartMarker, pos) = {}
  <2>1. ASSUME NEW y \in F!Places(T, PartMarker, pos) PROVE FALSE
    <3>1. y \in Nat
      BY <1>2, PlacesNat
    <3>2. PICK i \in 1..n : y = q[i] /\ q[i] >= pos
      BY <1>2, <2>1, <3>1, Markers
    <3>3. i \in 1..(n + 1) /\ n + 1 \in 1..(n + 1) /\ i < n + 1
      BY <1>1
    <3>4. q[i] + 6 <= q[n + 1]
      BY <3>3, Ascending
    <3> QED
      BY <1>1, <1>2, <3>2, <3>3, <3>4, SMTT(30)
  <2> QED
    BY <2>1
<1>4. F!Places(T, BodyMarker, pos) = {}
  <2>1. ASSUME NEW y \in F!Places(T, BodyMarker, pos) PROVE FALSE
    <3>1. y \in Nat
      BY <1>2, PlacesNat
    <3>2. q[n + 1] >= pos
      BY <1>2, <2>1, <3>1, Markers
    <3> QED
      BY <1>1, <1>2, <3>2
  <2> QED
    BY <2>1
<1> QED
  BY <1>2, <1>3, <1>4 DEF NextOf

\* Where the tokens of a form begin.
Starts(n, e, q) == [i \in 1..(n + e + 1) |-> IF i = 1 THEN 1 ELSE q[i - e] + 3]

\* They do: after each part, and before the end of the body.
LEMMA StartsOfForm ==
  ASSUME NEW T, NEW h, NEW b, NEW n, NEW e, NEW q, IsMultipart(T, h, b, n, e, q), n + e >= 1
  PROVE  AreBegins(Starts(n, e, q), n + e, 3, Len(T), NextOf(T))
<1>1. n \in Nat /\ e \in {0, 1} /\ q \in [1..(n + 1) -> Nat] /\ q[1] = e /\ Len(T) = q[n + 1] + 2
  BY DEF IsMultipart
<1>2. PICK S, k : S = Starts(n, e, q) /\ k = n + e
  OBVIOUS
<1>3. k \in Nat /\ k >= 1
  BY <1>1, <1>2
<1>4. ASSUME NEW i \in 2..(k + 1) PROVE i - e \in 1..(n + 1) /\ S[i] = q[i - e] + 3 /\ q[i - e] \in Nat
  <2>1. i - e \in 1..(n + 1) /\ i \in 1..(k + 1) /\ i # 1
    BY <1>1, <1>2
  <2>2. S[i] = q[i - e] + 3
    BY <1>2, <2>1 DEF Starts
  <2> QED
    BY <1>1, <2>1, <2>2
<1>5. S[1] = 1
  <2>1. 1 \in 1..(k + 1)
    BY <1>3
  <2> QED
    BY <1>2, <2>1 DEF Starts
<1>6. S \in [1..(k + 1) -> Nat]
  <2>1. \A i \in 1..(k + 1) : S[i] \in Nat
    <3>1. ASSUME NEW i \in 1..(k + 1) PROVE S[i] \in Nat
      <4>1. i = 1 \/ i \in 2..(k + 1)
        BY <1>3
      <4> QED
        BY <1>4, <1>5, <4>1
    <3> QED
      BY <3>1
  <2>2. S = [i \in 1..(k + 1) |-> S[i]]
    BY <1>2 DEF Starts
  <2> QED
    BY <2>1, <2>2
<1>7. k <= Len(T)
  <2>1. e + ((n + 1) - 1) <= q[n + 1] /\ q[n + 1] \in Nat
    <3>1. n + 1 \in 1..(n + 1)
      BY <1>1
    <3> QED
      BY <1>1, <3>1, Ascending
  <2> QED
    BY <1>1, <1>2, <2>1
<1>8. ASSUME NEW i \in 1..k
      PROVE  NextOf(T)[S[i]] # {} /\ S[i + 1] = F!Min(NextOf(T)[S[i]]) + 3
  <2>1. PICK c : c = i + 1 - e
    OBVIOUS
  <2>2. c \in 1..(n + 1) /\ q[c] \in Nat /\ i + 1 \in 2..(k + 1) /\ (i + 1) - e = c
    BY <1>1, <1>2, <2>1
  <2>3. S[i + 1] = q[c] + 3
    BY <1>4, <2>2
  <2>4. \A j \in 1..(n + 1) : j < c => q[j] + 6 <= q[c] /\ q[j] \in Nat
    BY <1>1, <2>2, Ascending
  <2>5. S[i] \in Nat \ {0} /\ S[i] <= q[c] /\ \A j \in 1..n : j < c => q[j] < S[i]
    <3>1. CASE i = 1
      <4>1. CASE e = 1
        <5>1. c = 1 /\ q[c] = 1
          BY <1>1, <2>1, <3>1, <4>1
        <5> QED
          BY <1>1, <1>5, <3>1, <5>1
      <4>2. CASE e = 0
        <5>1. c = 2 /\ q[1] = 0 /\ 1 \in 1..(n + 1)
          BY <1>1, <2>1, <3>1, <4>2
        <5>2. q[1] + 6 <= q[c]
          BY <2>4, <5>1
        <5>3. S[i] = 1
          BY <1>5, <3>1
        <5>4. \A j \in 1..n : j < c => j = 1
          BY <5>1
        <5> QED
          BY <2>2, <5>1, <5>2, <5>3, <5>4
      <4> QED
        BY <1>1, <4>1, <4>2
    <3>2. CASE i # 1
      <4>1. i \in 2..(k + 1) /\ i - e < c /\ c = (i - e) + 1
        BY <1>1, <1>2, <1>3, <2>1, <3>2
      <4>2. i - e \in 1..(n + 1) /\ S[i] = q[i - e] + 3 /\ q[i - e] \in Nat
        BY <1>4, <4>1
      <4>3. q[i - e] + 6 <= q[c]
        BY <2>4, <4>1, <4>2
      <4>4. ASSUME NEW j \in 1..n, j < c PROVE q[j] < S[i]
        <5>1. j \in 1..(n + 1) /\ q[j] \in Nat /\ (j = i - e \/ j < i - e)
          BY <1>1, <4>1, <4>2, <4>4
        <5>2. j < i - e => q[j] + 6 <= q[i - e]
          BY <4>2, <5>1, Ascending
        <5> QED
          BY <4>2, <5>1, <5>2
      <4> QED
        BY <2>2, <4>2, <4>3, <4>4
    <3> QED
      BY <3>1, <3>2
  <2>6. S[i] \in 1..(Len(T) + 1)
    <3>1. q[c] <= q[n + 1] /\ q[n + 1] \in Nat
      <4>1. n + 1 \in 1..(n + 1) /\ (c = n + 1 \/ c < n + 1)
        BY <1>1, <2>2
      <4>2. c < n + 1 => q[c] + 6 <= q[n + 1]
        BY <2>2, <4>1, Ascending
      <4> QED
        BY <1>1, <2>2, <4>1, <4>2
    <3> QED
      BY <1>1, <2>2, <2>5, <3>1
  <2>7. NextOf(T)[S[i]] # {} /\ F!Min(NextOf(T)[S[i]]) = q[c]
    <3>1. PICK pos : pos = S[i]
      OBVIOUS
    <3>2. pos \in 1..(Len(T) + 1) /\ pos <= q[c] /\ \A j \in 1..n : j < c => q[j] < pos
      BY <2>5, <2>6, <3>1
    <3> QED
      BY <2>2, <3>1, <3>2, NextPart
  <2> QED
    BY <2>3, <2>7
<1>9. NextOf(T)[S[k + 1]] = {}
  <2>1. k + 1 \in 2..(k + 1) /\ (k + 1) - e = n + 1
    BY <1>1, <1>2, <1>3
  <2>2. S[k + 1] = q[n + 1] + 3
    BY <1>4, <2>1
  <2> QED
    BY <2>2, NextNone
<1> QED
  BY <1>2, <1>5, <1>6, <1>7, <1>8, <1>9 DEF AreBegins

\* What is between two markers: the first part may come with its boundary.
PartToken(T, e, q, j) == SubSeq(T, IF e = 0 /\ j = 1 THEN 1 ELSE q[j] + 3, q[j + 1] - 1)

\* A form is read as its parts, each once and in order.
LEMMA PartsOfForm ==
  ASSUME NEW T, NEW h, NEW b, NEW n, NEW e, NEW q, IsMultipart(T, h, b, n, e, q), n + e >= 1
  PROVE  F!Parts(T, "B") = [j \in 1..n |-> PartToken(T, e, q, j)]
<1>1. /\ n \in Nat /\ e \in {0, 1} /\ q \in [1..(n + 1) -> Nat] /\ q[1] = e
      /\ T \in Seq(FormPiece) /\ Len(T) = q[n + 1] + 2
  BY DEF IsMultipart
<1>2. PICK S, k, m : S = Starts(n, e, q) /\ k = n + e /\ m = n + e + 1
  OBVIOUS
<1>3. k \in Nat /\ k >= 1 /\ m \in Nat \ {0} /\ m = k + 1 /\ e < m /\ m - 1 - e = n
  BY <1>1, <1>2
<1>4. PICK t : t = [i \in 1..m |-> TokenOf(T, S, k, 3, i)]
  OBVIOUS
<1>5. PICK N \in Nat : N = Len(T)
  BY <1>1
<1>6. F!Cuts(T, 3, N, NextOf(T)) = t
  <2>1. AreBegins(S, k, 3, N, NextOf(T))
    BY <1>2, <1>5, StartsOfForm
  <2>2. F!Cuts(T, 3, N, NextOf(T)) = [i \in 1..(k + 1) |-> TokenOf(T, S, k, 3, i)]
    BY <1>3, <2>1, CutsAre
  <2> QED
    BY <1>3, <1>4, <2>2
<1>7. F!Parts(T, "B") = F!SkipEmpty(t)
  <2>1. F!Parts(T, "B") = F!SkipEmpty(F!Cuts(T, 3, Len(T), NextOf(T)))
    BY Zenon DEF F!Parts, NextOf, PartMarker, BodyMarker, First, Final
  <2> QED
    BY <1>5, <1>6, <2>1
<1>8. \A i \in 1..m : i # 1 => S[i] = q[i - e] + 3
  BY <1>2, <1>3 DEF Starts
<1>9. S[1] = 1
  BY <1>2, <1>3 DEF Starts
<1>10. t[m] = <<>>
  <2>1. m \in 1..m /\ m # 1 /\ m - e = n + 1
    BY <1>1, <1>2, <1>3
  <2>2. S[m] = q[n + 1] + 3
    BY <1>8, <2>1
  <2>3. t[m] = SubSeq(T, S[m], Len(T))
    BY <1>3, <1>4, <2>1 DEF TokenOf
  <2>4. S[m] \in Int /\ Len(T) \in Int /\ Len(T) < S[m]
    BY <1>1, <2>2
  <2> QED
    BY <2>3, <2>4, SubSeqEmpty
<1>11. ASSUME NEW j \in 1..n PROVE t[e + j] = PartToken(T, e, q, j)
  <2>1. PICK i : i = e + j
    OBVIOUS
  <2>2. i \in 1..m /\ i # k + 1 /\ i + 1 \in 1..m /\ i + 1 # 1 /\ (i + 1) - e = j + 1 /\ i - e = j
        /\ (i = 1 <=> e = 0 /\ j = 1)
    BY <1>1, <1>2, <1>3, <2>1
  <2>3. S[i + 1] = q[j + 1] + 3
    BY <1>8, <2>2
  <2>4. S[i] = IF e = 0 /\ j = 1 THEN 1 ELSE q[j] + 3
    BY <1>8, <1>9, <2>2
  <2>5. t[i] = SubSeq(T, S[i], S[i + 1] - 3 - 1)
    BY <1>4, <2>2 DEF TokenOf
  <2>6. S[i + 1] - 3 - 1 = q[j + 1] - 1
    <3>1. q[j + 1] \in Nat
      <4>1. j + 1 \in 1..(n + 1)
        BY <1>1
      <4> QED
        BY <1>1, <4>1
    <3> QED
      BY <2>3, <3>1
  <2> QED
    BY <2>1, <2>4, <2>5, <2>6 DEF PartToken
<1>12. e = 1 => t[1] = <<>>
  <2>1. SUFFICES ASSUME e = 1 PROVE t[1] = <<>>
    OBVIOUS
  <2>2. 1 \in 1..m /\ 1 # k + 1 /\ 1 + 1 \in 1..m /\ 1 + 1 # 1 /\ (1 + 1) - e = 1
    BY <1>1, <1>3, <2>1
  <2>3. S[1 + 1] = q[1] + 3
    BY <1>8, <2>2
  <2>4. t[1] = SubSeq(T, S[1], S[1 + 1] - 3 - 1)
    BY <1>4, <2>2 DEF TokenOf
  <2>5. S[1 + 1] - 3 - 1 = 0
    BY <1>1, <2>1, <2>3
  <2>6. t[1] = SubSeq(T, 1, 0)
    BY <1>9, <2>4, <2>5
  <2> QED
    BY <2>6, SubSeqEmpty
<1>13. ASSUME NEW j \in 1..n PROVE PartToken(T, e, q, j) # <<>>
  <2>1. j \in 1..(n + 1) /\ j + 1 \in 1..(n + 1) /\ j < j + 1
    BY <1>1
  <2>2. q[j] \in Nat /\ q[j + 1] \in Nat /\ q[j] + 6 <= q[j + 1]
    BY <1>1, <2>1, Ascending
  <2>3. q[j + 1] <= q[n + 1] /\ q[n + 1] \in Nat
    <3>1. n + 1 \in 1..(n + 1) /\ (j + 1 = n + 1 \/ j + 1 < n + 1)
      BY <1>1
    <3>2. j + 1 < n + 1 => q[j + 1] + 6 <= q[n + 1]
      BY <2>1, <3>1, Ascending
    <3> QED
      BY <1>1, <2>2, <3>1, <3>2, SMTT(30)
  <2>4. PICK x, y : x = (IF e = 0 /\ j = 1 THEN 1 ELSE q[j] + 3) /\ y = q[j + 1] - 1
    OBVIOUS
  <2>5. x \in Int /\ y \in Int /\ x <= y /\ x >= 1 /\ y <= Len(T)
    <3>1. x \in Int /\ x >= 1 /\ x <= q[j] + 3
      BY <2>2, <2>4
    <3>2. y = q[j + 1] - 1 /\ Len(T) = q[n + 1] + 2
      BY <1>1, <2>4
    <3> QED
      BY <2>2, <2>3, <3>1, <3>2, SMTT(30)
  <2>6. \A i \in x..y : T[i] \in FormPiece
    <3>1. \A i \in x..y : i \in 1..Len(T)
      BY <1>1, <1>5, <2>5
    <3> QED
      BY <1>1, <3>1
  <2>7. Len(SubSeq(T, x, y)) = y - x + 1
    BY <2>5, <2>6, SubSeqProperties
  <2>8. SubSeq(T, x, y) # <<>>
    <3>1. y - x + 1 # 0 /\ Len(<<>>) = 0
      BY <2>5
    <3> QED
      BY <2>7, <3>1
  <2> QED
    BY <2>4, <2>8 DEF PartToken
<1>14. ASSUME NEW i \in (e + 1)..(m - 1) PROVE t[i] # <<>>
  <2>1. PICK j \in 1..n : i = e + j
    <3>1. i - e \in 1..n /\ i = e + (i - e)
      BY <1>1, <1>3
    <3> QED
      BY <3>1
  <2> QED
    BY <1>11, <1>13, <2>1
<1>15. EmptyAround(t, m, e)
  <2>1. t = [i \in 1..m |-> t[i]]
    BY <1>4
  <2> QED
    BY <1>1, <1>3, <1>10, <1>12, <1>14, <2>1 DEF EmptyAround
<1>16. F!SkipEmpty(t) = [j \in 1..(m - 1 - e) |-> t[e + j]]
  BY <1>3, <1>15, SkipsEmpty
<1>17. [j \in 1..n |-> t[e + j]] = [j \in 1..n |-> PartToken(T, e, q, j)]
  BY <1>11
<1> QED
  BY <1>3, <1>7, <1>16, <1>17

-----------------------------------------------------------------------------
(* Forms of parts: a part is cut after its headers.                        *)

\* The place of one piece.
LEMMA AtOne ==
  ASSUME NEW S, NEW T \in Seq(S), NEW x \in Nat \ {0}, NEW u
  PROVE  F!IsAt(T, <<u>>, x) <=> x <= Len(T) /\ T[x] = u
BY AtPlace

\* The place of two pieces.
LEMMA AtTwo ==
  ASSUME NEW S, NEW T \in Seq(S), NEW x \in Nat \ {0}, NEW u, NEW v
  PROVE  F!IsAt(T, <<u, v>>, x) <=> x + 1 <= Len(T) /\ T[x] = u /\ T[x + 1] = v
BY AtPlace

\* The headers alone, cut at their line ends.
HeaderStarts(c) == [i \in 1..(c + 1) |-> 2 * i - 1]

\* Each line is a token of its own, once.
LEMMA HeadersSplit ==
  ASSUME NEW H, NEW c, AreHeaders(H, c), NEW N \in Nat, c <= N
  PROVE  F!StrSplit(H, <<F!CRLF>>, N) = [i \in 1..(c + 1) |-> <<H[2 * i - 1]>>]
<1>1. /\ H \in Seq(FormPiece) /\ c \in Nat /\ Len(H) = 2 * c + 1
      /\ \A i \in 1..c : H[2 * i] = F!CRLF
      /\ \A i \in 0..c : H[2 * i + 1] \notin {F!CRLF, <<>>}
  BY DEF AreHeaders
<1>2. PICK m, next, S : /\ m = <<F!CRLF>>
                        /\ next = [pos \in 1..(Len(H) + 1) |-> F!Places(H, m, pos)]
                        /\ S = HeaderStarts(c)
  OBVIOUS
<1>3. Len(m) = 1
  BY <1>2
<1>4. F!StrSplit(H, <<F!CRLF>>, N) = F!Cuts(H, 1, N, next)
  BY <1>2, <1>3, Zenon DEF F!StrSplit
<1>5. ASSUME NEW pos \in 1..(Len(H) + 1), NEW x \in Nat
      PROVE  x \in F!Places(H, m, pos) <=> x >= pos /\ \E i \in 1..c : x = 2 * i
  <2>1. pos \in Nat \ {0}
    BY <1>1
  <2>2. x \in F!Places(H, m, pos) <=> x \in pos..Len(H) /\ F!IsAt(H, m, x)
    BY DEF F!Places
  <2>3. ASSUME x >= pos PROVE F!IsAt(H, m, x) <=> x <= Len(H) /\ H[x] = F!CRLF
    <3>1. PICK l : l = F!CRLF /\ m = <<l>>
      BY <1>2
    <3>2. x \in Nat \ {0}
      BY <2>1, <2>3
    <3>3. F!IsAt(H, <<l>>, x) <=> x <= Len(H) /\ H[x] = l
      BY <1>1, <3>2, AtOne
    <3> QED
      BY <3>1, <3>3
  <2>4. x >= pos /\ x <= Len(H) => (H[x] = F!CRLF <=> \E i \in 1..c : x = 2 * i)
    <3> SUFFICES ASSUME x >= pos, x <= Len(H) PROVE H[x] = F!CRLF <=> \E i \in 1..c : x = 2 * i
      OBVIOUS
    <3>1. PICK i \in Nat : x = 2 * i \/ x = 2 * i + 1
      BY Parity
    <3>2. CASE x = 2 * i
      <4>1. i \in 1..c
        BY <1>1, <2>1, <3>2
      <4> QED
        BY <1>1, <3>2, <4>1
    <3>3. CASE x = 2 * i + 1
      <4>1. i \in 0..c
        BY <1>1, <3>3
      <4>2. H[x] # F!CRLF
        BY <1>1, <3>3, <4>1
      <4>3. ~\E j \in 1..c : x = 2 * j
        BY <3>3
      <4> QED
        BY <4>2, <4>3
    <3> QED
      BY <3>1, <3>2, <3>3
  <2>5. \A i \in 1..c : 2 * i <= Len(H)
    BY <1>1
  <2> QED
    BY <1>1, <2>1, <2>2, <2>3, <2>4, <2>5
<1>6. ASSUME NEW i \in 1..c PROVE next[2 * i - 1] # {} /\ F!Min(next[2 * i - 1]) = 2 * i
  <2>1. PICK pos, I, x : pos = 2 * i - 1 /\ I = F!Places(H, m, pos) /\ x = 2 * i
    OBVIOUS
  <2>2. pos \in 1..(Len(H) + 1) /\ pos \in Nat /\ x \in Nat /\ x >= pos
    BY <1>1, <2>1
  <2>3. next[pos] = I
    BY <1>2, <2>1, <2>2
  <2>4. I \subseteq Nat
    BY <2>1, <2>2, PlacesNat
  <2>5. x \in I
    BY <1>5, <2>1, <2>2
  <2>6. ASSUME NEW y \in I PROVE x <= y
    <3>1. y \in Nat
      BY <2>4
    <3>2. y >= pos /\ \E j \in 1..c : y = 2 * j
      BY <1>5, <2>1, <2>2, <3>1
    <3>3. PICK j \in 1..c : y = 2 * j
      BY <3>2
    <3> QED
      BY <2>1, <3>2, <3>3
  <2>7. I \in SUBSET Int
    BY <2>4
  <2>8. F!Min(I) = x
    BY <2>5, <2>6, <2>7, Least
  <2> QED
    BY <2>1, <2>3, <2>5, <2>8
<1>7. next[2 * c + 1] = {}
  <2>1. PICK pos, I : pos = 2 * c + 1 /\ I = F!Places(H, m, pos)
    OBVIOUS
  <2>2. pos \in 1..(Len(H) + 1) /\ pos \in Nat
    BY <1>1, <2>1
  <2>3. next[pos] = I
    BY <1>2, <2>1, <2>2
  <2>4. ASSUME NEW y \in I PROVE FALSE
    <3>1. y \in Nat
      BY <2>1, <2>2, PlacesNat
    <3>2. y >= pos /\ \E j \in 1..c : y = 2 * j
      BY <1>5, <2>1, <2>2, <2>4, <3>1
    <3>3. PICK j \in 1..c : y = 2 * j
      BY <3>2
    <3> QED
      BY <1>1, <2>1, <3>2, <3>3
  <2> QED
    BY <2>1, <2>3, <2>4
<1>8. \A i \in 1..(c + 1) : S[i] = 2 * i - 1 /\ S[i] \in Nat
  <2>1. ASSUME NEW i \in 1..(c + 1) PROVE S[i] = 2 * i - 1 /\ S[i] \in Nat
    <3>1. S[i] = 2 * i - 1
      BY <1>2 DEF HeaderStarts
    <3> QED
      BY <1>1, <3>1
  <2> QED
    BY <2>1
<1>9. AreBegins(S, c, 1, N, next)
  <2>1. S \in [1..(c + 1) -> Nat]
    <3>1. S = [i \in 1..(c + 1) |-> S[i]]
      BY <1>2 DEF HeaderStarts
    <3> QED
      BY <1>8, <3>1
  <2>2. S[1] = 1
    <3>1. 1 \in 1..(c + 1) /\ 2 * 1 - 1 = 1
      BY <1>1
    <3> QED
      BY <1>8, <3>1
  <2>3. ASSUME NEW i \in 1..c PROVE next[S[i]] # {} /\ S[i + 1] = F!Min(next[S[i]]) + 1
    <3>1. i \in 1..(c + 1) /\ i + 1 \in 1..(c + 1) /\ 2 * (i + 1) - 1 = 2 * i + 1
      BY <1>1
    <3>2. S[i] = 2 * i - 1 /\ S[i + 1] = 2 * i + 1
      BY <1>8, <3>1
    <3> QED
      BY <1>6, <3>2
  <2>4. next[S[c + 1]] = {}
    <3>1. c + 1 \in 1..(c + 1) /\ 2 * (c + 1) - 1 = 2 * c + 1
      BY <1>1
    <3> QED
      BY <1>7, <1>8, <3>1
  <2> QED
    BY <2>1, <2>2, <2>3, <2>4 DEF AreBegins
<1>10. F!Cuts(H, 1, N, next) = [i \in 1..(c + 1) |-> TokenOf(H, S, c, 1, i)]
  BY <1>1, <1>9, CutsAre
<1>11. ASSUME NEW i \in 1..(c + 1) PROVE TokenOf(H, S, c, 1, i) = <<H[2 * i - 1]>>
  <2>1. PICK x : x = 2 * i - 1 /\ x \in Nat \ {0} /\ x <= Len(H)
    BY <1>1
  <2>2. TokenOf(H, S, c, 1, i) = SubSeq(H, x, x)
    <3>1. CASE i = c + 1
      <4>1. x = Len(H) /\ S[i] = x
        BY <1>1, <1>8, <2>1, <3>1
      <4> QED
        BY <3>1, <4>1 DEF TokenOf
    <3>2. CASE i # c + 1
      <4>1. i + 1 \in 1..(c + 1) /\ (2 * (i + 1) - 1) - 1 - 1 = x
        BY <1>1, <2>1, <3>2
      <4>2. S[i] = x /\ S[i + 1] = 2 * (i + 1) - 1
        BY <1>8, <2>1, <4>1
      <4> QED
        BY <3>2, <4>1, <4>2 DEF TokenOf
    <3> QED
      BY <3>1, <3>2
  <2>3. PICK u : u = H[x]
    OBVIOUS
  <2>4. F!IsAt(H, <<u>>, x)
    BY <1>1, <2>1, <2>3, AtOne
  <2>5. SubSeq(H, x, x) = <<u>>
    <3>1. PICK s : s = <<u>>
      OBVIOUS
    <3>2. Len(s) = 1
      BY <3>1
    <3>3. x + Len(s) - 1 = x
      BY <2>1, <3>2
    <3> QED
      BY <2>4, <3>1, <3>3 DEF F!IsAt
  <2> QED
    BY <2>1, <2>2, <2>3, <2>5
<1> QED
  BY <1>4, <1>10, <1>11

\* The text of a part between two boundaries: headers, a blank line and the body.
IsToken(p, H, b) ==
  /\ p \in Seq(FormPiece) /\ Len(p) = Len(H) + 2 + Len(b)
  /\ \A i \in 1..Len(H) : p[i] = H[i]
  /\ p[Len(H) + 1] = F!CRLF /\ p[Len(H) + 2] = F!CRLF
  /\ \A i \in 1..Len(b) : p[Len(H) + 2 + i] = b[i]

Blank(b) == \E i \in 1..(Len(b) - 1) : b[i] = F!CRLF /\ b[i + 1] = F!CRLF

\* Where a blank line may be in a part: after the headers, and in the body.
LEMMA BlankLines ==
  ASSUME NEW p, NEW H, NEW c, NEW b \in Seq(FormPiece), AreHeaders(H, c), IsToken(p, H, b),
         NEW pos \in Nat \ {0}, NEW x \in Nat
  PROVE  x \in F!Places(p, <<F!CRLF, F!CRLF>>, pos) <=>
           /\ x >= pos
           /\ \/ x = Len(H) + 1
              \/ x = Len(H) + 2 /\ Len(b) >= 1 /\ b[1] = F!CRLF
              \/ \E i \in 1..(Len(b) - 1) : x = Len(H) + 2 + i /\ b[i] = F!CRLF /\ b[i + 1] = F!CRLF
<1>1. /\ H \in Seq(FormPiece) /\ c \in Nat /\ Len(H) = 2 * c + 1
      /\ \A i \in 1..c : H[2 * i] = F!CRLF
      /\ \A i \in 0..c : H[2 * i + 1] \notin {F!CRLF, <<>>}
  BY DEF AreHeaders
<1>2. PICK y \in Nat, w \in Nat : y = Len(H) /\ w = Len(b) /\ y = 2 * c + 1
  BY <1>1
<1>3. /\ p \in Seq(FormPiece) /\ Len(p) = y + 2 + w
      /\ \A i \in 1..y : p[i] = H[i]
      /\ p[y + 1] = F!CRLF /\ p[y + 2] = F!CRLF
      /\ \A i \in 1..w : p[y + 2 + i] = b[i]
  BY <1>2 DEF IsToken
<1>4. x \in F!Places(p, <<F!CRLF, F!CRLF>>, pos) <=>
        x >= pos /\ x + 1 <= y + 2 + w /\ p[x] = F!CRLF /\ p[x + 1] = F!CRLF
  <2>1. PICK l, m : l = F!CRLF /\ m = <<l, l>>
    OBVIOUS
  <2>2. x \in F!Places(p, m, pos) <=> x \in pos..Len(p) /\ F!IsAt(p, m, x)
    BY DEF F!Places
  <2>3. ASSUME x >= pos PROVE F!IsAt(p, <<l, l>>, x) <=> x + 1 <= Len(p) /\ p[x] = l /\ p[x + 1] = l
    <3>1. x \in Nat \ {0}
      BY <2>3
    <3>2. p \in Seq(FormPiece)
      BY <1>3
    <3> QED
      BY <3>1, <3>2, AtTwo
  <2>4. x >= pos /\ x + 1 <= Len(p) => x \in pos..Len(p)
    BY <1>3
  <2>5. x \in pos..Len(p) => x >= pos
    OBVIOUS
  <2>6. Len(p) = y + 2 + w
    BY <1>3
  <2>7. x \in F!Places(p, m, pos) <=> x >= pos /\ x + 1 <= Len(p) /\ p[x] = l /\ p[x + 1] = l
    BY <2>1, <2>2, <2>3, <2>4, <2>5
  <2> QED
    BY <2>1, <2>6, <2>7
<1>5. ASSUME x >= pos, x < y + 1 PROVE ~(p[x] = F!CRLF /\ p[x + 1] = F!CRLF)
  <2>0. x >= 1
    BY <1>5
  <2>1. PICK i \in Nat : x = 2 * i \/ x = 2 * i + 1
    BY Parity
  <2>2. CASE x = 2 * i
    <3>1. i \in 0..c /\ x + 1 \in 1..y
      BY <1>1, <1>2, <1>5, <2>0, <2>2
    <3>2. p[x + 1] = H[2 * i + 1]
      BY <1>3, <2>2, <3>1
    <3> QED
      BY <1>1, <3>1, <3>2
  <2>3. CASE x = 2 * i + 1
    <3>1. i \in 0..c /\ x \in 1..y
      BY <1>1, <1>2, <1>5, <2>0, <2>3
    <3>2. p[x] = H[2 * i + 1]
      BY <1>3, <2>3, <3>1
    <3> QED
      BY <1>1, <3>1, <3>2
  <2> QED
    BY <2>1, <2>2, <2>3
<1>6. x = y + 1 => x + 1 <= y + 2 + w /\ p[x] = F!CRLF /\ p[x + 1] = F!CRLF
  <2>1. (y + 1) + 1 = y + 2 /\ y + 2 <= y + 2 + w
    OBVIOUS
  <2> QED
    BY <1>3, <2>1
<1>7. x = y + 2 => (x + 1 <= y + 2 + w /\ p[x] = F!CRLF /\ p[x + 1] = F!CRLF <=> w >= 1 /\ b[1] = F!CRLF)
  <2>1. SUFFICES ASSUME x = y + 2 PROVE x + 1 <= y + 2 + w /\ p[x] = F!CRLF /\ p[x + 1] = F!CRLF <=> w >= 1 /\ b[1] = F!CRLF
    OBVIOUS
  <2>2. x + 1 <= y + 2 + w <=> w >= 1
    BY <2>1
  <2>3. w >= 1 => p[x + 1] = b[1]
    <3>1. x + 1 = y + 2 + 1 /\ (w >= 1 => 1 \in 1..w)
      BY <2>1
    <3> QED
      BY <1>3, <3>1
  <2> QED
    BY <1>3, <2>1, <2>2, <2>3
<1>8. ASSUME x > y + 2
      PROVE  x + 1 <= y + 2 + w /\ p[x] = F!CRLF /\ p[x + 1] = F!CRLF <=>
             \E i \in 1..(w - 1) : x = y + 2 + i /\ b[i] = F!CRLF /\ b[i + 1] = F!CRLF
  <2>1. PICK j \in Nat : x = y + 2 + j /\ j >= 1
    <3>1. x - (y + 2) \in Nat /\ x = y + 2 + (x - (y + 2)) /\ x - (y + 2) >= 1
      BY <1>8
    <3> QED
      BY <3>1
  <2>2. x + 1 <= y + 2 + w <=> j \in 1..(w - 1)
    BY <2>1
  <2>3. ASSUME j \in 1..(w - 1) PROVE p[x] = b[j] /\ p[x + 1] = b[j + 1]
    <3>1. j \in 1..w /\ j + 1 \in 1..w /\ x + 1 = y + 2 + (j + 1)
      BY <2>1, <2>3
    <3> QED
      BY <1>3, <2>1, <3>1
  <2>4. \A i \in 1..(w - 1) : x = y + 2 + i => i = j
    BY <2>1
  <2> QED
    BY <2>1, <2>2, <2>3, <2>4
<1>9. x < y + 1 \/ x = y + 1 \/ x = y + 2 \/ x > y + 2
  OBVIOUS
<1>10. /\ \A i \in 1..(w - 1) : x = y + 2 + i => x > y + 2
       /\ ~(x < y + 1 /\ x = y + 1) /\ ~(x < y + 1 /\ x = y + 2) /\ ~(x < y + 1 /\ x > y + 2)
       /\ ~(x = y + 1 /\ x = y + 2) /\ ~(x = y + 1 /\ x > y + 2) /\ ~(x = y + 2 /\ x > y + 2)
  OBVIOUS
<1>11. x \in F!Places(p, <<F!CRLF, F!CRLF>>, pos) <=>
         /\ x >= pos
         /\ \/ x = y + 1
            \/ x = y + 2 /\ w >= 1 /\ b[1] = F!CRLF
            \/ \E i \in 1..(w - 1) : x = y + 2 + i /\ b[i] = F!CRLF /\ b[i + 1] = F!CRLF
  BY <1>4, <1>5, <1>6, <1>7, <1>8, <1>9, <1>10
<1> QED
  BY <1>2, <1>11

\* A part is cut after its headers, and once more where its body has a blank line.
LEMMA TokenSplit ==
  ASSUME NEW p, NEW H, NEW c, NEW b \in Seq(FormPiece), AreHeaders(H, c), IsToken(p, H, b)
  PROVE  /\ F!StrSplit(p, <<F!CRLF, F!CRLF>>, 2)[1] = H
         /\ Len(F!StrSplit(p, <<F!CRLF, F!CRLF>>, 2)) = IF Blank(b) THEN 3 ELSE 2
<1>1. PICK y \in Nat, w \in Nat : y = Len(H) /\ w = Len(b) /\ H \in Seq(FormPiece)
  BY DEF AreHeaders
<1>2. p \in Seq(FormPiece) /\ Len(p) = y + 2 + w /\ \A i \in 1..y : p[i] = H[i]
  BY <1>1 DEF IsToken
<1>3. PICK m, next : m = <<F!CRLF, F!CRLF>> /\ next = [pos \in 1..(Len(p) + 1) |-> F!Places(p, m, pos)]
  OBVIOUS
<1>4. Len(m) = 2
  BY <1>3
<1>5. F!StrSplit(p, <<F!CRLF, F!CRLF>>, 2) = F!Cuts(p, 2, 2, next)
  BY <1>3, <1>4, Zenon DEF F!StrSplit
<1>6. PICK I, J, x, z : I = next[1] /\ J = next[y + 3] /\ x = y + 1 /\ z = y + 3
  OBVIOUS
<1>7. 1 \in 1..(Len(p) + 1) /\ z \in 1..(Len(p) + 1) /\ 1 \in Nat \ {0} /\ z \in Nat \ {0} /\ x \in Nat
  BY <1>2, <1>6
<1>8. I = F!Places(p, m, 1) /\ J = F!Places(p, m, z)
  BY <1>3, <1>6, <1>7
<1>9. I \subseteq Nat /\ J \subseteq Nat
  <2>1. 1 \in Nat /\ z \in Nat
    BY <1>7
  <2> QED
    BY <1>8, <2>1, PlacesNat
<1>10. ASSUME NEW pos \in Nat \ {0}, NEW k \in Nat
       PROVE  k \in F!Places(p, m, pos) <=>
                /\ k >= pos
                /\ \/ k = y + 1
                   \/ k = y + 2 /\ w >= 1 /\ b[1] = F!CRLF
                   \/ \E i \in 1..(w - 1) : k = y + 2 + i /\ b[i] = F!CRLF /\ b[i + 1] = F!CRLF
  <2>1. k \in F!Places(p, <<F!CRLF, F!CRLF>>, pos) <=>
          /\ k >= pos
          /\ \/ k = Len(H) + 1
             \/ k = Len(H) + 2 /\ Len(b) >= 1 /\ b[1] = F!CRLF
             \/ \E i \in 1..(Len(b) - 1) : k = Len(H) + 2 + i /\ b[i] = F!CRLF /\ b[i + 1] = F!CRLF
    BY BlankLines
  <2> QED
    BY <1>1, <1>3, <2>1
<1>11. I # {} /\ F!Min(I) = x
  <2>1. x \in I
    BY <1>6, <1>7, <1>8, <1>10
  <2>2. ASSUME NEW k \in I PROVE x <= k
    <3>1. k \in Nat
      BY <1>9
    <3>2. \/ k = y + 1
          \/ k = y + 2
          \/ \E i \in 1..(w - 1) : k = y + 2 + i
      BY <1>7, <1>8, <1>10, <2>2, <3>1
    <3> QED
      BY <1>6, <3>2
  <2>3. I \in SUBSET Int
    BY <1>9
  <2> QED
    BY <2>1, <2>2, <2>3, Least
<1>12. J # {} <=> Blank(b)
  <2>1. ASSUME NEW k \in J PROVE Blank(b)
    <3>1. k \in Nat
      BY <1>9
    <3>2. /\ k >= z
          /\ \/ k = y + 1
             \/ k = y + 2 /\ w >= 1 /\ b[1] = F!CRLF
             \/ \E i \in 1..(w - 1) : k = y + 2 + i /\ b[i] = F!CRLF /\ b[i + 1] = F!CRLF
      BY <1>7, <1>8, <1>10, <2>1, <3>1
    <3>3. k # y + 1 /\ k # y + 2
      BY <1>6, <3>1, <3>2
    <3> QED
      BY <1>1, <3>2, <3>3 DEF Blank
  <2>2. ASSUME Blank(b) PROVE J # {}
    <3>1. PICK i \in 1..(w - 1) : b[i] = F!CRLF /\ b[i + 1] = F!CRLF
      BY <1>1, <2>2 DEF Blank
    <3>2. PICK k : k = y + 2 + i /\ k \in Nat /\ k >= z
      BY <1>6
    <3>3. k \in J
      BY <1>7, <1>8, <1>10, <3>1, <3>2
    <3> QED
      BY <3>3
  <2> QED
    BY <2>1, <2>2
<1>13. ASSUME NEW k \in Nat, k \in {1, 2}, NEW S, AreBegins(S, k, 2, 2, next), S[2] = z
       PROVE  /\ F!StrSplit(p, <<F!CRLF, F!CRLF>>, 2)[1] = H
              /\ Len(F!StrSplit(p, <<F!CRLF, F!CRLF>>, 2)) = k + 1
  <2>1. F!Cuts(p, 2, 2, next) = [i \in 1..(k + 1) |-> TokenOf(p, S, k, 2, i)]
    <3>1. PICK width, splits : width = 2 /\ splits = 2 /\ splits \in Nat
      OBVIOUS
    <3>2. splits \in Nat /\ AreBegins(S, k, width, splits, next)
      BY <1>13, <3>1
    <3>3. F!Cuts(p, width, splits, next) = [i \in 1..(k + 1) |-> TokenOf(p, S, k, width, i)]
      BY <3>2, CutsAre
    <3> QED
      BY <3>1, <3>3
  <2>2. 1 \in 1..(k + 1) /\ 1 # k + 1 /\ k + 1 \in Nat
    BY <1>13
  <2>3. TokenOf(p, S, k, 2, 1) = SubSeq(p, 1, y)
    <3>1. S[1] = 1 /\ S[1 + 1] = z
      BY <1>13 DEF AreBegins
    <3>2. z - 2 - 1 = y
      BY <1>6
    <3> QED
      BY <2>2, <3>1, <3>2 DEF TokenOf
  <2>4. SubSeq(p, 1, y) = H
    <3>1. PICK s : s = SubSeq(p, 1, y)
      OBVIOUS
    <3>2. /\ s \in Seq(FormPiece) /\ Len(s) = y /\ \A i \in 1..y : s[i] = p[i]
      <4>1. 1 \in Int /\ y \in Int /\ \A i \in 1..y : p[i] \in FormPiece
        BY <1>1, <1>2
      <4>2. (IF 1 <= y THEN y - 1 + 1 ELSE 0) = y /\ y - 1 + 1 = y /\ \A i \in 1..y : 1 + i - 1 = i
        OBVIOUS
      <4>3. /\ s \in Seq(FormPiece) /\ Len(s) = (IF 1 <= y THEN y - 1 + 1 ELSE 0)
            /\ \A i \in 1..(y - 1 + 1) : s[i] = p[1 + i - 1]
        BY <3>1, <4>1, SubSeqProperties
      <4> QED
        BY <4>2, <4>3
    <3>3. \A i \in 1..y : s[i] = H[i]
      BY <1>2, <3>2
    <3>4. s = H
      <4>1. s = [i \in 1..y |-> s[i]] /\ H = [i \in 1..y |-> H[i]]
        BY <1>1, <3>2
      <4> QED
        BY <3>3, <4>1
    <3> QED
      BY <3>1, <3>4
  <2> QED
    BY <1>5, <2>1, <2>2, <2>3, <2>4
<1>14. CASE ~Blank(b)
  <2> DEFINE S == [i \in 1..2 |-> IF i = 1 THEN 1 ELSE z]
  <2>1. S \in [1..2 -> Nat] /\ S[1] = 1 /\ S[2] = z
    BY <1>7
  <2>2. AreBegins(S, 1, 2, 2, next)
    <3> HIDE DEF S
    <3>1. next[S[1]] = I /\ S[1 + 1] = F!Min(I) + 2
      BY <1>6, <1>11, <2>1
    <3>2. next[S[1 + 1]] = {}
      BY <1>6, <1>12, <1>14, <2>1
    <3>3. \A i \in 1..1 : i = 1
      OBVIOUS
    <3> QED
      BY <1>11, <2>1, <3>1, <3>2, <3>3 DEF AreBegins
  <2> HIDE DEF S
  <2>3. 1 \in Nat /\ 1 \in {1, 2} /\ 1 + 1 = 2
    OBVIOUS
  <2> QED
    BY <1>13, <1>14, <2>1, <2>2, <2>3
<1>15. CASE Blank(b)
  <2>1. J # {}
    BY <1>12, <1>15
  <2>2. PICK k \in J : \A i \in J : k <= i
    BY <1>9, <2>1, LeastNatural
  <2>3. F!Min(J) = k /\ k \in Nat
    <3>1. J \in SUBSET Int
      BY <1>9
    <3> QED
      BY <1>9, <2>2, <3>1, Least
  <2> DEFINE S == [i \in 1..3 |-> IF i = 1 THEN 1 ELSE IF i = 2 THEN z ELSE k + 2]
  <2>4. S \in [1..3 -> Nat] /\ S[1] = 1 /\ S[2] = z /\ S[3] = k + 2
    BY <1>7, <2>3
  <2>5. AreBegins(S, 2, 2, 2, next)
    <3> HIDE DEF S
    <3>1. next[S[1]] = I /\ S[1 + 1] = F!Min(I) + 2
      BY <1>6, <1>11, <2>4
    <3>2. next[S[2]] = J /\ S[2 + 1] = F!Min(J) + 2
      BY <1>6, <2>3, <2>4
    <3>3. \A i \in 1..2 : i = 1 \/ i = 2
      OBVIOUS
    <3> QED
      BY <1>11, <2>1, <2>4, <3>1, <3>2, <3>3 DEF AreBegins
  <2> HIDE DEF S
  <2>6. 2 \in Nat /\ 2 \in {1, 2} /\ 2 + 1 = 3
    OBVIOUS
  <2> QED
    BY <1>13, <1>15, <2>4, <2>5, <2>6
<1> QED
  BY <1>14, <1>15

-----------------------------------------------------------------------------
(* Forms of parts: how a part is described.                                *)

\* What the lines with a name say, in their k-th piece.
SaidIn(H, c, k) ==
  {H[2 * i - 1][k] : i \in {j \in 1..(c + 1) : H[2 * j - 1][1] = "disposition" /\ H[2 * j - 1][k] # ""}}

\* How a part is described.
LEMMA DescriptorIs ==
  ASSUME NEW p, NEW H, NEW c, NEW b \in Seq(FormPiece), AreHeaders(H, c), IsToken(p, H, b)
  PROVE  F!Descriptor(p) =
           [bodySize |-> IF Blank(b) THEN 0 ELSE Len(H), headerCount |-> c + 1,
            name |-> SaidIn(H, c, 2), isFile |-> SaidIn(H, c, 3) # {}, filename |-> SaidIn(H, c, 3)]
<1>1. PICK components, headers : /\ components = F!StrSplit(p, <<F!CRLF, F!CRLF>>, 2)
                                 /\ headers = F!StrSplit(components[1], <<F!CRLF>>, Len(p))
  OBVIOUS
<1>2. components[1] = H /\ Len(components) = IF Blank(b) THEN 3 ELSE 2
  BY <1>1, TokenSplit
<1>3. headers = [i \in 1..(c + 1) |-> <<H[2 * i - 1]>>] /\ c \in Nat
  <2>1. /\ H \in Seq(FormPiece) /\ c \in Nat /\ Len(H) = 2 * c + 1
    BY DEF AreHeaders
  <2>2. PICK N : N = Len(p)
    OBVIOUS
  <2>3. Len(b) \in Nat /\ N = Len(H) + 2 + Len(b)
    BY <2>2 DEF IsToken
  <2>4. N \in Nat /\ c <= N
    BY <2>1, <2>3
  <2>5. F!StrSplit(H, <<F!CRLF>>, N) = [i \in 1..(c + 1) |-> <<H[2 * i - 1]>>]
    BY <2>4, HeadersSplit
  <2> QED
    BY <1>1, <1>2, <2>1, <2>2, <2>5
<1>4. DOMAIN headers = 1..(c + 1) /\ Len(headers) = c + 1
  <2>1. DOMAIN headers = 1..(c + 1)
    BY <1>3
  <2> QED
    BY <1>3, <2>1
<1>5. ASSUME NEW i \in 1..(c + 1) PROVE headers[i] # <<>> /\ headers[i][1] = H[2 * i - 1]
  <2>1. PICK u : u = H[2 * i - 1]
    OBVIOUS
  <2>2. headers[i] = <<u>>
    BY <1>3, <2>1
  <2>3. Len(<<u>>) = 1 /\ <<u>>[1] = u
    OBVIOUS
  <2>4. Len(<<>>) = 0
    OBVIOUS
  <2> QED
    BY <2>1, <2>2, <2>3, <2>4
<1>6. ASSUME NEW k
      PROVE  {headers[i][1][k] : i \in {j \in DOMAIN headers :
                headers[j] # <<>> /\ headers[j][1][1] = "disposition" /\ headers[j][1][k] # ""}} = SaidIn(H, c, k)
  <2>1. PICK A, B : /\ A = {j \in DOMAIN headers :
                              headers[j] # <<>> /\ headers[j][1][1] = "disposition" /\ headers[j][1][k] # ""}
                    /\ B = {j \in 1..(c + 1) : H[2 * j - 1][1] = "disposition" /\ H[2 * j - 1][k] # ""}
    OBVIOUS
  <2>2. A = B
    <3>1. \A j \in 1..(c + 1) : j \in A <=> j \in B
      <4>1. ASSUME NEW j \in 1..(c + 1) PROVE j \in A <=> j \in B
        <5>1. PICK u : u = headers[j][1] /\ u = H[2 * j - 1] /\ headers[j] # <<>>
          BY <1>5
        <5>2. j \in A <=> u[1] = "disposition" /\ u[k] # ""
          BY <1>4, <2>1, <5>1
        <5>3. j \in B <=> u[1] = "disposition" /\ u[k] # ""
          BY <2>1, <5>1
        <5> QED
          BY <5>2, <5>3
      <4> QED
        BY <4>1
    <3>2. A \subseteq 1..(c + 1) /\ B \subseteq 1..(c + 1)
      BY <1>4, <2>1
    <3> QED
      BY <3>1, <3>2
  <2>3. \A i \in B : headers[i][1][k] = H[2 * i - 1][k]
    BY <1>5, <2>1
  <2>4. {headers[i][1][k] : i \in B} = {H[2 * i - 1][k] : i \in B}
    BY <2>3
  <2> QED
    BY <2>1, <2>2, <2>4 DEF SaidIn
<1>7. PICK s, f : s = SaidIn(H, c, 2) /\ f = SaidIn(H, c, 3)
  OBVIOUS
<1>8. PICK Said2, Said3 :
        /\ Said2 = {headers[i][1][2] : i \in {j \in DOMAIN headers :
                headers[j] # <<>> /\ headers[j][1][1] = "disposition" /\ headers[j][1][2] # ""}}
        /\ Said3 = {headers[i][1][3] : i \in {j \in DOMAIN headers :
                headers[j] # <<>> /\ headers[j][1][1] = "disposition" /\ headers[j][1][3] # ""}}
  OBVIOUS
<1>9. Said2 = s /\ Said3 = f
  BY <1>6, <1>7, <1>8
<1>10. F!Descriptor(p) =
         [bodySize |-> IF Len(components) = 2 THEN Len(components[1]) ELSE 0,
          headerCount |-> Len(headers), name |-> Said2, isFile |-> Said3 # {}, filename |-> Said3]
  BY <1>1, <1>8, Zenon DEF F!Descriptor
<1>11. (IF Len(components) = 2 THEN Len(components[1]) ELSE 0) = (IF Blank(b) THEN 0 ELSE Len(H))
  BY <1>2
<1> QED
  BY <1>4, <1>7, <1>9, <1>10, <1>11, Zenon

\* The text between two boundaries is that of the part.
LEMMA TokenOfPart ==
  ASSUME NEW T, NEW h, NEW b, NEW n, NEW e, NEW q, IsMultipart(T, h, b, n, e, q), NEW j \in 1..n,
         ~(e = 0 /\ j = 1)
  PROVE  IsToken(PartToken(T, e, q, j), h[j], b[j])
<1>1. /\ n \in Nat /\ q \in [1..(n + 1) -> Nat] /\ T \in Seq(FormPiece) /\ Len(T) = q[n + 1] + 2
  BY DEF IsMultipart
<1>2. PICK H, B, a, z, p : H = h[j] /\ B = b[j] /\ a = q[j] /\ z = q[j + 1] /\ p = PartToken(T, e, q, j)
  OBVIOUS
<1>3. /\ Free(H) /\ Free(B) /\ z = a + Len(H) + Len(B) + 5
      /\ \A k \in 1..Len(H) : T[a + 2 + k] = H[k]
      /\ T[a + Len(H) + 3] = F!CRLF /\ T[a + Len(H) + 4] = F!CRLF
      /\ \A k \in 1..Len(B) : T[a + Len(H) + 4 + k] = B[k]
  BY <1>2 DEF IsMultipart
<1>4. PICK x \in Nat, y \in Nat : x = Len(H) /\ y = Len(B)
  <2>1. H \in Seq(FormPiece) /\ B \in Seq(FormPiece)
    BY <1>3 DEF Free
  <2>2. Len(H) \in Nat /\ Len(B) \in Nat
    BY <2>1
  <2> QED
    BY <2>2
<1>5. a \in Nat /\ z = a + x + y + 5 /\ z <= Len(T)
  <2>1. j \in 1..(n + 1) /\ j + 1 \in 1..(n + 1) /\ n + 1 \in 1..(n + 1) /\ (j + 1 = n + 1 \/ j + 1 < n + 1)
    BY <1>1
  <2>2. q[j] \in Nat /\ q[j + 1] \in Nat /\ q[n + 1] \in Nat
    BY <1>1, <2>1
  <2>3. j + 1 < n + 1 => q[j + 1] + 6 <= q[n + 1]
    BY <2>1, Ascending
  <2>4. q[j + 1] <= q[n + 1]
    BY <2>1, <2>2, <2>3
  <2>5. z = a + x + y + 5
    BY <1>3, <1>4
  <2> QED
    BY <1>1, <1>2, <2>2, <2>4, <2>5
<1>6. p = SubSeq(T, a + 3, z - 1)
  <2>1. p = SubSeq(T, IF e = 0 /\ j = 1 THEN 1 ELSE q[j] + 3, q[j + 1] - 1)
    BY <1>2, Zenon DEF PartToken
  <2> QED
    BY <1>2, <2>1
<1>7. /\ p \in Seq(FormPiece) /\ Len(p) = x + 2 + y
      /\ \A i \in 1..(x + 2 + y) : p[i] = T[a + 2 + i]
  <2>1. PICK u \in Int, v \in Int : u = a + 3 /\ v = z - 1
    BY <1>5
  <2>2. u <= v /\ v - u + 1 = x + 2 + y /\ \A i \in 1..(x + 2 + y) : u + i - 1 = a + 2 + i
    BY <1>5, <2>1
  <2>3. \A i \in u..v : T[i] \in FormPiece
    <3>1. \A i \in u..v : i \in 1..Len(T)
      BY <1>1, <1>5, <2>1
    <3> QED
      BY <1>1, <3>1
  <2>4. /\ SubSeq(T, u, v) \in Seq(FormPiece) /\ Len(SubSeq(T, u, v)) = (IF u <= v THEN v - u + 1 ELSE 0)
        /\ \A i \in 1..(v - u + 1) : SubSeq(T, u, v)[i] = T[u + i - 1]
    BY <2>3, SubSeqProperties
  <2> QED
    BY <1>6, <2>1, <2>2, <2>4
<1>8. \A i \in 1..x : p[i] = H[i]
  <2>1. \A i \in 1..x : i \in 1..(x + 2 + y)
    OBVIOUS
  <2> QED
    BY <1>3, <1>4, <1>7, <2>1
<1>9. p[x + 1] = F!CRLF /\ p[x + 2] = F!CRLF
  <2>1. x + 1 \in 1..(x + 2 + y) /\ x + 2 \in 1..(x + 2 + y) /\ a + 2 + (x + 1) = a + x + 3 /\ a + 2 + (x + 2) = a + x + 4
    BY <1>5
  <2> QED
    BY <1>3, <1>4, <1>7, <2>1
<1>10. ASSUME NEW i \in 1..y PROVE p[x + 2 + i] = B[i]
  <2>1. x + 2 + i \in 1..(x + 2 + y) /\ a + 2 + (x + 2 + i) = a + x + 4 + i
    BY <1>5
  <2> QED
    BY <1>3, <1>4, <1>7, <2>1
<1>11. IsToken(p, H, B)
  BY <1>4, <1>7, <1>8, <1>9, <1>10 DEF IsToken
<1> QED
  BY <1>2, <1>11

\* The first part of a text that begins with it comes with its boundary.
LEMMA TokenOfFirst ==
  ASSUME NEW T, NEW h, NEW b, NEW n, NEW q, IsMultipart(T, h, b, n, 0, q), 1 \in 1..n
  PROVE  IsToken(PartToken(T, 0, q, 1), <<First, F!CRLF>> \o h[1], b[1])
<1>1. /\ n \in Nat /\ q \in [1..(n + 1) -> Nat] /\ q[1] = 0 /\ T \in Seq(FormPiece) /\ Len(T) = q[n + 1] + 2
  BY DEF IsMultipart
<1>2. PICK H, B, z, p : H = h[1] /\ B = b[1] /\ z = q[1 + 1] /\ p = PartToken(T, 0, q, 1)
  OBVIOUS
<1>3. /\ Free(H) /\ Free(B) /\ z = 0 + Len(H) + Len(B) + 5
      /\ T[0 + 1] = First /\ T[0 + 2] = F!CRLF
      /\ \A k \in 1..Len(H) : T[0 + 2 + k] = H[k]
      /\ T[0 + Len(H) + 3] = F!CRLF /\ T[0 + Len(H) + 4] = F!CRLF
      /\ \A k \in 1..Len(B) : T[0 + Len(H) + 4 + k] = B[k]
  BY <1>1, <1>2 DEF IsMultipart
<1>4. PICK x \in Nat, y \in Nat : x = Len(H) /\ y = Len(B) /\ H \in Seq(FormPiece)
  <2>1. H \in Seq(FormPiece) /\ B \in Seq(FormPiece)
    BY <1>3 DEF Free
  <2>2. Len(H) \in Nat /\ Len(B) \in Nat
    BY <2>1
  <2> QED
    BY <2>1, <2>2
<1>5. z = x + y + 5 /\ z <= Len(T)
  <2>1. 1 + 1 \in 1..(n + 1) /\ n + 1 \in 1..(n + 1) /\ (1 + 1 = n + 1 \/ 1 + 1 < n + 1)
    BY <1>1
  <2>2. q[1 + 1] \in Nat /\ q[n + 1] \in Nat
    BY <1>1, <2>1
  <2>3. 1 + 1 < n + 1 => q[1 + 1] + 6 <= q[n + 1]
    BY <2>1, Ascending
  <2>4. q[1 + 1] <= q[n + 1]
    BY <2>1, <2>2, <2>3
  <2>5. z = x + y + 5
    BY <1>3, <1>4
  <2> QED
    BY <1>1, <1>2, <2>2, <2>4, <2>5
<1>6. p = SubSeq(T, 1, z - 1)
  <2>1. p = SubSeq(T, IF 0 = 0 /\ 1 = 1 THEN 1 ELSE q[1] + 3, q[1 + 1] - 1)
    BY <1>2, Zenon DEF PartToken
  <2> QED
    BY <1>2, <2>1
<1>7. PICK G, s, f, l : s = <<f, l>> /\ f = First /\ l = F!CRLF /\ G = s \o H
  OBVIOUS
<1>8. /\ G \in Seq(FormPiece) /\ Len(G) = 2 + x
      /\ G[1] = First /\ G[2] = F!CRLF /\ \A i \in 1..x : G[2 + i] = H[i]
  <2>1. s \in Seq(FormPiece) /\ Len(s) = 2 /\ s[1] = f /\ s[2] = l
    <3>1. f \in FormPiece /\ l \in FormPiece
      BY <1>7, Pieces
    <3> QED
      BY <1>7, <3>1
  <2>2. /\ G \in Seq(FormPiece) /\ Len(G) = Len(s) + Len(H)
        /\ \A i \in 1..Len(s) : G[i] = s[i]
        /\ \A i \in 1..Len(H) : G[Len(s) + i] = H[i]
    <3>1. s \in Seq(FormPiece) /\ H \in Seq(FormPiece) /\ G = s \o H
      BY <1>4, <1>7, <2>1
    <3> QED
      BY <3>1, ConcatAs
  <2>3. 1 \in 1..2 /\ 2 \in 1..2
    OBVIOUS
  <2> QED
    BY <1>4, <1>7, <2>1, <2>2, <2>3
<1>9. /\ p \in Seq(FormPiece) /\ Len(p) = (2 + x) + 2 + y
      /\ \A i \in 1..(x + 4 + y) : p[i] = T[i]
  <2>1. PICK u \in Int, v \in Int : u = 1 /\ v = z - 1
    BY <1>5
  <2>2. u <= v /\ v - u + 1 = x + 4 + y /\ x + 4 + y = (2 + x) + 2 + y /\ \A i \in 1..(x + 4 + y) : u + i - 1 = i
    BY <1>5, <2>1
  <2>3. \A i \in u..v : T[i] \in FormPiece
    <3>1. \A i \in u..v : i \in 1..Len(T)
      BY <1>1, <1>5, <2>1
    <3> QED
      BY <1>1, <3>1
  <2>4. /\ SubSeq(T, u, v) \in Seq(FormPiece) /\ Len(SubSeq(T, u, v)) = (IF u <= v THEN v - u + 1 ELSE 0)
        /\ \A i \in 1..(v - u + 1) : SubSeq(T, u, v)[i] = T[u + i - 1]
    BY <2>3, SubSeqProperties
  <2> QED
    BY <1>6, <2>1, <2>2, <2>4
<1>10. ASSUME NEW i \in 1..(2 + x) PROVE p[i] = G[i]
  <2>1. i \in 1..(x + 4 + y)
    OBVIOUS
  <2>2. p[i] = T[i]
    BY <1>9, <2>1
  <2>3. CASE i \in {1, 2}
    <3>1. T[1] = First /\ T[2] = F!CRLF
      <4>1. 0 + 1 = 1 /\ 0 + 2 = 2
        OBVIOUS
      <4> QED
        BY <1>3, <4>1
    <3> QED
      BY <1>8, <2>2, <2>3, <3>1
  <2>4. CASE i > 2
    <3>1. PICK k \in 1..x : i = 2 + k
      <4>1. i - 2 \in 1..x /\ i = 2 + (i - 2)
        BY <2>4
      <4> QED
        BY <4>1
    <3>2. T[0 + 2 + k] = H[k] /\ 0 + 2 + k = 2 + k
      BY <1>3, <1>4
    <3> QED
      BY <1>8, <2>2, <3>1, <3>2
  <2>5. i \in {1, 2} \/ i > 2
    OBVIOUS
  <2> QED
    BY <2>3, <2>4, <2>5
<1>11. p[(2 + x) + 1] = F!CRLF /\ p[(2 + x) + 2] = F!CRLF
  <2>1. /\ (2 + x) + 1 \in 1..(x + 4 + y) /\ (2 + x) + 2 \in 1..(x + 4 + y)
        /\ (2 + x) + 1 = 0 + x + 3 /\ (2 + x) + 2 = 0 + x + 4
    OBVIOUS
  <2>2. T[0 + x + 3] = F!CRLF /\ T[0 + x + 4] = F!CRLF
    BY <1>3, <1>4
  <2> QED
    BY <1>9, <2>1, <2>2
<1>12. ASSUME NEW i \in 1..y PROVE p[(2 + x) + 2 + i] = B[i]
  <2>1. (2 + x) + 2 + i \in 1..(x + 4 + y) /\ (2 + x) + 2 + i = 0 + x + 4 + i
    OBVIOUS
  <2>2. T[0 + x + 4 + i] = B[i]
    BY <1>3, <1>4
  <2> QED
    BY <1>9, <2>1, <2>2
<1>13. IsToken(p, G, B)
  BY <1>4, <1>8, <1>9, <1>10, <1>11, <1>12 DEF IsToken
<1> QED
  BY <1>2, <1>7, <1>13

\* Only the m-th line is one with a name.
OneSays(H, c, m, d) ==
  /\ c \in Nat /\ m \in 1..(c + 1) /\ H[2 * m - 1] = d /\ d[1] = "disposition"
  /\ \A j \in 1..(c + 1) : j # m => H[2 * j - 1][1] # "disposition"

\* What it says is said once.
LEMMA SaidOnce ==
  ASSUME NEW H, NEW c, NEW m, NEW d, OneSays(H, c, m, d), NEW k
  PROVE  SaidIn(H, c, k) = {d[k]} \ {""}
<1>0. /\ c \in Nat /\ m \in 1..(c + 1) /\ H[2 * m - 1] = d /\ d[1] = "disposition"
      /\ \A j \in 1..(c + 1) : j # m => H[2 * j - 1][1] # "disposition"
  BY DEF OneSays
<1>1. PICK B : B = {j \in 1..(c + 1) : H[2 * j - 1][1] = "disposition" /\ H[2 * j - 1][k] # ""}
  OBVIOUS
<1>2. SaidIn(H, c, k) = {H[2 * i - 1][k] : i \in B}
  BY <1>1 DEF SaidIn
<1>3. \A j \in B : j = m
  BY <1>0, <1>1
<1>4. m \in B <=> d[k] # ""
  BY <1>0, <1>1
<1>5. CASE d[k] = ""
  <2>1. B = {}
    BY <1>3, <1>4, <1>5
  <2> QED
    BY <1>2, <1>5, <2>1
<1>6. CASE d[k] # ""
  <2>1. B = {m}
    BY <1>3, <1>4, <1>6
  <2>2. SaidIn(H, c, k) = {H[2 * m - 1][k]}
    BY <1>2, <2>1
  <2> QED
    BY <1>0, <1>6, <2>2
<1> QED
  BY <1>5, <1>6

\* The names of a part are said once, whether its boundary is a line more or not.
LEMMA SaidOfPart ==
  ASSUME NEW p, p.lines \in Nat, p.name \in STRING, p.filename \in STRING,
         NEW h, h = HeadOf(p), NEW c, c = p.lines
  PROVE  /\ AreHeaders(h, c)
         /\ SaidIn(h, c, 2) = {p.name} \ {""} /\ SaidIn(h, c, 3) = {p.filename} \ {""}
         /\ AreHeaders(<<First, F!CRLF>> \o h, c + 1)
         /\ SaidIn(<<First, F!CRLF>> \o h, c + 1, 2) = {p.name} \ {""}
         /\ SaidIn(<<First, F!CRLF>> \o h, c + 1, 3) = {p.filename} \ {""}
<1>1. PICK d : d = F!Disposition(p.name, p.filename)
  OBVIOUS
<1>2. AreHeaders(h, c) /\ h[1] = d /\ \A i \in 1..c : h[2 * i + 1] = More
  BY <1>1, HeadersOf
<1>3. /\ h \in Seq(FormPiece) /\ c \in Nat /\ Len(h) = 2 * c + 1
      /\ \A i \in 1..c : h[2 * i] = F!CRLF
      /\ \A i \in 0..c : h[2 * i + 1] \notin {F!CRLF, <<>>}
  BY <1>2 DEF AreHeaders
<1>4. d[1] = "disposition" /\ d[2] = p.name /\ d[3] = p.filename
  <2>1. PICK name, filename : name = p.name /\ filename = p.filename /\ name \in STRING /\ filename \in STRING
    OBVIOUS
  <2>2. d = F!Disposition(name, filename)
    BY <1>1, <2>1
  <2>3. /\ F!Disposition(name, filename)[1] = "disposition"
        /\ F!Disposition(name, filename)[2] = name /\ F!Disposition(name, filename)[3] = filename
    BY <2>1, NameLine
  <2> QED
    BY <2>1, <2>2, <2>3
<1>5. More[1] # "disposition" /\ First[1] # "disposition"
  BY Pieces
<1>6. \A k : SaidIn(h, c, k) = {d[k]} \ {""}
  <2>1. 1 \in 1..(c + 1) /\ h[2 * 1 - 1] = d
    BY <1>2, <1>3
  <2>2. ASSUME NEW j \in 1..(c + 1), j # 1 PROVE h[2 * j - 1][1] # "disposition"
    <3>1. j - 1 \in 1..c /\ 2 * (j - 1) + 1 = 2 * j - 1
      BY <1>3, <2>2
    <3>2. h[2 * (j - 1) + 1] = More
      BY <1>2, <3>1
    <3> QED
      BY <1>5, <3>1, <3>2
  <2>3. c \in Nat
    BY <1>3
  <2>4. ASSUME NEW k PROVE SaidIn(h, c, k) = {d[k]} \ {""}
    <3>1. OneSays(h, c, 1, d)
      BY <1>4, <2>1, <2>2, <2>3 DEF OneSays
    <3> QED
      BY <3>1, SaidOnce
  <2> QED
    BY <2>4
<1>7. PICK s, f, l, G : s = <<f, l>> /\ f = First /\ l = F!CRLF /\ G = s \o h
  OBVIOUS
<1>8. /\ G \in Seq(FormPiece) /\ Len(G) = 2 + Len(h) /\ G[1] = First /\ G[2] = F!CRLF
      /\ \A i \in 1..Len(h) : G[2 + i] = h[i]
  <2>1. s \in Seq(FormPiece) /\ Len(s) = 2 /\ s[1] = f /\ s[2] = l
    <3>1. f \in FormPiece /\ l \in FormPiece
      BY <1>7, Pieces
    <3> QED
      BY <1>7, <3>1
  <2>2. /\ G \in Seq(FormPiece) /\ Len(G) = Len(s) + Len(h)
        /\ \A i \in 1..Len(s) : G[i] = s[i]
        /\ \A i \in 1..Len(h) : G[Len(s) + i] = h[i]
    <3>1. s \in Seq(FormPiece) /\ h \in Seq(FormPiece) /\ G = s \o h
      BY <1>3, <1>7, <2>1
    <3> QED
      BY <3>1, ConcatAs
  <2>3. 1 \in 1..2 /\ 2 \in 1..2
    OBVIOUS
  <2> QED
    BY <1>7, <2>1, <2>2, <2>3
<1>9. \A i \in 1..(2 * c + 1) : G[2 + i] = h[i]
  BY <1>3, <1>8
<1>10. AreHeaders(G, c + 1)
  <2>1. c + 1 \in Nat /\ Len(G) = 2 * (c + 1) + 1
    <3>1. c \in Nat /\ Len(G) = 2 + (2 * c + 1)
      BY <1>3, <1>8
    <3>2. 2 + (2 * c + 1) = 2 * (c + 1) + 1
      BY <3>1
    <3> QED
      BY <3>1, <3>2
  <2>2. ASSUME NEW i \in 1..(c + 1) PROVE G[2 * i] = F!CRLF
    <3>1. CASE i = 1
      <4>1. 2 * i = 2
        BY <3>1
      <4> QED
        BY <1>8, <4>1
    <3>2. CASE i # 1
      <4>1. i - 1 \in 1..c /\ 2 * (i - 1) \in 1..(2 * c + 1) /\ 2 + 2 * (i - 1) = 2 * i
        BY <1>3, <3>2
      <4> QED
        BY <1>3, <1>9, <4>1
    <3> QED
      BY <3>1, <3>2
  <2>3. ASSUME NEW i \in 0..(c + 1) PROVE G[2 * i + 1] \notin {F!CRLF, <<>>}
    <3>1. CASE i = 0
      <4>1. 2 * i + 1 = 1
        BY <3>1
      <4> QED
        BY <1>8, <4>1, Pieces
    <3>2. CASE i # 0
      <4>1. i - 1 \in 0..c /\ 2 * (i - 1) + 1 \in 1..(2 * c + 1) /\ 2 + (2 * (i - 1) + 1) = 2 * i + 1
        BY <1>3, <3>2
      <4>2. G[2 + (2 * (i - 1) + 1)] = h[2 * (i - 1) + 1]
        BY <1>9, <4>1
      <4>3. h[2 * (i - 1) + 1] \notin {F!CRLF, <<>>}
        BY <1>3, <4>1
      <4> QED
        BY <4>1, <4>2, <4>3
    <3> QED
      BY <3>1, <3>2
  <2> QED
    BY <1>8, <2>1, <2>2, <2>3 DEF AreHeaders
<1>11. \A k : SaidIn(G, c + 1, k) = {d[k]} \ {""}
  <2>1. PICK z \in Nat : z = c + 1
    BY <1>3
  <2>2. 2 \in 1..(z + 1) /\ G[2 * 2 - 1] = d
    <3>1. 1 \in 1..(2 * c + 1) /\ 2 * 2 - 1 = 2 + 1
      BY <1>3
    <3>2. G[2 + 1] = h[1]
      BY <1>9, <3>1
    <3> QED
      BY <1>2, <1>3, <2>1, <3>1, <3>2
  <2>3. ASSUME NEW j \in 1..(z + 1), j # 2 PROVE G[2 * j - 1][1] # "disposition"
    <3>1. CASE j = 1
      <4>1. 2 * j - 1 = 1
        BY <3>1
      <4> QED
        BY <1>5, <1>8, <4>1
    <3>2. CASE j # 1
      <4>1. j - 2 \in 1..c /\ 2 * (j - 2) + 1 \in 1..(2 * c + 1) /\ 2 + (2 * (j - 2) + 1) = 2 * j - 1
        BY <1>3, <2>1, <2>3, <3>2
      <4>2. G[2 + (2 * (j - 2) + 1)] = h[2 * (j - 2) + 1]
        BY <1>9, <4>1
      <4>3. h[2 * (j - 2) + 1] = More
        BY <1>2, <4>1
      <4> QED
        BY <1>5, <4>1, <4>2, <4>3
    <3> QED
      BY <3>1, <3>2
  <2>4. ASSUME NEW k PROVE SaidIn(G, z, k) = {d[k]} \ {""}
    <3>1. OneSays(G, z, 2, d)
      BY <1>4, <2>2, <2>3 DEF OneSays
    <3> QED
      BY <3>1, SaidOnce, ZenonT(40)
  <2> QED
    BY <2>1, <2>4
<1>12. <<First, F!CRLF>> \o h = G
  BY <1>7
<1>13. SaidIn(h, c, 2) = {p.name} \ {""} /\ SaidIn(h, c, 3) = {p.filename} \ {""}
  BY <1>4, <1>6
<1>14. SaidIn(G, c + 1, 2) = {p.name} \ {""} /\ SaidIn(G, c + 1, 3) = {p.filename} \ {""}
  BY <1>4, <1>11
<1> QED
  BY <1>2, <1>10, <1>12, <1>13, <1>14

\* A part that comes without its boundary is described as it was sent, ...
LEMMA DescribedAsSent ==
  ASSUME NEW p, p.lines \in Nat, p.name \in STRING, p.filename \in STRING, p.body \in Seq(FormPiece),
         NEW t, IsToken(t, HeadOf(p), p.body)
  PROVE  F!Descriptor(t) = Described(p)
<1>1. PICK h, c, b, s, f : /\ h = HeadOf(p) /\ c = p.lines /\ b = p.body
                           /\ s = {p.name} \ {""} /\ f = {p.filename} \ {""}
  OBVIOUS
<1>2. AreHeaders(h, c) /\ SaidIn(h, c, 2) = s /\ SaidIn(h, c, 3) = f
  BY <1>1, SaidOfPart
<1>3. F!Descriptor(t) =
        [bodySize |-> IF Blank(b) THEN 0 ELSE Len(h), headerCount |-> c + 1,
         name |-> SaidIn(h, c, 2), isFile |-> SaidIn(h, c, 3) # {}, filename |-> SaidIn(h, c, 3)]
  <2>1. b \in Seq(FormPiece) /\ IsToken(t, h, b)
    BY <1>1
  <2> QED
    BY <1>2, <2>1, DescriptorIs
<1>4. Described(p) =
        [bodySize |-> IF Blank(b) THEN 0 ELSE Len(h), headerCount |-> 1 + c,
         name |-> s, isFile |-> p.filename # "", filename |-> f]
  BY <1>1, Zenon DEF Described, Blank
<1>5. c + 1 = 1 + c
  <2>1. c \in Nat
    BY <1>1
  <2> QED
    BY <2>1
<1>6. (f # {}) = (p.filename # "")
  BY <1>1
<1>7. PICK z, y, w : z = c + 1 /\ y = (f # {}) /\ w = IF Blank(b) THEN 0 ELSE Len(h)
  OBVIOUS
<1>8. F!Descriptor(t) = [bodySize |-> w, headerCount |-> z, name |-> s, isFile |-> y, filename |-> f]
  BY <1>2, <1>3, <1>7, Zenon
<1>9. z = 1 + c /\ y = (p.filename # "")
  BY <1>5, <1>6, <1>7, Zenon
<1>10. Described(p) = [bodySize |-> w, headerCount |-> z, name |-> s, isFile |-> y, filename |-> f]
  BY <1>4, <1>7, <1>9, Zenon
<1> QED
  BY <1>8, <1>10, Zenon

\* ... and one with it has the names it was sent with.
LEMMA TitleAsSent ==
  ASSUME NEW p, p.lines \in Nat, p.name \in STRING, p.filename \in STRING, p.body \in Seq(FormPiece),
         NEW t, IsToken(t, HeadOf(p), p.body) \/ IsToken(t, <<First, F!CRLF>> \o HeadOf(p), p.body)
  PROVE  F!Descriptor(t).name = Described(p).name /\ F!Descriptor(t).filename = Described(p).filename
<1>1. CASE IsToken(t, HeadOf(p), p.body)
  BY <1>1, DescribedAsSent
<1>2. CASE IsToken(t, <<First, F!CRLF>> \o HeadOf(p), p.body)
  <2>1. PICK h, c, b, s, f, G : /\ h = HeadOf(p) /\ c = p.lines /\ b = p.body
                                /\ s = {p.name} \ {""} /\ f = {p.filename} \ {""}
                                /\ G = <<First, F!CRLF>> \o h
    OBVIOUS
  <2>2. PICK z : z = c + 1
    OBVIOUS
  <2>3. AreHeaders(G, z) /\ SaidIn(G, z, 2) = s /\ SaidIn(G, z, 3) = f
    BY <2>1, <2>2, SaidOfPart
  <2>4. b \in Seq(FormPiece) /\ IsToken(t, G, b)
    BY <1>2, <2>1
  <2>5. F!Descriptor(t) =
          [bodySize |-> IF Blank(b) THEN 0 ELSE Len(G), headerCount |-> z + 1,
           name |-> SaidIn(G, z, 2), isFile |-> SaidIn(G, z, 3) # {}, filename |-> SaidIn(G, z, 3)]
    BY <2>3, <2>4, DescriptorIs
  <2>6. F!Descriptor(t).name = s /\ F!Descriptor(t).filename = f
    BY <2>3, <2>5
  <2>7. Described(p).name = s /\ Described(p).filename = f
    BY <2>1 DEF Described
  <2> QED
    BY <2>6, <2>7
<1> QED
  BY <1>1, <1>2

-----------------------------------------------------------------------------
(* Forms of parts: the requests, and what is answered.                     *)

\* What is found in a form: after a preamble every part as it was sent, without one the
\* names of every part.
LEMMA FormRead ==
  ASSUME NEW parts, IsForm(parts), NEW e, NEW x, IsPreamble(x, e), e = 1 \/ parts # <<>>,
         NEW P, P = F!Parts(Multipart(parts, x), "B")
  PROVE  /\ DOMAIN P = DOMAIN parts
         /\ \A i \in DOMAIN parts :
              /\ e = 1 => F!Descriptor(P[i]) = Described(parts[i])
              /\ F!Descriptor(P[i]).name = Described(parts[i]).name
              /\ F!Descriptor(P[i]).filename = Described(parts[i]).filename
<1>1. PICK n \in Nat : n = Len(parts) /\ DOMAIN parts = 1..n
  BY DEF IsForm
<1>2. PICK h, b : h = [i \in 1..n |-> HeadOf(parts[i])] /\ b = [i \in 1..n |-> parts[i].body]
  OBVIOUS
<1>3. PICK T, q : T = Multipart(parts, x) /\ IsMultipart(T, h, b, n, e, q)
  BY <1>1, <1>2, TextOfForm
<1>4. e \in {0, 1}
  BY DEF IsPreamble
<1>5. n + e >= 1
  <2>1. parts # <<>> => n # 0
    BY <1>1
  <2> QED
    BY <1>1, <1>4, <2>1
<1>6. P = [j \in 1..n |-> PartToken(T, e, q, j)]
  BY <1>3, <1>5, PartsOfForm
<1>7. DOMAIN P = 1..n
  BY <1>6
<1>8. ASSUME NEW i \in 1..n
      PROVE  /\ e = 1 => F!Descriptor(P[i]) = Described(parts[i])
             /\ F!Descriptor(P[i]).name = Described(parts[i]).name
             /\ F!Descriptor(P[i]).filename = Described(parts[i]).filename
  <2>1. PICK p, t : p = parts[i] /\ t = PartToken(T, e, q, i)
    OBVIOUS
  <2>2. h[i] = HeadOf(p) /\ b[i] = p.body /\ P[i] = t
    BY <1>2, <1>6, <2>1
  <2>3. p.lines \in Nat /\ p.name \in STRING /\ p.filename \in STRING
    BY <1>1, <2>1 DEF IsForm
  <2>4. p.body \in Seq(FormPiece)
    <3>1. Free(b[i])
      BY <1>3 DEF IsMultipart
    <3> QED
      BY <2>2, <3>1 DEF Free
  <2>5. CASE ~(e = 0 /\ i = 1)
    <3>1. IsToken(t, h[i], b[i])
      BY <1>3, <2>1, <2>5, TokenOfPart
    <3>2. IsToken(t, HeadOf(p), p.body)
      BY <2>2, <3>1
    <3>3. F!Descriptor(t) = Described(p)
      BY <2>3, <2>4, <3>2, DescribedAsSent
    <3> QED
      BY <2>1, <2>2, <3>3
  <2>6. CASE e = 0 /\ i = 1
    <3>1. IsToken(t, <<First, F!CRLF>> \o h[1], b[1])
      <4>1. IsMultipart(T, h, b, n, 0, q) /\ 1 \in 1..n /\ t = PartToken(T, 0, q, 1)
        BY <1>3, <2>1, <2>6
      <4> QED
        BY <4>1, TokenOfFirst
    <3>2. IsToken(t, <<First, F!CRLF>> \o HeadOf(p), p.body)
      BY <2>2, <2>6, <3>1
    <3>3. F!Descriptor(t).name = Described(p).name /\ F!Descriptor(t).filename = Described(p).filename
      BY <2>3, <2>4, <3>2, TitleAsSent
    <3> QED
      BY <2>1, <2>2, <2>6, <3>3
  <2> QED
    BY <2>5, <2>6
<1> QED
  BY <1>1, <1>7, <1>8

\* Without a type there is no header.
LEMMA PostedUntyped ==
  ASSUME NEW verb, NEW shown, NEW payload
  PROVE  /\ Posted(verb, shown, <<>>, payload).verb = verb
         /\ Posted(verb, shown, <<>>, payload).headers = <<>>
<1> DEFINE none == <<>>
           beast == [verb |-> verb, target |-> "/", payload |-> payload, version |-> F!Version(1, 1),
                     headers |-> none]
           r == F!set_version(F!set_target(F!set_verb(F!HttpRequest, verb), "/"),
                              F!version_major(beast), F!version_minor(beast))
           Step(f) == [n \in 0..Len(none) |->
                         IF n = 0 THEN r ELSE F!add_header(f[n - 1], none[n].name, none[n].value)]
           added == CHOOSE f : f = Step(f)
<1>1. Posted(verb, shown, <<>>, payload) = F!MakeHttpRequest(beast)
  BY DEF Posted
<1>2. F!MakeHttpRequest(beast) = F!set_payload(added[Len(none)], payload)
  BY ZenonT(40) DEF F!MakeHttpRequest
<1>3. Len(none) = 0
  OBVIOUS
<1>4. r.headers = <<>> /\ r.verb = verb /\ r = [verb |-> r.verb, target |-> r.target, payload |-> r.payload,
                               headers |-> r.headers, version |-> r.version]
  <2>1. PICK a, b, v, o : /\ a = F!set_verb(F!HttpRequest, verb) /\ b = F!set_target(a, "/")
                          /\ v = F!Version(F!version_major(beast), F!version_minor(beast))
                          /\ o = F!Version(1, 1)
    OBVIOUS
  <2>2. a = [verb |-> verb, target |-> "", payload |-> F!NoText, headers |-> <<>>, version |-> F!Version(1, 1)]
    BY <2>1 DEF F!set_verb, F!HttpRequest
  <2>3. b = [verb |-> verb, target |-> "/", payload |-> F!NoText, headers |-> <<>>, version |-> F!Version(1, 1)]
    <3>1. b = [a EXCEPT !.target = "/"]
      BY <2>1 DEF F!set_target
    <3>2. PICK w : w = F!Version(1, 1)
      OBVIOUS
    <3>3. a = [verb |-> verb, target |-> "", payload |-> F!NoText, headers |-> <<>>, version |-> w]
      BY <2>2, <3>2
    <3>4. b = [verb |-> verb, target |-> "/", payload |-> F!NoText, headers |-> <<>>, version |-> w]
      BY <3>1, <3>3
    <3> QED
      BY <3>2, <3>4
  <2>4. r = [b EXCEPT !.version = v]
    BY <2>1 DEF F!set_version
  <2>5. r = [verb |-> verb, target |-> "/", payload |-> F!NoText, headers |-> <<>>, version |-> v]
    <3> HIDE DEF r
    <3> QED
      BY <2>3, <2>4
  <2> HIDE DEF r
  <2> QED
    BY <2>5
<1> HIDE DEF r, none
<1>5. added = Step(added)
  <2> DEFINE g == [n \in 0..0 |-> r]
  <2>1. g = Step(g)
    BY <1>3
  <2> HIDE DEF g, Step
  <2> QED
    BY <2>1
<1> HIDE DEF added
<1>6. added[0] = r
  BY <1>3, <1>5
<1>7. /\ F!set_payload(added[0], payload).verb = verb
      /\ F!set_payload(added[0], payload).headers = <<>>
  BY <1>4, <1>6 DEF F!set_payload
<1> QED
  BY <1>1, <1>2, <1>3, <1>7

\* The verb of a request is the one it was posted with.
LEMMA PostedVerb ==
  ASSUME NEW verb, NEW shown, NEW type, NEW payload
  PROVE  Posted(verb, shown, <<type>>, payload).verb = verb
<1>1. PICK r, h : /\ r = Posted(verb, shown, <<type>>, payload)
                  /\ h = <<[name |-> [lower |-> "content-type", shown |-> shown], value |-> type]>>
  OBVIOUS
<1>2. r.payload = payload /\ r.verb = verb /\ r.headers = h
  BY <1>1, PostedRequest
<1> QED
  BY <1>1, <1>2

\* What is answered to a form, by its verb and its type.
LEMMA FormAnswered ==
  ASSUME NEW type, NEW payload, NEW r, r = Posted("POST", "content-type", <<type>>, payload),
         NEW P, P = F!Parts(payload, F!GetBoundary(type))
  PROVE  F!http_form_data_impl(r) =
           IF type[1] # "multipart/form-data" THEN [status |-> 400]
           ELSE IF F!GetBoundaryThrows(type) THEN F!Thrown
           ELSE [parts |-> [i \in DOMAIN P |-> F!Descriptor(P[i])]]
<1>1. r.payload = payload /\ F!Found(r, "content-type") /\ F!Find(r, "content-type") = type
  BY ContentType
<1>2. r.verb = "POST"
  <2>1. PICK verb, shown : verb = "POST" /\ shown = "content-type"
    OBVIOUS
  <2>2. Posted(verb, shown, <<type>>, payload).verb = verb
    BY PostedVerb
  <2> QED
    BY <2>1, <2>2
<1>3. ~(r.verb # "POST")
  BY <1>2
<1>4. CASE type[1] # "multipart/form-data"
  BY <1>1, <1>3, <1>4, Zenon DEF F!http_form_data_impl, F!content_type
<1>5. CASE ~(type[1] # "multipart/form-data") /\ F!GetBoundaryThrows(type)
  BY <1>1, <1>3, <1>5, Zenon DEF F!http_form_data_impl, F!content_type
<1>6. CASE ~(type[1] # "multipart/form-data") /\ ~F!GetBoundaryThrows(type)
  BY <1>1, <1>3, <1>6, ZenonT(40) DEF F!http_form_data_impl, F!content_type
<1> QED
  BY <1>4, <1>5, <1>6

\* Another verb is refused, and so is a form without a type.
LEMMA FormRefused ==
  ASSUME NEW type, NEW payload
  PROVE  /\ F!http_form_data_impl(Posted("PUT", "content-type", <<type>>, payload)) = [status |-> 405]
         /\ F!http_form_data_impl(Posted("POST", "content-type", <<>>, payload)) = [status |-> 400]
<1>1. F!http_form_data_impl(Posted("PUT", "content-type", <<type>>, payload)) = [status |-> 405]
  <2>1. PICK r : r = Posted("PUT", "content-type", <<type>>, payload)
    OBVIOUS
  <2>2. r.verb = "PUT"
    <3>1. PICK verb, shown : verb = "PUT" /\ shown = "content-type"
      OBVIOUS
    <3>2. Posted(verb, shown, <<type>>, payload).verb = verb
      BY PostedVerb
    <3> QED
      BY <2>1, <3>1, <3>2
  <2>3. r.verb # "POST"
    BY <2>2
  <2> QED
    BY <2>1, <2>3, Zenon DEF F!http_form_data_impl
<1>2. F!http_form_data_impl(Posted("POST", "content-type", <<>>, payload)) = [status |-> 400]
  <2>1. PICK r : r = Posted("POST", "content-type", <<>>, payload)
    OBVIOUS
  <2>2. r.verb = "POST" /\ r.headers = <<>>
    BY <2>1, PostedUntyped
  <2>3. ~F!Found(r, "content-type")
    <3>1. Len(r.headers) = 0
      BY <2>2
    <3> QED
      BY <3>1 DEF F!Found
  <2> QED
    BY <2>1, <2>2, <2>3, Zenon DEF F!http_form_data_impl, F!content_type
<1> QED
  BY <1>1, <1>2

\* The boundary is the same with quotes around it, and not there without one.
LEMMA BoundaryRead ==
  ASSUME NEW f, NEW g, NEW u,
         f = <<"multipart/form-data", "B">>, g = <<"multipart/form-data", F!Quote, "B", F!Quote>>,
         u = <<"multipart/form-data">>
  PROVE  /\ f[1] = "multipart/form-data" /\ ~F!GetBoundaryThrows(f) /\ F!GetBoundary(f) = "B"
         /\ g[1] = "multipart/form-data" /\ ~F!GetBoundaryThrows(g) /\ F!GetBoundary(g) = "B"
         /\ u[1] = "multipart/form-data" /\ F!GetBoundaryThrows(u)
<1>1. Len(f) = 2 /\ f[1] = "multipart/form-data" /\ f[2] = "B" /\ f[2] # F!Quote
  BY DEF F!Quote
<1>2. /\ Len(g) = 4 /\ g[1] = "multipart/form-data" /\ g[2] = F!Quote /\ g[3] = "B"
      /\ g[4] = F!Quote
  OBVIOUS
<1>3. Len(u) = 1 /\ u[1] = "multipart/form-data"
  OBVIOUS
<1>4. F!Last(g) = F!Quote
  BY <1>2 DEF F!Last
<1> QED
  BY <1>1, <1>2, <1>3, <1>4 DEF F!GetBoundaryThrows, F!GetBoundary

\* What is before the first boundary: a line end, or nothing.
LEMMA Preambles == IsPreamble(<<F!CRLF>>, 1) /\ IsPreamble(<<>>, 0)
<1>1. PICK c, x : c = F!CRLF /\ x = <<c>>
  OBVIOUS
<1>2. c \in FormPiece
  BY <1>1, Pieces
<1>3. x \in Seq(FormPiece) /\ Len(x) = 1 /\ x[1] = c
  BY <1>1, <1>2
<1>4. IsPreamble(<<F!CRLF>>, 1)
  BY <1>1, <1>3 DEF IsPreamble
<1>5. IsPreamble(<<>>, 0)
  BY DEF IsPreamble
<1> QED
  BY <1>4, <1>5

\* What a function makes of a form whose type has the boundary.
LEMMA FormDescribed ==
  ASSUME NEW parts, IsForm(parts), NEW e, NEW x, IsPreamble(x, e), e = 1 \/ parts # <<>>,
         NEW type, type[1] = "multipart/form-data", ~F!GetBoundaryThrows(type),
         F!GetBoundary(type) = "B",
         NEW o, o = F!http_form_data_impl(Posted("POST", "content-type", <<type>>, Multipart(parts, x))),
         NEW d, d = [i \in DOMAIN parts |-> Described(parts[i])]
  PROVE  (e = 1 => o = [parts |-> d]) /\ Titles(o.parts) = Titles(d)
<1>1. PICK r, T, P : /\ T = Multipart(parts, x) /\ r = Posted("POST", "content-type", <<type>>, T)
                     /\ P = F!Parts(T, "B")
  OBVIOUS
<1>2. PICK a : a = [i \in DOMAIN P |-> F!Descriptor(P[i])]
  OBVIOUS
<1>3. o = [parts |-> a]
  <2>1. P = F!Parts(T, F!GetBoundary(type))
    BY <1>1
  <2>2. F!http_form_data_impl(r) =
          IF type[1] # "multipart/form-data" THEN [status |-> 400]
          ELSE IF F!GetBoundaryThrows(type) THEN F!Thrown
          ELSE [parts |-> [i \in DOMAIN P |-> F!Descriptor(P[i])]]
    BY <1>1, <2>1, FormAnswered
  <2>3. o = F!http_form_data_impl(r)
    BY <1>1
  <2> QED
    BY <1>2, <2>2, <2>3
<1>4. /\ DOMAIN P = DOMAIN parts
      /\ \A i \in DOMAIN parts :
           /\ e = 1 => F!Descriptor(P[i]) = Described(parts[i])
           /\ F!Descriptor(P[i]).name = Described(parts[i]).name
           /\ F!Descriptor(P[i]).filename = Described(parts[i]).filename
  <2>1. P = F!Parts(Multipart(parts, x), "B")
    BY <1>1
  <2> QED
    BY <2>1, FormRead
<1>5. e = 1 => a = d
  BY <1>2, <1>4
<1>6. Titles(a) = Titles(d)
  <2>1. DOMAIN a = DOMAIN parts /\ DOMAIN d = DOMAIN parts
    BY <1>2, <1>4
  <2>2. \A i \in DOMAIN parts : a[i].name = d[i].name /\ a[i].filename = d[i].filename
    BY <1>2, <1>4
  <2> QED
    BY <2>1, <2>2 DEF Titles
<1> QED
  BY <1>3, <1>5, <1>6

\* A function that describes a form finds in it every part, once and in order, whatever is
\* in their bodies, whether or not the boundary is in quotes; the first boundary counts as a
\* header where nothing is before it; and what is no form is refused (http_form_data.cc:82).
THEOREM FormsUnderstood == Spec => []PartsUnderstood
<1>1. AsParsed => PartsUnderstood
  <2> SUFFICES ASSUME AsParsed, sent.kind = "parts"
               PROVE  LET expected == [i \in DOMAIN sent.parts |-> Described(sent.parts[i])]
                      IN  \A way \in DOMAIN outcome :
                            CASE way \in {"unquoted", "quoted"} -> outcome[way] = [parts |-> expected]
                              [] way = "bare" ->
                                   sent.parts # <<>> => Titles(outcome[way].parts) = Titles(expected)
                              [] way = "unbounded" -> outcome[way] = Thrown
                              [] OTHER -> outcome[way] = [status |-> IF way = "put" THEN 405 ELSE 400]
    BY Zenon DEF PartsUnderstood
  <2>1. PICK parts, d : parts = sent.parts /\ d = [i \in DOMAIN parts |-> Described(parts[i])]
    OBVIOUS
  <2>2. IsForm(parts)
    BY <2>1, MessagesAssumption DEF AsParsed
  <2>3. PICK f, g, u, t, x : /\ f = <<"multipart/form-data", "B">>
                             /\ g = <<"multipart/form-data", F!Quote, "B", F!Quote>>
                             /\ u = <<"multipart/form-data">>
                             /\ t = <<"text/plain">>
                             /\ x = <<F!CRLF>>
    OBVIOUS
  <2>4. PICK S : /\ S = PartRequests(parts)
                 /\ DOMAIN S = {"unquoted", "quoted", "bare", "unbounded", "otherwise", "untyped", "put"}
                 /\ S["unquoted"] = Posted("POST", "content-type", <<f>>, Multipart(parts, x))
                 /\ S["quoted"] = Posted("POST", "content-type", <<g>>, Multipart(parts, x))
                 /\ S["bare"] = Posted("POST", "content-type", <<f>>, Multipart(parts, <<>>))
                 /\ S["unbounded"] = Posted("POST", "content-type", <<u>>, Multipart(parts, x))
                 /\ S["otherwise"] = Posted("POST", "content-type", <<t>>, Multipart(parts, x))
                 /\ S["untyped"] = Posted("POST", "content-type", <<>>, Multipart(parts, x))
                 /\ S["put"] = Posted("PUT", "content-type", <<f>>, Multipart(parts, x))
    <3>1. PICK q1, q2, q3, q4, q5, q6, q7 :
            /\ q1 = Posted("POST", "content-type", <<f>>, Multipart(parts, x))
            /\ q2 = Posted("POST", "content-type", <<g>>, Multipart(parts, x))
            /\ q3 = Posted("POST", "content-type", <<f>>, Multipart(parts, <<>>))
            /\ q4 = Posted("POST", "content-type", <<u>>, Multipart(parts, x))
            /\ q5 = Posted("POST", "content-type", <<t>>, Multipart(parts, x))
            /\ q6 = Posted("POST", "content-type", <<>>, Multipart(parts, x))
            /\ q7 = Posted("PUT", "content-type", <<f>>, Multipart(parts, x))
      OBVIOUS
    <3>2. PartRequests(parts) = [unquoted |-> q1, quoted |-> q2, bare |-> q3, unbounded |-> q4,
                                 otherwise |-> q5, untyped |-> q6, put |-> q7]
      BY <2>3, <3>1, Zenon DEF PartRequests
    <3> QED
      BY <3>1, <3>2
  <2>5. /\ DOMAIN outcome \subseteq DOMAIN S
        /\ \A way \in DOMAIN outcome : outcome[way] = F!http_form_data_impl(S[way])
    BY <2>1, <2>4 DEF AsParsed, Sendings
  <2>6. IsPreamble(x, 1) /\ IsPreamble(<<>>, 0)
    BY <2>3, Preambles
  <2>7. "unquoted" \in DOMAIN outcome => outcome["unquoted"] = [parts |-> d]
    BY <2>1, <2>2, <2>3, <2>4, <2>5, <2>6, BoundaryRead, FormDescribed
  <2>8. "quoted" \in DOMAIN outcome => outcome["quoted"] = [parts |-> d]
    BY <2>1, <2>2, <2>3, <2>4, <2>5, <2>6, BoundaryRead, FormDescribed
  <2>9. "bare" \in DOMAIN outcome /\ parts # <<>> => Titles(outcome["bare"].parts) = Titles(d)
    BY <2>1, <2>2, <2>3, <2>4, <2>5, <2>6, BoundaryRead, FormDescribed
  <2>10. "unbounded" \in DOMAIN outcome => outcome["unbounded"] = Thrown
    BY <2>3, <2>4, <2>5, BoundaryRead, FormAnswered DEF Thrown, F!Thrown
  <2>11. "otherwise" \in DOMAIN outcome => outcome["otherwise"] = [status |-> 400]
    BY <2>3, <2>4, <2>5, FormAnswered
  <2>12. "untyped" \in DOMAIN outcome => outcome["untyped"] = [status |-> 400]
    BY <2>4, <2>5, FormRefused
  <2>13. "put" \in DOMAIN outcome => outcome["put"] = [status |-> 405]
    BY <2>4, <2>5, FormRefused
  <2> QED
    BY <2>1, <2>4, <2>5, <2>7, <2>8, <2>9, <2>10, <2>11, <2>12, <2>13
<1> QED
  BY <1>1, EachAsParsed, PTL
==============================================================================

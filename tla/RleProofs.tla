------------------------------ MODULE RleProofs ------------------------------
(***************************************************************************)
(* locDecompressRLE decodes every image, for every pixel size, every set   *)
(* of packet lengths, every number of packets and whatever lies behind the *)
(* file in flash.  The format is defined with FlattenSeq, a recursive      *)
(* function: the first part shows what it computes, by the least length    *)
(* for which it would not; the second what the bytes of a packet are and   *)
(* where they lie; the third is the invariant of the decoder.              *)
(***************************************************************************)
EXTENDS RleImage, SequenceTheorems, WellFoundedInduction, TLAPS

(* A set of numbers that is not empty has a least one.                     *)
LEMMA LeastNumber ==
  ASSUME NEW S, S \subseteq Nat, S # {}
  PROVE \E x \in S : \A y \in S : x <= y
<1>1. PICK x \in S : \A y \in S : ~(<<y, x>> \in OpToRel(<, Nat))
  BY NatLessThanWellFounded, WFMin
<1>2. ASSUME NEW y \in S PROVE x <= y
  <2>1. <<y, x>> \in Nat \X Nat /\ <<y, x>>[1] = y /\ <<y, x>>[2] = x
    OBVIOUS
  <2>2. y < x => <<y, x>> \in OpToRel(<, Nat)
    BY <2>1, Zenon DEF OpToRel
  <2>3. ~(y < x) BY <1>1, <2>2, Zenon
  <2> QED BY <2>3, SMT
<1> QED BY <1>2

Octet == 0 .. 255

(* Concatenation, under a name the provers do not expand.                  *)
Cat(a, b) == a \o b

(* Joins(s, G, m): G[k] is the concatenation of the first k members of s,  *)
(* for every k up to m.                                                    *)
Joins(s, G, m) ==
  /\ G \in [0 .. m -> Seq(Octet)] /\ G[0] = <<>>
  /\ \A k \in 1 .. m : G[k] = Cat(G[k-1], s[k])

(* Every sequence of byte sequences has its joins.                         *)
LEMMA JoinsExist ==
  ASSUME NEW s \in Seq(Seq(Octet))
  PROVE \A m \in 0 .. Len(s) : \E G : Joins(s, G, m)
<1> DEFINE Bad == {m \in Nat : m <= Len(s) /\ ~\E G : Joins(s, G, m)}
<1>0. Len(s) \in Nat BY LenProperties
<1>1. SUFFICES ASSUME Bad # {} PROVE FALSE
  BY <1>0
<1>2. PICK x \in Bad : \A y \in Bad : x <= y
  <2>1. Bad \subseteq Nat OBVIOUS
  <2> HIDE DEF Bad
  <2> QED BY <1>1, <2>1, LeastNumber
<1>3. CASE x = 0
  <2> DEFINE G == [k \in 0 .. 0 |-> <<>>]
  <2>1. G \in [0 .. 0 -> Seq(Octet)] /\ G[0] = <<>> BY EmptySeq
  <2>2. Joins(s, G, 0) BY <2>1 DEF Joins
  <2> QED BY <1>2, <1>3, <2>2
<1>4. CASE x # 0
  <2>1. x \in Nat /\ x \in 1 .. Len(s) /\ x - 1 \in Nat /\ x - 1 \notin Bad
    <3>1. x \in Nat /\ x <= Len(s) BY <1>2
    <3>2. x - 1 \in Nat /\ ~(x <= x - 1) /\ x \in 1 .. Len(s)
      BY <3>1, <1>0, <1>4
    <3> HIDE DEF Bad
    <3> QED BY <3>1, <3>2, <1>2
  <2>2. PICK G : Joins(s, G, x - 1) BY <1>0, <2>1
  <2> DEFINE H == [k \in 0 .. x |-> IF k = x THEN Cat(G[x-1], s[x]) ELSE G[k]]
  <2>3. G[x-1] \in Seq(Octet) /\ s[x] \in Seq(Octet)
    BY <2>1, <2>2, ElementOfSeq DEF Joins
  <2>4. Cat(G[x-1], s[x]) \in Seq(Octet) BY <2>3, ConcatProperties DEF Cat
  <2>5. H \in [0 .. x -> Seq(Octet)]
    <3>1. ASSUME NEW k \in 0 .. x, k # x PROVE G[k] \in Seq(Octet)
      BY <2>1, <2>2, <3>1 DEF Joins
    <3> QED BY <2>4, <3>1
  <2>6. H[0] = <<>> BY <2>1, <2>2 DEF Joins
  <2>7. ASSUME NEW k \in 1 .. x PROVE H[k] = Cat(H[k-1], s[k])
    <3>1. H[k-1] = G[k-1] BY <2>1
    <3>2. CASE k = x BY <3>1, <3>2
    <3>3. CASE k # x
      <4>1. k \in 1 .. x - 1 /\ H[k] = G[k] BY <3>3, <2>1
      <4> QED BY <4>1, <3>1, <2>2 DEF Joins
    <3> QED BY <3>2, <3>3
  <2> HIDE DEF H
  <2>8. Joins(s, H, x) BY <2>5, <2>6, <2>7 DEF Joins
  <2> QED BY <1>2, <2>8
<1> QED BY <1>3, <1>4

(* The concatenations of the first members of s.                           *)
Join(s) == CHOOSE G : Joins(s, G, Len(s))

(* It is one: they exist.                                                  *)
LEMMA JoinIs ==
  ASSUME NEW s \in Seq(Seq(Octet)) PROVE Joins(s, Join(s), Len(s))
<1>1. Len(s) \in Nat BY LenProperties
<1>2. \E G : Joins(s, G, Len(s)) BY <1>1, JoinsExist
<1> QED BY <1>2 DEF Join

(* FlattenSeq is the last of them.                                         *)
LEMMA FlattenIsJoin ==
  ASSUME NEW s \in Seq(Seq(Octet)) PROVE FlattenSeq(s) = Join(s)[Len(s)]
<1> DEFINE n == Len(s)
           J == Join(s)
           Eq(f) == f = [i \in 1 .. n |-> IF i = 1 THEN s[i]
                                          ELSE Cat(f[i-1], s[i])]
<1>1. n \in Nat /\ Joins(s, J, n) BY LenProperties, JoinIs
<1>2. CASE n = 0
  <2>1. s = <<>> BY <1>2, EmptySeq
  <2> QED BY <2>1, <1>1, <1>2 DEF FlattenSeq, Joins
<1>3. CASE n # 0
  <2> DEFINE F == CHOOSE f : Eq(f)
  <2>1. FlattenSeq(s) = F[n] BY <1>3 DEF FlattenSeq, Cat
  <2>2. Eq([i \in 1 .. n |-> J[i]])
    <3> DEFINE K == [i \in 1 .. n |-> J[i]]
    <3>1. ASSUME NEW i \in 1 .. n
          PROVE K[i] = IF i = 1 THEN s[i] ELSE Cat(K[i-1], s[i])
      <4>1. J[i] = Cat(J[i-1], s[i]) BY <1>1 DEF Joins
      <4>2. CASE i = 1
        <5>1. J[0] = <<>> /\ s[1] \in Seq(Octet)
          BY <1>1, <4>2, ElementOfSeq DEF Joins
        <5>2. Cat(<<>>, s[1]) = s[1] BY <5>1, ConcatEmptySeq DEF Cat
        <5> HIDE DEF J
        <5> QED BY <4>1, <4>2, <5>1, <5>2
      <4>3. CASE i # 1
        <5>1. i - 1 \in 1 .. n BY <4>3, <1>1
        <5> HIDE DEF J, n
        <5> QED BY <4>1, <4>3, <5>1
      <4> QED BY <4>2, <4>3
    <3>2. K = [i \in 1 .. n |-> K[i]] OBVIOUS
    <3> HIDE DEF K
    <3>3. K = [i \in 1 .. n |-> IF i = 1 THEN s[i] ELSE Cat(K[i-1], s[i])]
      BY <3>1, <3>2
    <3> QED BY <3>3 DEF K
  <2>3. Eq(F) BY <2>2
  <2>4. ASSUME NEW i \in 1 .. n
        PROVE F[i] = IF i = 1 THEN s[i] ELSE Cat(F[i-1], s[i])
    BY <2>3
  <2> DEFINE Bad == {m \in Nat : m \in 1 .. n /\ F[m] # J[m]}
  <2> HIDE DEF F, Eq
  <2>5. Bad = {}
    <3> SUFFICES ASSUME Bad # {} PROVE FALSE OBVIOUS
    <3>1. PICK x \in Bad : \A y \in Bad : x <= y
      <4>1. Bad \subseteq Nat OBVIOUS
      <4> HIDE DEF Bad
      <4> QED BY <4>1, LeastNumber
    <3>2. J[x] = Cat(J[x-1], s[x]) BY <1>1, <3>1 DEF Joins
    <3>3. CASE x = 1
      <4>1. J[0] = <<>> /\ s[1] \in Seq(Octet)
        BY <1>1, <3>1, <3>3, ElementOfSeq DEF Joins
      <4>2. J[1] = Cat(<<>>, s[1]) BY <3>2, <3>3, <4>1
      <4>3. J[1] = s[1] BY <4>1, <4>2, ConcatEmptySeq DEF Cat
      <4> QED BY <4>3, <3>1, <3>3, <2>4
    <3>4. CASE x # 1
      <4>1. x - 1 \in 1 .. n /\ x - 1 \notin Bad BY <3>1, <3>4, <1>1
      <4>2. F[x-1] = J[x-1] BY <4>1
      <4> QED BY <4>2, <3>1, <3>2, <3>4, <2>4
    <3> QED BY <3>3, <3>4
  <2>6. n \in 1 .. n BY <1>1, <1>3
  <2>7. F[n] = J[n] BY <2>5, <2>6, <1>1
  <2> QED BY <2>1, <2>7
<1> QED BY <1>2, <1>3

(* What a join is made of: lengths and members.                            *)
LEMMA CatFacts ==
  ASSUME NEW a \in Seq(Octet), NEW b \in Seq(Octet)
  PROVE /\ Cat(a, b) \in Seq(Octet) /\ Len(a) \in Nat /\ Len(b) \in Nat
        /\ Len(Cat(a, b)) = Len(a) + Len(b)
        /\ \A i \in 1 .. Len(a) : Cat(a, b)[i] = a[i]
        /\ \A i \in 1 .. Len(b) : Cat(a, b)[Len(a) + i] = b[i]
<1>1. Len(a) \in Nat /\ Len(b) \in Nat BY LenProperties
<1>2. /\ Cat(a, b) \in Seq(Octet) /\ Len(Cat(a, b)) = Len(a) + Len(b)
      /\ \A i \in 1 .. Len(a) + Len(b) :
           Cat(a, b)[i] = IF i <= Len(a) THEN a[i] ELSE b[i - Len(a)]
  BY ConcatProperties DEF Cat
<1> DEFINE la == Len(a)
           lb == Len(b)
           c == Cat(a, b)
<1>3. ASSUME NEW i \in 1 .. la PROVE c[i] = a[i]
  <2>1. i \in 1 .. la + lb /\ i <= la BY <1>1
  <2> QED BY <2>1, <1>2
<1>4. ASSUME NEW i \in 1 .. lb PROVE c[la + i] = b[i]
  <2>1. la + i \in 1 .. la + lb /\ ~(la + i <= la) /\ (la + i) - la = i
    BY <1>1
  <2> HIDE DEF la, lb, c
  <2>2. c[la + i] = b[(la + i) - la] BY <2>1, <1>2 DEF la, lb, c
  <2> QED BY <2>1, <2>2
<1> QED BY <1>1, <1>2, <1>3, <1>4

(* One member more.                                                        *)
LEMMA JoinStep ==
  ASSUME NEW s \in Seq(Seq(Octet)), NEW k \in 1 .. Len(s)
  PROVE /\ Join(s)[k] = Cat(Join(s)[k-1], s[k])
        /\ Join(s)[k-1] \in Seq(Octet) /\ s[k] \in Seq(Octet)
        /\ Join(s)[k] \in Seq(Octet)
        /\ Len(Join(s)[k-1]) \in Nat /\ Len(s[k]) \in Nat
        /\ Len(Join(s)[k]) = Len(Join(s)[k-1]) + Len(s[k])
<1>1. Joins(s, Join(s), Len(s)) /\ Len(s) \in Nat
  BY JoinIs, LenProperties
<1>2. k - 1 \in 0 .. Len(s) BY <1>1
<1>3. Join(s)[k] = Cat(Join(s)[k-1], s[k]) BY <1>1 DEF Joins
<1>4. Join(s)[k-1] \in Seq(Octet) BY <1>1, <1>2 DEF Joins
<1>5. s[k] \in Seq(Octet) BY ElementOfSeq
<1> DEFINE a == Join(s)[k-1]
           b == s[k]
           c == Join(s)[k]
<1> HIDE DEF a, b, c
<1>6. c = Cat(a, b) /\ a \in Seq(Octet) /\ b \in Seq(Octet)
  BY <1>3, <1>4, <1>5 DEF a, b, c
<1>7. c \in Seq(Octet) /\ Len(a) \in Nat /\ Len(b) \in Nat
      /\ Len(c) = Len(a) + Len(b)
  BY <1>6, CatFacts
<1> QED BY <1>6, <1>7 DEF a, b, c

(* A join is a prefix of the longer ones.                                  *)
LEMMA JoinPrefix ==
  ASSUME NEW s \in Seq(Seq(Octet)), NEW m \in 0 .. Len(s), NEW k \in 0 .. m
  PROVE /\ Len(Join(s)[k]) \in Nat /\ Len(Join(s)[m]) \in Nat
        /\ Len(Join(s)[k]) <= Len(Join(s)[m])
        /\ \A i \in 1 .. Len(Join(s)[k]) : Join(s)[m][i] = Join(s)[k][i]
<1> DEFINE J == Join(s)
           L(j) == Len(J[j])
           Pre(j) == L(k) <= L(j) /\ \A i \in 1 .. L(k) : J[j][i] = J[k][i]
           Bad == {j \in Nat : k <= j /\ j <= Len(s) /\ ~Pre(j)}
<1>0. Len(s) \in Nat /\ m \in Nat /\ k \in Nat /\ k <= m /\ m <= Len(s)
  BY LenProperties
<1>1. ASSUME NEW j \in Nat, j <= Len(s) PROVE L(j) \in Nat
  <2>1. Joins(s, J, Len(s)) BY JoinIs
  <2> HIDE DEF J
  <2>2. j \in 0 .. Len(s) BY <1>0, <1>1
  <2>3. J[j] \in Seq(Octet) BY <2>1, <2>2 DEF Joins
  <2> QED BY <2>3, LenProperties
<1>2. Bad = {}
  <2> SUFFICES ASSUME Bad # {} PROVE FALSE OBVIOUS
  <2>1. PICK x \in Bad : \A y \in Bad : x <= y
    <3>1. Bad \subseteq Nat OBVIOUS
    <3> HIDE DEF Bad
    <3> QED BY <3>1, LeastNumber
  <2>2. x \in Nat /\ k <= x /\ x <= Len(s) /\ ~Pre(x) BY <2>1
  <2>3. L(k) \in Nat BY <1>0, <1>1
  <2> HIDE DEF J
  <2>4. x # k
    <3>1. Pre(k) BY <2>3
    <3> QED BY <3>1, <2>2
  <2> HIDE DEF Pre
  <2>5. x - 1 \in Nat /\ k <= x - 1 /\ x - 1 <= Len(s) /\ x \in 1 .. Len(s)
        /\ ~(x <= x - 1)
    BY <1>0, <2>2, <2>4
  <2>6. Pre(x - 1) BY <2>1, <2>5
  <2> HIDE DEF Bad
  <2>7. /\ J[x] = Cat(J[x-1], s[x]) /\ L(x-1) \in Nat /\ Len(s[x]) \in Nat
        /\ L(x) = L(x-1) + Len(s[x])
        /\ J[x-1] \in Seq(Octet) /\ s[x] \in Seq(Octet)
    BY <2>5, JoinStep DEF J
  <2>8. \A i \in 1 .. L(x-1) : J[x][i] = J[x-1][i]
    <3> DEFINE a == J[x-1]
               b == s[x]
               c == J[x]
    <3> HIDE DEF a, b, c
    <3>1. c = Cat(a, b) /\ a \in Seq(Octet) /\ b \in Seq(Octet)
      BY <2>7 DEF a, b, c
    <3>2. \A i \in 1 .. Len(a) : c[i] = a[i] BY <3>1, CatFacts
    <3> QED BY <3>2 DEF a, c
  <2> HIDE DEF L
  <2>9. L(k) <= L(x-1) /\ \A i \in 1 .. L(k) : J[x-1][i] = J[k][i]
    BY <2>6 DEF Pre
  <2>10. L(k) <= L(x) BY <2>3, <2>7, <2>9
  <2>11. ASSUME NEW i \in 1 .. L(k) PROVE J[x][i] = J[k][i]
    <3>1. i \in 1 .. L(x-1) BY <2>3, <2>7, <2>9
    <3> QED BY <3>1, <2>8, <2>9
  <2>12. Pre(x) BY <2>10, <2>11 DEF Pre
  <2> QED BY <2>2, <2>12
<1>3. Pre(m) BY <1>0, <1>2
<1>4. L(m) \in Nat /\ L(k) \in Nat BY <1>0, <1>1
<1> QED BY <1>3, <1>4

(* Where the members of s are in the whole join.                           *)
LEMMA JoinAt ==
  ASSUME NEW s \in Seq(Seq(Octet)), NEW k \in 1 .. Len(s),
         NEW i \in 1 .. Len(s[k])
  PROVE Join(s)[Len(s)][Len(Join(s)[k-1]) + i] = s[k][i]
<1> DEFINE J == Join(s)
           a == J[k-1]
           b == s[k]
           c == J[k]
<1>0. Len(s) \in Nat BY LenProperties
<1>1. /\ c = Cat(a, b) /\ a \in Seq(Octet) /\ b \in Seq(Octet)
      /\ Len(a) \in Nat /\ Len(b) \in Nat /\ Len(c) = Len(a) + Len(b)
  BY JoinStep
<1>2. Len(s) \in 0 .. Len(s) /\ k \in 0 .. Len(s) BY <1>0
<1>3. \A j \in 1 .. Len(c) : J[Len(s)][j] = c[j]
  BY <1>2, JoinPrefix
<1>4. i \in 1 .. Len(b) OBVIOUS
<1> HIDE DEF a, b, c, J
<1>5. c[Len(a) + i] = b[i] BY <1>1, <1>4, CatFacts
<1>6. Len(a) + i \in 1 .. Len(c) BY <1>1, <1>4
<1>7. J[Len(s)][Len(a) + i] = b[i] BY <1>3, <1>5, <1>6
<1> QED BY <1>7 DEF a, b, J

-----------------------------------------------------------------------------
(* A repeat packet of the image tool repeats at least twice.               *)
RealRepeats == 1 \notin RepeatLengths

(* Functions on 1 .. n are sequences.                                      *)
LEMMA FunSeq ==
  ASSUME NEW n \in Nat, NEW S, NEW f \in [1 .. n -> S]
  PROVE f \in Seq(S) /\ Len(f) = n
BY LenProperties, SeqDef

(* What every packet of an image is.                                       *)
LEMMA PacketFacts ==
  ASSUME RealRepeats, NEW p \in Packet
  PROVE /\ p.rle \in {0, 1} /\ p.px \in Seq(Seq(Octet))
        /\ Len(p.px) \in 1 .. 128
        /\ \A j \in 1 .. Len(p.px) :
             p.px[j] \in Seq(Octet) /\ Len(p.px[j]) = Bpp
        /\ p.rle = 1 => Len(p.px) >= 2
                        /\ \A j \in 1 .. Len(p.px) : p.px[j] = p.px[1]
<1>1. \A x \in Pixel : x \in Seq(Octet) /\ Len(x) = Bpp
  <2>1. Bpp \in Nat /\ Byte \subseteq Octet BY RleOK DEF Octet
  <2>2. ASSUME NEW x \in Pixel PROVE x \in [1 .. Bpp -> Octet]
    BY <2>1 DEF Pixel
  <2> QED BY <2>1, <2>2, FunSeq
<1>2. \E n \in 1 .. 128 :
        /\ p.px \in [1 .. n -> Pixel] /\ p.rle \in {0, 1}
        /\ p.rle = 1 => n >= 2 /\ \A j \in 1 .. n : p.px[j] = p.px[1]
  <2>1. CASE \E n \in PacketLengths : p \in [rle : {0}, px : [1 .. n -> Pixel]]
    <3>1. PICK n \in PacketLengths : p \in [rle : {0}, px : [1 .. n -> Pixel]]
      BY <2>1
    <3>2. n \in 1 .. 128 BY RleOK
    <3>3. p.rle = 0 /\ p.px \in [1 .. n -> Pixel] BY <3>1
    <3>4. ASSUME NEW r, r = 0 PROVE r # 1 /\ r \in {0, 1} BY ONLY <3>4
    <3>5. p.rle # 1 /\ p.rle \in {0, 1} BY <3>3, <3>4, Zenon
    <3> QED BY <3>2, <3>3, <3>5, Zenon
  <2>2. CASE \E n \in RepeatLengths, x \in Pixel :
               p = [rle |-> 1, px |-> [j \in 1 .. n |-> x]]
    <3>1. PICK n \in RepeatLengths, x \in Pixel :
               p = [rle |-> 1, px |-> [j \in 1 .. n |-> x]]
      BY <2>2
    <3>2. n \in 1 .. 128 /\ n >= 2 BY RleOK DEF RealRepeats
    <3>3. p.rle = 1 /\ p.px = [j \in 1 .. n |-> x] BY <3>1
    <3>4. p.px \in [1 .. n -> Pixel] /\ \A j \in 1 .. n : p.px[j] = p.px[1]
      BY <3>2, <3>3
    <3> QED BY <3>2, <3>3, <3>4
  <2>3. \/ \E n \in PacketLengths : p \in [rle : {0}, px : [1 .. n -> Pixel]]
        \/ \E n \in RepeatLengths, x \in Pixel :
             p = [rle |-> 1, px |-> [j \in 1 .. n |-> x]]
    <3> DEFINE Raw == UNION {[rle : {0}, px : [1 .. n -> Pixel]] :
                               n \in PacketLengths}
               Rep == {[rle |-> 1, px |-> [j \in 1 .. n |-> x]] :
                         n \in RepeatLengths, x \in Pixel}
    <3>1. p \in Raw \/ p \in Rep BY DEF Packet
    <3>2. p \in Raw =>
            \E n \in PacketLengths : p \in [rle : {0}, px : [1 .. n -> Pixel]]
      BY Zenon
    <3>3. p \in Rep => \E n \in RepeatLengths, x \in Pixel :
                         p = [rle |-> 1, px |-> [j \in 1 .. n |-> x]]
      BY SMTT(30)
    <3> QED BY <3>1, <3>2, <3>3
  <2> QED BY <2>1, <2>2, <2>3, Zenon
<1>3. PICK n \in 1 .. 128 :
        /\ p.px \in [1 .. n -> Pixel] /\ p.rle \in {0, 1}
        /\ p.rle = 1 => n >= 2 /\ \A j \in 1 .. n : p.px[j] = p.px[1]
  BY <1>2
<1> DEFINE q == p.px
<1>4. q \in [1 .. n -> Seq(Octet)] /\ \A j \in 1 .. n : Len(q[j]) = Bpp
  BY <1>1, <1>3
<1> HIDE DEF q
<1>5. q \in Seq(Seq(Octet)) /\ Len(q) = n
  <2>1. n \in Nat OBVIOUS
  <2> QED BY <2>1, <1>4, FunSeq
<1> QED BY <1>3, <1>4, <1>5 DEF q

(* The two encodings.                                                      *)
LEMMA EncodeFacts ==
  ASSUME RealRepeats, NEW p \in Packet
  PROVE /\ Encode(p) \in Seq(Octet) /\ Len(Encode(p)) >= 2
        /\ Encode(p)[1] \in Nat
        /\ (Encode(p)[1] % 128) + 1 = Len(p.px)
        /\ Encode(p)[1] \div 128 = p.rle
        /\ p.rle = 1 => /\ Len(Encode(p)) = 1 + Bpp
                        /\ \A i \in 1 .. Bpp : Encode(p)[1 + i] = p.px[1][i]
        /\ p.rle = 0 =>
             /\ Len(Encode(p)) = 1 + Len(Join(p.px)[Len(p.px)])
             /\ \A i \in 1 .. Len(Join(p.px)[Len(p.px)]) :
                  Encode(p)[1 + i] = Join(p.px)[Len(p.px)][i]
<1> DEFINE n == Len(p.px)
           h == 128 * p.rle + n - 1
           q == Join(p.px)[n]
           body == IF p.rle = 1 THEN p.px[1] ELSE q
<1>1. /\ p.rle \in {0, 1} /\ p.px \in Seq(Seq(Octet)) /\ n \in 1 .. 128
      /\ \A j \in 1 .. n : p.px[j] \in Seq(Octet) /\ Len(p.px[j]) = Bpp
  BY PacketFacts
<1>2. Encode(p) = Cat(<<h>>, body)
  BY <1>1, FlattenIsJoin DEF Encode, Cat
<1>3. h \in Octet /\ (h % 128) + 1 = n /\ h \div 128 = p.rle
  <2>0. ASSUME NEW x \in 1 .. 128
        PROVE /\ x - 1 \in 0 .. 255 /\ 128 + x - 1 \in 0 .. 255
              /\ ((x - 1) % 128) + 1 = x /\ (x - 1) \div 128 = 0
              /\ ((128 + x - 1) % 128) + 1 = x /\ (128 + x - 1) \div 128 = 1
    OBVIOUS
  <2> HIDE DEF n
  <2>1. CASE p.rle = 0
    <3>1. h = n - 1 BY <1>1, <2>1
    <3>2. n - 1 \in 0 .. 255 /\ ((n - 1) % 128) + 1 = n /\ (n - 1) \div 128 = 0
      BY <1>1, <2>0
    <3> HIDE DEF h
    <3> QED BY ONLY <2>1, <3>1, <3>2 DEF Octet
  <2>2. CASE p.rle = 1
    <3>1. h = 128 + n - 1 BY <1>1, <2>2
    <3>2. /\ 128 + n - 1 \in 0 .. 255
          /\ ((128 + n - 1) % 128) + 1 = n /\ (128 + n - 1) \div 128 = 1
      BY <1>1, <2>0
    <3> HIDE DEF h
    <3> QED BY ONLY <2>2, <3>1, <3>2 DEF Octet
  <2> QED BY <1>1, <2>1, <2>2
<1>4. <<h>> \in Seq(Octet) /\ Len(<<h>>) = 1 /\ <<h>>[1] = h
  <2> HIDE DEF h
  <2> QED BY <1>3
<1>5. q \in Seq(Octet) /\ Len(q) \in Nat /\ Len(q) >= 1
  <2>1. n \in 1 .. n
    <3> HIDE DEF n
    <3> QED BY <1>1
  <2>2. /\ Len(Join(p.px)[n-1]) \in Nat /\ Len(p.px[n]) = Bpp
        /\ Len(q) = Len(Join(p.px)[n-1]) + Len(p.px[n]) /\ q \in Seq(Octet)
    BY <2>1, <1>1, JoinStep
  <2> QED BY <2>2, RleOK
<1>6. body \in Seq(Octet) /\ Len(body) \in Nat /\ Len(body) >= 1
      /\ (p.rle = 1 => Len(body) = Bpp)
  <2>1. p.px[1] \in Seq(Octet) /\ Len(p.px[1]) = Bpp BY <1>1
  <2> HIDE DEF q
  <2> QED BY <1>5, <2>1, RleOK
<1> DEFINE e == Encode(p)
<1> HIDE DEF h, body
<1>7. /\ e \in Seq(Octet) /\ Len(e) = 1 + Len(body)
      /\ \A i \in 1 .. 1 : e[i] = <<h>>[i]
      /\ \A i \in 1 .. Len(body) : e[1 + i] = body[i]
  <2> DEFINE f == <<h>>
  <2> HIDE DEF f
  <2>1. f \in Seq(Octet) /\ Len(f) = 1 /\ e = Cat(f, body)
    BY <1>2, <1>4 DEF f
  <2> HIDE DEF e
  <2>2. /\ e \in Seq(Octet) /\ Len(e) = Len(f) + Len(body)
        /\ \A i \in 1 .. Len(f) : e[i] = f[i]
        /\ \A i \in 1 .. Len(body) : e[Len(f) + i] = body[i]
    BY <2>1, <1>6, CatFacts
  <2>3. /\ e \in Seq(Octet) /\ Len(e) = 1 + Len(body)
        /\ \A i \in 1 .. 1 : e[i] = f[i]
        /\ \A i \in 1 .. Len(body) : e[1 + i] = body[i]
    BY ONLY <2>1, <2>2, Zenon
  <2> QED BY <2>3 DEF f
<1>8. e[1] = h BY <1>4, <1>7
<1> HIDE DEF e
<1>9. Len(e) >= 2 BY <1>6, <1>7
<1>10. /\ e[1] \in Nat /\ (e[1] % 128) + 1 = n /\ e[1] \div 128 = p.rle
  BY <1>3, <1>8 DEF Octet
<1>11. CASE p.rle = 1
  <2>1. body = p.px[1] BY <1>11 DEF body
  <2>2. /\ Len(e) = 1 + Bpp
        /\ \A i \in 1 .. Bpp : e[1 + i] = p.px[1][i]
    BY ONLY <2>1, <1>6, <1>7, <1>11, Zenon
  <2> QED BY <2>2, <1>7, <1>9, <1>10, <1>11 DEF e
<1>12. CASE p.rle = 0
  <2>1. body = q BY <1>12 DEF body
  <2> HIDE DEF q
  <2>2. /\ Len(e) = 1 + Len(q)
        /\ \A i \in 1 .. Len(q) : e[1 + i] = q[i]
    BY <2>1, <1>7
  <2> QED BY <2>2, <1>7, <1>9, <1>10, <1>12 DEF e, q
<1> QED BY <1>1, <1>11, <1>12

-----------------------------------------------------------------------------
(* The packets' encodings and decodings, and the length of the first k     *)
(* encodings.                                                              *)
Encs(ps) == [j \in DOMAIN ps |-> Encode(ps[j])]
Decs(ps) == [j \in DOMAIN ps |-> FlattenSeq(ps[j].px)]
EncLen(ps, k) == Len(Join(Encs(ps))[k])
PxJoin(p, j) == Join(p.px)[j]

(* The format in terms of joins.                                           *)
LEMMA ImageFacts ==
  ASSUME RealRepeats, NEW ps \in Seq(Packet)
  PROVE /\ Len(ps) \in Nat
        /\ Encs(ps) \in Seq(Seq(Octet)) /\ Len(Encs(ps)) = Len(ps)
        /\ Decs(ps) \in Seq(Seq(Octet)) /\ Len(Decs(ps)) = Len(ps)
        /\ \A k \in 1 .. Len(ps) :
             /\ ps[k] \in Packet /\ Encs(ps)[k] = Encode(ps[k])
             /\ Decs(ps)[k] = PxJoin(ps[k], Len(ps[k].px))
        /\ Encoding(ps) = Join(Encs(ps))[Len(ps)]
        /\ Decoding(ps) = Join(Decs(ps))[Len(ps)]
<1> DEFINE n == Len(ps)
<1>1. n \in Nat /\ DOMAIN ps = 1 .. n /\ \A k \in 1 .. n : ps[k] \in Packet
  BY LenProperties, ElementOfSeq
<1>2. ASSUME NEW p \in Packet
      PROVE /\ Encode(p) \in Seq(Octet)
            /\ FlattenSeq(p.px) = PxJoin(p, Len(p.px))
            /\ PxJoin(p, Len(p.px)) \in Seq(Octet)
  <2>1. Encode(p) \in Seq(Octet) BY EncodeFacts
  <2>2. p.px \in Seq(Seq(Octet)) /\ Len(p.px) \in 1 .. 128 BY PacketFacts
  <2> DEFINE q == p.px
             m == Len(q)
  <2>3. FlattenSeq(q) = Join(q)[m] BY <2>2, FlattenIsJoin
  <2>4. m \in 1 .. m
    <3>1. m \in 1 .. 128 BY <2>2
    <3> HIDE DEF m
    <3> QED BY <3>1
  <2>5. Join(q)[m] \in Seq(Octet) BY <2>2, <2>4, JoinStep
  <2> QED BY <2>1, <2>3, <2>5 DEF PxJoin
<1> HIDE DEF n
<1>3. /\ Encs(ps) \in [1 .. n -> Seq(Octet)]
      /\ \A k \in 1 .. n : Encs(ps)[k] = Encode(ps[k])
  BY <1>1, <1>2 DEF Encs
<1>4. /\ Decs(ps) \in [1 .. n -> Seq(Octet)]
      /\ \A k \in 1 .. n : Decs(ps)[k] = PxJoin(ps[k], Len(ps[k].px))
  BY <1>1, <1>2 DEF Decs
<1>5. /\ Encs(ps) \in Seq(Seq(Octet)) /\ Len(Encs(ps)) = n
      /\ Decs(ps) \in Seq(Seq(Octet)) /\ Len(Decs(ps)) = n
  BY <1>1, <1>3, <1>4, FunSeq
<1>6. /\ Encoding(ps) = FlattenSeq(Encs(ps))
      /\ Decoding(ps) = FlattenSeq(Decs(ps))
  BY DEF Encoding, Decoding, Encs, Decs
<1>7. /\ Encoding(ps) = Join(Encs(ps))[n]
      /\ Decoding(ps) = Join(Decs(ps))[n]
  BY <1>5, <1>6, FlattenIsJoin
<1> QED BY <1>1, <1>3, <1>4, <1>5, <1>7 DEF n

(* The encodings one after the other.                                      *)
LEMMA EncLenFacts ==
  ASSUME RealRepeats, NEW ps \in Seq(Packet), NEW k \in 1 .. Len(ps)
  PROVE /\ EncLen(ps, k-1) \in Nat /\ EncLen(ps, k) \in Nat
        /\ EncLen(ps, Len(ps)) \in Nat /\ Len(Encode(ps[k])) \in Nat
        /\ EncLen(ps, k) = EncLen(ps, k-1) + Len(Encode(ps[k]))
        /\ EncLen(ps, k) <= EncLen(ps, Len(ps))
<1> DEFINE s == Encs(ps)
           n == Len(ps)
<1>1. s \in Seq(Seq(Octet)) /\ Len(s) = n /\ n \in Nat /\ s[k] = Encode(ps[k])
  BY ImageFacts
<1> HIDE DEF s
<1>2. /\ Len(Join(s)[k-1]) \in Nat /\ Len(s[k]) \in Nat
      /\ Len(Join(s)[k]) = Len(Join(s)[k-1]) + Len(s[k])
  BY <1>1, JoinStep
<1>3. n \in 0 .. Len(s) /\ k \in 0 .. n
  <2>1. n \in 0 .. n /\ k \in 0 .. n BY <1>1
  <2> QED BY <2>1, <1>1
<1>4. /\ Len(Join(s)[k]) \in Nat /\ Len(Join(s)[n]) \in Nat
      /\ Len(Join(s)[k]) <= Len(Join(s)[n])
  BY <1>1, <1>3, JoinPrefix
<1> QED BY <1>1, <1>2, <1>4 DEF EncLen, s

(* Only the whole file is as long as the whole file.                       *)
LEMMA EncLenEnd ==
  ASSUME RealRepeats, NEW ps \in Seq(Packet), NEW k \in 0 .. Len(ps),
         k # Len(ps)
  PROVE EncLen(ps, k) < EncLen(ps, Len(ps)) /\ k + 1 \in 1 .. Len(ps)
<1> DEFINE n == Len(ps)
<1>1. n \in Nat BY ImageFacts
<1>2. k + 1 \in 1 .. n /\ (k + 1) - 1 = k BY <1>1
<1>3. /\ EncLen(ps, k) \in Nat /\ EncLen(ps, k+1) \in Nat
      /\ EncLen(ps, n) \in Nat /\ Len(Encode(ps[k+1])) \in Nat
      /\ EncLen(ps, k+1) = EncLen(ps, k) + Len(Encode(ps[k+1]))
      /\ EncLen(ps, k+1) <= EncLen(ps, n)
  <2> DEFINE m == k + 1
  <2>1. m \in 1 .. n /\ m - 1 = k BY <1>2
  <2> HIDE DEF m
  <2>2. /\ EncLen(ps, m-1) \in Nat /\ EncLen(ps, m) \in Nat
        /\ EncLen(ps, n) \in Nat /\ Len(Encode(ps[m])) \in Nat
        /\ EncLen(ps, m) = EncLen(ps, m-1) + Len(Encode(ps[m]))
        /\ EncLen(ps, m) <= EncLen(ps, n)
    BY <2>1, EncLenFacts
  <2> QED BY <2>1, <2>2 DEF m
<1>4. Len(Encode(ps[k+1])) >= 2
  <2>1. ps[k+1] \in Packet BY <1>2, ImageFacts
  <2> QED BY <2>1, EncodeFacts
<1> HIDE DEF n
<1>5. EncLen(ps, k) < EncLen(ps, n) BY <1>3, <1>4
<1> QED BY <1>2, <1>5 DEF n

(* Where packet k lies in flash.                                           *)
InFlash(ps) == flash = Cat(Join(Encs(ps))[Len(ps)], After)

LEMMA FlashAt ==
  ASSUME RealRepeats, NEW ps \in Seq(Packet), InFlash(ps),
         NEW k \in 1 .. Len(ps), NEW i \in 1 .. Len(Encode(ps[k]))
  PROVE flash[EncLen(ps, k-1) + i] = Encode(ps[k])[i]
<1> DEFINE s == Encs(ps)
           n == Len(ps)
           w == Join(s)[n]
<1>1. s \in Seq(Seq(Octet)) /\ Len(s) = n /\ n \in Nat /\ s[k] = Encode(ps[k])
  BY ImageFacts
<1>2. w[EncLen(ps, k-1) + i] = Encode(ps[k])[i]
  <2> HIDE DEF s
  <2>1. Join(s)[Len(s)][Len(Join(s)[k-1]) + i] = s[k][i] BY <1>1, JoinAt
  <2> QED BY <1>1, <2>1 DEF EncLen, s
<1>3. w \in Seq(Octet) /\ After \in Seq(Octet)
  <2>1. Joins(s, Join(s), Len(s)) BY <1>1, JoinIs
  <2> HIDE DEF s
  <2>2. n \in 0 .. n BY <1>1
  <2>3. w \in Seq(Octet) BY <1>1, <2>1, <2>2 DEF Joins
  <2> QED BY <2>3, RleOK DEF Octet
<1>4. EncLen(ps, k-1) + i \in 1 .. Len(w)
  <2>1. /\ EncLen(ps, k-1) \in Nat /\ EncLen(ps, n) \in Nat
        /\ EncLen(ps, k) = EncLen(ps, k-1) + Len(Encode(ps[k]))
        /\ EncLen(ps, k) <= EncLen(ps, n) /\ Len(Encode(ps[k])) \in Nat
    BY EncLenFacts
  <2>2. Len(w) = EncLen(ps, n) BY DEF EncLen
  <2> HIDE DEF w, n
  <2> QED BY <2>1, <2>2
<1>5. flash = Cat(w, After) BY DEF InFlash
<1> HIDE DEF w
<1>6. \A j \in 1 .. Len(w) : flash[j] = w[j] BY <1>3, <1>5, CatFacts
<1> QED BY <1>2, <1>4, <1>6

(* The bytes that WritePixel copies are the next pixel of the packet.      *)
LEMMA PixelInFlash ==
  ASSUME RealRepeats, NEW ps \in Seq(Packet), InFlash(ps),
         NEW k \in 1 .. Len(ps), NEW j \in 0 .. Len(ps[k].px) - 1, NEW a,
         a = EncLen(ps, k-1) + 2 +
               IF ps[k].rle = 1 THEN 0 ELSE Len(PxJoin(ps[k], j))
  PROVE SubSeq(flash, a, a + Bpp - 1) = ps[k].px[j+1]
<1> DEFINE p == ps[k]
           e == EncLen(ps, k-1)
           n == Len(p.px)
           x == p.px[j+1]
           g == Len(PxJoin(p, j))
<1>1. p \in Packet /\ e \in Nat BY ImageFacts, EncLenFacts
<1>2. /\ p.rle \in {0, 1} /\ p.px \in Seq(Seq(Octet)) /\ n \in 1 .. 128
      /\ \A i \in 1 .. n : p.px[i] \in Seq(Octet) /\ Len(p.px[i]) = Bpp
      /\ p.rle = 1 => \A i \in 1 .. n : p.px[i] = p.px[1]
  BY <1>1, PacketFacts
<1>3. j + 1 \in 1 .. n /\ (j + 1) - 1 = j /\ j \in Nat
  <2> HIDE DEF n
  <2>1. j \in 0 .. n - 1 BY DEF n
  <2> QED BY <1>2, <2>1
<1>4. x \in Seq(Octet) /\ Len(x) = Bpp /\ Bpp \in Nat /\ Bpp >= 1
  BY <1>2, <1>3, RleOK
<1>5. g \in Nat /\ g + Bpp <= Len(PxJoin(p, n)) /\ Len(PxJoin(p, n)) \in Nat
  <2> DEFINE q == p.px
             m == j + 1
  <2>1. m \in 1 .. Len(q) /\ m - 1 = j /\ q \in Seq(Seq(Octet))
        /\ Len(q[m]) = Bpp
    BY <1>2, <1>3
  <2> HIDE DEF q, m
  <2>2. /\ Len(Join(q)[m-1]) \in Nat
        /\ Len(Join(q)[m]) = Len(Join(q)[m-1]) + Len(q[m])
    BY <2>1, JoinStep
  <2>3. Len(q) \in 0 .. Len(q) /\ m \in 0 .. Len(q)
    <3>1. Len(q) \in Nat BY <2>1, LenProperties
    <3> QED BY <2>1, <3>1
  <2>4. Len(Join(q)[m]) <= Len(Join(q)[Len(q)])
        /\ Len(Join(q)[Len(q)]) \in Nat
    BY <2>1, <2>3, JoinPrefix
  <2>5. g = Len(Join(q)[m-1]) /\ Len(PxJoin(p, n)) = Len(Join(q)[Len(q)])
    BY <2>1 DEF PxJoin, q
  <2> HIDE DEF g
  <2> QED BY <2>1, <2>2, <2>4, <2>5, <1>4
<1>6. ASSUME NEW i \in 1 .. Bpp PROVE flash[a + i - 1] = x[i]
  <2>1. CASE p.rle = 1
    <3>1. /\ Len(Encode(p)) = 1 + Bpp
          /\ Encode(p)[1 + i] = p.px[1][i]
      BY <1>1, <2>1, EncodeFacts
    <3>2. 1 + i \in 1 .. Len(Encode(p)) BY <1>4, <3>1
    <3>3. flash[e + (1 + i)] = Encode(p)[1 + i] BY <3>2, FlashAt
    <3>4. x = p.px[1] BY <1>2, <1>3, <2>1
    <3>5. a + i - 1 = e + (1 + i) BY <1>1, <1>4, <2>1
    <3> QED BY <3>1, <3>3, <3>4, <3>5
  <2>2. CASE p.rle = 0
    <3>1. /\ Len(Encode(p)) = 1 + Len(PxJoin(p, n))
          /\ \A t \in 1 .. Len(PxJoin(p, n)) :
               Encode(p)[1 + t] = PxJoin(p, n)[t]
      BY <1>1, <2>2, EncodeFacts DEF PxJoin
    <3>2. g + i \in 1 .. Len(PxJoin(p, n))
          /\ 1 + (g + i) \in 1 .. Len(Encode(p))
      <4> HIDE DEF g
      <4>1. g + i \in 1 .. Len(PxJoin(p, n)) BY <1>4, <1>5
      <4> QED BY <4>1, <3>1, <1>5
    <3>3. flash[e + (1 + (g + i))] = Encode(p)[1 + (g + i)]
      BY <3>2, FlashAt
    <3>4. PxJoin(p, n)[g + i] = x[i]
      <4> DEFINE q == p.px
                 m == j + 1
      <4>1. m \in 1 .. Len(q) /\ m - 1 = j /\ q \in Seq(Seq(Octet))
            /\ Len(q[m]) = Bpp
        BY <1>2, <1>3
      <4> HIDE DEF q, m
      <4>2. Join(q)[Len(q)][Len(Join(q)[m-1]) + i] = q[m][i]
        BY <4>1, JoinAt
      <4> QED BY <4>1, <4>2 DEF PxJoin, q, m
    <3>5. a + i - 1 = e + (1 + (g + i))
      <4> HIDE DEF g, e
      <4>1. a = e + 2 + g BY <2>2 DEF g, e
      <4>2. i \in Int /\ e \in Int /\ g \in Int BY <1>1, <1>4, <1>5
      <4> QED BY ONLY <4>1, <4>2
    <3> QED BY <3>1, <3>2, <3>3, <3>4, <3>5
  <2> QED BY <1>2, <2>1, <2>2
<1>7. a \in Int
  <2> HIDE DEF e, g
  <2>1. a = e + 2 + IF p.rle = 1 THEN 0 ELSE g BY DEF e, g
  <2> QED BY <2>1, <1>1, <1>5
<1>8. \A i \in a .. a + Bpp - 1 : flash[i] \in Octet
  <2> SUFFICES ASSUME NEW i \in a .. a + Bpp - 1 PROVE flash[i] \in Octet
    OBVIOUS
  <2>0. i \in Int /\ a <= i /\ i <= a + Bpp - 1 BY <1>4, <1>7
  <2>1. i - a + 1 \in 1 .. Bpp /\ a + (i - a + 1) - 1 = i
    BY ONLY <2>0, <1>4, <1>7
  <2>2. flash[a + (i - a + 1) - 1] = x[i - a + 1] BY <2>1, <1>6
  <2>3. x[i - a + 1] \in Octet
    <3> HIDE DEF x
    <3> QED BY <2>1, <1>4, ElementOfSeq
  <2> QED BY <2>1, <2>2, <2>3
<1> HIDE DEF x
<1> DEFINE y == SubSeq(flash, a, a + Bpp - 1)
<1>9. /\ y \in Seq(Octet)
      /\ Len(y) = IF a <= a + Bpp - 1 THEN (a + Bpp - 1) - a + 1 ELSE 0
      /\ \A i \in 1 .. (a + Bpp - 1) - a + 1 : y[i] = flash[a + i - 1]
  <2>1. a + Bpp - 1 \in Int BY <1>4, <1>7
  <2> QED BY <2>1, <1>7, <1>8, SubSeqProperties
<1>10. (a + Bpp - 1) - a + 1 = Bpp /\ a <= a + Bpp - 1 BY <1>4, <1>7
<1> HIDE DEF y
<1>11. Len(y) = Bpp /\ \A i \in 1 .. Bpp : y[i] = x[i]
  BY <1>6, <1>9, <1>10
<1>12. y = x BY <1>4, <1>9, <1>11, SeqEqual
<1> QED BY <1>12 DEF x, y

-----------------------------------------------------------------------------
(* The decoder between packet k and the next one.                          *)
AtPacket(k) ==
  /\ k \in 0 .. Len(packets)
  /\ Src = EncLen(packets, k) + 1
  /\ Size = EncLen(packets, Len(packets)) - EncLen(packets, k)
  /\ out = Join(Decs(packets))[k]

(* The decoder in packet k with j of its pixels written.  What is left of  *)
(* the file counts down with the pixels of a raw packet; of a repeated     *)
(* pixel it has been counted only when the last repetition is left.        *)
AtPixel(k, j) ==
  LET p == packets[k]
      e == EncLen(packets, k-1)
      rest == EncLen(packets, Len(packets)) - e - 1
  IN /\ k \in 1 .. Len(packets) /\ j \in 0 .. Len(p.px) - 1
     /\ pixelcounter = Len(p.px) - j /\ nextpixelrle = p.rle
     /\ rlestart = e + 2
     /\ out = Cat(Join(Decs(packets))[k-1], PxJoin(p, j))
     /\ p.rle = 0 => /\ Src = e + 2 + Len(PxJoin(p, j))
                     /\ Size = rest - Len(PxJoin(p, j))
     /\ p.rle = 1 => Size = rest - IF pixelcounter = 1 THEN Bpp ELSE 0

DecodeInv ==
  /\ packets \in Seq(Packet) /\ InFlash(packets)
  /\ pc \in {"packet", "pixel", "done"}
  /\ pc = "packet" => \E k : AtPacket(k)
  /\ pc = "pixel" => \E k, j : AtPixel(k, j)
  /\ pc = "done" => /\ out = Join(Decs(packets))[Len(packets)]
                    /\ Src = EncLen(packets, Len(packets)) + 1

(* The decoder starts in front of the first packet.                        *)
LEMMA DecodeInit == ASSUME RealRepeats, Init PROVE DecodeInv
<1>1. packets \in Seq(Packet)
  <2>1. PICK n \in 0 .. MaxPackets : packets \in [1 .. n -> Packet]
    BY DEF Init
  <2>2. n \in Nat BY RleOK
  <2> QED BY <2>1, <2>2, FunSeq
<1>2. /\ Encoding(packets) = Join(Encs(packets))[Len(packets)]
      /\ Encs(packets) \in Seq(Seq(Octet)) /\ Decs(packets) \in Seq(Seq(Octet))
      /\ Len(packets) \in Nat
  BY <1>1, ImageFacts
<1>3. InFlash(packets) BY <1>2 DEF Init, InFlash, Cat
<1>4. Join(Encs(packets))[0] = <<>> /\ Join(Decs(packets))[0] = <<>>
  BY <1>2, JoinIs DEF Joins
<1>5. EncLen(packets, 0) = 0 BY <1>4 DEF EncLen
<1>6. Size = EncLen(packets, Len(packets)) BY <1>2 DEF Init, EncLen
<1>7. EncLen(packets, Len(packets)) \in Nat
  <2>1. CASE Len(packets) = 0 BY <2>1, <1>5
  <2>2. CASE Len(packets) # 0
    <3> DEFINE n == Len(packets)
    <3>1. n \in 1 .. n
      <4> HIDE DEF n
      <4>1. n \in Nat /\ n # 0 BY <1>2, <2>2 DEF n
      <4> QED BY <4>1
    <3> QED BY <3>1, <1>1, EncLenFacts
  <2> QED BY <2>1, <2>2
<1>8. AtPacket(0)
  <2>1. Src = 1 /\ out = <<>> BY DEF Init
  <2>2. 0 \in 0 .. Len(packets) BY <1>2
  <2>3. Size = EncLen(packets, Len(packets)) - 0 BY <1>6, <1>7
  <2> QED BY <2>1, <2>2, <2>3, <1>4, <1>5 DEF AtPacket
<1> QED BY <1>1, <1>3, <1>8 DEF DecodeInv, Init

(* The byte in front of a packet leads into the packet.                    *)
LEMMA HeaderStep ==
  ASSUME RealRepeats, DecodeInv, ReadHeader PROVE DecodeInv'
<1>1. /\ packets \in Seq(Packet) /\ InFlash(packets) /\ Len(packets) \in Nat
      /\ packets' = packets /\ flash' = flash /\ InFlash(packets)'
  BY ImageFacts DEF DecodeInv, ReadHeader, InFlash
<1>2. PICK l : AtPacket(l) BY DEF DecodeInv, ReadHeader
<1> DEFINE n == Len(packets)
           k == l + 1
           p == packets[k]
           e == EncLen(packets, l)
           z == EncLen(packets, n)
<1>3. l \in 0 .. n /\ Src = e + 1 /\ Size = z - e
      /\ out = Join(Decs(packets))[l]
  BY <1>2 DEF AtPacket
<1>4. l # n
  <2>1. CASE l = n
    <3>1. Size = e - e /\ e \in Int
      <4>1. e \in Nat
        <5>1. CASE n = 0
          <6>1. Encs(packets) \in Seq(Seq(Octet)) BY <1>1, ImageFacts
          <6>2. Join(Encs(packets))[0] = <<>> BY <6>1, JoinIs DEF Joins
          <6>3. EncLen(packets, 0) = 0 BY <6>2 DEF EncLen
          <6> QED BY <6>3, <5>1, <2>1
        <5>2. CASE n # 0
          <6>1. n \in 1 .. n
            <7>1. n \in Nat BY <1>1
            <7> HIDE DEF n
            <7> QED BY <7>1, <5>2
          <6> QED BY <6>1, <2>1, <1>1, EncLenFacts
        <5> QED BY <5>1, <5>2
      <4> HIDE DEF e
      <4> QED BY <4>1, <1>3, <2>1 DEF e
    <3>2. Size = 0
      <4> HIDE DEF e
      <4> QED BY <3>1
    <3> QED BY <3>2 DEF ReadHeader
  <2> QED BY <2>1
<1>5. k \in 1 .. n /\ k - 1 = l
  <2>1. n \in Nat BY <1>1
  <2> HIDE DEF n
  <2> QED BY <1>3, <1>4, <2>1
<1>6. /\ e \in Nat /\ z \in Nat /\ EncLen(packets, k) \in Nat
      /\ EncLen(packets, k) = e + Len(Encode(p))
      /\ EncLen(packets, k) <= z /\ Len(Encode(p)) \in Nat
  <2>0. k \in 1 .. n /\ k - 1 = l BY <1>5
  <2> HIDE DEF k
  <2> QED BY <1>1, <2>0, EncLenFacts
<1>7. /\ p \in Packet /\ Len(Encode(p)) >= 2
      /\ (Encode(p)[1] % 128) + 1 = Len(p.px) /\ Encode(p)[1] \div 128 = p.rle
  <2>1. p \in Packet BY <1>1, <1>5, ImageFacts
  <2> QED BY <2>1, EncodeFacts
<1>8. flash[e + 1] = Encode(p)[1]
  <2>0. k \in 1 .. n /\ k - 1 = l BY <1>5
  <2>1. 1 \in 1 .. Len(Encode(p)) BY <1>6, <1>7
  <2> HIDE DEF k
  <2>2. flash[EncLen(packets, k-1) + 1] = Encode(packets[k])[1]
    BY <1>1, <2>0, <2>1, FlashAt
  <2> QED BY <2>0, <2>2
<1>9. /\ p.rle \in {0, 1} /\ p.px \in Seq(Seq(Octet)) /\ Len(p.px) \in 1 .. 128
      /\ p.rle = 1 => Len(p.px) >= 2
  BY <1>7, PacketFacts
<1>10. PxJoin(p, 0) = <<>> BY <1>9, JoinIs DEF PxJoin, Joins
<1>11. /\ pixelcounter' = Len(p.px) /\ nextpixelrle' = p.rle
       /\ Src' = e + 2 /\ rlestart' = e + 2 /\ Size' = z - e - 1
       /\ pc' = "pixel" /\ out' = Join(Decs(packets))[l]
  <2>1. flash[Src] = Encode(p)[1] BY <1>3, <1>8
  <2>2. pixelcounter' = Len(p.px) /\ nextpixelrle' = p.rle
    BY <2>1, <1>7 DEF ReadHeader
  <2> HIDE DEF e, z
  <2>3. Src' = e + 2 /\ rlestart' = e + 2 /\ Size' = z - e - 1
    BY <1>3, <1>6 DEF ReadHeader
  <2>4. Size # 1 BY <1>3, <1>6, <1>7
  <2> QED BY <2>2, <2>3, <2>4, <1>3 DEF ReadHeader
<1>12. AtPixel(k, 0)'
  <2>1. out' = Cat(Join(Decs(packets))[k-1], PxJoin(p, 0))
    <3>1. Join(Decs(packets))[l] \in Seq(Octet)
      <4>1. Decs(packets) \in Seq(Seq(Octet)) /\ Len(Decs(packets)) = n
        BY <1>1, ImageFacts
      <4>2. Joins(Decs(packets), Join(Decs(packets)), n) BY <4>1, JoinIs
      <4> QED BY <4>2, <1>3 DEF Joins
    <3>2. Cat(Join(Decs(packets))[l], <<>>) = Join(Decs(packets))[l]
      BY <3>1, ConcatEmptySeq DEF Cat
    <3>3. k - 1 = l BY <1>5
    <3> HIDE DEF k
    <3> QED BY <3>2, <3>3, <1>10, <1>11
  <2> DEFINE m == Len(p.px)
  <2>2. 0 \in 0 .. m - 1 /\ m - 0 = m
    <3>1. m \in 1 .. 128 BY <1>9
    <3> HIDE DEF m
    <3> QED BY <3>1
  <2>3. Len(PxJoin(p, 0)) = 0 BY <1>10
  <2>4. p.rle = 1 => pixelcounter' # 1
    <3>1. pixelcounter' = m /\ (p.rle = 1 => m >= 2) BY <1>9, <1>11
    <3> HIDE DEF m
    <3> QED BY <3>1
  <2>5. e + 2 + 0 = e + 2 /\ (z - e - 1) - 0 = z - e - 1
    <3> HIDE DEF e, z
    <3> QED BY <1>6
  <2>6. k \in 1 .. n /\ EncLen(packets, k-1) = e
    <3>1. k - 1 = l BY <1>5
    <3> HIDE DEF k
    <3> QED BY <1>5, <3>1
  <2> HIDE DEF e, k
  <2>7. p.rle = 0 => /\ Src' = EncLen(packets, k-1) + 2 + Len(PxJoin(p, 0))
                     /\ Size' = (z - EncLen(packets, k-1) - 1)
                                  - Len(PxJoin(p, 0))
    BY <2>3, <2>5, <2>6, <1>11
  <2>8. p.rle = 1 => Size' = (z - EncLen(packets, k-1) - 1)
                               - IF pixelcounter' = 1 THEN Bpp ELSE 0
    BY <2>4, <2>5, <2>6, <1>11
  <2> QED BY <2>1, <2>2, <2>6, <2>7, <2>8, <1>1, <1>11 DEF AtPixel
<1> QED BY <1>1, <1>11, <1>12 DEF DecodeInv

(* Nothing left of the file means nothing left of the image.               *)
LEMMA ReturnStep ==
  ASSUME RealRepeats, DecodeInv, Return PROVE DecodeInv'
<1>1. /\ packets \in Seq(Packet) /\ packets' = packets /\ out' = out
      /\ InFlash(packets)' /\ pc' = "done" /\ Src' = Src
  BY DEF DecodeInv, Return, InFlash
<1>2. PICK k : AtPacket(k) BY DEF DecodeInv, Return
<1> DEFINE n == Len(packets)
           e == EncLen(packets, k)
           z == EncLen(packets, n)
<1>3. /\ k \in 0 .. n /\ z - e = 0
      /\ out = Join(Decs(packets))[k] /\ Src = e + 1
  BY <1>2 DEF AtPacket, Return
<1>4. k = n
  <2> SUFFICES ASSUME k # n PROVE FALSE OBVIOUS
  <2>1. e < z /\ k + 1 \in 1 .. n BY <1>1, <1>3, EncLenEnd
  <2>2. z \in Nat BY <1>1, <2>1, EncLenFacts
  <2>3. e \in Nat
    <3> DEFINE m == k + 1
    <3>1. m \in 1 .. n /\ m - 1 = k BY <1>3, <2>1
    <3> HIDE DEF m
    <3>2. EncLen(packets, m - 1) \in Nat BY <1>1, <3>1, EncLenFacts
    <3> QED BY <3>1, <3>2
  <2> HIDE DEF e, z
  <2> QED BY <1>3, <2>1, <2>2, <2>3
<1>5. /\ out' = Join(Decs(packets'))[Len(packets')]
      /\ Src' = EncLen(packets', Len(packets')) + 1
  BY <1>1, <1>3, <1>4
<1> QED BY <1>1, <1>5 DEF DecodeInv, EncLen

(* A pixel leads to the next one, or out of the packet.                    *)
LEMMA PixelStep ==
  ASSUME RealRepeats, DecodeInv, WritePixel PROVE DecodeInv'
<1>1. /\ packets \in Seq(Packet) /\ InFlash(packets) /\ Len(packets) \in Nat
      /\ packets' = packets /\ flash' = flash /\ InFlash(packets)'
      /\ nextpixelrle' = nextpixelrle /\ rlestart' = rlestart
  BY ImageFacts DEF DecodeInv, WritePixel, InFlash
<1>2. PICK k, j : AtPixel(k, j) BY DEF DecodeInv, WritePixel
<1> DEFINE n == Len(packets)
           p == packets[k]
           m == Len(p.px)
           e == EncLen(packets, k-1)
           f == EncLen(packets, k)
           z == EncLen(packets, n)
           d == Join(Decs(packets))[k-1]
           g == Len(PxJoin(p, j))
           h == Len(PxJoin(p, j+1))
           x == p.px[j+1]
<1>3. /\ k \in 1 .. n /\ j \in 0 .. m - 1
      /\ pixelcounter = m - j /\ nextpixelrle = p.rle /\ rlestart = e + 2
      /\ out = Cat(d, PxJoin(p, j))
      /\ p.rle = 0 => Src = e + 2 + g /\ Size = (z - e - 1) - g
      /\ p.rle = 1 => Size = (z - e - 1) - IF pixelcounter = 1 THEN Bpp ELSE 0
  BY <1>2 DEF AtPixel
<1>4. /\ e \in Nat /\ f \in Nat /\ z \in Nat
      /\ f = e + Len(Encode(p)) /\ f <= z /\ Len(Encode(p)) \in Nat
  BY <1>1, <1>3, EncLenFacts
<1>5. p \in Packet /\ Bpp \in Nat /\ Bpp >= 1
  BY <1>1, <1>3, ImageFacts, RleOK
<1>6. /\ p.rle \in {0, 1} /\ p.px \in Seq(Seq(Octet)) /\ m \in 1 .. 128
      /\ \A i \in 1 .. m : p.px[i] \in Seq(Octet) /\ Len(p.px[i]) = Bpp
  BY <1>5, PacketFacts
<1>7. j \in Nat /\ j + 1 \in 1 .. m /\ (j + 1) - 1 = j /\ j + 1 \in 0 .. m
      /\ m \in 0 .. m /\ m \in Nat
  <2>1. m \in 1 .. 128 /\ j \in 0 .. m - 1 BY <1>3, <1>6
  <2> HIDE DEF m
  <2> QED BY <2>1
<1>8. /\ PxJoin(p, j+1) = Cat(PxJoin(p, j), x)
      /\ PxJoin(p, j) \in Seq(Octet) /\ x \in Seq(Octet)
      /\ g \in Nat /\ h = g + Bpp
  <2> DEFINE q == p.px
             i == j + 1
  <2>1. i \in 1 .. Len(q) /\ i - 1 = j /\ q \in Seq(Seq(Octet))
        /\ Len(q[i]) = Bpp
    BY <1>6, <1>7
  <2> HIDE DEF q, i
  <2>2. /\ Join(q)[i] = Cat(Join(q)[i-1], q[i])
        /\ Join(q)[i-1] \in Seq(Octet) /\ q[i] \in Seq(Octet)
        /\ Len(Join(q)[i-1]) \in Nat
        /\ Len(Join(q)[i]) = Len(Join(q)[i-1]) + Len(q[i])
    BY <2>1, JoinStep
  <2> QED BY <2>1, <2>2 DEF PxJoin, q, i
<1>9. /\ p.rle = 0 => f = e + 1 + Len(PxJoin(p, m)) /\ h <= Len(PxJoin(p, m))
      /\ p.rle = 1 => f = e + 1 + Bpp
      /\ Len(PxJoin(p, m)) \in Nat
  <2>1. h <= Len(PxJoin(p, m)) /\ Len(PxJoin(p, m)) \in Nat
    BY <1>6, <1>7, JoinPrefix DEF PxJoin
  <2>2. /\ p.rle = 1 => Len(Encode(p)) = 1 + Bpp
        /\ p.rle = 0 => Len(Encode(p)) = 1 + Len(PxJoin(p, m))
    BY <1>5, EncodeFacts DEF PxJoin
  <2> DEFINE w == Len(PxJoin(p, m))
  <2> HIDE DEF e, f, h, w
  <2>3. /\ p.rle = 1 => f = e + (1 + Bpp)
        /\ p.rle = 0 => f = e + (1 + w)
    BY <2>2, <1>4 DEF w
  <2>4. h <= w /\ w \in Nat BY <2>1 DEF w
  <2>5. /\ p.rle = 0 => f = e + 1 + w /\ h <= w
        /\ p.rle = 1 => f = e + 1 + Bpp
    BY <2>3, <2>4, <1>4, <1>5
  <2> QED BY <2>4, <2>5 DEF w
<1>10. PixelAt = e + 2 + IF p.rle = 1 THEN 0 ELSE g
  <2> HIDE DEF e, g, p
  <2> QED BY <1>3, <1>4, <1>6 DEF PixelAt
<1>11. SubSeq(flash, PixelAt, PixelAt + Bpp - 1) = x
  BY <1>1, <1>3, <1>10, PixelInFlash
<1>12. /\ d \in Seq(Octet)
       /\ Join(Decs(packets))[k] = Cat(d, PxJoin(p, m))
  <2> DEFINE s == Decs(packets)
  <2>1. s \in Seq(Seq(Octet)) /\ Len(s) = n /\ s[k] = PxJoin(p, m)
    BY <1>1, <1>3, ImageFacts
  <2> HIDE DEF s
  <2>2. Join(s)[k] = Cat(Join(s)[k-1], s[k]) /\ Join(s)[k-1] \in Seq(Octet)
    BY <2>1, <1>3, JoinStep
  <2> QED BY <2>1, <2>2 DEF s
<1>13. out' = Cat(d, PxJoin(p, j+1))
  <2> DEFINE y == PxJoin(p, j)
  <2> HIDE DEF d, x, y
  <2>1. out' = out \o x BY <1>11 DEF WritePixel
  <2>2. out' = (d \o y) \o x BY <2>1, <1>3 DEF Cat, y
  <2>3. d \in Seq(Octet) /\ y \in Seq(Octet) /\ x \in Seq(Octet)
    BY <1>8, <1>12 DEF y
  <2>4. (d \o y) \o x = d \o (y \o x) BY <2>3, ConcatAssociative
  <2>5. PxJoin(p, j+1) = y \o x BY <1>8 DEF Cat, y
  <2> QED BY <2>2, <2>4, <2>5 DEF Cat
<1>14. /\ Src' = PixelAt + Bpp /\ pixelcounter' = (m - j) - 1
       /\ Size' = IF ~Counted THEN Size
                  ELSE IF Size >= Bpp THEN Size - Bpp ELSE 0
       /\ pc' = IF m - j = 1 THEN "packet" ELSE "pixel"
  BY <1>3 DEF WritePixel
<1>15. Counted <=> p.rle = 0 \/ m - j = 2 BY <1>3 DEF Counted
<1> HIDE DEF n, p, m, e, f, z, d, g, h, x
<1>16. /\ p.rle = 0 => Src' = e + 2 + h /\ Size' = (z - e - 1) - h
       /\ p.rle = 1 =>
            /\ Src' = e + 2 + Bpp
            /\ Size' = (z - e - 1) - IF m - j <= 2 THEN Bpp ELSE 0
  <2>1. CASE p.rle = 0
    <3>1. Src' = (e + 2 + g) + Bpp BY <1>10, <1>14, <2>1
    <3>2. Counted /\ Size = (z - e - 1) - g BY <1>3, <1>15, <2>1
    <3>3. /\ f = e + 1 + Len(PxJoin(p, m)) /\ h <= Len(PxJoin(p, m))
          /\ h = g + Bpp
      BY <1>8, <1>9, <2>1
    <3>4. Size >= Bpp BY <3>2, <3>3, <1>4, <1>5, <1>8, <1>9
    <3>5. Size' = Size - Bpp BY <3>2, <3>4, <1>14
    <3>6. Src' = e + 2 + h /\ Size' = (z - e - 1) - h
      BY <3>1, <3>2, <3>3, <3>5, <1>4, <1>5, <1>8
    <3> QED BY <2>1, <3>6
  <2>2. CASE p.rle = 1
    <3>1. Src' = e + 2 + Bpp
      <4>1. PixelAt = e + 2 + 0 BY <1>10, <2>2
      <4> QED BY <4>1, <1>4, <1>14
    <3>2. Size = (z - e - 1) - (IF m - j = 1 THEN Bpp ELSE 0)
      BY <1>3, <2>2
    <3>3. f = e + 1 + Bpp BY <1>9, <2>2
    <3>4. m - j >= 1 /\ m - j \in Nat BY <1>7
    <3>5. CASE m - j = 1
      <4>1. ~Counted BY <1>15, <2>2, <3>5
      <4>2. Size' = (z - e - 1) - Bpp BY <4>1, <3>2, <3>5, <1>14
      <4>3. m - j <= 2 BY <3>5
      <4> QED BY <2>2, <3>1, <4>2, <4>3
    <3>6. CASE m - j = 2
      <4>1. Counted /\ Size = (z - e - 1) - 0 BY <1>15, <3>2, <3>6
      <4>2. Size >= Bpp /\ Size = z - e - 1 BY <4>1, <3>3, <1>4, <1>5
      <4>3. Size' = (z - e - 1) - Bpp BY <4>1, <4>2, <1>14
      <4>4. m - j <= 2 BY <3>6
      <4> QED BY <2>2, <3>1, <4>3, <4>4
    <3>7. CASE m - j > 2
      <4>1. ~Counted /\ m - j # 1 /\ ~(m - j <= 2)
        BY <1>15, <2>2, <3>4, <3>7
      <4>2. Size' = (z - e - 1) - 0 BY <4>1, <3>2, <1>14
      <4> QED BY <2>2, <3>1, <4>1, <4>2
    <3> QED BY <3>4, <3>5, <3>6, <3>7
  <2> QED BY <1>6, <2>1, <2>2
<1>17. CASE m - j = 1
  <2>1. j + 1 = m BY <1>7, <1>17
  <2>2. out' = Join(Decs(packets))[k] BY <2>1, <1>12, <1>13
  <2>3. Src' = f + 1 /\ Size' = z - f
    <3>1. CASE p.rle = 0
      <4>1. h = Len(PxJoin(p, m)) BY <2>1 DEF h
      <4> QED BY <4>1, <3>1, <1>4, <1>5, <1>8, <1>9, <1>16
    <3>2. CASE p.rle = 1
      <4>1. m - j <= 2 BY <1>17
      <4>2. Src' = e + 2 + Bpp /\ Size' = (z - e - 1) - Bpp
        BY <4>1, <3>2, <1>16
      <4>3. f = e + 1 + Bpp BY <3>2, <1>9
      <4> QED BY <4>2, <4>3, <1>4, <1>5
    <3> QED BY <1>6, <3>1, <3>2
  <2>4. k \in 0 .. n
    <3>1. k \in 1 .. n /\ n \in Nat BY <1>1, <1>3 DEF n
    <3> QED BY <3>1
  <2>5. AtPacket(k)'
    BY <2>2, <2>3, <2>4, <1>1 DEF AtPacket, f, z, n
  <2>6. pc' = "packet" BY <1>14, <1>17
  <2> QED BY <2>5, <2>6, <1>1 DEF DecodeInv
<1>18. CASE m - j # 1
  <2>1. j + 1 \in 0 .. m - 1 /\ (m - j) - 1 = m - (j + 1)
        /\ (m - j <= 2 <=> (m - j) - 1 = 1)
    <3>1. j \in Nat /\ m \in Nat /\ j <= m - 1
      <4>1. j + 1 <= m BY <1>7
      <4> QED BY <1>7, <4>1
    <3> QED BY <3>1, <1>18
  <2>2. p.rle = 1 => Size' = (z - e - 1) - IF pixelcounter' = 1 THEN Bpp ELSE 0
    BY <2>1, <1>14, <1>16
  <2>3. pixelcounter' = m - (j + 1) BY <2>1, <1>14
  <2>4. AtPixel(k, j+1)'
    BY <2>1, <2>2, <2>3, <1>1, <1>3, <1>13, <1>16
       DEF AtPixel, p, e, z, n, m, d, h
  <2>5. pc' = "pixel" BY <1>14, <1>18
  <2> QED BY <2>4, <2>5, <1>1 DEF DecodeInv
<1> QED BY <1>17, <1>18

(* locDecompressRLE writes the pixels that the packets stand for, no fewer *)
(* and no more, and reads the file exactly to its end, for every image     *)
(* whose repeats are real ones, every pixel size and whatever follows the  *)
(* file in flash.                                                          *)
THEOREM DecodesImageHolds ==
  ASSUME RealRepeats PROVE Spec => []DecodesImage
<1>1. Init => DecodeInv BY DecodeInit
<1>2. DecodeInv /\ [Next]_vars => DecodeInv'
  <2> SUFFICES ASSUME DecodeInv, [Next]_vars PROVE DecodeInv'
    OBVIOUS
  <2>1. CASE ReadHeader BY <2>1, HeaderStep
  <2>2. CASE WritePixel BY <2>2, PixelStep
  <2>3. CASE Return BY <2>3, ReturnStep
  <2>4. CASE UNCHANGED vars
    BY <2>4 DEF vars, DecodeInv, InFlash, AtPacket, AtPixel, EncLen
  <2> QED BY <2>1, <2>2, <2>3, <2>4 DEF Next
<1>3. DecodeInv => DecodesImage
  <2> SUFFICES ASSUME DecodeInv PROVE DecodesImage OBVIOUS
  <2>1. /\ Decoding(packets) = Join(Decs(packets))[Len(packets)]
        /\ Len(Encoding(packets)) = EncLen(packets, Len(packets))
    BY ImageFacts DEF DecodeInv, EncLen
  <2> QED BY <2>1 DEF DecodeInv, DecodesImage
<1> QED BY <1>1, <1>2, <1>3, PTL DEF Spec
=============================================================================

----------------------------- MODULE WireProofs -----------------------------
(* Machine-checked facts about the formats of Wire, for payloads, texts,   *)
(* nicknames and packets of every length the length fields allow: what is  *)
(* packed is read back, after relays and with whatever padding, and what   *)
(* is cut into fragments is joined again.  A field stands at a place       *)
(* (Holds), joined fields stand at the places their lengths add up to, and *)
(* a parser looks at those places.                                         *)
EXTENDS Wire, SequencesExt, SequenceTheorems, WellFoundedInduction,
        FiniteSetTheorems, TLAPS

----------------------------------------------------------------------------
(* Bytes and their places                                                  *)

(* The bytes b stand in d from position k on.                              *)
Holds(d, k, b) ==
    /\ k + Len(b) - 1 <= Len(d)
    /\ \A i \in 1..Len(b) : d[k + i - 1] = b[i]

(* A function on 1..n is a sequence of length n.                           *)
LEMMA Table ==
    ASSUME NEW S, NEW n \in Nat, NEW s, s = [i \in 1..n |-> s[i]],
           \A i \in 1..n : s[i] \in S
    PROVE  s \in Seq(S) /\ Len(s) = n
OBVIOUS

(* Sequences that agree everywhere are the same.                           *)
LEMMA SameSeq ==
    ASSUME NEW S, NEW s \in Seq(S), NEW t \in Seq(S), Len(s) = Len(t),
           \A i \in 1..Len(s) : s[i] = t[i]
    PROVE  s = t
BY SeqEqual

(* What is appended stands at the end, and what stood there stays.         *)
LEMMA Appended ==
    ASSUME NEW S, NEW a \in Seq(S), NEW b \in Seq(S)
    PROVE  /\ a \o b \in Seq(S)
           /\ Len(a \o b) = Len(a) + Len(b)
           /\ Holds(a \o b, Len(a) + 1, b)
           /\ \A k \in Nat \ {0}, c \in Seq(S) : Holds(a, k, c) => Holds(a \o b, k, c)
           /\ \A i \in 1..Len(a) : (a \o b)[i] = a[i]
<1> DEFINE d == a \o b
<1>1. d \in Seq(S) /\ Len(d) = Len(a) + Len(b) /\ Len(a) \in Nat /\ Len(b) \in Nat
      /\ \A i \in 1 .. Len(a) + Len(b) :
           d[i] = IF i <= Len(a) THEN a[i] ELSE b[i - Len(a)]
  BY ConcatProperties
<1> HIDE DEF d
<1>2. \A i \in 1..Len(a) : d[i] = a[i]
  BY <1>1
<1>3. Holds(d, Len(a) + 1, b)
  <2>1. \A i \in 1..Len(b) : d[Len(a) + 1 + i - 1] = b[i]
    <3> TAKE i \in 1..Len(b)
    <3> DEFINE j == Len(a) + 1 + i - 1
    <3>1. j \in 1 .. Len(a) + Len(b) /\ ~(j <= Len(a)) /\ j - Len(a) = i
      BY <1>1
    <3> HIDE DEF j
    <3>2. d[j] = b[i]
      BY <1>1, <3>1
    <3> QED
      BY <3>2 DEF j
  <2> QED
    BY <1>1, <2>1 DEF Holds
<1>4. ASSUME NEW k \in Nat \ {0}, NEW c \in Seq(S), Holds(a, k, c)
      PROVE  Holds(d, k, c)
  <2>1. \A i \in 1..Len(c) : k + i - 1 \in 1..Len(a)
    BY <1>1, <1>4 DEF Holds
  <2>2. \A i \in 1..Len(c) : d[k + i - 1] = c[i]
    <3> TAKE i \in 1..Len(c)
    <3> DEFINE j == k + i - 1
    <3>1. j \in 1..Len(a) /\ a[j] = c[i]
      BY <1>4, <2>1 DEF Holds
    <3> HIDE DEF j
    <3>2. d[j] = c[i]
      BY <1>2, <3>1
    <3> QED
      BY <3>2 DEF j
  <2>3. k + Len(c) - 1 <= Len(d)
    BY <1>1, <1>4 DEF Holds
  <2> QED
    BY <2>2, <2>3 DEF Holds
<1> QED
  BY <1>1, <1>2, <1>3, <1>4 DEF d

(* The whole stands at the beginning.                                      *)
LEMMA HoldsWhole ==
    ASSUME NEW S, NEW b \in Seq(S)
    PROVE  Holds(b, 1, b)
BY DEF Holds

(* What stands at a place is what a slice takes from there.                *)
LEMMA Cut ==
    ASSUME NEW S, NEW d \in Seq(S), NEW b \in Seq(S), NEW k \in Nat \ {0},
           Holds(d, k, b)
    PROVE  /\ SubSeq(d, k, k + Len(b) - 1) = b
           /\ Slice(d, k, Len(b)) = b
<1>0. Len(d) \in Nat /\ Len(b) \in Nat /\ k + Len(b) - 1 <= Len(d)
      /\ k + Len(b) - 1 \in Int
  BY DEF Holds
<1> DEFINE n == k + Len(b) - 1
<1>1. \A i \in k..n : d[i] \in S
  BY <1>0
<1>2. /\ SubSeq(d, k, n) \in Seq(S)
      /\ Len(SubSeq(d, k, n)) = Len(b)
      /\ \A i \in 1 .. n - k + 1 : SubSeq(d, k, n)[i] = d[k + i - 1]
  <2>1. n \in Int /\ k \in Int
    BY <1>0
  <2>2. /\ SubSeq(d, k, n) \in Seq(S)
        /\ Len(SubSeq(d, k, n)) = IF k <= n THEN n - k + 1 ELSE 0
        /\ \A i \in 1 .. n - k + 1 : SubSeq(d, k, n)[i] = d[k + i - 1]
    <3> HIDE DEF n
    <3> QED
      BY <1>1, <2>1, SubSeqProperties
  <2> QED
    BY <1>0, <2>2
<1>3. n - k + 1 = Len(b)
  BY <1>0
<1>4. SubSeq(d, k, n) = b
  <2> DEFINE t == SubSeq(d, k, n)
  <2>1. t \in Seq(S) /\ Len(t) = Len(b)
    BY <1>2
  <2>2. \A i \in 1..Len(t) : t[i] = b[i]
    BY <1>2, <1>3 DEF Holds
  <2> HIDE DEF t
  <2>3. t = b
    BY <2>1, <2>2, SameSeq
  <2> QED
    BY <2>3 DEF t
<1>5. Min({Len(d), n}) = n
  BY <1>0 DEF Min
<1> QED
  BY <1>4, <1>5 DEF Slice

(* A set of natural numbers has a least member: what stands here for       *)
(* induction over data.                                                    *)
LEMMA LeastNat ==
    ASSUME NEW T \in SUBSET Nat, T # {}
    PROVE  \E x \in T : \A y \in T : x <= y
<1>1. \E x \in T : \A y \in T : ~(<<y, x>> \in OpToRel(<, Nat))
  BY NatLessThanWellFounded, WFMin
<1>2. PICK x \in T : \A y \in T : ~(<<y, x>> \in OpToRel(<, Nat))
  BY <1>1
<1>3. \A y \in T : ~(y < x)
  BY <1>2 DEF OpToRel
<1> QED
  BY <1>3

(* Min of the community modules is the least member.                       *)
LEMMA MinLeast ==
    ASSUME NEW T \in SUBSET Nat, T # {}
    PROVE  Min(T) \in T /\ \A y \in T : Min(T) <= y
BY LeastNat DEF Min

(* n times the same byte                                                   *)
LEMMA RepeatSeq ==
    ASSUME NEW b, NEW n \in Nat
    PROVE  /\ Repeat(b, n) \in Seq({b}) /\ Len(Repeat(b, n)) = n
           /\ \A i \in 1..n : Repeat(b, n)[i] = b
BY DEF Repeat

(* Eight bytes of time stamp                                               *)
LEMMA TimestampSeq == Timestamp \in Seq(Byte) /\ Len(Timestamp) = 8
BY DEF Timestamp, Repeat, Byte

(* The broadcast id is an id that rstrip leaves alone.                     *)
LEMMA BroadcastSeq ==
    /\ BROADCAST \in Id /\ BROADCAST \in Seq(Byte)
    /\ Len(BROADCAST) = 8 /\ BROADCAST[IdSize] # 0
BY DEF BROADCAST, Repeat, Byte, Id, IdSize

(* A function from 1..n to bytes is a sequence of n bytes.                 *)
LEMMA IdSeq ==
    ASSUME NEW n \in Nat, NEW id \in [1..n -> Byte]
    PROVE  id \in Seq(Byte) /\ Len(id) = n
BY Table

(* An id of eight bytes needs no filling up.                               *)
LEMMA PaddedId ==
    ASSUME NEW id \in Id
    PROVE  Padded(id) = id /\ id \in Seq(Byte) /\ Len(id) = IdSize
<1>1. id \in [1..8 -> Byte]
  BY DEF Id, IdSize
<1>2. id \in Seq(Byte) /\ Len(id) = 8
  BY <1>1, IdSeq
<1> QED
  BY <1>1, <1>2 DEF IdSize, Padded

(* A single byte as a field                                                *)
LEMMA ByteSeq1 ==
    ASSUME NEW a \in Byte
    PROVE  <<a>> \in Seq(Byte) /\ Len(<<a>>) = 1 /\ <<a>>[1] = a
OBVIOUS

(* struct.pack('>H', n) makes two bytes of a number below 65536.           *)
LEMMA U16Seq ==
    ASSUME NEW n \in Nat, n < 65536
    PROVE  /\ U16(n) \in Seq(Byte) /\ Len(U16(n)) = 2
           /\ 256 * U16(n)[1] + U16(n)[2] = n
<1>1. n \div 256 \in Byte /\ n % 256 \in Byte /\ 256 * (n \div 256) + (n % 256) = n
  BY DEF Byte
<1> QED
  BY <1>1 DEF U16

(* struct.unpack gives the packed number back.                             *)
LEMMA U16Read ==
    ASSUME NEW n \in Nat, n < 65536, NEW d \in Seq(Byte), NEW k \in Nat \ {0},
           Holds(d, k, U16(n))
    PROVE  U16At(d, k) = n
<1>1. d[k] = U16(n)[1] /\ d[k + 1] = U16(n)[2]
  <2>1. Len(U16(n)) = 2
    BY U16Seq
  <2>2. d[k + 1 - 1] = U16(n)[1] /\ d[k + 2 - 1] = U16(n)[2]
    BY <2>1 DEF Holds
  <2> QED
    BY <2>2
<1> QED
  BY <1>1, U16Seq DEF U16At

(* The padding is at most 255 bytes.                                       *)
LEMMA PaddingSeq ==
    ASSUME NEW n \in Nat, NEW filler \in Byte
    PROVE  Padding(n, filler) \in Seq(Byte) /\ Len(Padding(n, filler)) <= 255
<1> DEFINE blocks == {b \in BlockSizes : n + 16 <= b}
           needed == IF blocks = {} THEN 0 ELSE Min(blocks) - n
           p == [i \in 1..needed |-> IF i = needed THEN needed ELSE filler]
<1>1. blocks \in SUBSET Nat
  BY DEF BlockSizes
<1>2. needed \in Nat
  <2>1. ASSUME blocks # {} PROVE Min(blocks) \in Nat /\ n + 16 <= Min(blocks)
    BY <1>1, <2>1, MinLeast
  <2> QED
    BY <2>1
<1> HIDE DEF needed
<1>3. ASSUME ~(needed > 255) PROVE p \in Seq(Byte) /\ Len(p) = needed
  <2>1. \A i \in 1..needed : p[i] \in Byte
    BY <1>2, <1>3 DEF Byte
  <2>2. p = [i \in 1..needed |-> p[i]]
    OBVIOUS
  <2> HIDE DEF p
  <2> QED
    BY <1>2, <2>1, <2>2, Table
<1>4. Padding(n, filler) = IF needed > 255 THEN <<>> ELSE p
  BY DEF Padding, needed
<1> QED
  BY <1>2, <1>3, <1>4

(* A byte that stands at k                                                 *)
LEMMA HoldsByte ==
    ASSUME NEW d \in Seq(Byte), NEW k \in Nat \ {0}, NEW b \in Byte, Holds(d, k, <<b>>)
    PROVE  d[k] = b
<1>1. d[k + 1 - 1] = <<b>>[1]
  BY DEF Holds
<1> QED
  BY <1>1

(* The parts of what stands in d stand in d.                               *)
LEMMA HoldsPart ==
    ASSUME NEW d \in Seq(Byte), NEW k \in Nat \ {0}, NEW b \in Seq(Byte), Holds(d, k, b),
           NEW j \in Nat \ {0}, NEW c \in Seq(Byte), Holds(b, j, c)
    PROVE  Holds(d, k + j - 1, c)
<1>1. Len(b) \in Nat /\ Len(c) \in Nat /\ Len(d) \in Nat
  OBVIOUS
<1>2. k + j - 1 + Len(c) - 1 <= Len(d)
  BY <1>1 DEF Holds
<1>3. \A i \in 1..Len(c) : d[k + j - 1 + i - 1] = c[i]
  <2> TAKE i \in 1..Len(c)
  <2> DEFINE q == j + i - 1
  <2>1. q \in 1..Len(b) /\ b[q] = c[i]
    BY <1>1 DEF Holds
  <2>2. k + j - 1 + i - 1 = k + q - 1
    BY <1>1
  <2> HIDE DEF q
  <2>3. d[k + q - 1] = b[q]
    BY <2>1 DEF Holds
  <2> QED
    BY <2>1, <2>2, <2>3
<1> QED
  BY <1>2, <1>3 DEF Holds

(* A relay's new TTL leaves everything else where it is.                   *)
LEMMA HoldsTTL ==
    ASSUME NEW d \in Seq(Byte), Len(d) >= 3, NEW t \in Byte
    PROVE  LET e == [d EXCEPT ![3] = t] IN
           /\ e \in Seq(Byte) /\ Len(e) = Len(d) /\ e[3] = t
           /\ e[1] = d[1] /\ e[2] = d[2]
           /\ \A k \in Nat, c \in Seq(Byte) : k > 3 /\ Holds(d, k, c) => Holds(e, k, c)
<1> DEFINE e == [d EXCEPT ![3] = t]
<1>1. e \in Seq(Byte) /\ Len(e) = Len(d) /\ e[3] = t /\ \A i \in 1..Len(d) : i # 3 => e[i] = d[i]
  OBVIOUS
<1> HIDE DEF e
<1>2. ASSUME NEW k \in Nat, NEW c \in Seq(Byte), k > 3, Holds(d, k, c)
      PROVE  Holds(e, k, c)
  <2>1. \A i \in 1..Len(c) : e[k + i - 1] = c[i]
    <3> TAKE i \in 1..Len(c)
    <3> DEFINE q == k + i - 1
    <3>1. q \in 1..Len(d) /\ q # 3 /\ d[q] = c[i]
      BY <1>2 DEF Holds
    <3> HIDE DEF q
    <3>2. e[q] = c[i]
      BY <1>1, <3>1
    <3> QED
      BY <3>2 DEF q
  <2> QED
    BY <1>1, <1>2, <2>1 DEF Holds
<1>3. \A k \in Nat, c \in Seq(Byte) : k > 3 /\ Holds(d, k, c) => Holds(e, k, c)
  BY <1>2
<1>4. e[1] = d[1] /\ e[2] = d[2]
  BY <1>1
<1> QED
  BY <1>1, <1>3, <1>4, Zenon DEF e

----------------------------------------------------------------------------
(* Joined fields                                                           *)

(* Length and type of two fields joined                                    *)
LEMMA Joins ==
    ASSUME NEW a \in Seq(Byte), NEW b \in Seq(Byte)
    PROVE  a \o b \in Seq(Byte) /\ Len(a \o b) = Len(a) + Len(b)
BY Appended

(* Two fields that stand in d stand there one after the other.             *)
LEMMA Follows ==
    ASSUME NEW d \in Seq(Byte), NEW a \in Seq(Byte), NEW b \in Seq(Byte),
           NEW k \in Nat \ {0}, Holds(d, k, a \o b)
    PROVE  Holds(d, k, a) /\ Holds(d, k + Len(a), b)
<1> DEFINE c == a \o b
<1>1. c \in Seq(Byte) /\ Holds(c, Len(a) + 1, b) /\ Holds(c, 1, a)
  BY Appended, HoldsWhole
<1>2. Len(a) + 1 \in Nat \ {0} /\ k + (Len(a) + 1) - 1 = k + Len(a) /\ k + 1 - 1 = k
  OBVIOUS
<1>3. Holds(d, k, c)
  OBVIOUS
<1> HIDE DEF c
<1>4. Holds(d, k + (Len(a) + 1) - 1, b) /\ Holds(d, k + 1 - 1, a)
  <2> DEFINE j == Len(a) + 1
  <2>1. j \in Nat \ {0} /\ Holds(c, j, b)
    BY <1>1, <1>2
  <2> HIDE DEF j
  <2>2. Holds(d, k + j - 1, b)
    BY <1>1, <1>3, <2>1, HoldsPart
  <2>3. Holds(d, k + 1 - 1, a)
    BY <1>1, <1>3, HoldsPart
  <2> QED
    BY <2>2, <2>3 DEF j
<1> QED
  BY <1>2, <1>4

(* Length and type of five fields joined                                   *)
LEMMA Joins5 ==
    ASSUME NEW a1 \in Seq(Byte), NEW a2 \in Seq(Byte), NEW a3 \in Seq(Byte), NEW a4 \in Seq(Byte),
           NEW a5 \in Seq(Byte)
    PROVE  /\ a1 \o a2 \o a3 \o a4 \o a5 \in Seq(Byte)
           /\ Len(a1 \o a2 \o a3 \o a4 \o a5)
                = Len(a1) + Len(a2) + Len(a3) + Len(a4) + Len(a5)
<1> DEFINE p2 == a1 \o a2
           p3 == p2 \o a3
           p4 == p3 \o a4
           p5 == p4 \o a5
<1>2. p2 \in Seq(Byte) /\ Len(p2) = Len(a1) + Len(a2)
  <2>1. p2 \in Seq(Byte) /\ Len(p2) = Len(a1) + Len(a2)
    BY Joins, Zenon
  <2> HIDE DEF p2
  <2> QED
    BY <2>1
<1> HIDE DEF p2
<1>3. p3 \in Seq(Byte) /\ Len(p3) = Len(a1) + Len(a2) + Len(a3)
  <2>1. p3 \in Seq(Byte) /\ Len(p3) = Len(p2) + Len(a3)
    BY <1>2, Joins, Zenon
  <2> HIDE DEF p3
  <2> QED
    BY <1>2, <2>1
<1> HIDE DEF p3
<1>4. p4 \in Seq(Byte) /\ Len(p4) = Len(a1) + Len(a2) + Len(a3) + Len(a4)
  <2>1. p4 \in Seq(Byte) /\ Len(p4) = Len(p3) + Len(a4)
    BY <1>3, Joins, Zenon
  <2> HIDE DEF p4
  <2> QED
    BY <1>3, <2>1
<1> HIDE DEF p4
<1>5. p5 \in Seq(Byte) /\ Len(p5) = Len(a1) + Len(a2) + Len(a3) + Len(a4) + Len(a5)
  <2>1. p5 \in Seq(Byte) /\ Len(p5) = Len(p4) + Len(a5)
    BY <1>4, Joins, Zenon
  <2> HIDE DEF p5
  <2> QED
    BY <1>4, <2>1
<1> QED
  BY <1>5, Zenon DEF p2, p3, p4

(* Length and type of eight fields joined                                  *)
LEMMA Joins8 ==
    ASSUME NEW a1 \in Seq(Byte), NEW a2 \in Seq(Byte), NEW a3 \in Seq(Byte), NEW a4 \in Seq(Byte),
           NEW a5 \in Seq(Byte), NEW a6 \in Seq(Byte), NEW a7 \in Seq(Byte), NEW a8 \in Seq(Byte)
    PROVE  /\ a1 \o a2 \o a3 \o a4 \o a5 \o a6 \o a7 \o a8 \in Seq(Byte)
           /\ Len(a1 \o a2 \o a3 \o a4 \o a5 \o a6 \o a7 \o a8)
                = Len(a1) + Len(a2) + Len(a3) + Len(a4) + Len(a5) + Len(a6) + Len(a7) + Len(a8)
<1> DEFINE p5 == a1 \o a2 \o a3 \o a4 \o a5
           p6 == p5 \o a6
           p7 == p6 \o a7
           p8 == p7 \o a8
<1>5. p5 \in Seq(Byte) /\ Len(p5) = Len(a1) + Len(a2) + Len(a3) + Len(a4) + Len(a5)
  BY Joins5, SMT
<1> HIDE DEF p5
<1>6. p6 \in Seq(Byte) /\ Len(p6) = Len(a1) + Len(a2) + Len(a3) + Len(a4) + Len(a5) + Len(a6)
  <2>1. p6 \in Seq(Byte) /\ Len(p6) = Len(p5) + Len(a6)
    BY <1>5, Joins, Zenon
  <2> HIDE DEF p6
  <2> QED
    BY <1>5, <2>1
<1> HIDE DEF p6
<1>7. p7 \in Seq(Byte) /\ Len(p7) = Len(a1) + Len(a2) + Len(a3) + Len(a4) + Len(a5) + Len(a6) + Len(a7)
  <2>1. p7 \in Seq(Byte) /\ Len(p7) = Len(p6) + Len(a7)
    BY <1>6, Joins, Zenon
  <2> HIDE DEF p7
  <2> QED
    BY <1>6, <2>1
<1> HIDE DEF p7
<1>8. p8 \in Seq(Byte) /\ Len(p8) = Len(a1) + Len(a2) + Len(a3) + Len(a4) + Len(a5) + Len(a6) + Len(a7) + Len(a8)
  <2>1. p8 \in Seq(Byte) /\ Len(p8) = Len(p7) + Len(a8)
    BY <1>7, Joins, Zenon
  <2> HIDE DEF p8
  <2> QED
    BY <1>7, <2>1
<1> QED
  BY <1>8, Zenon DEF p5, p6, p7

(* 5 fields stand in d one after the other.                              *)
Laid5(d, a1, a2, a3, a4, a5) ==
    /\ Holds(d, 1, a1)
    /\ Holds(d, 1 + Len(a1), a2)
    /\ Holds(d, 1 + Len(a1) + Len(a2), a3)
    /\ Holds(d, 1 + Len(a1) + Len(a2) + Len(a3), a4)
    /\ Holds(d, 1 + Len(a1) + Len(a2) + Len(a3) + Len(a4), a5)

(* Five joined fields stand where the lengths of those before them say.    *)
LEMMA Fields5 ==
    ASSUME NEW d \in Seq(Byte),
           NEW a1 \in Seq(Byte), NEW a2 \in Seq(Byte), NEW a3 \in Seq(Byte), NEW a4 \in Seq(Byte),
           NEW a5 \in Seq(Byte),
           Holds(d, 1, a1 \o a2 \o a3 \o a4 \o a5)
    PROVE  Laid5(d, a1, a2, a3, a4, a5)
<1> DEFINE p2 == a1 \o a2
           p3 == p2 \o a3
           p4 == p3 \o a4
           p5 == p4 \o a5
<1>0. Holds(d, 1, p5)
  BY Zenon
<1>2. p2 \in Seq(Byte) /\ Len(p2) = Len(a1) + Len(a2)
  <2>1. p2 \in Seq(Byte) /\ Len(p2) = Len(a1) + Len(a2)
    BY Joins, Zenon
  <2> HIDE DEF p2
  <2> QED
    BY <2>1
<1> HIDE DEF p2
<1>3. p3 \in Seq(Byte) /\ Len(p3) = Len(a1) + Len(a2) + Len(a3)
  <2>1. p3 \in Seq(Byte) /\ Len(p3) = Len(p2) + Len(a3)
    BY <1>2, Joins, Zenon
  <2> HIDE DEF p3
  <2> QED
    BY <1>2, <2>1
<1> HIDE DEF p3
<1>4. p4 \in Seq(Byte) /\ Len(p4) = Len(a1) + Len(a2) + Len(a3) + Len(a4)
  <2>1. p4 \in Seq(Byte) /\ Len(p4) = Len(p3) + Len(a4)
    BY <1>3, Joins, Zenon
  <2> HIDE DEF p4
  <2> QED
    BY <1>3, <2>1
<1> HIDE DEF p4
<1> HIDE DEF p5
<1>a. 1 \in Nat \ {0}
  OBVIOUS
<1>h5. Holds(d, 1, p4) /\ Holds(d, 1 + Len(a1) + Len(a2) + Len(a3) + Len(a4), a5)
  <2>1. Holds(d, 1, p4) /\ Holds(d, 1 + Len(p4), a5)
    BY <1>4, <1>a, <1>0, Follows, Zenon DEF p5
  <2>2. 1 + Len(p4) = 1 + Len(a1) + Len(a2) + Len(a3) + Len(a4)
    BY <1>4, SMT
  <2> QED
    BY <2>1, <2>2, Zenon
<1>h4. Holds(d, 1, p3) /\ Holds(d, 1 + Len(a1) + Len(a2) + Len(a3), a4)
  <2>1. Holds(d, 1, p3) /\ Holds(d, 1 + Len(p3), a4)
    BY <1>3, <1>a, <1>h5, Follows, Zenon DEF p4
  <2>2. 1 + Len(p3) = 1 + Len(a1) + Len(a2) + Len(a3)
    BY <1>3, SMT
  <2> QED
    BY <2>1, <2>2, Zenon
<1>h3. Holds(d, 1, p2) /\ Holds(d, 1 + Len(a1) + Len(a2), a3)
  <2>1. Holds(d, 1, p2) /\ Holds(d, 1 + Len(p2), a3)
    BY <1>2, <1>a, <1>h4, Follows, Zenon DEF p3
  <2>2. 1 + Len(p2) = 1 + Len(a1) + Len(a2)
    BY <1>2, SMT
  <2> QED
    BY <2>1, <2>2, Zenon
<1>h2. Holds(d, 1, a1) /\ Holds(d, 1 + Len(a1), a2)
  <2>1. Holds(d, 1, a1) /\ Holds(d, 1 + Len(a1), a2)
    BY <1>a, <1>h3, Follows, Zenon DEF p2
  <2>2. 1 + Len(a1) = 1 + Len(a1)
    BY SMT
  <2> QED
    BY <2>1, <2>2, Zenon
<1> QED
  BY <1>h5, <1>h4, <1>h3, <1>h2, Zenon DEF Laid5

(* 8 fields stand in d one after the other.                              *)
Laid8(d, a1, a2, a3, a4, a5, a6, a7, a8) ==
    /\ Holds(d, 1, a1)
    /\ Holds(d, 1 + Len(a1), a2)
    /\ Holds(d, 1 + Len(a1) + Len(a2), a3)
    /\ Holds(d, 1 + Len(a1) + Len(a2) + Len(a3), a4)
    /\ Holds(d, 1 + Len(a1) + Len(a2) + Len(a3) + Len(a4), a5)
    /\ Holds(d, 1 + Len(a1) + Len(a2) + Len(a3) + Len(a4) + Len(a5), a6)
    /\ Holds(d, 1 + Len(a1) + Len(a2) + Len(a3) + Len(a4) + Len(a5) + Len(a6), a7)
    /\ Holds(d, 1 + Len(a1) + Len(a2) + Len(a3) + Len(a4) + Len(a5) + Len(a6) + Len(a7), a8)

(* Eight joined fields stand where the lengths of those before them say.   *)
LEMMA Fields8 ==
    ASSUME NEW d \in Seq(Byte),
           NEW a1 \in Seq(Byte), NEW a2 \in Seq(Byte), NEW a3 \in Seq(Byte), NEW a4 \in Seq(Byte),
           NEW a5 \in Seq(Byte), NEW a6 \in Seq(Byte), NEW a7 \in Seq(Byte), NEW a8 \in Seq(Byte),
           Holds(d, 1, a1 \o a2 \o a3 \o a4 \o a5 \o a6 \o a7 \o a8)
    PROVE  Laid8(d, a1, a2, a3, a4, a5, a6, a7, a8)
<1> DEFINE p5 == a1 \o a2 \o a3 \o a4 \o a5
           p6 == p5 \o a6
           p7 == p6 \o a7
           p8 == p7 \o a8
<1>0. Holds(d, 1, p8)
  BY Zenon
<1>5. p5 \in Seq(Byte) /\ Len(p5) = Len(a1) + Len(a2) + Len(a3) + Len(a4) + Len(a5)
  BY Joins5, SMT
<1> HIDE DEF p5
<1>6. p6 \in Seq(Byte) /\ Len(p6) = Len(a1) + Len(a2) + Len(a3) + Len(a4) + Len(a5) + Len(a6)
  <2>1. p6 \in Seq(Byte) /\ Len(p6) = Len(p5) + Len(a6)
    BY <1>5, Joins, Zenon
  <2> HIDE DEF p6
  <2> QED
    BY <1>5, <2>1
<1> HIDE DEF p6
<1>7. p7 \in Seq(Byte) /\ Len(p7) = Len(a1) + Len(a2) + Len(a3) + Len(a4) + Len(a5) + Len(a6) + Len(a7)
  <2>1. p7 \in Seq(Byte) /\ Len(p7) = Len(p6) + Len(a7)
    BY <1>6, Joins, Zenon
  <2> HIDE DEF p7
  <2> QED
    BY <1>6, <2>1
<1> HIDE DEF p7
<1> HIDE DEF p8
<1>a. 1 \in Nat \ {0}
  OBVIOUS
<1>h8. Holds(d, 1, p7) /\ Holds(d, 1 + Len(a1) + Len(a2) + Len(a3) + Len(a4) + Len(a5) + Len(a6) + Len(a7), a8)
  <2>1. Holds(d, 1, p7) /\ Holds(d, 1 + Len(p7), a8)
    BY <1>7, <1>a, <1>0, Follows, Zenon DEF p8
  <2>2. 1 + Len(p7) = 1 + Len(a1) + Len(a2) + Len(a3) + Len(a4) + Len(a5) + Len(a6) + Len(a7)
    BY <1>7, SMT
  <2> QED
    BY <2>1, <2>2, Zenon
<1>h7. Holds(d, 1, p6) /\ Holds(d, 1 + Len(a1) + Len(a2) + Len(a3) + Len(a4) + Len(a5) + Len(a6), a7)
  <2>1. Holds(d, 1, p6) /\ Holds(d, 1 + Len(p6), a7)
    BY <1>6, <1>a, <1>h8, Follows, Zenon DEF p7
  <2>2. 1 + Len(p6) = 1 + Len(a1) + Len(a2) + Len(a3) + Len(a4) + Len(a5) + Len(a6)
    BY <1>6, SMT
  <2> QED
    BY <2>1, <2>2, Zenon
<1>h6. Holds(d, 1, p5) /\ Holds(d, 1 + Len(a1) + Len(a2) + Len(a3) + Len(a4) + Len(a5), a6)
  <2>1. Holds(d, 1, p5) /\ Holds(d, 1 + Len(p5), a6)
    BY <1>5, <1>a, <1>h7, Follows, Zenon DEF p6
  <2>2. 1 + Len(p5) = 1 + Len(a1) + Len(a2) + Len(a3) + Len(a4) + Len(a5)
    BY <1>5, SMT
  <2> QED
    BY <2>1, <2>2, Zenon
<1>s. /\ Holds(d, 1, a1)
      /\ Holds(d, 1 + Len(a1), a2)
      /\ Holds(d, 1 + Len(a1) + Len(a2), a3)
      /\ Holds(d, 1 + Len(a1) + Len(a2) + Len(a3), a4)
      /\ Holds(d, 1 + Len(a1) + Len(a2) + Len(a3) + Len(a4), a5)
  BY <1>h6, Fields5, Zenon DEF p5, Laid5
<1> QED
  BY <1>h8, <1>h7, <1>h6, <1>s, Zenon DEF Laid8

----------------------------------------------------------------------------
(* Layout of a packet                                                      *)

(* The recipient as a packet has it, empty for none: a fragment without a  *)
(* recipient has none, every other packet is then for everyone.            *)
To(recipient, type) ==
    IF recipient # {} THEN CHOOSE id \in recipient : TRUE
    ELSE IF type \in FRAGMENTS THEN <<>> ELSE BROADCAST

(* The recipient argument of a packet: None, or an id                      *)
Recipients == {S \in SUBSET Id : \A i, j \in S : i = j}

(* None is such an argument.                                               *)
LEMMA NoRecipient == {} \in Recipients
BY DEF Recipients

(* Without a recipient, what is no fragment is for everyone.               *)
LEMMA ToAll ==
    ASSUME NEW type, type \notin FRAGMENTS
    PROVE  To({}, type) = BROADCAST
BY Zenon DEF To

(* The recipient field is empty, or the id of the recipient.               *)
LEMMA ToSeq ==
    ASSUME NEW recipient \in Recipients, NEW type
    PROVE  /\ To(recipient, type) \in Seq(Byte)
           /\ To(recipient, type) = <<>> \/ To(recipient, type) \in Id
           /\ To(recipient, type) = <<>> <=> recipient = {} /\ type \in FRAGMENTS
           /\ recipient # {} => To(recipient, type) \in recipient
<1> DEFINE r == To(recipient, type)
<1>1. \A id \in Id : id \in Seq(Byte) /\ id # <<>>
  <2> SUFFICES ASSUME NEW id \in Id PROVE id \in Seq(Byte) /\ id # <<>>
    OBVIOUS
  <2>1. id \in Seq(Byte) /\ Len(id) = 8
    BY PaddedId DEF IdSize
  <2> QED
    BY <2>1
<1>2. CASE recipient # {}
  <2>1. r \in recipient /\ recipient \subseteq Id
    BY <1>2 DEF To, Recipients
  <2> QED
    BY <1>1, <1>2, <2>1, Zenon
<1>3. CASE recipient = {} /\ type \in FRAGMENTS
  <2>1. r = <<>> /\ <<>> \in Seq(Byte)
    BY <1>3 DEF To
  <2> QED
    BY <1>3, <2>1, Zenon
<1>4. CASE recipient = {} /\ type \notin FRAGMENTS
  <2>1. r = BROADCAST
    BY <1>4, Zenon DEF To
  <2> QED
    BY <1>1, <1>4, <2>1, BroadcastSeq, Zenon
<1> QED
  BY <1>2, <1>3, <1>4, Zenon

(* Where the payload starts behind a recipient field r, and the flags of a *)
(* packet with it                                                          *)
Start(r) == 23 + Len(r)
Flags(r, signature) == Bit(1, r # <<>>) + Bit(2, signature # <<>>)

(* A payload starts at byte 23 or, behind a recipient, at byte 31.         *)
LEMMA StartNat ==
    ASSUME NEW r \in Seq(Byte), r = <<>> \/ r \in Id
    PROVE  /\ Start(r) \in Nat /\ Len(r) = Start(r) - 23 /\ Len(r) \in Nat
           /\ Start(r) = IF r # <<>> THEN 31 ELSE 23
<1>1. CASE r = <<>>
  BY <1>1 DEF Start
<1>2. CASE r \in Id
  <2>1. Len(r) = 8
    BY <1>2, PaddedId DEF IdSize
  <2> QED
    BY <2>1 DEF Start
<1> QED
  BY <1>1, <1>2

(* The recipient bit of the flags says what it was made from.              *)
LEMMA FlagBits ==
    ASSUME NEW r, NEW signature
    PROVE  /\ Flags(r, signature) \in Byte
           /\ HasBit(Flags(r, signature), 1) <=> r # <<>>
BY DEF Flags, Bit, HasBit, Byte

(* Where create_bitchat_packet_with_recipient puts what                    *)
PacketLaid(d, sender, r, type, payload, signature) ==
    /\ d \in Seq(Byte)
    /\ Len(d) \in Nat
    /\ Len(d) >= Start(r) - 1 + Len(payload) + Len(signature)
    /\ Len(d) <= Start(r) - 1 + Len(payload) + Len(signature) + 255
    /\ d[1] = 1 /\ d[2] = type
    /\ Holds(d, 12, <<Flags(r, signature)>>)
    /\ Holds(d, 13, U16(Len(payload)))
    /\ Holds(d, 15, sender)
    /\ Holds(d, 23, r)
    /\ Holds(d, Start(r), payload)

(* create_bitchat_packet_with_recipient lays a packet out as PacketLaid    *)
(* says.                                                                   *)
LEMMA CreateLays ==
    ASSUME NEW sender \in Id, NEW recipient \in Recipients, NEW type \in Byte,
           NEW payload \in Seq(Byte), CanCreate(payload),
           NEW signature \in Seq(Byte), NEW filler \in Byte
    PROVE  LET d == CreatePacket(sender, recipient, type, payload, signature, filler) IN
           PacketLaid(d, sender, To(recipient, type), type, payload, signature) /\ d[3] = 7
<1> DEFINE d == CreatePacket(sender, recipient, type, payload, signature, filler)
<1> DEFINE r == To(recipient, type)
           h == <<1, type, 7>>
           t == Timestamp
           g == <<Flags(r, signature)>>
           u == U16(Len(payload))
           p == h \o t \o g \o u \o sender \o r \o payload \o signature
           f == Padding(Len(p), filler)
<1>1. d = p \o f
  <2>1. Padded(sender) = sender
    BY PaddedId
  <2> DEFINE to == recipient # {} \/ type \notin FRAGMENTS
             field == IF ~to THEN <<>>
                      ELSE IF recipient \in {{}, {<<>>}} THEN BROADCAST
                      ELSE Padded(CHOOSE id \in recipient : TRUE)
  <2>2. to <=> r # <<>>
    BY ToSeq, Zenon
  <2>3. field = r
    <3>1. CASE recipient = {}
      BY <3>1, Zenon DEF To
    <3>2. CASE recipient # {}
      <4>1. r \in recipient /\ r # <<>> /\ r \in Id /\ r = CHOOSE id \in recipient : TRUE
        BY <3>2, ToSeq, Zenon DEF To
      <4>2. Padded(r) = r
        BY <4>1, PaddedId, Zenon
      <4>3. recipient \notin {{}, {<<>>}}
        BY <4>1
      <4> QED
        BY <3>2, <4>1, <4>2, <4>3, Zenon
    <3> QED
      BY <3>1, <3>2, Zenon
  <2> DEFINE q == <<1, type, 7>> \o Timestamp
                    \o <<Bit(1, to) + Bit(2, signature # <<>>)>> \o u
                    \o Padded(sender) \o field \o payload \o signature
  <2>4. d = q \o Padding(Len(q), filler)
    BY Zenon DEF CreatePacket
  <2>5. Bit(1, to) + Bit(2, signature # <<>>) = Flags(r, signature)
    BY <2>2, Zenon DEF Flags, Bit
  <2> HIDE DEF to, field, r
  <2>6. q = p
    BY <2>1, <2>3, <2>5, Zenon
  <2> QED
    BY <2>4, <2>6, Zenon
<1> HIDE DEF d
<1>2. h \in Seq(Byte) /\ Len(h) = 3 /\ h[1] = 1 /\ h[2] = type /\ h[3] = 7
  BY DEF Byte
<1>3. g \in Seq(Byte) /\ Len(g) = 1 /\ u \in Seq(Byte) /\ Len(u) = 2
  BY FlagBits, U16Seq, SMT DEF CanCreate
<1>4. /\ r \in Seq(Byte) /\ Len(r) = Start(r) - 23 /\ Len(r) \in Nat
      /\ Start(r) \in Nat
  BY ToSeq, StartNat, Zenon
<1>5. sender \in Seq(Byte) /\ Len(sender) = 8
  BY PaddedId DEF IdSize
<1>7. t \in Seq(Byte) /\ Len(t) = 8
  BY TimestampSeq
<1> HIDE DEF h, t, g, u, r
<1>0. /\ h \in Seq(Byte) /\ t \in Seq(Byte) /\ g \in Seq(Byte) /\ u \in Seq(Byte)
      /\ sender \in Seq(Byte) /\ r \in Seq(Byte)
  BY <1>2, <1>3, <1>4, <1>5, <1>7
<1>8. p \in Seq(Byte) /\ Len(p) = Start(r) - 1 + Len(payload) + Len(signature)
  <2>1. p \in Seq(Byte) /\ Len(p) = Len(h) + Len(t) + Len(g) + Len(u) + Len(sender)
          + Len(r) + Len(payload) + Len(signature)
    BY <1>0, Joins8, SMT
  <2> HIDE DEF p
  <2> QED
    BY <2>1, <1>2, <1>3, <1>4, <1>5, <1>7
<1> HIDE DEF p
<1>9. f \in Seq(Byte) /\ Len(f) <= 255 /\ Len(f) \in Nat
  BY <1>8, PaddingSeq
<1> HIDE DEF f
<1>10. d \in Seq(Byte) /\ Len(d) = Len(p) + Len(f) /\ Holds(d, 1, p \o f)
  BY <1>1, <1>8, <1>9, Joins, HoldsWhole
<1>11. Holds(d, 1, p)
  BY <1>8, <1>9, <1>10, Follows
<1>12. /\ Holds(d, 1, h)
       /\ Holds(d, 1 + Len(h) + Len(t), g)
       /\ Holds(d, 1 + Len(h) + Len(t) + Len(g), u)
       /\ Holds(d, 1 + Len(h) + Len(t) + Len(g) + Len(u), sender)
       /\ Holds(d, 1 + Len(h) + Len(t) + Len(g) + Len(u) + Len(sender), r)
       /\ Holds(d, 1 + Len(h) + Len(t) + Len(g) + Len(u) + Len(sender) + Len(r), payload)
  <2>1. Holds(d, 1, h \o t \o g \o u \o sender \o r \o payload \o signature)
    BY <1>11 DEF p
  <2>2. d \in Seq(Byte)
    BY <1>10
  <2>3. Laid8(d, h, t, g, u, sender, r, payload, signature)
    BY <2>1, <2>2, <1>0, Fields8
  <2> QED
    BY <2>3, Zenon DEF Laid8
<1>13. /\ 1 + Len(h) + Len(t) = 12
       /\ 1 + Len(h) + Len(t) + Len(g) = 13
       /\ 1 + Len(h) + Len(t) + Len(g) + Len(u) = 15
       /\ 1 + Len(h) + Len(t) + Len(g) + Len(u) + Len(sender) = 23
       /\ 1 + Len(h) + Len(t) + Len(g) + Len(u) + Len(sender) + Len(r) = Start(r)
  BY <1>2, <1>3, <1>4, <1>5, <1>7
<1>14. /\ Holds(d, 12, g) /\ Holds(d, 13, u) /\ Holds(d, 15, sender)
       /\ Holds(d, 23, r) /\ Holds(d, Start(r), payload)
  BY <1>12, <1>13, Zenon
<1>15. d[1] = 1 /\ d[2] = type /\ d[3] = 7
  <2>1. d[1 + 1 - 1] = h[1] /\ d[1 + 2 - 1] = h[2] /\ d[1 + 3 - 1] = h[3]
    BY <1>12, <1>2 DEF Holds
  <2> QED
    BY <2>1, <1>2
<1>16. Len(d) \in Nat
      /\ Len(d) >= Start(r) - 1 + Len(payload) + Len(signature)
      /\ Len(d) <= Start(r) - 1 + Len(payload) + Len(signature) + 255
  BY <1>4, <1>8, <1>9, <1>10
<1>18. Holds(d, 12, <<Flags(r, signature)>>) /\ Holds(d, 13, U16(Len(payload)))
  BY <1>14, Zenon DEF g, u
<1>19. PacketLaid(d, sender, r, type, payload, signature) /\ d[3] = 7
  BY <1>10, <1>14, <1>15, <1>16, <1>18, Zenon DEF PacketLaid
<1> QED
  BY <1>19, Zenon DEF d, r

(* A packet with another TTL, as a relay writes it                         *)
WithTTL(d, ttl) == [d EXCEPT ![3] = ttl]

(* A relay's new TTL leaves all this where it is.                          *)
LEMMA RelayLays ==
    ASSUME NEW sender \in Id, NEW r \in Seq(Byte), NEW type \in Byte,
           NEW payload \in Seq(Byte), CanCreate(payload),
           NEW signature \in Seq(Byte), NEW d,
           PacketLaid(d, sender, r, type, payload, signature),
           NEW ttl \in Byte
    PROVE  /\ PacketLaid(WithTTL(d, ttl), sender, r, type, payload, signature)
           /\ WithTTL(d, ttl)[3] = ttl
<1> DEFINE e == WithTTL(d, ttl)
<1>1. d \in Seq(Byte) /\ Len(d) >= 3
  BY DEF PacketLaid, Start
<1>2. /\ e \in Seq(Byte) /\ Len(e) = Len(d) /\ e[3] = ttl
      /\ e[1] = d[1] /\ e[2] = d[2]
      /\ \A k \in Nat, c \in Seq(Byte) : k > 3 /\ Holds(d, k, c) => Holds(e, k, c)
  BY <1>1, HoldsTTL DEF WithTTL
<1> HIDE DEF e
<1>3. /\ <<Flags(r, signature)>> \in Seq(Byte) /\ U16(Len(payload)) \in Seq(Byte)
      /\ sender \in Seq(Byte)
      /\ Start(r) \in Nat /\ Start(r) > 3
  BY FlagBits, U16Seq, PaddedId DEF Start, CanCreate
<1>4. /\ Holds(e, 12, <<Flags(r, signature)>>)
      /\ Holds(e, 13, U16(Len(payload)))
      /\ Holds(e, 15, sender)
      /\ Holds(e, 23, r)
      /\ Holds(e, Start(r), payload)
  <2> DEFINE g == <<Flags(r, signature)>>
             u == U16(Len(payload))
             k == Start(r)
  <2>1. /\ Holds(d, 12, g) /\ Holds(d, 13, u) /\ Holds(d, 15, sender)
        /\ Holds(d, 23, r) /\ Holds(d, k, payload)
    BY Zenon DEF PacketLaid
  <2>2. g \in Seq(Byte) /\ u \in Seq(Byte) /\ k \in Nat /\ k > 3
    BY <1>3
  <2> HIDE DEF g, u, k
  <2>3. ASSUME NEW j \in Nat, j > 3, NEW c \in Seq(Byte), Holds(d, j, c)
        PROVE  Holds(e, j, c)
    BY <1>2, <2>3
  <2>4. Holds(e, 12, g) /\ Holds(e, 13, u) /\ Holds(e, 15, sender) /\ Holds(e, k, payload)
    <3>1. 12 \in Nat /\ 12 > 3 /\ 13 \in Nat /\ 13 > 3 /\ 15 \in Nat /\ 15 > 3
      OBVIOUS
    <3> QED
      BY <3>1, <2>1, <2>2, <1>3, <2>3, Zenon
  <2>5. Holds(e, 23, r)
    <3>1. 23 \in Nat /\ 23 > 3
      OBVIOUS
    <3> QED
      BY <3>1, <2>1, <1>3, <2>3, Zenon
  <2> QED
    BY <2>4, <2>5, Zenon DEF g, u, k
<1>5. PacketLaid(e, sender, r, type, payload, signature) /\ e[3] = ttl
  BY <1>2, <1>4, Zenon DEF PacketLaid
<1> QED
  BY <1>5, Zenon DEF e

(* An id stays as it is when rstrip finds no zero at its end.              *)
LEMMA StrippedWhole ==
    ASSUME NEW d \in Seq(Byte), NEW n \in Nat \ {0}, Len(d) = n, d[n] # 0
    PROVE  Stripped(d) = d
<1> DEFINE M == {0} \cup {i \in DOMAIN d : d[i] # 0}
<1>1. n \in M /\ \A y \in M : n >= y
  OBVIOUS
<1>2. \A x \in M : (\A y \in M : x >= y) => x = n
  BY <1>1
<1>3. Max(M) = n
  BY <1>1, <1>2 DEF Max
<1>4. Slice(d, 1, n) = d /\ SubSeq(d, 1, 1 + n - 1) = d
  BY HoldsWhole, Cut
<1>5. 1 + n - 1 = n
  OBVIOUS
<1> QED
  BY <1>3, <1>4, <1>5 DEF Stripped

(* An id whose last byte is not zero survives rstrip.                      *)
LEMMA StrippedId ==
    ASSUME NEW id \in Id, id[IdSize] # 0
    PROVE  Stripped(id) = id
<1>1. id \in Seq(Byte) /\ Len(id) = IdSize /\ IdSize \in Nat \ {0}
  BY PaddedId DEF IdSize
<1> QED
  BY <1>1, StrippedWhole, Zenon

(* rstrip gives a front part.                                              *)
LEMMA StrippedFront ==
    ASSUME NEW s \in Seq(Byte), NEW k \in Nat, Len(s) = k
    PROVE  \E n \in 0..k : /\ Stripped(s) = SubSeq(s, 1, n) /\ Len(Stripped(s)) = n
                           /\ n = 0 \/ s[n] # 0
<1> DEFINE M == {0} \cup {i \in DOMAIN s : s[i] # 0}
<1>2. \E n \in M : \A y \in M : n >= y
  <2> DEFINE T == {j \in Nat : \A y \in M : j >= y}
  <2>1. k \in T
    OBVIOUS
  <2>2. PICK n \in T : \A j \in T : n <= j
    BY <2>1, LeastNat
  <2>3. n \in M
    <3>1. CASE n = 0
      BY <3>1
    <3>2. CASE n # 0
      <4>1. n - 1 \in Nat /\ n - 1 \notin T
        BY <3>2, <2>2
      <4>2. PICK y \in M : ~(n - 1 >= y)
        BY <4>1
      <4>3. y <= n /\ y \in Nat
        BY <2>2
      <4>4. y = n
        BY <4>2, <4>3
      <4> QED
        BY <4>4
    <3> QED
      BY <3>1, <3>2
  <2> QED
    BY <2>2, <2>3
<1>3. PICK n \in 0..k : n = Max(M) /\ (n = 0 \/ s[n] # 0)
  BY <1>2 DEF Max
<1>4. n \in Nat /\ n <= k
  OBVIOUS
<1>5. Stripped(s) = SubSeq(s, 1, n)
  BY <1>3 DEF Stripped
<1> HIDE DEF M
<1>6. Len(SubSeq(s, 1, n)) = IF 1 <= n THEN n - 1 + 1 ELSE 0
  <2>1. \A i \in 1..n : s[i] \in Byte
    BY <1>4
  <2> QED
    BY <1>4, <2>1, SubSeqProperties
<1>7. Len(SubSeq(s, 1, n)) = n
  <2> DEFINE l == Len(SubSeq(s, 1, n))
  <2>1. l = IF 1 <= n THEN n - 1 + 1 ELSE 0
    BY <1>6
  <2> HIDE DEF l
  <2>2. l = n
    BY <1>4, <2>1
  <2> QED
    BY <2>2 DEF l
<1> QED
  BY <1>3, <1>5, <1>7, Zenon

(* rstrip leaves eight bytes only of what is left as it is.               *)
LEMMA StrippedFull ==
    ASSUME NEW s \in Seq(Byte), NEW id \in Seq(Byte), NEW k \in Nat,
           Len(s) = k, Len(id) = k
    PROVE  Stripped(s) = id => s = id
<1> SUFFICES ASSUME Stripped(s) = id PROVE s = id
  OBVIOUS
<1>1. PICK n \in 0..k : Stripped(s) = SubSeq(s, 1, n) /\ Len(Stripped(s)) = n
  BY StrippedFront, Zenon
<1>2. n = k
  BY <1>1
<1>3. SubSeq(s, 1, k) = s
  BY SameSeq
<1> QED
  BY <1>1, <1>2, <1>3

(* rstrip never lengthens an id.                                           *)
LEMMA StrippedShort ==
    ASSUME NEW id \in Id
    PROVE  Len(Stripped(id)) <= IdSize
<1> DEFINE l == Len(Stripped(id))
<1>1. id \in Seq(Byte) /\ Len(id) = IdSize /\ IdSize \in Nat
  BY PaddedId DEF IdSize
<1>2. \E n \in 0..IdSize : l = n
  BY <1>1, StrippedFront, Zenon
<1> HIDE DEF l
<1>3. l <= IdSize
  BY <1>1, <1>2
<1> QED
  BY <1>3 DEF l

(* What rstrip makes into an id of eight bytes was that id.                *)
LEMMA StrippedSame ==
    ASSUME NEW s \in Id, NEW id \in Id, Stripped(s) = id
    PROVE  s = id
<1>1. /\ s \in Seq(Byte) /\ Len(s) = IdSize /\ id \in Seq(Byte) /\ Len(id) = IdSize
      /\ IdSize \in Nat
  BY PaddedId DEF IdSize
<1> QED
  BY <1>1, StrippedFull, Zenon

(* The ids that parse_bitchat_packet gives as they were put into a packet  *)
(* are those that do not end in a zero byte (rstrip, protocol.py:259-272). *)
THEOREM IdSurvives ==
    ASSUME NEW id \in Id
    PROVE  Stripped(id) = id <=> id[IdSize] # 0
<1>1. id \in Seq(Byte) /\ Len(id) = IdSize /\ IdSize \in Nat \ {0}
  BY PaddedId DEF IdSize
<1>2. PICK n \in 0..IdSize : Len(Stripped(id)) = n /\ (n = 0 \/ id[n] # 0)
  BY <1>1, StrippedFront, Zenon
<1>3. ASSUME Stripped(id) = id PROVE id[IdSize] # 0
  <2>1. n = IdSize
    BY <1>1, <1>2, <1>3
  <2> QED
    BY <1>1, <1>2, <2>1
<1> QED
  BY <1>3, StrippedId, Zenon

----------------------------------------------------------------------------
(* Reading a packet                                                        *)

(* What a node should read from a packet                                   *)
Parsed(sender, recipient, type, payload, ttl) ==
    [type |-> type, ttl |-> ttl, sender |-> Stripped(sender),
     recipient |-> IF To(recipient, type) = <<>> THEN {}
                   ELSE {Stripped(To(recipient, type))},
     payload |-> payload]

(* Data that parse_bitchat_packet accepts and reads as p                   *)
Reads(d, p) == CanParse(d) /\ ParsePacket(d) = p

(* The fields of Parsed that handlers look at                              *)
LEMMA ParsedFields ==
    ASSUME NEW sender, NEW recipient, NEW type, NEW payload, NEW ttl
    PROVE  LET p == Parsed(sender, recipient, type, payload, ttl) IN
           p.type = type /\ p.sender = Stripped(sender) /\ p.payload = payload
BY DEF Parsed

(* Message types are bytes.                                                *)
LEMMA TypeByte == MessageType \subseteq Byte /\ MESSAGE \in MessageType
                  /\ ANNOUNCEMENT \in MessageType /\ FRAGMENTS \subseteq MessageType
BY SMT DEF MessageType, Byte, MESSAGE, ANNOUNCEMENT, FRAGMENTS

(* A packet laid out as PacketLaid says is accepted and read as it was     *)
(* meant.                                                                  *)
LEMMA PacketRead ==
    ASSUME NEW sender \in Id, NEW recipient \in Recipients, NEW type \in MessageType,
           NEW payload \in Seq(Byte), CanCreate(payload), NEW signature \in Seq(Byte),
           NEW d, PacketLaid(d, sender, To(recipient, type), type, payload, signature)
    PROVE  CanParse(d) /\ ParsePacket(d) = Parsed(sender, recipient, type, payload, d[3])
<1> DEFINE r == To(recipient, type)
<1>a. r \in Seq(Byte) /\ (r = <<>> \/ r \in Id)
  BY ToSeq, Zenon
<1>b. PacketLaid(d, sender, r, type, payload, signature)
  OBVIOUS
<1> HIDE DEF r
<1>c. Start(r) = (IF r # <<>> THEN 31 ELSE 23) /\ Start(r) \in Nat \ {0}
  BY <1>a, StartNat
<1>1. d \in Seq(Byte) /\ Len(d) \in Nat /\ d[1] = 1 /\ d[2] = type
      /\ Len(d) >= Start(r) - 1 + Len(payload) + Len(signature)
  BY <1>b, Zenon DEF PacketLaid
<1>2. CanParse(d)
  BY <1>1, <1>c DEF CanParse, IdSize
<1>3. HasBit(d[12], 1) <=> r # <<>>
  <2>1. d[12] = Flags(r, signature)
    <3>1. Holds(d, 12, <<Flags(r, signature)>>) /\ 12 \in Nat \ {0}
      BY <1>b, SMT DEF PacketLaid
    <3> QED
      BY <1>1, <3>1, FlagBits, HoldsByte
  <2> QED
    BY <2>1, FlagBits, Zenon
<1>4. U16At(d, 13) = Len(payload)
  <2>1. Holds(d, 13, U16(Len(payload))) /\ 13 \in Nat \ {0}
    BY <1>b, SMT DEF PacketLaid
  <2>2. Len(payload) \in Nat /\ Len(payload) < 65536
    BY SMT DEF CanCreate
  <2> QED
    BY <1>1, <2>1, <2>2, U16Read, SMT
<1>5. SubSeq(d, 15, 22) = sender
  <2>1. Holds(d, 15, sender) /\ 15 \in Nat \ {0} /\ sender \in Seq(Byte) /\ Len(sender) = 8
    BY <1>b, PaddedId DEF PacketLaid, IdSize
  <2>2. SubSeq(d, 15, 15 + Len(sender) - 1) = sender
    BY <1>1, <2>1, Cut, Zenon
  <2>3. 15 + Len(sender) - 1 = 22
    BY <2>1
  <2> QED
    BY <2>2, <2>3, Zenon
<1>6. ASSUME r # <<>> PROVE SubSeq(d, 23, 30) = r
  <2>1. Holds(d, 23, r) /\ 23 \in Nat \ {0}
    BY <1>b, SMT DEF PacketLaid
  <2>2. SubSeq(d, 23, 23 + Len(r) - 1) = r
    BY <1>1, <1>a, <2>1, Cut, Zenon
  <2>3. 23 + Len(r) - 1 = 30
    <3>1. Len(r) = IdSize
      BY <1>6, <1>a, PaddedId, Zenon
    <3> QED
      BY <3>1 DEF IdSize
  <2> QED
    BY <2>2, <2>3, Zenon
<1>7. Slice(d, Start(r), Len(payload)) = payload
  <2>1. Holds(d, Start(r), payload)
    BY <1>b, Zenon DEF PacketLaid
  <2> QED
    BY <1>1, <1>c, <2>1, Cut, Zenon
<1>8. CASE r = <<>>
  BY <1>1, <1>2, <1>3, <1>4, <1>5, <1>7, <1>8, <1>c, Zenon DEF ParsePacket, Parsed, r
<1>9. CASE r # <<>>
  BY <1>1, <1>2, <1>3, <1>4, <1>5, <1>6, <1>7, <1>9, <1>c, Zenon DEF ParsePacket, Parsed, r
<1> QED
  BY <1>8, <1>9, Zenon

(* parse_bitchat_packet undoes create_bitchat_packet_with_recipient, with  *)
(* and without a recipient, whatever the payload and its padding are,      *)
(* after any number of relays (protocol.py:221-298, 372-454); of the two   *)
(* ids it gives what rstrip leaves.                                        *)
THEOREM PacketRoundTrip ==
    ASSUME NEW sender \in Id, NEW recipient \in Recipients, NEW type \in MessageType,
           NEW payload \in Seq(Byte), CanCreate(payload), NEW signature \in Seq(Byte),
           NEW filler \in Byte, NEW ttl \in Byte
    PROVE  Reads(WithTTL(CreatePacket(sender, recipient, type, payload, signature, filler),
                         ttl),
                 Parsed(sender, recipient, type, payload, ttl))
<1> DEFINE d == CreatePacket(sender, recipient, type, payload, signature, filler)
           e == WithTTL(d, ttl)
           r == To(recipient, type)
<1>a. r \in Seq(Byte)
  BY ToSeq, Zenon
<1>1. type \in Byte
  BY TypeByte
<1>2. PacketLaid(d, sender, r, type, payload, signature)
  BY <1>1, CreateLays, Zenon
<1> HIDE DEF d, r
<1>3. PacketLaid(e, sender, r, type, payload, signature) /\ e[3] = ttl
  BY <1>1, <1>2, <1>a, RelayLays
<1> HIDE DEF e
<1>4. CanParse(e) /\ ParsePacket(e) = Parsed(sender, recipient, type, payload, e[3])
  <2>1. PacketLaid(e, sender, To(recipient, type), type, payload, signature)
    BY <1>3, Zenon DEF r
  <2> QED
    BY <2>1, PacketRead
<1> QED
  BY <1>3, <1>4, Zenon DEF d, e, Reads

----------------------------------------------------------------------------
(* Cutting and joining                                                     *)

(* The number of fragments of a packet, and where the i-th ends            *)
Count(packet) == (Len(packet) + FragmentSize - 1) \div FragmentSize
End(packet, i) == IF 150 * i <= Len(packet) THEN 150 * i ELSE Len(packet)

(* The i-th chunk goes from the end of the one before to its own.          *)
LEMMA ChunkEnds ==
    ASSUME NEW packet \in Seq(Byte), Len(packet) > 0
    PROVE  /\ Count(packet) \in Nat \ {0}
           /\ End(packet, 0) = 0 /\ End(packet, Count(packet)) = Len(packet)
           /\ \A i \in 1..Count(packet) :
                /\ End(packet, i) \in Nat /\ End(packet, i - 1) \in Nat
                /\ End(packet, i - 1) < End(packet, i)
                /\ End(packet, i) <= Len(packet)
                /\ End(packet, i) - End(packet, i - 1) <= FragmentSize
<1> DEFINE L == Len(packet)
           n == Count(packet)
<1>1. L \in Nat /\ L > 0
  OBVIOUS
<1> HIDE DEF L
<1>2. n = (L + 149) \div 150
  BY <1>1, SMT DEF Count, FragmentSize, L
<1> HIDE DEF n
<1>3. n \in Nat \ {0} /\ 150 * n >= L /\ 150 * (n - 1) < L
  BY <1>1, <1>2, SMT
<1>4. \A i \in 1..n : 150 * (i - 1) < L
  BY <1>1, <1>3, SMT
<1>5. \A i \in Int : End(packet, i) = IF 150 * i <= L THEN 150 * i ELSE L
  BY SMT DEF End, L
<1>6. End(packet, 0) = 0 /\ End(packet, n) = L
  BY <1>1, <1>3, <1>5, SMT
<1>7. ASSUME NEW i \in 1..n
      PROVE  /\ End(packet, i) \in Nat /\ End(packet, i - 1) \in Nat
             /\ End(packet, i - 1) < End(packet, i)
             /\ End(packet, i) <= L
             /\ End(packet, i) - End(packet, i - 1) <= FragmentSize
  <2>1. End(packet, i) = IF 150 * i <= L THEN 150 * i ELSE L
    BY Zenon DEF End, L
  <2>2. End(packet, i - 1) = 150 * (i - 1)
    <3>1. End(packet, i - 1) = IF 150 * (i - 1) <= L THEN 150 * (i - 1) ELSE L
      BY Zenon DEF End, L
    <3> QED
      BY <1>1, <1>3, <1>4, <3>1, SMT
  <2>3. 150 * (i - 1) < L
    BY <1>4
  <2> QED
    BY <1>1, <1>3, <2>1, <2>2, <2>3, SMT DEF FragmentSize
<1> QED
  BY <1>3, <1>6, <1>7 DEF L, n

(* Each chunk is the slice between two ends.                               *)
LEMMA ChunkParts ==
    ASSUME NEW packet \in Seq(Byte), Len(packet) > 0
    PROVE  /\ Chunks(packet) =
                [i \in 1..Count(packet) |->
                   SubSeq(packet, End(packet, i - 1) + 1, End(packet, i))]
           /\ DOMAIN Chunks(packet) = 1..Count(packet)
           /\ Len(Chunks(packet)) = Count(packet)
<1> DEFINE n == Count(packet)
<1>1. n \in Nat \ {0}
  BY ChunkEnds
<1>2. Chunks(packet) =
        [i \in 1..n |-> Slice(packet, (i - 1) * FragmentSize + 1, FragmentSize)]
  BY Zenon DEF Chunks, Count
<1>3. ASSUME NEW i \in 1..n
      PROVE  Slice(packet, (i - 1) * FragmentSize + 1, FragmentSize)
             = SubSeq(packet, End(packet, i - 1) + 1, End(packet, i))
  <2> DEFINE a == (i - 1) * FragmentSize + 1
             b == a + FragmentSize - 1
             L == Len(packet)
  <2>0. i \in Nat \ {0}
    BY <1>1
  <2>1. /\ End(packet, i) \in Nat /\ End(packet, i - 1) \in Nat
        /\ End(packet, i - 1) < End(packet, i)
        /\ End(packet, i) <= L
    BY ChunkEnds
  <2>2. L \in Nat
    OBVIOUS
  <2> HIDE DEF n
  <2>3. a = 150 * (i - 1) + 1 /\ b = 150 * i
    BY <2>0, SMT DEF FragmentSize
  <2>4. End(packet, i) = IF 150 * i <= L THEN 150 * i ELSE L
    BY Zenon DEF End
  <2>5. End(packet, i - 1) = IF 150 * (i - 1) <= L THEN 150 * (i - 1) ELSE L
    BY Zenon DEF End
  <2> HIDE DEF L, a, b
  <2>6. a = End(packet, i - 1) + 1
    BY <2>0, <2>1, <2>2, <2>3, <2>4, <2>5, SMT
  <2>7. Min({L, b}) = End(packet, i)
    BY <2>0, <2>2, <2>3, <2>4, SMT DEF Min
  <2> QED
    BY <2>6, <2>7, Zenon DEF Slice, L, a, b
<1>4. Chunks(packet) =
        [i \in 1..n |-> SubSeq(packet, End(packet, i - 1) + 1, End(packet, i))]
  BY <1>2, <1>3, Zenon
<1> HIDE DEF n
<1>5. DOMAIN Chunks(packet) = 1..n
  BY <1>4, Zenon
<1>6. Len(Chunks(packet)) = n
  BY <1>1, <1>5
<1> QED
  BY <1>4, <1>5, <1>6, Zenon DEF n

(* A chunk has 1 to 150 bytes.                                             *)
LEMMA ChunkSeq ==
    ASSUME NEW packet \in Seq(Byte), Len(packet) > 0, NEW i \in 1..Count(packet)
    PROVE  /\ Chunks(packet)[i] \in Seq(Byte)
           /\ Len(Chunks(packet)[i]) \in 1..FragmentSize
<1> DEFINE a == End(packet, i - 1) + 1
           b == End(packet, i)
           c == SubSeq(packet, a, b)
<1>1. /\ a \in Nat \ {0} /\ b \in Nat /\ a <= b /\ b <= Len(packet)
      /\ b - a + 1 <= FragmentSize
  BY ChunkEnds, SMT DEF FragmentSize
<1>2. Chunks(packet)[i] = c
  BY ChunkParts, Zenon
<1> HIDE DEF a, b
<1>3. \A j \in a..b : packet[j] \in Byte
  BY <1>1
<1>4. c \in Seq(Byte) /\ Len(c) = IF a <= b THEN b - a + 1 ELSE 0
  BY <1>1, <1>3, SubSeqProperties
<1> HIDE DEF c
<1>5. Len(c) \in 1..FragmentSize
  BY <1>1, <1>4, SMT DEF FragmentSize
<1> QED
  BY <1>2, <1>4, <1>5, Zenon

(* The chunks joined are the packet.  Induction over the chunks: the first *)
(* index at which the joined chunks were not a prefix of it would follow   *)
(* one at which they are.                                                  *)
THEOREM ChunksJoin ==
    ASSUME NEW packet \in Seq(Byte), Len(packet) > 0
    PROVE  FlattenSeq(Chunks(packet)) = packet
<1> DEFINE n == Count(packet)
           s == Chunks(packet)
           g == [i \in 1..n |-> SubSeq(packet, 1, End(packet, i))]
<1>1. n \in Nat \ {0} /\ Len(s) = n
  BY ChunkEnds, ChunkParts, Zenon
<1>2. ASSUME NEW i \in 1..n, i # 1
      PROVE  g[i] = g[i - 1] \o s[i]
  <2>1. i - 1 \in 1..n
    BY <1>1, <1>2, SMT
  <2> DEFINE k == End(packet, i - 1)
             e == End(packet, i)
  <2>2. k \in 1..Len(packet) /\ e \in Nat /\ k < e /\ e <= Len(packet)
    <3>1. i - 1 - 1 \in Nat
      BY <1>1, <1>2, SMT
    <3>2. k \in Nat /\ e \in Nat /\ k < e /\ e <= Len(packet)
      BY ChunkEnds
    <3>3. 0 < k
      <4> DEFINE j == i - 1
      <4>1. j \in 1..n
        BY <2>1
      <4> HIDE DEF j
      <4>2. End(packet, j - 1) \in Nat /\ End(packet, j - 1) < End(packet, j)
            /\ End(packet, j) \in Nat
        BY <4>1, ChunkEnds
      <4> QED
        BY <4>2, SMT DEF j
    <3> QED
      BY <3>2, <3>3
  <2>3. g[i] = SubSeq(packet, 1, e) /\ g[i - 1] = SubSeq(packet, 1, k)
    BY <2>1, Zenon
  <2>4. s[i] = SubSeq(packet, k + 1, e)
    BY ChunkParts, Zenon
  <2> HIDE DEF k, e
  <2>5. SubSeq(packet, 1, k) \o SubSeq(packet, k + 1, e) = SubSeq(packet, 1, e)
    BY <2>2, ConcatAdjacentSubSeq
  <2> QED
    BY <2>3, <2>4, <2>5, Zenon
<1>3. g[1] = s[1]
  <2>1. 1 \in 1..n /\ 1 - 1 = 0 /\ 0 + 1 = 1
    BY <1>1
  <2>2. g[1] = SubSeq(packet, 1, End(packet, 1))
    BY <2>1, Zenon
  <2>3. s[1] = SubSeq(packet, End(packet, 1 - 1) + 1, End(packet, 1))
    BY <2>1, ChunkParts, Zenon
  <2>4. End(packet, 0) = 0
    BY ChunkEnds
  <2> QED
    BY <2>1, <2>2, <2>3, <2>4
<1>4. g[n] = packet
  <2>1. g[n] = SubSeq(packet, 1, Len(packet))
    BY <1>1, ChunkEnds
  <2> QED
    BY <2>1, SubSeqFull
<1>5. g = [i \in 1..n |-> g[i]]
  BY Zenon
<1> HIDE DEF g, n, s
<1> DEFINE F(f) == f = [i \in 1..Len(s) |-> IF i = 1 THEN s[i] ELSE f[i - 1] \o s[i]]
           f == CHOOSE x : F(x)
<1>6. F(g)
  <2>1. \A i \in 1..n : g[i] = IF i = 1 THEN s[i] ELSE g[i - 1] \o s[i]
    BY <1>2, <1>3, Zenon
  <2> QED
    BY <1>1, <1>5, <2>1
<1>7. F(f)
  BY <1>6
<1>8. FlattenSeq(s) = f[n]
  BY <1>1 DEF FlattenSeq
<1> HIDE DEF f
<1>9. \A i \in 1..n : f[i] = IF i = 1 THEN s[i] ELSE f[i - 1] \o s[i]
  BY <1>1, <1>7
<1>10. \A i \in 1..n : f[i] = g[i]
  <2> DEFINE T == {i \in 1..n : f[i] # g[i]}
  <2>1. SUFFICES ASSUME T # {} PROVE FALSE
    OBVIOUS
  <2>2. T \in SUBSET Nat
    BY <1>1
  <2>3. PICK i \in T : \A j \in T : i <= j
    BY <2>1, <2>2, LeastNat
  <2>4. i \in 1..n /\ f[i] # g[i]
    BY <2>3
  <2>5. CASE i = 1
    BY <2>4, <2>5, <1>3, <1>9
  <2>6. CASE i # 1
    <3>1. i - 1 \in 1..n /\ ~(i <= i - 1)
      BY <1>1, <2>4, <2>6
    <3>2. f[i - 1] = g[i - 1]
      BY <2>3, <3>1
    <3> QED
      BY <2>4, <2>6, <3>2, <1>2, <1>9
  <2> QED
    BY <2>5, <2>6
<1> QED
  BY <1>1, <1>4, <1>8, <1>10 DEF s

----------------------------------------------------------------------------
(* Chat messages                                                           *)

(* A field with its length in front is one byte longer.                    *)
LEMMA ShortSeq ==
    ASSUME NEW s \in Seq(Byte), Len(s) \in Byte
    PROVE  Short(s) \in Seq(Byte) /\ Len(Short(s)) = 1 + Len(s)
<1>1. <<Len(s)>> \in Seq(Byte) /\ Len(<<Len(s)>>) = 1
  BY ByteSeq1
<1> QED
  BY <1>1, Joins DEF Short

(* A field with its length in front can be cut out again.                  *)
LEMMA ShortRead ==
    ASSUME NEW s \in Seq(Byte), Len(s) \in Byte, NEW d \in Seq(Byte),
           NEW k \in Nat \ {0}, Holds(d, k, Short(s))
    PROVE  d[k] = Len(s) /\ Slice(d, k + 1, Len(s)) = s
<1> DEFINE l == <<Len(s)>>
<1>1. l \in Seq(Byte) /\ Len(l) = 1
  BY ByteSeq1
<1>2. Holds(d, k, l \o s)
  BY Zenon DEF Short
<1>3. Holds(d, k, l) /\ Holds(d, k + Len(l), s)
  <2> HIDE DEF l
  <2> QED
    BY <1>1, <1>2, Follows
<1>4. d[k] = Len(s)
  BY <1>3, HoldsByte
<1>5. Holds(d, k + 1, s)
  <2> HIDE DEF l
  <2>1. k + Len(l) = k + 1
    BY <1>1
  <2> QED
    BY <1>3, <2>1, Zenon
<1>6. k + 1 \in Nat \ {0}
  OBVIOUS
<1>7. Slice(d, k + 1, Len(s)) = s
  BY <1>5, <1>6, Cut, Zenon
<1> QED
  BY <1>4, <1>7, Zenon

(* The flag byte of a chat message                                         *)
MessageFlags(m, peerId) ==
    Bit(2, m.private) + Bit(16, peerId # <<>>) + Bit(64, m.channel # <<>>)
      + Bit(128, m.encrypted)

(* Each flag of a chat message can be told from the byte.                  *)
LEMMA MessageBits ==
    ASSUME NEW m, NEW peerId, m.private \in BOOLEAN, m.encrypted \in BOOLEAN
    PROVE  /\ MessageFlags(m, peerId) \in Byte
           /\ HasBit(MessageFlags(m, peerId), 16) <=> peerId # <<>>
           /\ HasBit(MessageFlags(m, peerId), 64) <=> m.channel # <<>>
           /\ HasBit(MessageFlags(m, peerId), 128) = m.encrypted
<1> DEFINE f == MessageFlags(m, peerId)
           a == m.private
           b == peerId # <<>>
           c == m.channel # <<>>
           e == m.encrypted
<1>0. a \in BOOLEAN /\ b \in BOOLEAN /\ c \in BOOLEAN /\ e \in BOOLEAN
  BY Zenon
<1>a. f = Bit(2, a) + Bit(16, b) + Bit(64, c) + Bit(128, e)
  BY Zenon DEF MessageFlags
<1> HIDE DEF a, b, c, e, f
<1>1. PICK p \in {0, 2} : p = Bit(2, a)
  BY <1>0 DEF Bit
<1>2. PICK q \in {0, 16} : q = Bit(16, b) /\ (q = 16 <=> b)
  BY <1>0 DEF Bit
<1>3. PICK r \in {0, 64} : r = Bit(64, c) /\ (r = 64 <=> c)
  BY <1>0 DEF Bit
<1>4. PICK s \in {0, 128} : s = Bit(128, e) /\ (s = 128 <=> e)
  BY <1>0 DEF Bit
<1>5. f = p + q + r + s
  BY <1>a, <1>1, <1>2, <1>3, <1>4, Zenon
<1>6. /\ p + q + r + s \in 0..255
      /\ ((p + q + r + s) \div 16) % 2 = 1 <=> q = 16
      /\ ((p + q + r + s) \div 64) % 2 = 1 <=> r = 64
      /\ ((p + q + r + s) \div 128) % 2 = 1 <=> s = 128
  OBVIOUS
<1>7. /\ f \in Byte
      /\ HasBit(f, 16) <=> b
      /\ HasBit(f, 64) <=> c
      /\ HasBit(f, 128) <=> e
  BY <1>2, <1>3, <1>4, <1>5, <1>6 DEF Byte, HasBit
<1> QED
  BY <1>0, <1>7, Zenon DEF a, b, c, e, f, HasBit

(* A number below 256 is a byte.                                           *)
LEMMA SmallByte ==
    ASSUME NEW n \in Nat, n < 256
    PROVE  n \in Byte
BY DEF Byte

(* The length of a payload that can be packed is read back.                *)
LEMMA U16Length ==
    ASSUME NEW s \in Seq(Byte), CanCreate(s)
    PROVE  /\ U16(Len(s)) \in Seq(Byte) /\ Len(U16(Len(s))) = 2
           /\ \A d \in Seq(Byte), k \in Nat \ {0} :
                Holds(d, k, U16(Len(s))) => U16At(d, k) = Len(s)
<1>1. Len(s) \in Nat /\ Len(s) < 65536
  BY SMT DEF CanCreate
<1> QED
  BY <1>1, U16Seq, U16Read, SMT

(* What parse_bitchat_message_payload gives for message m                  *)
ParsedMessage(m) ==
    [id |-> m.id, content |-> IF m.encrypted THEN <<>> ELSE Text(m),
     channel |-> m.channel, encrypted |-> m.encrypted,
     cipher |-> IF m.encrypted THEN Text(m) ELSE <<>>]

(* Types and lengths of the fields of a chat message                       *)
LEMMA MessageFacts ==
    ASSUME NEW m \in ChatMessage, CanCreateMessage(m)
    PROVE  /\ m.id \in Seq(Byte) /\ Len(m.id) \in Byte
           /\ m.nickname \in Seq(Byte) /\ Len(m.nickname) \in Byte
           /\ m.channel \in Seq(Byte) /\ Len(m.channel) \in Byte
           /\ Text(m) \in Seq(Byte) /\ CanCreate(Text(m))
           /\ m.private \in BOOLEAN /\ m.encrypted \in BOOLEAN
<1>1. /\ m.id \in [1..36 -> Byte] /\ m.nickname \in Seq(Byte)
      /\ m.channel \in Seq(Byte) /\ m.content \in Seq(Byte) /\ m.cipher \in Seq(Byte)
      /\ m.private \in BOOLEAN /\ m.encrypted \in BOOLEAN
  BY DEF ChatMessage
<1>2. m.id \in Seq(Byte) /\ Len(m.id) = 36
  BY <1>1, IdSeq
<1>3. Text(m) \in Seq(Byte)
  BY <1>1, Zenon DEF Text
<1>4. CanCreate(Text(m)) /\ Len(m.nickname) < 256 /\ Len(m.channel) < 256
  BY SMT DEF CanCreateMessage, CanCreate
<1>5. Len(m.id) \in Byte /\ Len(m.nickname) \in Byte /\ Len(m.channel) \in Byte
  <2>1. Len(m.nickname) \in Nat /\ Len(m.channel) \in Nat
    BY <1>1, LenProperties
  <2>2. 36 \in Nat /\ 36 < 256
    OBVIOUS
  <2> QED
    BY <1>2, <1>4, <2>1, <2>2, SmallByte, SMT
<1>6. CanCreate(Text(m))
  BY <1>4, SMT
<1> QED
  BY <1>1, <1>2, <1>3, <1>5, <1>6, Zenon

(* The optional field: its length in front, or nothing                     *)
Optional(s) == IF s = <<>> THEN <<>> ELSE Short(s)

(* A field left out when empty is still a field.                           *)
LEMMA OptionalSeq ==
    ASSUME NEW s \in Seq(Byte), Len(s) \in Byte
    PROVE  /\ Optional(s) \in Seq(Byte)
           /\ Len(Optional(s)) = IF s = <<>> THEN 0 ELSE 1 + Len(s)
           /\ Len(Optional(s)) \in Nat
<1>1. CASE s = <<>>
  BY <1>1 DEF Optional
<1>2. CASE s # <<>>
  <2>1. Optional(s) = Short(s)
    BY <1>2, Zenon DEF Optional
  <2> QED
    BY <1>2, <2>1, ShortSeq
<1> QED
  BY <1>1, <1>2, Zenon

(* create_bitchat_message_payload_full puts its eight fields one after the *)
(* other.                                                                  *)
LEMMA MessageLaid ==
    ASSUME NEW m \in ChatMessage, CanCreateMessage(m),
           NEW peerId \in Seq(Byte), Len(peerId) \in Byte
    PROVE  LET d == MessagePayload(m, peerId)
               f == <<MessageFlags(m, peerId)>>
           IN  /\ d \in Seq(Byte)
               /\ Laid8(d, f, Timestamp, Short(m.id), Short(m.nickname),
                        U16(Len(Text(m))), Text(m), Optional(peerId), Optional(m.channel))
<1> DEFINE d == MessagePayload(m, peerId)
           f == <<MessageFlags(m, peerId)>>
           t == Timestamp
           a == Short(m.id)
           b == Short(m.nickname)
           u == U16(Len(Text(m)))
           x == Text(m)
           y == Optional(peerId)
           z == Optional(m.channel)
<1>1. d = f \o t \o a \o b \o u \o x \o y \o z
  BY Zenon DEF MessagePayload, MessageFlags, Optional
<1>2. f \in Seq(Byte)
  BY MessageFacts, MessageBits, ByteSeq1
<1>3. a \in Seq(Byte) /\ b \in Seq(Byte)
  BY MessageFacts, ShortSeq, Zenon
<1>4. u \in Seq(Byte) /\ x \in Seq(Byte)
  BY MessageFacts, U16Length, Zenon
<1>5. y \in Seq(Byte) /\ z \in Seq(Byte)
  BY MessageFacts, OptionalSeq, Zenon
<1>6. t \in Seq(Byte)
  BY TimestampSeq
<1> HIDE DEF d, f, t, a, b, u, x, y, z
<1>7. d \in Seq(Byte)
  BY <1>1, <1>2, <1>3, <1>4, <1>5, <1>6, Joins8, SMT
<1>8. Holds(d, 1, f \o t \o a \o b \o u \o x \o y \o z)
  BY <1>1, <1>7, HoldsWhole, Zenon
<1>9. Laid8(d, f, t, a, b, u, x, y, z)
  BY <1>2, <1>3, <1>4, <1>5, <1>6, <1>7, <1>8, Fields8
<1> QED
  BY <1>7, <1>9, Zenon DEF d, f, t, a, b, u, x, y, z

(* parse_bitchat_message_payload undoes                                    *)
(* create_bitchat_message_payload_full.                                    *)
THEOREM MessageRoundTrip ==
    ASSUME NEW m \in ChatMessage, CanCreateMessage(m),
           NEW peerId \in Seq(Byte), Len(peerId) \in Byte
    PROVE  ParseMessagePayload(MessagePayload(m, peerId)) = ParsedMessage(m)
<1> DEFINE d == MessagePayload(m, peerId)
           p == peerId # <<>>
           c == m.channel # <<>>
           g == MessageFlags(m, peerId)
           f == <<g>>
           x == Text(m)
           n1 == Len(m.id)
           n2 == Len(m.nickname)
           n3 == Len(x)
           n4 == Len(peerId)
           k4 == 10 + 1 + n1
           k5 == k4 + 1 + n2
           k6 == k5 + 2
           k7 == k6 + n3
           k8 == IF p THEN k7 + 1 + n4 ELSE k7
<1>1. d \in Seq(Byte)
      /\ Laid8(d, f, Timestamp, Short(m.id), Short(m.nickname), U16(Len(Text(m))),
               Text(m), Optional(peerId), Optional(m.channel))
  BY MessageLaid, Zenon
<1>2. /\ g \in Byte /\ (HasBit(g, 16) <=> p) /\ (HasBit(g, 64) <=> c)
      /\ HasBit(g, 128) = m.encrypted
  <2>1. m.private \in BOOLEAN /\ m.encrypted \in BOOLEAN
    BY MessageFacts
  <2>2. /\ MessageFlags(m, peerId) \in Byte
        /\ HasBit(MessageFlags(m, peerId), 16) <=> peerId # <<>>
        /\ HasBit(MessageFlags(m, peerId), 64) <=> m.channel # <<>>
        /\ HasBit(MessageFlags(m, peerId), 128) = m.encrypted
    BY <2>1, MessageBits
  <2> QED
    BY <2>2
<1>3. /\ m.id \in Seq(Byte) /\ Len(m.id) \in Byte
      /\ m.nickname \in Seq(Byte) /\ Len(m.nickname) \in Byte
      /\ m.channel \in Seq(Byte) /\ Len(m.channel) \in Byte
      /\ x \in Seq(Byte) /\ CanCreate(x)
  BY MessageFacts, Zenon
<1>4. n1 \in Nat /\ n2 \in Nat /\ n3 \in Nat /\ n4 \in Nat
  BY <1>3
<1>5. /\ Len(f) = 1 /\ Len(Timestamp) = 8 /\ Len(Short(m.id)) = 1 + Len(m.id)
      /\ Len(Short(m.nickname)) = 1 + Len(m.nickname) /\ Len(U16(Len(x))) = 2
  <2>1. Len(f) = 1
    BY <1>2
  <2>2. Len(Short(m.id)) = 1 + Len(m.id) /\ Len(Short(m.nickname)) = 1 + Len(m.nickname)
    BY <1>3, ShortSeq, Zenon
  <2>3. Len(U16(Len(x))) = 2
    BY <1>3, U16Length, Zenon
  <2> QED
    BY <2>1, <2>2, <2>3, TimestampSeq, Zenon
<1>6. Len(Optional(peerId)) = IF p THEN 1 + Len(peerId) ELSE 0
  BY OptionalSeq, Zenon
<1>7. /\ Holds(d, 1, f) /\ Holds(d, 10, Short(m.id)) /\ Holds(d, k4, Short(m.nickname))
      /\ Holds(d, k5, U16(Len(x))) /\ Holds(d, k6, x) /\ Holds(d, k7, Optional(peerId))
      /\ Holds(d, k8, Optional(m.channel))
  <2> DEFINE l1 == Len(f)  l2 == Len(Timestamp)  l3 == Len(Short(m.id))
             l4 == Len(Short(m.nickname))  l5 == Len(U16(Len(x)))  l6 == Len(x)
             l7 == Len(Optional(peerId))
  <2>1. /\ Holds(d, 1, f) /\ Holds(d, 1 + l1 + l2, Short(m.id))
        /\ Holds(d, 1 + l1 + l2 + l3, Short(m.nickname))
        /\ Holds(d, 1 + l1 + l2 + l3 + l4, U16(Len(x)))
        /\ Holds(d, 1 + l1 + l2 + l3 + l4 + l5, x)
        /\ Holds(d, 1 + l1 + l2 + l3 + l4 + l5 + l6, Optional(peerId))
        /\ Holds(d, 1 + l1 + l2 + l3 + l4 + l5 + l6 + l7, Optional(m.channel))
    BY <1>1, Zenon DEF Laid8
  <2>2. /\ 1 + l1 + l2 = 10
        /\ 1 + l1 + l2 + l3 = k4
        /\ 1 + l1 + l2 + l3 + l4 = k5
        /\ 1 + l1 + l2 + l3 + l4 + l5 = k6
        /\ 1 + l1 + l2 + l3 + l4 + l5 + l6 = k7
        /\ 1 + l1 + l2 + l3 + l4 + l5 + l6 + l7 = k8
    <3>1. l1 = 1 /\ l2 = 8 /\ l3 = 1 + n1 /\ l4 = 1 + n2 /\ l5 = 2 /\ l6 = n3
          /\ l7 = IF p THEN 1 + n4 ELSE 0
      BY <1>5, <1>6, Zenon
    <3> HIDE DEF l1, l2, l3, l4, l5, l6, l7, p, n1, n2, n3, n4
    <3> QED
      BY <1>4, <3>1
  <2> HIDE DEF l1, l2, l3, l4, l5, l6, l7, k4, k5, k6, k7, k8, p, d
  <2> QED
    BY <2>1, <2>2, Zenon
<1>8. /\ k4 \in Nat \ {0} /\ k5 \in Nat \ {0} /\ k6 \in Nat \ {0} /\ k7 \in Nat \ {0}
      /\ k8 \in Nat \ {0} /\ 10 \in Nat \ {0} /\ 1 \in Nat \ {0}
  <2> HIDE DEF n1, n2, n3, n4, p
  <2> QED
    BY <1>4
<1> HIDE DEF d, k4, k5, k6, k7, k8, p, c, g, x
<1>9. d[1] = g
  BY <1>1, <1>2, <1>7, <1>8, HoldsByte, Zenon
<1>10. d[10] = Len(m.id) /\ Slice(d, 10 + 1, Len(m.id)) = m.id
  BY <1>1, <1>3, <1>7, <1>8, ShortRead, Zenon
<1>11. d[k4] = Len(m.nickname)
  BY <1>1, <1>3, <1>7, <1>8, ShortRead, Zenon
<1>12. U16At(d, k5) = Len(x)
  BY <1>1, <1>3, <1>7, <1>8, U16Length, Zenon
<1>13. Slice(d, k6, Len(x)) = x
  BY <1>1, <1>3, <1>7, <1>8, Cut, Zenon
<1>14. p => d[k7] = Len(peerId)
  <2>1. p => Optional(peerId) = Short(peerId)
    BY Zenon DEF Optional, p
  <2> QED
    BY <2>1, <1>1, <1>7, <1>8, ShortRead, Zenon
<1>15. c => d[k8] = Len(m.channel) /\ Slice(d, k8 + 1, Len(m.channel)) = m.channel
  <2>1. c => Optional(m.channel) = Short(m.channel)
    BY Zenon DEF Optional, c
  <2> QED
    BY <2>1, <1>1, <1>3, <1>7, <1>8, ShortRead, Zenon
<1>16. ~c => m.channel = <<>>
  BY DEF c
<1> DEFINE pos == IF HasBit(d[1], 16) THEN k7 + 1 + d[k7] ELSE k7
<1>17. pos = k8
  BY <1>2, <1>9, <1>14, Zenon DEF k8, n1, n2, n3, n4
<1>18. ParseMessagePayload(d)
       = [id |-> Slice(d, 10 + 1, d[10]),
          content |-> IF HasBit(d[1], 128) THEN <<>> ELSE Slice(d, k6, U16At(d, k5)),
          channel |-> IF HasBit(d[1], 64) THEN Slice(d, k8 + 1, d[k8]) ELSE <<>>,
          encrypted |-> HasBit(d[1], 128),
          cipher |-> IF HasBit(d[1], 128) THEN Slice(d, k6, U16At(d, k5)) ELSE <<>>]
  <2> DEFINE nickAt == 10 + 1 + d[10]
             textAt == nickAt + 1 + d[nickAt]
             text == Slice(d, textAt + 2, U16At(d, textAt))
             peerAt == textAt + 2 + U16At(d, textAt)
             channelAt == IF HasBit(d[1], 16) THEN peerAt + 1 + d[peerAt] ELSE peerAt
  <2>1. nickAt = k4
    BY <1>10, Zenon DEF k4, n1, n2, n3, n4
  <2>2. textAt = k5
    BY <2>1, <1>11, Zenon DEF k5, n1, n2, n3, n4
  <2>3. text = Slice(d, k6, U16At(d, k5))
    BY <2>2, Zenon DEF k6
  <2>4. peerAt = k7
    BY <2>2, <1>12, Zenon DEF k6, k7, n3
  <2>5. channelAt = k8
    BY <2>4, <1>17, Zenon
  <2>6. ParseMessagePayload(d)
        = [id |-> Slice(d, 10 + 1, d[10]),
           content |-> IF HasBit(d[1], 128) THEN <<>> ELSE text,
           channel |-> IF HasBit(d[1], 64) THEN Slice(d, channelAt + 1, d[channelAt])
                       ELSE <<>>,
           encrypted |-> HasBit(d[1], 128),
           cipher |-> IF HasBit(d[1], 128) THEN text ELSE <<>>]
    BY Zenon DEF ParseMessagePayload
  <2> HIDE DEF text, channelAt
  <2> QED
    BY <2>3, <2>5, <2>6, Zenon
<1>19. HasBit(d[1], 128) = m.encrypted
  BY <1>2, <1>9, Zenon
<1>20. (IF HasBit(d[1], 64) THEN Slice(d, k8 + 1, d[k8]) ELSE <<>>) = m.channel
  BY <1>2, <1>9, <1>15, <1>16, Zenon
<1>21. Slice(d, 10 + 1, d[10]) = m.id /\ Slice(d, k6, U16At(d, k5)) = x
  BY <1>10, <1>12, <1>13, Zenon
<1>22. ParseMessagePayload(d)
       = [id |-> m.id, content |-> IF m.encrypted THEN <<>> ELSE x,
          channel |-> m.channel, encrypted |-> m.encrypted,
          cipher |-> IF m.encrypted THEN x ELSE <<>>]
  <2> DEFINE e == HasBit(d[1], 128)
             y == Slice(d, k6, U16At(d, k5))
             i == Slice(d, 10 + 1, d[10])
             z == IF HasBit(d[1], 64) THEN Slice(d, k8 + 1, d[k8]) ELSE <<>>
  <2>1. ParseMessagePayload(d)
       = [id |-> i, content |-> IF e THEN <<>> ELSE y, channel |-> z, encrypted |-> e,
          cipher |-> IF e THEN y ELSE <<>>]
    BY <1>18, Zenon
  <2>2. e = m.encrypted /\ y = x /\ i = m.id /\ z = m.channel
    BY <1>19, <1>20, <1>21, Zenon
  <2> HIDE DEF e, y, i, z
  <2> QED
    BY <2>1, <2>2
<1>23. ParseMessagePayload(d) = ParsedMessage(m)
  BY <1>22, Zenon DEF ParsedMessage, x
<1> QED
  BY <1>23, Zenon DEF d

----------------------------------------------------------------------------
(* Identity announcements                                                  *)

(* The previous peer id as a field, empty for None                         *)
Previous(a) == IF a.previous = {} THEN <<>> ELSE Padded(CHOOSE id \in a.previous : TRUE)

(* Types and lengths of the fields of an announcement                      *)
LEMMA IdentityFacts ==
    ASSUME NEW a \in Announcement, CanEncodeIdentity(a)
    PROVE  /\ a.peerId \in Id
           /\ a.publicKey \in Seq(Byte) /\ Len(a.publicKey) = 32 /\ 32 \in Byte
           /\ a.signingKey \in Seq(Byte) /\ Len(a.signingKey) = 32
           /\ a.nickname \in Seq(Byte) /\ Len(a.nickname) \in Byte
           /\ a.signature \in Seq(Byte) /\ Len(a.signature) = 64 /\ 64 \in Byte
           /\ a.previous # {} => Previous(a) \in Id /\ a.previous = {Previous(a)}
           /\ a = [peerId |-> a.peerId, publicKey |-> a.publicKey,
                   signingKey |-> a.signingKey, nickname |-> a.nickname,
                   signature |-> a.signature, previous |-> a.previous]
<1>1. /\ a.peerId \in Id /\ a.publicKey \in [1..32 -> Byte] /\ a.signingKey \in [1..32 -> Byte]
      /\ a.nickname \in Seq(Byte) /\ a.signature \in [1..64 -> Byte]
      /\ a.previous \in SUBSET Id /\ \A i, j \in a.previous : i = j
      /\ a = [peerId |-> a.peerId, publicKey |-> a.publicKey,
              signingKey |-> a.signingKey, nickname |-> a.nickname,
              signature |-> a.signature, previous |-> a.previous]
  BY DEF Announcement
<1>2. /\ a.publicKey \in Seq(Byte) /\ Len(a.publicKey) = 32
      /\ a.signingKey \in Seq(Byte) /\ Len(a.signingKey) = 32
  BY <1>1, IdSeq
<1>3. a.signature \in Seq(Byte) /\ Len(a.signature) = 64
  BY <1>1, IdSeq
<1>4. Len(a.nickname) \in Byte
  <2>1. Len(a.nickname) \in Nat
    BY <1>1, LenProperties
  <2>2. Len(a.nickname) < 256
    BY SMT DEF CanEncodeIdentity
  <2> QED
    BY <2>1, <2>2, SmallByte, SMT
<1>5. 32 \in Byte /\ 64 \in Byte
  BY DEF Byte
<1>6. ASSUME a.previous # {}
      PROVE  Previous(a) \in Id /\ a.previous = {Previous(a)}
  <2>1. PICK id \in a.previous : TRUE
    BY <1>6
  <2>2. a.previous = {id} /\ id \in Id
    BY <1>1, <2>1, Zenon
  <2>3. (CHOOSE i \in a.previous : TRUE) = id
    BY <2>2, Zenon
  <2>4. Previous(a) = Padded(id)
    BY <1>6, <2>3, Zenon DEF Previous
  <2> QED
    BY <2>2, <2>4, PaddedId, Zenon
<1> QED
  BY <1>1, <1>2, <1>3, <1>4, <1>5, <1>6, Zenon

(* The flag byte of an announcement                                        *)
IdentityFlags(a) == Bit(1, a.previous # {})

(* The flag of an announcement can be told from the byte.                  *)
LEMMA IdentityBits ==
    ASSUME NEW a
    PROVE  IdentityFlags(a) \in Byte /\ (HasBit(IdentityFlags(a), 1) <=> a.previous # {})
BY DEF IdentityFlags, Bit, HasBit, Byte

(* The previous id is eight bytes or nothing.                              *)
LEMMA PreviousSeq ==
    ASSUME NEW a \in Announcement, CanEncodeIdentity(a)
    PROVE  /\ Previous(a) \in Seq(Byte)
           /\ Len(Previous(a)) = IF a.previous = {} THEN 0 ELSE IdSize
<1>1. CASE a.previous = {}
  BY <1>1 DEF Previous
<1>2. CASE a.previous # {}
  <2>1. Previous(a) \in Id
    BY <1>2, IdentityFacts
  <2> QED
    BY <1>2, <2>1, PaddedId, Zenon
<1> QED
  BY <1>1, <1>2, Zenon

(* An announcement puts its fields one after the other, and fits a packet. *)
LEMMA IdentityLaid ==
    ASSUME NEW a \in Announcement, CanEncodeIdentity(a)
    PROVE  /\ EncodeIdentity(a) \in Seq(Byte)
           /\ Laid8(EncodeIdentity(a), <<IdentityFlags(a)>>, a.peerId, Short(a.publicKey),
                    Short(a.signingKey), Short(a.nickname), Timestamp, Previous(a),
                    Short(a.signature))
           /\ CanCreate(EncodeIdentity(a))
<1> DEFINE d == EncodeIdentity(a)
           f == <<IdentityFlags(a)>>
           p == a.peerId
           k == Short(a.publicKey)
           g == Short(a.signingKey)
           n == Short(a.nickname)
           t == Timestamp
           v == Previous(a)
           s == Short(a.signature)
<1>1. d = f \o p \o k \o g \o n \o t \o v \o s
  <2>1. Padded(a.peerId) = a.peerId
    BY IdentityFacts, PaddedId, Zenon
  <2> QED
    BY <2>1, Zenon DEF EncodeIdentity, IdentityFlags, Previous
<1>2. f \in Seq(Byte) /\ Len(f) = 1
  BY IdentityBits, ByteSeq1
<1>3. p \in Seq(Byte) /\ Len(p) = 8
  BY IdentityFacts, PaddedId DEF IdSize
<1>4. /\ k \in Seq(Byte) /\ Len(k) = 1 + 32 /\ g \in Seq(Byte) /\ Len(g) = 1 + 32
      /\ s \in Seq(Byte) /\ Len(s) = 1 + 64
  <2>1. /\ a.publicKey \in Seq(Byte) /\ a.signingKey \in Seq(Byte) /\ a.signature \in Seq(Byte)
        /\ Len(a.publicKey) \in Byte /\ Len(a.signingKey) \in Byte /\ Len(a.signature) \in Byte
    BY IdentityFacts
  <2>2. Len(a.publicKey) = 32 /\ Len(a.signingKey) = 32 /\ Len(a.signature) = 64
    BY IdentityFacts
  <2>3. /\ k \in Seq(Byte) /\ Len(k) = 1 + Len(a.publicKey)
        /\ g \in Seq(Byte) /\ Len(g) = 1 + Len(a.signingKey)
        /\ s \in Seq(Byte) /\ Len(s) = 1 + Len(a.signature)
    BY <2>1, ShortSeq, Zenon
  <2> QED
    BY <2>2, <2>3, Zenon
<1>5. n \in Seq(Byte) /\ Len(n) = 1 + Len(a.nickname)
  BY IdentityFacts, ShortSeq, Zenon
<1>6. t \in Seq(Byte) /\ Len(t) = 8
  BY TimestampSeq
<1>7. v \in Seq(Byte) /\ Len(v) <= 8 /\ Len(v) \in Nat
  <2>1. v \in Seq(Byte) /\ Len(v) = IF a.previous = {} THEN 0 ELSE IdSize
    BY PreviousSeq, Zenon
  <2> HIDE DEF v
  <2>2. Len(v) = 0 \/ Len(v) = 8
    BY <2>1, Zenon DEF IdSize
  <2> QED
    BY <2>1, <2>2
<1>8. Len(a.nickname) \in 0..255
  BY IdentityFacts DEF Byte
<1>9. /\ f \in Seq(Byte) /\ p \in Seq(Byte) /\ k \in Seq(Byte) /\ g \in Seq(Byte)
      /\ n \in Seq(Byte) /\ t \in Seq(Byte) /\ v \in Seq(Byte) /\ s \in Seq(Byte)
  BY <1>2, <1>3, <1>4, <1>5, <1>6, <1>7, Zenon
<1> HIDE DEF d, f, p, k, g, n, t, v, s
<1>10. d \in Seq(Byte) /\ Len(d) = Len(f) + Len(p) + Len(k) + Len(g) + Len(n) + Len(t)
                                    + Len(v) + Len(s)
  BY <1>1, <1>9, Joins8, SMT
<1>11. Len(d) < 65536
  <2> DEFINE l == Len(a.nickname)
             w == Len(v)
  <2>1. l \in 0..255 /\ w \in Nat /\ w <= 8
    BY <1>7, <1>8
  <2>2. Len(d) = 1 + 8 + (1 + 32) + (1 + 32) + (1 + l) + 8 + w + (1 + 64)
    BY <1>2, <1>3, <1>4, <1>5, <1>6, <1>10, Zenon
  <2> HIDE DEF l, w
  <2> QED
    BY <2>1, <2>2, SMT
<1>12. Holds(d, 1, f \o p \o k \o g \o n \o t \o v \o s)
  BY <1>1, <1>10, HoldsWhole, Zenon
<1>13. Laid8(d, f, p, k, g, n, t, v, s)
  <2>1. d \in Seq(Byte)
    BY <1>10
  <2> QED
    BY <1>9, <1>12, <2>1, Fields8
<1>14. CanCreate(d)
  BY <1>11, SMT DEF CanCreate
<1>15. d \in Seq(Byte)
  BY <1>10, Zenon
<1> QED
  BY <1>13, <1>14, <1>15, Zenon DEF d, f, p, k, g, n, t, v, s

(* parse_noise_identity_announcement_binary undoes                         *)
(* encode_noise_identity_announcement_binary.                              *)
THEOREM IdentityRoundTrip ==
    ASSUME NEW a \in Announcement, CanEncodeIdentity(a)
    PROVE  ParseIdentity(EncodeIdentity(a)) = a
<1> DEFINE d == EncodeIdentity(a)
           g == IdentityFlags(a)
           n == Len(a.nickname)
           w == IF a.previous = {} THEN 0 ELSE IdSize
           k3 == 10
           k4 == 10 + 1 + 32
           k5 == k4 + 1 + 32
           k7 == k5 + 1 + n + 8
           k8 == IF a.previous = {} THEN k7 ELSE k7 + IdSize
<1>1. d \in Seq(Byte)
      /\ Laid8(d, <<g>>, a.peerId, Short(a.publicKey), Short(a.signingKey),
               Short(a.nickname), Timestamp, Previous(a), Short(a.signature))
  BY IdentityLaid, Zenon
<1>2. g \in Byte /\ (HasBit(g, 1) <=> a.previous # {})
  BY IdentityBits, Zenon
<1>3. /\ a.peerId \in Id
      /\ a.publicKey \in Seq(Byte) /\ Len(a.publicKey) = 32 /\ Len(a.publicKey) \in Byte
      /\ a.signingKey \in Seq(Byte) /\ Len(a.signingKey) = 32 /\ Len(a.signingKey) \in Byte
      /\ a.nickname \in Seq(Byte) /\ n \in Byte
      /\ a.signature \in Seq(Byte) /\ Len(a.signature) = 64 /\ Len(a.signature) \in Byte
  BY IdentityFacts, Zenon
<1>4. n \in Nat /\ w \in Nat /\ IdSize \in Nat /\ IdSize = 8
  BY <1>3 DEF Byte, IdSize
<1>5. a.peerId \in Seq(Byte) /\ Len(a.peerId) = IdSize
  BY <1>3, PaddedId
<1>6. /\ Len(<<g>>) = 1 /\ Len(Short(a.publicKey)) = 1 + 32
      /\ Len(Short(a.signingKey)) = 1 + 32 /\ Len(Short(a.nickname)) = 1 + n
      /\ Len(Previous(a)) = w /\ Previous(a) \in Seq(Byte)
  <2>1. Len(<<g>>) = 1
    OBVIOUS
  <2>2. /\ Len(Short(a.publicKey)) = 1 + Len(a.publicKey)
        /\ Len(Short(a.signingKey)) = 1 + Len(a.signingKey)
        /\ Len(Short(a.nickname)) = 1 + n
    BY <1>3, ShortSeq, Zenon
  <2> QED
    BY <1>3, <2>1, <2>2, PreviousSeq, Zenon
<1>7. /\ Holds(d, 1, <<g>>) /\ Holds(d, 2, a.peerId) /\ Holds(d, k3, Short(a.publicKey))
      /\ Holds(d, k4, Short(a.signingKey)) /\ Holds(d, k5, Short(a.nickname))
      /\ Holds(d, k7, Previous(a)) /\ Holds(d, k8, Short(a.signature))
  <2> DEFINE l1 == Len(<<g>>)  l2 == Len(a.peerId)  l3 == Len(Short(a.publicKey))
             l4 == Len(Short(a.signingKey))  l5 == Len(Short(a.nickname))
             l6 == Len(Timestamp)  l7 == Len(Previous(a))
  <2>1. /\ Holds(d, 1, <<g>>) /\ Holds(d, 1 + l1, a.peerId)
        /\ Holds(d, 1 + l1 + l2, Short(a.publicKey))
        /\ Holds(d, 1 + l1 + l2 + l3, Short(a.signingKey))
        /\ Holds(d, 1 + l1 + l2 + l3 + l4, Short(a.nickname))
        /\ Holds(d, 1 + l1 + l2 + l3 + l4 + l5 + l6, Previous(a))
        /\ Holds(d, 1 + l1 + l2 + l3 + l4 + l5 + l6 + l7, Short(a.signature))
    BY <1>1, Zenon DEF Laid8
  <2>2. /\ 1 + l1 = 2 /\ 1 + l1 + l2 = k3
        /\ 1 + l1 + l2 + l3 = k4
        /\ 1 + l1 + l2 + l3 + l4 = k5
        /\ 1 + l1 + l2 + l3 + l4 + l5 + l6 = k7
        /\ 1 + l1 + l2 + l3 + l4 + l5 + l6 + l7 = k8
    <3>1. l1 = 1 /\ l2 = IdSize /\ l3 = 1 + 32 /\ l4 = 1 + 32 /\ l5 = 1 + n /\ l6 = 8
          /\ l7 = w
      BY <1>5, <1>6, TimestampSeq, Zenon
    <3>2. k8 = k7 + w /\ k7 \in Nat
      <4> HIDE DEF n
      <4> QED
        BY <1>4
    <3> HIDE DEF l1, l2, l3, l4, l5, l6, l7, n, k8, w
    <3> QED
      BY <1>4, <3>1, <3>2
  <2> HIDE DEF l1, l2, l3, l4, l5, l6, l7, k3, k4, k5, k7, k8, d, g
  <2> QED
    BY <2>1, <2>2, Zenon
<1>8. /\ k3 \in Nat \ {0} /\ k4 \in Nat \ {0} /\ k5 \in Nat \ {0} /\ k7 \in Nat \ {0}
      /\ k8 \in Nat \ {0} /\ 2 \in Nat \ {0} /\ 1 \in Nat \ {0}
  <2> HIDE DEF n
  <2> QED
    BY <1>4
<1> HIDE DEF d, k4, k5, k7, k8, g, n, w
<1>9. d[1] = g
  BY <1>1, <1>2, <1>7, <1>8, HoldsByte, Zenon
<1>10. SubSeq(d, 2, 9) = a.peerId
  <2>1. SubSeq(d, 2, 2 + Len(a.peerId) - 1) = a.peerId
    BY <1>1, <1>5, <1>7, <1>8, Cut, Zenon
  <2>2. 2 + Len(a.peerId) - 1 = 9
    BY <1>4, <1>5
  <2> QED
    BY <2>1, <2>2, Zenon
<1>11. d[k3] = Len(a.publicKey) /\ Slice(d, k3 + 1, Len(a.publicKey)) = a.publicKey
  <2>1. /\ d \in Seq(Byte) /\ a.publicKey \in Seq(Byte) /\ Len(a.publicKey) \in Byte
        /\ k3 \in Nat \ {0} /\ Holds(d, k3, Short(a.publicKey))
    BY <1>1, <1>3, <1>7, <1>8, Zenon
  <2> QED
    BY <2>1, ShortRead, Zenon
<1>12. d[k4] = Len(a.signingKey) /\ Slice(d, k4 + 1, Len(a.signingKey)) = a.signingKey
  <2>1. /\ d \in Seq(Byte) /\ a.signingKey \in Seq(Byte) /\ Len(a.signingKey) \in Byte
        /\ k4 \in Nat \ {0} /\ Holds(d, k4, Short(a.signingKey))
    BY <1>1, <1>3, <1>7, <1>8, Zenon
  <2> QED
    BY <2>1, ShortRead, Zenon
<1>13. d[k5] = n /\ Slice(d, k5 + 1, n) = a.nickname
  <2>1. /\ d \in Seq(Byte) /\ a.nickname \in Seq(Byte) /\ Len(a.nickname) \in Byte
        /\ k5 \in Nat \ {0} /\ Holds(d, k5, Short(a.nickname))
    BY <1>1, <1>3, <1>7, <1>8, Zenon DEF n
  <2>2. d[k5] = Len(a.nickname) /\ Slice(d, k5 + 1, Len(a.nickname)) = a.nickname
    BY <2>1, ShortRead, Zenon
  <2> QED
    BY <2>2, Zenon DEF n
<1>14. d[k8] = Len(a.signature) /\ Slice(d, k8 + 1, Len(a.signature)) = a.signature
  <2>1. /\ d \in Seq(Byte) /\ a.signature \in Seq(Byte) /\ Len(a.signature) \in Byte
        /\ k8 \in Nat \ {0} /\ Holds(d, k8, Short(a.signature))
    BY <1>1, <1>3, <1>7, <1>8, Zenon
  <2> QED
    BY <2>1, ShortRead, Zenon
<1>15. (IF HasBit(d[1], 1) THEN {Slice(d, k7, IdSize)} ELSE {}) = a.previous
  <2>1. CASE a.previous = {}
    BY <1>2, <1>9, <2>1, Zenon
  <2>2. CASE a.previous # {}
    <3>1. Len(Previous(a)) = IdSize
      BY <1>6, <2>2, Zenon DEF w
    <3>2. Slice(d, k7, IdSize) = Previous(a)
      BY <1>1, <1>6, <1>7, <1>8, <3>1, Cut, Zenon
    <3>3. a.previous = {Previous(a)}
      BY <2>2, IdentityFacts
    <3> QED
      BY <1>2, <1>9, <2>2, <3>2, <3>3, Zenon
  <2> QED
    BY <2>1, <2>2, Zenon
<1>16. ParseIdentity(d)
       = [peerId |-> SubSeq(d, 2, 9),
          publicKey |-> Slice(d, k3 + 1, d[k3]), signingKey |-> Slice(d, k4 + 1, d[k4]),
          nickname |-> Slice(d, k5 + 1, d[k5]),
          previous |-> IF HasBit(d[1], 1) THEN {Slice(d, k7, IdSize)} ELSE {},
          signature |-> Slice(d, k8 + 1, d[k8])]
  <2> DEFINE signingAt == 10 + 1 + d[10]
             nickAt == signingAt + 1 + d[signingAt]
             previousAt == nickAt + 1 + d[nickAt] + 8
             signatureAt == IF HasBit(d[1], 1) THEN previousAt + IdSize ELSE previousAt
  <2>1. signingAt = k4
    BY <1>3, <1>11, Zenon DEF k4
  <2>2. nickAt = k5
    BY <2>1, <1>3, <1>12, Zenon DEF k5
  <2>3. previousAt = k7
    BY <2>2, <1>13, Zenon DEF k7
  <2>4. signatureAt = k8
    BY <2>3, <1>2, <1>9, Zenon DEF k8
  <2>5. ParseIdentity(d)
        = [peerId |-> SubSeq(d, 2, 9),
           publicKey |-> Slice(d, k3 + 1, d[k3]),
           signingKey |-> Slice(d, signingAt + 1, d[signingAt]),
           nickname |-> Slice(d, nickAt + 1, d[nickAt]),
           previous |-> IF HasBit(d[1], 1) THEN {Slice(d, previousAt, IdSize)} ELSE {},
           signature |-> Slice(d, signatureAt + 1, d[signatureAt])]
    BY Zenon DEF ParseIdentity
  <2> HIDE DEF signingAt, nickAt, previousAt, signatureAt
  <2> QED
    BY <2>1, <2>2, <2>3, <2>4, <2>5, Zenon
<1>17. ParseIdentity(d)
       = [peerId |-> a.peerId, publicKey |-> a.publicKey, signingKey |-> a.signingKey,
          nickname |-> a.nickname, previous |-> a.previous, signature |-> a.signature]
  <2>1. /\ Slice(d, k3 + 1, d[k3]) = a.publicKey /\ Slice(d, k4 + 1, d[k4]) = a.signingKey
        /\ Slice(d, k5 + 1, d[k5]) = a.nickname /\ Slice(d, k8 + 1, d[k8]) = a.signature
    BY <1>11, <1>12, <1>13, <1>14, Zenon
  <2> QED
    BY <1>10, <1>15, <1>16, <2>1, Zenon
<1>18. a = [peerId |-> a.peerId, publicKey |-> a.publicKey, signingKey |-> a.signingKey,
            nickname |-> a.nickname, signature |-> a.signature, previous |-> a.previous]
  BY IdentityFacts, Zenon
<1> DEFINE e == ParseIdentity(d)
<1>19. e = a
  <2> HIDE DEF e
  <2>1. e = [peerId |-> a.peerId, publicKey |-> a.publicKey, signingKey |-> a.signingKey,
             nickname |-> a.nickname, previous |-> a.previous, signature |-> a.signature]
    BY <1>17 DEF e
  <2> QED
    BY <1>18, <2>1, SMT
<1> QED
  BY <1>19, Zenon DEF d

----------------------------------------------------------------------------
(* Fragments                                                               *)

(* The number of fragments fits into the two bytes it is packed in.        *)
CanCount(packet) == Count(packet) < 65536

(* The payload of the i-th fragment                                        *)
FragmentPayload(packet, fragmentId, i) ==
    fragmentId \o U16(i - 1) \o U16(Count(packet)) \o <<MESSAGE>> \o Chunks(packet)[i]

(* What a handler should read from it                                      *)
Part(packet, fragmentId, i) ==
    [id |-> fragmentId, index |-> i - 1, total |-> Count(packet), data |-> Chunks(packet)[i]]

(* A fragment's payload can be packed and is read as it was meant.         *)
LEMMA FragmentRead ==
    ASSUME NEW packet \in Seq(Byte), Len(packet) > 0, CanCount(packet),
           NEW fragmentId \in Id, NEW i \in 1..Count(packet)
    PROVE  /\ FragmentPayload(packet, fragmentId, i) \in Seq(Byte)
           /\ CanCreate(FragmentPayload(packet, fragmentId, i))
           /\ ParseFragment(FragmentPayload(packet, fragmentId, i))
                = Part(packet, fragmentId, i)
<1> DEFINE n == Count(packet)
           j == i - 1
           f == fragmentId
           u == U16(j)
           v == U16(n)
           m == <<MESSAGE>>
           c == Chunks(packet)[i]
           d == f \o u \o v \o m \o c
<1>1. n \in Nat /\ j \in Nat
  BY ChunkEnds
<1>2. n < 65536 /\ j < 65536
  BY <1>1, SMT DEF CanCount
<1>3. /\ u \in Seq(Byte) /\ Len(u) = 2 /\ v \in Seq(Byte) /\ Len(v) = 2
      /\ \A e \in Seq(Byte), k \in Nat \ {0} :
           (Holds(e, k, u) => U16At(e, k) = j) /\ (Holds(e, k, v) => U16At(e, k) = n)
  <2> HIDE DEF n, j
  <2> QED
    BY <1>1, <1>2, U16Seq, U16Read, SMT
<1>4. f \in Seq(Byte) /\ Len(f) = IdSize /\ IdSize = 8
  BY PaddedId DEF IdSize
<1>5. m \in Seq(Byte) /\ Len(m) = 1
  BY ByteSeq1 DEF MESSAGE, Byte
<1>6. c \in Seq(Byte) /\ Len(c) \in 1..FragmentSize
  BY ChunkSeq
<1>a. Len(c) \in 1..150
  BY <1>6 DEF FragmentSize
<1> HIDE DEF n, j, f, u, v, m, c
<1>b. /\ f \in Seq(Byte) /\ u \in Seq(Byte) /\ v \in Seq(Byte) /\ m \in Seq(Byte)
      /\ c \in Seq(Byte)
  BY <1>3, <1>4, <1>5, <1>6, Zenon
<1>7. d \in Seq(Byte) /\ Len(d) = Len(f) + Len(u) + Len(v) + Len(m) + Len(c)
  BY <1>b, Joins5, SMT
<1>8. Holds(d, 1, f \o u \o v \o m \o c)
  BY <1>7, HoldsWhole, Zenon
<1> HIDE DEF d
<1>9. d \in Seq(Byte)
  BY <1>7
<1>10. Laid5(d, f, u, v, m, c)
  BY <1>b, <1>8, <1>9, Fields5
<1>11. /\ Holds(d, 1, f) /\ Holds(d, 1 + Len(f), u) /\ Holds(d, 1 + Len(f) + Len(u), v)
       /\ Holds(d, 1 + Len(f) + Len(u) + Len(v) + Len(m), c)
  BY <1>10, Zenon DEF Laid5
<1>12. /\ 1 + Len(f) = 9 /\ 1 + Len(f) + Len(u) = 11
       /\ 1 + Len(f) + Len(u) + Len(v) + Len(m) = 14
       /\ Len(d) = 13 + Len(c) /\ 14 + Len(c) - 1 = Len(d) /\ 1 + Len(f) - 1 = 8
  BY <1>3, <1>4, <1>5, <1>a, <1>7
<1>13. Holds(d, 9, u) /\ Holds(d, 11, v) /\ Holds(d, 14, c)
  BY <1>11, <1>12, Zenon
<1>14. 9 \in Nat \ {0} /\ 11 \in Nat \ {0} /\ 14 \in Nat \ {0} /\ 1 \in Nat \ {0}
  OBVIOUS
<1>15. U16At(d, 9) = j /\ U16At(d, 11) = n
  BY <1>3, <1>9, <1>13, <1>14, Zenon
<1>16. SubSeq(d, 1, 8) = f
  <2>1. SubSeq(d, 1, 1 + Len(f) - 1) = f
    BY <1>b, <1>9, <1>11, <1>14, Cut, Zenon
  <2> QED
    BY <2>1, <1>12, Zenon
<1>17. SubSeq(d, 14, Len(d)) = c
  <2>1. SubSeq(d, 14, 14 + Len(c) - 1) = c
    BY <1>b, <1>9, <1>13, <1>14, Cut, Zenon
  <2> QED
    BY <2>1, <1>12, Zenon
<1>18. ParseFragment(d) = Part(packet, fragmentId, i)
  BY <1>15, <1>16, <1>17, Zenon DEF ParseFragment, Part, n, j, f, c
<1>19. CanCreate(d)
  <2>1. PICK k \in 1..150 : Len(d) = 13 + k
    BY <1>a, <1>12
  <2>2. Len(d) < 65536
    BY <2>1, SMT
  <2> QED
    BY <2>2, SMT DEF CanCreate
<1>20. FragmentPayload(packet, fragmentId, i) = d
  BY Zenon DEF FragmentPayload, d, f, u, v, m, c, n, j
<1> HIDE <1>2
<1> QED
  BY <1>9, <1>18, <1>19, <1>20, Zenon

(* Data that a node accepts as a fragment of sender, and reads as part     *)
FragmentReads(d, sender, part) ==
    LET p == ParsePacket(d)
    IN  /\ CanParse(d) /\ p.type \in FRAGMENTS /\ p.sender = Stripped(sender)
        /\ ParseFragment(p.payload) = part

(* A fragment handler reads back what send_packet_with_fragmentation put   *)
(* into a fragment, after any number of relays.                            *)
THEOREM FragmentRoundTrip ==
    ASSUME NEW sender \in Id, NEW packet \in Seq(Byte), Len(packet) > 0,
           CanCount(packet), NEW fragmentId \in Id, NEW filler \in Byte,
           NEW i \in 1..Count(packet), NEW ttl \in Byte
    PROVE  LET made == FragmentPackets(sender, packet, fragmentId, filler) IN
           /\ DOMAIN made = 1..Count(packet)
           /\ FragmentReads(WithTTL(made[i], ttl), sender, Part(packet, fragmentId, i))
<1> DEFINE made == FragmentPackets(sender, packet, fragmentId, filler)
           n == Count(packet)
           type == FragmentType(i, n)
           q == FragmentPayload(packet, fragmentId, i)
           e == WithTTL(CreatePacket(sender, {}, type, q, <<>>, filler), ttl)
           p == ParsePacket(e)
<1>1. DOMAIN Chunks(packet) = 1..n /\ Len(Chunks(packet)) = n
  BY ChunkParts, Zenon
<1>2. DOMAIN made = 1..n /\ WithTTL(made[i], ttl) = e
  BY <1>1, Zenon DEF FragmentPackets, FragmentPayload
<1>3. type \in FRAGMENTS /\ type \in MessageType
  BY TypeByte DEF FragmentType, FRAGMENTS
<1>4. q \in Seq(Byte) /\ CanCreate(q) /\ ParseFragment(q) = Part(packet, fragmentId, i)
  BY FragmentRead, Zenon
<1>5. <<>> \in Seq(Byte)
  OBVIOUS
<1> HIDE DEF made, type, q
<1>6. CanParse(e) /\ p = Parsed(sender, {}, type, q, ttl)
  <2> DEFINE g == <<>>
  <2>1. g \in Seq(Byte) /\ e = WithTTL(CreatePacket(sender, {}, type, q, g, filler), ttl)
    BY <1>5, Zenon
  <2>2. q \in Seq(Byte) /\ CanCreate(q) /\ type \in MessageType
    BY <1>3, <1>4, Zenon
  <2> HIDE DEF e, g
  <2>3. Reads(e, Parsed(sender, {}, type, q, ttl))
    BY <2>1, <2>2, NoRecipient, PacketRoundTrip
  <2> QED
    BY <2>3, Zenon DEF Reads
<1> HIDE DEF e
<1>7. p.type = type /\ p.sender = Stripped(sender) /\ p.payload = q
  <2> DEFINE r == Parsed(sender, {}, type, q, ttl)
  <2>1. r.type = type /\ r.sender = Stripped(sender) /\ r.payload = q
    BY ParsedFields
  <2> HIDE DEF r, p
  <2>2. p = r
    BY <1>6 DEF r
  <2> QED
    BY <2>1, <2>2, Zenon
<1> HIDE DEF p
<1>8. p.type \in FRAGMENTS /\ ParseFragment(p.payload) = Part(packet, fragmentId, i)
  BY <1>3, <1>4, <1>7, Zenon
<1>9. FragmentReads(e, sender, Part(packet, fragmentId, i))
  BY <1>6, <1>7, <1>8, Zenon DEF FragmentReads, p
<1> QED
  BY <1>2, <1>9, Zenon DEF made, n
=============================================================================

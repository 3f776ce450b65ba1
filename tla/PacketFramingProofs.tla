-------------------------- MODULE PacketFramingProofs --------------------------
(***************************************************************************)
(* Proofs about PacketFraming, for packets of any contents (data that      *)
(* holds the prefix too), buffers of any size and streams cut anywhere.    *)
(* What a receiver has in its buffer, followed by what is under way, is    *)
(* always the encodings of the packets that were sent and not handled yet: *)
(* the buffer begins with a prefix or is empty.                            *)
(***************************************************************************)
EXTENDS PacketFraming, SequenceTheorems, TLAPS

-----------------------------------------------------------------------------
(* Encoding and parsing.                                                   *)

WellFormed == {p \in Packet : Len(p.receiver) = 4 /\ Len(p.data) < 32768}

(* The numbers up to 255 are bytes. *)
LEMMA BytesAre == \A n \in Nat : n <= 255 => n \in Byte
<1>1. MaxByte \in Nat /\ \A n \in Nat : n <= 255 => n <= MaxByte
  BY DEF MaxByte
<1> QED BY <1>1 DEF Byte

(* Concatenations and parts of sequences of bytes. *)
LEMMA ConcatLength ==
  ASSUME NEW s \in Seq(Byte), NEW t \in Seq(Byte)
  PROVE  s \o t \in Seq(Byte) /\ Len(s \o t) = Len(s) + Len(t)
OBVIOUS

(* The first part of two sequences one behind the other. *)
LEMMA ConcatFirst ==
  ASSUME NEW s \in Seq(Byte), NEW t \in Seq(Byte), NEW i \in 1..Len(s)
  PROVE  (s \o t)[i] = s[i]
OBVIOUS

(* The second part. *)
LEMMA ConcatSecond ==
  ASSUME NEW s \in Seq(Byte), NEW t \in Seq(Byte), NEW i \in 1..Len(t)
  PROVE  (s \o t)[i + Len(s)] = t[i]
OBVIOUS

(* Three sequences can be joined in either order. *)
LEMMA ConcatGroups ==
  ASSUME NEW s \in Seq(Byte), NEW t \in Seq(Byte), NEW u \in Seq(Byte)
  PROVE  (s \o t) \o u = s \o (t \o u)
BY ConcatAssociative

(* A part of a sequence of bytes, place by place. *)
LEMMA PartBytes ==
  ASSUME NEW s \in Seq(Byte), NEW m \in 1..Len(s) + 1, NEW n \in m - 1..Len(s)
  PROVE  /\ SubSeq(s, m, n) \in Seq(Byte) /\ Len(SubSeq(s, m, n)) = n - m + 1
         /\ \A i \in 1..n - m + 1 : SubSeq(s, m, n)[i] = s[i + m - 1]
<1>1. Len(s) \in Nat
  BY LenProperties
<1>2. m \in Int /\ n \in Int /\ \A i \in m..n : s[i] \in Byte
  BY <1>1, ElementOfSeq
<1>3. /\ SubSeq(s, m, n) \in Seq(Byte)
      /\ Len(SubSeq(s, m, n)) = IF m <= n THEN n - m + 1 ELSE 0
      /\ \A i \in 1..n - m + 1 : SubSeq(s, m, n)[i] = s[m + i - 1]
  BY <1>2, SubSeqProperties
<1> QED BY <1>1, <1>2, <1>3

(* Four bytes. *)
LEMMA FourBytes ==
  ASSUME NEW a \in Byte, NEW b \in Byte, NEW c \in Byte, NEW d \in Byte
  PROVE  <<a, b, c, d>> \in Seq(Byte) /\ Len(<<a, b, c, d>>) = 4
OBVIOUS

(* The prefix has four bytes. *)
LEMMA MagicBytes == Magic \in Seq(Byte) /\ Len(Magic) = 4
<1>1. 70 \in Byte /\ 85 \in Byte /\ 90 \in Byte
  BY BytesAre
<1> QED BY <1>1, FourBytes DEF Magic

(* The length survives the two bytes of WriteInt16 when it is at most what *)
(* an int16_t holds.                                                       *)
LEMMA LengthBytes ==
  ASSUME NEW n \in Nat, n < 32768
  PROVE  /\ WriteInt16(n) \in Seq(Byte) /\ Len(WriteInt16(n)) = 2
         /\ \A w \in Seq(Byte) : w[1] = WriteInt16(n)[1] /\ w[2] = WriteInt16(n)[2] => ReadInt16(w) = n
<1> DEFINE lo == n % 256
           hi == (n \div 256) % 256
<1>1. lo \in Nat /\ hi \in Nat /\ lo <= 255 /\ hi <= 255 /\ lo + 256 * hi = n
  OBVIOUS
<1> HIDE DEF lo, hi
<1>2. lo \in Byte /\ hi \in Byte
  BY <1>1, BytesAre
<1>3. WriteInt16(n) = <<lo, hi>>
  BY DEF WriteInt16, lo, hi
<1>4. ASSUME NEW w \in Seq(Byte), w[1] = lo, w[2] = hi PROVE ReadInt16(w) = n
  BY <1>1, <1>4 DEF ReadInt16
<1> QED BY <1>2, <1>3, <1>4

(* The bytes of a packet. *)
LEMMA EncodeBytes ==
  ASSUME NEW p \in WellFormed
  PROVE  /\ Encode(p) \in Seq(Byte) /\ Len(Encode(p)) = Size(p)
         /\ \A i \in 1..4 : Encode(p)[i] = Magic[i] /\ Encode(p)[i + 4] = p.receiver[i]
         /\ \A i \in 1..2 : Encode(p)[i + 8] = WriteInt16(Len(p.data))[i]
         /\ \A i \in 1..Len(p.data) : Encode(p)[i + 10] = p.data[i]
<1> DEFINE r == p.receiver
           n == WriteInt16(Len(p.data))
           d == p.data
           h == Magic \o r
           g == h \o n
<1>1. r \in Seq(Byte) /\ d \in Seq(Byte) /\ Len(d) \in Nat
  BY DEF WellFormed, Packet
<1>2. Len(r) = 4 /\ Len(d) < 32768
  BY DEF WellFormed
<1>3. n \in Seq(Byte) /\ Len(n) = 2
  BY <1>1, <1>2, LengthBytes
<1>4. Encode(p) = g \o d
  BY DEF Encode, Pieces
<1>5. Magic \in Seq(Byte)
  BY MagicBytes
<1> HIDE DEF r, n, d
<1>6. h \in Seq(Byte) /\ Len(h) = 8
  <2>1. h \in Seq(Byte) /\ Len(h) = Len(Magic) + Len(r)
    BY <1>1, <1>5, ConcatLength
  <2> HIDE DEF h
  <2> QED BY <1>2, <2>1, MagicBytes
<1>7. ASSUME NEW i \in 1..4 PROVE h[i] = Magic[i] /\ h[i + 4] = r[i]
  <2>1. i \in 1..Len(Magic) /\ i \in 1..Len(r) /\ i + 4 = i + Len(Magic)
    BY <1>2, MagicBytes
  <2>2. h[i] = Magic[i]
    BY <1>1, <1>5, <2>1, ConcatFirst, Zenon
  <2>3. h[i + Len(Magic)] = r[i]
    BY <1>1, <1>5, <2>1, ConcatSecond
  <2> HIDE DEF h
  <2> QED BY <2>1, <2>2, <2>3, Zenon
<1> HIDE DEF h
<1>8. g \in Seq(Byte) /\ Len(g) = 10
  <2>0. n \in Seq(Byte) /\ h \in Seq(Byte)
    BY <1>3, <1>6
  <2>1. g \in Seq(Byte) /\ Len(g) = Len(h) + Len(n)
    BY <2>0, ConcatLength
  <2> HIDE DEF g
  <2> QED BY <1>3, <1>6, <2>1
<1>9. /\ \A i \in 1..8 : g[i] = h[i]
      /\ \A i \in 1..2 : g[i + 8] = n[i]
  <2>1. ASSUME NEW i \in 1..8 PROVE g[i] = h[i]
    <3>1. i \in 1..Len(h)
      BY <1>6
    <3> QED BY <1>3, <1>6, <3>1, ConcatFirst, Zenon
  <2>2. ASSUME NEW i \in 1..2 PROVE g[i + 8] = n[i]
    <3>1. i \in 1..Len(n) /\ i + 8 = i + Len(h)
      BY <1>3, <1>6
    <3> QED BY <1>3, <1>6, <3>1, ConcatSecond, Zenon
  <2> QED BY <2>1, <2>2
<1> HIDE DEF g
<1> DEFINE e == g \o d
<1>10. e \in Seq(Byte) /\ Len(e) = 10 + Len(d)
  <2>0. g \in Seq(Byte)
    BY <1>8
  <2>1. e \in Seq(Byte) /\ Len(e) = Len(g) + Len(d)
    BY <1>1, <2>0, ConcatLength
  <2> HIDE DEF e
  <2> QED BY <1>8, <2>1
<1>11. /\ \A i \in 1..10 : e[i] = g[i]
       /\ \A i \in 1..Len(d) : e[i + 10] = d[i]
  <2>1. ASSUME NEW i \in 1..10 PROVE e[i] = g[i]
    <3>1. i \in 1..Len(g)
      BY <1>8
    <3> QED BY <1>1, <1>8, <3>1, ConcatFirst, Zenon
  <2>2. ASSUME NEW i \in 1..Len(d) PROVE e[i + 10] = d[i]
    <3>1. i + 10 = i + Len(g)
      BY <1>8
    <3>2. g \in Seq(Byte) /\ d \in Seq(Byte)
      BY <1>1, <1>8
    <3>3. e[i + Len(g)] = d[i]
      BY <3>2, ConcatSecond, Zenon
    <3> QED BY <3>1, <3>3, Zenon
  <2> QED BY <2>1, <2>2
<1> HIDE DEF e
<1>12. ASSUME NEW i \in 1..4 PROVE e[i] = Magic[i] /\ e[i + 4] = r[i]
  <2>1. i \in 1..8 /\ i + 4 \in 1..8 /\ i \in 1..10 /\ i + 4 \in 1..10
    OBVIOUS
  <2> QED BY <1>7, <1>9, <1>11, <2>1, Zenon
<1>13. ASSUME NEW i \in 1..2 PROVE e[i + 8] = n[i]
  <2>1. i + 8 \in 1..10
    OBVIOUS
  <2> QED BY <1>9, <1>11, <2>1, Zenon
<1>14. Encode(p) = e
  BY <1>4 DEF e
<1> QED BY <1>10, <1>11, <1>12, <1>13, <1>14 DEF Size, r, n, d

(* What follows the first packet of the buffer b, when u is still to come. *)
Behind(b, u) == Drop(b, 10 + LengthAt(b, 0)) \o u

(* A buffer b at the start of a stream that begins with the packet p: its  *)
(* prefix, length and packet are p's, as far as they have arrived.         *)
LEMMA ParsePacket ==
  ASSUME NEW p \in WellFormed, NEW b \in Seq(Byte), NEW u \in Seq(Byte), NEW s \in Seq(Byte),
         b \o u = Encode(p) \o s
  PROVE  /\ Len(b) >= 4 => MagicAt(b, 0)
         /\ Complete(b, 0) <=> Len(b) >= Size(p)
         /\ Complete(b, 0) => /\ PacketAt(b, 0) = p
                              /\ Drop(b, 10 + LengthAt(b, 0)) \in Seq(Byte)
                              /\ Len(Drop(b, 10 + LengthAt(b, 0))) <= Len(b)
                              /\ Behind(b, u) = s
<1> DEFINE e == Encode(p)
           lb == Len(b)
           lu == Len(u)
           ls == Len(s)
           ld == Len(p.data)
<1>1. /\ e \in Seq(Byte) /\ Len(e) = 10 + ld
      /\ \A i \in 1..4 : e[i] = Magic[i]
      /\ \A i \in 1..4 : e[i + 4] = p.receiver[i]
      /\ \A i \in 1..2 : e[i + 8] = WriteInt16(ld)[i]
      /\ \A i \in 1..ld : e[i + 10] = p.data[i]
  BY EncodeBytes DEF Size
<1>2. /\ p.data \in Seq(Byte) /\ p.receiver \in Seq(Byte) /\ Len(p.receiver) = 4 /\ ld < 32768
      /\ p = [receiver |-> p.receiver, data |-> p.data]
  BY DEF WellFormed, Packet
<1>3. lb \in Nat /\ lu \in Nat /\ ls \in Nat /\ ld \in Nat
  BY <1>2, LenProperties
<1> HIDE DEF e
<1>4. b \o u = e \o s
  BY DEF e
<1>5. lb + lu = 10 + ld + ls
  <2>1. Len(b \o u) = lb + lu
    BY ConcatLength
  <2>0. e \in Seq(Byte)
    BY <1>1
  <2>2. Len(e \o s) = Len(e) + ls
    BY <2>0, ConcatLength
  <2>3. Len(e) = 10 + ld
    BY <1>1
  <2> QED BY <1>4, <2>1, <2>2, <2>3
<1>6. \A i \in 1..lb : i <= 10 + ld => b[i] = e[i]
  <2> SUFFICES ASSUME NEW i \in 1..lb, i <= 10 + ld PROVE b[i] = e[i]
    OBVIOUS
  <2>1. (b \o u)[i] = b[i]
    BY ConcatFirst
  <2>2. i \in 1..Len(e)
    BY <1>1, <1>3
  <2>3. (e \o s)[i] = e[i]
    BY <1>1, <2>2, ConcatFirst
  <2> QED BY <1>4, <2>1, <2>3
<1>7. /\ \A i \in 1..lu : (b \o u)[i + lb] = u[i]
      /\ \A i \in 1..ls : (e \o s)[i + Len(e)] = s[i]
  <2>0. e \in Seq(Byte)
    BY <1>1
  <2>1. \A i \in 1..lu : (b \o u)[i + lb] = u[i]
    BY ConcatSecond
  <2>2. \A i \in 1..ls : (e \o s)[i + Len(e)] = s[i]
    BY <2>0, ConcatSecond
  <2> QED BY <2>1, <2>2
<1>8. \A m \in 1..lb + 1 : \A n \in m - 1..lb :
         /\ SubSeq(b, m, n) \in Seq(Byte) /\ Len(SubSeq(b, m, n)) = n - m + 1
         /\ \A i \in 1..n - m + 1 : SubSeq(b, m, n)[i] = b[i + m - 1]
  BY PartBytes
<1> HIDE DEF lb, lu, ls, ld
<1>9. ASSUME lb >= 4 PROVE MagicAt(b, 0)
  <2>1. 1 \in 1..lb + 1 /\ 4 \in 1 - 1..lb /\ 4 - 1 + 1 = 4
    BY <1>3, <1>9
  <2>2. /\ SubSeq(b, 1, 4) \in Seq(Byte) /\ Len(SubSeq(b, 1, 4)) = 4
        /\ \A i \in 1..4 : SubSeq(b, 1, 4)[i] = b[i + 1 - 1]
    BY <1>8, <2>1, Zenon
  <2>3. ASSUME NEW i \in 1..4 PROVE SubSeq(b, 1, 4)[i] = Magic[i]
    <3>1. i \in 1..lb /\ i <= 10 + ld /\ i + 1 - 1 = i
      BY <1>3, <1>9
    <3> QED BY <1>1, <1>6, <2>2, <3>1
  <2>4. SubSeq(b, 1, 4) = Magic
    BY <2>2, <2>3, MagicBytes, SeqEqual
  <2> QED BY <2>4 DEF MagicAt
<1>10. ASSUME lb >= 10 PROVE LengthAt(b, 0) = ld
  <2> DEFINE w == SubSeq(b, 9, 10)
  <2>1. 9 \in 1..lb + 1 /\ 10 \in 9 - 1..lb /\ 10 - 9 + 1 = 2
    BY <1>3, <1>10
  <2>2. w \in Seq(Byte) /\ \A i \in 1..2 : w[i] = b[i + 9 - 1]
    BY <1>8, <2>1, Zenon
  <2>3. ASSUME NEW i \in 1..2 PROVE w[i] = WriteInt16(ld)[i]
    <3>1. i + 9 - 1 = i + 8 /\ i + 8 \in 1..lb /\ i + 8 <= 10 + ld
      BY <1>3, <1>10
    <3>2. b[i + 8] = e[i + 8]
      BY <1>6, <3>1
    <3>3. w[i] = b[i + 8]
      BY <2>2, <3>1
    <3> QED BY <1>1, <3>2, <3>3
  <2> HIDE DEF w
  <2>4. w[1] = WriteInt16(ld)[1] /\ w[2] = WriteInt16(ld)[2]
    BY <2>3
  <2>5. ReadInt16(w) = ld
    BY <1>2, <1>3, <2>2, <2>4, LengthBytes
  <2>6. LengthAt(b, 0) = ReadInt16(w)
    BY DEF LengthAt, w
  <2> QED BY <2>5, <2>6
<1>11. Complete(b, 0) <=> lb >= 10 + ld
  BY <1>3, <1>10 DEF Complete, HasLength, lb
<1>12. ASSUME lb >= 10 + ld PROVE PacketAt(b, 0) = p
  <2>0. LengthAt(b, 0) = ld
    BY <1>3, <1>10, <1>12
  <2>1. SubSeq(b, 5, 8) = p.receiver
    <3> DEFINE w == SubSeq(b, 5, 8)
    <3>1. 5 \in 1..lb + 1 /\ 8 \in 5 - 1..lb /\ 8 - 5 + 1 = 4
      BY <1>3, <1>12
    <3>2. w \in Seq(Byte) /\ Len(w) = 4 /\ \A i \in 1..4 : w[i] = b[i + 5 - 1]
      BY <1>8, <3>1, Zenon
    <3>3. ASSUME NEW i \in 1..4 PROVE w[i] = p.receiver[i]
      <4>1. i + 5 - 1 = i + 4 /\ i + 4 \in 1..lb /\ i + 4 <= 10 + ld
        BY <1>3, <1>12
      <4>2. b[i + 4] = e[i + 4]
        BY <1>6, <4>1
      <4>3. w[i] = b[i + 4]
        BY <3>2, <4>1
      <4> QED BY <1>1, <4>2, <4>3
    <3> HIDE DEF w
    <3>4. Len(w) = Len(p.receiver) /\ \A i \in 1..Len(w) : w[i] = p.receiver[i]
      BY <1>2, <3>2, <3>3
    <3>5. w \in Seq(Byte) /\ p.receiver \in Seq(Byte)
      BY <1>2, <3>2
    <3>6. w = p.receiver
      BY <3>4, <3>5, SeqEqual
    <3> QED BY <3>6 DEF w
  <2>2. SubSeq(b, 11, 10 + ld) = p.data
    <3> DEFINE w == SubSeq(b, 11, 10 + ld)
    <3>1. 11 \in 1..lb + 1 /\ 10 + ld \in 11 - 1..lb /\ 10 + ld - 11 + 1 = ld
      BY <1>3, <1>12
    <3>2. w \in Seq(Byte) /\ Len(w) = ld /\ \A i \in 1..ld : w[i] = b[i + 11 - 1]
      <4> DEFINE n == 10 + ld
      <4>1. n \in 11 - 1..lb /\ n - 11 + 1 = ld
        BY <1>3, <1>12
      <4> HIDE DEF n
      <4>2. /\ SubSeq(b, 11, n) \in Seq(Byte) /\ Len(SubSeq(b, 11, n)) = n - 11 + 1
            /\ \A i \in 1..n - 11 + 1 : SubSeq(b, 11, n)[i] = b[i + 11 - 1]
        BY <1>8, <3>1, <4>1, Zenon
      <4>3. w = SubSeq(b, 11, n)
        BY DEF n
      <4> HIDE DEF w
      <4> QED BY <4>1, <4>2, <4>3, Zenon
    <3>3. ASSUME NEW i \in 1..ld PROVE w[i] = p.data[i]
      <4>1. i + 11 - 1 = i + 10 /\ i + 10 \in 1..lb /\ i + 10 <= 10 + ld
        BY <1>3, <1>12
      <4>2. b[i + 10] = e[i + 10]
        BY <1>6, <4>1
      <4>3. w[i] = b[i + 10]
        BY <3>2, <4>1
      <4> QED BY <1>1, <4>2, <4>3
    <3> HIDE DEF w
    <3>4. Len(w) = Len(p.data) /\ \A i \in 1..Len(w) : w[i] = p.data[i]
      BY <3>2, <3>3 DEF ld
    <3>5. w \in Seq(Byte) /\ p.data \in Seq(Byte)
      BY <1>2, <3>2
    <3>6. w = p.data
      BY <3>4, <3>5, SeqEqual
    <3> QED BY <3>6 DEF w
  <2>3. PacketAt(b, 0) = [receiver |-> p.receiver, data |-> p.data]
    <3>1. 0 + 5 = 5 /\ 0 + 8 = 8 /\ 0 + 11 = 11 /\ 0 + 10 + ld = 10 + ld
      BY <1>3
    <3> QED BY <2>0, <2>1, <2>2, <3>1 DEF PacketAt
  <2> QED BY <1>2, <2>3
<1>13. ASSUME lb >= 10 + ld
       PROVE  /\ Drop(b, 10 + LengthAt(b, 0)) \in Seq(Byte)
              /\ Len(Drop(b, 10 + LengthAt(b, 0))) <= lb
              /\ Drop(b, 10 + LengthAt(b, 0)) \o u = s
  <2> DEFINE t == SubSeq(b, 11 + ld, lb)
  <2>1. Drop(b, 10 + LengthAt(b, 0)) = t
    <3>1. LengthAt(b, 0) = ld /\ 10 + ld + 1 = 11 + ld
      BY <1>3, <1>10, <1>13
    <3> QED BY <3>1 DEF Drop, lb
  <2>2. t \in Seq(Byte) /\ Len(t) = lb - 10 - ld /\ \A i \in 1..Len(t) : t[i] = b[i + 10 + ld]
    <3>1. 11 + ld \in 1..lb + 1 /\ lb \in 11 + ld - 1..lb /\ lb - (11 + ld) + 1 = lb - 10 - ld
      BY <1>3, <1>13
    <3>2. /\ t \in Seq(Byte) /\ Len(t) = lb - (11 + ld) + 1
          /\ \A i \in 1..lb - (11 + ld) + 1 : t[i] = b[i + (11 + ld) - 1]
      BY <1>8, <3>1, SMTT(30)
    <3> HIDE DEF t
    <3>3. ASSUME NEW i \in 1..Len(t) PROVE i + (11 + ld) - 1 = i + 10 + ld
      BY <1>3, <3>2
    <3> QED BY <3>1, <3>2, <3>3
  <2> HIDE DEF t
  <2>3. t \o u \in Seq(Byte) /\ Len(t \o u) = ls
    <3>1. t \o u \in Seq(Byte) /\ Len(t \o u) = Len(t) + lu
      BY <2>2, ConcatLength DEF lu
    <3> QED BY <1>3, <1>5, <2>2, <3>1
  <2>4. ASSUME NEW i \in 1..ls PROVE (t \o u)[i] = s[i]
    <3>1. (b \o u)[i + (10 + ld)] = s[i]
      BY <1>1, <1>4, <1>7, Zenon
    <3>2. CASE i <= Len(t)
      <4>1. i + (10 + ld) = i + 10 + ld /\ i + 10 + ld \in 1..lb /\ i \in 1..Len(t)
        BY <1>3, <1>13, <2>2, <3>2
      <4>2. (b \o u)[i + 10 + ld] = b[i + 10 + ld]
        BY <4>1, ConcatFirst DEF lb
      <4>3. (t \o u)[i] = t[i]
        BY <2>2, <4>1, ConcatFirst
      <4>4. t[i] = b[i + 10 + ld]
        BY <2>2, <4>1
      <4> QED BY <3>1, <4>1, <4>2, <4>3, <4>4
    <3>3. CASE i > Len(t)
      <4> DEFINE j == i - Len(t)
      <4>1. j \in 1..lu /\ i + (10 + ld) = j + lb /\ i = j + Len(t)
        BY <1>3, <1>5, <1>13, <2>2, <3>3
      <4> HIDE DEF j
      <4>2. (b \o u)[j + lb] = u[j]
        BY <1>7, <4>1
      <4>3. (t \o u)[j + Len(t)] = u[j]
        BY <2>2, <4>1, ConcatSecond DEF lu
      <4>4. (b \o u)[j + lb] = s[i] /\ (t \o u)[i] = u[j]
        BY <3>1, <4>1, <4>3, Zenon
      <4> QED BY <4>2, <4>4, Zenon
    <3>4. Len(t) \in Nat
      BY <2>2, LenProperties
    <3>5. i \in Nat
      BY <1>3
    <3>6. i <= Len(t) \/ i > Len(t)
      BY <3>4, <3>5
    <3> QED BY <3>2, <3>3, <3>6, Zenon
  <2>5. t \o u = s
    BY <2>3, <2>4, SeqEqual DEF ls
  <2>6. Len(t) <= lb
    BY <1>3, <2>2
  <2> QED BY <2>1, <2>2, <2>5, <2>6
<1> QED BY <1>9, <1>11, <1>12, <1>13 DEF Size, Behind, lb, ld

-----------------------------------------------------------------------------
(* Streams of packets.                                                     *)

(* s is the encodings of the packets of q behind the first m: t[i] is what *)
(* follows the i-th one.                                                   *)
Stream(s, q, m) ==
  \E t \in [Nat -> Seq(Byte)] :
    /\ t[m] = s /\ t[Len(q)] = <<>>
    /\ \A i \in m + 1..Len(q) : t[i - 1] = Encode(q[i]) \o t[i]

(* Nothing is under way at the start. *)
LEMMA StreamInit == Stream(<<>>, <<>>, 0)
<1> DEFINE t == [i \in Nat |-> <<>>]
<1>1. t \in [Nat -> Seq(Byte)] /\ t[0] = <<>>
  OBVIOUS
<1>2. Len(<<>>) = 0
  OBVIOUS
<1> HIDE DEF t
<1>3. \A i \in 0 + 1..0 : FALSE
  OBVIOUS
<1> QED BY <1>1, <1>2, <1>3 DEF Stream

(* A packet is sent: its encoding follows. *)
LEMMA StreamSend ==
  ASSUME NEW s \in Seq(Byte), NEW q \in Seq(WellFormed), NEW p \in WellFormed,
         NEW m \in 0..Len(q), Stream(s, q, m)
  PROVE  Stream(s \o Encode(p), Append(q, p), m)
<1> DEFINE e == Encode(p)
<1>0. e \in Seq(Byte)
  BY EncodeBytes
<1> HIDE DEF e
<1>1. PICK t \in [Nat -> Seq(Byte)] :
        /\ t[m] = s /\ t[Len(q)] = <<>>
        /\ \A i \in m + 1..Len(q) : t[i - 1] = Encode(q[i]) \o t[i]
  BY DEF Stream
<1> DEFINE n == Len(q)
           a == Append(q, p)
<1>2. n \in Nat /\ m \in 0..n
  BY LenProperties
<1>3. Len(a) = n + 1 /\ a[n + 1] = p
  BY AppendProperties
<1>4. \A i \in 1..n : a[i] = q[i]
  BY AppendProperties
<1>5. \A i \in 1..n : q[i] \in WellFormed
  BY ElementOfSeq
<1>6. t[n] = <<>> /\ \A i \in m + 1..n : t[i - 1] = Encode(q[i]) \o t[i]
  BY <1>1
<1> DEFINE v == [i \in Nat |-> IF i <= n THEN t[i] \o e ELSE <<>>]
<1> HIDE DEF n, a
<1>7. /\ v \in [Nat -> Seq(Byte)]
      /\ \A i \in Nat : i <= n => v[i] = t[i] \o e
      /\ v[n + 1] = <<>>
  <2>1. \A i \in Nat : (IF i <= n THEN t[i] \o e ELSE <<>>) \in Seq(Byte)
    BY <1>0, <1>1, ConcatLength
  <2>2. v \in [Nat -> Seq(Byte)]
    BY <2>1
  <2>3. \A i \in Nat : i <= n => v[i] = t[i] \o e
    OBVIOUS
  <2>4. n + 1 \in Nat /\ ~(n + 1 <= n)
    BY <1>2
  <2>5. v[n + 1] = <<>>
    BY <2>4
  <2> QED BY <2>2, <2>3, <2>5
<1> HIDE DEF v
<1>8. v[m] = s \o e
  <2>1. m \in Nat /\ m <= n
    BY <1>2
  <2> QED BY <1>1, <1>7, <2>1
<1>9. ASSUME NEW i \in m + 1..n + 1
      PROVE  v[i - 1] = Encode(a[i]) \o v[i]
  <2>0. i \in Nat /\ i - 1 \in Nat /\ i - 1 <= n
    BY <1>2
  <2>1. v[i - 1] = t[i - 1] \o e
    BY <1>7, <2>0
  <2>2. CASE i = n + 1
    <3>1. i - 1 = n
      BY <1>2, <2>2
    <3>2. v[i - 1] = <<>> \o e
      BY <1>6, <2>1, <3>1
    <3>3. <<>> \o e = e /\ e \o <<>> = e
      BY <1>0, ConcatEmptySeq
    <3>4. Encode(a[i]) = e /\ v[i] = <<>>
      BY <1>3, <1>7, <2>2 DEF e
    <3> QED BY <3>2, <3>3, <3>4, Zenon
  <2>3. CASE i # n + 1
    <3>1. i \in m + 1..n /\ i \in 1..n /\ i <= n
      BY <1>2, <2>3
    <3>2. t[i - 1] = Encode(q[i]) \o t[i] /\ a[i] = q[i] /\ v[i] = t[i] \o e
      BY <1>4, <1>6, <1>7, <2>0, <3>1
    <3>3. Encode(q[i]) \in Seq(Byte) /\ t[i] \in Seq(Byte)
      BY <1>1, <1>5, <2>0, <3>1, EncodeBytes
    <3>4. (Encode(q[i]) \o t[i]) \o e = Encode(q[i]) \o (t[i] \o e)
      BY <1>0, <3>3, ConcatGroups, Zenon
    <3> QED BY <2>1, <3>2, <3>4, Zenon
  <2> QED BY <2>2, <2>3
<1>10. \E w \in [Nat -> Seq(Byte)] :
         /\ w[m] = s \o e /\ w[Len(a)] = <<>>
         /\ \A i \in m + 1..Len(a) : w[i - 1] = Encode(a[i]) \o w[i]
  BY <1>3, <1>7, <1>8, <1>9, Zenon
<1> QED BY <1>10 DEF Stream, e, a

(* Something that has not been handled begins with the next packet. *)
LEMMA StreamNext ==
  ASSUME NEW s, NEW q \in Seq(WellFormed), NEW m \in 0..Len(q), Stream(s, q, m), s # <<>>
  PROVE  /\ m < Len(q) /\ q[m + 1] \in WellFormed
         /\ \E r \in Seq(Byte) : s = Encode(q[m + 1]) \o r /\ Stream(r, q, m + 1)
<1>1. PICK t \in [Nat -> Seq(Byte)] :
        /\ t[m] = s /\ t[Len(q)] = <<>>
        /\ \A i \in m + 1..Len(q) : t[i - 1] = Encode(q[i]) \o t[i]
  BY DEF Stream
<1> DEFINE n == Len(q)
<1>2. n \in Nat /\ m \in 0..n
  BY LenProperties
<1>3. \A i \in 1..n : q[i] \in WellFormed
  BY ElementOfSeq
<1>4. t[m] = s /\ t[n] = <<>> /\ \A i \in m + 1..n : t[i - 1] = Encode(q[i]) \o t[i]
  BY <1>1
<1> HIDE DEF n
<1>5. m < n
  BY <1>2, <1>4
<1>6. m + 1 \in 1..n /\ m + 1 \in m + 1..n /\ (m + 1) - 1 = m /\ m + 1 \in Nat
  BY <1>2, <1>5
<1>7. q[m + 1] \in WellFormed
  BY <1>3, <1>6
<1> DEFINE j == m + 1
<1>8. j \in m + 1..n /\ j - 1 = m /\ j \in Nat
  BY <1>6
<1> HIDE DEF j
<1>9. s = Encode(q[j]) \o t[j] /\ t[j] \in Seq(Byte)
  BY <1>1, <1>4, <1>8
<1>10. \A i \in j + 1..n : t[i - 1] = Encode(q[i]) \o t[i]
  <2> SUFFICES ASSUME NEW i \in j + 1..n PROVE t[i - 1] = Encode(q[i]) \o t[i]
    OBVIOUS
  <2>1. i \in m + 1..n
    BY <1>2, <1>8
  <2> QED BY <1>4, <2>1
<1>11. Stream(t[j], q, j)
  BY <1>1, <1>4, <1>10 DEF Stream, n
<1> QED BY <1>5, <1>7, <1>9, <1>11 DEF n, j

(* What a receiver finds in its buffer b, when u is still to come. *)
LEMMA Receive ==
  ASSUME NEW b \in Seq(Byte), NEW u \in Seq(Byte), NEW q \in Seq(WellFormed),
         NEW m \in 0..Len(q), Stream(b \o u, q, m), b # <<>>
  PROVE  /\ m < Len(q)
         /\ Len(b) >= 4 => MagicAt(b, 0)
         /\ Complete(b, 0) <=> Len(b) >= Size(q[m + 1])
         /\ Complete(b, 0) => /\ PacketAt(b, 0) = q[m + 1]
                              /\ Drop(b, 10 + LengthAt(b, 0)) \in Seq(Byte)
                              /\ Len(Drop(b, 10 + LengthAt(b, 0))) <= Len(b)
                              /\ Stream(Behind(b, u), q, m + 1)
<1>1. b \o u # <<>>
  BY ConcatEqualIffEmpty
<1>2. /\ m < Len(q) /\ q[m + 1] \in WellFormed
      /\ \E r \in Seq(Byte) : b \o u = Encode(q[m + 1]) \o r /\ Stream(r, q, m + 1)
  BY <1>1, StreamNext
<1>3. PICK r \in Seq(Byte) : b \o u = Encode(q[m + 1]) \o r /\ Stream(r, q, m + 1)
  BY <1>2
<1>4. /\ Len(b) >= 4 => MagicAt(b, 0)
      /\ Complete(b, 0) <=> Len(b) >= Size(q[m + 1])
      /\ Complete(b, 0) => /\ PacketAt(b, 0) = q[m + 1]
                           /\ Drop(b, 10 + LengthAt(b, 0)) \in Seq(Byte)
                           /\ Len(Drop(b, 10 + LengthAt(b, 0))) <= Len(b)
                           /\ Behind(b, u) = r
  <2> DEFINE p == q[m + 1]
  <2>1. p \in WellFormed /\ b \o u = Encode(p) \o r
    BY <1>2, <1>3
  <2> HIDE DEF p
  <2>2. /\ Len(b) >= 4 => MagicAt(b, 0)
        /\ Complete(b, 0) <=> Len(b) >= Size(p)
        /\ Complete(b, 0) => /\ PacketAt(b, 0) = p
                             /\ Drop(b, 10 + LengthAt(b, 0)) \in Seq(Byte)
                             /\ Len(Drop(b, 10 + LengthAt(b, 0))) <= Len(b)
                             /\ Behind(b, u) = r
    <3>1. Len(b) >= 4 => MagicAt(b, 0)
      BY <2>1, ParsePacket, Zenon
    <3>2. Complete(b, 0) <=> Len(b) >= Size(p)
      BY <2>1, ParsePacket, Zenon
    <3>3. Complete(b, 0) => PacketAt(b, 0) = p
      BY <2>1, ParsePacket, Zenon
    <3>4. Complete(b, 0) => Drop(b, 10 + LengthAt(b, 0)) \in Seq(Byte)
      BY <2>1, ParsePacket, Zenon
    <3>5. Complete(b, 0) => Behind(b, u) = r
      BY <2>1, ParsePacket, Zenon
    <3>6. Complete(b, 0) => Len(Drop(b, 10 + LengthAt(b, 0))) <= Len(b)
      BY <2>1, ParsePacket, Zenon
    <3> QED BY <3>1, <3>2, <3>3, <3>4, <3>5, <3>6
  <2> QED BY <2>2 DEF p
<1> QED BY <1>2, <1>3, <1>4

(* A read moves bytes into the buffer and changes nothing in the stream. *)
LEMMA ReadBytes ==
  ASSUME NEW b \in Seq(Byte), NEW u \in Seq(Byte), NEW n \in 1..Len(u)
  PROVE  /\ First(u, n) \in Seq(Byte) /\ Drop(u, n) \in Seq(Byte) /\ Len(First(u, n)) = n
         /\ b \o First(u, n) \in Seq(Byte) /\ Len(b \o First(u, n)) = Len(b) + n
         /\ First(u, n) \o Drop(u, n) = u
         /\ (b \o First(u, n)) \o Drop(u, n) = b \o u
<1>0. Len(u) \in Nat
  BY LenProperties
<1>1. 1 \in 1..Len(u) + 1 /\ n \in 1 - 1..Len(u) /\ n + 1 \in 1..Len(u) + 1
      /\ Len(u) \in (n + 1) - 1..Len(u) /\ n - 1 + 1 = n
  BY <1>0
<1>2. First(u, n) \in Seq(Byte) /\ Len(First(u, n)) = n
  BY <1>1, PartBytes DEF First
<1>3. Drop(u, n) \in Seq(Byte)
  BY <1>1, PartBytes, SMTT(30) DEF Drop
<1>4. First(u, n) \o Drop(u, n) = u
  <2>1. n \in 1 - 1..Len(u) /\ Len(u) \in n..Len(u)
    BY <1>0
  <2>2. SubSeq(u, 1, n) \o SubSeq(u, n + 1, Len(u)) = SubSeq(u, 1, Len(u))
    BY <1>1, <2>1, ConcatAdjacentSubSeq
  <2>3. SubSeq(u, 1, Len(u)) = u
    BY SubSeqFull
  <2> QED BY <2>2, <2>3 DEF First, Drop
<1>5. (b \o First(u, n)) \o Drop(u, n) = b \o (First(u, n) \o Drop(u, n))
  <2>1. First(u, n) \in Seq(Byte) /\ Drop(u, n) \in Seq(Byte)
    BY <1>2, <1>3
  <2> QED BY <2>1, ConcatGroups, Zenon
<1>6. b \o First(u, n) \in Seq(Byte) /\ Len(b \o First(u, n)) = Len(b) + n
  <2>1. First(u, n) \in Seq(Byte)
    BY <1>2
  <2>2. b \o First(u, n) \in Seq(Byte) /\ Len(b \o First(u, n)) = Len(b) + Len(First(u, n))
    BY <2>1, ConcatLength
  <2> QED BY <1>2, <2>2
<1> QED BY <1>2, <1>3, <1>4, <1>5, <1>6

(* The first position is the first of any that has it. *)
LEMMA FirstIsZero ==
  ASSUME NEW P, P \subseteq Nat, 0 \in P
  PROVE  FirstOf(P) = 0
<1>1. \A d \in P : 0 <= d
  OBVIOUS
<1>2. \E c \in P : \A d \in P : c <= d
  BY <1>1
<1>3. FirstOf(P) \in P /\ \A d \in P : FirstOf(P) <= d
  BY <1>2, Zenon DEF FirstOf
<1>4. FirstOf(P) \in Nat /\ FirstOf(P) <= 0
  BY <1>3
<1> QED BY <1>4

-----------------------------------------------------------------------------
(* Client to agent.                                                        *)

(* The command that is handled next. *)
NextCommand == commandsSent[Len(commandsReceived) + 1]

UpType ==
  /\ up \in Seq(Byte) /\ buffer \in Seq(Byte) /\ Len(buffer) <= BufferSize
  /\ open \in BOOLEAN /\ agent \in {"read", "scan", "reply", "closed"}
  /\ commandsSent \in Seq(Commands) /\ commandsReceived \in Seq(Commands)
  /\ Len(commandsReceived) <= Len(commandsSent)

(* Buffer and stream together are the commands not handled yet, and main   *)
(* reads again only when the first of them is not complete.                *)
UpInv ==
  /\ UpType
  /\ open <=> agent # "closed"
  /\ open => Stream(buffer \o up, commandsSent, Len(commandsReceived))
  /\ agent = "read" /\ Len(commandsReceived) < Len(commandsSent) => Len(buffer) < Size(NextCommand)
  /\ ClosedOnlyByLongPacket

(* The commands of the client can be encoded. *)
LEMMA CommandsWellFormed == Commands \subseteq WellFormed
BY FramingAssumption DEF WellFormed

(* Nothing has been sent to the agent at the start. *)
LEMMA UpInit == Init => UpInv
<1> SUFFICES ASSUME Init PROVE UpInv
  OBVIOUS
<1>1. Stream(buffer \o up, commandsSent, Len(commandsReceived))
  <2>1. <<>> \o <<>> = <<>> /\ Len(<<>>) = 0
    BY EmptySeq, ConcatEmptySeq
  <2> QED BY <2>1, StreamInit DEF Init
<1>2. UpType
  BY FramingAssumption DEF Init, UpType
<1>3. ~(Len(commandsReceived) < Len(commandsSent))
  BY DEF Init
<1> QED BY <1>1, <1>2, <1>3 DEF Init, UpInv, ClosedOnlyByLongPacket

(* Lengths and members of the two histories. *)
LEMMA UpFacts ==
  ASSUME UpInv
  PROVE  /\ commandsSent \in Seq(WellFormed)
         /\ Len(commandsSent) \in Nat /\ Len(commandsReceived) \in 0..Len(commandsSent)
         /\ Len(buffer) \in Nat /\ BufferSize \in Nat /\ BufferSize >= 10
<1>1. commandsSent \in Seq(WellFormed)
  BY CommandsWellFormed, SeqMonotonic DEF UpInv, UpType
<1>2. Len(commandsSent) \in Nat /\ Len(commandsReceived) \in Nat /\ Len(buffer) \in Nat
  BY LenProperties DEF UpInv, UpType
<1> QED BY <1>1, <1>2, FramingAssumption DEF UpInv, UpType

(* A buffer that is not empty holds the beginning of the next command. *)
LEMMA BufferBegins ==
  ASSUME UpInv, open, buffer # <<>>
  PROVE  /\ Len(commandsReceived) < Len(commandsSent)
         /\ Len(buffer) >= 4 => MagicAt(buffer, 0)
         /\ Complete(buffer, 0) <=> Len(buffer) >= Size(NextCommand)
         /\ Complete(buffer, 0) =>
              /\ PacketAt(buffer, 0) = NextCommand
              /\ Drop(buffer, 10 + LengthAt(buffer, 0)) \in Seq(Byte)
              /\ Len(Drop(buffer, 10 + LengthAt(buffer, 0))) <= Len(buffer)
              /\ Stream(Behind(buffer, up), commandsSent, Len(commandsReceived) + 1)
<1>1. /\ buffer \in Seq(Byte) /\ up \in Seq(Byte) /\ commandsSent \in Seq(WellFormed)
      /\ Len(commandsReceived) \in 0..Len(commandsSent)
      /\ Stream(buffer \o up, commandsSent, Len(commandsReceived))
  BY UpFacts DEF UpInv, UpType
<1> QED BY <1>1, Receive DEF NextCommand

(* When there is a prefix in it, it is at its start. *)
LEMMA PrefixAtStart ==
  ASSUME UpInv, open
  PROVE  /\ MagicInBuffer # {} => FirstOf(MagicInBuffer) = 0 /\ buffer # <<>>
         /\ MagicInBuffer = {} => Len(buffer) < 4
<1>0. Len(buffer) \in Nat
  BY UpFacts
<1>1. Len(<<>>) = 0
  OBVIOUS
<1>2. ASSUME Len(buffer) >= 4 PROVE 0 \in MagicInBuffer
  <2>1. buffer # <<>>
    BY <1>1, <1>2
  <2>2. MagicAt(buffer, 0)
    BY <1>2, <2>1, BufferBegins
  <2> QED BY <1>0, <1>2, <2>2 DEF MagicInBuffer
<1>3. MagicInBuffer \subseteq Nat
  BY <1>0 DEF MagicInBuffer
<1>4. ASSUME MagicInBuffer # {} PROVE Len(buffer) >= 4
  BY <1>0, <1>4 DEF MagicInBuffer
<1>5. ASSUME MagicInBuffer # {} PROVE FirstOf(MagicInBuffer) = 0 /\ buffer # <<>>
  <2>1. 0 \in MagicInBuffer
    BY <1>2, <1>4, <1>5
  <2>2. FirstOf(MagicInBuffer) = 0
    BY <1>3, <2>1, FirstIsZero
  <2> QED BY <1>1, <1>4, <1>5, <2>2
<1> QED BY <1>0, <1>2, <1>5

(* One step of the channel from the client to the agent. *)
UpStep == [Up!Next]_<<commandsSent, commandsReceived>>

(* A command that is sent is appended to the stream. *)
LEMMA UpSend ==
  ASSUME UpInv, NEW p \in Commands, SendPacket(p)
  PROVE  UpInv' /\ UpStep
<1> DEFINE m == Len(commandsReceived)
           n == Len(commandsSent)
           s == Append(commandsSent, p)
<1>0. /\ commandsSent' = s /\ commandsReceived' = commandsReceived
      /\ open' = open /\ buffer' = buffer /\ agent' = agent
      /\ up' = IF open THEN up \o Encode(p) ELSE up
  BY DEF SendPacket, agentVars
<1>1. p \in WellFormed /\ Encode(p) \in Seq(Byte)
  BY CommandsWellFormed, EncodeBytes
<1>2. /\ n \in Nat /\ m \in 0..n /\ Len(s) = n + 1 /\ s \in Seq(Commands)
      /\ s[n + 1] = p
  BY UpFacts, AppendProperties DEF UpInv, UpType
<1>3. \A i \in 1..n : s[i] = commandsSent[i]
  BY AppendProperties DEF UpInv, UpType
<1> HIDE DEF m, n, s
<1>4. UpType'
  <2>1. up' \in Seq(Byte)
    BY <1>0, <1>1, ConcatLength DEF UpInv, UpType
  <2>2. Len(commandsReceived)' <= Len(commandsSent)'
    BY <1>0, <1>2 DEF m
  <2> QED BY <1>0, <1>2, <2>1, <2>2 DEF UpInv, UpType
<1>5. ASSUME open PROVE Stream(buffer \o up, commandsSent, Len(commandsReceived))'
  <2>1. /\ buffer \in Seq(Byte) /\ up \in Seq(Byte) /\ commandsSent \in Seq(WellFormed)
        /\ Stream(buffer \o up, commandsSent, m) /\ m \in 0..Len(commandsSent)
    BY <1>2, <1>5, UpFacts DEF UpInv, UpType, m, n
  <2>2. buffer \o up \in Seq(Byte)
    BY <2>1, ConcatLength
  <2>3. Stream((buffer \o up) \o Encode(p), s, m)
    BY <1>1, <2>1, <2>2, StreamSend DEF s
  <2>4. (buffer \o up) \o Encode(p) = buffer \o (up \o Encode(p))
    BY <1>1, <2>1, ConcatGroups, Zenon
  <2> QED BY <1>0, <1>5, <2>3, <2>4 DEF m
<1>6. m < n => s[m + 1] = NextCommand
  <2>1. m < n => m + 1 \in 1..n
    BY <1>2
  <2> QED BY <1>3, <2>1 DEF NextCommand, m
<1>7. NextCommand' = s[m + 1]
  BY <1>0 DEF NextCommand, m
<1>8. ASSUME agent = "read" PROVE (Len(buffer) < Size(NextCommand))'
  <2>1. CASE m < n
    <3>1. Len(buffer) < Size(NextCommand)
      BY <1>8, <2>1 DEF UpInv, m, n
    <3> QED BY <1>0, <1>6, <1>7, <2>1, <3>1
  <2>2. CASE ~(m < n)
    <3>1. m = n
      BY <1>2, <2>2
    <3>2. buffer = <<>>
      BY <1>8, <2>2, BufferBegins DEF UpInv, m, n
    <3>3. Len(buffer) = 0 /\ Size(p) > 0
      <4>1. Len(p.data) \in Nat
        BY <1>1, LenProperties DEF WellFormed, Packet
      <4> QED BY <3>2, <4>1 DEF Size
    <3> QED BY <1>0, <1>2, <1>7, <3>1, <3>3
  <2> QED BY <2>1, <2>2
<1>9. ClosedOnlyByLongPacket'
  <2> SUFFICES ASSUME ~open
               PROVE  m < n + 1 /\ Size(s[m + 1]) > BufferSize
    BY <1>0, <1>2 DEF ClosedOnlyByLongPacket, m
  <2>1. m < n /\ Size(NextCommand) > BufferSize
    BY DEF UpInv, ClosedOnlyByLongPacket, NextCommand, m, n
  <2> QED BY <1>2, <1>6, <2>1
<1>10. UpInv'
  BY <1>0, <1>4, <1>5, <1>8, <1>9 DEF UpInv
<1>11. UpStep
  BY <1>0 DEF UpStep, Up!Next, Up!Send, s
<1> QED BY <1>10, <1>11

(* A read moves any part of what is under way into the buffer. *)
LEMMA UpRead ==
  ASSUME UpInv, Read
  PROVE  UpInv' /\ UpStep
<1>1. PICK n \in 1..Len(up) : /\ n <= Room
                              /\ buffer' = buffer \o First(up, n)
                              /\ up' = Drop(up, n)
  BY DEF Read
<1>2. /\ UNCHANGED <<open, commandsSent, commandsReceived>>
      /\ agent = "read" /\ agent' = "scan" /\ open
  BY DEF Read, commands, UpInv
<1>3. buffer \in Seq(Byte) /\ up \in Seq(Byte) /\ Len(buffer) \in Nat /\ BufferSize \in Nat
  BY UpFacts DEF UpInv, UpType
<1>4. /\ Drop(up, n) \in Seq(Byte) /\ buffer \o First(up, n) \in Seq(Byte)
      /\ Len(buffer \o First(up, n)) = Len(buffer) + n
      /\ (buffer \o First(up, n)) \o Drop(up, n) = buffer \o up
  BY <1>3, ReadBytes
<1>5. Len(buffer') <= BufferSize
  <2>1. Len(up) \in Nat /\ n \in Nat
    BY <1>3, LenProperties
  <2> QED BY <1>1, <1>3, <1>4, <2>1 DEF Room
<1>6. UpType'
  BY <1>1, <1>2, <1>4, <1>5 DEF UpInv, UpType
<1>7. Stream(buffer \o up, commandsSent, Len(commandsReceived))'
  BY <1>1, <1>2, <1>4 DEF UpInv
<1>8. UpInv'
  BY <1>2, <1>6, <1>7 DEF UpInv, ClosedOnlyByLongPacket
<1> QED BY <1>2, <1>8 DEF UpStep

(* The buffer is full without a whole packet only if the packet is too long. *)
LEMMA UpBufferFull ==
  ASSUME UpInv, BufferFull
  PROVE  UpInv' /\ UpStep
<1>1. /\ agent = "read" /\ Room = 0 /\ agent' = "closed" /\ open' = FALSE /\ up' = <<>> /\ open
      /\ UNCHANGED <<buffer, commandsSent, commandsReceived>>
  BY DEF BufferFull, commands, UpInv
<1>2. Len(buffer) \in Nat /\ BufferSize \in Nat /\ BufferSize >= 10
  BY UpFacts
<1>3. Len(buffer) = BufferSize
  BY <1>1, <1>2 DEF Room
<1>4. buffer # <<>>
  <2>1. Len(<<>>) = 0
    OBVIOUS
  <2> QED BY <1>2, <1>3, <2>1
<1>5. Len(commandsReceived) < Len(commandsSent)
  BY <1>1, <1>4, BufferBegins
<1>6. Size(NextCommand) > BufferSize
  <2>1. Len(buffer) < Size(NextCommand)
    BY <1>1, <1>5 DEF UpInv
  <2> QED BY <1>3, <2>1
<1>7. ClosedOnlyByLongPacket'
  BY <1>1, <1>5, <1>6 DEF ClosedOnlyByLongPacket, NextCommand
<1>8. UpType'
  <2>1. up' \in Seq(Byte)
    BY <1>1, EmptySeq
  <2>2. open' \in BOOLEAN
    BY <1>1
  <2> QED BY <1>1, <2>1, <2>2 DEF UpInv, UpType
<1>9. UpInv'
  BY <1>1, <1>7, <1>8 DEF UpInv
<1> QED BY <1>1, <1>9 DEF UpStep

(* A prefix is the next command's, or there are not even four bytes. *)
LEMMA UpScan ==
  ASSUME UpInv, NoMagic \/ Incomplete
  PROVE  UpInv' /\ UpStep
<1>1. /\ agent = "scan" /\ agent' = "read" /\ open
      /\ UNCHANGED <<up, open, commandsSent, commandsReceived>>
  BY DEF NoMagic, Incomplete, connection, commands, UpInv
<1>2. buffer \in Seq(Byte) /\ Len(buffer) \in Nat
  BY UpFacts DEF UpInv, UpType
<1>3. ASSUME NEW p \in WellFormed PROVE Size(p) \in Nat /\ Size(p) >= 10
  <2>1. Len(p.data) \in Nat
    BY LenProperties DEF WellFormed, Packet
  <2> QED BY <2>1 DEF Size
<1>4. Len(commandsReceived) < Len(commandsSent) => NextCommand \in WellFormed
  <2>1. Len(commandsReceived) < Len(commandsSent) => Len(commandsReceived) + 1 \in 1..Len(commandsSent)
    BY UpFacts
  <2> QED BY <2>1, UpFacts, ElementOfSeq DEF NextCommand
<1>5. /\ buffer' = buffer
      /\ Len(commandsReceived) < Len(commandsSent) => Len(buffer) < Size(NextCommand)
  <2>1. CASE NoMagic
    <3>1. buffer' = buffer /\ MagicInBuffer = {}
      BY <2>1 DEF NoMagic
    <3>2. Len(buffer) < 4
      BY <1>1, <3>1, PrefixAtStart
    <3> QED BY <1>2, <1>3, <1>4, <3>1, <3>2
  <2>2. CASE Incomplete
    <3>1. MagicInBuffer # {}
      BY <2>2 DEF Incomplete
    <3>2. FirstOf(MagicInBuffer) = 0 /\ buffer # <<>>
      BY <1>1, <3>1, PrefixAtStart
    <3>3. ~Complete(buffer, 0) /\ buffer' = Drop(buffer, 0)
      BY <2>2, <3>2 DEF Incomplete
    <3>4. Drop(buffer, 0) = buffer
      <4>1. SubSeq(buffer, 1, Len(buffer)) = buffer
        BY <1>2, SubSeqFull
      <4> QED BY <4>1 DEF Drop
    <3>5. ~(Len(buffer) >= Size(NextCommand))
      BY <1>1, <3>2, <3>3, BufferBegins
    <3> QED BY <1>2, <1>3, <1>4, <3>3, <3>4, <3>5
  <2> QED BY <2>1, <2>2
<1>6. UpType' /\ ClosedOnlyByLongPacket'
  BY <1>1, <1>5 DEF UpInv, UpType, ClosedOnlyByLongPacket
<1>7. UpInv'
  BY <1>1, <1>5, <1>6 DEF UpInv, NextCommand
<1> QED BY <1>1, <1>7 DEF UpStep

(* The packet that is handled is the next command. *)
LEMMA UpProcess ==
  ASSUME UpInv, ProcessPacket
  PROVE  /\ UpInv' /\ UpStep
         /\ NextCommand \in Commands /\ agent = "scan"
         /\ out' = [out EXCEPT !["main"] = Reply(NextCommand)]
         /\ agent' = IF Reply(NextCommand) # NoPacket THEN "reply" ELSE "scan"
<1>1. agent = "scan" /\ MagicInBuffer # {} /\ open /\ UNCHANGED <<up, open, commandsSent>>
  BY DEF ProcessPacket, Process, connection, UpInv
<1>2. FirstOf(MagicInBuffer) = 0 /\ buffer # <<>>
  BY <1>1, PrefixAtStart
<1>3. /\ Complete(buffer, 0)
      /\ commandsReceived' = Append(commandsReceived, PacketAt(buffer, 0))
      /\ buffer' = Drop(buffer, 10 + LengthAt(buffer, 0))
      /\ out' = [out EXCEPT !["main"] = Reply(PacketAt(buffer, 0))]
      /\ agent' = IF Reply(PacketAt(buffer, 0)) # NoPacket THEN "reply" ELSE "scan"
  <2>1. 0 + 10 = 10
    OBVIOUS
  <2> QED BY <1>2, <2>1 DEF ProcessPacket, Process
<1>4. /\ Len(commandsReceived) < Len(commandsSent)
      /\ PacketAt(buffer, 0) = NextCommand
      /\ Drop(buffer, 10 + LengthAt(buffer, 0)) \in Seq(Byte)
      /\ Len(Drop(buffer, 10 + LengthAt(buffer, 0))) <= Len(buffer)
      /\ Stream(Behind(buffer, up), commandsSent, Len(commandsReceived) + 1)
  BY <1>1, <1>2, <1>3, BufferBegins
<1>5. NextCommand \in Commands
  <2>1. Len(commandsReceived) + 1 \in 1..Len(commandsSent) /\ commandsSent \in Seq(Commands)
    BY <1>4, UpFacts DEF UpInv, UpType
  <2> QED BY <2>1, ElementOfSeq DEF NextCommand
<1>6. /\ commandsReceived' \in Seq(Commands)
      /\ Len(commandsReceived') = Len(commandsReceived) + 1
  BY <1>3, <1>4, <1>5, AppendProperties DEF UpInv, UpType
<1>7. UpType'
  <2>1. Len(buffer') <= BufferSize
    <3>1. Len(buffer) <= BufferSize /\ Len(buffer) \in Nat /\ BufferSize \in Nat
      BY UpFacts DEF UpInv, UpType
    <3>2. Len(buffer') \in Nat /\ Len(buffer') <= Len(buffer)
      BY <1>3, <1>4, LenProperties
    <3> QED BY <3>1, <3>2
  <2>2. Len(commandsReceived') <= Len(commandsSent')
    BY <1>1, <1>4, <1>6, UpFacts
  <2>3. agent' \in {"read", "scan", "reply", "closed"} /\ buffer' \in Seq(Byte)
    BY <1>3, <1>4
  <2> QED BY <1>1, <1>6, <2>1, <2>2, <2>3 DEF UpInv, UpType
<1>8. Stream(buffer \o up, commandsSent, Len(commandsReceived))'
  BY <1>1, <1>3, <1>4, <1>6 DEF Behind
<1>9. UpInv'
  BY <1>1, <1>3, <1>7, <1>8 DEF UpInv, ClosedOnlyByLongPacket
<1>10. UpStep
  <2>1. commandsReceived' = Append(commandsReceived, commandsSent[Len(commandsReceived) + 1])
    BY <1>3, <1>4 DEF NextCommand
  <2> QED BY <1>1, <1>4, <2>1 DEF UpStep, Up!Next, Up!Deliver
<1> QED BY <1>1, <1>3, <1>4, <1>5, <1>9, <1>10

-----------------------------------------------------------------------------
(* The threads that send.                                                  *)

(* The packets send_packet is called with. *)
Answers == Responses \ {NoPacket}

(* The packets of the agent can be encoded. *)
LEMMA AnswersWellFormed == Answers \subseteq WellFormed
<1>1. ASSUME NEW i \in DOMAIN PipePackets PROVE PipePackets[i] \in WellFormed
  <2>1. PipePackets[i] \in Packet
    BY FramingAssumption, ElementOfSeq, LenProperties
  <2> QED BY <2>1, FramingAssumption DEF WellFormed
<1>2. ASSUME NEW p PROVE Reply(p) \in WellFormed \union {NoPacket}
  <2>1. /\ 82 \in Byte /\ 80 \in Byte /\ 73 \in Byte /\ 69 \in Byte /\ 88 \in Byte /\ 83 \in Byte
        /\ 67 \in Byte /\ 0 \in Byte /\ 1 \in Byte /\ 70 \in Byte
    BY BytesAre
  <2>2. /\ RPIR \in Seq(Byte) /\ Len(RPIR) = 4 /\ REXS \in Seq(Byte) /\ Len(REXS) = 4
        /\ RPRC \in Seq(Byte) /\ Len(RPRC) = 4
    BY <2>1, FourBytes DEF RPIR, REXS, RPRC
  <2>3. ASSUME NEW r \in Seq(Byte), NEW d \in Seq(Byte), Len(r) = 4, Len(d) < 32768
        PROVE  [receiver |-> r, data |-> d] \in WellFormed
    BY <2>3 DEF WellFormed, Packet
  <2> DEFINE d1 == <<0, 0>>
             d2 == <<1>>
             d3 == <<70>>
  <2>4. /\ d1 \in Seq(Byte) /\ Len(d1) < 32768
        /\ d2 \in Seq(Byte) /\ Len(d2) < 32768
        /\ d3 \in Seq(Byte) /\ Len(d3) < 32768
    BY <2>1
  <2> HIDE DEF d1, d2, d3
  <2>5. /\ [receiver |-> RPIR, data |-> d1] \in WellFormed
        /\ [receiver |-> REXS, data |-> d2] \in WellFormed
        /\ [receiver |-> RPRC, data |-> d3] \in WellFormed
    BY <2>2, <2>3, <2>4
  <2> QED BY <2>5 DEF Reply, d1, d2, d3
<1> QED BY <1>1, <1>2 DEF Answers, Responses

SenderInv ==
  /\ mutex \in Threads \union {Nobody}
  /\ out \in [Threads -> Answers \union {NoPacket}] /\ pieces \in [Threads -> 0..3]
  /\ piped \in 0..Len(PipePackets)
  /\ agent = "reply" <=> out["main"] # NoPacket
  /\ \A t \in Threads : /\ mutex = t => out[t] # NoPacket
                        /\ mutex # t => pieces[t] = 0

(* No thread of the agent is sending at the start. *)
LEMMA SenderInit == Init => SenderInv
<1>1. Len(PipePackets) \in Nat
  BY FramingAssumption, LenProperties
<1> QED BY <1>1 DEF Init, SenderInv, Threads, Nobody

(* Only the thread that holds the mutex is between two writes. *)
LEMMA SenderNext ==
  ASSUME UpInv, SenderInv, [Next]_vars
  PROVE  SenderInv'
<1> USE DEF connection, agentVars, senderVars, clientVars, commands, responses
<1>0. "main" \in Threads /\ "pipe" \in Threads /\ Nobody \notin Threads
  BY DEF Threads, Nobody
<1>1. CASE Client \/ (\E p \in Commands : SendPacket(p)) \/ UNCHANGED vars
  <2>1. UNCHANGED <<agent, mutex, out, pieces, piped>>
    BY <1>1 DEF Client, CBRead, ConnectionClosed, WaitForMore, HandlePacket, HandleFirst, SendPacket, vars
  <2> QED BY <2>1 DEF SenderInv
<1>2. CASE Read \/ BufferFull \/ NoMagic \/ Incomplete
  <2>1. UNCHANGED <<mutex, out, pieces, piped>> /\ agent # "reply" /\ agent' # "reply"
    BY <1>2 DEF Read, BufferFull, NoMagic, Incomplete
  <2> QED BY <2>1 DEF SenderInv
<1>3. CASE ProcessPacket
  <2>1. /\ NextCommand \in Commands /\ agent = "scan"
        /\ out' = [out EXCEPT !["main"] = Reply(NextCommand)]
        /\ agent' = IF Reply(NextCommand) # NoPacket THEN "reply" ELSE "scan"
        /\ UNCHANGED <<mutex, pieces, piped>>
    BY <1>3, UpProcess DEF ProcessPacket, Process
  <2>2. Reply(NextCommand) \in Answers \union {NoPacket}
    BY <2>1 DEF Answers, Responses
  <2>3. out["main"] = NoPacket
    BY <2>1 DEF SenderInv
  <2> QED BY <1>0, <2>1, <2>2, <2>3 DEF SenderInv
<1>4. CASE PipeData
  <2>1. /\ out["pipe"] = NoPacket /\ piped < Len(PipePackets) /\ piped' = piped + 1
        /\ out' = [out EXCEPT !["pipe"] = PipePackets[piped + 1]]
        /\ UNCHANGED <<agent, mutex, pieces>>
    BY <1>4 DEF PipeData
  <2>2. piped' \in 0..Len(PipePackets) /\ PipePackets[piped + 1] \in Answers \union {NoPacket}
    <3>1. Len(PipePackets) \in Nat /\ DOMAIN PipePackets = 1..Len(PipePackets)
      BY FramingAssumption, LenProperties
    <3>2. piped + 1 \in DOMAIN PipePackets /\ piped' \in 0..Len(PipePackets)
      BY <2>1, <3>1 DEF SenderInv
    <3> QED BY <3>2 DEF Answers, Responses
  <2>3. /\ out' \in [Threads -> Answers \union {NoPacket}]
        /\ out'["main"] = out["main"]
        /\ \A t \in Threads : mutex = t => out'[t] # NoPacket
    BY <1>0, <2>1, <2>2 DEF SenderInv
  <2> QED BY <2>1, <2>2, <2>3 DEF SenderInv
<1>5. ASSUME NEW t \in Threads, Lock(t) PROVE SenderInv'
  <2>1. /\ mutex = Nobody /\ mutex' = t /\ out[t] # NoPacket
        /\ UNCHANGED <<agent, out, pieces, piped>>
    BY <1>5 DEF Lock, Begin
  <2>2. \A u \in Threads : pieces[u] = 0
    BY <1>0, <2>1 DEF SenderInv
  <2> QED BY <2>1, <2>2 DEF SenderInv
<1>6. ASSUME NEW t \in Threads, Write(t) PROVE SenderInv'
  <2>1. /\ mutex = t /\ pieces[t] < 3 /\ pieces' = [pieces EXCEPT ![t] = pieces[t] + 1]
        /\ UNCHANGED <<agent, mutex, out, piped>>
    BY <1>6 DEF Write
  <2>2. pieces[t] \in 0..3
    BY DEF SenderInv
  <2>3. pieces[t] + 1 \in 0..3
    BY <2>1, <2>2
  <2>4. /\ pieces' \in [Threads -> 0..3]
        /\ \A u \in Threads : mutex # u => pieces'[u] = 0
    BY <2>1, <2>3 DEF SenderInv
  <2> QED BY <2>1, <2>4 DEF SenderInv
<1>7. ASSUME NEW t \in Threads, WriteLast(t) PROVE SenderInv'
  <2>1. /\ mutex = t /\ mutex' = Nobody /\ piped' = piped
        /\ pieces' = [pieces EXCEPT ![t] = 0] /\ out' = [out EXCEPT ![t] = NoPacket]
        /\ agent' = IF t = "main" THEN "scan" ELSE agent
    BY <1>7 DEF WriteLast
  <2>2. /\ out' \in [Threads -> Answers \union {NoPacket}] /\ pieces' \in [Threads -> 0..3]
        /\ \A u \in Threads : pieces'[u] = 0
    BY <2>1 DEF SenderInv
  <2>3. agent' = "reply" <=> out'["main"] # NoPacket
    BY <1>0, <2>1 DEF SenderInv
  <2> QED BY <1>0, <2>1, <2>2, <2>3 DEF SenderInv
<1> QED BY <1>1, <1>2, <1>3, <1>4, <1>5, <1>6, <1>7 DEF Next, Receiver, Sender

(* Every step keeps the stream to the agent. *)
LEMMA UpNext ==
  ASSUME UpInv, SenderInv, [Next]_vars
  PROVE  UpInv' /\ UpStep
<1> USE DEF connection, agentVars, senderVars, clientVars, commands, responses
<1>1. ASSUME NEW p \in Commands, SendPacket(p) PROVE UpInv' /\ UpStep
  BY <1>1, UpSend
<1>2. CASE Receiver
  BY <1>2, UpRead, UpBufferFull, UpScan, UpProcess DEF Receiver
<1>3. ASSUME UNCHANGED <<up, open, buffer, agent, commandsSent, commandsReceived>>
      PROVE  UpInv' /\ UpStep
  BY <1>3 DEF UpInv, UpType, ClosedOnlyByLongPacket, NextCommand, UpStep
<1>4. CASE Client \/ PipeData \/ (\E t \in Threads : Lock(t) \/ Write(t)) \/ UNCHANGED vars
  <2>1. UNCHANGED <<up, open, buffer, agent, commandsSent, commandsReceived>>
    BY <1>4 DEF Client, CBRead, ConnectionClosed, WaitForMore, HandlePacket, HandleFirst, PipeData,
                Lock, Begin, Write, vars
  <2> QED BY <1>3, <2>1
<1>5. ASSUME NEW t \in Threads, WriteLast(t) PROVE UpInv' /\ UpStep
  <2>1. UNCHANGED <<up, open, buffer, commandsSent, commandsReceived>>
    BY <1>5 DEF WriteLast
  <2>2. CASE t = "main"
    <3>1. agent = "reply" /\ agent' = "scan"
      BY <1>5, <2>2 DEF WriteLast, SenderInv
    <3> QED BY <2>1, <3>1 DEF UpInv, UpType, ClosedOnlyByLongPacket, UpStep
  <2>3. CASE t # "main"
    BY <1>3, <1>5, <2>1, <2>3 DEF WriteLast
  <2> QED BY <2>2, <2>3
<1> QED BY <1>1, <1>2, <1>4, <1>5 DEF Next, Sender

-----------------------------------------------------------------------------
(* Agent to client.                                                        *)

(* What is left of a packet after k writes. *)
After(k, a, b, c, d) == IF k = 0 THEN a ELSE IF k = 1 THEN b ELSE IF k = 2 THEN c ELSE d
Rest(p, k) ==
  LET n == WriteInt16(Len(p.data)) IN
  After(k, Magic \o (p.receiver \o (n \o p.data)), p.receiver \o (n \o p.data), n \o p.data, p.data)

(* What the thread that holds the mutex has not written yet. *)
Unwritten == IF mutex = Nobody THEN <<>> ELSE Rest(out[mutex], pieces[mutex])

DownType ==
  /\ down \in Seq(Byte) /\ clientBuffer \in Seq(Byte)
  /\ client \in {"read", "process", "stopped"}
  /\ responsesSent \in Seq(Answers) /\ responsesReceived \in Seq(Answers)
  /\ Len(responsesReceived) <= Len(responsesSent)

(* Buffer, stream and what is still to be written are the packets sent and *)
(* not handled yet.  When the connection is closed something may be lost,  *)
(* but only behind what is there.                                          *)
DownStream(rest) ==
  /\ Stream(clientBuffer \o (down \o rest), responsesSent, Len(responsesReceived))
  /\ open => rest = Unwritten

DownInv == DownType /\ \E rest \in Seq(Byte) : DownStream(rest)

(* One step of the channel from the agent to the client. *)
DownStep == [Down!Next]_<<responsesSent, responsesReceived>>

(* What is left to write of a packet after each of its four pieces. *)
LEMMA RestFacts ==
  ASSUME NEW p \in WellFormed
  PROVE  /\ Rest(p, 0) = Encode(p)
         /\ \A k \in 0..3 : Rest(p, k) \in Seq(Byte) /\ Pieces(p)[k + 1] \in Seq(Byte)
         /\ \A k \in 0..2 : Rest(p, k) = Pieces(p)[k + 1] \o Rest(p, k + 1)
         /\ Rest(p, 3) = Pieces(p)[4]
<1> DEFINE r == p.receiver
           n == WriteInt16(Len(p.data))
           d == p.data
<1>1. r \in Seq(Byte) /\ d \in Seq(Byte) /\ Len(d) \in Nat /\ Len(d) < 32768
  BY LenProperties DEF WellFormed, Packet
<1>2. n \in Seq(Byte) /\ Magic \in Seq(Byte)
  BY <1>1, LengthBytes, MagicBytes
<1>0. r \in Seq(Byte) /\ d \in Seq(Byte)
  BY <1>1
<1>3. /\ Rest(p, 0) = Magic \o (r \o (n \o d)) /\ Rest(p, 1) = r \o (n \o d)
      /\ Rest(p, 2) = n \o d /\ Rest(p, 3) = d
  <2> DEFINE c == n \o d
             b == r \o c
             a == Magic \o b
  <2>1. \A k : Rest(p, k) = After(k, a, b, c, d)
    BY DEF Rest
  <2> HIDE DEF a, b, c, d
  <2>2. Rest(p, 0) = a /\ Rest(p, 1) = b /\ Rest(p, 2) = c /\ Rest(p, 3) = d
    BY <2>1 DEF After
  <2> QED BY <2>2 DEF a, b, c
<1>4. Pieces(p)[1] = Magic /\ Pieces(p)[2] = r /\ Pieces(p)[3] = n /\ Pieces(p)[4] = d
  BY DEF Pieces
<1>5. Encode(p) = ((Magic \o r) \o n) \o d
  BY DEF Encode, Pieces
<1> HIDE DEF r, n, d
<1>6. n \o d \in Seq(Byte) /\ Magic \o r \in Seq(Byte)
  BY <1>1, <1>2, ConcatLength
<1>7. r \o (n \o d) \in Seq(Byte)
  BY <1>1, <1>6, ConcatLength
<1>8. Magic \o (r \o (n \o d)) \in Seq(Byte)
  BY <1>2, <1>7, ConcatLength
<1>9. ((Magic \o r) \o n) \o d = (Magic \o r) \o (n \o d)
  <2> DEFINE h == Magic \o r
  <2>1. h \in Seq(Byte) /\ n \in Seq(Byte) /\ d \in Seq(Byte)
    BY <1>1, <1>2, <1>6
  <2> HIDE DEF h
  <2>2. (h \o n) \o d = h \o (n \o d)
    BY <2>1, ConcatGroups, Zenon
  <2> QED BY <2>2 DEF h
<1>10. (Magic \o r) \o (n \o d) = Magic \o (r \o (n \o d))
  <2> DEFINE g == n \o d
  <2>1. Magic \in Seq(Byte) /\ r \in Seq(Byte) /\ g \in Seq(Byte)
    BY <1>1, <1>2, <1>6
  <2> HIDE DEF g
  <2>2. (Magic \o r) \o g = Magic \o (r \o g)
    BY <2>1, ConcatGroups, Zenon
  <2> QED BY <2>2 DEF g
<1>11. Rest(p, 0) = Encode(p)
  BY <1>3, <1>5, <1>9, <1>10, Zenon
<1>12. ASSUME NEW k \in 0..3 PROVE Rest(p, k) \in Seq(Byte) /\ Pieces(p)[k + 1] \in Seq(Byte)
  <2>1. 0 + 1 = 1 /\ 1 + 1 = 2 /\ 2 + 1 = 3 /\ 3 + 1 = 4 /\ (k = 0 \/ k = 1 \/ k = 2 \/ k = 3)
    OBVIOUS
  <2>2. Rest(p, 0) \in Seq(Byte)
    BY <1>3, <1>8, Zenon
  <2>3. Rest(p, 1) \in Seq(Byte)
    BY <1>3, <1>7, Zenon
  <2>4. Rest(p, 2) \in Seq(Byte)
    BY <1>3, <1>6, Zenon
  <2>5. Rest(p, 3) \in Seq(Byte)
    BY <1>0, <1>3, Zenon
  <2>6. Pieces(p)[0 + 1] \in Seq(Byte)
    BY <1>2, <1>4, <2>1, Zenon
  <2>7. Pieces(p)[1 + 1] \in Seq(Byte)
    BY <1>0, <1>4, <2>1, Zenon
  <2>8. Pieces(p)[2 + 1] \in Seq(Byte)
    BY <1>2, <1>4, <2>1, Zenon
  <2>9. Pieces(p)[3 + 1] \in Seq(Byte)
    BY <1>0, <1>4, <2>1, Zenon
  <2> QED BY <2>1, <2>2, <2>3, <2>4, <2>5, <2>6, <2>7, <2>8, <2>9, Zenon
<1>13. ASSUME NEW k \in 0..2 PROVE Rest(p, k) = Pieces(p)[k + 1] \o Rest(p, k + 1)
  <2>1. 0 + 1 = 1 /\ 1 + 1 = 2 /\ 2 + 1 = 3 /\ (k = 0 \/ k = 1 \/ k = 2)
    OBVIOUS
  <2>2. CASE k = 0
    BY <1>3, <1>4, <2>1, <2>2, Zenon
  <2>3. CASE k = 1
    BY <1>3, <1>4, <2>1, <2>3, Zenon
  <2>4. CASE k = 2
    BY <1>3, <1>4, <2>1, <2>4, Zenon
  <2> QED BY <2>1, <2>2, <2>3, <2>4
<1> QED BY <1>3, <1>4, <1>11, <1>12, <1>13

(* Nothing has been sent to the client at the start. *)
LEMMA DownInit == Init => DownInv
<1> SUFFICES ASSUME Init PROVE DownInv
  OBVIOUS
<1>1. <<>> \o (<<>> \o <<>>) = <<>> /\ Len(<<>>) = 0 /\ <<>> \in Seq(Byte)
  BY EmptySeq, ConcatEmptySeq
<1>2. DownStream(<<>>)
  BY <1>1, StreamInit DEF Init, DownStream, Unwritten
<1>3. DownType
  BY DEF Init, DownType
<1> QED BY <1>1, <1>2, <1>3 DEF DownInv

(* The parts of the invariant about the stream to the client. *)
LEMMA DownFacts ==
  ASSUME DownInv
  PROVE  /\ responsesSent \in Seq(WellFormed)
         /\ Len(responsesSent) \in Nat /\ Len(responsesReceived) \in 0..Len(responsesSent)
         /\ Len(clientBuffer) \in Nat
<1>1. responsesSent \in Seq(WellFormed)
  BY AnswersWellFormed, SeqMonotonic DEF DownInv, DownType
<1>2. Len(responsesSent) \in Nat /\ Len(responsesReceived) \in Nat /\ Len(clientBuffer) \in Nat
  BY LenProperties DEF DownInv, DownType
<1> QED BY <1>1, <1>2 DEF DownInv, DownType

(* send_packet has the mutex: the packet is sent, and all of it unwritten. *)
LEMMA DownLock ==
  ASSUME DownInv, SenderInv, NEW t \in Threads, Lock(t)
  PROVE  DownInv' /\ DownStep
<1>0. PICK p : p = out[t]
  OBVIOUS
<1>1. /\ mutex = Nobody /\ mutex' = t /\ p # NoPacket /\ pieces[t] = 0 /\ t # Nobody
      /\ responsesSent' = Append(responsesSent, p)
      /\ UNCHANGED <<down, open, out, pieces, clientBuffer, client, responsesReceived>>
  BY <1>0 DEF Lock, Begin, connection, clientVars, Threads, Nobody
<1>2. p \in Answers /\ p \in Responses /\ p \in WellFormed /\ Encode(p) \in Seq(Byte)
  <2>1. p \in Answers
    BY <1>0, <1>1 DEF SenderInv
  <2> QED BY <2>1, AnswersWellFormed, EncodeBytes DEF Answers
<1>e. PICK e \in Seq(Byte) : e = Encode(p)
  BY <1>2
<1>3. PICK rest \in Seq(Byte) : DownStream(rest)
  BY DEF DownInv
<1>4. clientBuffer \in Seq(Byte) /\ down \in Seq(Byte) /\ down \o rest \in Seq(Byte)
      /\ clientBuffer \o (down \o rest) \in Seq(Byte) /\ rest \o e \in Seq(Byte)
  BY ConcatLength DEF DownInv, DownType
<1>5. Stream((clientBuffer \o (down \o rest)) \o e, Append(responsesSent, p), Len(responsesReceived))
  BY <1>2, <1>3, <1>4, <1>e, DownFacts, StreamSend DEF DownStream
<1>6. (clientBuffer \o (down \o rest)) \o e = clientBuffer \o (down \o (rest \o e))
  <2>1. (clientBuffer \o (down \o rest)) \o e = clientBuffer \o ((down \o rest) \o e)
    BY <1>4, ConcatGroups, SMTT(30)
  <2>2. (down \o rest) \o e = down \o (rest \o e)
    BY <1>4, ConcatGroups
  <2> QED BY <2>1, <2>2
<1>7. open => rest \o e = Unwritten'
  <2> SUFFICES ASSUME open PROVE rest \o e = Unwritten'
    OBVIOUS
  <2>1. rest = <<>>
    BY <1>1, <1>3 DEF DownStream, Unwritten
  <2>2. rest \o e = e
    BY <2>1, ConcatEmptySeq
  <2>3. Unwritten' = Rest(p, 0)
    BY <1>0, <1>1 DEF Unwritten
  <2> QED BY <1>2, <1>e, <2>2, <2>3, RestFacts
<1>8. DownStream(rest \o e)'
  BY <1>1, <1>5, <1>6, <1>7 DEF DownStream
<1>9. DownType'
  <2>1. /\ responsesSent' \in Seq(Answers) /\ Len(responsesSent') = Len(responsesSent) + 1
    BY <1>1, <1>2, AppendProperties DEF DownInv, DownType
  <2>2. Len(responsesReceived') <= Len(responsesSent')
    BY <1>1, <2>1, DownFacts
  <2> QED BY <1>1, <2>1, <2>2 DEF DownInv, DownType
<1>10. DownInv'
  BY <1>4, <1>8, <1>9 DEF DownInv
<1>11. DownStep
  BY <1>1, <1>2 DEF DownStep, Down!Next, Down!Send
<1> QED BY <1>10, <1>11

(* A write moves the next piece into the stream. *)
LEMMA DownWrite ==
  ASSUME DownInv, SenderInv, NEW t \in Threads, Write(t) \/ WriteLast(t)
  PROVE  DownInv' /\ DownStep
<1> DEFINE p == out[t]
           k == pieces[t]
           w == Pieces(p)[k + 1]
<1>1. /\ mutex = t /\ t # Nobody /\ UNCHANGED <<open, clientBuffer, client, responsesSent, responsesReceived>>
  BY DEF Write, WriteLast, clientVars, responses, Threads, Nobody
<1>2. down' = IF open THEN down \o w ELSE down
  <2>1. CASE Write(t)
    BY <2>1, Zenon DEF Write
  <2>2. CASE WriteLast(t)
    <3>1. k = 3 /\ 3 + 1 = 4
      BY <2>2 DEF WriteLast
    <3>2. Pieces(p)[4] = w
      BY <3>1, Zenon
    <3> QED BY <2>2, <3>2, Zenon DEF WriteLast
  <2> QED BY <2>1, <2>2
<1>3. p \in WellFormed /\ k \in 0..3
  <2>1. p \in Answers /\ k \in 0..3
    BY <1>1 DEF SenderInv
  <2> QED BY <2>1, AnswersWellFormed
<1>4. w \in Seq(Byte) /\ Rest(p, k) \in Seq(Byte)
  BY <1>3, RestFacts
<1>5. Unwritten = Rest(p, k)
  BY <1>1 DEF Unwritten
<1>6. Unwritten' \in Seq(Byte) /\ Rest(p, k) = w \o Unwritten'
  <2>1. CASE Write(t)
    <3>1. mutex' = t /\ out' = out /\ pieces'[t] = k + 1 /\ k \in 0..2 /\ k + 1 \in 0..3
      BY <1>3, <2>1 DEF Write, SenderInv
    <3>2. Unwritten' = Rest(p, k + 1)
      BY <1>1, <3>1 DEF Unwritten
    <3> QED BY <1>3, <3>1, <3>2, RestFacts
  <2>2. CASE WriteLast(t)
    <3>1. mutex' = Nobody /\ k = 3
      BY <2>2 DEF WriteLast
    <3>2. Unwritten' = <<>>
      BY <3>1 DEF Unwritten
    <3>3. Rest(p, 3) = Pieces(p)[4] /\ 3 + 1 = 4
      BY <1>3, RestFacts
    <3>4. Rest(p, k) = w
      BY <3>1, <3>3
    <3>5. w \o <<>> = w
      BY <1>4, ConcatEmptySeq
    <3> QED BY <3>2, <3>4, <3>5, EmptySeq
  <2> QED BY <2>1, <2>2
<1> HIDE DEF p, k, w
<1>7. PICK rest \in Seq(Byte) : DownStream(rest)
  BY DEF DownInv
<1>8. clientBuffer \in Seq(Byte) /\ down \in Seq(Byte)
  BY DEF DownInv, DownType
<1>9. DownType'
  <2>1. down' \in Seq(Byte)
    BY <1>2, <1>4, <1>8, ConcatLength
  <2> QED BY <1>1, <2>1 DEF DownInv, DownType
<1>10. CASE open
  <2>1. rest = w \o Unwritten'
    BY <1>5, <1>6, <1>7, <1>10 DEF DownStream
  <2>2. down \o (w \o Unwritten') = (down \o w) \o Unwritten'
    BY <1>4, <1>6, <1>8, ConcatGroups, ZenonT(60)
  <2>3. DownStream(rest) => Stream(clientBuffer \o (down' \o Unwritten'), responsesSent, Len(responsesReceived))
    BY <1>2, <1>10, <2>1, <2>2 DEF DownStream
  <2>4. PICK v \in Seq(Byte) : v = Unwritten'
    BY <1>6
  <2>5. Stream(clientBuffer \o (down' \o v), responsesSent, Len(responsesReceived))
    BY <1>7, <2>3, <2>4
  <2>6. DownStream(v)'
    BY <1>1, <2>4, <2>5 DEF DownStream
  <2> QED BY <1>1, <1>9, <2>4, <2>6 DEF DownInv, DownStep
<1>11. CASE ~open
  <2>1. DownStream(rest)'
    BY <1>1, <1>2, <1>7, <1>11 DEF DownStream
  <2> QED BY <1>1, <1>9, <2>1 DEF DownInv, DownStep
<1> QED BY <1>10, <1>11

(* The connection is closed: what is under way arrives or does not. *)
LEMMA DownClose ==
  ASSUME DownInv, BufferFull
  PROVE  DownInv' /\ DownStep
<1>1. /\ open' = FALSE /\ down' \in {down, <<>>}
      /\ UNCHANGED <<clientBuffer, client, responsesSent, responsesReceived>>
  BY DEF BufferFull, clientVars, responses
<1>2. PICK rest \in Seq(Byte) : DownStream(rest)
  BY DEF DownInv
<1>3. down \in Seq(Byte) /\ down \o rest \in Seq(Byte) /\ <<>> \in Seq(Byte)
  BY EmptySeq, ConcatLength DEF DownInv, DownType
<1>4. \E v \in Seq(Byte) : DownStream(v)'
  <2>1. CASE down' = down
    BY <1>1, <1>2, <2>1 DEF DownStream
  <2>2. CASE down' = <<>>
    <3>1. down' \o (down \o rest) = down \o rest
      BY <1>3, <2>2, ConcatEmptySeq
    <3>2. PICK v \in Seq(Byte) : v = down \o rest
      BY <1>3
    <3>3. DownStream(v)'
      BY <1>1, <1>2, <3>1, <3>2 DEF DownStream
    <3> QED BY <3>3
  <2> QED BY <1>1, <2>1, <2>2
<1>5. DownType'
  BY <1>1, <1>3 DEF DownInv, DownType
<1> QED BY <1>1, <1>4, <1>5 DEF DownInv, DownStep

(* A read moves bytes into the client's buffer. *)
LEMMA DownRead ==
  ASSUME DownInv, CBRead
  PROVE  DownInv' /\ DownStep
<1>1. PICK n \in 1..Len(down) : /\ clientBuffer' = clientBuffer \o First(down, n)
                                /\ down' = Drop(down, n)
  BY DEF CBRead
<1>2. /\ client' = "process"
      /\ UNCHANGED <<open, mutex, out, pieces, responsesSent, responsesReceived>>
  BY DEF CBRead, senderVars, responses
<1>3. PICK rest \in Seq(Byte) : DownStream(rest)
  BY DEF DownInv
<1>4. clientBuffer \in Seq(Byte) /\ down \in Seq(Byte)
  BY DEF DownInv, DownType
<1>5. PICK a \in Seq(Byte), z \in Seq(Byte) : a = First(down, n) /\ z = Drop(down, n)
  BY <1>4, ReadBytes
<1>6. clientBuffer \o a \in Seq(Byte) /\ a \o z = down /\ z \o rest \in Seq(Byte)
  BY <1>4, <1>5, ReadBytes, ConcatLength
<1>7. (clientBuffer \o a) \o (z \o rest) = clientBuffer \o (down \o rest)
  <2>0. PICK y \in Seq(Byte) : y = z \o rest
    BY <1>6
  <2>a. clientBuffer \in Seq(Byte) /\ a \in Seq(Byte) /\ y \in Seq(Byte)
    BY <1>4
  <2>1. (clientBuffer \o a) \o y = clientBuffer \o (a \o y)
    BY <2>a, ConcatGroups, ZenonT(60)
  <2>2. a \o (z \o rest) = (a \o z) \o rest
    BY <1>3, <1>5, ConcatGroups, ZenonT(60)
  <2> QED BY <1>6, <2>0, <2>1, <2>2, Zenon
<1>8. DownStream(rest)'
  BY <1>1, <1>2, <1>3, <1>5, <1>7 DEF DownStream, Unwritten
<1>9. DownType'
  BY <1>1, <1>2, <1>5, <1>6 DEF DownInv, DownType
<1> QED BY <1>2, <1>3, <1>8, <1>9 DEF DownInv, DownStep

(* The client's buffer holds the beginning of the next packet. *)
LEMMA ClientBegins ==
  ASSUME DownInv, NEW rest \in Seq(Byte), DownStream(rest), Occurances # {}
  PROVE  /\ FirstOf(Occurances) = 0 /\ Len(responsesReceived) < Len(responsesSent)
         /\ Complete(clientBuffer, 0) =>
              /\ PacketAt(clientBuffer, 0) = responsesSent[Len(responsesReceived) + 1]
              /\ Drop(clientBuffer, 10 + LengthAt(clientBuffer, 0)) \in Seq(Byte)
              /\ Stream(Behind(clientBuffer, down \o rest), responsesSent, Len(responsesReceived) + 1)
<1>1. Len(clientBuffer) \in Nat /\ Len(clientBuffer) >= 5
  BY DownFacts DEF Occurances
<1>2. clientBuffer # <<>>
  <2>1. Len(<<>>) = 0
    OBVIOUS
  <2> QED BY <1>1, <2>1
<1>3. PICK u \in Seq(Byte) : u = down \o rest
  BY ConcatLength DEF DownInv, DownType
<1>4. /\ clientBuffer \in Seq(Byte) /\ responsesSent \in Seq(WellFormed)
      /\ Len(responsesReceived) \in 0..Len(responsesSent)
      /\ Stream(clientBuffer \o u, responsesSent, Len(responsesReceived))
  BY <1>3, DownFacts DEF DownInv, DownType, DownStream
<1>5. /\ Len(responsesReceived) < Len(responsesSent)
      /\ Len(clientBuffer) >= 4 => MagicAt(clientBuffer, 0)
      /\ Complete(clientBuffer, 0) =>
           /\ PacketAt(clientBuffer, 0) = responsesSent[Len(responsesReceived) + 1]
           /\ Drop(clientBuffer, 10 + LengthAt(clientBuffer, 0)) \in Seq(Byte)
           /\ Stream(Behind(clientBuffer, u), responsesSent, Len(responsesReceived) + 1)
  BY <1>2, <1>4, Receive
<1>6. 0 \in Occurances /\ Occurances \subseteq Nat
  BY <1>1, <1>5 DEF Occurances
<1>7. FirstOf(Occurances) = 0
  BY <1>6, FirstIsZero
<1> QED BY <1>3, <1>5, <1>7

(* The client waits while the packet at the start of its buffer is not whole. *)
LEMMA DownWait ==
  ASSUME DownInv, WaitForMore
  PROVE  UNCHANGED <<clientBuffer, down, open, mutex, out, pieces, responsesSent, responsesReceived>>
         /\ client' = "read"
<1>1. /\ client' = "read"
      /\ UNCHANGED <<down, open, mutex, out, pieces, responsesSent, responsesReceived>>
  BY DEF WaitForMore, connection, senderVars, responses
<1>2. clientBuffer' = clientBuffer
  <2>1. CASE Occurances = {}
    BY <2>1 DEF WaitForMore
  <2>2. CASE Occurances # {}
    <3>1. PICK rest \in Seq(Byte) : DownStream(rest)
      BY DEF DownInv
    <3>2. FirstOf(Occurances) = 0
      BY <2>2, <3>1, ClientBegins
    <3>3. clientBuffer' = Drop(clientBuffer, 0)
      BY <2>2, <3>2 DEF WaitForMore
    <3>4. SubSeq(clientBuffer, 1, Len(clientBuffer)) = clientBuffer
      BY SubSeqFull DEF DownInv, DownType
    <3> QED BY <3>3, <3>4 DEF Drop
  <2> QED BY <2>1, <2>2
<1> QED BY <1>1, <1>2

(* The packet that is handled is the next one. *)
LEMMA DownHandle ==
  ASSUME DownInv, HandlePacket
  PROVE  DownInv' /\ DownStep
<1>1. /\ Occurances # {} /\ client' = "process"
      /\ UNCHANGED <<down, open, mutex, out, pieces, responsesSent>>
  BY DEF HandlePacket, HandleFirst, connection, senderVars
<1>2. PICK rest \in Seq(Byte) : DownStream(rest)
  BY DEF DownInv
<1>3. FirstOf(Occurances) = 0 /\ Len(responsesReceived) < Len(responsesSent)
  BY <1>1, <1>2, ClientBegins
<1>4. /\ Complete(clientBuffer, 0)
      /\ responsesReceived' = Append(responsesReceived, PacketAt(clientBuffer, 0))
      /\ clientBuffer' = Drop(clientBuffer, 10 + LengthAt(clientBuffer, 0))
  <2>1. 0 + 10 = 10
    OBVIOUS
  <2> QED BY <1>3, <2>1 DEF HandlePacket, HandleFirst
<1>5. /\ PacketAt(clientBuffer, 0) = responsesSent[Len(responsesReceived) + 1]
      /\ Drop(clientBuffer, 10 + LengthAt(clientBuffer, 0)) \in Seq(Byte)
      /\ Stream(Behind(clientBuffer, down \o rest), responsesSent, Len(responsesReceived) + 1)
  BY <1>1, <1>2, <1>4, ClientBegins
<1>6. responsesSent[Len(responsesReceived) + 1] \in Answers
  <2>1. Len(responsesReceived) + 1 \in 1..Len(responsesSent) /\ responsesSent \in Seq(Answers)
    BY <1>3, DownFacts DEF DownInv, DownType
  <2> QED BY <2>1, ElementOfSeq
<1>7. /\ responsesReceived' \in Seq(Answers)
      /\ Len(responsesReceived') = Len(responsesReceived) + 1
  BY <1>4, <1>5, <1>6, AppendProperties DEF DownInv, DownType
<1>8. DownType'
  <2>1. Len(responsesReceived') <= Len(responsesSent')
    BY <1>1, <1>3, <1>7, DownFacts
  <2> QED BY <1>1, <1>4, <1>5, <1>7, <2>1 DEF DownInv, DownType
<1>9. DownStream(rest)'
  <2>1. Stream(clientBuffer \o (down \o rest), responsesSent, Len(responsesReceived))'
    BY <1>1, <1>4, <1>5, <1>7 DEF Behind
  <2>2. (open => rest = Unwritten)'
    BY <1>1, <1>2 DEF DownStream, Unwritten
  <2> QED BY <2>1, <2>2 DEF DownStream
<1>10. DownStep
  BY <1>1, <1>3, <1>4, <1>5 DEF DownStep, Down!Next, Down!Deliver
<1> QED BY <1>8, <1>9, <1>10 DEF DownInv

(* Nothing of the stream changes. *)
LEMMA DownQuiet ==
  ASSUME DownInv, UNCHANGED <<down, open, clientBuffer, responsesSent, responsesReceived>>,
         client' \in {"read", "process", "stopped"}, Unwritten' = Unwritten
  PROVE  DownInv' /\ DownStep
<1>1. PICK rest \in Seq(Byte) : DownStream(rest)
  BY DEF DownInv
<1>2. DownStream(rest)'
  BY <1>1 DEF DownStream
<1>3. DownType'
  BY DEF DownInv, DownType
<1> QED BY <1>2, <1>3 DEF DownInv, DownStep

(* Every step keeps the stream to the client. *)
LEMMA DownNext ==
  ASSUME UpInv, SenderInv, DownInv, [Next]_vars
  PROVE  DownInv' /\ DownStep
<1> USE DEF connection, agentVars, senderVars, clientVars, commands, responses
<1>0. client \in {"read", "process", "stopped"} /\ "main" \in Threads /\ "pipe" \in Threads
  BY DEF DownInv, DownType, Threads
<1>1. CASE ConnectionClosed \/ (\E p \in Commands : SendPacket(p)) \/ Read \/ NoMagic \/ Incomplete
           \/ WaitForMore \/ UNCHANGED vars
  <2>1. /\ UNCHANGED <<down, open, clientBuffer, mutex, out, pieces, responsesSent, responsesReceived>>
        /\ client' \in {"read", "process", "stopped"}
    BY <1>0, <1>1, DownWait DEF ConnectionClosed, SendPacket, Read, NoMagic, Incomplete, vars
  <2>2. Unwritten' = Unwritten
    BY <2>1 DEF Unwritten
  <2> QED BY <2>1, <2>2, DownQuiet
<1>2. CASE ProcessPacket \/ PipeData
  <2>1. PICK t \in Threads : out[t] = NoPacket /\ \E p : out' = [out EXCEPT ![t] = p]
    <3>1. CASE ProcessPacket
      BY <1>0, <3>1, UpProcess DEF SenderInv
    <3>2. CASE PipeData
      BY <1>0, <3>2 DEF PipeData
    <3> QED BY <1>2, <3>1, <3>2
  <2>2. UNCHANGED <<down, open, clientBuffer, client, mutex, pieces, responsesSent, responsesReceived>>
    BY <1>2 DEF ProcessPacket, Process, PipeData
  <2>3. mutex # t
    BY <2>1 DEF SenderInv
  <2>4. Unwritten' = Unwritten
    <3>1. CASE mutex = Nobody
      BY <2>2, <3>1 DEF Unwritten
    <3>2. CASE mutex # Nobody
      <4>1. mutex \in Threads /\ out'[mutex] = out[mutex]
        BY <2>1, <2>3, <3>2 DEF SenderInv
      <4> QED BY <2>2, <3>2, <4>1 DEF Unwritten
    <3> QED BY <3>1, <3>2
  <2> QED BY <1>0, <2>2, <2>4, DownQuiet
<1>3. CASE BufferFull
  BY <1>3, DownClose
<1>4. CASE CBRead
  BY <1>4, DownRead
<1>5. CASE HandlePacket
  BY <1>5, DownHandle
<1>6. ASSUME NEW t \in Threads, Sender(t) PROVE DownInv' /\ DownStep
  BY <1>6, DownLock, DownWrite DEF Sender
<1> QED BY <1>1, <1>2, <1>3, <1>4, <1>5, <1>6 DEF Next, Receiver, Client

-----------------------------------------------------------------------------
(* The theorems.                                                           *)

FramingInv == UpInv /\ SenderInv /\ DownInv

(* The invariant holds throughout. *)
LEMMA FramingInvariant == Spec => []FramingInv
<1>1. Init => FramingInv
  BY UpInit, SenderInit, DownInit DEF FramingInv
<1>2. FramingInv /\ [Next]_vars => FramingInv'
  BY UpNext, SenderNext, DownNext DEF FramingInv
<1> QED BY <1>1, <1>2, PTL DEF Spec

(* The type invariant: receive_packet_loop never writes behind the end of  *)
(* its buffer, whatever is sent.                                           *)
THEOREM FramingTypeCorrect == Spec => []TypeOK
<1>1. FramingInv => TypeOK
  <2> SUFFICES ASSUME FramingInv PROVE TypeOK
    OBVIOUS
  <2>1. Answers \subseteq Packet /\ NoPacket \in Packet /\ Commands \subseteq Packet
    BY AnswersWellFormed, FramingAssumption, EmptySeq DEF WellFormed, NoPacket, Packet
  <2>2. commandsSent \in Seq(Packet) /\ commandsReceived \in Seq(Packet)
    BY <2>1, SeqMonotonic DEF FramingInv, UpInv, UpType
  <2>3. responsesSent \in Seq(Packet) /\ responsesReceived \in Seq(Packet)
    BY <2>1, SeqMonotonic DEF FramingInv, DownInv, DownType
  <2>4. out \in [Threads -> Packet]
    BY <2>1 DEF FramingInv, SenderInv
  <2> QED BY <2>2, <2>3, <2>4 DEF TypeOK, FramingInv, UpInv, UpType, SenderInv, DownInv, DownType
<1> QED BY <1>1, FramingInvariant, PTL

(* The agent gives a connection up only over a packet that does not fit    *)
(* into its buffer: with any other packet at the start of the buffer,      *)
(* receive_packet_loop always has room for a read.                         *)
THEOREM ClosedOnlyOverLongPacket == Spec => []ClosedOnlyByLongPacket
<1>1. FramingInv => ClosedOnlyByLongPacket
  BY DEF FramingInv, UpInv
<1> QED BY <1>1, FramingInvariant, PTL

(* receive_packet_loop implements PacketChannel: commands of any contents, *)
(* in reads of any size, reach process_packet whole and in order.          *)
THEOREM CommandsArriveInOrder == Spec => CommandsInOrder
<1>1. Init => Up!Init
  BY DEF Init, Up!Init
<1>2. FramingInv /\ [Next]_vars => UpStep
  BY UpNext DEF FramingInv
<1> QED BY <1>1, <1>2, FramingInvariant, PTL DEF Spec, CommandsInOrder, Up!Spec, UpStep

(* send_packet and ProcessBuffer implement PacketChannel: what the agent's *)
(* threads send under socket_mutex, four writes for each packet, reaches   *)
(* the client's handlers whole and in the order in which they locked it.   *)
THEOREM ResponsesArriveInOrder == Spec => ResponsesInOrder
<1>1. Init => Down!Init
  BY DEF Init, Down!Init
<1>2. FramingInv /\ [Next]_vars => DownStep
  BY DownNext DEF FramingInv
<1> QED BY <1>1, <1>2, FramingInvariant, PTL DEF Spec, ResponsesInOrder, Down!Spec, DownStep
===============================================================================

-------------------------- MODULE HmacSha256Proofs --------------------------
(***************************************************************************)
(* Theorems on the HMAC of the host build and the comparison with it: for  *)
(* every size of byte, block, length field and digest, every key and       *)
(* message, whatever the buffers held before, and whatever the compression *)
(* function computes.                                                      *)
(***************************************************************************)
EXTENDS HmacSha256, TLAPS

USE HmacAssumption

\* The bytes in front of block q + 1.
Start(q) == q * kBlock

\* Positions of blocks, without multiplication.
LEMMA StartFacts ==
    /\ Start(0) = 0
    /\ \A q \in Nat : Start(q) \in Nat /\ Start(q + 1) = Start(q) + kBlock
    /\ \A q, r \in Nat : q <= r => Start(q) <= Start(r)
  <1>1. Start(0) = 0
    BY DEF Start
  <1>2. \A q \in Nat : Start(q) \in Nat /\ Start(q + 1) = Start(q) + kBlock
    BY DEF Start
  <1>3. ASSUME NEW q \in Nat, NEW r \in Nat, q <= r PROVE Start(q) <= Start(r)
    BY <1>3 DEF Start
  <1> QED
    BY <1>1, <1>2, <1>3

\* The number of blocks is decided by the room left in the last one.
LEMMA BlocksForFacts ==
    ASSUME NEW q \in Nat, NEW d \in 0 .. kBlock - 1
    PROVE  BlocksFor(Start(q) + d) = IF d < kBlock - kLength THEN q + 1 ELSE q + 2
  <1>0. kBlock \in Nat /\ kBlock > 0 /\ kLength \in Nat /\ kLength < kBlock /\ d \in Nat
    OBVIOUS
  <1>1. ASSUME NEW p \in Nat, NEW r \in 0 .. kBlock - 1
        PROVE  (p * kBlock + r) \div kBlock = p
    BY <1>0
  <1>2. CASE d < kBlock - kLength
    <2>1. d + kLength \in 0 .. kBlock - 1
      BY <1>0, <1>2
    <2>2. (q * kBlock + d) + kLength = q * kBlock + (d + kLength)
      BY <1>0
    <2> QED
      BY <1>0, <1>1, <1>2, <2>1, <2>2 DEF BlocksFor, Start
  <1>3. CASE ~(d < kBlock - kLength)
    <2>1. d + kLength - kBlock \in 0 .. kBlock - 1
      BY <1>0, <1>3
    <2>2. (q * kBlock + d) + kLength = (q + 1) * kBlock + (d + kLength - kBlock)
      BY <1>0
    <2> QED
      BY <1>0, <1>1, <1>3, <2>1, <2>2 DEF BlocksFor, Start
  <1> QED
    BY <1>2, <1>3

-----------------------------------------------------------------------------
CtxType ==
    /\ fed \in Seq(Byte) /\ data \in Block /\ blocks \in Seq(Block)
    /\ datalen \in 0 .. kBlock - 1 /\ bitlen \in Nat

(***************************************************************************)
(* What a context that is being fed holds: the blocks it has absorbed and  *)
(* the data still in its buffer are the bytes it was given, in order.      *)
(***************************************************************************)
Holds ==
    /\ CtxType
    /\ Len(fed) = Start(Len(blocks)) + datalen
    /\ bitlen = Start(Len(blocks)) * CHAR_BIT
    /\ \A i \in 1 .. Len(blocks), j \in 1 .. kBlock :
          blocks[i][j] = fed[Start(i - 1) + j]
    /\ \A j \in 1 .. datalen : data[j] = fed[Start(Len(blocks)) + j]

LEMMA InitHolds == sha256_init /\ data' \in Block => Holds'
  <1> SUFFICES ASSUME sha256_init, data' \in Block PROVE Holds'
    OBVIOUS
  <1>1. kBlock \in Nat \ {0} /\ CHAR_BIT \in Nat
    OBVIOUS
  <1>2. CtxType'
    BY <1>1 DEF sha256_init, CtxType
  <1> QED
    BY <1>1, <1>2 DEF sha256_init, Holds, Start

LEMMA Places ==
    ASSUME NEW q \in Nat, NEW i \in 1 .. q, NEW j \in 1 .. kBlock
    PROVE  Start(i - 1) + j \in 1 .. Start(q) /\ i - 1 \in Nat
  <1>1. i - 1 \in Nat /\ i \in Nat /\ i <= q /\ kBlock \in Nat
    OBVIOUS
  <1>2. Start(i) = Start(i - 1) + kBlock /\ Start(i) <= Start(q)
    <2>1. (i - 1) + 1 = i
      BY <1>1
    <2> QED
      BY <1>1, <2>1, StartFacts
  <1>3. Start(i - 1) \in Nat /\ Start(q) \in Nat
    BY <1>1, StartFacts
  <1> QED
    BY <1>1, <1>2, <1>3

\* A byte goes behind the others, and completes a block at times.
LEMMA UpdateHolds ==
    ASSUME Holds, NEW b \in Byte, sha256_update(b)
    PROVE  Holds'
  <1> DEFINE n == Len(fed)
             q == Len(blocks)
  <1>0. /\ kBlock \in Nat \ {0} /\ CHAR_BIT \in Nat /\ n \in Nat /\ q \in Nat
        /\ fed \in Seq(Byte) /\ data \in Block /\ blocks \in Seq(Block)
        /\ datalen \in 0 .. kBlock - 1 /\ bitlen \in Nat
        /\ Start(q) \in Nat /\ Start(q + 1) = Start(q) + kBlock
        /\ n = Start(q) + datalen
    <2>1. /\ fed \in Seq(Byte) /\ data \in Block /\ blocks \in Seq(Block)
          /\ datalen \in 0 .. kBlock - 1 /\ bitlen \in Nat /\ n = Start(q) + datalen
      BY DEF Holds, CtxType
    <2>2. n \in Nat /\ q \in Nat
      BY <2>1
    <2>3. kBlock \in Nat \ {0} /\ CHAR_BIT \in Nat
      OBVIOUS
    <2> QED
      BY <2>1, <2>2, <2>3, StartFacts
  <1>1. /\ data' = [data EXCEPT ![datalen + 1] = b] /\ data' \in Block
        /\ data'[datalen + 1] = b
        /\ \A j \in 1 .. datalen : data'[j] = data[j]
    BY <1>0 DEF sha256_update, Block
  <1>2. /\ fed' \in Seq(Byte) /\ Len(fed') = n + 1 /\ fed'[n + 1] = b
        /\ \A p \in 1 .. n : fed'[p] = fed[p]
    BY <1>0 DEF sha256_update
  <1>3. \A j \in 1 .. datalen + 1 : data'[j] = fed'[Start(q) + j]
    <2>1. \A j \in 1 .. datalen : Start(q) + j \in 1 .. n
      BY <1>0
    <2>2. ASSUME NEW j \in 1 .. datalen
          PROVE  data'[j] = fed'[Start(q) + j]
      <3>1. data[j] = fed[Start(q) + j]
        BY DEF Holds
      <3> QED
        BY <1>1, <1>2, <2>1, <3>1
    <2>3. data'[datalen + 1] = fed'[Start(q) + (datalen + 1)]
      <3>1. Start(q) + (datalen + 1) = n + 1
        BY <1>0
      <3> QED
        BY <1>1, <1>2, <3>1
    <2>4. \A j \in 1 .. datalen + 1 : j \in 1 .. datalen \/ j = datalen + 1
      BY <1>0
    <2> QED
      BY <2>2, <2>3, <2>4
  <1>4. \A i \in 1 .. q, j \in 1 .. kBlock : blocks[i][j] = fed'[Start(i - 1) + j]
    <2>1. ASSUME NEW i \in 1 .. q, NEW j \in 1 .. kBlock
          PROVE  Start(i - 1) + j \in 1 .. n
      <3>1. Start(i - 1) + j \in 1 .. Start(q)
        BY <1>0, Places
      <3> QED
        BY <1>0, <3>1
    <2> QED
      BY <1>0, <1>2, <2>1 DEF Holds
  <1>5. CASE datalen + 1 < kBlock
    <2>1. datalen' = datalen + 1 /\ blocks' = blocks /\ bitlen' = bitlen
      BY <1>0, <1>5 DEF sha256_update
    <2>2. CtxType'
      <3>1. datalen' \in 0 .. kBlock - 1 /\ bitlen' \in Nat
        BY <1>0, <1>5, <2>1
      <3>2. fed' \in Seq(Byte) /\ data' \in Block /\ blocks' \in Seq(Block)
        BY <1>0, <1>1, <1>2, <2>1
      <3> QED
        BY <3>1, <3>2 DEF CtxType
    <2>3. Len(fed') = Start(Len(blocks')) + datalen'
      BY <1>0, <1>2, <2>1
    <2>4. bitlen' = Start(Len(blocks')) * CHAR_BIT
      BY <2>1 DEF Holds
    <2> QED
      BY <1>3, <1>4, <2>1, <2>2, <2>3, <2>4 DEF Holds, Start
  <1>6. CASE datalen + 1 = kBlock
    <2>1. /\ datalen' = 0 /\ bitlen' = bitlen + kBlock * CHAR_BIT
          /\ blocks' = Append(blocks, data')
      BY <1>0, <1>6 DEF sha256_update
    <2>2. /\ blocks' \in Seq(Block) /\ Len(blocks') = q + 1 /\ blocks'[q + 1] = data'
          /\ \A i \in 1 .. q : blocks'[i] = blocks[i]
      BY <1>0, <1>1, <2>1
    <2>3. CtxType'
      <3>0. kBlock * CHAR_BIT \in Nat
        <4>1. \A m, c \in Nat : m * c \in Nat
          OBVIOUS
        <4> QED
          BY <1>0, <4>1
      <3>1. datalen' \in 0 .. kBlock - 1
        BY <1>0, <2>1
      <3>3. bitlen' \in Nat
        <4>1. \A c \in Nat : bitlen + c \in Nat
          BY <1>0
        <4> QED
          BY <2>1, <3>0, <4>1
      <3>2. fed' \in Seq(Byte) /\ data' \in Block /\ blocks' \in Seq(Block)
        BY <1>0, <1>1, <1>2, <2>2
      <3> QED
        BY <3>1, <3>3, <3>2 DEF CtxType
    <2>4. Len(fed') = Start(Len(blocks')) + datalen'
      BY <1>0, <1>2, <1>6, <2>1, <2>2
    <2>5. bitlen' = Start(Len(blocks')) * CHAR_BIT
      <3>1. bitlen = Start(q) * CHAR_BIT
        BY DEF Holds
      <3> QED
        BY <1>0, <2>1, <2>2, <3>1
    <2>6. \A i \in 1 .. q + 1, j \in 1 .. kBlock : blocks'[i][j] = fed'[Start(i - 1) + j]
      <3>1. ASSUME NEW i \in 1 .. q + 1, NEW j \in 1 .. kBlock
            PROVE  blocks'[i][j] = fed'[Start(i - 1) + j]
        <4>1. CASE i \in 1 .. q
          BY <1>4, <2>2, <4>1
        <4>2. CASE i = q + 1
          BY <1>0, <1>3, <1>6, <2>2, <4>2
        <4> QED
          BY <1>0, <4>1, <4>2
      <3> QED
        BY <3>1
    <2> QED
      BY <1>0, <2>1, <2>2, <2>3, <2>4, <2>5, <2>6 DEF Holds, Start
  <1> QED
    BY <1>0, <1>5, <1>6

LEMMA ByteFacts ==
    /\ Zero \in Byte /\ Mark \in Byte
    /\ \A n, i : LengthByte(n, i) \in Byte
  BY DEF Zero, Byte, LengthByte

\* The padded form, byte by byte, with the place where the length goes.
LEMMA PaddedBytes ==
    ASSUME NEW m \in Seq(Byte), NEW e \in Nat,
           e = Start(BlocksFor(Len(m))) - kLength, Len(m) + 1 <= e
    PROVE  /\ \A p \in 1 .. Len(m) : PaddedByte(m, p) = m[p]
           /\ PaddedByte(m, Len(m) + 1) = Mark
           /\ \A p \in Len(m) + 2 .. e : PaddedByte(m, p) = Zero
           /\ \A p \in Nat : p > e =>
                 PaddedByte(m, p) = LengthByte(Len(m) * CHAR_BIT, p - e)
  <1>0. Len(m) \in Nat
    OBVIOUS
  <1>1. \A p : PaddedByte(m, p) =
                 IF p <= Len(m) THEN m[p]
                 ELSE IF p = Len(m) + 1 THEN Mark
                 ELSE IF p <= e THEN Zero
                 ELSE LengthByte(Len(m) * CHAR_BIT, p - e)
    BY DEF PaddedByte, Start
  <1> QED
    BY <1>0, <1>1

\* One block or two behind those absorbed.
LEMMA Joined ==
    ASSUME NEW S, NEW s \in Seq(S), NEW a \in S, NEW b \in S
    PROVE  /\ s \o <<a>> \in Seq(S) /\ Len(s \o <<a>>) = Len(s) + 1
           /\ (s \o <<a>>)[Len(s) + 1] = a
           /\ \A i \in 1 .. Len(s) : (s \o <<a>>)[i] = s[i]
           /\ s \o <<a, b>> \in Seq(S) /\ Len(s \o <<a, b>>) = Len(s) + 2
           /\ (s \o <<a, b>>)[Len(s) + 1] = a /\ (s \o <<a, b>>)[Len(s) + 2] = b
           /\ \A i \in 1 .. Len(s) : (s \o <<a, b>>)[i] = s[i]
  <1>1. Len(s) \in Nat
    OBVIOUS
  <1>2. /\ s \o <<a>> \in Seq(S) /\ Len(s \o <<a>>) = Len(s) + 1
        /\ s \o <<a, b>> \in Seq(S) /\ Len(s \o <<a, b>>) = Len(s) + 2
    OBVIOUS
  <1>3. /\ (s \o <<a>>)[Len(s) + 1] = a
        /\ \A i \in 1 .. Len(s) : (s \o <<a>>)[i] = s[i]
    BY <1>1
  <1>4. (s \o <<a, b>>)[Len(s) + 1] = a /\ (s \o <<a, b>>)[Len(s) + 2] = b
    BY <1>1
  <1>5. \A i \in 1 .. Len(s) : (s \o <<a, b>>)[i] = s[i]
    BY <1>1
  <1> QED
    BY <1>2, <1>3, <1>4, <1>5

LEMMA Last ==
    ASSUME NEW q \in Nat, NEW k \in Nat \ {0}
    PROVE  /\ k <= q + 1 => k \in 1 .. q \/ k = q + 1
           /\ k <= q + 2 => k \in 1 .. q \/ k = q + 1 \/ k = q + 2
  OBVIOUS

(***************************************************************************)
(* sha256_final(): with room for the length behind the mark, one block     *)
(* closes the message, otherwise two.                                      *)
(***************************************************************************)
LEMMA FinalPadded ==
    ASSUME Holds, sha256_final
    PROVE  blocks' = Padded(fed) /\ blocks' \in Seq(Block) /\ data' \in Block
  <1> DEFINE n == Len(fed)
             q == Len(blocks)
             len == bitlen + datalen * CHAR_BIT
             room == kBlock - kLength
  <1>0. /\ kBlock \in Nat \ {0} /\ CHAR_BIT \in Nat /\ n \in Nat /\ q \in Nat
        /\ kLength \in Nat /\ room \in 1 .. kBlock
        /\ fed \in Seq(Byte) /\ data \in Block /\ blocks \in Seq(Block)
        /\ datalen \in 0 .. kBlock - 1 /\ bitlen \in Nat
        /\ n = Start(q) + datalen
        /\ Start(q) \in Nat /\ Start(q + 1) = Start(q) + kBlock
        /\ Start(q + 2) = Start(q) + kBlock + kBlock
    <2>1. /\ fed \in Seq(Byte) /\ data \in Block /\ blocks \in Seq(Block)
          /\ datalen \in 0 .. kBlock - 1 /\ bitlen \in Nat /\ n = Start(q) + datalen
      BY DEF Holds, CtxType
    <2>2. n \in Nat /\ q \in Nat
      BY <2>1
    <2>3. /\ kBlock \in Nat \ {0} /\ CHAR_BIT \in Nat
          /\ kLength \in Nat /\ room \in 1 .. kBlock
      OBVIOUS
    <2>4. q + 1 \in Nat /\ (q + 1) + 1 = q + 2
      BY <2>2
    <2>5. /\ Start(q) \in Nat /\ Start(q + 1) = Start(q) + kBlock
          /\ Start(q + 2) = Start(q + 1) + kBlock
      BY <2>2, <2>4, StartFacts
    <2> QED
      BY <2>1, <2>2, <2>3, <2>5
  <1>1. len = n * CHAR_BIT
    <2>1. bitlen = Start(q) * CHAR_BIT
      BY DEF Holds
    <2>2. \A a, b, c \in Nat : (a + b) * c = a * c + b * c
      OBVIOUS
    <2> QED
      BY <1>0, <2>1, <2>2
  <1>2. ASSUME NEW e \in Nat, e = Start(BlocksFor(n)) - kLength, n + 1 <= e
        PROVE  /\ \A i \in 1 .. q, j \in 1 .. kBlock :
                     PaddedByte(fed, Start(i - 1) + j) = blocks[i][j]
               /\ \A j \in 1 .. kBlock :
                     /\ j <= datalen => PaddedByte(fed, Start(q) + j) = data[j]
                     /\ j = datalen + 1 => PaddedByte(fed, Start(q) + j) = Mark
    <2>1. ASSUME NEW i \in 1 .. q, NEW j \in 1 .. kBlock
          PROVE  PaddedByte(fed, Start(i - 1) + j) = blocks[i][j]
      <3>1. Start(i - 1) + j \in 1 .. n
        <4>1. Start(i - 1) + j \in 1 .. Start(q)
          BY <1>0, Places
        <4> QED
          BY <1>0, <4>1
      <3>2. blocks[i][j] = fed[Start(i - 1) + j]
        BY DEF Holds
      <3> QED
        BY <1>0, <1>2, <3>1, <3>2, PaddedBytes
    <2>2. ASSUME NEW j \in 1 .. kBlock, j <= datalen
          PROVE  PaddedByte(fed, Start(q) + j) = data[j]
      <3>1. Start(q) + j \in 1 .. n /\ j \in 1 .. datalen
        BY <1>0, <2>2
      <3>2. data[j] = fed[Start(q) + j]
        BY <3>1 DEF Holds
      <3> QED
        BY <1>0, <1>2, <3>1, <3>2, PaddedBytes
    <2>3. ASSUME NEW j \in 1 .. kBlock, j = datalen + 1
          PROVE  PaddedByte(fed, Start(q) + j) = Mark
      <3>1. Start(q) + j = n + 1
        BY <1>0, <2>3
      <3> QED
        BY <1>0, <1>2, <3>1, PaddedBytes
    <2> QED
      BY <2>1, <2>2, <2>3
  <1>3. blocks' = blocks \o Closing /\ data' = Closing[Len(Closing)]
    BY DEF sha256_final
  <1>4. CASE datalen < room
    <2> DEFINE c == WithLength(Marked(room), len)
               e == Start(q) + room
    <2>1. Closing = <<c>>
      BY <1>4 DEF Closing
    <2>2. BlocksFor(n) = q + 1
      BY <1>0, <1>4, BlocksForFacts
    <2>3. e \in Nat /\ e = Start(BlocksFor(n)) - kLength /\ n + 1 <= e
      BY <1>0, <1>4, <2>2
    <2>4. /\ c = [i \in 1 .. kBlock |->
                     IF i <= room THEN Marked(room)[i] ELSE LengthByte(len, i - room)]
          /\ Marked(room) =
                [i \in 1 .. kBlock |->
                   IF i = datalen + 1 THEN Mark
                   ELSE IF i \in datalen + 2 .. room THEN Zero
                   ELSE data[i]]
      BY DEF WithLength, Marked
    <2>5. c \in Block
      <3>1. \A i \in 1 .. kBlock : data[i] \in Byte
        BY <1>0 DEF Block
      <3>2. Marked(room) \in Block
        BY <2>4, <3>1, ByteFacts DEF Block
      <3> QED
        BY <2>4, <3>2, ByteFacts DEF Block
    <2>6. ASSUME NEW j \in 1 .. kBlock
          PROVE  PaddedByte(fed, Start(q) + j) = c[j]
      <3>1. CASE j <= datalen
        <4>1. c[j] = data[j]
          BY <1>0, <1>4, <2>4, <3>1
        <4> QED
          BY <1>2, <2>3, <3>1, <4>1
      <3>2. CASE j = datalen + 1
        <4>1. c[j] = Mark
          BY <1>0, <1>4, <2>4, <3>2
        <4> QED
          BY <1>2, <2>3, <3>2, <4>1
      <3>3. CASE j \in datalen + 2 .. room
        <4>1. c[j] = Zero
          <5>1. j <= room /\ j # datalen + 1
            BY <1>0, <3>3
          <5>2. Marked(room)[j] = Zero
            BY <2>4, <3>3, <5>1
          <5> QED
            BY <2>4, <5>1, <5>2
        <4>2. Start(q) + j \in n + 2 .. e
          BY <1>0, <3>3
        <4> QED
          BY <1>0, <2>3, <4>1, <4>2, PaddedBytes
      <3>4. CASE j > room
        <4>1. c[j] = LengthByte(len, j - room)
          <5>1. ~(j <= room)
            BY <1>0, <3>4
          <5> QED
            BY <2>4, <5>1
        <4>2. Start(q) + j \in Nat /\ Start(q) + j > e /\ (Start(q) + j) - e = j - room
          BY <1>0, <3>4
        <4>3. PaddedByte(fed, Start(q) + j) = LengthByte(n * CHAR_BIT, (Start(q) + j) - e)
          BY <1>0, <2>3, <4>2, PaddedBytes
        <4> QED
          BY <1>1, <4>1, <4>2, <4>3
      <3> QED
        BY <1>0, <3>1, <3>2, <3>3, <3>4
    <2>7. /\ blocks' \in Seq(Block) /\ Len(blocks') = q + 1 /\ blocks'[q + 1] = c
          /\ \A i \in 1 .. q : blocks'[i] = blocks[i]
      <3>1. blocks' = blocks \o <<c>> /\ blocks \in Seq(Block)
        BY <1>0, <1>3, <2>1
      <3> HIDE DEF c
      <3> QED
        BY <2>5, <3>1, Joined
    <2>8. ASSUME NEW i \in 1 .. q + 1
          PROVE  blocks'[i] = [j \in 1 .. kBlock |-> PaddedByte(fed, (i - 1) * kBlock + j)]
      <3>1. blocks'[i] \in Block
        BY <2>7
      <3>2. \A j \in 1 .. kBlock : blocks'[i][j] = PaddedByte(fed, Start(i - 1) + j)
        <4>1. CASE i \in 1 .. q
          BY <1>2, <2>3, <2>7, <4>1
        <4>2. CASE i = q + 1
          <5>1. i - 1 = q
            BY <1>0, <4>2
          <5> QED
            BY <2>6, <2>7, <4>2, <5>1
        <4>3. i \in 1 .. q \/ i = q + 1
          <5>1. q \in Nat /\ i \in Nat \ {0} /\ i <= q + 1
            BY <1>0
          <5> QED
            BY <5>1, Last
        <4> QED
          BY <4>1, <4>2, <4>3
      <3> QED
        BY <3>1, <3>2 DEF Start, Block
    <2>9. blocks' = [i \in 1 .. q + 1 |-> blocks'[i]]
      BY <2>7
    <2>10. blocks' = Padded(fed)
      BY <2>2, <2>8, <2>9 DEF Padded
    <2> QED
      BY <1>3, <2>1, <2>5, <2>7, <2>10
  <1>5. CASE ~(datalen < room)
    <2> DEFINE c == Marked(kBlock)
               f == WithLength(ZeroFilled(<<>>), len)
               e == Start(q) + kBlock + room
    <2>1. Closing = <<c, f>>
      BY <1>5 DEF Closing
    <2>2. BlocksFor(n) = q + 2
      BY <1>0, <1>5, BlocksForFacts
    <2>3. e \in Nat /\ e = Start(BlocksFor(n)) - kLength /\ n + 1 <= e
      BY <1>0, <1>5, <2>2
    <2>4. /\ c = [i \in 1 .. kBlock |->
                     IF i = datalen + 1 THEN Mark
                     ELSE IF i \in datalen + 2 .. kBlock THEN Zero
                     ELSE data[i]]
          /\ f = [i \in 1 .. kBlock |->
                     IF i <= room THEN Zero ELSE LengthByte(len, i - room)]
      <3>1. ZeroFilled(<<>>) = [i \in 1 .. kBlock |-> Zero]
        BY DEF ZeroFilled
      <3> QED
        BY <3>1 DEF WithLength, Marked
    <2>5. c \in Block /\ f \in Block
      <3>1. \A i \in 1 .. kBlock : data[i] \in Byte
        BY <1>0 DEF Block
      <3> QED
        BY <2>4, <3>1, ByteFacts DEF Block
    <2>6. ASSUME NEW j \in 1 .. kBlock
          PROVE  PaddedByte(fed, Start(q) + j) = c[j]
      <3>1. CASE j <= datalen
        <4>1. c[j] = data[j]
          BY <1>0, <2>4, <3>1
        <4> QED
          BY <1>2, <2>3, <3>1, <4>1
      <3>2. CASE j = datalen + 1
        <4>1. c[j] = Mark
          BY <1>0, <2>4, <3>2
        <4> QED
          BY <1>2, <2>3, <3>2, <4>1
      <3>3. CASE j \in datalen + 2 .. kBlock
        <4>1. c[j] = Zero
          BY <1>0, <2>4, <3>3
        <4>2. Start(q) + j \in n + 2 .. e
          BY <1>0, <3>3
        <4> QED
          BY <1>0, <2>3, <4>1, <4>2, PaddedBytes
      <3> QED
        BY <1>0, <3>1, <3>2, <3>3
    <2>7. ASSUME NEW j \in 1 .. kBlock
          PROVE  PaddedByte(fed, Start(q + 1) + j) = f[j]
      <3>1. CASE j <= room
        <4>1. f[j] = Zero
          BY <2>4, <3>1
        <4>2. Start(q + 1) + j \in n + 2 .. e
          BY <1>0, <3>1
        <4> QED
          BY <1>0, <2>3, <4>1, <4>2, PaddedBytes
      <3>2. CASE ~(j <= room)
        <4>1. f[j] = LengthByte(len, j - room)
          BY <2>4, <3>2
        <4>2. /\ Start(q + 1) + j \in Nat /\ Start(q + 1) + j > e
              /\ (Start(q + 1) + j) - e = j - room
          BY <1>0, <3>2
        <4>3. PaddedByte(fed, Start(q + 1) + j) = LengthByte(n * CHAR_BIT, (Start(q + 1) + j) - e)
          BY <1>0, <2>3, <4>2, PaddedBytes
        <4> QED
          BY <1>1, <4>1, <4>2, <4>3
      <3> QED
        BY <3>1, <3>2
    <2>8. /\ blocks' \in Seq(Block) /\ Len(blocks') = q + 2
          /\ blocks'[q + 1] = c /\ blocks'[q + 2] = f
          /\ \A i \in 1 .. q : blocks'[i] = blocks[i]
      <3>1. blocks' = blocks \o <<c, f>> /\ blocks \in Seq(Block)
        BY <1>0, <1>3, <2>1
      <3> HIDE DEF c, f
      <3> QED
        BY <2>5, <3>1, Joined
    <2>9. ASSUME NEW i \in 1 .. q + 2
          PROVE  blocks'[i] = [j \in 1 .. kBlock |-> PaddedByte(fed, (i - 1) * kBlock + j)]
      <3>1. blocks'[i] \in Block
        BY <2>8
      <3>2. \A j \in 1 .. kBlock : blocks'[i][j] = PaddedByte(fed, Start(i - 1) + j)
        <4>1. CASE i \in 1 .. q
          BY <1>2, <2>3, <2>8, <4>1
        <4>2. CASE i = q + 1
          <5>1. i - 1 = q
            BY <1>0, <4>2
          <5> QED
            BY <2>6, <2>8, <4>2, <5>1
        <4>3. CASE i = q + 2
          <5>1. i - 1 = q + 1
            BY <1>0, <4>3
          <5> QED
            BY <2>7, <2>8, <4>3, <5>1
        <4>4. i \in 1 .. q \/ i = q + 1 \/ i = q + 2
          <5>1. q \in Nat /\ i \in Nat \ {0} /\ i <= q + 2
            BY <1>0
          <5> QED
            BY <5>1, Last
        <4> QED
          BY <4>1, <4>2, <4>3, <4>4
      <3> QED
        BY <3>1, <3>2 DEF Start, Block
    <2>10. blocks' = [i \in 1 .. q + 2 |-> blocks'[i]]
      BY <2>8
    <2>11. blocks' = Padded(fed)
      BY <2>2, <2>9, <2>10 DEF Padded
    <2> QED
      BY <1>3, <2>1, <2>5, <2>8, <2>11
  <1> QED
    BY <1>4, <1>5

-----------------------------------------------------------------------------
Digests == [1 .. kSha256Len -> Byte]

\* What the helpers return.
LEMMA Types ==
    /\ Block \subseteq Seq(Byte) /\ Digests \subseteq Seq(Byte)
    /\ \A bs : Digest(bs) \in Digests
    /\ \A s \in Seq(Byte) : ZeroFilled(s) \in Block
    /\ \A s \in Seq(Byte), b \in Byte : XorAll(s, b) \in Seq(Byte)
    /\ \A k \in Seq(Byte) : Key0(k) \in Block
  <1>1. Block \subseteq Seq(Byte) /\ Digests \subseteq Seq(Byte)
    BY DEF Block, Digests
  <1>2. \A bs : Digest(bs) \in Digests
    BY DEF Digest, Digests, Byte
  <1>3. ASSUME NEW s \in Seq(Byte) PROVE ZeroFilled(s) \in Block
    <2>1. \A i \in 1 .. kBlock : i <= Len(s) => s[i] \in Byte
      OBVIOUS
    <2> QED
      BY <2>1, ByteFacts DEF ZeroFilled, Block
  <1>4. ASSUME NEW s \in Seq(Byte), NEW b \in Byte PROVE XorAll(s, b) \in Seq(Byte)
    <2>1. \A i \in DOMAIN s : Xor(s[i], b) \in Byte
      <3>1. \A i \in DOMAIN s : s[i] \in Byte
        OBVIOUS
      <3> QED
        BY <3>1 DEF Xor, Byte
    <2>2. DOMAIN s = 1 .. Len(s) /\ Len(s) \in Nat
      OBVIOUS
    <2>3. XorAll(s, b) \in [1 .. Len(s) -> Byte]
      BY <2>1, <2>2 DEF XorAll
    <2> QED
      BY <2>2, <2>3
  <1>5. ASSUME NEW k \in Seq(Byte) PROVE Key0(k) \in Block
    BY <1>1, <1>2, <1>3 DEF Key0, Hash
  <1> QED
    BY <1>1, <1>2, <1>3, <1>4, <1>5

\* The accumulated difference vanishes exactly if all bytes agree.
LEMMA Equality ==
    ASSUME NEW a \in Digests, NEW b \in Digests
    PROVE  constant_time_equal(a, b, kSha256Len) <=> a = b
  <1>1. NULL \notin {a, b}
    BY DEF Digests
  <1>2. \A i \in 1 .. kSha256Len : Xor(a[i], b[i]) = {} <=> a[i] = b[i]
    BY DEF Xor
  <1>3. UNION {Xor(a[i], b[i]) : i \in 1 .. kSha256Len} = {}
          <=> \A i \in 1 .. kSha256Len : Xor(a[i], b[i]) = {}
    OBVIOUS
  <1>4. a = b <=> \A i \in 1 .. kSha256Len : a[i] = b[i]
    BY DEF Digests
  <1> QED
    BY <1>1, <1>2, <1>3, <1>4 DEF constant_time_equal

LEMMA Sequences ==
    ASSUME NEW s \in Seq(Byte), NEW t \in Seq(Byte)
    PROVE  /\ s \o <<>> = s /\ <<>> \o s = s
           /\ t # <<>> => /\ Head(t) \in Byte /\ Tail(t) \in Seq(Byte)
                         /\ Append(s, Head(t)) \o Tail(t) = s \o t
  <1>1. s \o <<>> = s /\ <<>> \o s = s
    OBVIOUS
  <1>2. ASSUME t # <<>>
        PROVE  /\ Head(t) \in Byte /\ Tail(t) \in Seq(Byte)
               /\ Append(s, Head(t)) \o Tail(t) = s \o t
    BY <1>2
  <1> QED
    BY <1>1, <1>2

-----------------------------------------------------------------------------
Feeding == {"key", "ipad", "msg", "opad", "digest"}

\* The call's arguments, its build and its result at each place of the code.
PlaceInv ==
    /\ build \in {"host", "target"} /\ data \in Block
    /\ key \in Seq(Byte) \cup {NULL} /\ msg \in Seq(Byte) \cup {NULL}
    /\ pc \notin {"idle", "done"} => NULL \notin {key, msg}
    /\ result = "OK" => pc = "done"
    /\ pc = "mbedtls" => build = "target"

\* What a pass has still to absorb is the rest of what it is to absorb.
FeedInv ==
    /\ buf \in Seq(Byte)
    /\ pc \in Feeding => Holds
    /\ pc \notin Feeding => buf = <<>>
    /\ pc = "key" => fed \o buf = key /\ LongKey(key)
    /\ pc = "ipad" => fed \o buf = XorAll(k0, Ipad)
    /\ pc = "msg" => fed \o buf = XorAll(k0, Ipad) \o msg
    /\ pc = "opad" => fed \o buf = XorAll(k0, Opad)
    /\ pc = "digest" => fed \o buf = XorAll(k0, Opad) \o inner

\* The key and the inner digest, once computed, are the standard's.
BufferInv ==
    /\ pc \in {"short", "hashed", "ipad", "msg", "outer", "opad", "digest"}
         => k0 = Key0(key)
    /\ pc \in {"outer", "opad", "digest"}
         => inner = Hash(XorAll(Key0(key), Ipad) \o msg)

HmacInv ==
    /\ PlaceInv /\ FeedInv /\ BufferInv
    /\ AbsorbedIsPadded /\ OutIsHmac /\ AcceptedIsMac

LEMMA HmacInitInv == HmacInit => HmacInv
  <1> SUFFICES ASSUME HmacInit PROVE HmacInv
    OBVIOUS
  <1>1. ZeroFilled(<<>>) \in Block
    <2>1. <<>> \in Seq(Byte)
      OBVIOUS
    <2> QED
      BY <2>1, Types
  <1> QED
    BY <1>1 DEF HmacInit, HmacInv, PlaceInv, FeedInv, BufferInv, Feeding,
         AbsorbedIsPadded, OutIsHmac, AcceptedIsMac

\* The end of a pass: what it was to absorb, it has.
LEMMA PassEnds ==
    ASSUME HmacInv, pc \in Feeding, buf = <<>>, sha256_final
    PROVE  /\ blocks' = Padded(fed) /\ data' \in Block /\ fed' = fed
           /\ Digest(blocks') = Hash(fed)
           /\ pc = "key" => fed = key
           /\ pc = "msg" => fed = XorAll(k0, Ipad) \o msg
           /\ pc = "digest" => fed = XorAll(k0, Opad) \o inner
  <1>1. Holds /\ fed \in Seq(Byte)
    BY DEF HmacInv, FeedInv, Holds, CtxType
  <1>2. blocks' = Padded(fed) /\ data' \in Block /\ fed' = fed
    BY <1>1, FinalPadded DEF sha256_final
  <1>3. fed \o buf = fed
    BY <1>1
  <1> QED
    BY <1>2, <1>3 DEF HmacInv, FeedInv, Hash

LEMMA CallStep ==
    ASSUME HmacInv, NEW k \in Keys, NEW m \in Messages, hmac_sha256(k, m)
    PROVE  HmacInv'
  <1>1. k \in Seq(Byte) \cup {NULL} /\ m \in Seq(Byte) \cup {NULL}
    OBVIOUS
  <1>2. data' \in Block /\ sha256_init /\ Holds'
    BY InitHolds DEF hmac_sha256
  <1>3. pc = "idle" /\ buf = <<>> /\ result # "OK" /\ build \in {"host", "target"}
    BY DEF hmac_sha256, HmacInv, PlaceInv, FeedInv, Feeding
  <1>4. fed' = <<>> /\ key' = k /\ msg' = m /\ build' = build
    BY <1>2 DEF hmac_sha256, sha256_init
  <1>5. CASE NULL \in {k, m} /\ pc' = "done" /\ result' = "BAD_HMAC" /\ UNCHANGED <<k0, buf>>
    BY <1>1, <1>2, <1>3, <1>4, <1>5 DEF HmacInv, PlaceInv, FeedInv, BufferInv, Feeding,
         AbsorbedIsPadded, OutIsHmac, AcceptedIsMac
  <1>6. CASE /\ NULL \notin {k, m} /\ build = "target" /\ pc' = "mbedtls"
             /\ UNCHANGED <<k0, buf, result>>
    BY <1>1, <1>2, <1>3, <1>4, <1>6 DEF HmacInv, PlaceInv, FeedInv, BufferInv, Feeding,
         AbsorbedIsPadded, OutIsHmac, AcceptedIsMac
  <1>7. CASE /\ NULL \notin {k, m} /\ LongKey(k) /\ pc' = "key" /\ buf' = k
             /\ UNCHANGED <<k0, result>>
    <2>1. fed' \o buf' = k /\ k \in Seq(Byte)
      BY <1>1, <1>4, <1>7, Sequences
    <2> QED
      BY <1>1, <1>2, <1>3, <1>4, <1>7, <2>1 DEF HmacInv, PlaceInv, FeedInv, BufferInv,
         Feeding, LongKey, AbsorbedIsPadded, OutIsHmac, AcceptedIsMac
  <1>8. CASE /\ NULL \notin {k, m} /\ ~LongKey(k) /\ pc' = "short" /\ k0' = ZeroFilled(k)
             /\ UNCHANGED <<buf, result>>
    <2>1. k0' = Key0(k)
      BY <1>8 DEF Key0, LongKey
    <2> QED
      BY <1>1, <1>2, <1>3, <1>4, <1>8, <2>1 DEF HmacInv, PlaceInv, FeedInv, BufferInv,
         Feeding, AbsorbedIsPadded, OutIsHmac, AcceptedIsMac
  <1> QED
    BY <1>5, <1>6, <1>7, <1>8 DEF hmac_sha256

LEMMA AbsorbStep == ASSUME HmacInv, Absorb PROVE HmacInv'
  <1>1. /\ pc \in Feeding /\ Holds /\ fed \in Seq(Byte) /\ buf \in Seq(Byte) /\ buf # <<>>
    BY DEF HmacInv, FeedInv, Absorb, Holds, CtxType
  <1>2. Head(buf) \in Byte /\ Tail(buf) \in Seq(Byte)
        /\ Append(fed, Head(buf)) \o Tail(buf) = fed \o buf
    BY <1>1, Sequences
  <1>3. Holds'
    BY <1>1, <1>2, UpdateHolds DEF Absorb
  <1>4. /\ fed' \o buf' = fed \o buf /\ buf' \in Seq(Byte) /\ data' \in Block
        /\ UNCHANGED <<build, key, msg, pc, k0, inner, out, response, result>>
    BY <1>2, <1>3 DEF Absorb, sha256_update, Holds, CtxType, frame, verdict
  <1> QED
    BY <1>1, <1>3, <1>4 DEF HmacInv, PlaceInv, FeedInv, BufferInv, Feeding,
         AbsorbedIsPadded, OutIsHmac, AcceptedIsMac

LEMMA EndKeyStep == ASSUME HmacInv, EndKey PROVE HmacInv'
  <1>1. /\ blocks' = Padded(fed) /\ data' \in Block /\ fed' = fed
        /\ Digest(blocks') = Hash(key)
    BY PassEnds DEF EndKey, Feeding
  <1>2. k0' = Key0(key)
    BY <1>1 DEF EndKey, HmacInv, FeedInv, LongKey, Key0
  <1> QED
    BY <1>1, <1>2 DEF EndKey, HmacInv, PlaceInv, FeedInv, BufferInv, Feeding, frame, verdict,
         AbsorbedIsPadded, OutIsHmac, AcceptedIsMac

LEMMA StartStep == ASSUME HmacInv, StartInner \/ StartOuter PROVE HmacInv'
  <1>1. pc \in {"short", "hashed", "outer"} /\ key \in Seq(Byte) /\ k0 = Key0(key)
    BY DEF StartInner, StartOuter, HmacInv, PlaceInv, BufferInv
  <1>2. XorAll(k0, Ipad) \in Seq(Byte) /\ XorAll(k0, Opad) \in Seq(Byte)
    BY <1>1, Types
  <1>3. data' \in Block /\ sha256_init /\ Holds' /\ fed' = <<>>
    <2>1. data' \in Block /\ sha256_init
      BY DEF StartInner, StartOuter, HmacInv, PlaceInv
    <2> QED
      BY <2>1, InitHolds DEF sha256_init
  <1>4. buf' \in Seq(Byte) /\ fed' \o buf' = buf'
    BY <1>2, <1>3, Sequences DEF StartInner, StartOuter
  <1>5. CASE StartInner
    BY <1>1, <1>3, <1>4, <1>5 DEF StartInner, HmacInv, PlaceInv, FeedInv, BufferInv, Feeding,
         frame, verdict, AbsorbedIsPadded, OutIsHmac, AcceptedIsMac
  <1>6. CASE StartOuter
    BY <1>1, <1>3, <1>4, <1>6 DEF StartOuter, HmacInv, PlaceInv, FeedInv, BufferInv, Feeding,
         frame, verdict, AbsorbedIsPadded, OutIsHmac, AcceptedIsMac
  <1> QED
    BY <1>5, <1>6

LEMMA UpdateStep == ASSUME HmacInv, UpdateMessage \/ UpdateInner PROVE HmacInv'
  <1>1. /\ pc \in Feeding /\ Holds /\ fed \in Seq(Byte) /\ buf = <<>> /\ msg \in Seq(Byte)
        /\ UNCHANGED <<fed, blocks, bitlen, data, datalen>>
    BY DEF UpdateMessage, UpdateInner, HmacInv, PlaceInv, FeedInv, Feeding, Holds, CtxType, ctx
  <1>2. fed \o buf = fed
    BY <1>1, Sequences
  <1>3. Holds'
    BY <1>1 DEF Holds, CtxType
  <1>4. CASE UpdateMessage
    BY <1>1, <1>2, <1>3, <1>4 DEF UpdateMessage, HmacInv, PlaceInv, FeedInv, BufferInv,
         Feeding, frame, verdict, AbsorbedIsPadded, OutIsHmac, AcceptedIsMac
  <1>5. CASE UpdateInner
    <2>1. inner \in Seq(Byte)
      BY <1>5, Types DEF UpdateInner, HmacInv, BufferInv, Hash
    <2> QED
      BY <1>1, <1>2, <1>3, <1>5, <2>1 DEF UpdateInner, HmacInv, PlaceInv, FeedInv, BufferInv,
         Feeding, frame, verdict, AbsorbedIsPadded, OutIsHmac, AcceptedIsMac
  <1> QED
    BY <1>4, <1>5

LEMMA EndStep == ASSUME HmacInv, EndInner \/ EndOuter PROVE HmacInv'
  <1>1. /\ blocks' = Padded(fed) /\ data' \in Block /\ fed' = fed
        /\ Digest(blocks') = Hash(fed)
        /\ pc = "msg" => fed = XorAll(k0, Ipad) \o msg
        /\ pc = "digest" => fed = XorAll(k0, Opad) \o inner
    BY PassEnds DEF EndInner, EndOuter, Feeding
  <1>2. CASE EndInner
    <2>1. inner' = Hash(XorAll(Key0(key), Ipad) \o msg)
      BY <1>1, <1>2 DEF EndInner, HmacInv, BufferInv
    <2> QED
      BY <1>1, <1>2, <2>1 DEF EndInner, HmacInv, PlaceInv, FeedInv, BufferInv, Feeding,
         frame, verdict, AbsorbedIsPadded, OutIsHmac, AcceptedIsMac
  <1>3. CASE EndOuter
    <2>1. out' = HMAC(key, msg)
      BY <1>1, <1>3 DEF EndOuter, HmacInv, BufferInv, HMAC
    <2> QED
      BY <1>1, <1>3, <2>1 DEF EndOuter, HmacInv, PlaceInv, FeedInv, BufferInv, Feeding,
         frame, verdict, AbsorbedIsPadded, OutIsHmac, AcceptedIsMac
  <1> QED
    BY <1>2, <1>3

LEMMA MbedTlsStep == ASSUME HmacInv, MbedTls PROVE HmacInv'
  BY DEF MbedTls, HmacInv, PlaceInv, FeedInv, BufferInv, Feeding, frame, ctx,
         AbsorbedIsPadded, OutIsHmac, AcceptedIsMac

LEMMA CompareStep ==
    ASSUME HmacInv, NEW r \in Digests, Compare(r)
    PROVE  HmacInv'
  <1>1. out = HMAC(key, msg) /\ out \in Digests
    BY Types DEF Compare, HmacInv, OutIsHmac, HMAC, Hash
  <1>2. /\ pc' = "done" /\ response' = r
        /\ result' = IF r = HMAC(key, msg) THEN "OK" ELSE "BAD_HMAC"
    BY <1>1, Equality DEF Compare
  <1> QED
    BY <1>1, <1>2 DEF Compare, HmacInv, PlaceInv, FeedInv, BufferInv, Feeding, frame, ctx,
         AbsorbedIsPadded, OutIsHmac, AcceptedIsMac

THEOREM HmacInvariance == HmacSpec => []HmacInv
  <1>1. ASSUME HmacInv, [HmacNext]_hmacVars PROVE HmacInv'
    <2>1. CASE UNCHANGED hmacVars
      <3>1. UNCHANGED <<build, key, msg, pc, buf, k0, inner, out, blocks, bitlen, data,
                        datalen, response, result, fed>>
        BY <2>1 DEF hmacVars, frame, ctx, verdict
      <3>2. Holds' <=> Holds
        BY <3>1 DEF Holds, CtxType
      <3>3. PlaceInv' /\ FeedInv' /\ BufferInv'
        BY <1>1, <3>1, <3>2 DEF HmacInv, PlaceInv, FeedInv, BufferInv
      <3>4. AbsorbedIsPadded' /\ OutIsHmac' /\ AcceptedIsMac'
        BY <1>1, <3>1 DEF HmacInv, AbsorbedIsPadded, OutIsHmac, AcceptedIsMac
      <3> QED
        BY <3>3, <3>4 DEF HmacInv
    <2>2. CASE HmacNext
      BY <1>1, <2>2, CallStep, AbsorbStep, EndKeyStep, StartStep, UpdateStep, EndStep,
         MbedTlsStep, CompareStep DEF HmacNext, Digests
    <2> QED
      BY <1>1, <2>1, <2>2
  <1> QED
    BY <1>1, HmacInitInv, PTL DEF HmacSpec

(***************************************************************************)
(* sha256_final()'s padding: what the host's context has absorbed is the   *)
(* padded form of what it was given, for every size of block, length field *)
(* and byte and every length of key and message.                           *)
(***************************************************************************)
THEOREM AlwaysPadded == HmacSpec => []AbsorbedIsPadded
  <1>1. HmacInv => AbsorbedIsPadded
    BY DEF HmacInv
  <1> QED
    BY <1>1, HmacInvariance, PTL

(***************************************************************************)
(* hmac_wrapper.h, "the two paths are bit-compatible": both compute the    *)
(* HMAC of RFC 2104, over every compression function.                      *)
(***************************************************************************)
THEOREM AlwaysHmac == HmacSpec => []OutIsHmac
  <1>1. HmacInv => OutIsHmac
    BY DEF HmacInv
  <1> QED
    BY <1>1, HmacInvariance, PTL

(***************************************************************************)
(* verify_response() accepts nothing but the MAC, once it was computed.    *)
(***************************************************************************)
THEOREM OnlyMacAccepted == HmacSpec => []AcceptedIsMac
  <1>1. HmacInv => AcceptedIsMac
    BY DEF HmacInv
  <1> QED
    BY <1>1, HmacInvariance, PTL
=============================================================================

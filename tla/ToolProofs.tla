----------------------------- MODULE ToolProofs -----------------------------
(***************************************************************************)
(* Proofs about keosd and the encodings, for strings and texts of any      *)
(* length, a buffer of any size, a database of any blocks, and lists of    *)
(* any number of transactions.                                             *)
(***************************************************************************)
EXTENDS Tool, ReadApiProofs, SequenceTheorems, WellFoundedInduction

-----------------------------------------------------------------------------
(***************************************************************************)
(* The hex encodings.                                                      *)
(***************************************************************************)

(* The smaller of two numbers. *)
LEMMA MinOfTwo ==
    ASSUME NEW a \in Nat, NEW b \in Nat
    PROVE  Min({a, b}) = IF a <= b THEN a ELSE b
  BY DEF Min

(* The halves of a byte make the byte. *)
LEMMA HalfBytes ==
    ASSUME NEW c \in 0 .. 255
    PROVE  /\ c \div 16 \in 0 .. 15
           /\ c % 16 \in 0 .. 15
           /\ 16 * (c \div 16) + (c % 16) = c
  <1>1. c \div 16 \in 0 .. 15
    OBVIOUS
  <1>2. c % 16 \in 0 .. 15
    OBVIOUS
  <1>3. c = 16 * (c \div 16) + (c % 16)
    OBVIOUS
  <1> QED BY <1>1, <1>2, <1>3

(* A sequence over a set is one over every larger set. *)
LEMMA WiderSeq ==
    ASSUME NEW S, NEW T, S \subseteq T, NEW s \in Seq(S)
    PROVE  s \in Seq(T)
  OBVIOUS

(* A function on 1 .. n is a sequence of length n. *)
LEMMA SeqOfFun ==
    ASSUME NEW S, NEW n \in Nat, NEW f \in [1 .. n -> S]
    PROVE  f \in Seq(S) /\ Len(f) = n
  <1>1. f \in Seq(S)
    OBVIOUS
  <1>2. Len(f) \in Nat /\ DOMAIN f = 1 .. Len(f) /\ DOMAIN f = 1 .. n
    BY <1>1
  <1>3. \A a, b \in Nat : 1 .. a = 1 .. b => a = b
    <2> SUFFICES ASSUME NEW a \in Nat, NEW b \in Nat, 1 .. a = 1 .. b, a # b PROVE FALSE
      OBVIOUS
    <2>1. CASE a < b
      <3>1. b \in 1 .. b /\ b \notin 1 .. a
        BY <2>1
      <3> QED BY <3>1
    <2>2. CASE b < a
      <3>1. a \in 1 .. a /\ a \notin 1 .. b
        BY <2>2
      <3> QED BY <3>1
    <2> QED BY <2>1, <2>2
  <1> QED BY <1>1, <1>2, <1>3

(* to_hex writes two digits for each byte. *)
LEMMA ToHexFacts ==
    ASSUME NEW bytes \in Seq(Byte)
    PROVE  /\ ToHex(bytes) \in Seq(0 .. 15)
           /\ Len(ToHex(bytes)) = 2 * Len(bytes)
           /\ \A i \in 1 .. Len(bytes) :
                 /\ ToHex(bytes)[2 * i - 1] = bytes[i] \div 16
                 /\ ToHex(bytes)[2 * i] = bytes[i] % 16
  <1> DEFINE n == Len(bytes)
             text == ToHex(bytes)
  <1>1. n \in Nat /\ 2 * n \in Nat
    OBVIOUS
  <1>2. \A i \in 1 .. n : bytes[i] \in Byte
    OBVIOUS
  <1>3. ASSUME NEW k \in 1 .. 2 * n PROVE (k + 1) \div 2 \in 1 .. n
    BY <1>1
  <1>4. ASSUME NEW c \in Byte PROVE c \div 16 \in 0 .. 15 /\ c % 16 \in 0 .. 15
    BY DEF Byte
  <1>5. ASSUME NEW k \in 1 .. 2 * n
        PROVE  /\ text[k] = IF k % 2 = 1 THEN bytes[(k + 1) \div 2] \div 16
                                         ELSE bytes[(k + 1) \div 2] % 16
               /\ text[k] \in 0 .. 15
    <2>1. text[k] = IF k % 2 = 1 THEN bytes[(k + 1) \div 2] \div 16
                                 ELSE bytes[(k + 1) \div 2] % 16
      BY DEF ToHex
    <2> QED BY <1>2, <1>3, <1>4, <2>1
  <1>6. text = [k \in 1 .. 2 * n |-> text[k]]
    BY DEF ToHex
  <1> HIDE DEF text, n
  <1>7. text \in Seq(0 .. 15) /\ Len(text) = 2 * n
    <2>1. text \in [1 .. 2 * n -> 0 .. 15]
      BY <1>5, <1>6
    <2> QED BY <1>1, <2>1, SeqOfFun
  <1>8. ASSUME NEW i \in 1 .. n
        PROVE  text[2 * i - 1] = bytes[i] \div 16 /\ text[2 * i] = bytes[i] % 16
    <2>1. /\ 2 * i - 1 \in 1 .. 2 * n /\ 2 * i \in 1 .. 2 * n
          /\ (2 * i - 1) % 2 = 1 /\ (2 * i) % 2 = 0
          /\ (2 * i - 1 + 1) \div 2 = i /\ (2 * i + 1) \div 2 = i
      BY <1>1
    <2> QED BY <1>5, <2>1
  <1> QED BY <1>7, <1>8 DEF text, n

(* A digit is 0 .. 15, and the digits that to_hex writes are themselves. *)
LEMMA DigitFacts ==
    ASSUME NEW c \in Nat
    PROVE  /\ CharOK(c) => HexDigit(c) \in 0 .. 15
           /\ c \in 0 .. 15 => CharOK(c) /\ HexDigit(c) = c
  BY DEF CharOK, HexDigit

(* The characters from_hex looks at, and the bytes it writes. *)
Used(text, room) == IF Len(text) <= 2 * room THEN Len(text) ELSE 2 * room

LEMMA FromHexFacts ==
    ASSUME NEW text \in Seq(Nat), NEW room \in Nat, NEW bytes \in FromHex(text, room)
    PROVE  /\ \A i \in 1 .. Used(text, room) : CharOK(text[i])
           /\ bytes \in Seq(Byte)
           /\ Len(bytes) = (Used(text, room) + 1) \div 2
           /\ \A i \in 1 .. Len(bytes) :
                 bytes[i] = HexDigit(text[2 * i - 1]) * 16
                    + (IF 2 * i <= Used(text, room) THEN HexDigit(text[2 * i]) ELSE 0)
  <1> DEFINE m == Used(text, room)
             used == SubSeq(text, 1, Min({Len(text), 2 * room}))
             n == (m + 1) \div 2
  <1>1. m \in Nat /\ m <= Len(text) /\ Min({Len(text), 2 * room}) = m
    BY MinOfTwo DEF Used
  <1>2. Len(used) = m /\ DOMAIN used = 1 .. m /\ \A i \in 1 .. m : used[i] = text[i] /\ text[i] \in Nat
    <2>1. PICK k \in Nat : k = m /\ k <= Len(text) /\ used = SubSeq(text, 1, k)
      BY <1>1
    <2>2. /\ Len(SubSeq(text, 1, k)) = k /\ DOMAIN SubSeq(text, 1, k) = 1 .. k
          /\ \A i \in 1 .. k : SubSeq(text, 1, k)[i] = text[i] /\ text[i] \in Nat
      BY <2>1
    <2> HIDE DEF m, used
    <2> QED BY <2>1, <2>2
  <1>3. /\ \A i \in DOMAIN used : CharOK(used[i])
        /\ bytes = [i \in 1 .. (Len(used) + 1) \div 2 |->
              [k \in DOMAIN used |-> HexDigit(used[k])][2 * i - 1] * 16
                 + (IF 2 * i <= Len(used)
                    THEN [k \in DOMAIN used |-> HexDigit(used[k])][2 * i] ELSE 0)]
    BY DEF FromHex
  <1> HIDE DEF used, m
  <1>4. \A i \in 1 .. m : CharOK(text[i]) /\ HexDigit(text[i]) \in 0 .. 15
    BY <1>2, <1>3, DigitFacts
  <1>5. n \in Nat /\ DOMAIN bytes = 1 .. n
    BY <1>1, <1>2, <1>3
  <1>6. ASSUME NEW i \in 1 .. n
        PROVE  /\ bytes[i] = HexDigit(text[2 * i - 1]) * 16
                     + (IF 2 * i <= m THEN HexDigit(text[2 * i]) ELSE 0)
               /\ bytes[i] \in Byte
    <2>1. 2 * i - 1 \in 1 .. m /\ (2 * i <= m => 2 * i \in 1 .. m)
      BY <1>1
    <2>2. bytes[i] = HexDigit(text[2 * i - 1]) * 16
                     + (IF 2 * i <= m THEN HexDigit(text[2 * i]) ELSE 0)
      BY <1>2, <1>3, <2>1
    <2>3. PICK hi \in 0 .. 15 : hi = HexDigit(text[2 * i - 1])
      BY <1>4, <2>1
    <2>4. PICK lo \in 0 .. 15 : lo = IF 2 * i <= m THEN HexDigit(text[2 * i]) ELSE 0
      BY <1>4, <2>1
    <2>5. bytes[i] = hi * 16 + lo
      BY <2>2, <2>3, <2>4
    <2>6. bytes[i] \in Byte
      BY <2>5 DEF Byte
    <2> QED BY <2>2, <2>6
  <1>7. bytes = [i \in 1 .. n |-> bytes[i]]
    BY <1>3, <1>2
  <1>8. bytes \in Seq(Byte) /\ Len(bytes) = n
    <2> HIDE DEF n
    <2>1. bytes \in [1 .. n -> Byte]
      BY <1>6, <1>7
    <2> QED BY <1>5, <2>1, SeqOfFun
  <1> QED BY <1>4, <1>6, <1>8 DEF m

(* from_hex fails only on a character that is no digit. *)
LEMMA FromHexDefined ==
    ASSUME NEW text \in Seq(0 .. 15), NEW room \in Nat
    PROVE  \E bytes : FromHex(text, room) = {bytes}
  <1> DEFINE used == SubSeq(text, 1, Min({Len(text), 2 * room}))
  <1>1. PICK k \in Nat : k <= Len(text) /\ used = SubSeq(text, 1, k)
    BY MinOfTwo
  <1>2. \A i \in DOMAIN SubSeq(text, 1, k) : SubSeq(text, 1, k)[i] \in 0 .. 15
    BY <1>1
  <1>3. \A c \in 0 .. 15 : CharOK(c)
    BY DEF CharOK
  <1>4. \A i \in DOMAIN used : CharOK(used[i])
    BY <1>1, <1>2, <1>3
  <1> QED BY <1>4 DEF FromHex

(***************************************************************************)
(* What to_hex writes, from_hex reads: the bytes that have room.           *)
(***************************************************************************)
LEMMA HexBack ==
    ASSUME NEW bytes \in Seq(Byte), NEW room \in Nat
    PROVE  \E back \in Seq(Byte) :
              /\ FromHex(ToHex(bytes), room) = {back}
              /\ Len(back) = IF Len(bytes) <= room THEN Len(bytes) ELSE room
              /\ \A i \in 1 .. Len(back) : back[i] = bytes[i]
  <1> DEFINE text == ToHex(bytes)
             m == Used(text, room)
             n == Len(bytes)
  <1>1. /\ text \in Seq(0 .. 15) /\ Len(text) = 2 * n
        /\ \A i \in 1 .. n : text[2 * i - 1] = bytes[i] \div 16 /\ text[2 * i] = bytes[i] % 16
    BY ToHexFacts
  <1>2. n \in Nat /\ \A i \in 1 .. n : bytes[i] \in Byte
    OBVIOUS
  <1> HIDE DEF text
  <1>3. text \in Seq(Nat)
    <2>1. 0 .. 15 \subseteq Nat
      OBVIOUS
    <2> QED BY <1>1, <2>1, WiderSeq
  <1>4. PICK back : FromHex(text, room) = {back}
    BY <1>1, FromHexDefined
  <1>5. /\ back \in Seq(Byte) /\ Len(back) = (m + 1) \div 2
        /\ \A i \in 1 .. Len(back) :
              back[i] = HexDigit(text[2 * i - 1]) * 16
                           + (IF 2 * i <= m THEN HexDigit(text[2 * i]) ELSE 0)
    BY <1>3, <1>4, FromHexFacts
  <1>6. /\ m = IF n <= room THEN 2 * n ELSE 2 * room
        /\ (m + 1) \div 2 = IF n <= room THEN n ELSE room
    <2>1. CASE n <= room
      <3>1. m = 2 * n
        BY <1>1, <1>2, <2>1 DEF Used
      <3>2. (2 * n + 1) \div 2 = n
        BY <1>2
      <3> QED BY <2>1, <3>1, <3>2
    <2>2. CASE ~ (n <= room)
      <3>1. m = 2 * room
        BY <1>1, <1>2, <2>2 DEF Used
      <3>2. (2 * room + 1) \div 2 = room
        OBVIOUS
      <3> QED BY <2>2, <3>1, <3>2
    <2> QED BY <2>1, <2>2
  <1> HIDE DEF m
  <1>7. ASSUME NEW i \in 1 .. Len(back) PROVE back[i] = bytes[i]
    <2>1. i \in 1 .. n /\ 2 * i <= m /\ i \in Nat
      <3>1. CASE n <= room
        <4>1. Len(back) = n /\ m = 2 * n
          BY <1>5, <1>6, <3>1
        <4> QED BY <1>2, <4>1
      <3>2. CASE ~ (n <= room)
        <4>1. Len(back) = room /\ m = 2 * room
          BY <1>5, <1>6, <3>2
        <4> QED BY <1>2, <3>2, <4>1
      <3> QED BY <3>1, <3>2
    <2>2. PICK c \in Byte : c = bytes[i]
      BY <1>2, <2>1
    <2>3. /\ c \div 16 \in 0 .. 15 /\ c % 16 \in 0 .. 15
          /\ 16 * (c \div 16) + (c % 16) = c
      BY HalfBytes DEF Byte
    <2>4. /\ text[2 * i - 1] = c \div 16 /\ text[2 * i] = c % 16
      <3>1. \A k \in 1 .. n : text[2 * k - 1] = bytes[k] \div 16 /\ text[2 * k] = bytes[k] % 16
        BY <1>1
      <3>2. text[2 * i - 1] = bytes[i] \div 16 /\ text[2 * i] = bytes[i] % 16
        BY ONLY <3>1, <2>1
      <3> QED BY ONLY <3>2, <2>2
    <2>5. /\ HexDigit(text[2 * i - 1]) = c \div 16 /\ HexDigit(text[2 * i]) = c % 16
      <3>1. PICK high \in 0 .. 15 : high = c \div 16
        BY ONLY <2>3
      <3>2. PICK low \in 0 .. 15 : low = c % 16
        BY ONLY <2>3
      <3>3. HexDigit(high) = high /\ HexDigit(low) = low
        BY DigitFacts
      <3>4. text[2 * i - 1] = high /\ text[2 * i] = low
        BY ONLY <2>4, <3>1, <3>2
      <3> QED BY ONLY <3>1, <3>2, <3>3, <3>4
    <2>6. back[i] = HexDigit(text[2 * i - 1]) * 16 + HexDigit(text[2 * i])
      BY <1>5, <2>1
    <2> QED BY <2>2, <2>3, <2>5, <2>6
  <1> QED BY <1>4, <1>5, <1>6, <1>7 DEF text

(* A byte vector survives JSON. *)
LEMMA VariantBack ==
    ASSUME NEW bytes \in Seq(Byte)
    PROVE  BytesFromVariant(BytesToVariant(bytes)) = {bytes}
  <1>1. Len(bytes) \in Nat /\ Len(ToHex(bytes)) = 2 * Len(bytes)
    BY ToHexFacts
  <1>2. Len(ToHex(bytes)) \div 2 = Len(bytes)
    BY <1>1
  <1>3. PICK back \in Seq(Byte) :
           /\ FromHex(ToHex(bytes), Len(bytes)) = {back}
           /\ Len(back) = Len(bytes)
           /\ \A i \in 1 .. Len(back) : back[i] = bytes[i]
    BY <1>1, HexBack
  <1>4. back = bytes
    BY <1>3
  <1> QED BY <1>2, <1>3, <1>4 DEF BytesFromVariant, BytesToVariant

(* The half of a text's characters are its bytes; both digits of each are kept. *)
LEMMA VariantKeeps ==
    ASSUME NEW text \in Seq(Nat), NEW bytes \in BytesFromVariant(text)
    PROVE  bytes \in Seq(Byte) /\ SameText(BytesToVariant(bytes), Even(text))
  <1> DEFINE h == Len(text) \div 2
  <1>1. h \in Nat /\ 2 * h <= Len(text) /\ Len(text) \in Nat
    OBVIOUS
  <1>2. Used(text, h) = 2 * h /\ (2 * h + 1) \div 2 = h
    BY <1>1 DEF Used
  <1>3. bytes \in FromHex(text, h)
    BY DEF BytesFromVariant
  <1> HIDE DEF h
  <1>4. /\ \A i \in 1 .. 2 * h : CharOK(text[i])
        /\ bytes \in Seq(Byte)
        /\ Len(bytes) = h
        /\ \A i \in 1 .. h :
              bytes[i] = HexDigit(text[2 * i - 1]) * 16
                 + (IF 2 * i <= 2 * h THEN HexDigit(text[2 * i]) ELSE 0)
    <2>1. /\ \A i \in 1 .. Used(text, h) : CharOK(text[i])
          /\ bytes \in Seq(Byte)
          /\ Len(bytes) = (Used(text, h) + 1) \div 2
          /\ \A i \in 1 .. Len(bytes) :
                 bytes[i] = HexDigit(text[2 * i - 1]) * 16
                    + (IF 2 * i <= Used(text, h) THEN HexDigit(text[2 * i]) ELSE 0)
      BY <1>1, <1>3, FromHexFacts
    <2>2. Used(text, h) = 2 * h /\ Len(bytes) = h
      BY <1>2, <2>1
    <2> QED BY <2>1, <2>2
  <1> DEFINE hex == ToHex(bytes)
  <1>5. /\ hex \in Seq(0 .. 15) /\ Len(hex) = 2 * h
        /\ \A i \in 1 .. h : hex[2 * i - 1] = bytes[i] \div 16 /\ hex[2 * i] = bytes[i] % 16
    BY <1>4, ToHexFacts
  <1> HIDE DEF hex
  <1>6. /\ Len(Even(text)) = 2 * h
        /\ \A k \in 1 .. 2 * h : Even(text)[k] = text[k] /\ text[k] \in Nat
    <2>1. Even(text) = SubSeq(text, 1, 2 * h)
      BY DEF Even, h
    <2> QED BY <1>1, <2>1
  <1>7. ASSUME NEW k \in 1 .. 2 * h PROVE HexDigit(hex[k]) = HexDigit(text[k])
    <2>1. PICK i \in 1 .. h : k = 2 * i - 1 \/ k = 2 * i
      <3>1. (k + 1) \div 2 \in 1 .. h /\ (k = 2 * ((k + 1) \div 2) - 1 \/ k = 2 * ((k + 1) \div 2))
        BY <1>1
      <3> QED BY <3>1
    <2>2. 2 * i - 1 \in 1 .. 2 * h /\ 2 * i \in 1 .. 2 * h /\ 2 * i <= 2 * h
      BY <1>1
    <2>3. PICK hi \in 0 .. 15 : hi = HexDigit(text[2 * i - 1])
      BY <1>4, <1>6, <2>2, DigitFacts
    <2>4. PICK lo \in 0 .. 15 : lo = HexDigit(text[2 * i])
      BY <1>4, <1>6, <2>2, DigitFacts
    <2>5. bytes[i] = hi * 16 + lo
      BY <1>4, <2>2, <2>3, <2>4
    <2>6. (hi * 16 + lo) \div 16 = hi /\ (hi * 16 + lo) % 16 = lo
      OBVIOUS
    <2>7. hex[2 * i - 1] = hi /\ hex[2 * i] = lo
      BY <1>5, <2>5, <2>6
    <2>8. HexDigit(hi) = hi /\ HexDigit(lo) = lo
      BY DigitFacts
    <2> QED BY <2>1, <2>3, <2>4, <2>7, <2>8
  <1>8. DOMAIN hex = 1 .. 2 * h
    BY <1>5
  <1>9. /\ Len(hex) = Len(Even(text))
        /\ \A k \in DOMAIN hex : HexDigit(hex[k]) = HexDigit(Even(text)[k])
    BY <1>5, <1>6, <1>7, <1>8
  <1> QED BY <1>4, <1>9 DEF SameText, BytesToVariant, hex

-----------------------------------------------------------------------------
(***************************************************************************)
(* The buffer as a C string.                                               *)
(***************************************************************************)

(* The first zero is a zero. *)
LEMMA FirstZero ==
    ASSUME NEW bytes \in Seq(Byte), Zeros(bytes) # {}
    PROVE  Min(Zeros(bytes)) \in 1 .. Len(bytes)
  <1>1. Zeros(bytes) \in SUBSET Nat
    BY DEF Zeros
  <1>2. PICK z \in Zeros(bytes) : \A y \in Zeros(bytes) : <<y, z>> \notin OpToRel(<, Nat)
    BY <1>1, NatLessThanWellFounded, WFMin
  <1>3. \A y \in Zeros(bytes) : z <= y
    <2>1. \A y \in Zeros(bytes) : ~ (y < z)
      BY <1>1, <1>2 DEF OpToRel
    <2> QED BY <1>1, <2>1
  <1>4. Min(Zeros(bytes)) \in Zeros(bytes)
    BY <1>3 DEF Min
  <1> QED BY <1>4 DEF Zeros

(***************************************************************************)
(* A string that went to hex and back through a buffer: whole if it has no *)
(* zero and is shorter, or if the memory behind the buffer has its rest.   *)
(***************************************************************************)
LEMMA StringBack ==
    ASSUME NEW str \in Seq(Byte), NEW beyond \in Seq(Byte)
    PROVE  \E back \in hex2char(char2hex(str), beyond) :
              IF Zeros(str) = {} /\ Len(str) < BufferSize
              THEN back = str
              ELSE back = str =>
                      /\ Len(str) >= BufferSize
                      /\ beyond = SubSeq(str, BufferSize + 1, Len(str))
  <1>1. BufferSize \in Nat \ {0}
    BY CodecAssumption
  <1>2. PICK bytes \in Seq(Byte) :
           /\ FromHex(ToHex(str), BufferSize) = {bytes}
           /\ Len(bytes) = IF Len(str) <= BufferSize THEN Len(str) ELSE BufferSize
           /\ \A i \in 1 .. Len(bytes) : bytes[i] = str[i]
    BY <1>1, HexBack
  <1>3. hex2char(char2hex(str), beyond) =
           {IF Terminated(bytes) THEN CString(bytes) ELSE bytes \o beyond}
    BY <1>2 DEF hex2char, char2hex
  <1>4. Len(bytes) \in Nat /\ Len(str) \in Nat /\ Len(bytes) <= Len(str)
    BY <1>1, <1>2
  <1>5. ASSUME Len(str) < BufferSize PROVE bytes = str
    <2>1. Len(bytes) = Len(str)
      BY <1>1, <1>2, <1>4, <1>5
    <2> QED BY <1>2, <2>1
  <1>6. CASE Zeros(str) = {} /\ Len(str) < BufferSize
    <2>1. bytes = str /\ Terminated(bytes) /\ CString(bytes) = str
      BY <1>5, <1>6 DEF Terminated, CString
    <2> QED BY <1>3, <1>6, <2>1
  <1>7. CASE ~ (Zeros(str) = {} /\ Len(str) < BufferSize)
    <2>1. CASE Terminated(bytes) /\ Zeros(bytes) = {}
      <3>1. Len(bytes) < BufferSize
        BY <2>1 DEF Terminated
      <3>2. Len(str) < BufferSize
        BY <1>1, <1>2, <1>4, <3>1
      <3>3. bytes = str
        BY <1>5, <3>2
      <3> QED BY <1>7, <2>1, <3>2, <3>3
    <2>2. CASE Zeros(bytes) # {}
      <3>1. PICK z \in 1 .. Len(bytes) : CString(bytes) = SubSeq(bytes, 1, z - 1)
        BY <2>2, FirstZero DEF CString
      <3>2. Len(SubSeq(bytes, 1, z - 1)) = z - 1
        BY <1>4
      <3>3. CString(bytes) # str
        BY <1>4, <3>1, <3>2
      <3>4. Terminated(bytes)
        BY <2>2 DEF Terminated
      <3> QED BY <1>3, <1>7, <3>3, <3>4
    <2>3. CASE ~ Terminated(bytes)
      <3>1. Len(bytes) >= BufferSize
        BY <1>1, <1>4, <2>3 DEF Terminated
      <3>2. Len(bytes) = BufferSize /\ Len(str) >= BufferSize
        BY <1>1, <1>2, <1>4, <3>1
      <3>3. ASSUME bytes \o beyond = str
            PROVE  beyond = SubSeq(str, BufferSize + 1, Len(str))
        <4>1. Len(str) = BufferSize + Len(beyond) /\ Len(beyond) \in Nat
          <5>1. Len(bytes \o beyond) = Len(bytes) + Len(beyond)
            OBVIOUS
          <5> QED BY <3>2, <3>3, <5>1
        <4>2. \A i \in 1 .. Len(beyond) : str[BufferSize + i] = beyond[i]
          <5>1. \A i \in 1 .. Len(beyond) : (bytes \o beyond)[Len(bytes) + i] = beyond[i]
            OBVIOUS
          <5> QED BY <3>2, <3>3, <5>1
        <4> DEFINE rest == SubSeq(str, BufferSize + 1, Len(str))
        <4>3. /\ rest \in Seq(Byte) /\ Len(rest) = Len(beyond)
              /\ \A i \in 1 .. Len(beyond) : rest[i] = str[BufferSize + i]
          <5>1. PICK n \in Nat : n = BufferSize /\ Len(str) = n + Len(beyond)
            BY <1>1, <4>1
          <5>2. Len(SubSeq(str, n + 1, Len(str))) = Len(beyond)
            BY <4>1, <5>1
          <5>3. \A i \in 1 .. Len(beyond) : SubSeq(str, n + 1, Len(str))[i] = str[n + i]
            BY <4>1, <5>1
          <5>4. SubSeq(str, n + 1, Len(str)) \in Seq(Byte)
            BY <4>1, <5>1
          <5> QED BY <5>1, <5>2, <5>3, <5>4
        <4> HIDE DEF rest
        <4>4. rest = beyond
          BY <4>2, <4>3
        <4> QED BY <4>4 DEF rest
      <3> QED BY <1>3, <1>7, <2>3, <3>2, <3>3
    <2> QED BY <2>1, <2>2, <2>3
  <1> QED BY <1>6, <1>7

(* A text that fills the buffer has at least 2 * BufferSize - 1 characters. *)
LEMMA LongText ==
    ASSUME NEW text \in Seq(Nat), NEW bytes \in FromHex(text, BufferSize), ~ Terminated(bytes)
    PROVE  Len(text) >= 2 * BufferSize - 1
  <1>1. BufferSize \in Nat \ {0} /\ Len(text) \in Nat
    BY CodecAssumption
  <1>2. bytes \in Seq(Byte) /\ Len(bytes) = (Used(text, BufferSize) + 1) \div 2
    BY <1>1, FromHexFacts
  <1>3. Len(bytes) >= BufferSize
    BY <1>1, <1>2 DEF Terminated
  <1>4. PICK u \in Nat : u = Used(text, BufferSize) /\ u <= Len(text)
    BY <1>1 DEF Used
  <1>5. (u + 1) \div 2 >= BufferSize
    BY <1>2, <1>3, <1>4
  <1>6. u + 1 >= 2 * BufferSize
    BY <1>1, <1>5
  <1> QED BY <1>1, <1>4, <1>6

-----------------------------------------------------------------------------
(***************************************************************************)
(* Signing.                                                                *)
(***************************************************************************)

(* A text has at most one meaning. *)
LEMMA HexUnique ==
    ASSUME NEW text, NEW a \in BytesFromVariant(text), NEW b \in BytesFromVariant(text)
    PROVE  a = b
  BY DEF BytesFromVariant, FromHex

(* The transaction that from_variant makes of the JSON text. *)
LEMMA TrxFacts ==
    ASSUME NEW json, NEW tx \in TrxFromJson(json)
    PROVE  /\ tx = [time_point |-> tx.time_point, data |-> tx.data, attach |-> tx.attach,
                    signature |-> tx.signature, pub_key |-> tx.pub_key]
           /\ tx.time_point = json.time_point
           /\ tx.data \in BytesFromVariant(json.data)
           /\ tx.attach \in BytesFromVariant(json.attach)
           /\ tx.signature = json.signature
           /\ tx.pub_key = json.pub_key
  <1>1. PICK data \in BytesFromVariant(json.data), attach \in BytesFromVariant(json.attach) :
           tx = [time_point |-> json.time_point, data |-> data, attach |-> attach,
                 signature |-> json.signature, pub_key |-> json.pub_key]
    BY DEF TrxFromJson
  <1> QED BY <1>1

(* At most one transaction. *)
LEMMA TrxUnique ==
    ASSUME NEW json, NEW a \in TrxFromJson(json), NEW b \in TrxFromJson(json)
    PROVE  a = b
  <1>1. a.data = b.data /\ a.attach = b.attach
    BY TrxFacts, HexUnique
  <1>2. a.time_point = b.time_point /\ a.signature = b.signature /\ a.pub_key = b.pub_key
    BY TrxFacts
  <1> QED BY <1>1, <1>2, TrxFacts

(* What keosd prints for a transaction. *)
LEMMA PrintedFacts ==
    ASSUME NEW json, NEW tx \in TrxFromJson(json), NEW key
    PROVE  TrxToJson(ToolSign(tx, key)) =
              [time_point |-> tx.time_point, data |-> BytesToVariant(tx.data),
               attach |-> BytesToVariant(tx.attach),
               signature |-> Sign(key, TrxDigest(tx)), pub_key |-> key]
  <1>1. PICK s : s = Sign(key, TrxDigest(tx))
    OBVIOUS
  <1>2. PICK time, data, attach, sig, pub :
           tx = [time_point |-> time, data |-> data, attach |-> attach,
                 signature |-> sig, pub_key |-> pub]
    BY TrxFacts
  <1>3. ToolSign(tx, key) = [tx EXCEPT !.signature = s, !.pub_key = key]
    BY <1>1 DEF ToolSign
  <1>4. ToolSign(tx, key) = [time_point |-> time, data |-> data, attach |-> attach,
                             signature |-> s, pub_key |-> key]
    BY <1>2, <1>3
  <1>5. PICK hexData, hexAttach : hexData = BytesToVariant(data) /\ hexAttach = BytesToVariant(attach)
    OBVIOUS
  <1>6. TrxToJson(ToolSign(tx, key)) =
           [time_point |-> time, data |-> hexData, attach |-> hexAttach,
            signature |-> s, pub_key |-> key]
    <2>1. PICK u : u = ToolSign(tx, key)
      OBVIOUS
    <2>2. u = [time_point |-> time, data |-> data, attach |-> attach,
               signature |-> s, pub_key |-> key]
      BY <1>4, <2>1
    <2>3. TrxToJson(u) = [u EXCEPT !.data = BytesToVariant(u.data),
                                   !.attach = BytesToVariant(u.attach)]
      BY Zenon DEF TrxToJson
    <2>4. BytesToVariant(u.data) = hexData /\ BytesToVariant(u.attach) = hexAttach
      BY <1>5, <2>2
    <2>5. TrxToJson(u) = [u EXCEPT !.data = hexData, !.attach = hexAttach]
      BY <2>3, <2>4, Zenon
    <2>6. PICK v : v = [u EXCEPT !.data = hexData, !.attach = hexAttach]
      OBVIOUS
    <2>7. v = [time_point |-> time, data |-> hexData, attach |-> hexAttach,
               signature |-> s, pub_key |-> key]
      BY <2>2, <2>6
    <2>8. TrxToJson(u) = v
      BY <2>5, <2>6, Zenon
    <2> QED BY <2>1, <2>7, <2>8
  <1>7. tx.time_point = time /\ tx.data = data /\ tx.attach = attach
    BY <1>2
  <1> QED BY <1>1, <1>5, <1>6, <1>7

(* Two transactions with the same digest agree in what it covers. *)
LEMMA TrxDigestInjective ==
    ASSUME NEW a, NEW b, TrxDigest(a) = TrxDigest(b)
    PROVE  a.pub_key = b.pub_key
  BY DEF TrxDigest, Sha256

(* A signature is not the blank one. *)
LEMMA SignNotBlank ==
    ASSUME NEW key, NEW digest
    PROVE  /\ Sign(key, digest) # BlankSig
           /\ Sign(key, digest).key = key
           /\ Sign(key, digest).digest = digest
  <1>1. DOMAIN Sign(key, digest) = {"key", "digest"} /\ DOMAIN BlankSig = {"blank"}
    BY DEF Sign, BlankSig
  <1>2. Sign(key, digest) # BlankSig
    BY <1>1
  <1> QED BY <1>2 DEF Sign

(***************************************************************************)
(* A transaction signed over the digest of tx passes exactly if it has     *)
(* data and tx has the same digest, that is, the same public key.          *)
(***************************************************************************)
LEMMA SignedValid ==
    ASSUME NEW tx, NEW key, key # OtherKey, NEW signed,
           signed.time_point = tx.time_point, signed.data = tx.data,
           signed.attach = tx.attach, signed.pub_key = key,
           signed.signature = Sign(key, TrxDigest(tx))
    PROVE  TrxValidate(signed) <=> tx.data # NoData /\ tx.pub_key = key
  <1>1. signed.signature # BlankSig
    BY SignNotBlank
  <1>2. Recover(signed.signature, TrxDigest(signed)) =
           IF TrxDigest(tx) = TrxDigest(signed) THEN key ELSE OtherKey
    BY SignNotBlank DEF Recover
  <1>3. TrxDigest(tx) = TrxDigest(signed) <=> tx.pub_key = key
    <2>1. ASSUME tx.pub_key = key PROVE TrxDigest(tx) = TrxDigest(signed)
      BY <2>1 DEF TrxDigest
    <2> QED BY <2>1, TrxDigestInjective
  <1> QED BY <1>1, <1>2, <1>3 DEF TrxValidate

(* What sign_trx of the node returns passes unless it has no data. *)
LEMMA NodeSigned ==
    ASSUME NEW json, NEW tx \in TrxFromJson(json), NEW key
    PROVE  TrxValidate(SignTrx(tx, key)) <=> tx.data # NoData
  <1>1. PICK mid : mid = [tx EXCEPT !.pub_key = key]
    OBVIOUS
  <1>2. mid = [time_point |-> tx.time_point, data |-> tx.data, attach |-> tx.attach,
               signature |-> tx.signature, pub_key |-> key]
    <2>1. PICK t \in {tx} : t = [time_point |-> t.time_point, data |-> t.data, attach |-> t.attach,
                                 signature |-> t.signature, pub_key |-> t.pub_key]
      BY TrxFacts
    <2>2. mid = [t EXCEPT !.pub_key = key]
      BY <1>1
    <2> QED BY <2>1, <2>2
  <1>3. PICK s : s = Sign(key, TrxDigest(mid))
    OBVIOUS
  <1>4. PICK signed : signed = SignTrx(tx, key) /\ signed = [mid EXCEPT !.signature = s]
    BY <1>1, <1>3 DEF SignTrx
  <1>5. signed = [time_point |-> tx.time_point, data |-> tx.data, attach |-> tx.attach,
                  signature |-> s, pub_key |-> key]
    BY <1>2, <1>4
  <1>6. TrxDigest(signed) = TrxDigest(mid)
    BY <1>2, <1>5 DEF TrxDigest
  <1>7. signed.signature # BlankSig /\ Recover(signed.signature, TrxDigest(signed)) = key
    BY <1>3, <1>5, <1>6, SignNotBlank DEF Recover
  <1>8. signed.data = tx.data /\ signed.pub_key = key
    BY <1>5
  <1> QED BY <1>4, <1>7, <1>8 DEF TrxValidate

-----------------------------------------------------------------------------
(***************************************************************************)
(* The inductive invariant.  The loop of check_chain: checkBlk is the      *)
(* block before the next one, and no block so far failed.                  *)
(***************************************************************************)
WalkInv ==
    stage = "checking" =>
        /\ type = 5
        /\ line.sqlite
        /\ walk.next \in 1 .. GetBlockCount(line.table) + 1
        /\ walk.checkBlk = checkBlk(Fetched, walk.next)
        /\ \A j \in 1 .. walk.next - 1 : ~ FailsAt(Fetched, j)

(* What was printed comes from the command line. *)
PrintedInv ==
    /\ out.kind = "hex" => out.text = ToHex(line.c2h)
    /\ out.kind = "overrun" => \E bytes \in FromHex(line.h2c, BufferSize) : ~ Terminated(bytes)
    /\ out.kind = "trx" =>
          \E tx \in TrxFromJson(line.sign) : out.json = TrxToJson(ToolSign(tx, line.key))
    /\ out.kind = "verdict" => out.blamed = check_chain(line.table).block
    /\ out.kind \in {"verdict", "blind"} => line.sqlite
    /\ Asked = {} => out.kind \in {"none", "exception", "key", "verdict", "blind"}

KeosdInv ==
    /\ line \in CommandLines
    /\ stage # "exited" => out = None
    /\ WalkInv
    /\ PrintedInv

(* ToolInit establishes it. *)
LEMMA InitKeosd == ToolInit => KeosdInv
  BY DEF ToolInit, KeosdInv, WalkInv, PrintedInv, None

(* A step that prints a result fitting the command line keeps it. *)
LEMMA PrintsInv ==
    ASSUME KeosdInv, line' = line, stage' = "exited", PrintedInv'
    PROVE  KeosdInv'
  BY DEF KeosdInv, WalkInv

(* An operation that prints something other than a verdict. *)
LEMMA OperationInv ==
    ASSUME KeosdInv, NEW t, NEW result, Operation(t, result),
           result.kind = "hex" => result.text = ToHex(line.c2h),
           result.kind = "overrun" =>
              \E bytes \in FromHex(line.h2c, BufferSize) : ~ Terminated(bytes),
           result.kind = "trx" =>
              \E tx \in TrxFromJson(line.sign) : result.json = TrxToJson(ToolSign(tx, line.key)),
           result.kind # "verdict",
           result.kind = "blind" => line.sqlite,
           Asked = {} => result.kind \in {"none", "exception", "key", "verdict", "blind"}
    PROVE  KeosdInv'
  <1>1. line' = line /\ stage' = "exited" /\ out' = result
    BY DEF Operation
  <1>2. Asked' = Asked
    BY <1>1 DEF Asked
  <1>3. PrintedInv'
    BY <1>1, <1>2 DEF PrintedInv
  <1> QED BY <1>1, <1>3, PrintsInv

(* The first failure of a walk is where the node's check stops. *)
LEMMA FailureIsFirst ==
    ASSUME NEW blocks, NEW n \in Nat, DOMAIN blocks = 1 .. n, NEW i \in 1 .. n,
           FailsAt(blocks, i), \A j \in 1 .. i - 1 : ~ FailsAt(blocks, j)
    PROVE  FirstFailure(blocks) = i
  <1>1. ASSUME NEW k \in DOMAIN blocks, FailsAt(blocks, k),
               \A j \in 1 .. k - 1 : ~ FailsAt(blocks, j)
        PROVE  k = i
    BY <1>1
  <1> QED BY <1>1 DEF FirstFailure

(* The loop blames what check_chain of the node reports. *)
LEMMA FailsInv ==
    ASSUME KeosdInv, CheckFails
    PROVE  KeosdInv'
  <1>1. /\ line' = line /\ stage' = "exited" /\ stage = "checking"
        /\ out' = [kind |-> "verdict", blamed |-> {walk.checkBlk}]
        /\ walk.next \in DOMAIN Fetched /\ ~ Passes(Fetched[walk.next], walk.checkBlk)
    BY DEF CheckFails, Verdict
  <1>2. line.sqlite /\ walk.checkBlk = checkBlk(Fetched, walk.next)
        /\ \A j \in 1 .. walk.next - 1 : ~ FailsAt(Fetched, j)
    BY <1>1 DEF KeosdInv, WalkInv
  <1>3. PICK n \in Nat : DOMAIN Fetched = 1 .. n
    <2>1. DOMAIN line.table \in SUBSET Nat /\ IsFiniteSet(DOMAIN line.table)
      BY ToolAssumption DEF KeosdInv
    <2>2. GetBlockCount(line.table) \in Nat
      BY <2>1, FS_CardinalityType DEF GetBlockCount
    <2> QED BY <2>2 DEF Fetched, GetAllBlocks
  <1>4. PICK i \in 1 .. n : i = walk.next
    BY <1>1, <1>3
  <1>5. FailsAt(Fetched, i)
    BY <1>1, <1>2, <1>4 DEF FailsAt, Passes
  <1>6. FirstFailure(Fetched) = i
    BY <1>2, <1>3, <1>4, <1>5, FailureIsFirst
  <1>7. check_chain(line.table).block = {walk.checkBlk}
    <2>1. check_chain(line.table) =
             [result |-> -1, block |-> {checkBlk(Fetched, FirstFailure(Fetched))}]
      BY <1>3, <1>5 DEF check_chain, CheckBlocks, Fetched
    <2> QED BY <1>2, <1>4, <1>6, <2>1
  <1>8. PrintedInv'
    BY <1>1, <1>2, <1>7 DEF PrintedInv
  <1> QED BY <1>1, <1>8, PrintsInv

(* The loop comes to its end exactly if no block fails. *)
LEMMA SucceedsInv ==
    ASSUME KeosdInv, CheckSucceeds
    PROVE  KeosdInv'
  <1>1. /\ line' = line /\ stage' = "exited" /\ stage = "checking"
        /\ out' = [kind |-> "verdict", blamed |-> {}]
        /\ walk.next \notin DOMAIN Fetched
    BY DEF CheckSucceeds, Verdict
  <1>2. PICK n \in Nat : n = GetBlockCount(line.table) /\ DOMAIN Fetched = 1 .. n
    <2>1. DOMAIN line.table \in SUBSET Nat /\ IsFiniteSet(DOMAIN line.table)
      BY ToolAssumption DEF KeosdInv
    <2>2. GetBlockCount(line.table) \in Nat
      BY <2>1, FS_CardinalityType DEF GetBlockCount
    <2> QED BY <2>2 DEF Fetched, GetAllBlocks
  <1>3. /\ line.sqlite /\ walk.next \in 1 .. n + 1
        /\ \A j \in 1 .. walk.next - 1 : ~ FailsAt(Fetched, j)
    BY <1>1, <1>2 DEF KeosdInv, WalkInv
  <1>4. walk.next - 1 = n
    BY <1>1, <1>2, <1>3
  <1>5. \A j \in DOMAIN Fetched : ~ FailsAt(Fetched, j)
    BY <1>2, <1>3, <1>4
  <1>6. check_chain(line.table).block = {}
    BY <1>5 DEF check_chain, CheckBlocks, Fetched
  <1>7. PrintedInv'
    BY <1>1, <1>3, <1>6 DEF PrintedInv
  <1> QED BY <1>1, <1>7, PrintsInv

(* A round of the loop moves checkBlk along with the blocks. *)
LEMMA CheckNextInv ==
    ASSUME KeosdInv, CheckNext
    PROVE  KeosdInv'
  <1>1. /\ UNCHANGED <<line, stage, type, out>> /\ stage = "checking"
        /\ walk.next \in DOMAIN Fetched /\ Passes(Fetched[walk.next], walk.checkBlk)
        /\ walk'.next = walk.next + 1 /\ walk'.checkBlk = Fetched[walk.next]
    BY DEF CheckNext
  <1>2. PICK n \in Nat : n = GetBlockCount(line.table) /\ DOMAIN Fetched = 1 .. n
    <2>1. DOMAIN line.table \in SUBSET Nat /\ IsFiniteSet(DOMAIN line.table)
      BY ToolAssumption DEF KeosdInv
    <2>2. GetBlockCount(line.table) \in Nat
      BY <2>1, FS_CardinalityType DEF GetBlockCount
    <2> QED BY <2>2 DEF Fetched, GetAllBlocks
  <1>3. /\ type = 5 /\ line.sqlite /\ walk.checkBlk = checkBlk(Fetched, walk.next)
        /\ \A j \in 1 .. walk.next - 1 : ~ FailsAt(Fetched, j)
    BY <1>1 DEF KeosdInv, WalkInv
  <1>4. PICK i \in 1 .. n : i = walk.next
    BY <1>1, <1>2
  <1>5. ~ FailsAt(Fetched, i)
    BY <1>1, <1>3, <1>4 DEF FailsAt, Passes
  <1>6. Fetched' = Fetched /\ GetBlockCount(line.table)' = GetBlockCount(line.table)
    BY <1>1 DEF Fetched
  <1>7. /\ walk'.next = i + 1 /\ walk'.next \in 1 .. n + 1
        /\ walk'.checkBlk = checkBlk(Fetched, walk'.next)
    BY <1>1, <1>4 DEF checkBlk
  <1>8. \A j \in 1 .. walk'.next - 1 : ~ FailsAt(Fetched, j)
    BY <1>3, <1>4, <1>5, <1>7
  <1>9. WalkInv'
    BY <1>1, <1>2, <1>3, <1>6, <1>7, <1>8 DEF WalkInv
  <1>10. PrintedInv'
    BY <1>1 DEF KeosdInv, PrintedInv, Asked
  <1> QED BY <1>1, <1>9, <1>10 DEF KeosdInv

(* check_chain begins with a blank block, or cannot begin. *)
LEMMA CheckChainInv ==
    ASSUME KeosdInv, CheckChain
    PROVE  KeosdInv'
  <1>1. CASE ~ line.sqlite /\ Operation(5, Exception)
    BY <1>1, OperationInv DEF Exception
  <1>2. CASE ~ (~ line.sqlite /\ Operation(5, Exception))
    <2>1. /\ UNCHANGED <<line, type, out>> /\ line.sqlite /\ stage = "initialized" /\ type = 5
          /\ stage' = "checking" /\ walk'.next = 1 /\ walk'.checkBlk = BlankBlock
      BY <1>2 DEF CheckChain
    <2>2. GetBlockCount(line.table) \in Nat
      <3>1. DOMAIN line.table \in SUBSET Nat /\ IsFiniteSet(DOMAIN line.table)
        BY ToolAssumption DEF KeosdInv
      <3> QED BY <3>1, FS_CardinalityType DEF GetBlockCount
    <2>3. WalkInv'
      <3>1. 1 \in 1 .. GetBlockCount(line.table) + 1 /\ 1 .. 1 - 1 = {}
        BY <2>2
      <3>2. checkBlk(Fetched, 1) = BlankBlock
        BY DEF checkBlk
      <3>3. Fetched' = Fetched /\ GetBlockCount(line.table)' = GetBlockCount(line.table)
        BY <2>1 DEF Fetched
      <3> QED BY <2>1, <3>1, <3>2, <3>3 DEF WalkInv
    <2>4. PrintedInv'
      BY <2>1 DEF KeosdInv, PrintedInv, Asked
    <2> QED BY <2>1, <2>3, <2>4 DEF KeosdInv
  <1> QED BY <1>1, <1>2

(* plugin_initialize prints nothing. *)
LEMMA InitializeInv ==
    ASSUME KeosdInv, Initialize
    PROVE  KeosdInv'
  <1>1. UNCHANGED <<line, out, walk>> /\ stage = "main" /\ stage' = "initialized"
    BY DEF Initialize
  <1>2. PrintedInv'
    BY <1>1 DEF KeosdInv, PrintedInv, Asked
  <1> QED BY <1>1, <1>2 DEF KeosdInv, WalkInv

(* Every step of keosd keeps the invariant. *)
LEMMA NextKeosd == KeosdInv /\ [ToolNext]_toolVars => KeosdInv'
  <1> SUFFICES ASSUME KeosdInv, [ToolNext]_toolVars PROVE KeosdInv'
    OBVIOUS
  <1>1. CASE UNCHANGED toolVars
    <2>1. UNCHANGED <<line, stage, type, out, walk>>
      BY <1>1 DEF toolVars
    <2> QED BY <2>1 DEF KeosdInv, WalkInv, PrintedInv, Fetched, Asked
  <1>2. CASE NoOptionDatas \/ NoSuchType
    BY <1>2, OperationInv DEF NoOptionDatas, NoSuchType, Exception
  <1>3. CASE GenerateKey
    BY <1>3, OperationInv DEF GenerateKey
  <1>4. CASE HexToString
    <2>1. Asked # {}
      BY <1>4 DEF HexToString
    <2>2. CASE Operation(2, Exception)
      BY <2>2, OperationInv DEF Exception
    <2>3. ASSUME NEW bytes, Operation(2, [kind |-> "text", text |-> CString(bytes)])
          PROVE  KeosdInv'
      BY <2>1, <2>3, OperationInv
    <2>4. ASSUME NEW bytes \in FromHex(line.h2c, BufferSize), ~ Terminated(bytes), NEW more,
                 Operation(2, [kind |-> "overrun", text |-> bytes \o more])
          PROVE  KeosdInv'
      BY <2>1, <2>4, OperationInv
    <2> QED BY <1>4, <2>2, <2>3, <2>4 DEF HexToString
  <1>5. CASE StringToHex
    BY <1>5, OperationInv DEF StringToHex
  <1>6. CASE SignTransaction
    <2>1. Asked # {}
      BY <1>6 DEF SignTransaction
    <2>2. CASE Operation(4, Exception)
      BY <2>2, OperationInv DEF Exception
    <2>3. ASSUME NEW tx \in TrxFromJson(line.sign),
                 Operation(4, [kind |-> "trx", json |-> TrxToJson(ToolSign(tx, line.key))])
          PROVE  KeosdInv'
      BY <2>1, <2>3, OperationInv
    <2> QED BY <1>6, <2>2, <2>3 DEF SignTransaction
  <1>7. CASE CheckChainBlind
    BY <1>7, OperationInv DEF CheckChainBlind
  <1> QED BY <1>1, <1>2, <1>3, <1>4, <1>5, <1>6, <1>7, InitializeInv, CheckChainInv,
             CheckNextInv, FailsInv, SucceedsInv DEF ToolNext

-----------------------------------------------------------------------------
(***************************************************************************)
(* THEOREM.  At every moment what keosd printed comes from its command     *)
(* line, and its check_chain loop has passed every block before the one it *)
(* looks at next.                                                          *)
(***************************************************************************)
THEOREM KeosdInvariant == ToolSpec => []KeosdInv
  BY InitKeosd, NextKeosd, PTL DEF ToolSpec

(***************************************************************************)
(* THEOREM.  string_to_hex and the node's hex2char are inverse for every   *)
(* string without a zero that is shorter than the buffer, whatever its     *)
(* size, and for no other unless the memory behind happens to fit.         *)
(***************************************************************************)
THEOREM HexAlwaysRoundTrips == ToolSpec => []HexRoundTrip
  <1>1. KeosdInv => HexRoundTrip
    <2> SUFFICES ASSUME KeosdInv PROVE HexRoundTrip
      OBVIOUS
    <2>1. line.c2h \in Seq(Byte) /\ line.h2c \in Seq(Nat) /\ Beyond \subseteq Seq(Byte)
      BY ToolAssumption DEF KeosdInv
    <2>2. ASSUME out.kind = "hex"
          PROVE  /\ out.text = char2hex(line.c2h)
                 /\ \A beyond \in Beyond : \E back \in hex2char(out.text, beyond) :
                      IF Zeros(line.c2h) = {} /\ Len(line.c2h) < BufferSize
                      THEN back = line.c2h
                      ELSE back = line.c2h =>
                              /\ Len(line.c2h) >= BufferSize
                              /\ beyond = SubSeq(line.c2h, BufferSize + 1, Len(line.c2h))
      <3>1. out.text = char2hex(line.c2h)
        BY <2>2 DEF KeosdInv, PrintedInv, char2hex
      <3> QED BY <2>1, <3>1, StringBack
    <2>3. ASSUME out.kind = "overrun" PROVE Len(line.h2c) >= 2 * BufferSize - 1
      <3>1. PICK bytes \in FromHex(line.h2c, BufferSize) : ~ Terminated(bytes)
        BY <2>3 DEF KeosdInv, PrintedInv
      <3> QED BY <2>1, <3>1, LongText
    <2> QED BY <2>2, <2>3 DEF HexRoundTrip
  <1> QED BY <1>1, KeosdInvariant, PTL

(***************************************************************************)
(* THEOREM.  What sign_transaction of keosd prints passes                  *)
(* Transaction::validate of a node exactly if the transaction has data and *)
(* named the signer already, because the digest is taken before the public *)
(* key is stored.                                                          *)
(***************************************************************************)
THEOREM SignedAlwaysPasses == ToolSpec => []SignedPasses
  <1>1. KeosdInv => SignedPasses
    <2> SUFFICES ASSUME KeosdInv, out.kind = "trx",
                        NEW tx \in TrxFromJson(line.sign), NEW signed \in TrxFromJson(out.json)
                 PROVE  /\ TrxValidate(signed) <=> tx.data # NoData /\ tx.pub_key = line.key
                        /\ TrxValidate(SignTrx(tx, line.key)) <=> tx.data # NoData
      BY DEF SignedPasses
    <2>1. /\ line.key # OtherKey
          /\ line.sign.data \in Seq(Nat) /\ line.sign.attach \in Seq(Nat)
      BY ToolAssumption DEF KeosdInv
    <2>2. out.json = TrxToJson(ToolSign(tx, line.key))
      <3>1. PICK t \in TrxFromJson(line.sign) : out.json = TrxToJson(ToolSign(t, line.key))
        BY DEF KeosdInv, PrintedInv
      <3> QED BY <3>1, TrxUnique
    <2>3. out.json = [time_point |-> tx.time_point, data |-> BytesToVariant(tx.data),
                      attach |-> BytesToVariant(tx.attach),
                      signature |-> Sign(line.key, TrxDigest(tx)), pub_key |-> line.key]
      BY <2>2, PrintedFacts
    <2>4. tx.data \in Seq(Byte) /\ tx.attach \in Seq(Byte)
      BY <2>1, TrxFacts, VariantKeeps
    <2>5. /\ BytesFromVariant(out.json.data) = {tx.data}
          /\ BytesFromVariant(out.json.attach) = {tx.attach}
      BY <2>3, <2>4, VariantBack
    <2>6. /\ signed.data = tx.data /\ signed.attach = tx.attach
      BY <2>5, TrxFacts
    <2>7. /\ signed.time_point = tx.time_point /\ signed.pub_key = line.key
          /\ signed.signature = Sign(line.key, TrxDigest(tx))
      BY <2>3, TrxFacts
    <2>8. TrxValidate(signed) <=> tx.data # NoData /\ tx.pub_key = line.key
      BY <2>1, <2>6, <2>7, SignedValid
    <2>9. TrxValidate(SignTrx(tx, line.key)) <=> tx.data # NoData
      BY NodeSigned
    <2> QED BY <2>8, <2>9
  <1> QED BY <1>1, KeosdInvariant, PTL

(***************************************************************************)
(* THEOREM.  A transaction that keosd reads and prints keeps every digit   *)
(* of its byte vectors, but for the last character of an odd text.         *)
(***************************************************************************)
THEOREM TextAlwaysKept == ToolSpec => []TextKept
  <1>1. KeosdInv => TextKept
    <2> SUFFICES ASSUME KeosdInv, out.kind = "trx"
                 PROVE  /\ SameText(out.json.data, Even(line.sign.data))
                        /\ SameText(out.json.attach, Even(line.sign.attach))
      BY DEF TextKept
    <2>1. line.sign.data \in Seq(Nat) /\ line.sign.attach \in Seq(Nat)
      BY ToolAssumption DEF KeosdInv
    <2>2. PICK tx \in TrxFromJson(line.sign) : out.json = TrxToJson(ToolSign(tx, line.key))
      BY DEF KeosdInv, PrintedInv
    <2>3. out.json.data = BytesToVariant(tx.data) /\ out.json.attach = BytesToVariant(tx.attach)
      BY <2>2, PrintedFacts
    <2>4. /\ tx.data \in BytesFromVariant(line.sign.data)
          /\ tx.attach \in BytesFromVariant(line.sign.attach)
      BY TrxFacts
    <2> QED BY <2>1, <2>3, <2>4, VariantKeeps
  <1> QED BY <1>1, KeosdInvariant, PTL

(***************************************************************************)
(* THEOREM.  check_chain of keosd, a loop of its own, passes and blames    *)
(* what check_chain of the node does, for a database of any length; and a  *)
(* command line that asks for nothing complete never signs or converts.    *)
(***************************************************************************)
THEOREM ToolAlwaysJudgesAsNode == ToolSpec => []ToolJudgesAsNode
  <1>1. KeosdInv => ToolJudgesAsNode
    BY DEF KeosdInv, PrintedInv, ToolJudgesAsNode
  <1> QED BY <1>1, KeosdInvariant, PTL

-----------------------------------------------------------------------------
(***************************************************************************)
(* The packed form.  PackUInt, UnpackUInt and FlattenSeq are recursive:    *)
(* what they compute for every input is shown by complete induction, and   *)
(* that is a step of its own, for a set of numbers (an operator as a       *)
(* parameter of the induction rule is out of the provers' reach).          *)
(***************************************************************************)

(* Complete induction over the natural numbers, for a set. *)
LEMMA SetInduction ==
    ASSUME NEW T, \A n \in Nat : (\A m \in 0 .. n - 1 : m \in T) => n \in T
    PROVE  \A n \in Nat : n \in T
  <1> SUFFICES ASSUME NEW bad \in Nat, bad \notin T PROVE FALSE
    OBVIOUS
  <1> DEFINE F == {n \in Nat : n \notin T}
  <1>1. F \subseteq Nat /\ F # {}
    OBVIOUS
  <1>2. PICK n \in F : \A m \in F : <<m, n>> \notin OpToRel(<, Nat)
    BY <1>1, NatLessThanWellFounded, WFMin
  <1>3. \A m \in 0 .. n - 1 : m \in T
    <2>1. \A m \in F : ~ (m < n)
      BY <1>1, <1>2 DEF OpToRel
    <2>2. n \in Nat
      BY <1>2
    <2> QED BY <2>1, <2>2
  <1> QED BY <1>2, <1>3

(* A length of more than one byte: its low digit and the rest of it. *)
LEMMA DigitsOf ==
    ASSUME NEW v \in Nat
    PROVE  /\ v \div VarintBase \in Nat
           /\ v % VarintBase \in Nat
           /\ v % VarintBase < VarintBase
           /\ v = (v % VarintBase) + VarintBase * (v \div VarintBase)
           /\ v >= VarintBase => v \div VarintBase < v
           /\ v < VarintBase => v % VarintBase = v
           /\ v >= VarintBase => v \div VarintBase > 0
  <1>1. VarintBase \in Nat /\ VarintBase >= 2
    BY CodecAssumption
  <1> DEFINE q == v \div VarintBase
             r == v % VarintBase
  <1>2. q \in Nat /\ r \in Nat /\ r < VarintBase /\ v = r + VarintBase * q
    BY <1>1
  <1>3. VarintBase * q >= 2 * q
    BY <1>1, <1>2
  <1>4. v >= VarintBase => q < v
    BY <1>1, <1>2, <1>3
  <1>5. ASSUME q # 0 PROVE VarintBase * q >= VarintBase
    BY <1>1, <1>2, <1>5
  <1>6. q = 0 => VarintBase * q = 0
    BY <1>1
  <1> HIDE DEF q, r
  <1>7. v < VarintBase => r = v
    BY <1>1, <1>2, <1>5, <1>6
  <1>8. v >= VarintBase => q > 0
    BY <1>1, <1>2, <1>5, <1>6
  <1> QED BY <1>2, <1>4, <1>7, <1>8 DEF q, r

(***************************************************************************)
(* The definition of PackUInt is a recursion that ends: what it says of a  *)
(* length given a function for the smaller ones, and the functions on      *)
(* 0 .. n that satisfy it.                                                 *)
(***************************************************************************)
PackStep(f, v) ==
    IF v < VarintBase
    THEN <<v>>
    ELSE <<(v % VarintBase) + VarintBase>> \o f[v \div VarintBase]

PacksUpto(n, f) == f = [v \in 0 .. n |-> PackStep(f, v)]

(* The step looks at smaller lengths only. *)
LEMMA PackStepLocal ==
    ASSUME NEW v \in Nat, NEW f, NEW g, \A u \in 0 .. v - 1 : f[u] = g[u]
    PROVE  PackStep(f, v) = PackStep(g, v)
  <1>1. v < VarintBase => PackStep(f, v) = PackStep(g, v)
    BY DEF PackStep
  <1>2. ASSUME ~ (v < VarintBase) PROVE f[v \div VarintBase] = g[v \div VarintBase]
    <2>1. v \div VarintBase \in 0 .. v - 1
      BY <1>2, DigitsOf, CodecAssumption
    <2> QED BY <2>1
  <1> QED BY <1>1, <1>2 DEF PackStep

(* Two such functions agree. *)
LEMMA PackUnique ==
    ASSUME NEW n \in Nat, NEW k \in Nat, NEW f, NEW g,
           PacksUpto(n, f), PacksUpto(k, g)
    PROVE  \A v \in Nat : v <= n /\ v <= k => f[v] = g[v]
  <1> DEFINE T == {v \in Nat : v <= n /\ v <= k => f[v] = g[v]}
  <1>1. ASSUME NEW v \in Nat, \A u \in 0 .. v - 1 : u \in T PROVE v \in T
    <2> SUFFICES ASSUME v <= n, v <= k PROVE f[v] = g[v]
      OBVIOUS
    <2>1. \A u \in 0 .. v - 1 : f[u] = g[u]
      BY <1>1
    <2>2. f[v] = PackStep(f, v)
      <3>1. v \in 0 .. n
        OBVIOUS
      <3>2. f = [u \in 0 .. n |-> PackStep(f, u)]
        BY DEF PacksUpto
      <3> QED BY ONLY <3>1, <3>2
    <2>3. g[v] = PackStep(g, v)
      <3>1. v \in 0 .. k
        OBVIOUS
      <3>2. g = [u \in 0 .. k |-> PackStep(g, u)]
        BY DEF PacksUpto
      <3> QED BY ONLY <3>1, <3>2
    <2> QED BY <2>1, <2>2, <2>3, PackStepLocal
  <1>2. \A v \in Nat : v \in T
    <2> HIDE DEF T
    <2> QED BY <1>1, SetInduction
  <1> QED BY <1>2

(* And there is one on every 0 .. n. *)
LEMMA PackExists == \A n \in Nat : \E f : PacksUpto(n, f)
  <1> DEFINE T == {n \in Nat : \E f : PacksUpto(n, f)}
  <1>1. ASSUME NEW n \in Nat, \A m \in 0 .. n - 1 : m \in T PROVE n \in T
    <2>1. CASE n = 0
      <3> DEFINE f == [v \in 0 .. 0 |-> <<v>>]
      <3>1. \A v \in 0 .. 0 : PackStep(f, v) = <<v>>
        BY CodecAssumption DEF PackStep
      <3>2. PacksUpto(0, f)
        BY <3>1 DEF PacksUpto
      <3> QED BY <2>1, <3>2
    <2>2. CASE n # 0
      <3>1. n - 1 \in Nat /\ n - 1 \in 0 .. n - 1
        BY <2>2
      <3>2. PICK g : PacksUpto(n - 1, g)
        BY <1>1, <3>1
      <3>3. g = [v \in 0 .. n - 1 |-> PackStep(g, v)]
        BY <3>2 DEF PacksUpto
      <3> DEFINE f == [v \in 0 .. n |-> PackStep(g, v)]
      <3>4. \A v \in 0 .. n - 1 : f[v] = g[v]
        <4> SUFFICES ASSUME NEW v \in 0 .. n - 1 PROVE f[v] = g[v]
          OBVIOUS
        <4>1. f[v] = PackStep(g, v)
          BY <3>1
        <4>2. g[v] = PackStep(g, v)
          BY ONLY <3>3, v \in 0 .. n - 1
        <4> QED BY <4>1, <4>2
      <3>5. ASSUME NEW v \in 0 .. n PROVE PackStep(g, v) = PackStep(f, v)
        <4>1. \A u \in 0 .. v - 1 : g[u] = f[u]
          BY <3>4
        <4> HIDE DEF f
        <4> QED BY <4>1, PackStepLocal
      <3>6. f = [v \in 0 .. n |-> PackStep(f, v)]
        BY <3>5
      <3>7. PacksUpto(n, f)
        BY <3>6 DEF PacksUpto
      <3> QED BY <3>7
    <2> QED BY <2>1, <2>2
  <1>2. \A n \in Nat : n \in T
    <2> HIDE DEF T
    <2> QED BY <1>1, SetInduction
  <1> QED BY <1>2

(* PackUInt satisfies the equation that defines it. *)
LEMMA PackUIntDef == \A v \in Nat : PackUInt[v] = PackStep(PackUInt, v)
  <1> DEFINE upto(n) == CHOOSE f : PacksUpto(n, f)
             F == [v \in Nat |-> upto(v)[v]]
  <1>1. ASSUME NEW n \in Nat PROVE PacksUpto(n, upto(n))
    BY PackExists
  <1> HIDE DEF upto
  <1>2. ASSUME NEW v \in Nat PROVE F[v] = PackStep(F, v)
    <2>1. F[v] = upto(v)[v]
      OBVIOUS
    <2>2. upto(v)[v] = PackStep(upto(v), v)
      <3>1. upto(v) = [u \in 0 .. v |-> PackStep(upto(v), u)]
        BY <1>1 DEF PacksUpto
      <3>2. v \in 0 .. v
        OBVIOUS
      <3> QED BY ONLY <3>1, <3>2
    <2>3. \A u \in 0 .. v - 1 : upto(v)[u] = F[u]
      <3> SUFFICES ASSUME NEW u \in 0 .. v - 1 PROVE upto(v)[u] = F[u]
        OBVIOUS
      <3>1. u \in Nat /\ u <= v
        OBVIOUS
      <3>2. upto(v)[u] = upto(u)[u]
        BY <1>1, <3>1, PackUnique
      <3> QED BY <3>1, <3>2
    <2> HIDE DEF F
    <2>4. PackStep(upto(v), v) = PackStep(F, v)
      BY <2>3, PackStepLocal
    <2> QED BY <2>1, <2>2, <2>4
  <1>3. F = [v \in Nat |-> PackStep(F, v)]
    <2>1. F = [v \in Nat |-> F[v]]
      OBVIOUS
    <2> HIDE DEF F
    <2> QED BY <1>2, <2>1
  <1>4. \E f : f = [v \in Nat |-> PackStep(f, v)]
    BY <1>3
  <1>5. PackUInt = CHOOSE f : f = [v \in Nat |-> PackStep(f, v)]
    BY DEF PackUInt, PackStep
  <1>6. PackUInt = [v \in Nat |-> PackStep(PackUInt, v)]
    BY <1>4, <1>5
  <1> QED BY ONLY <1>6

(* The two cases of the definition. *)
LEMMA PackUIntCases ==
    ASSUME NEW v \in Nat
    PROVE  /\ v < VarintBase => PackUInt[v] = <<v>>
           /\ v >= VarintBase =>
                 PackUInt[v] = Cons((v % VarintBase) + VarintBase, PackUInt[v \div VarintBase])
  <1>1. PackUInt[v] = PackStep(PackUInt, v)
    BY PackUIntDef
  <1>2. v >= VarintBase => ~ (v < VarintBase)
    BY CodecAssumption
  <1> QED BY <1>1, <1>2 DEF PackStep, Cons

(* A sequence of one item. *)
LEMMA OneItem ==
    ASSUME NEW S, NEW a \in S
    PROVE  <<a>> \in Seq(S) /\ Len(<<a>>) = 1 /\ <<a>>[1] = a
  OBVIOUS

(* Two sequences joined, item by item. *)
Joins(S, s, x, w) ==
    /\ w \in Seq(S)
    /\ Len(s) \in Nat /\ Len(x) \in Nat /\ Len(w) = Len(s) + Len(x)
    /\ \A i \in 1 .. Len(s) : w[i] = s[i]
    /\ \A i \in 1 .. Len(x) : w[Len(s) + i] = x[i]

(* That is what \o does. *)
LEMMA Joined ==
    ASSUME NEW S, NEW s \in Seq(S), NEW x \in Seq(S)
    PROVE  Joins(S, s, x, s \o x)
  <1>1. /\ s \o x \in Seq(S)
        /\ Len(s \o x) = Len(s) + Len(x)
        /\ \A i \in 1 .. Len(s) + Len(x) :
              (s \o x)[i] = IF i <= Len(s) THEN s[i] ELSE x[i - Len(s)]
    BY ConcatProperties
  <1> DEFINE n == Len(s)
             k == Len(x)
             w == s \o x
  <1>2. n \in Nat /\ k \in Nat
    OBVIOUS
  <1>3. /\ w \in Seq(S) /\ Len(w) = n + k
        /\ \A i \in 1 .. n + k : w[i] = IF i <= n THEN s[i] ELSE x[i - n]
    BY <1>1
  <1> HIDE DEF n, k, w
  <1>4. \A i \in 1 .. n : w[i] = s[i]
    BY <1>2, <1>3
  <1>5. ASSUME NEW i \in 1 .. k PROVE w[n + i] = x[i]
    <2>1. PICK j \in 1 .. n + k : j = n + i /\ j - n = i /\ ~ (j <= n)
      BY <1>2
    <2>2. w[j] = x[j - n]
      BY <1>3, <2>1
    <2> QED BY <2>1, <2>2
  <1>6. Joins(S, s, x, w)
    BY <1>2, <1>3, <1>4, <1>5 DEF Joins, n, k
  <1> QED BY <1>6 DEF w

(* Equal sequences cut after as many items are equal on both sides. *)
LEMMA ConcatCancel ==
    ASSUME NEW S, NEW s \in Seq(S), NEW t \in Seq(S), NEW x \in Seq(S), NEW y \in Seq(S),
           Len(s) = Len(t), s \o x = t \o y
    PROVE  s = t /\ x = y
  <1>1. PICK w : w = s \o x /\ w = t \o y
    OBVIOUS
  <1>2. Joins(S, s, x, w)
    BY <1>1, Joined
  <1>3. Joins(S, t, y, w)
    BY <1>1, Joined
  <1>4. Len(x) = Len(y)
    BY <1>2, <1>3 DEF Joins
  <1>5. s = t
    <2>1. \A i \in 1 .. Len(s) : s[i] = t[i]
      BY <1>2, <1>3 DEF Joins
    <2> QED BY <2>1, SeqEqual
  <1>6. x = y
    <2>1. \A i \in 1 .. Len(x) : x[i] = y[i]
      BY <1>2, <1>3, <1>4 DEF Joins
    <2> QED BY <1>4, <2>1, SeqEqual
  <1> QED BY <1>5, <1>6

(* An item before a sequence. *)
Leads(a, s, w) ==
    Len(w) = Len(s) + 1 /\ w[1] = a /\ \A i \in 1 .. Len(s) : w[i + 1] = s[i]

(* What Cons does. *)
LEMMA ConsFacts ==
    ASSUME NEW S, NEW a \in S, NEW s \in Seq(S)
    PROVE  /\ Cons(a, s) \in Seq(S)
           /\ Leads(a, s, Cons(a, s))
           /\ \A x \in Seq(S) : Cons(a, s) \o x = Cons(a, s \o x)
  <1>1. PICK one : one = <<a>>
    OBVIOUS
  <1>2. one \in Seq(S) /\ Len(one) = 1 /\ one[1] = a /\ Cons(a, s) = one \o s
    BY <1>1, OneItem DEF Cons
  <1>3. PICK w : w = one \o s
    OBVIOUS
  <1>4. ASSUME NEW x \in Seq(S) PROVE Cons(a, s) \o x = Cons(a, s \o x)
    <2>1. (one \o s) \o x = one \o (s \o x)
      BY <1>2, ConcatAssociative
    <2>2. Cons(a, s \o x) = one \o (s \o x)
      BY <1>1 DEF Cons
    <2> QED BY <1>2, <2>1, <2>2
  <1>6. /\ w \in Seq(S) /\ Len(s) \in Nat /\ Len(w) = Len(one) + Len(s)
        /\ \A i \in 1 .. Len(one) : w[i] = one[i]
        /\ \A i \in 1 .. Len(s) : w[Len(one) + i] = s[i]
    <2>1. Joins(S, one, s, w)
      BY <1>2, <1>3, Joined
    <2> QED BY <2>1 DEF Joins
  <1>7. w = Cons(a, s)
    BY <1>2, <1>3
  <1>8. \A i \in 1 .. Len(s) : i + 1 = 1 + i
    BY <1>6
  <1>9. Leads(a, s, w)
    BY <1>2, <1>6, <1>8 DEF Leads
  <1> QED BY <1>4, <1>6, <1>7, <1>9

(* The item and the sequence can be told from the whole. *)
LEMMA ConsInjective ==
    ASSUME NEW S, NEW a \in S, NEW b \in S, NEW s \in Seq(S), NEW t \in Seq(S),
           Cons(a, s) = Cons(b, t)
    PROVE  a = b /\ s = t
  <1>1. PICK one, other : one = <<a>> /\ other = <<b>>
    OBVIOUS
  <1>2. /\ one \in Seq(S) /\ Len(one) = 1 /\ one[1] = a
        /\ other \in Seq(S) /\ Len(other) = 1 /\ other[1] = b
    BY <1>1, OneItem
  <1>3. one \o s = other \o t
    BY <1>1 DEF Cons
  <1>4. one = other /\ s = t
    BY <1>2, <1>3, ConcatCancel
  <1> QED BY <1>2, <1>4

(* What is packed are numbers. *)
LEMMA PackUIntType == \A v \in Nat : PackUInt[v] \in Seq(Nat)
  <1> DEFINE T == {v \in Nat : PackUInt[v] \in Seq(Nat)}
  <1>1. ASSUME NEW v \in Nat, \A u \in 0 .. v - 1 : u \in T PROVE v \in T
    <2>1. CASE v < VarintBase
      BY <2>1, PackUIntCases, OneItem
    <2>2. CASE v >= VarintBase
      <3> DEFINE q == v \div VarintBase
                 b == (v % VarintBase) + VarintBase
      <3>1. q \in 0 .. v - 1 /\ b \in Nat
        BY <2>2, DigitsOf, CodecAssumption
      <3>2. PackUInt[q] \in Seq(Nat)
        BY <1>1, <3>1
      <3>3. PackUInt[v] = Cons(b, PackUInt[q])
        BY <2>2, PackUIntCases
      <3> HIDE DEF q, b
      <3>4. Cons(b, PackUInt[q]) \in Seq(Nat)
        BY <3>1, <3>2, ConsFacts, Zenon
      <3> QED BY <3>3, <3>4
    <2> QED BY <2>1, <2>2, CodecAssumption
  <1>2. \A v \in Nat : v \in T
    <2> HIDE DEF T
    <2> QED BY <1>1, SetInduction
  <1> QED BY <1>2

(* The first item of a sequence that starts with a packed length. *)
LEMMA FirstByte ==
    ASSUME NEW S, Nat \subseteq S, NEW v \in Nat, NEW x \in Seq(S)
    PROVE  /\ v < VarintBase => PackUInt[v] \o x = Cons(v, x)
           /\ v >= VarintBase =>
                 /\ PackUInt[v \div VarintBase] \o x \in Seq(S)
                 /\ PackUInt[v] \o x =
                       Cons((v % VarintBase) + VarintBase, PackUInt[v \div VarintBase] \o x)
  <1>1. v < VarintBase => PackUInt[v] \o x = Cons(v, x)
    BY PackUIntCases DEF Cons
  <1> DEFINE q == v \div VarintBase
             b == (v % VarintBase) + VarintBase
  <1>2. ASSUME v >= VarintBase
        PROVE  PackUInt[q] \o x \in Seq(S) /\ PackUInt[v] \o x = Cons(b, PackUInt[q] \o x)
    <2>1. q \in Nat /\ b \in Nat
      BY DigitsOf, CodecAssumption
    <2>2. PackUInt[v] = Cons(b, PackUInt[q])
      BY <1>2, PackUIntCases
    <2> HIDE DEF q, b
    <2>3. PackUInt[q] \in Seq(Nat)
      BY <2>1, PackUIntType
    <2>4. PackUInt[q] \in Seq(S) /\ b \in S
      BY <2>1, <2>3
    <2>5. Cons(b, PackUInt[q]) \o x = Cons(b, PackUInt[q] \o x)
      BY <2>4, ConsFacts
    <2>6. PackUInt[q] \o x \in Seq(S)
      BY <2>4, ConcatProperties
    <2> QED BY <2>2, <2>5, <2>6
  <1> QED BY <1>1, <1>2

(* w is p followed by x. *)
Splits(w, p, x) == w = p \o x

(***************************************************************************)
(* No packed length starts another: whatever follows, the bytes determine  *)
(* the length and where it ends.                                           *)
(***************************************************************************)
LEMMA PackUIntPrefixFree ==
    ASSUME NEW S, Nat \subseteq S
    PROVE  \A v, u \in Nat, x, y \in Seq(S) : \A w :
               Splits(w, PackUInt[v], x) /\ Splits(w, PackUInt[u], y) => v = u /\ x = y
  <1> DEFINE T == {v \in Nat : \A u \in Nat, x, y \in Seq(S) : \A w :
                      Splits(w, PackUInt[v], x) /\ Splits(w, PackUInt[u], y)
                          => v = u /\ x = y}
  <1>1. ASSUME NEW v \in Nat, \A o \in 0 .. v - 1 : o \in T PROVE v \in T
    <2> SUFFICES ASSUME NEW u \in Nat, NEW x \in Seq(S), NEW y \in Seq(S), NEW w,
                        Splits(w, PackUInt[v], x), Splits(w, PackUInt[u], y)
                 PROVE  v = u /\ x = y
      OBVIOUS
    <2>1. PackUInt[v] \o x = PackUInt[u] \o y
      BY DEF Splits
    <2>0. VarintBase \in Nat
      BY CodecAssumption
    <2> DEFINE bv == (v % VarintBase) + VarintBase
               bu == (u % VarintBase) + VarintBase
               qv == v \div VarintBase
               qu == u \div VarintBase
    <2>2. /\ v < VarintBase => PackUInt[v] \o x = Cons(v, x)
          /\ v >= VarintBase => /\ PackUInt[qv] \o x \in Seq(S)
                                /\ PackUInt[v] \o x = Cons(bv, PackUInt[qv] \o x)
      BY FirstByte
    <2>3. /\ u < VarintBase => PackUInt[u] \o y = Cons(u, y)
          /\ u >= VarintBase => /\ PackUInt[qu] \o y \in Seq(S)
                                /\ PackUInt[u] \o y = Cons(bu, PackUInt[qu] \o y)
      BY FirstByte
    <2>4. /\ v % VarintBase \in Nat /\ u % VarintBase \in Nat
          /\ qv \in Nat /\ qu \in Nat
          /\ v = (v % VarintBase) + VarintBase * qv
          /\ u = (u % VarintBase) + VarintBase * qu
          /\ v >= VarintBase => qv < v
      BY DigitsOf
    <2>5. /\ bv \in Nat /\ bu \in Nat /\ bv >= VarintBase /\ bu >= VarintBase
          /\ bv = bu => v % VarintBase = u % VarintBase
      <3> DEFINE rv == v % VarintBase
                 ru == u % VarintBase
      <3>1. /\ rv \in Nat /\ ru \in Nat
            /\ bv = rv + VarintBase /\ bu = ru + VarintBase
        BY <2>4
      <3> HIDE DEF rv, ru, bv, bu
      <3>2. /\ bv \in Nat /\ bu \in Nat /\ bv >= VarintBase /\ bu >= VarintBase
            /\ bv = bu => rv = ru
        BY <2>0, <3>1
      <3> QED BY <3>2 DEF rv, ru
    <2>6. bv = bu /\ qv = qu => v = u
      BY <2>4, <2>5
    <2> DEFINE sv == PackUInt[v] \o x
               su == PackUInt[u] \o y
               tv == PackUInt[qv] \o x
               tu == PackUInt[qu] \o y
    <2>7. /\ sv = su
          /\ v < VarintBase => sv = Cons(v, x)
          /\ v >= VarintBase => tv \in Seq(S) /\ sv = Cons(bv, tv)
          /\ u < VarintBase => su = Cons(u, y)
          /\ u >= VarintBase => tu \in Seq(S) /\ su = Cons(bu, tu)
      BY <2>1, <2>2, <2>3, Zenon
    <2>8. Splits(tv, PackUInt[qv], x) /\ Splits(tu, PackUInt[qu], y)
      BY DEF Splits
    <2> HIDE DEF bv, bu, qv, qu, sv, su, tv, tu, T
    <2>9. CASE v < VarintBase /\ u < VarintBase
      <3>1. Cons(v, x) = Cons(u, y)
        BY <2>7, <2>9
      <3> QED BY <3>1, ConsInjective
    <2>10. CASE v < VarintBase /\ u >= VarintBase
      <3>1. v = bu
        <4>1. Cons(v, x) = Cons(bu, tu) /\ tu \in Seq(S)
          BY <2>7, <2>10
        <4>2. bv \in Nat /\ bu \in Nat
          BY <2>5
        <4> QED BY <4>1, <4>2, ConsInjective
      <3> QED BY <2>0, <2>5, <2>10, <3>1
    <2>11. CASE v >= VarintBase /\ u < VarintBase
      <3>1. u = bv
        <4>1. Cons(bv, tv) = Cons(u, y) /\ tv \in Seq(S)
          BY <2>7, <2>11
        <4>2. bv \in Nat /\ bu \in Nat
          BY <2>5
        <4> QED BY <4>1, <4>2, ConsInjective
      <3> QED BY <2>0, <2>5, <2>11, <3>1
    <2>12. CASE v >= VarintBase /\ u >= VarintBase
      <3>1. bv = bu /\ tv = tu
        <4>1. Cons(bv, tv) = Cons(bu, tu) /\ tv \in Seq(S) /\ tu \in Seq(S)
          BY <2>7, <2>12
        <4>2. bv \in Nat /\ bu \in Nat
          BY <2>5
        <4> QED BY <4>1, <4>2, ConsInjective
      <3>2. qv \in 0 .. v - 1
        BY <2>4, <2>12
      <3>3. qv = qu /\ x = y
        <4>1. qv \in T
          BY <1>1, <3>2
        <4> QED BY <2>4, <2>8, <3>1, <4>1 DEF T
      <3> QED BY <2>6, <3>1, <3>3
    <2> QED BY <2>0, <2>9, <2>10, <2>11, <2>12
  <1>2. \A v \in Nat : v \in T
    <2> HIDE DEF T
    <2> QED BY <1>1, SetInduction
  <1> QED BY <1>2

(***************************************************************************)
(* What is left of a length after each of its bytes: the length before the *)
(* first, nothing after the last; and only the last byte is not marked.    *)
(***************************************************************************)
Digits(v, bytes, w) ==
    LET n == Len(bytes)
    IN  /\ n \in Nat /\ n >= 1
        /\ w \in [0 .. n -> Nat]
        /\ w[0] = v
        /\ w[n] = 0
        /\ \A i \in 0 .. n - 1 : w[i] = (bytes[i + 1] % VarintBase) + VarintBase * w[i + 1]
        /\ \A i \in 1 .. n - 1 : bytes[i] >= VarintBase
        /\ bytes[n] < VarintBase

(* The mark is no part of the digit. *)
LEMMA Unmarked ==
    ASSUME NEW r \in Nat, r < VarintBase
    PROVE  (r + VarintBase) % VarintBase = r
  <1>1. VarintBase \in Nat /\ VarintBase > 0
    BY CodecAssumption
  <1> QED BY <1>1

(* A digit put before the bytes of a length. *)
LEMMA DigitBefore ==
    ASSUME NEW q \in Nat, NEW bytes \in Seq(Nat), NEW w, Digits(q, bytes, w),
           NEW r \in Nat, r < VarintBase
    PROVE  \E z : Digits(r + VarintBase * q, Cons(r + VarintBase, bytes), z)
  <1> DEFINE n == Len(bytes)
             b == r + VarintBase
             v == r + VarintBase * q
             z == [i \in 0 .. n + 1 |-> IF i = 0 THEN v ELSE w[i - 1]]
  <1>1. VarintBase \in Nat /\ b \in Nat /\ b >= VarintBase /\ b % VarintBase = r /\ v \in Nat
    BY CodecAssumption, Unmarked
  <1>2. PICK all : all = Cons(b, bytes)
    OBVIOUS
  <1>3. Len(all) = n + 1 /\ all[1] = b /\ \A i \in 1 .. n : all[i + 1] = bytes[i]
    <2>1. b \in Nat
      BY <1>1
    <2> HIDE DEF b
    <2>2. Leads(b, bytes, all)
      BY <1>2, <2>1, ConsFacts
    <2> QED BY <2>2 DEF Leads
  <1>4. /\ n \in Nat /\ n >= 1
        /\ w \in [0 .. n -> Nat]
        /\ w[0] = q
        /\ w[n] = 0
        /\ \A i \in 0 .. n - 1 : w[i] = (bytes[i + 1] % VarintBase) + VarintBase * w[i + 1]
        /\ \A i \in 1 .. n - 1 : bytes[i] >= VarintBase
        /\ bytes[n] < VarintBase
    BY DEF Digits
  <1>5. v = (b % VarintBase) + VarintBase * q
    BY <1>1
  <1> HIDE DEF n, b, v
  <1>6. z \in [0 .. n + 1 -> Nat] /\ z[0] = v /\ \A i \in 0 .. n : z[i + 1] = w[i]
    <2>1. \A i \in 0 .. n + 1 : i # 0 => i - 1 \in 0 .. n
      BY <1>4
    <2>2. \A i \in 0 .. n : i + 1 \in 0 .. n + 1 /\ i + 1 # 0 /\ i + 1 - 1 = i
      BY <1>4
    <2>3. 0 \in 0 .. n + 1
      BY <1>4
    <2> QED BY <1>1, <1>4, <2>1, <2>2, <2>3
  <1> HIDE DEF z
  <1>7. z[n + 1] = 0
    BY <1>4, <1>6
  <1>8. ASSUME NEW i \in 0 .. n
        PROVE  z[i] = (all[i + 1] % VarintBase) + VarintBase * z[i + 1]
    <2>1. CASE i = 0
      <3>1. z[0] = v /\ z[0 + 1] = w[0] /\ w[0] = q /\ all[1] = b
        BY <1>3, <1>4, <1>6
      <3> QED BY <1>5, <2>1, <3>1
    <2>2. CASE i # 0
      <3>1. PICK j \in 0 .. n - 1 : i = j + 1
        BY <1>4, <2>2
      <3>2. z[i] = w[j] /\ z[i + 1] = w[j + 1] /\ all[i + 1] = bytes[j + 1]
        BY <1>3, <1>4, <1>6, <3>1
      <3>3. w[j] = (bytes[j + 1] % VarintBase) + VarintBase * w[j + 1]
        BY <1>4
      <3> QED BY <3>2, <3>3
    <2> QED BY <2>1, <2>2
  <1>9. ASSUME NEW i \in 1 .. n PROVE all[i] >= VarintBase
    <2>1. CASE i = 1
      BY <1>1, <1>3, <2>1
    <2>2. CASE i # 1
      <3>1. PICK j \in 1 .. n - 1 : i = j + 1
        BY <1>4, <2>2
      <3>2. j \in 1 .. n
        BY <1>4
      <3>3. all[j + 1] = bytes[j] /\ bytes[j] >= VarintBase
        BY <1>3, <1>4, <3>2
      <3> QED BY <3>1, <3>3
    <2> QED BY <2>1, <2>2
  <1>10. all[n + 1] < VarintBase
    BY <1>3, <1>4
  <1>11. Digits(v, all, z)
    <2>1. PICK k : k = n + 1 /\ k \in Nat /\ k >= 1 /\ k - 1 = n
      BY <1>4
    <2>2. /\ Len(all) = k /\ z \in [0 .. k -> Nat] /\ z[0] = v /\ z[k] = 0
          /\ \A i \in 0 .. k - 1 : z[i] = (all[i + 1] % VarintBase) + VarintBase * z[i + 1]
          /\ \A i \in 1 .. k - 1 : all[i] >= VarintBase
          /\ all[k] < VarintBase
      BY <1>3, <1>6, <1>7, <1>8, <1>9, <1>10, <2>1
    <2> QED BY <2>1, <2>2 DEF Digits
  <1> QED BY <1>2, <1>11 DEF b, v

(* Every packed length has its digits. *)
LEMMA DigitsExist == \A v \in Nat : \E w : Digits(v, PackUInt[v], w)
  <1> DEFINE T == {v \in Nat : \E w : Digits(v, PackUInt[v], w)}
  <1>1. ASSUME NEW v \in Nat, \A u \in 0 .. v - 1 : u \in T PROVE v \in T
    <2>1. CASE v < VarintBase
      <3>1. PICK one : one = <<v>>
        OBVIOUS
      <3>2. one = PackUInt[v] /\ Len(one) = 1 /\ one[1] = v
        BY <2>1, <3>1, PackUIntCases, OneItem
      <3> DEFINE w == [i \in 0 .. 1 |-> IF i = 0 THEN v ELSE 0]
      <3>3. w \in [0 .. 1 -> Nat] /\ w[0] = v /\ w[1] = 0
        OBVIOUS
      <3> HIDE DEF w
      <3>4. v = (v % VarintBase) + VarintBase * 0
        BY <2>1, DigitsOf, CodecAssumption
      <3>5. Digits(v, one, w)
        BY <2>1, <3>2, <3>3, <3>4 DEF Digits
      <3> QED BY <3>2, <3>5
    <2>2. CASE v >= VarintBase
      <3> DEFINE q == v \div VarintBase
                 r == v % VarintBase
      <3>1. q \in 0 .. v - 1 /\ r \in Nat /\ r < VarintBase /\ v = r + VarintBase * q
        BY <2>2, DigitsOf, CodecAssumption
      <3>2. PackUInt[v] = Cons(r + VarintBase, PackUInt[q])
        BY <2>2, PackUIntCases
      <3> HIDE DEF q, r
      <3>3. q \in Nat /\ PackUInt[q] \in Seq(Nat)
        BY <3>1, PackUIntType
      <3>4. PICK w : Digits(q, PackUInt[q], w)
        BY <1>1, <3>1
      <3>5. \E z : Digits(r + VarintBase * q, Cons(r + VarintBase, PackUInt[q]), z)
        BY <3>1, <3>3, <3>4, DigitBefore
      <3> QED BY <3>1, <3>2, <3>5
    <2> QED BY <2>1, <2>2, CodecAssumption
  <1>2. \A v \in Nat : v \in T
    <2> HIDE DEF T
    <2> QED BY <1>1, SetInduction
  <1> QED BY <1>2

(* Both halves of what was joined are found again. *)
LEMMA SplitJoined ==
    ASSUME NEW S, NEW s \in Seq(S), NEW x \in Seq(S)
    PROVE  /\ SubSeq(s \o x, 1, Len(s)) = s
           /\ SubSeq(s \o x, Len(s) + 1, Len(s \o x)) = x
  <1>1. PICK w : w = s \o x
    OBVIOUS
  <1>2. Joins(S, s, x, w)
    BY <1>1, Joined
  <1> DEFINE n == Len(s)
             k == Len(x)
  <1>3. /\ n \in Nat /\ k \in Nat /\ Len(w) = n + k /\ w \in Seq(S)
        /\ \A i \in 1 .. n : w[i] = s[i]
        /\ \A i \in 1 .. k : w[n + i] = x[i]
    BY <1>2 DEF Joins
  <1>4. /\ s \in [1 .. n -> S] /\ x \in [1 .. k -> S]
        /\ s = [i \in 1 .. n |-> s[i]] /\ x = [i \in 1 .. k |-> x[i]]
    OBVIOUS
  <1> HIDE DEF n, k
  <1>5. SubSeq(w, 1, n) = s
    <2>1. SubSeq(w, 1, n) = [i \in 1 .. n |-> w[i]]
      BY <1>3
    <2>2. [i \in 1 .. n |-> w[i]] = [i \in 1 .. n |-> s[i]]
      BY <1>3
    <2> QED BY <1>4, <2>1, <2>2
  <1>6. SubSeq(w, n + 1, Len(w)) = x
    <2>1. SubSeq(w, n + 1, n + k) = [i \in 1 .. k |-> w[n + i]]
      BY <1>3
    <2>2. [i \in 1 .. k |-> w[n + i]] = [i \in 1 .. k |-> x[i]]
      BY <1>3
    <2> QED BY <1>3, <1>4, <2>1, <2>2
  <1> QED BY <1>1, <1>5, <1>6 DEF n

(* The bytes of a packed length are read up to its last. *)
LEMMA VarintLenOfPacked ==
    ASSUME NEW S, NEW v \in Nat, NEW x \in Seq(S), Nat \subseteq S,
           NEW w, Digits(v, PackUInt[v], w), Len(PackUInt[v]) <= MaxVarint
    PROVE  VarintLen(PackUInt[v] \o x) = Len(PackUInt[v])
  <1> DEFINE bytes == PackUInt[v]
             n == Len(bytes)
  <1>1. PICK s : s = bytes \o x
    OBVIOUS
  <1>2. bytes \in Seq(S)
    <2>1. bytes \in Seq(Nat)
      BY PackUIntType
    <2> HIDE DEF bytes
    <2> QED BY <2>1
  <1> HIDE DEF bytes
  <1>3. /\ s \in Seq(S) /\ n \in Nat /\ Len(x) \in Nat /\ Len(s) = n + Len(x)
        /\ \A i \in 1 .. n : s[i] = bytes[i]
    <2>1. Joins(S, bytes, x, s)
      BY <1>1, <1>2, Joined
    <2> QED BY <2>1 DEF Joins
  <1>4. Digits(v, bytes, w) /\ n <= MaxVarint
    BY DEF bytes
  <1>5. n >= 1 /\ bytes[n] < VarintBase /\ \A i \in 1 .. n - 1 : bytes[i] >= VarintBase
    BY <1>4 DEF Digits
  <1> DEFINE C == {MaxVarint} \cup {i \in DOMAIN s : s[i] < VarintBase}
  <1>6. DOMAIN s = 1 .. Len(s)
    BY <1>3
  <1>7. n \in C
    <2>1. n \in 1 .. n /\ n \in 1 .. Len(s)
      BY <1>3, <1>5
    <2> QED BY <1>3, <1>5, <1>6, <2>1
  <1>8. ASSUME NEW i \in C PROVE i \in Nat /\ n <= i
    <2>1. CASE i = MaxVarint
      BY <1>4, <2>1, CodecAssumption
    <2>2. CASE i \in DOMAIN s /\ s[i] < VarintBase
      <3>1. i \in 1 .. Len(s) /\ i \in Nat
        BY <1>3, <1>6, <2>2
      <3>2. ASSUME i < n PROVE FALSE
        <4>1. i \in 1 .. n - 1 /\ i \in 1 .. n
          BY <1>3, <3>1, <3>2
        <4>2. s[i] = bytes[i] /\ bytes[i] >= VarintBase
          BY <1>3, <1>5, <4>1
        <4>3. bytes[i] \in Nat /\ VarintBase \in Nat
          BY <4>1, PackUIntType, CodecAssumption DEF bytes
        <4> QED BY <2>2, <4>2, <4>3
      <3> QED BY <1>3, <3>1, <3>2
    <2> QED BY <2>1, <2>2
  <1>9. VarintLen(s) = Min(C)
    BY DEF VarintLen
  <1> HIDE DEF C
  <1>10. Min(C) = n
    BY <1>3, <1>7, <1>8 DEF Min
  <1> QED BY <1>1, <1>9, <1>10 DEF bytes

(* The recursion of UnpackUInt over s, n of whose bytes are read. *)
Reads(s, n, f) ==
    f = [i \in 0 .. n |->
            IF i = n THEN 0 ELSE (s[i + 1] % VarintBase) + VarintBase * f[i + 1]]

(* What is left before each of those bytes, and nothing in the end. *)
Leaves(s, n, w) ==
    /\ w \in [0 .. n -> Nat]
    /\ w[n] = 0
    /\ \A i \in 0 .. n - 1 : w[i] = (s[i + 1] % VarintBase) + VarintBase * w[i + 1]

(* It computes what is left of the length before each byte. *)
LEMMA ReadsDigits ==
    ASSUME NEW n \in Nat, NEW s, NEW w, NEW f, Reads(s, n, f), Leaves(s, n, w)
    PROVE  f[0] = w[0]
  <1> DEFINE T == {k \in Nat : k <= n => f[n - k] = w[n - k]}
  <1>1. \A i \in 0 .. n :
            f[i] = IF i = n THEN 0 ELSE (s[i + 1] % VarintBase) + VarintBase * f[i + 1]
    <2> SUFFICES ASSUME NEW i \in 0 .. n
                 PROVE  f[i] = IF i = n THEN 0
                               ELSE (s[i + 1] % VarintBase) + VarintBase * f[i + 1]
      OBVIOUS
    <2>1. f = [j \in 0 .. n |->
                  IF j = n THEN 0 ELSE (s[j + 1] % VarintBase) + VarintBase * f[j + 1]]
      BY DEF Reads
    <2> QED BY ONLY <2>1, i \in 0 .. n
  <1>2. ASSUME NEW k \in Nat, \A m \in 0 .. k - 1 : m \in T PROVE k \in T
    <2> SUFFICES ASSUME k <= n PROVE f[n - k] = w[n - k]
      OBVIOUS
    <2>1. CASE k = 0
      BY <1>1, <2>1 DEF Leaves
    <2>2. CASE k # 0
      <3>1. PICK i \in 0 .. n - 1 : i = n - k
        BY <2>2
      <3>2. k - 1 \in 0 .. k - 1 /\ n - (k - 1) = i + 1 /\ k - 1 <= n
        BY <2>2, <3>1
      <3>3. f[i + 1] = w[i + 1]
        BY <1>2, <3>2
      <3>4. f[i] = (s[i + 1] % VarintBase) + VarintBase * f[i + 1]
        BY <1>1, <3>1
      <3>5. w[i] = (s[i + 1] % VarintBase) + VarintBase * w[i + 1]
        BY DEF Leaves
      <3> QED BY <3>1, <3>3, <3>4, <3>5
    <2> QED BY <2>1, <2>2
  <1>3. \A k \in Nat : k \in T
    <2> HIDE DEF T
    <2> QED BY <1>2, SetInduction
  <1>4. n \in T
    <2> HIDE DEF T
    <2> QED BY <1>3
  <1>5. n - n = 0 /\ n <= n
    OBVIOUS
  <1>6. f[n - n] = w[n - n]
    BY <1>4, <1>5
  <1> QED BY <1>5, <1>6

(* Unpacking a length gives it back, and what follows it. *)
LEMMA UnpackUIntBack ==
    ASSUME NEW S, Nat \subseteq S, NEW v \in Nat, NEW x \in Seq(S),
           Len(PackUInt[v]) <= MaxVarint
    PROVE  UnpackUInt(PackUInt[v] \o x) = [value |-> v, rest |-> x]
  <1> DEFINE bytes == PackUInt[v]
             n == Len(bytes)
  <1>1. PICK s : s = bytes \o x
    OBVIOUS
  <1>2. PICK w : Digits(v, bytes, w)
    BY DigitsExist
  <1>3. VarintLen(s) = n
    BY <1>1, <1>2, VarintLenOfPacked
  <1>4. bytes \in Seq(S)
    <2>1. bytes \in Seq(Nat)
      BY PackUIntType
    <2> HIDE DEF bytes
    <2> QED BY <2>1
  <1> HIDE DEF bytes
  <1>5. Joins(S, bytes, x, s)
    BY <1>1, <1>4, Joined
  <1>6. /\ n \in Nat /\ w \in [0 .. n -> Nat] /\ w[0] = v /\ w[n] = 0
        /\ \A i \in 0 .. n - 1 : w[i] = (s[i + 1] % VarintBase) + VarintBase * w[i + 1]
    <2>1. /\ n \in Nat /\ w \in [0 .. n -> Nat] /\ w[0] = v /\ w[n] = 0
          /\ \A i \in 0 .. n - 1 : w[i] = (bytes[i + 1] % VarintBase) + VarintBase * w[i + 1]
      BY <1>2 DEF Digits
    <2>2. \A i \in 0 .. n - 1 : s[i + 1] = bytes[i + 1]
      <3> SUFFICES ASSUME NEW i \in 0 .. n - 1 PROVE s[i + 1] = bytes[i + 1]
        OBVIOUS
      <3>1. i + 1 \in 1 .. n
        BY <2>1
      <3> QED BY <1>5, <3>1 DEF Joins
    <2> QED BY <2>1, <2>2
  <1>7. SubSeq(s, n + 1, Len(s)) = x
    BY <1>1, <1>4, SplitJoined
  <1> HIDE DEF n
  <1>8. Reads(s, n, w)
    <2>1. w = [i \in 0 .. n |-> w[i]]
      BY <1>6
    <2>2. \A i \in 0 .. n : w[i] =
              IF i = n THEN 0 ELSE (s[i + 1] % VarintBase) + VarintBase * w[i + 1]
      BY <1>6
    <2>3. [i \in 0 .. n |-> w[i]] =
              [i \in 0 .. n |->
                  IF i = n THEN 0 ELSE (s[i + 1] % VarintBase) + VarintBase * w[i + 1]]
      BY <2>2
    <2> QED BY <2>1, <2>3 DEF Reads
  <1> DEFINE value == CHOOSE f : Reads(s, n, f)
  <1>9. Reads(s, n, value)
    BY <1>8
  <1>10. UnpackUInt(s) = [value |-> value[0], rest |-> SubSeq(s, n + 1, Len(s))]
    BY <1>3 DEF UnpackUInt, Reads
  <1> HIDE DEF value
  <1>11. value[0] = w[0]
    <2>1. Leaves(s, n, w)
      BY <1>6 DEF Leaves
    <2> QED BY <1>6, <1>9, <2>1, ReadsDigits
  <1> QED BY <1>1, <1>6, <1>7, <1>10, <1>11 DEF bytes

(* A sequence of sequences is one. *)
LEMMA SplitsType ==
    ASSUME NEW S, NEW p \in Seq(S), NEW x \in Seq(S), NEW w, Splits(w, p, x)
    PROVE  w \in Seq(S)
  BY ConcatProperties DEF Splits

(* What follows two sequences follows the second. *)
LEMMA Regroup ==
    ASSUME NEW S, NEW p \in Seq(S), NEW q \in Seq(S), NEW x \in Seq(S), NEW pq, NEW w,
           Splits(pq, p, q), Splits(w, pq, x), NEW qx, Splits(qx, q, x)
    PROVE  Splits(w, p, qx)
  <1>1. (p \o q) \o x = p \o (q \o x)
    BY ConcatAssociative
  <1> QED BY <1>1 DEF Splits

(* Cut after as many items, a sequence gives the same parts. *)
LEMMA SameCut ==
    ASSUME NEW S, NEW p \in Seq(S), NEW q \in Seq(S), NEW x \in Seq(S), NEW y \in Seq(S),
           NEW w, Splits(w, p, x), Splits(w, q, y), Len(p) = Len(q)
    PROVE  p = q /\ x = y
  BY ConcatCancel DEF Splits

(* A sequence that starts with a packed length starts with no other. *)
LEMMA SameLength ==
    ASSUME NEW S, Nat \subseteq S, NEW v \in Nat, NEW u \in Nat, NEW x \in Seq(S),
           NEW y \in Seq(S), NEW w, Splits(w, PackUInt[v], x), Splits(w, PackUInt[u], y)
    PROVE  v = u /\ x = y
  BY PackUIntPrefixFree

(* Packed bytes are a sequence. *)
LEMMA PackBytesType ==
    ASSUME NEW S, Nat \subseteq S, NEW d \in Seq(Nat)
    PROVE  /\ Len(d) \in Nat /\ d \in Seq(S)
           /\ PackUInt[Len(d)] \in Seq(S) /\ PackBytes(d) \in Seq(S)
           /\ Splits(PackBytes(d), PackUInt[Len(d)], d)
  <1> DEFINE p == PackUInt[Len(d)]
  <1>1. Len(d) \in Nat /\ d \in Seq(S) /\ p \in Seq(Nat)
    BY PackUIntType
  <1>2. Splits(PackBytes(d), p, d)
    BY DEF PackBytes, Splits
  <1>3. p \in Seq(S)
    <2> HIDE DEF p
    <2> QED BY <1>1
  <1>4. PackBytes(d) \in Seq(S)
    BY <1>1, <1>2, <1>3, SplitsType
  <1> QED BY <1>1, <1>2, <1>3, <1>4

(* And so with bytes, whose length is read first. *)
LEMMA UnpackBytesBack ==
    ASSUME NEW S, Nat \subseteq S, NEW d \in Seq(Nat), NEW x \in Seq(S),
           Len(PackUInt[Len(d)]) <= MaxVarint
    PROVE  UnpackBytes(PackBytes(d) \o x) = [value |-> d, rest |-> x]
  <1>1. /\ Len(d) \in Nat /\ d \in Seq(S) /\ PackUInt[Len(d)] \in Seq(S)
        /\ Splits(PackBytes(d), PackUInt[Len(d)], d)
    BY PackBytesType
  <1>2. PICK w, s : Splits(w, PackBytes(d), x) /\ Splits(s, d, x)
    BY DEF Splits
  <1>3. s \in Seq(S)
    BY <1>1, <1>2, SplitsType
  <1>4. Splits(w, PackUInt[Len(d)], s)
    BY <1>1, <1>2, Regroup
  <1>5. PICK u : u = UnpackUInt(w)
    OBVIOUS
  <1>6. u = [value |-> Len(d), rest |-> s]
    <2>1. w = PackUInt[Len(d)] \o s
      BY <1>4 DEF Splits
    <2> QED BY <1>1, <1>3, <1>5, <2>1, UnpackUIntBack
  <1>7. SubSeq(s, 1, Len(d)) = d /\ SubSeq(s, Len(d) + 1, Len(s)) = x
    BY <1>1, <1>2, SplitJoined DEF Splits
  <1>8. u.value = Len(d) /\ u.rest = s
    BY <1>6
  <1>9. UnpackBytes(w) = [value |-> SubSeq(u.rest, 1, u.value),
                          rest  |-> SubSeq(u.rest, u.value + 1, Len(u.rest))]
    BY <1>5 DEF UnpackBytes
  <1>10. w = PackBytes(d) \o x
    BY <1>2 DEF Splits
  <1> QED BY <1>7, <1>8, <1>9, <1>10

(* A sequence that starts with packed bytes starts with no other. *)
LEMMA SameBytes ==
    ASSUME NEW S, Nat \subseteq S, NEW a \in Seq(Nat), NEW b \in Seq(Nat),
           NEW x \in Seq(S), NEW y \in Seq(S),
           NEW w, Splits(w, PackBytes(a), x), Splits(w, PackBytes(b), y)
    PROVE  a = b /\ x = y
  <1>1. PICK ax, by : Splits(ax, a, x) /\ Splits(by, b, y)
    BY DEF Splits
  <1>2. /\ Len(a) \in Nat /\ a \in Seq(S) /\ PackUInt[Len(a)] \in Seq(S)
        /\ Splits(PackBytes(a), PackUInt[Len(a)], a)
    BY PackBytesType
  <1>3. /\ Len(b) \in Nat /\ b \in Seq(S) /\ PackUInt[Len(b)] \in Seq(S)
        /\ Splits(PackBytes(b), PackUInt[Len(b)], b)
    BY PackBytesType
  <1>4. ax \in Seq(S) /\ by \in Seq(S)
    BY <1>1, <1>2, <1>3, SplitsType
  <1>5. Splits(w, PackUInt[Len(a)], ax)
    BY <1>1, <1>2, Regroup
  <1>6. Splits(w, PackUInt[Len(b)], by)
    BY <1>1, <1>3, Regroup
  <1>7. Len(a) = Len(b) /\ ax = by
    BY <1>2, <1>3, <1>4, <1>5, <1>6, SameLength
  <1> QED BY <1>1, <1>2, <1>3, <1>7, SameCut

(* A time, two byte vectors and what follows them can be told apart. *)
Fields(S, w, t, a, c, x) ==
    /\ Nat \subseteq S /\ t \in S /\ a \in Seq(Nat) /\ c \in Seq(Nat) /\ x \in Seq(S)
    /\ w = <<t>> \o PackBytes(a) \o PackBytes(c) \o x

(* What precedes the second vector, and what follows the first. *)
LEMMA FieldsSplit ==
    ASSUME NEW S, NEW t, NEW a, NEW c, NEW x, NEW w, Fields(S, w, t, a, c, x)
    PROVE  \E one, cx, acx :
              /\ one \in Seq(S) /\ Len(one) = 1 /\ one[1] = t
              /\ cx \in Seq(S) /\ acx \in Seq(S)
              /\ Splits(w, one, acx)
              /\ Splits(acx, PackBytes(a), cx)
              /\ Splits(cx, PackBytes(c), x)
  <1>0. Nat \subseteq S /\ t \in S /\ a \in Seq(Nat) /\ c \in Seq(Nat) /\ x \in Seq(S)
    BY DEF Fields
  <1>1. PICK one, pa, pc : one = <<t>> /\ pa = PackBytes(a) /\ pc = PackBytes(c)
    OBVIOUS
  <1>2. one \in Seq(S) /\ Len(one) = 1 /\ one[1] = t
    BY <1>0, <1>1, OneItem
  <1>3. pa \in Seq(S) /\ pc \in Seq(S)
    BY <1>0, <1>1, PackBytesType
  <1>4. w = ((one \o pa) \o pc) \o x
    BY <1>1 DEF Fields
  <1>5. PICK u, v, cx, acx : /\ Splits(u, one, pa) /\ Splits(v, u, pc)
                             /\ Splits(cx, pc, x) /\ Splits(acx, pa, cx)
    BY DEF Splits
  <1>6. Splits(w, v, x)
    BY <1>4, <1>5 DEF Splits
  <1>7. u \in Seq(S) /\ cx \in Seq(S)
    BY <1>0, <1>2, <1>3, <1>5, SplitsType
  <1>8. acx \in Seq(S)
    BY <1>3, <1>5, <1>7, SplitsType
  <1>9. Splits(w, u, cx)
    BY <1>0, <1>3, <1>5, <1>6, <1>7, Regroup
  <1>10. Splits(w, one, acx)
    BY <1>2, <1>3, <1>5, <1>7, <1>9, Regroup
  <1> QED BY <1>1, <1>2, <1>5, <1>7, <1>8, <1>10

(* The fields determine each other's place. *)
LEMMA SameFields ==
    ASSUME NEW S, NEW w, NEW t, NEW a, NEW c, NEW x, Fields(S, w, t, a, c, x),
           NEW u, NEW b, NEW d, NEW y, Fields(S, w, u, b, d, y)
    PROVE  t = u /\ a = b /\ c = d /\ x = y
  <1>0. /\ Nat \subseteq S /\ a \in Seq(Nat) /\ c \in Seq(Nat) /\ x \in Seq(S)
        /\ b \in Seq(Nat) /\ d \in Seq(Nat) /\ y \in Seq(S)
    BY DEF Fields
  <1>1. PICK one, cx, acx : /\ one \in Seq(S) /\ Len(one) = 1 /\ one[1] = t
                            /\ cx \in Seq(S) /\ acx \in Seq(S)
                            /\ Splits(w, one, acx)
                            /\ Splits(acx, PackBytes(a), cx)
                            /\ Splits(cx, PackBytes(c), x)
    BY FieldsSplit
  <1>2. PICK two, dy, bdy : /\ two \in Seq(S) /\ Len(two) = 1 /\ two[1] = u
                            /\ dy \in Seq(S) /\ bdy \in Seq(S)
                            /\ Splits(w, two, bdy)
                            /\ Splits(bdy, PackBytes(b), dy)
                            /\ Splits(dy, PackBytes(d), y)
    BY FieldsSplit
  <1>3. one = two /\ acx = bdy
    BY <1>1, <1>2, SameCut
  <1>4. a = b /\ cx = dy
    BY <1>0, <1>1, <1>2, <1>3, SameBytes
  <1>5. c = d /\ x = y
    BY <1>0, <1>1, <1>2, <1>4, SameBytes
  <1> QED BY <1>1, <1>2, <1>3, <1>4, <1>5

-----------------------------------------------------------------------------
(***************************************************************************)
(* Packed transactions.  S holds the numbers and whatever times, keys and  *)
(* signatures are.                                                         *)
(***************************************************************************)
TrxOf(S) ==
    [time_point : S, data : Seq(Nat), attach : Seq(Nat), signature : S, pub_key : S]

(* Two items. *)
LEMMA TwoItems ==
    ASSUME NEW S, NEW a \in S, NEW b \in S
    PROVE  <<a, b>> \in Seq(S) /\ Len(<<a, b>>) = 2 /\ <<a, b>>[1] = a /\ <<a, b>>[2] = b
  OBVIOUS

(***************************************************************************)
(* The bytes that Transaction::digest hashes determine every field that    *)
(* the digest covers.                                                      *)
(***************************************************************************)
THEOREM DigestBytesDetermineTrx ==
    ASSUME NEW S, Nat \subseteq S, NEW a \in TrxOf(S), NEW b \in TrxOf(S),
           PackForDigest(a) = PackForDigest(b)
    PROVE  DigestFields(a) = DigestFields(b)
  <1>1. PICK x, y : x = <<a.pub_key>> /\ y = <<b.pub_key>>
    OBVIOUS
  <1>2. /\ a.time_point \in S /\ a.data \in Seq(Nat) /\ a.attach \in Seq(Nat) /\ a.pub_key \in S
        /\ b.time_point \in S /\ b.data \in Seq(Nat) /\ b.attach \in Seq(Nat) /\ b.pub_key \in S
    BY DEF TrxOf
  <1>3. x \in Seq(S) /\ y \in Seq(S) /\ x[1] = a.pub_key /\ y[1] = b.pub_key
    BY <1>1, <1>2, OneItem
  <1>4. PICK w : w = PackForDigest(a) /\ w = PackForDigest(b)
    OBVIOUS
  <1>5. Fields(S, w, a.time_point, a.attach, a.data, x)
    BY <1>1, <1>2, <1>3, <1>4 DEF PackForDigest, Fields
  <1>6. Fields(S, w, b.time_point, b.attach, b.data, y)
    BY <1>1, <1>2, <1>3, <1>4 DEF PackForDigest, Fields
  <1>7. a.time_point = b.time_point /\ a.attach = b.attach /\ a.data = b.data /\ x = y
    BY <1>5, <1>6, SameFields
  <1> QED BY <1>3, <1>7 DEF DigestFields

(* What follows the fields may be longer. *)
LEMMA FieldsExtend ==
    ASSUME NEW S, NEW p, NEW t, NEW a, NEW c, NEW z, Fields(S, p, t, a, c, z),
           NEW x \in Seq(S), NEW w, Splits(w, p, x), NEW zx, Splits(zx, z, x)
    PROVE  Fields(S, w, t, a, c, zx)
  <1>0. Nat \subseteq S /\ t \in S /\ a \in Seq(Nat) /\ c \in Seq(Nat) /\ z \in Seq(S)
    BY DEF Fields
  <1>1. PICK one, pa, pc : one = <<t>> /\ pa = PackBytes(a) /\ pc = PackBytes(c)
    OBVIOUS
  <1>2. one \in Seq(S) /\ pa \in Seq(S) /\ pc \in Seq(S)
    BY <1>0, <1>1, OneItem, PackBytesType
  <1>3. PICK u, v : Splits(u, one, pa) /\ Splits(v, u, pc)
    BY DEF Splits
  <1>4. u \in Seq(S)
    BY <1>2, <1>3, SplitsType
  <1>5. v \in Seq(S)
    BY <1>2, <1>3, <1>4, SplitsType
  <1>6. Splits(p, v, z)
    BY <1>1, <1>3 DEF Fields, Splits
  <1>7. Splits(w, v, zx)
    BY <1>0, <1>5, <1>6, Regroup
  <1>8. zx \in Seq(S)
    BY <1>0, SplitsType
  <1> QED BY <1>0, <1>1, <1>3, <1>7, <1>8 DEF Fields, Splits

(* A packed transaction is a sequence. *)
LEMMA PackTrxType ==
    ASSUME NEW S, Nat \subseteq S, NEW a \in TrxOf(S)
    PROVE  PackTrx(a) \in Seq(S)
  <1>1. PICK z : z = <<a.signature, a.pub_key>>
    OBVIOUS
  <1>2. /\ a.time_point \in S /\ a.data \in Seq(Nat) /\ a.attach \in Seq(Nat)
        /\ a.signature \in S /\ a.pub_key \in S
    BY DEF TrxOf
  <1>3. z \in Seq(S)
    BY <1>1, <1>2, TwoItems
  <1>4. Fields(S, PackTrx(a), a.time_point, a.data, a.attach, z)
    BY <1>1, <1>2, <1>3 DEF PackTrx, Fields
  <1>5. PICK one, cx, acx : /\ one \in Seq(S) /\ Len(one) = 1 /\ one[1] = a.time_point
                            /\ cx \in Seq(S) /\ acx \in Seq(S)
                            /\ Splits(PackTrx(a), one, acx)
                            /\ Splits(acx, PackBytes(a.data), cx)
                            /\ Splits(cx, PackBytes(a.attach), z)
    BY <1>2, <1>3, <1>4, FieldsSplit
  <1> QED BY <1>5, SplitsType

(* A sequence that starts with a packed transaction starts with no other. *)
LEMMA SameTrx ==
    ASSUME NEW S, Nat \subseteq S, NEW a \in TrxOf(S), NEW b \in TrxOf(S),
           NEW x \in Seq(S), NEW y \in Seq(S),
           NEW w, Splits(w, PackTrx(a), x), Splits(w, PackTrx(b), y)
    PROVE  a = b /\ x = y
  <1>1. PICK z, o : z = <<a.signature, a.pub_key>> /\ o = <<b.signature, b.pub_key>>
    OBVIOUS
  <1>2. /\ a.time_point \in S /\ a.data \in Seq(Nat) /\ a.attach \in Seq(Nat)
        /\ a.signature \in S /\ a.pub_key \in S
        /\ b.time_point \in S /\ b.data \in Seq(Nat) /\ b.attach \in Seq(Nat)
        /\ b.signature \in S /\ b.pub_key \in S
    BY DEF TrxOf
  <1>3. /\ z \in Seq(S) /\ Len(z) = 2 /\ z[1] = a.signature /\ z[2] = a.pub_key
        /\ o \in Seq(S) /\ Len(o) = 2 /\ o[1] = b.signature /\ o[2] = b.pub_key
    BY <1>1, <1>2, TwoItems
  <1>4. PICK zx, oy : Splits(zx, z, x) /\ Splits(oy, o, y)
    BY DEF Splits
  <1>5. zx \in Seq(S) /\ oy \in Seq(S)
    BY <1>3, <1>4, SplitsType
  <1>6. /\ Fields(S, PackTrx(a), a.time_point, a.data, a.attach, z)
        /\ Fields(S, PackTrx(b), b.time_point, b.data, b.attach, o)
    BY <1>1, <1>2, <1>3 DEF PackTrx, Fields
  <1>7. Fields(S, w, a.time_point, a.data, a.attach, zx)
    BY <1>2, <1>3, <1>4, <1>6, FieldsExtend
  <1>8. Fields(S, w, b.time_point, b.data, b.attach, oy)
    BY <1>2, <1>3, <1>4, <1>6, FieldsExtend
  <1>9. /\ a.time_point = b.time_point /\ a.data = b.data /\ a.attach = b.attach
        /\ zx = oy
    BY <1>7, <1>8, SameFields
  <1>10. z = o /\ x = y
    BY <1>3, <1>4, <1>9, SameCut
  <1>11. a.signature = b.signature /\ a.pub_key = b.pub_key
    BY <1>3, <1>10
  <1>12. a = b
    <2>1. \A r \in TrxOf(S) : r = [time_point |-> r.time_point, data |-> r.data,
                                   attach |-> r.attach, signature |-> r.signature,
                                   pub_key |-> r.pub_key]
      BY DEF TrxOf
    <2> QED BY <1>9, <1>11, <2>1, Zenon
  <1> QED BY <1>10, <1>12

(* The recursion of FlattenSeq, on the first n sequences. *)
Flattens(ps, n, f) ==
    f = [i \in 1 .. n |-> IF i = 1 THEN ps[i] ELSE f[i - 1] \o ps[i]]

(* It can be done for any number of them. *)
LEMMA FlattensExists ==
    ASSUME NEW ps
    PROVE  \A n \in Nat : \E f : Flattens(ps, n, f)
  <1> DEFINE T == {n \in Nat : \E f : Flattens(ps, n, f)}
             step(f, i) == IF i = 1 THEN ps[i] ELSE f[i - 1] \o ps[i]
  <1>1. ASSUME NEW n \in Nat, \A m \in 0 .. n - 1 : m \in T PROVE n \in T
    <2>1. CASE n = 0
      <3> DEFINE f == [i \in {} |-> 0]
      <3>1. 1 .. n = {}
        BY <2>1
      <3>2. f = [i \in 1 .. n |-> step(f, i)]
        BY <3>1
      <3>3. Flattens(ps, n, f)
        BY <3>2 DEF Flattens
      <3> QED BY <3>3
    <2>2. CASE n # 0
      <3>1. n - 1 \in Nat /\ n - 1 \in 0 .. n - 1
        BY <2>2
      <3>2. PICK g : Flattens(ps, n - 1, g)
        BY <1>1, <3>1
      <3>3. g = [i \in 1 .. n - 1 |-> step(g, i)]
        BY <3>2 DEF Flattens
      <3> DEFINE f == [i \in 1 .. n |-> step(g, i)]
      <3> HIDE DEF step
      <3>4. \A i \in 1 .. n - 1 : f[i] = g[i]
        <4> SUFFICES ASSUME NEW i \in 1 .. n - 1 PROVE f[i] = g[i]
          OBVIOUS
        <4>1. f[i] = step(g, i)
          BY <3>1
        <4>2. g[i] = step(g, i)
          BY ONLY <3>3, i \in 1 .. n - 1
        <4> QED BY <4>1, <4>2
      <3>5. ASSUME NEW i \in 1 .. n PROVE step(g, i) = step(f, i)
        <4>1. CASE i = 1
          BY <4>1 DEF step
        <4>2. CASE i # 1
          <5>1. i - 1 \in 1 .. n - 1
            BY <4>2
          <5>2. f[i - 1] = g[i - 1]
            BY <3>4, <5>1
          <5> QED BY <5>2 DEF step
        <4> QED BY <4>1, <4>2
      <3>6. f = [i \in 1 .. n |-> step(f, i)]
        BY <3>5
      <3>7. Flattens(ps, n, f)
        BY <3>6 DEF Flattens, step
      <3> QED BY <3>7
    <2> QED BY <2>1, <2>2
  <1>2. \A n \in Nat : n \in T
    <2> HIDE DEF T
    <2> QED BY <1>1, SetInduction
  <1> QED BY <1>2

(* Its steps. *)
LEMMA FlattensSteps ==
    ASSUME NEW ps, NEW n \in Nat, NEW f, Flattens(ps, n, f), NEW i \in 1 .. n
    PROVE  /\ i = 1 => f[i] = ps[i]
           /\ i # 1 => Splits(f[i], f[i - 1], ps[i])
  <1>1. f = [j \in 1 .. n |-> IF j = 1 THEN ps[j] ELSE f[j - 1] \o ps[j]]
    BY DEF Flattens
  <1>2. f[i] = IF i = 1 THEN ps[i] ELSE f[i - 1] \o ps[i]
    BY ONLY <1>1, i \in 1 .. n
  <1> QED BY <1>2 DEF Splits

(* What FlattenSeq answers. *)
LEMMA FlattenSeqDef ==
    ASSUME NEW ps, Len(ps) \in Nat, Len(ps) # 0
    PROVE  \E f : Flattens(ps, Len(ps), f) /\ FlattenSeq(ps) = f[Len(ps)]
  <1> DEFINE f == CHOOSE g : Flattens(ps, Len(ps), g)
  <1>1. Flattens(ps, Len(ps), f)
    BY FlattensExists
  <1>2. FlattenSeq(ps) = f[Len(ps)]
    BY DEF FlattenSeq, Flattens
  <1> QED BY <1>1, <1>2

(* The packed forms of a list of transactions. *)
Packs(l) == [i \in DOMAIN l |-> PackTrx(l[i])]

(* What was flattened so far is a sequence of items. *)
LEMMA FlattensType ==
    ASSUME NEW S, Nat \subseteq S, NEW l \in Seq(TrxOf(S)), NEW f, Flattens(Packs(l), Len(l), f)
    PROVE  \A i \in Nat : i \in 1 .. Len(l) => f[i] \in Seq(S)
  <1> DEFINE T == {i \in Nat : i \in 1 .. Len(l) => f[i] \in Seq(S)}
             n == Len(l)
  <1>1. /\ n \in Nat
        /\ \A i \in 1 .. n : Packs(l)[i] = PackTrx(l[i]) /\ l[i] \in TrxOf(S)
    BY DEF Packs
  <1>2. \A i \in 1 .. n : Packs(l)[i] \in Seq(S)
    BY <1>1, PackTrxType
  <1>3. ASSUME NEW i \in Nat, \A m \in 0 .. i - 1 : m \in T PROVE i \in T
    <2> SUFFICES ASSUME i \in 1 .. n PROVE f[i] \in Seq(S)
      OBVIOUS
    <2>1. CASE i = 1
      <3>1. f[i] = Packs(l)[i]
        BY <1>1, <2>1, FlattensSteps
      <3> QED BY <1>2, <3>1
    <2>2. CASE i # 1
      <3>1. Splits(f[i], f[i - 1], Packs(l)[i])
        BY <1>1, <2>2, FlattensSteps
      <3>2. i - 1 \in 0 .. i - 1 /\ i - 1 \in 1 .. n
        BY <1>1, <2>2
      <3>3. f[i - 1] \in Seq(S)
        BY <1>3, <3>2
      <3> QED BY <1>2, <3>1, <3>3, SplitsType
    <2> QED BY <2>1, <2>2
  <1>4. \A i \in Nat : i \in T
    <2> HIDE DEF T
    <2> QED BY <1>3, SetInduction
  <1> QED BY <1>4

(* A sequence that starts with the first i of two lists, packed: they are the same. *)
Agree(S, l, k, f, g) ==
    \A i \in Nat : i \in 1 .. Len(l) =>
        \A x, y \in Seq(S) : \A w :
            Splits(w, f[i], x) /\ Splits(w, g[i], y) =>
                x = y /\ \A j \in 1 .. i : l[j] = k[j]

(* It is so for any two lists of the same length. *)
LEMMA SameLists ==
    ASSUME NEW S, Nat \subseteq S, NEW l \in Seq(TrxOf(S)), NEW k \in Seq(TrxOf(S)),
           Len(l) = Len(k), NEW f, Flattens(Packs(l), Len(l), f),
           NEW g, Flattens(Packs(k), Len(k), g)
    PROVE  Agree(S, l, k, f, g)
  <1> DEFINE n == Len(l)
             T == {i \in Nat : i \in 1 .. n =>
                      \A x, y \in Seq(S) : \A w :
                          Splits(w, f[i], x) /\ Splits(w, g[i], y) =>
                              x = y /\ \A j \in 1 .. i : l[j] = k[j]}
  <1>1. /\ n \in Nat
        /\ \A i \in 1 .. n : Packs(l)[i] = PackTrx(l[i]) /\ l[i] \in TrxOf(S)
        /\ \A i \in 1 .. n : Packs(k)[i] = PackTrx(k[i]) /\ k[i] \in TrxOf(S)
    BY DEF Packs
  <1>2. /\ \A i \in 1 .. n : f[i] \in Seq(S) /\ g[i] \in Seq(S)
        /\ \A i \in 1 .. n : PackTrx(l[i]) \in Seq(S) /\ PackTrx(k[i]) \in Seq(S)
    <2>1. \A i \in 1 .. n : f[i] \in Seq(S)
      BY <1>1, FlattensType
    <2>2. \A i \in 1 .. n : g[i] \in Seq(S)
      BY <1>1, FlattensType
    <2> QED BY <1>1, <2>1, <2>2, PackTrxType
  <1>3. ASSUME NEW i \in Nat, \A m \in 0 .. i - 1 : m \in T PROVE i \in T
    <2> SUFFICES ASSUME i \in 1 .. n, NEW x \in Seq(S), NEW y \in Seq(S), NEW w,
                        Splits(w, f[i], x), Splits(w, g[i], y)
                 PROVE  x = y /\ \A j \in 1 .. i : l[j] = k[j]
      OBVIOUS
    <2>1. CASE i = 1
      <3>1. f[i] = PackTrx(l[i]) /\ g[i] = PackTrx(k[i])
        BY <1>1, <2>1, FlattensSteps
      <3>2. l[i] = k[i] /\ x = y
        BY <1>1, <3>1, SameTrx
      <3> QED BY <2>1, <3>2
    <2>2. CASE i # 1
      <3>1. PICK m \in 1 .. n : m = i - 1 /\ m \in 0 .. i - 1 /\ i = m + 1
        BY <1>1, <2>2
      <3>2. Splits(f[i], f[m], PackTrx(l[i])) /\ Splits(g[i], g[m], PackTrx(k[i]))
        <4>1. Splits(f[i], f[i - 1], Packs(l)[i])
          BY <1>1, <2>2, FlattensSteps
        <4>2. Splits(g[i], g[i - 1], Packs(k)[i])
          BY <1>1, <2>2, FlattensSteps
        <4> QED BY <1>1, <3>1, <4>1, <4>2
      <3>3. PICK px, py : Splits(px, PackTrx(l[i]), x) /\ Splits(py, PackTrx(k[i]), y)
        BY DEF Splits
      <3>4. px \in Seq(S) /\ py \in Seq(S)
        BY <1>2, <3>3, SplitsType
      <3>5. Splits(w, f[m], px)
        BY <1>2, <3>1, <3>2, <3>3, Regroup
      <3>6. Splits(w, g[m], py)
        BY <1>2, <3>1, <3>2, <3>3, Regroup
      <3>7. m \in T /\ m \in 1 .. n
        BY <1>3, <3>1
      <3>8. px = py /\ \A j \in 1 .. m : l[j] = k[j]
        BY <3>4, <3>5, <3>6, <3>7
      <3>9. l[i] = k[i] /\ x = y
        BY <1>1, <3>3, <3>8, SameTrx
      <3> QED BY <3>1, <3>8, <3>9
    <2> QED BY <2>1, <2>2
  <1>4. \A i \in Nat : i \in T
    <2> HIDE DEF T
    <2> QED BY <1>3, SetInduction
  <1> QED BY <1>4 DEF Agree

(***************************************************************************)
(* The bytes that push_trxs hashes for the merkle root determine the list  *)
(* of transactions: how many there are, which, and in which order.         *)
(***************************************************************************)
THEOREM MerkleBytesDetermineList ==
    ASSUME NEW S, Nat \subseteq S, NEW l \in Seq(TrxOf(S)), NEW k \in Seq(TrxOf(S)),
           PackTrxs(l) = PackTrxs(k)
    PROVE  l = k
  <1>1. PICK w : w = PackTrxs(l) /\ w = PackTrxs(k)
    OBVIOUS
  <1>2. PICK x, y : x = FlattenSeq(Packs(l)) /\ y = FlattenSeq(Packs(k))
    OBVIOUS
  <1>3. Splits(w, PackUInt[Len(l)], x) /\ Splits(w, PackUInt[Len(k)], y)
    BY <1>1, <1>2 DEF PackTrxs, Packs, Splits
  <1>4. ASSUME NEW s \in Seq(TrxOf(S))
        PROVE  /\ Len(s) \in Nat /\ Len(Packs(s)) = Len(s)
               /\ FlattenSeq(Packs(s)) \in Seq(S)
               /\ Len(s) # 0 => \E f : /\ Flattens(Packs(s), Len(s), f)
                                       /\ FlattenSeq(Packs(s)) = f[Len(s)]
    <2>1. Len(s) \in Nat /\ DOMAIN s = 1 .. Len(s) /\ \A i \in 1 .. Len(s) : s[i] \in TrxOf(S)
      OBVIOUS
    <2>2. Packs(s) \in [1 .. Len(s) -> Seq(S)]
      BY <2>1, PackTrxType DEF Packs
    <2>3. Packs(s) \in Seq(Seq(S)) /\ Len(Packs(s)) = Len(s)
      BY <2>1, <2>2, SeqOfFun
    <2>4. CASE Len(s) = 0
      <3>1. FlattenSeq(Packs(s)) = Packs(s)
        BY <2>3, <2>4 DEF FlattenSeq
      <3>2. Packs(s) \in [1 .. 0 -> S]
        BY <2>2, <2>4
      <3>3. Packs(s) \in Seq(S)
        BY <3>2, SeqOfFun
      <3> QED BY <2>1, <2>3, <2>4, <3>1, <3>3
    <2>5. CASE Len(s) # 0
      <3>1. PICK f : Flattens(Packs(s), Len(s), f) /\ FlattenSeq(Packs(s)) = f[Len(s)]
        BY <2>1, <2>3, <2>5, FlattenSeqDef
      <3>2. Len(s) \in 1 .. Len(s)
        BY <2>1, <2>5
      <3>3. f[Len(s)] \in Seq(S)
        BY <2>1, <3>1, <3>2, FlattensType
      <3> QED BY <2>1, <2>3, <3>1, <3>3
    <2> QED BY <2>4, <2>5
  <1>5. x \in Seq(S) /\ y \in Seq(S) /\ Len(l) \in Nat /\ Len(k) \in Nat
    BY <1>2, <1>4
  <1>6. Len(l) = Len(k) /\ x = y
    BY <1>3, <1>5, SameLength
  <1>7. \A j \in 1 .. Len(l) : l[j] = k[j]
    <2>1. CASE Len(l) = 0
      BY <2>1
    <2>2. CASE Len(l) # 0
      <3>1. PICK f : Flattens(Packs(l), Len(l), f) /\ x = f[Len(l)]
        BY <1>2, <1>4, <2>2
      <3>2. PICK g : Flattens(Packs(k), Len(k), g) /\ y = g[Len(k)]
        BY <1>2, <1>4, <1>6, <2>2
      <3>3. Len(l) \in 1 .. Len(l)
        BY <1>5, <2>2
      <3>4. PICK e : e \in Seq(S)
        BY <1>5
      <3>5. PICK z : Splits(z, f[Len(l)], e) /\ Splits(z, g[Len(l)], e)
        BY <1>6, <3>1, <3>2 DEF Splits
      <3>6. Agree(S, l, k, f, g)
        BY <1>6, <3>1, <3>2, SameLists
      <3>7. PICK n : n = Len(l)
        OBVIOUS
      <3>8. n \in Nat /\ n \in 1 .. Len(l) /\ Splits(z, f[n], e) /\ Splits(z, g[n], e)
        BY <1>5, <3>3, <3>5, <3>7
      <3>9. \A j \in 1 .. n : l[j] = k[j]
        BY <3>4, <3>6, <3>8 DEF Agree
      <3> QED BY <3>7, <3>9
    <2> QED BY <2>1, <2>2
  <1> QED BY <1>6, <1>7, SeqEqual

(***************************************************************************)
(* The free constructor Sha256 of module Blocks equates exactly what the   *)
(* code hashes alike: two transactions have the same digest, and two lists *)
(* the same merkle root, if and only if the packed bytes that              *)
(* Transaction::digest and push_trxs hash are the same.                    *)
(***************************************************************************)
THEOREM HashesAreExact ==
    ASSUME NEW S, Nat \subseteq S, NEW a \in TrxOf(S), NEW b \in TrxOf(S),
           NEW l \in Seq(TrxOf(S)), NEW k \in Seq(TrxOf(S))
    PROVE  /\ PackForDigest(a) = PackForDigest(b) <=> TrxDigest(a) = TrxDigest(b)
           /\ PackTrxs(l) = PackTrxs(k) <=> MerkleRoot(l) = MerkleRoot(k)
  <1>1. ASSUME PackForDigest(a) = PackForDigest(b) PROVE TrxDigest(a) = TrxDigest(b)
    <2>1. DigestFields(a) = DigestFields(b)
      BY <1>1, DigestBytesDetermineTrx
    <2>2. /\ a.time_point = b.time_point /\ a.attach = b.attach
          /\ a.data = b.data /\ a.pub_key = b.pub_key
      BY <2>1 DEF DigestFields
    <2> QED BY <2>2, Zenon DEF TrxDigest
  <1>2. ASSUME TrxDigest(a) = TrxDigest(b) PROVE PackForDigest(a) = PackForDigest(b)
    <2>1. /\ a.time_point = b.time_point /\ a.attach = b.attach
          /\ a.data = b.data /\ a.pub_key = b.pub_key
      <3>1. PICK t, c, d, p, u, e, f, q :
                /\ t = a.time_point /\ c = a.attach /\ d = a.data /\ p = a.pub_key
                /\ u = b.time_point /\ e = b.attach /\ f = b.data /\ q = b.pub_key
        OBVIOUS
      <3>2. Sha256([time_point |-> t, attach |-> c, data |-> d, pub_key |-> p]) =
            Sha256([time_point |-> u, attach |-> e, data |-> f, pub_key |-> q])
        BY <1>2, <3>1, Zenon DEF TrxDigest
      <3>3. t = u /\ c = e /\ d = f /\ p = q
        BY <3>2 DEF Sha256
      <3> QED BY <3>1, <3>3
    <2> QED BY <2>1, Zenon DEF PackForDigest
  <1>3. ASSUME PackTrxs(l) = PackTrxs(k) PROVE MerkleRoot(l) = MerkleRoot(k)
    BY <1>3, MerkleBytesDetermineList
  <1>4. ASSUME MerkleRoot(l) = MerkleRoot(k) PROVE PackTrxs(l) = PackTrxs(k)
    <2>1. l = k
      BY <1>4 DEF MerkleRoot, Sha256
    <2> QED BY <2>1
  <1> QED BY <1>1, <1>2, <1>3, <1>4

(* The data of a transaction has a length that is read back whole. *)
LEMMA DataLength ==
    ASSUME NEW l \in CommandLines, NEW tx \in TrxFromJson(l.sign)
    PROVE  Len(PackUInt[Len(tx.data)]) <= MaxVarint
  <1> DEFINE text == l.sign.data
  <1>1. text \in Seq(Nat) /\ Len(PackUInt[Len(text) \div 2]) <= MaxVarint
    BY ToolAssumption
  <1>2. tx.data \in FromHex(text, Len(text) \div 2)
    BY TrxFacts DEF BytesFromVariant
  <1> HIDE DEF text
  <1>3. PICK n : n = Len(text) /\ n \in Nat /\ n \div 2 \in Nat
    BY <1>1
  <1>4. Used(text, n \div 2) = 2 * (n \div 2)
    BY <1>3 DEF Used
  <1>5. Len(tx.data) = (2 * (n \div 2) + 1) \div 2
    BY <1>1, <1>2, <1>3, <1>4, FromHexFacts
  <1>6. \A h \in Nat : (2 * h + 1) \div 2 = h
    OBVIOUS
  <1>7. Len(tx.data) = n \div 2
    BY <1>3, <1>5, <1>6
  <1> QED BY <1>1, <1>3, <1>7

(* The transactions of two command lines, as packed transactions. *)
LEMMA TrxsTyped ==
    ASSUME NEW l \in CommandLines, NEW tx \in TrxFromJson(l.sign),
           NEW k \in CommandLines, NEW other \in TrxFromJson(k.sign)
    PROVE  \E S : Nat \subseteq S /\ tx \in TrxOf(S) /\ other \in TrxOf(S)
  <1> DEFINE S == Nat \cup {tx.time_point, tx.signature, tx.pub_key,
                            other.time_point, other.signature, other.pub_key}
  <1>1. ASSUME NEW m \in CommandLines, NEW t \in TrxFromJson(m.sign)
        PROVE  t.data \in Seq(Nat) /\ t.attach \in Seq(Nat)
    <2>1. m.sign.data \in Seq(Nat) /\ m.sign.attach \in Seq(Nat)
      BY ToolAssumption
    <2>2. t.data \in Seq(Byte) /\ t.attach \in Seq(Byte)
      BY <2>1, TrxFacts, VariantKeeps
    <2>3. Byte \subseteq Nat
      BY DEF Byte
    <2>4. ASSUME NEW s \in Seq(Byte) PROVE s \in Seq(Nat)
      <3>1. Len(s) \in Nat /\ s \in [1 .. Len(s) -> Byte]
        OBVIOUS
      <3>2. s \in [1 .. Len(s) -> Nat]
        BY <2>3, <3>1
      <3> QED BY <3>1, <3>2, SeqOfFun
    <2> QED BY <2>2, <2>4
  <1>2. tx \in TrxOf(S)
    <2>1. tx = [time_point |-> tx.time_point, data |-> tx.data, attach |-> tx.attach,
                signature |-> tx.signature, pub_key |-> tx.pub_key]
      BY TrxFacts
    <2> QED BY <1>1, <2>1 DEF TrxOf
  <1>3. other \in TrxOf(S)
    <2>1. other = [time_point |-> other.time_point, data |-> other.data, attach |-> other.attach,
                   signature |-> other.signature, pub_key |-> other.pub_key]
      BY TrxFacts
    <2> QED BY <1>1, <2>1 DEF TrxOf
  <1> QED BY <1>2, <1>3

(***************************************************************************)
(* What keosd signs is determined by the bytes it hashes: no               *)
(* transaction of another command line has the same packed form, and       *)
(* unpacking gives the bytes back.                                         *)
(***************************************************************************)
THEOREM PackAlwaysInjective == ToolSpec => []PackInjective
  <1>1. KeosdInv => PackInjective
    <2> SUFFICES ASSUME KeosdInv, NEW tx \in TrxFromJson(line.sign)
                 PROVE  /\ UnpackBytes(PackBytes(tx.data) \o tx.attach)
                             = [value |-> tx.data, rest |-> tx.attach]
                        /\ \A other \in PackedTrxs :
                            /\ PackForDigest(tx) = PackForDigest(other) =>
                                   DigestFields(tx) = DigestFields(other)
                            /\ PackTrxs(<<tx, other>>) = PackTrxs(<<other, tx>>) => tx = other
      BY DEF PackInjective
    <2>1. PICK l \in CommandLines : l = line /\ tx \in TrxFromJson(l.sign)
      BY DEF KeosdInv
    <2>2. UnpackBytes(PackBytes(tx.data) \o tx.attach) = [value |-> tx.data, rest |-> tx.attach]
      <3>1. PICK S : Nat \subseteq S /\ tx \in TrxOf(S)
        BY <2>1, TrxsTyped
      <3>2. tx.data \in Seq(Nat) /\ tx.attach \in Seq(Nat)
        BY <3>1 DEF TrxOf
      <3>3. Len(PackUInt[Len(tx.data)]) <= MaxVarint
        BY <2>1, DataLength
      <3> QED BY <3>2, <3>3, UnpackBytesBack
    <2>3. ASSUME NEW other \in PackedTrxs
          PROVE  /\ PackForDigest(tx) = PackForDigest(other) =>
                        DigestFields(tx) = DigestFields(other)
                 /\ PackTrxs(<<tx, other>>) = PackTrxs(<<other, tx>>) => tx = other
      <3>1. PICK k \in CommandLines : other \in TrxFromJson(k.sign)
        BY DEF PackedTrxs
      <3>2. PICK S : Nat \subseteq S /\ tx \in TrxOf(S) /\ other \in TrxOf(S)
        BY <2>1, <3>1, TrxsTyped
      <3>3. PackForDigest(tx) = PackForDigest(other) => DigestFields(tx) = DigestFields(other)
        BY <3>2, DigestBytesDetermineTrx
      <3>4. PICK a, b : a = <<tx, other>> /\ b = <<other, tx>>
        OBVIOUS
      <3>5. a \in Seq(TrxOf(S)) /\ b \in Seq(TrxOf(S)) /\ a[1] = tx /\ b[1] = other
        BY <3>2, <3>4, TwoItems
      <3>6. PackTrxs(a) = PackTrxs(b) => a = b
        BY <3>2, <3>5, MerkleBytesDetermineList
      <3>7. a = b => tx = other
        BY <3>5
      <3> QED BY <3>3, <3>4, <3>6, <3>7
    <2> QED BY <2>2, <2>3
  <1> QED BY <1>1, KeosdInvariant, PTL
=============================================================================

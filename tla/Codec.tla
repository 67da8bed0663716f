------------------------------- MODULE Codec --------------------------------
(***************************************************************************)
(* The encodings of the fc library that transactions go through: hex text  *)
(* (hex.cpp, and variant.cpp for byte vectors in JSON) and the packed form *)
(* that is hashed (raw.hpp).  Pure operators, no state.                    *)
(*                                                                         *)
(* A byte is a number.  A character of a hex text is 0 .. 15 for 0-9 and   *)
(* a-f, 16 .. 21 for A-F, or another number.  What may throw returns an    *)
(* optional: the empty set or a singleton.                                 *)
(***************************************************************************)
EXTENDS Naturals, SequencesExt

CONSTANTS
    BufferSize,    \* the buffer of hex2char and hex_to_string: 1024 bytes
    VarintBase,    \* 2^7: what one byte of a packed length carries
    MaxVarint      \* the bytes of a packed length that are read: 5

ASSUME CodecAssumption ==
    /\ BufferSize \in Nat \ {0}
    /\ VarintBase \in Nat \ {0, 1}
    /\ MaxVarint \in Nat \ {0}

CharOK(c) == c <= 21

HexDigit(c) == IF c < 16 THEN c ELSE c - 6

(* Variant: the low half of each byte comes first. *)
ToHex_Swapped(bytes) ==
    [k \in 1 .. 2 * Len(bytes) |->
        LET c == bytes[(k + 1) \div 2] IN IF k % 2 = 1 THEN c % 16 ELSE c \div 16]

ToHex(bytes) ==
    [k \in 1 .. 2 * Len(bytes) |->
        LET c == bytes[(k + 1) \div 2] IN IF k % 2 = 1 THEN c \div 16 ELSE c % 16]

(***************************************************************************)
(* from_hex into room bytes.  What does not fit is not looked at; the last *)
(* character of an odd text gives the high half of a byte.                 *)
(***************************************************************************)
FromHex(text, room) ==
    LET used  == SubSeq(text, 1, Min({Len(text), 2 * room}))
        digit == [i \in DOMAIN used |-> HexDigit(used[i])]
        byte(i) == digit[2 * i - 1] * 16 + (IF 2 * i <= Len(used) THEN digit[2 * i] ELSE 0)
    IN  IF \A i \in DOMAIN used : CharOK(used[i])
        THEN {[i \in 1 .. (Len(used) + 1) \div 2 |-> byte(i)]}
        ELSE {}

(***************************************************************************)
(* to_variant and from_variant of a byte vector, which has half as many    *)
(* bytes as the text has characters.                                       *)
(***************************************************************************)
BytesToVariant(bytes) == ToHex(bytes)

(* Variant: an odd text has its last half byte too. *)
BytesFromVariant_RoundsUp(text) == FromHex(text, (Len(text) + 1) \div 2)

BytesFromVariant(text) == FromHex(text, Len(text) \div 2)

(***************************************************************************)
(* A char buffer of BufferSize zeros into which bytes were written, read   *)
(* as a C string: up to the first zero.  Without one the reading goes on   *)
(* past the buffer.                                                        *)
(***************************************************************************)
Zeros(bytes) == {i \in DOMAIN bytes : bytes[i] = 0}

Terminated(bytes) == Len(bytes) < BufferSize \/ Zeros(bytes) # {}

CString(bytes) ==
    IF Zeros(bytes) = {} THEN bytes ELSE SubSeq(bytes, 1, Min(Zeros(bytes)) - 1)

(* The calls of the node's API; beyond is what follows the buffer. *)
hex2char(text, beyond) ==
    {IF Terminated(bytes) THEN CString(bytes) ELSE bytes \o beyond :
        bytes \in FromHex(text, BufferSize)}

char2hex(str) == ToHex(str)

-----------------------------------------------------------------------------
(***************************************************************************)
(* fc::raw: a length is packed in digits of base VarintBase, the lowest    *)
(* first; every byte but the last is marked.  Reading stops after          *)
(* MaxVarint bytes.                                                        *)
(***************************************************************************)
PackUInt[v \in Nat] ==
    IF v < VarintBase
    THEN <<v>>
    ELSE <<(v % VarintBase) + VarintBase>> \o PackUInt[v \div VarintBase]

VarintLen(s) ==
    Min({MaxVarint} \cup {i \in DOMAIN s : s[i] < VarintBase})

UnpackUInt(s) ==
    LET n == VarintLen(s)
        value[i \in 0 .. n] ==
            IF i = n THEN 0 ELSE (s[i + 1] % VarintBase) + VarintBase * value[i + 1]
    IN  [value |-> value[0], rest |-> SubSeq(s, n + 1, Len(s))]

PackBytes(bytes) == PackUInt[Len(bytes)] \o bytes

UnpackBytes(s) ==
    LET size == UnpackUInt(s)
    IN  [value |-> SubSeq(size.rest, 1, size.value),
         rest  |-> SubSeq(size.rest, size.value + 1, Len(size.rest))]

(***************************************************************************)
(* What Transaction::digest hashes, and what push_trxs hashes for the      *)
(* merkle root.  Times, keys and signatures have a fixed length: one item. *)
(* As a variant, the bytes are written without their lengths.              *)
(***************************************************************************)
PackForDigest_NoLengths(trx) ==
    <<trx.time_point>> \o trx.attach \o trx.data \o <<trx.pub_key>>

PackForDigest(trx) ==
    <<trx.time_point>> \o PackBytes(trx.attach) \o PackBytes(trx.data) \o <<trx.pub_key>>

PackTrx(trx) ==
    <<trx.time_point>> \o PackBytes(trx.data) \o PackBytes(trx.attach)
        \o <<trx.signature, trx.pub_key>>

PackTrxs(trxs) ==
    PackUInt[Len(trxs)] \o FlattenSeq([i \in DOMAIN trxs |-> PackTrx(trxs[i])])
=============================================================================

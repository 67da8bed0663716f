-------------------------------- MODULE Tool --------------------------------
(***************************************************************************)
(* keosd: one run of tool_plugin on a command line.  The run initializes   *)
(* the plugin, starts it, which does the whole operation, and ends,        *)
(* because nothing is left for the io_service to do.  What it prints is    *)
(* its result; main returns 0 whatever happened after initialize.          *)
(***************************************************************************)
EXTENDS ReadApi, Codec

CONSTANTS
    CommandLines,  \* the command lines it may be given
    Beyond,        \* what may be found after the end of the buffer
    Key            \* a key that keygen may generate

(***************************************************************************)
(* A command line: the options given, the value of each, whether --plugin  *)
(* names sqlite_plugin, and the database at DB_PATH.  A string is a        *)
(* sequence of bytes, a hex text one of characters; no key is the one that *)
(* stands for a failed recovery.  The data is short enough for its length  *)
(* to be read back: pack refuses more than MAX_SIZE_OF_BYTE_ARRAYS bytes.  *)
(***************************************************************************)
Byte == 0 .. 255

ASSUME ToolAssumption ==
    /\ Beyond \subseteq Seq(Byte)
    /\ \A l \in CommandLines :
        /\ l.h2c \in Seq(Nat)
        /\ l.c2h \in Seq(Byte)
        /\ l.sign.data \in Seq(Nat)
        /\ l.sign.attach \in Seq(Nat)
        /\ Len(PackUInt[Len(l.sign.data) \div 2]) <= MaxVarint
        /\ l.key # OtherKey
        /\ DOMAIN l.table \subseteq Nat
        /\ IsFiniteSet(DOMAIN l.table)

Options == {"keygen", "h2c", "c2h", "sign", "key", "chkchain"}

VARIABLES
    line,    \* the command line
    stage,   \* how far main is
    type,    \* tool_plugin::type
    out,     \* what was printed
    walk     \* check_chain: the position in the loop, and checkBlk

toolVars == <<line, stage, type, out, walk>>

None == [kind |-> "none"]

Exception == [kind |-> "exception"]

ToolInit ==
    /\ line \in CommandLines
    /\ stage = "main"
    /\ type = 0
    /\ out = None
    /\ walk = [next |-> 0, checkBlk |-> BlankBlock]

(***************************************************************************)
(* plugin_initialize.  Without a complete option type stays what the       *)
(* memory held: any number.                                                *)
(***************************************************************************)
Asked ==
    CASE "keygen" \in line.given            -> {1}
      [] "keygen" \notin line.given
         /\ "h2c" \in line.given            -> {2}
      [] line.given \cap {"keygen", "h2c"} = {}
         /\ "c2h" \in line.given            -> {3}
      [] line.given \cap {"keygen", "h2c", "c2h"} = {}
         /\ {"sign", "key"} \subseteq line.given -> {4}
      [] OTHER -> IF "chkchain" \in line.given THEN {5} ELSE {}

Initialize ==
    /\ stage = "main"
    /\ stage' = "initialized"
    /\ type' \in IF Asked = {} THEN 0 .. 6 ELSE Asked
    /\ UNCHANGED <<line, out, walk>>

(***************************************************************************)
(* plugin_startup: one operation; whatever it throws ends startup.         *)
(***************************************************************************)
Operation(t, result) ==
    /\ stage = "initialized"
    /\ type = t
    /\ stage' = "exited"
    /\ out' = result
    /\ UNCHANGED <<line, type, walk>>

(* option_datas.at, when the option was not given. *)
NoOptionDatas ==
    /\ Asked = {}
    /\ \E t \in {2, 3, 4} : Operation(t, Exception)

GenerateKey == Operation(1, [kind |-> "key", pub |-> Key, pri |-> Key])

(* The text is converted as far as the buffer goes and read as a C string. *)
HexToString ==
    /\ Asked # {}
    /\ \/ FromHex(line.h2c, BufferSize) = {} /\ Operation(2, Exception)
       \/ \E bytes \in FromHex(line.h2c, BufferSize) :
            \/ Terminated(bytes) /\ Operation(2, [kind |-> "text", text |-> CString(bytes)])
            \/ ~ Terminated(bytes) /\ \E more \in Beyond :
                   Operation(2, [kind |-> "overrun", text |-> bytes \o more])

StringToHex ==
    /\ Asked # {}
    /\ Operation(3, [kind |-> "hex", text |-> ToHex(line.c2h)])

(* A transaction as JSON text, read and printed. *)
TrxFromJson(json) ==
    {[time_point |-> json.time_point, data |-> data, attach |-> attach,
      signature |-> json.signature, pub_key |-> json.pub_key] :
        data \in BytesFromVariant(json.data), attach \in BytesFromVariant(json.attach)}

TrxToJson(tx) ==
    [tx EXCEPT !.data = BytesToVariant(@), !.attach = BytesToVariant(@)]

(***************************************************************************)
(* What keosd prints for a transaction and a private key: the digest is    *)
(* taken before the public key it covers is stored.  As a variant, after.  *)
(***************************************************************************)
ToolSign_Fixed(tx, key) == SignTrx(tx, key)

ToolSign(tx, key) ==
    [tx EXCEPT !.signature = Sign(key, TrxDigest(tx)), !.pub_key = key]

SignTransaction ==
    /\ Asked # {}
    /\ \/ TrxFromJson(line.sign) = {} /\ Operation(4, Exception)
       \/ \E tx \in TrxFromJson(line.sign) :
            Operation(4, [kind |-> "trx", json |-> TrxToJson(ToolSign(tx, line.key))])

(***************************************************************************)
(* check_chain: the blocks are fetched once and the loop takes them one by *)
(* one.  checkBlk starts blank and follows them; a block that says it is   *)
(* number 0 is not checked.  As a variant, that one is checked too.        *)
(***************************************************************************)
Passes_Unconditional(idx, prior) == CheckBlock(idx, prior)

Passes(idx, prior) == idx.blk_num = 0 \/ CheckBlock(idx, prior)

Fetched == GetAllBlocks(line.table)

CheckChain ==
    \/ /\ line.sqlite
       /\ stage = "initialized"
       /\ type = 5
       /\ stage' = "checking"
       /\ walk' = [next |-> 1, checkBlk |-> BlankBlock]
       /\ UNCHANGED <<line, type, out>>
    \* Nobody opened the database: SQLITE_MISUSE, and no message to log.
    \/ ~ line.sqlite /\ Operation(5, Exception)

CheckNext ==
    /\ stage = "checking"
    /\ walk.next \in DOMAIN Fetched
    /\ Passes(Fetched[walk.next], walk.checkBlk)
    /\ walk' = [next |-> walk.next + 1, checkBlk |-> Fetched[walk.next]]
    /\ UNCHANGED <<line, stage, type, out>>

(* What is printed: success, or checkBlk. *)
Verdict(blamed) ==
    /\ stage = "checking"
    /\ stage' = "exited"
    /\ out' = [kind |-> "verdict", blamed |-> blamed]
    /\ UNCHANGED <<line, type, walk>>

CheckFails ==
    /\ walk.next \in DOMAIN Fetched
    /\ ~ Passes(Fetched[walk.next], walk.checkBlk)
    /\ Verdict({walk.checkBlk})

CheckSucceeds ==
    /\ walk.next \notin DOMAIN Fetched
    /\ Verdict({})

(* The SELECT fails with a message: get_all_blocks answers no block. *)
CheckChainBlind ==
    /\ line.sqlite
    /\ Operation(5, [kind |-> "blind"])

(* FC_ASSERT(false) *)
NoSuchType == \E t \in {0, 6} : Operation(t, Exception)

ToolNext ==
    \/ Initialize \/ NoOptionDatas \/ GenerateKey \/ HexToString \/ StringToHex
    \/ SignTransaction \/ CheckChain \/ CheckNext \/ CheckFails \/ CheckSucceeds
    \/ CheckChainBlind \/ NoSuchType

ToolSpec == ToolInit /\ [][ToolNext]_toolVars

-----------------------------------------------------------------------------
(***************************************************************************)
(* Properties.                                                             *)
(***************************************************************************)

(***************************************************************************)
(* keosd and the node convert a string to the same text, and the node's    *)
(* hex2char gives the string back if it has no zero byte and is shorter    *)
(* than the buffer.  Any other comes back cut at the zero or with what     *)
(* lies behind the buffer: whole only if it fills the buffer and the       *)
(* memory behind happens to hold the rest of it.  A text makes keosd read  *)
(* beyond the buffer only if it has 2 * BufferSize - 1 characters: the odd *)
(* one already fills it.                                                   *)
(***************************************************************************)
HexRoundTrip ==
    /\ out.kind = "hex" =>
        /\ out.text = char2hex(line.c2h)
        /\ \A beyond \in Beyond : \E back \in hex2char(out.text, beyond) :
            IF Zeros(line.c2h) = {} /\ Len(line.c2h) < BufferSize
            THEN back = line.c2h
            ELSE back = line.c2h =>
                    /\ Len(line.c2h) >= BufferSize
                    /\ beyond = SubSeq(line.c2h, BufferSize + 1, Len(line.c2h))
    /\ out.kind = "overrun" => Len(line.h2c) >= 2 * BufferSize - 1

(***************************************************************************)
(* What keosd signs passes Transaction::validate of a node exactly if the  *)
(* transaction it was given named the signer's public key already.  (What  *)
(* the node's own sign_trx signs always passes, empty data aside.)         *)
(***************************************************************************)
SignedPasses ==
    out.kind = "trx" =>
        \A tx \in TrxFromJson(line.sign), signed \in TrxFromJson(out.json) :
            /\ TrxValidate(signed) <=> tx.data # NoData /\ tx.pub_key = line.key
            /\ TrxValidate(SignTrx(tx, line.key)) <=> tx.data # NoData

(***************************************************************************)
(* Reading a transaction and printing it again changes nothing but the     *)
(* case of its hex digits, unless a text is odd: then its last character   *)
(* is lost without an error, whatever it is.                               *)
(***************************************************************************)
Even(text) == SubSeq(text, 1, 2 * (Len(text) \div 2))

SameText(a, b) ==
    /\ Len(a) = Len(b)
    /\ \A i \in DOMAIN a : HexDigit(a[i]) = HexDigit(b[i])

TextKept ==
    out.kind = "trx" =>
        /\ SameText(out.json.data, Even(line.sign.data))
        /\ SameText(out.json.attach, Even(line.sign.attach))

(***************************************************************************)
(* The bytes that are hashed determine the transaction: no other command   *)
(* line's transaction has the same packed form, although attach and data   *)
(* lie side by side in it, and unpacking gives the bytes back.  This is    *)
(* what the free constructor Sha256 of module Blocks assumes.              *)
(***************************************************************************)
DigestFields(tx) == <<tx.time_point, tx.attach, tx.data, tx.pub_key>>

PackedTrxs == UNION {TrxFromJson(other.sign) : other \in CommandLines}

PackInjective ==
    out.kind = "trx" =>
        \A tx \in TrxFromJson(line.sign) :
            /\ UnpackBytes(PackBytes(tx.data) \o tx.attach)
                 = [value |-> tx.data, rest |-> tx.attach]
            /\ \A other \in PackedTrxs :
                /\ PackForDigest(tx) = PackForDigest(other) =>
                       DigestFields(tx) = DigestFields(other)
                /\ PackTrxs(<<tx, other>>) = PackTrxs(<<other, tx>>) => tx = other

(***************************************************************************)
(* The loop of keosd, once its SELECT succeeds, and check_chain of the     *)
(* node pass the same databases and blame the same block, whatever rows    *)
(* are missing, unsigned or of another chain; no database that nobody      *)
(* opened is passed.  And a command line that asks for nothing complete    *)
(* (say --sign without --key), which leaves the operation to uninitialised *)
(* memory, may generate a key or check the chain unasked, but never signs  *)
(* or converts anything.                                                   *)
(***************************************************************************)
ToolJudgesAsNode ==
    /\ out.kind = "verdict" => out.blamed = check_chain(line.table).block
    /\ out.kind \in {"verdict", "blind"} => line.sqlite
    /\ Asked = {} => out.kind \in {"none", "exception", "key", "verdict", "blind"}
=============================================================================

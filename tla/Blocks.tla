------------------------------- MODULE Blocks -------------------------------
(***************************************************************************)
(* The values of libraries/chain: transactions, blocks, their digests,     *)
(* signatures and checks.  Pure operators, no state.                       *)
(*                                                                         *)
(* Cryptography is symbolic.  SHA-256 is a free constructor (two digests   *)
(* are equal only if their inputs are) and a signature is the pair of the  *)
(* signing key and the digest it was made for.  A key pair is represented  *)
(* by one value: the private key signs, the public key is compared.        *)
(***************************************************************************)
EXTENDS Naturals, Sequences

CONSTANTS
    ProducerKey,  \* the key pair compiled into block.cpp and buffer.cpp
    OtherKey,     \* what recovery yields when a signature is for another digest
    NoData        \* the empty byte vector of Transaction::data

ASSUME KeysAssumption == ProducerKey # OtherKey

(***************************************************************************)
(* fc crypto, as used by the chain library.                                *)
(***************************************************************************)
Sha256(x) == [sha256 |-> x]

ZeroHash == [zero |-> TRUE]          \* fc::sha256()

BlankSig == [blank |-> TRUE]         \* fc::crypto::signature()

Sign(key, digest) == [key |-> key, digest |-> digest]

Recover(sig, digest) == IF sig.digest = digest THEN sig.key ELSE OtherKey

(***************************************************************************)
(* Transaction.                                                            *)
(***************************************************************************)
TrxDigest(trx) ==
    Sha256([time_point |-> trx.time_point, attach  |-> trx.attach,
            data       |-> trx.data,       pub_key |-> trx.pub_key])

TrxValidate(trx) ==
    /\ trx.data # NoData
    /\ trx.signature # BlankSig
    /\ Recover(trx.signature, TrxDigest(trx)) = trx.pub_key

(***************************************************************************)
(* What the sign_trx handler returns for a transaction and a private key:  *)
(* the public key is stored before the digest that covers it is taken.     *)
(***************************************************************************)
SignTrx(trx, key) ==
    LET tx == [trx EXCEPT !.pub_key = key]
    IN  [tx EXCEPT !.signature = Sign(key, TrxDigest(tx))]

(***************************************************************************)
(* Block.                                                                  *)
(***************************************************************************)
BlockDigest(b) ==
    Sha256([blk_num    |-> b.blk_num,    prior_hash  |-> b.prior_hash,
            time_point |-> b.time_point, merkle_root |-> b.merkle_root])

BlockValid(b) ==
    /\ b.sig # BlankSig
    /\ Recover(b.sig, BlockDigest(b)) = ProducerKey

MerkleRoot(trxs) == Sha256(trxs)

(* Variant: the link to the previous block is not compared. *)
CheckBlock_NoLink(b, prior) ==
    /\ BlockValid(prior)
    /\ BlockValid(b)

CheckBlock(b, prior) ==
    /\ BlockValid(prior)
    /\ BlockValid(b)
    /\ BlockDigest(prior) = b.prior_hash

(***************************************************************************)
(* A default-constructed Block.  The constructor leaves blk_num            *)
(* uninitialised; nothing reads it while the signature is blank, so one    *)
(* value stands for all.                                                   *)
(***************************************************************************)
BlankBlock ==
    [blk_num |-> 0, prior_hash |-> ZeroHash, time_point |-> 0,
     merkle_root |-> ZeroHash, sig |-> BlankSig, trxs |-> <<>>]

(* Variant: the number of a first block is taken before it is assigned. *)
NextNum_Unset(last) == IF BlockValid(last) THEN last.blk_num + 1 ELSE 0 - 1

(***************************************************************************)
(* Buffer::build_block: the block that follows last (or starts the chain   *)
(* when last is not a valid block), with the pool as its transactions.     *)
(***************************************************************************)
NextNum(last) == IF BlockValid(last) THEN last.blk_num + 1 ELSE 0

PriorHash(last) == IF BlockValid(last) THEN BlockDigest(last) ELSE ZeroHash

(* Variant: the block is signed before push_trxs fills in the merkle root. *)
BuildBlock_SignsFirst(last, pool, now) ==
    LET b == [blk_num     |-> NextNum(last),
              prior_hash  |-> PriorHash(last),
              time_point  |-> now,
              merkle_root |-> ZeroHash,
              sig         |-> BlankSig,
              trxs        |-> <<>>]
    IN  [b EXCEPT !.sig = Sign(ProducerKey, BlockDigest(b)),
                  !.merkle_root = MerkleRoot(pool),
                  !.trxs = pool]

BuildBlock(last, pool, now) ==
    LET b == [blk_num     |-> NextNum(last),
              prior_hash  |-> PriorHash(last),
              time_point  |-> now,
              merkle_root |-> MerkleRoot(pool),
              sig         |-> BlankSig,
              trxs        |-> pool]
    IN  [b EXCEPT !.sig = Sign(ProducerKey, BlockDigest(b))]
=============================================================================

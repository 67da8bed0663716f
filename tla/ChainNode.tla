----------------------------- MODULE ChainNode ------------------------------
(***************************************************************************)
(* A nodeos process: chain_plugin over Buffer (the transaction pool and    *)
(* the cached last block) over sqlite_plugin (the durable table).          *)
(*                                                                         *)
(* All handlers run on one thread, so push_transaction is one step; the    *)
(* publish_blk handler is three (build, append, cache) because the process *)
(* may die between them.  Buffer lives in memory: it is lost when the      *)
(* process stops and rebuilt by chain_plugin::plugin_startup.              *)
(***************************************************************************)
EXTENDS ReadApi

CONSTANTS
    TrxParams,     \* the push_transaction requests clients may send
    Times,         \* values of the clock, in seconds
    MaxBlocks,     \* bound: block numbers stay below MaxBlocks
    MaxAccepted,   \* bound: acknowledged transactions
    MaxSqlErrors   \* bound: SQL statements that fail for an outside reason

ASSUME BoundsAssumption ==
    /\ MaxBlocks \in Nat
    /\ MaxAccepted \in Nat
    /\ MaxSqlErrors \in Nat

ASSUME TimesAssumption == Times \subseteq Nat

VARIABLES
    table,       \* the BLOCK table on disk
    trx_pool,    \* Buffer::trx_pool
    last_block,  \* Buffer::last_block
    last_blk,    \* the local of the publish_blk handler in progress
    pc,          \* where the process is
    reply,       \* the last reply of a read_write handler
    accepted,    \* history: the transactions acknowledged, in order
    sqlErrors    \* history: SQL statements that failed for an outside reason

vars == <<table, trx_pool, last_block, last_blk, pc, reply, accepted, sqlErrors>>

(***************************************************************************)
(* The contents of an fc::optional<Block> that holds no block, when a      *)
(* release build dereferences it: memory whose signature is no signature.  *)
(***************************************************************************)
GarbageSig == [garbage |-> TRUE]

GarbageBlock == [BlankBlock EXCEPT !.sig = GarbageSig]

Init ==
    /\ table = EmptyTable
    /\ trx_pool = <<>>
    /\ last_block = BlankBlock
    /\ last_blk = BlankBlock
    /\ pc = "down"
    /\ reply = "none"
    /\ accepted = <<>>
    /\ sqlErrors = 0

-----------------------------------------------------------------------------
(***************************************************************************)
(* chain_plugin::plugin_startup, after plugin_initialize made a fresh      *)
(* Buffer.                                                                 *)
(***************************************************************************)
Stopped == pc \in {"down", "aborted"}

Boot(blk, next) ==
    /\ last_block' = blk
    /\ trx_pool' = <<>>
    /\ last_blk' = BlankBlock
    /\ pc' = next
    /\ reply' = "none"
    /\ UNCHANGED <<table, accepted>>

(***************************************************************************)
(* The row plugin_startup takes for the last one, as an optional; as a     *)
(* variant, the row after it.                                              *)
(***************************************************************************)
LastRow_OffByOne == GetBlock(table, GetBlockCount(table))

LastRow == GetBlock(table, GetBlockCount(table) - 1)

(* Variant: the stored blocks are not looked at. *)
StartupEmpty_IgnoresRows ==
    /\ Stopped
    /\ Boot(BlankBlock, "idle")
    /\ UNCHANGED sqlErrors

StartupEmpty ==
    /\ Stopped
    /\ GetBlockCount(table) = 0
    /\ Boot(BlankBlock, "idle")
    /\ UNCHANGED sqlErrors

StartupLoad ==
    /\ Stopped
    /\ GetBlockCount(table) > 0
    /\ \E blk \in LastRow : Boot(blk, "idle")
    /\ UNCHANGED sqlErrors

(***************************************************************************)
(* Dereferencing the empty optional is undefined: the process dies, or     *)
(* copies a block that looks blank, or one whose signature is garbage.     *)
(***************************************************************************)
BootUndefined ==
    \/ Boot(BlankBlock, "aborted")
    \/ \E blk \in {BlankBlock, GarbageBlock} : Boot(blk, "idle")

StartupNoRow ==
    /\ Stopped
    /\ GetBlockCount(table) > 0
    /\ LastRow = {}
    /\ BootUndefined
    /\ UNCHANGED sqlErrors

SqlFails ==
    /\ sqlErrors < MaxSqlErrors
    /\ sqlErrors' = sqlErrors + 1

(* The count query fails: get_block_count logs the error and answers 0. *)
StartupCountFails ==
    /\ Stopped
    /\ SqlFails
    /\ Boot(BlankBlock, "idle")

(* The row query fails: get_block logs the error and answers no block. *)
StartupRowFails ==
    /\ Stopped
    /\ GetBlockCount(table) > 0
    /\ SqlFails
    /\ BootUndefined

(* A query fails without a message: building the log line throws, startup ends. *)
StartupThrows ==
    /\ Stopped
    /\ SqlFails
    /\ Boot(BlankBlock, "down")

-----------------------------------------------------------------------------
(* Variant: the pool is a stack. *)
PushAccept_Front(trx) ==
    /\ pc = "idle"
    /\ Len(accepted) < MaxAccepted
    /\ TrxValidate(trx)
    /\ trx_pool' = <<trx>> \o trx_pool
    /\ accepted' = Append(accepted, trx)
    /\ reply' = "accepted"
    /\ UNCHANGED <<table, last_block, last_blk, pc, sqlErrors>>

(***************************************************************************)
(* read_write::push_transaction.                                           *)
(***************************************************************************)
PushAccept(trx) ==
    /\ pc = "idle"
    /\ Len(accepted) < MaxAccepted
    /\ TrxValidate(trx)
    /\ trx_pool' = Append(trx_pool, trx)
    /\ accepted' = Append(accepted, trx)
    /\ reply' = "accepted"
    /\ UNCHANGED <<table, last_block, last_blk, pc, sqlErrors>>

PushReject(trx) ==
    /\ pc = "idle"
    /\ ~ TrxValidate(trx)
    /\ reply' = "error"
    /\ UNCHANGED <<table, trx_pool, last_block, last_blk, pc, accepted, sqlErrors>>

(* Variant: the pool is not cleared. *)
PublishBuild_KeepsPool(now) ==
    /\ pc = "idle"
    /\ last_block.sig # GarbageSig
    /\ NextNum(last_block) < MaxBlocks
    /\ last_blk' = BuildBlock(last_block, trx_pool, now)
    /\ pc' = "append"
    /\ UNCHANGED <<table, trx_pool, last_block, reply, accepted, sqlErrors>>

(***************************************************************************)
(* read_write::publish_blk.  build_block clears the pool; append_block     *)
(* logs an SQL error and returns normally, whatever the error was.         *)
(***************************************************************************)
PublishBuild(now) ==
    /\ pc = "idle"
    /\ last_block.sig # GarbageSig
    /\ NextNum(last_block) < MaxBlocks
    /\ last_blk' = BuildBlock(last_block, trx_pool, now)
    /\ trx_pool' = <<>>
    /\ pc' = "append"
    /\ UNCHANGED <<table, last_block, reply, accepted, sqlErrors>>

(* Recovering a key from the garbage signature throws, before the pool is cleared. *)
PublishThrows ==
    /\ pc = "idle"
    /\ last_block.sig = GarbageSig
    /\ reply' = "error"
    /\ UNCHANGED <<table, trx_pool, last_block, last_blk, pc, accepted, sqlErrors>>

AppendStored ==
    /\ pc = "append"
    /\ KeyFree(table, last_blk)
    /\ table' = Insert(table, last_blk)
    /\ pc' = "cache"
    /\ UNCHANGED <<trx_pool, last_block, last_blk, reply, accepted, sqlErrors>>

AppendKeyTaken ==
    /\ pc = "append"
    /\ ~ KeyFree(table, last_blk)
    /\ pc' = "cache"
    /\ UNCHANGED <<table, trx_pool, last_block, last_blk, reply, accepted, sqlErrors>>

AppendFails ==
    /\ pc = "append"
    /\ SqlFails
    /\ pc' = "cache"
    /\ UNCHANGED <<table, trx_pool, last_block, last_blk, reply, accepted>>

(* An SQL error without a message: building the log line throws. *)
AppendThrows ==
    /\ pc = "append"
    /\ SqlFails
    /\ pc' = "idle"
    /\ reply' = "error"
    /\ last_blk' = BlankBlock
    /\ UNCHANGED <<table, trx_pool, last_block, accepted>>

(* Variant: the new block is not cached. *)
PublishDone_NoCache ==
    /\ pc = "cache"
    /\ last_blk' = BlankBlock
    /\ pc' = "idle"
    /\ reply' = "operation complete"
    /\ UNCHANGED <<table, trx_pool, last_block, accepted, sqlErrors>>

PublishDone ==
    /\ pc = "cache"
    /\ last_block' = last_blk
    /\ last_blk' = BlankBlock
    /\ pc' = "idle"
    /\ reply' = "operation complete"
    /\ UNCHANGED <<table, trx_pool, accepted, sqlErrors>>

-----------------------------------------------------------------------------
Halt ==
    /\ trx_pool' = <<>>
    /\ last_block' = BlankBlock
    /\ last_blk' = BlankBlock
    /\ pc' = "down"
    /\ reply' = "none"
    /\ UNCHANGED <<table, accepted, sqlErrors>>

(* plugin_shutdown, between two handlers: nothing of the pool is saved. *)
Shutdown ==
    /\ pc = "idle"
    /\ Halt

(* The process dies at any point. *)
Crash ==
    /\ pc \in {"idle", "append", "cache"}
    /\ Halt

Next ==
    \/ StartupEmpty
    \/ StartupLoad
    \/ StartupNoRow
    \/ StartupCountFails
    \/ StartupRowFails
    \/ StartupThrows
    \/ \E trx \in TrxParams : PushAccept(trx) \/ PushReject(trx)
    \/ \E now \in Times : PublishBuild(now)
    \/ PublishThrows
    \/ AppendStored
    \/ AppendKeyTaken
    \/ AppendFails
    \/ AppendThrows
    \/ PublishDone
    \/ Shutdown
    \/ Crash

Spec == Init /\ [][Next]_vars
-----------------------------------------------------------------------------
(***************************************************************************)
(* Properties.                                                             *)
(***************************************************************************)
Row(id) == FromJson(table[id].JSON)

IsBlock(b) ==
    /\ b = [blk_num |-> b.blk_num, prior_hash |-> b.prior_hash,
            time_point |-> b.time_point, merkle_root |-> b.merkle_root,
            sig |-> b.sig, trxs |-> b.trxs]
    /\ b.blk_num \in Nat
    /\ b.time_point \in Nat
    /\ b.trxs \in Seq(TrxParams)

TableOK ==
    /\ DOMAIN table \subseteq Nat
    /\ IsFiniteSet(DOMAIN table)
    /\ \A id \in DOMAIN table :
        /\ table[id] = [HASH |-> table[id].HASH, JSON |-> ToJson(Row(id))]
        /\ IsBlock(Row(id))

(***************************************************************************)
(* Type correctness of the table, of Buffer and of the handlers' locals.   *)
(***************************************************************************)
TypeOK ==
    /\ TableOK
    /\ trx_pool \in Seq(TrxParams)
    /\ IsBlock(last_block)
    /\ IsBlock(last_blk)
    /\ pc \in {"down", "idle", "append", "cache", "aborted"}
    /\ reply \in {"none", "accepted", "operation complete", "error"}
    /\ accepted \in Seq(TrxParams)
    /\ sqlErrors \in 0 .. MaxSqlErrors

(***************************************************************************)
(* A table holds an intact chain: block 0 has no predecessor, every other  *)
(* block's predecessor is present, and the two pass Block::check_block.    *)
(***************************************************************************)
LinkIntact(id) ==
    IF id = 0
    THEN BlockValid(Row(0)) /\ Row(0).prior_hash = ZeroHash
    ELSE id - 1 \in DOMAIN table /\ CheckBlock(Row(id), Row(id - 1))

ChainIntact == \A id \in DOMAIN table : LinkIntact(id)

(***************************************************************************)
(* As long as no SQL statement fails, what publish_blk writes is one       *)
(* intact chain, across every crash between build, append and cache and    *)
(* every restart (which resumes from row count - 1).                       *)
(***************************************************************************)
ChainLinked == sqlErrors = 0 => ChainIntact

(***************************************************************************)
(* Between handlers, if no SQL statement ever failed, Buffer::last_block   *)
(* is the row with the highest ID, or blank when there is no row: the next *)
(* publish_blk extends what is on disk.                                    *)
(***************************************************************************)
CacheMatchesStore ==
    sqlErrors = 0 /\ pc = "idle" =>
        IF DOMAIN table = {}
        THEN last_block = BlankBlock
        ELSE /\ GetBlock(table, last_block.blk_num) = {last_block}
             /\ \A id \in DOMAIN table : id <= last_block.blk_num

(***************************************************************************)
(* plugin_startup dereferences the optional returned by                    *)
(* get_block(count - 1) without looking; unless an SQL statement failed    *)
(* before, it holds a block.                                               *)
(***************************************************************************)
StartupDefined ==
    sqlErrors = 0 => pc # "aborted" /\ last_block.sig # GarbageSig

(***************************************************************************)
(* Every stored row is the block the handler built, whatever SQL failures  *)
(* and restarts came before: its ID and HASH are those of its JSON, it is  *)
(* signed by the producer and its merkle root covers its transactions.     *)
(***************************************************************************)
RowsSound ==
    \A id \in DOMAIN table :
        /\ Row(id).blk_num = id
        /\ table[id].HASH = BlockDigest(Row(id))
        /\ BlockValid(Row(id))
        /\ Row(id).merkle_root = MerkleRoot(Row(id).trxs)

(***************************************************************************)
(* The check_chain handler, on any table the node can have produced (lost  *)
(* appends, colliding IDs and restarts from a wrong block included),       *)
(* reports 0 exactly when the table is an intact chain.                    *)
(***************************************************************************)
CheckChainExact == check_chain(table).result = 0 <=> ChainIntact

(***************************************************************************)
(* If no SQL statement failed, the numbers get_info counts are the numbers *)
(* get_block serves, in the order of get_blocks, which skips the number    *)
(* after the last.                                                         *)
(***************************************************************************)
NumbersServed ==
    LET count == get_info(table, trx_pool).block_num
        all   == get_blocks(table, <<>>)
    IN  sqlErrors = 0 =>
            \A n \in 0 .. count - 1 :
                /\ get_block(table, n) = {all[n + 1]}
                /\ get_blocks(table, <<count, n>>) = <<all[n + 1]>>

(***************************************************************************)
(* No row is ever changed or removed by the node, not even when a restart  *)
(* from a wrong block makes it build a number that is already stored.      *)
(***************************************************************************)
AppendOnly ==
    [][\A id \in DOMAIN table :
          id \in DOMAIN table' /\ table'[id] = table[id]]_vars

(***************************************************************************)
(* An acknowledged transaction is in the table, in the block being         *)
(* appended and in the pool at most once altogether, and nothing is there  *)
(* that was not acknowledged.                                              *)
(***************************************************************************)
Places(seq, trx) == {k \in DOMAIN seq : seq[k] = trx}

InFlight == IF pc = "append" THEN last_blk.trxs ELSE <<>>

StoredPlaces(trx) ==
    UNION {{<<id, k>> : k \in Places(Row(id).trxs, trx)} : id \in DOMAIN table}

AtMostOnce ==
    \A trx \in TrxParams :
        Cardinality(StoredPlaces(trx))
          + Cardinality(Places(InFlight, trx))
          + Cardinality(Places(trx_pool, trx))
        <= Cardinality(Places(accepted, trx))

(***************************************************************************)
(* What the documentation says of publish_blk: the reply                   *)
(* "operation complete" means that the block is on the chain.              *)
(***************************************************************************)
CompleteMeansStored ==
    pc = "idle" /\ reply = "operation complete" =>
        GetBlock(table, last_block.blk_num) = {last_block}

(***************************************************************************)
(* The refinement: a page is the transactions of a row, under its ID; the  *)
(* transactions of a block that is built and not yet stored still wait;    *)
(* the store is trusted until an SQL statement fails.                      *)
(***************************************************************************)
L == INSTANCE Ledger WITH
        Trxs    <- {trx \in TrxParams : TrxValidate(trx)},
        Numbers <- 0 .. MaxBlocks,
        pages   <- [id \in DOMAIN table |-> Row(id).trxs],
        waiting <- InFlight \o trx_pool,
        up      <- ~ Stopped,
        trusted <- sqlErrors = 0

(***************************************************************************)
(* The node implements the ledger: a valid transaction is sealed once, in  *)
(* order, in the page after the last, or lost with the process, wherever   *)
(* the process dies; once an SQL statement has failed, a publish_blk may   *)
(* also lose its whole block or number it astray, and no more than that.   *)
(***************************************************************************)
ImplementsLedger == L!LSpec
=============================================================================

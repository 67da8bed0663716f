------------------------------ MODULE ReadApi -------------------------------
(***************************************************************************)
(* chain_apis::read_only: the handlers that only read the table and the    *)
(* buffer.  One operator per handler, from the state to the reply.         *)
(***************************************************************************)
EXTENDS BlockStore

get_info(table, pool) ==
    [block_num |-> GetBlockCount(table), pending_trx |-> Len(pool)]

(* The empty set stands for the reply "block not found". *)
get_block(table, blk_num) == GetBlock(table, blk_num)

(* An empty request means all blocks; unknown numbers are skipped. *)
get_blocks(table, blk_nums) ==
    IF blk_nums = <<>>
    THEN GetAllBlocks(table)
    ELSE LET found == {k \in DOMAIN blk_nums : GetBlock(table, blk_nums[k]) # {}}
         IN  [i \in 1 .. Cardinality(found) |->
                 CHOOSE b \in GetBlock(table, blk_nums[Nth(found, i)]) : TRUE]

(* Variant: checkBlk is not moved along. *)
checkBlk_Stale(blocks, i) == IF i = 1 THEN BlankBlock ELSE blocks[1]

(***************************************************************************)
(* check_chain walks the blocks in ID order.  checkBlk, the block each one *)
(* is checked against, is always its predecessor in that order, or a       *)
(* default-constructed block for the first one; a block that says it is    *)
(* number 0 is not checked.  The first failure ends the walk and reports   *)
(* checkBlk.                                                               *)
(***************************************************************************)
checkBlk(blocks, i) == IF i = 1 THEN BlankBlock ELSE blocks[i - 1]

FailsAt(blocks, i) ==
    /\ blocks[i].blk_num # 0
    /\ ~ CheckBlock(blocks[i], checkBlk(blocks, i))

FirstFailure(blocks) ==
    CHOOSE i \in DOMAIN blocks :
        /\ FailsAt(blocks, i)
        /\ \A j \in 1 .. i - 1 : ~ FailsAt(blocks, j)

(* The reported block is the empty set on success (the code sends 0). *)
CheckBlocks(blocks) ==
    IF \E i \in DOMAIN blocks : FailsAt(blocks, i)
    THEN [result |-> -1, block |-> {checkBlk(blocks, FirstFailure(blocks))}]
    ELSE [result |-> 0, block |-> {}]

check_chain(table) == CheckBlocks(GetAllBlocks(table))
=============================================================================

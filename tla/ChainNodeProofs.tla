-------------------------- MODULE ChainNodeProofs ---------------------------
(***************************************************************************)
(* Proofs about ChainNode, for every set of requests, every clock and      *)
(* every value of the bounds.                                              *)
(***************************************************************************)
EXTENDS ChainNode, ReadApiProofs

(* The signature the producer makes is not the garbage one. *)
LEMMA SignatureNotGarbage ==
    ASSUME NEW key, NEW digest
    PROVE  Sign(key, digest) # GarbageSig
  <1>1. DOMAIN Sign(key, digest) = {"key", "digest"}
    BY DEF Sign
  <1>2. DOMAIN GarbageSig = {"garbage"}
    BY DEF GarbageSig
  <1> QED BY <1>1, <1>2

-----------------------------------------------------------------------------
(***************************************************************************)
(* Type correctness.                                                       *)
(***************************************************************************)

(* The two blocks that are no block of the chain still have a block's type. *)
LEMMA BlankIsBlock == IsBlock(BlankBlock) /\ IsBlock(GarbageBlock)
  BY DEF IsBlock, BlankBlock, GarbageBlock

(* A row that is found holds the block asked for. *)
LEMMA GetBlockFacts ==
    ASSUME NEW num, NEW blk \in GetBlock(table, num)
    PROVE  num \in DOMAIN table /\ blk = Row(num)
  BY DEF GetBlock, Row

(* build_block returns a well-typed block. *)
LEMMA BuildType ==
    ASSUME NEW last, last.blk_num \in Nat, NEW pool \in Seq(TrxParams),
           NEW now \in Times
    PROVE  IsBlock(BuildBlock(last, pool, now))
  <1> DEFINE b == BuildBlock(last, pool, now)
  <1>1. /\ b = [blk_num |-> b.blk_num, prior_hash |-> b.prior_hash,
                time_point |-> b.time_point, merkle_root |-> b.merkle_root,
                sig |-> b.sig, trxs |-> b.trxs]
        /\ b.blk_num = NextNum(last)
        /\ b.time_point = now
        /\ b.trxs = pool
    BY BuildBlockFacts
  <1>2. NextNum(last) \in Nat
    BY DEF NextNum
  <1>3. now \in Nat
    BY TimesAssumption
  <1> HIDE DEF b
  <1>4. IsBlock(b)
    BY <1>1, <1>2, <1>3 DEF IsBlock
  <1> QED BY <1>4 DEF b

(* A step that leaves the table alone leaves it well typed. *)
LEMMA SameTable ==
    ASSUME TableOK, UNCHANGED table
    PROVE  TableOK'
  BY DEF TableOK, Row

(* An INSERT of a well-typed block leaves the table well typed. *)
LEMMA InsertType ==
    ASSUME NEW b, TableOK, IsBlock(b), KeyFree(table, b), table' = Insert(table, b)
    PROVE  TableOK'
  <1> DEFINE n == b.blk_num
  <1>1. /\ DOMAIN table' = DOMAIN table \cup {n}
        /\ table'[n] = BlockRow(b)
        /\ \A id \in DOMAIN table : table'[id] = table[id]
    BY InsertFacts
  <1>2. DOMAIN table' \subseteq Nat
    BY <1>1 DEF TableOK, IsBlock
  <1>3. IsFiniteSet(DOMAIN table')
    BY <1>1, FS_AddElement DEF TableOK
  <1>4. Row(n)' = b
    BY <1>1 DEF Row, BlockRow, ToJson, FromJson
  <1>5. table'[n] = [HASH |-> table'[n].HASH, JSON |-> ToJson(Row(n)')]
    BY <1>1, <1>4 DEF BlockRow
  <1>6. ASSUME NEW id \in DOMAIN table
        PROVE  /\ table'[id] = [HASH |-> table'[id].HASH, JSON |-> ToJson(Row(id)')]
               /\ IsBlock(Row(id)')
    BY <1>1 DEF TableOK, Row
  <1> QED BY <1>1, <1>2, <1>3, <1>4, <1>5, <1>6 DEF TableOK, Row

(* The history counter stays within its bound. *)
LEMMA SqlFailsType ==
    ASSUME sqlErrors \in 0 .. MaxSqlErrors, SqlFails
    PROVE  sqlErrors' \in 0 .. MaxSqlErrors
  BY BoundsAssumption DEF SqlFails

(* Sequences of requests: the empty one, and one grown by a request. *)
LEMMA SeqTypes ==
    ASSUME NEW S
    PROVE  /\ <<>> \in Seq(S)
           /\ \A s \in Seq(S), x \in S : Append(s, x) \in Seq(S)
  OBVIOUS

(* A restart keeps the types when the block it caches has its type. *)
LEMMA BootType ==
    ASSUME TypeOK, NEW blk, IsBlock(blk), NEW next \in {"idle", "aborted", "down"},
           Boot(blk, next), sqlErrors' \in 0 .. MaxSqlErrors
    PROVE  TypeOK'
  BY BlankIsBlock, SameTable, SeqTypes DEF Boot, TypeOK

(* A node with an empty table and nothing in memory is well typed. *)
LEMMA InitType == Init => TypeOK
  BY BlankIsBlock, BoundsAssumption, FS_EmptySet DEF Init, TypeOK, TableOK, EmptyTable

(* Every handler, startup, failure and crash preserves the types. *)
LEMMA NextType == TypeOK /\ [Next]_vars => TypeOK'
  <1> SUFFICES ASSUME TypeOK, [Next]_vars
               PROVE  TypeOK'
    OBVIOUS
  <1>1. CASE StartupEmpty
    BY <1>1, BlankIsBlock, BootType DEF StartupEmpty, TypeOK
  <1>2. CASE StartupLoad
    <2>1. PICK blk \in LastRow : Boot(blk, "idle")
      BY <1>2 DEF StartupLoad
    <2>2. IsBlock(blk)
      BY GetBlockFacts DEF LastRow, TypeOK, TableOK
    <2>3. sqlErrors' \in 0 .. MaxSqlErrors
      BY <1>2 DEF StartupLoad, TypeOK
    <2> QED BY <2>1, <2>2, <2>3, BootType
  <1>3. CASE StartupNoRow
    <2>1. sqlErrors' \in 0 .. MaxSqlErrors
      BY <1>3 DEF StartupNoRow, TypeOK
    <2> QED BY <1>3, <2>1, BlankIsBlock, BootType DEF StartupNoRow, BootUndefined
  <1>4. CASE StartupCountFails
    <2>1. sqlErrors' \in 0 .. MaxSqlErrors
      BY <1>4, SqlFailsType DEF StartupCountFails, TypeOK
    <2> QED BY <1>4, <2>1, BlankIsBlock, BootType DEF StartupCountFails
  <1>5. CASE StartupRowFails
    <2>1. sqlErrors' \in 0 .. MaxSqlErrors
      BY <1>5, SqlFailsType DEF StartupRowFails, TypeOK
    <2> QED BY <1>5, <2>1, BlankIsBlock, BootType DEF StartupRowFails, BootUndefined
  <1>5a. CASE StartupThrows
    <2>1. sqlErrors' \in 0 .. MaxSqlErrors
      BY <1>5a, SqlFailsType DEF StartupThrows, TypeOK
    <2> QED BY <1>5a, <2>1, BlankIsBlock, BootType DEF StartupThrows
  <1>6. ASSUME NEW trx \in TrxParams, PushAccept(trx)
        PROVE  TypeOK'
    BY <1>6, SameTable, SeqTypes DEF PushAccept, TypeOK
  <1>7. ASSUME NEW trx \in TrxParams, PushReject(trx)
        PROVE  TypeOK'
    BY <1>7, SameTable DEF PushReject, TypeOK
  <1>8. ASSUME NEW now \in Times, PublishBuild(now)
        PROVE  TypeOK'
    <2>1. last_blk' = BuildBlock(last_block, trx_pool, now)
      BY <1>8 DEF PublishBuild
    <2>2. last_block.blk_num \in Nat /\ trx_pool \in Seq(TrxParams)
      BY DEF TypeOK, IsBlock
    <2>3. IsBlock(last_blk)'
      BY <2>1, <2>2, BuildType
    <2> QED BY <1>8, <2>3, SameTable, SeqTypes DEF PublishBuild, TypeOK
  <1>9. CASE PublishThrows
    BY <1>9, SameTable DEF PublishThrows, TypeOK
  <1>10. CASE AppendStored
    BY <1>10, InsertType DEF AppendStored, TypeOK
  <1>11. CASE AppendKeyTaken
    BY <1>11, SameTable DEF AppendKeyTaken, TypeOK
  <1>12. CASE AppendFails
    BY <1>12, SqlFailsType, SameTable DEF AppendFails, TypeOK
  <1>13. CASE AppendThrows
    BY <1>13, SqlFailsType, SameTable, BlankIsBlock DEF AppendThrows, TypeOK
  <1>14. CASE PublishDone
    BY <1>14, SameTable, BlankIsBlock DEF PublishDone, TypeOK
  <1>15. CASE Shutdown
    BY <1>15, SameTable, SeqTypes, BlankIsBlock DEF Shutdown, Halt, TypeOK
  <1>16. CASE Crash
    BY <1>16, SameTable, SeqTypes, BlankIsBlock DEF Crash, Halt, TypeOK
  <1>17. CASE UNCHANGED vars
    BY <1>17, SameTable DEF vars, TypeOK
  <1> QED
    BY <1>1, <1>2, <1>3, <1>4, <1>5, <1>5a, <1>6, <1>7, <1>8, <1>9, <1>10, <1>11,
       <1>12, <1>13, <1>14, <1>15, <1>16, <1>17 DEF Next

(***************************************************************************)
(* The variables always have their types, under every interleaving of      *)
(* requests, SQL failures, crashes and restarts.                           *)
(***************************************************************************)
THEOREM TypeCorrect == Spec => []TypeOK
  BY InitType, NextType, PTL DEF Spec
-----------------------------------------------------------------------------
(***************************************************************************)
(* The inductive invariant.                                                *)
(*                                                                         *)
(* What holds of every block build_block returns, whatever came before:    *)
(* it is signed, its merkle root covers its transactions, and its          *)
(* prior_hash is the digest of a header with the number before its own.    *)
(***************************************************************************)
GoodBlock(b) ==
    /\ BlockValid(b)
    /\ b.sig # GarbageSig
    /\ b.merkle_root = MerkleRoot(b.trxs)
    /\ IF b.blk_num = 0
       THEN b.prior_hash = ZeroHash
       ELSE b.prior_hash.sha256.blk_num = b.blk_num - 1

StoreInv ==
    \A id \in DOMAIN table :
        /\ Row(id).blk_num = id
        /\ table[id].HASH = BlockDigest(Row(id))
        /\ GoodBlock(Row(id))

BufferInv ==
    /\ last_block \in {BlankBlock, GarbageBlock} \/ GoodBlock(last_block)
    /\ pc \in {"append", "cache"} => GoodBlock(last_blk)
    /\ pc = "append" => last_block.sig # GarbageSig

(***************************************************************************)
(* b is what the next block must follow: the block with the highest number *)
(* in a table of consecutive numbers.                                      *)
(***************************************************************************)
IsTip(b) ==
    \/ DOMAIN table = {} /\ b = BlankBlock
    \/ /\ b.blk_num \in DOMAIN table
       /\ DOMAIN table = 0 .. b.blk_num
       /\ b = Row(b.blk_num)

(***************************************************************************)
(* What holds as long as no SQL statement has failed: the numbers in the   *)
(* table are consecutive, the rows are linked, and the block being built,  *)
(* stored or cached is the next one.                                       *)
(***************************************************************************)
Consecutive == \E n \in Nat : DOMAIN table = 0 .. n - 1

FaultFreeInv ==
    /\ Consecutive
    /\ ChainIntact
    /\ pc # "aborted"
    /\ last_block.sig # GarbageSig
    /\ pc \in {"idle", "append"} => IsTip(last_block)
    /\ pc = "append" =>
        /\ last_blk.blk_num = NextNum(last_block)
        /\ last_blk.prior_hash = PriorHash(last_block)
    /\ pc = "cache" => IsTip(last_blk)

IInv ==
    /\ TypeOK
    /\ StoreInv
    /\ BufferInv
    /\ sqlErrors = 0 => FaultFreeInv

(* build_block returns a good block after a good one, or after none. *)
LEMMA BuildGood ==
    ASSUME NEW last, last.blk_num \in Nat, NEW pool, NEW now,
           last = BlankBlock \/ GoodBlock(last)
    PROVE  GoodBlock(BuildBlock(last, pool, now))
  <1> DEFINE b == BuildBlock(last, pool, now)
  <1>1. /\ b.blk_num = NextNum(last) /\ b.prior_hash = PriorHash(last)
        /\ b.trxs = pool /\ b.merkle_root = MerkleRoot(pool)
        /\ b.sig # GarbageSig /\ BlockValid(b)
    BY BuildBlockFacts, SignatureNotGarbage
  <1> HIDE DEF b
  <1>2. CASE BlockValid(last)
    <2>1. b.blk_num = last.blk_num + 1 /\ b.prior_hash = BlockDigest(last)
      BY <1>1, <1>2 DEF NextNum, PriorHash
    <2>2. b.prior_hash.sha256.blk_num = last.blk_num
      BY <2>1 DEF BlockDigest, Sha256
    <2>3. b.blk_num # 0 /\ b.blk_num - 1 = last.blk_num
      BY <2>1
    <2> QED BY <1>1, <2>2, <2>3 DEF GoodBlock, b
  <1>3. CASE ~ BlockValid(last)
    <2>1. b.blk_num = 0 /\ b.prior_hash = ZeroHash
      BY <1>1, <1>3 DEF NextNum, PriorHash
    <2> QED BY <1>1, <2>1 DEF GoodBlock, b
  <1> QED BY <1>2, <1>3

(* A step that leaves the table alone preserves what is said of its rows. *)
LEMMA SameStore ==
    ASSUME UNCHANGED table
    PROVE  /\ StoreInv => StoreInv'
           /\ Consecutive => Consecutive'
           /\ ChainIntact => ChainIntact'
  <1>1. StoreInv => StoreInv'
    BY DEF StoreInv, Row
  <1>2. Consecutive => Consecutive'
    BY DEF Consecutive
  <1>3. ChainIntact => ChainIntact'
    BY DEF ChainIntact, LinkIntact, Row
  <1> QED BY <1>1, <1>2, <1>3

(* A step that leaves the table alone leaves its tip the tip. *)
LEMMA SameTip ==
    ASSUME NEW b, UNCHANGED table, IsTip(b)
    PROVE  IsTip(b)'
  BY DEF IsTip, Row

(* An INSERT of a good block keeps every row good. *)
LEMMA InsertStore ==
    ASSUME NEW b, StoreInv, GoodBlock(b), KeyFree(table, b),
           table' = Insert(table, b)
    PROVE  StoreInv'
  <1> DEFINE n == b.blk_num
  <1>1. /\ DOMAIN table' = DOMAIN table \cup {n}
        /\ table'[n] = BlockRow(b)
        /\ \A id \in DOMAIN table : table'[id] = table[id]
    BY InsertFacts
  <1>2. Row(n)' = b /\ table'[n].HASH = BlockDigest(b)
    BY <1>1 DEF Row, BlockRow, ToJson, FromJson
  <1>3. \A id \in DOMAIN table : Row(id)' = Row(id)
    BY <1>1 DEF Row
  <1> HIDE DEF n
  <1> QED BY <1>1, <1>2, <1>3 DEF StoreInv, n, Row

(***************************************************************************)
(* In a table of consecutive numbers, the row plugin_startup asks for is   *)
(* there exactly when the table is not empty, and it is the tip.           *)
(***************************************************************************)
LEMMA CountFacts ==
    ASSUME Consecutive
    PROVE  /\ GetBlockCount(table) \in Nat
           /\ DOMAIN table = 0 .. GetBlockCount(table) - 1
  <1>1. PICK n \in Nat : DOMAIN table = 0 .. n - 1
    BY DEF Consecutive
  <1>2. Cardinality(0 .. n - 1) = n
    BY FS_Interval
  <1> QED BY <1>1, <1>2 DEF GetBlockCount

(* What plugin_startup reads at count - 1 in a table of consecutive numbers. *)
LEMMA StartupFindsTip ==
    ASSUME Consecutive, StoreInv, GetBlockCount(table) > 0
    PROVE  \E blk : /\ GetBlock(table, GetBlockCount(table) - 1) = {blk}
                    /\ IsTip(blk)
                    /\ GoodBlock(blk)
  <1> DEFINE n   == GetBlockCount(table) - 1
             blk == Row(n)
  <1>1. n \in DOMAIN table /\ DOMAIN table = 0 .. n
    BY CountFacts
  <1>2. blk.blk_num = n /\ GoodBlock(blk)
    BY <1>1 DEF StoreInv
  <1>3. GetBlock(table, n) = {blk}
    BY <1>1 DEF GetBlock, Row
  <1>4. IsTip(blk)
    BY <1>1, <1>2 DEF IsTip
  <1> QED BY <1>2, <1>3, <1>4

(* The number after the tip is free, and it is the next number. *)
LEMMA NextNumFree ==
    ASSUME NEW b, IsTip(b), StoreInv, Consecutive
    PROVE  /\ NextNum(b) \in Nat
           /\ DOMAIN table = 0 .. NextNum(b) - 1
           /\ NextNum(b) \notin DOMAIN table
  <1>1. CASE DOMAIN table = {} /\ b = BlankBlock
    <2>1. NextNum(b) = 0
      BY <1>1, BlankInvalid DEF NextNum
    <2> QED BY <1>1, <2>1
  <1>2. CASE b.blk_num \in DOMAIN table /\ DOMAIN table = 0 .. b.blk_num /\ b = Row(b.blk_num)
    <2>1. BlockValid(b)
      BY <1>2 DEF StoreInv, GoodBlock
    <2>2. NextNum(b) = b.blk_num + 1
      BY <2>1 DEF NextNum
    <2>3. b.blk_num \in Nat
      BY <1>2 DEF Consecutive
    <2> QED BY <1>2, <2>2, <2>3
  <1> QED BY <1>1, <1>2 DEF IsTip

(* Storing the block that follows the tip extends the intact chain by one. *)
LEMMA InsertLinked ==
    ASSUME NEW last, NEW b, Consecutive, ChainIntact, StoreInv, IsTip(last),
           GoodBlock(b), b.blk_num = NextNum(last),
           b.prior_hash = PriorHash(last), table' = Insert(table, b)
    PROVE  Consecutive' /\ ChainIntact' /\ IsTip(b)'
  <1> DEFINE n == b.blk_num
  <1>1. /\ n \in Nat
        /\ DOMAIN table = 0 .. n - 1
        /\ n \notin DOMAIN table
    BY NextNumFree
  <1>2. /\ DOMAIN table' = DOMAIN table \cup {n}
        /\ table'[n] = BlockRow(b)
        /\ \A id \in DOMAIN table : table'[id] = table[id]
    <2>1. KeyFree(table, b)
      BY <1>1 DEF KeyFree
    <2> QED BY <2>1, InsertFacts
  <1>3. DOMAIN table' = 0 .. n
    BY <1>1, <1>2
  <1>4. Row(n)' = b
    BY <1>2 DEF Row, BlockRow, ToJson, FromJson
  <1>5. \A id \in DOMAIN table : Row(id)' = Row(id)
    BY <1>2 DEF Row
  <1>6. Consecutive'
    <2>1. n + 1 \in Nat /\ DOMAIN table' = 0 .. (n + 1) - 1
      BY <1>1, <1>3
    <2> QED BY <2>1 DEF Consecutive
  <1>7. IsTip(b)'
    <2>1. b.blk_num \in DOMAIN table'
      BY <1>2
    <2>2. DOMAIN table' = 0 .. b.blk_num /\ b = Row(b.blk_num)'
      BY <1>3, <1>4
    <2> QED BY <2>1, <2>2 DEF IsTip
  <1>8. LinkIntact(n)'
    <2>1. CASE n = 0
      <3>1. b.prior_hash = ZeroHash /\ BlockValid(b)
        BY <2>1 DEF GoodBlock
      <3> QED BY <2>1, <3>1, <1>4 DEF LinkIntact
    <2>2. CASE n # 0
      <3>1. n - 1 \in DOMAIN table
        BY <1>1, <2>2
      <3>2. last.blk_num = n - 1 /\ last = Row(n - 1)
        BY <1>1, <3>1 DEF IsTip
      <3>3. BlockValid(last)
        BY <3>1, <3>2 DEF StoreInv, GoodBlock
      <3>4. CheckBlock(b, last)
        BY <3>3 DEF CheckBlock, PriorHash, GoodBlock
      <3>5. n - 1 \in DOMAIN table' /\ Row(n - 1)' = last
        BY <1>2, <1>5, <3>1, <3>2
      <3> HIDE DEF n
      <3> QED BY <2>2, <3>4, <3>5, <1>4 DEF LinkIntact
    <2> QED BY <2>1, <2>2
  <1>9. ASSUME NEW id \in DOMAIN table
        PROVE  LinkIntact(id)'
    <2>1. LinkIntact(id)
      BY DEF ChainIntact
    <2>2. id \in Nat /\ Row(id)' = Row(id)
      BY <1>1, <1>5
    <2>3. CASE id = 0
      BY <2>1, <2>2, <2>3 DEF LinkIntact
    <2>4. CASE id # 0
      <3>1. id - 1 \in DOMAIN table /\ CheckBlock(Row(id), Row(id - 1))
        BY <2>1, <2>4 DEF LinkIntact
      <3>2. id - 1 \in DOMAIN table' /\ Row(id - 1)' = Row(id - 1)
        BY <3>1, <1>2, <1>5
      <3> QED BY <2>2, <2>4, <3>1, <3>2 DEF LinkIntact
    <2> QED BY <2>3, <2>4
  <1> HIDE DEF n
  <1> QED BY <1>2, <1>6, <1>7, <1>8, <1>9 DEF ChainIntact
-----------------------------------------------------------------------------
(***************************************************************************)
(* The invariant is inductive.                                             *)
(***************************************************************************)

(* A restart establishes the invariant when the cached block is right. *)
LEMMA BootInv ==
    ASSUME IInv, TypeOK', NEW blk, NEW next \in {"idle", "aborted", "down"},
           Boot(blk, next),
           blk \in {BlankBlock, GarbageBlock} \/ GoodBlock(blk),
           sqlErrors' = 0 => /\ sqlErrors = 0
                             /\ next = "idle"
                             /\ IsTip(blk)
                             /\ blk.sig # GarbageSig
    PROVE  IInv'
  <1>1. StoreInv' /\ BufferInv'
    BY SameStore DEF Boot, IInv, BufferInv
  <1>2. ASSUME sqlErrors' = 0
        PROVE  FaultFreeInv'
    <2>1. FaultFreeInv /\ IsTip(blk)'
      BY <1>2, SameTip DEF Boot, IInv
    <2> QED BY <1>2, <2>1, SameStore DEF Boot, FaultFreeInv
  <1> QED BY <1>1, <1>2 DEF IInv

(* Stopping the process leaves nothing in memory and the table as it was. *)
LEMMA HaltInv ==
    ASSUME IInv, TypeOK', Halt
    PROVE  IInv'
  <1>1. BlankBlock.sig # GarbageSig
    <2>1. DOMAIN BlankSig = {"blank"} /\ DOMAIN GarbageSig = {"garbage"}
      BY DEF BlankSig, GarbageSig
    <2> QED BY <2>1 DEF BlankBlock
  <1>2. StoreInv' /\ BufferInv'
    BY SameStore DEF Halt, IInv, BufferInv
  <1>3. ASSUME sqlErrors' = 0
        PROVE  FaultFreeInv'
    BY <1>1, <1>3, SameStore DEF Halt, IInv, FaultFreeInv
  <1> QED BY <1>2, <1>3 DEF IInv

(* What no block in memory nor the table changes, the invariant survives. *)
LEMMA SameBlocks ==
    ASSUME IInv, TypeOK', UNCHANGED <<table, last_block, last_blk, pc>>,
           sqlErrors' = 0 => sqlErrors = 0
    PROVE  IInv'
  <1>1. StoreInv' /\ BufferInv'
    BY SameStore DEF IInv, BufferInv
  <1>2. ASSUME sqlErrors' = 0
        PROVE  FaultFreeInv'
    <2>1. FaultFreeInv
      BY <1>2 DEF IInv
    <2>2. IsTip(last_block) => IsTip(last_block)'
      BY DEF IsTip, Row
    <2>3. IsTip(last_blk) => IsTip(last_blk)'
      BY DEF IsTip, Row
    <2> QED BY <2>1, <2>2, <2>3, SameStore DEF FaultFreeInv
  <1> QED BY <1>1, <1>2 DEF IInv

(* The counter of SQL failures never returns to zero. *)
LEMMA SqlFailsPositive ==
    ASSUME TypeOK, SqlFails
    PROVE  sqlErrors' # 0
  <1>1. sqlErrors \in 0 .. MaxSqlErrors
    BY DEF TypeOK
  <1>2. sqlErrors \in Nat
    BY <1>1
  <1> QED BY <1>2 DEF SqlFails

(* The invariant holds of a node that has never run. *)
LEMMA InitInv == Init => IInv
  <1> SUFFICES ASSUME Init
               PROVE  IInv
    OBVIOUS
  <1>1. TypeOK
    BY InitType
  <1>2. DOMAIN table = {}
    BY DEF Init, EmptyTable
  <1>3. StoreInv /\ ChainIntact
    BY <1>2 DEF StoreInv, ChainIntact
  <1>4. BufferInv
    BY DEF Init, BufferInv
  <1>5. Consecutive
    <2>1. 0 .. 0 - 1 = {}
      OBVIOUS
    <2> QED BY <1>2, <2>1 DEF Consecutive
  <1>6. last_block.sig # GarbageSig
    <2>1. DOMAIN BlankSig = {"blank"} /\ DOMAIN GarbageSig = {"garbage"}
      BY DEF BlankSig, GarbageSig
    <2> QED BY <2>1 DEF Init, BlankBlock
  <1>7. FaultFreeInv
    BY <1>3, <1>5, <1>6 DEF Init, FaultFreeInv
  <1> QED BY <1>1, <1>3, <1>4, <1>7 DEF IInv

(* Every step preserves the invariant: one case per action of the node. *)
LEMMA NextInv == IInv /\ [Next]_vars => IInv'
  <1> SUFFICES ASSUME IInv, [Next]_vars
               PROVE  IInv'
    OBVIOUS
  <1>t. TypeOK /\ TypeOK'
    BY NextType DEF IInv
  <1>b. BlankBlock.sig # GarbageSig
    <2>1. DOMAIN BlankSig = {"blank"} /\ DOMAIN GarbageSig = {"garbage"}
      BY DEF BlankSig, GarbageSig
    <2> QED BY <2>1 DEF BlankBlock
  <1>1. CASE StartupEmpty
    <2>1. ASSUME sqlErrors' = 0
          PROVE  sqlErrors = 0 /\ IsTip(BlankBlock)
      <3>1. sqlErrors = 0 /\ Consecutive
        BY <1>1, <2>1 DEF StartupEmpty, IInv, FaultFreeInv
      <3>2. DOMAIN table = 0 .. 0 - 1
        BY <1>1, <3>1, CountFacts DEF StartupEmpty
      <3> QED BY <3>1, <3>2 DEF IsTip
    <2> QED BY <1>1, <1>t, <1>b, <2>1, BootInv DEF StartupEmpty
  <1>2. CASE StartupLoad
    <2>1. PICK blk \in LastRow : Boot(blk, "idle")
      BY <1>2 DEF StartupLoad
    <2>2. GoodBlock(blk)
      BY GetBlockFacts DEF LastRow, IInv, StoreInv
    <2>3. ASSUME sqlErrors' = 0
          PROVE  sqlErrors = 0 /\ IsTip(blk)
      <3>1. sqlErrors = 0 /\ Consecutive /\ StoreInv
        BY <1>2, <2>3 DEF StartupLoad, IInv, FaultFreeInv
      <3> QED BY <1>2, <3>1, StartupFindsTip DEF StartupLoad, LastRow
    <2> QED BY <1>t, <2>1, <2>2, <2>3, BootInv DEF GoodBlock
  <1>3. CASE StartupNoRow
    <2>1. sqlErrors' # 0
      <3> SUFFICES ASSUME sqlErrors' = 0
                   PROVE  FALSE
        OBVIOUS
      <3>1. Consecutive /\ StoreInv
        BY <1>3 DEF StartupNoRow, IInv, FaultFreeInv
      <3> QED BY <1>3, <3>1, StartupFindsTip DEF StartupNoRow, LastRow
    <2> QED BY <1>3, <1>t, <2>1, BootInv DEF StartupNoRow, BootUndefined
  <1>4. CASE StartupCountFails
    BY <1>4, <1>t, SqlFailsPositive, BootInv DEF StartupCountFails
  <1>5. CASE StartupRowFails
    BY <1>5, <1>t, SqlFailsPositive, BootInv DEF StartupRowFails, BootUndefined
  <1>5a. CASE StartupThrows
    BY <1>5a, <1>t, SqlFailsPositive, BootInv DEF StartupThrows
  <1>6. ASSUME NEW trx \in TrxParams, PushAccept(trx)
        PROVE  IInv'
    BY <1>6, <1>t, SameBlocks DEF PushAccept
  <1>7. ASSUME NEW trx \in TrxParams, PushReject(trx)
        PROVE  IInv'
    BY <1>7, <1>t, SameBlocks DEF PushReject
  <1>8. ASSUME NEW now \in Times, PublishBuild(now)
        PROVE  IInv'
    <2>1. /\ last_blk' = BuildBlock(last_block, trx_pool, now)
          /\ UNCHANGED <<table, last_block, sqlErrors>>
          /\ pc = "idle" /\ pc' = "append"
          /\ last_block.sig # GarbageSig
      BY <1>8 DEF PublishBuild
    <2>2. last_block.blk_num \in Nat
      BY <1>t DEF TypeOK, IsBlock
    <2>3. last_block = BlankBlock \/ GoodBlock(last_block)
      BY <2>1 DEF IInv, BufferInv, GarbageBlock, BlankBlock
    <2>4. GoodBlock(last_blk')
      BY <2>1, <2>2, <2>3, BuildGood
    <2>5. /\ last_blk'.blk_num = NextNum(last_block)
          /\ last_blk'.prior_hash = PriorHash(last_block)
      BY <2>1, BuildBlockFacts
    <2>6. StoreInv' /\ BufferInv'
      BY <2>1, <2>3, <2>4, SameStore DEF IInv, BufferInv
    <2>7. ASSUME sqlErrors' = 0
          PROVE  FaultFreeInv'
      <3>1. FaultFreeInv
        BY <2>1, <2>7 DEF IInv
      <3>2. IsTip(last_block)'
        BY <2>1, <3>1 DEF FaultFreeInv, IsTip, Row
      <3> QED BY <2>1, <2>5, <3>1, <3>2, SameStore DEF FaultFreeInv
    <2> QED BY <1>t, <2>6, <2>7 DEF IInv
  <1>9. CASE PublishThrows
    BY <1>9, <1>t, SameBlocks DEF PublishThrows
  <1>10. CASE AppendStored
    <2>1. /\ pc = "append" /\ pc' = "cache"
          /\ KeyFree(table, last_blk)
          /\ table' = Insert(table, last_blk)
          /\ UNCHANGED <<last_block, last_blk, sqlErrors>>
      BY <1>10 DEF AppendStored
    <2>2. GoodBlock(last_blk) /\ StoreInv
      BY <2>1 DEF IInv, BufferInv
    <2>3. StoreInv'
      BY <2>1, <2>2, InsertStore
    <2>4. BufferInv'
      BY <2>1, <2>2 DEF IInv, BufferInv
    <2>5. ASSUME sqlErrors' = 0
          PROVE  FaultFreeInv'
      <3>1. FaultFreeInv
        BY <2>1, <2>5 DEF IInv
      <3>2. /\ Consecutive /\ ChainIntact /\ IsTip(last_block)
            /\ last_blk.blk_num = NextNum(last_block)
            /\ last_blk.prior_hash = PriorHash(last_block)
            /\ last_block.sig # GarbageSig
        BY <2>1, <3>1 DEF FaultFreeInv
      <3>3. PICK b : b = last_blk
        OBVIOUS
      <3>4. Consecutive' /\ ChainIntact' /\ IsTip(b)'
        BY <2>1, <2>2, <3>2, <3>3, InsertLinked
      <3>5. IsTip(last_blk)'
        BY <2>1, <3>3, <3>4 DEF IsTip, Row
      <3> QED BY <2>1, <3>2, <3>4, <3>5 DEF FaultFreeInv
    <2> QED BY <1>t, <2>3, <2>4, <2>5 DEF IInv
  <1>11. CASE AppendKeyTaken
    <2>1. sqlErrors' # 0
      <3> SUFFICES ASSUME sqlErrors' = 0
                   PROVE  FALSE
        OBVIOUS
      <3>1. FaultFreeInv /\ StoreInv /\ pc = "append"
        BY <1>11 DEF AppendKeyTaken, IInv
      <3>2. last_blk.blk_num \notin DOMAIN table
        BY <3>1, NextNumFree DEF FaultFreeInv
      <3> QED BY <1>11, <3>2 DEF AppendKeyTaken, KeyFree
    <2> QED BY <1>11, <1>t, <2>1, SameStore DEF AppendKeyTaken, IInv, BufferInv
  <1>12. CASE AppendFails
    BY <1>12, <1>t, SqlFailsPositive, SameStore DEF AppendFails, IInv, BufferInv
  <1>13. CASE AppendThrows
    BY <1>13, <1>t, SqlFailsPositive, SameStore DEF AppendThrows, IInv, BufferInv
  <1>14. CASE PublishDone
    <2>1. /\ pc = "cache" /\ pc' = "idle"
          /\ last_block' = last_blk
          /\ UNCHANGED <<table, sqlErrors>>
      BY <1>14 DEF PublishDone
    <2>2. GoodBlock(last_blk)
      BY <2>1 DEF IInv, BufferInv
    <2>3. StoreInv' /\ BufferInv'
      BY <2>1, <2>2, SameStore DEF IInv, BufferInv
    <2>4. ASSUME sqlErrors' = 0
          PROVE  FaultFreeInv'
      <3>1. FaultFreeInv
        BY <2>1, <2>4 DEF IInv
      <3>2. IsTip(last_block)'
        BY <2>1, <3>1 DEF FaultFreeInv, IsTip, Row
      <3> QED BY <2>1, <2>2, <3>1, <3>2, SameStore DEF FaultFreeInv, GoodBlock
    <2> QED BY <1>t, <2>3, <2>4 DEF IInv
  <1>15. CASE Shutdown
    BY <1>15, <1>t, HaltInv DEF Shutdown
  <1>16. CASE Crash
    BY <1>16, <1>t, HaltInv DEF Crash
  <1>17. CASE UNCHANGED vars
    BY <1>17, <1>t, SameBlocks DEF vars
  <1> QED
    BY <1>1, <1>2, <1>3, <1>4, <1>5, <1>5a, <1>6, <1>7, <1>8, <1>9, <1>10, <1>11,
       <1>12, <1>13, <1>14, <1>15, <1>16, <1>17 DEF Next

(* The invariant holds in every state a node can reach. *)
THEOREM InductiveInvariant == Spec => []IInv
  BY InitInv, NextInv, PTL DEF Spec

-----------------------------------------------------------------------------
(***************************************************************************)
(* What the invariant implies.                                             *)
(***************************************************************************)

(***************************************************************************)
(* publish_blk, with crashes anywhere and restarts, writes one intact      *)
(* chain as long as no SQL statement fails: block n is linked to block     *)
(* n-1 for every n, however long the chain.                                *)
(***************************************************************************)
THEOREM ChainAlwaysLinked == Spec => []ChainLinked
  <1>1. IInv => ChainLinked
    BY DEF IInv, FaultFreeInv, ChainLinked
  <1> QED BY <1>1, InductiveInvariant, PTL

(* Between handlers the invariant determines the cache. *)
LEMMA InvCache == IInv => CacheMatchesStore
  <1> SUFFICES ASSUME IInv, sqlErrors = 0, pc = "idle"
               PROVE  IF DOMAIN table = {}
                      THEN last_block = BlankBlock
                      ELSE /\ GetBlock(table, last_block.blk_num) = {last_block}
                           /\ \A id \in DOMAIN table : id <= last_block.blk_num
    BY DEF CacheMatchesStore
  <1>1. IsTip(last_block)
    BY DEF IInv, FaultFreeInv
  <1>2. CASE DOMAIN table = {}
    BY <1>1, <1>2 DEF IsTip
  <1>3. CASE DOMAIN table # {}
    <2>1. /\ last_block.blk_num \in DOMAIN table
          /\ DOMAIN table = 0 .. last_block.blk_num
          /\ last_block = Row(last_block.blk_num)
      BY <1>1, <1>3 DEF IsTip
    <2>2. GetBlock(table, last_block.blk_num) = {last_block}
      BY <2>1 DEF GetBlock, Row
    <2>3. \A id \in DOMAIN table : id <= last_block.blk_num
      BY <2>1
    <2> QED BY <1>3, <2>2, <2>3
  <1> QED BY <1>2, <1>3

(***************************************************************************)
(* Between handlers Buffer::last_block is the last row of the table.       *)
(***************************************************************************)
THEOREM CacheAlwaysMatches == Spec => []CacheMatchesStore
  BY InvCache, InductiveInvariant, PTL

(***************************************************************************)
(* The unchecked dereference in plugin_startup never meets an empty        *)
(* optional before an SQL statement has failed.                            *)
(***************************************************************************)
THEOREM StartupAlwaysDefined == Spec => []StartupDefined
  <1>1. IInv => StartupDefined
    BY DEF IInv, FaultFreeInv, StartupDefined
  <1> QED BY <1>1, InductiveInvariant, PTL

(***************************************************************************)
(* Every row is a block the node signed, under its own number and hash,    *)
(* whatever SQL statements failed.                                         *)
(***************************************************************************)
THEOREM RowsAlwaysSound == Spec => []RowsSound
  <1>1. IInv => RowsSound
    BY DEF IInv, StoreInv, GoodBlock, RowsSound
  <1> QED BY <1>1, InductiveInvariant, PTL

(***************************************************************************)
(* No step changes or removes a row.                                       *)
(***************************************************************************)
THEOREM AlwaysAppendOnly == Spec => AppendOnly
  <1>1. [Next]_vars => [\A id \in DOMAIN table :
                           id \in DOMAIN table' /\ table'[id] = table[id]]_vars
    <2> SUFFICES ASSUME [Next]_vars
                 PROVE  \A id \in DOMAIN table :
                            id \in DOMAIN table' /\ table'[id] = table[id]
      OBVIOUS
    <2>1. CASE AppendStored
      BY <2>1, InsertFacts DEF AppendStored
    <2>2. CASE ~ AppendStored
      <3>1. UNCHANGED table
        BY <2>2 DEF Next, vars, StartupEmpty, StartupLoad, StartupNoRow,
           StartupCountFails, StartupRowFails, StartupThrows, BootUndefined, Boot, PushAccept,
           PushReject, PublishBuild, PublishThrows, AppendKeyTaken, AppendFails,
           AppendThrows, PublishDone, Shutdown, Crash, Halt
      <3> QED BY <3>1
    <2> QED BY <2>1, <2>2
  <1> QED BY <1>1, PTL DEF Spec, AppendOnly

-----------------------------------------------------------------------------
(***************************************************************************)
(* What the read handlers say of the table.                                *)
(***************************************************************************)

(***************************************************************************)
(* check_chain answers 0 exactly for an intact chain.  A block names, in   *)
(* its prior_hash, the number before its own, so that a block that passes  *)
(* the check against the row before it leaves no gap between the two.      *)
(***************************************************************************)
LEMMA CheckIsExact == IInv => CheckChainExact
  <1> SUFFICES ASSUME IInv PROVE CheckChainExact
    OBVIOUS
  <1> DEFINE D      == DOMAIN table
             N      == GetBlockCount(table)
             blocks == GetAllBlocks(table)
  <1>1. IsTable(table) /\ D \in SUBSET Nat /\ IsFiniteSet(D) /\ N = Cardinality(D)
    BY DEF IInv, TypeOK, TableOK, IsTable, GetBlockCount
  <1>2. /\ N \in Nat /\ DOMAIN blocks = 1 .. N
        /\ \A i \in 1 .. N : Nth(D, i) \in D /\ blocks[i] = Row(Nth(D, i))
        /\ \A id \in D : \E i \in 1 .. N : Nth(D, i) = id
    BY <1>1, AllBlocksFacts DEF Row
  <1>3. \A id \in D : Row(id).blk_num = id /\ GoodBlock(Row(id)) /\ id \in Nat
    BY <1>1 DEF IInv, StoreInv
  <1> HIDE DEF D, N, blocks
  <1>4. ASSUME ChainIntact, NEW i \in 1 .. N PROVE ~ FailsAt(blocks, i)
    <2> SUFFICES ASSUME blocks[i].blk_num # 0
                 PROVE  CheckBlock(blocks[i], checkBlk(blocks, i))
      BY DEF FailsAt
    <2>1. PICK id \in D : id = Nth(D, i)
      BY <1>2
    <2>2. blocks[i] = Row(id) /\ id # 0
      BY <1>2, <1>3, <2>1
    <2>3. id - 1 \in D /\ CheckBlock(Row(id), Row(id - 1))
      BY <1>4, <2>2 DEF ChainIntact, LinkIntact, D
    <2>4. i > 1 /\ Nth(D, i - 1) = id - 1
      BY <1>1, <2>1, <2>3, NthAfter DEF N
    <2>5. i - 1 \in 1 .. N /\ i # 1
      BY <1>2, <2>4
    <2>6. checkBlk(blocks, i) = Row(id - 1)
      BY <1>2, <2>4, <2>5 DEF checkBlk
    <2> QED BY <2>2, <2>3, <2>6
  <1>5. ASSUME \A i \in 1 .. N : ~ FailsAt(blocks, i), NEW id \in D PROVE LinkIntact(id)
    <2>1. PICK i \in 1 .. N : Nth(D, i) = id
      BY <1>2
    <2>2. blocks[i] = Row(id) /\ Row(id).blk_num = id /\ GoodBlock(Row(id)) /\ id \in Nat
      BY <1>2, <1>3, <2>1
    <2>3. CASE id = 0
      BY <2>2, <2>3 DEF LinkIntact, GoodBlock
    <2>4. CASE id # 0
      <3>1. CheckBlock(Row(id), checkBlk(blocks, i))
        BY <1>5, <2>2, <2>4 DEF FailsAt
      <3>2. i # 1
        BY <3>1, BlankInvalid DEF checkBlk, CheckBlock
      <3>3. i - 1 \in 1 .. N
        BY <1>2, <3>2
      <3>4. PICK p \in D : p = Nth(D, i - 1) /\ blocks[i - 1] = Row(p)
        BY <1>2, <3>3
      <3>5. CheckBlock(Row(id), Row(p))
        BY <3>1, <3>2, <3>4 DEF checkBlk
      <3>6. BlockDigest(Row(p)) = Row(id).prior_hash
        BY <3>5 DEF CheckBlock
      <3>7. BlockDigest(Row(p)).sha256.blk_num = p
        BY <1>3 DEF BlockDigest, Sha256
      <3>8. Row(id).prior_hash.sha256.blk_num = id - 1
        BY <2>2, <2>4 DEF GoodBlock
      <3>9. p = id - 1
        BY <3>6, <3>7, <3>8
      <3> QED BY <2>4, <3>5, <3>9 DEF LinkIntact, D
    <2> QED BY <2>3, <2>4
  <1>6. ChainIntact <=> \A i \in 1 .. N : ~ FailsAt(blocks, i)
    BY <1>4, <1>5 DEF ChainIntact, D
  <1>7. check_chain(table).result = 0 <=> \A i \in DOMAIN blocks : ~ FailsAt(blocks, i)
    BY CheckResult DEF blocks
  <1> QED BY <1>2, <1>6, <1>7 DEF CheckChainExact

(***************************************************************************)
(* check_chain tells an intact table from every other table that a node    *)
(* can produce, lost appends and colliding numbers included.               *)
(***************************************************************************)
THEOREM CheckChainAlwaysExact == Spec => []CheckChainExact
  BY CheckIsExact, InductiveInvariant, PTL

(* In a table of consecutive numbers, number n is the block at place n + 1. *)
LEMMA ConsecutiveNth ==
    ASSUME IInv, Consecutive, NEW n \in DOMAIN table
    PROVE  /\ n \in Nat
           /\ Nth(DOMAIN table, n + 1) = n
  <1> DEFINE D == DOMAIN table
  <1>1. D \in SUBSET Nat /\ IsFiniteSet(D)
    BY DEF IInv, TypeOK, TableOK
  <1>2. PICK N \in Nat : D = 0 .. N - 1
    BY DEF Consecutive
  <1>3. Smaller(D, n) = 0 .. n - 1
    BY <1>2 DEF Smaller
  <1>4. Cardinality(Smaller(D, n)) = n
    BY <1>1, <1>3, FS_Interval
  <1> HIDE DEF D
  <1>5. n \in D
    BY DEF D
  <1> QED BY <1>1, <1>4, <1>5, NthOfRank DEF D

(* get_blocks, asked for a number that is not stored and one that is. *)
LEMMA SkipsUnknown ==
    ASSUME NEW m, NEW n, NEW blk, GetBlock(table, m) = {}, GetBlock(table, n) = {blk}
    PROVE  get_blocks(table, <<m, n>>) = <<blk>>
  <1> DEFINE nums  == <<m, n>>
             found == {k \in DOMAIN nums : GetBlock(table, nums[k]) # {}}
  <1>1. found = {2} /\ nums # <<>> /\ nums[2] = n
    OBVIOUS
  <1>2. found \in SUBSET Nat /\ IsFiniteSet(found) /\ Cardinality(found) = 1
    <2>1. \A x : IsFiniteSet({x}) /\ Cardinality({x}) = 1
      BY FS_Singleton
    <2>2. IsFiniteSet({2}) /\ Cardinality({2}) = 1
      BY <2>1, Zenon
    <2> HIDE DEF found
    <2> QED BY <1>1, <2>2
  <1> HIDE DEF found
  <1>3. Nth(found, 1) = 2
    <2>1. 1 \in 1 .. Cardinality(found)
      BY <1>2
    <2>2. Nth(found, 1) \in found
      BY <1>2, <2>1, NthFacts
    <2> QED BY <1>1, <2>2
  <1>4. (CHOOSE b \in {blk} : TRUE) = blk
    OBVIOUS
  <1>5. get_blocks(table, nums) =
            [i \in 1 .. Cardinality(found) |->
                CHOOSE b \in GetBlock(table, nums[Nth(found, i)]) : TRUE]
    BY <1>1 DEF get_blocks, found
  <1> HIDE DEF nums
  <1>6. get_blocks(table, nums) = [i \in 1 .. 1 |-> blk]
    <2>1. \A i \in 1 .. 1 : i = 1
      OBVIOUS
    <2> QED BY <1>1, <1>2, <1>3, <1>4, <1>5, <2>1
  <1>7. [i \in 1 .. 1 |-> blk] = <<blk>>
    OBVIOUS
  <1> QED BY <1>6, <1>7 DEF nums

(* With consecutive numbers, number n is the block at place n + 1. *)
LEMMA InvServed == IInv => NumbersServed
  <1> DEFINE N   == GetBlockCount(table)
             all == GetAllBlocks(table)
  <1> SUFFICES ASSUME IInv, sqlErrors = 0, NEW n \in 0 .. N - 1
               PROVE  /\ get_block(table, n) = {all[n + 1]}
                      /\ get_blocks(table, <<N, n>>) = <<all[n + 1]>>
    <2>1. get_info(table, trx_pool).block_num = N
      BY DEF get_info
    <2>2. get_blocks(table, <<>>) = all
      BY DEF get_blocks
    <2> QED BY <2>1, <2>2 DEF NumbersServed
  <1>1. Consecutive /\ IsTable(table)
    BY DEF IInv, FaultFreeInv, TypeOK, TableOK, IsTable
  <1>2. N \in Nat /\ DOMAIN table = 0 .. N - 1
    BY <1>1, CountFacts
  <1>3. n \in DOMAIN table /\ n + 1 \in 1 .. N /\ N \notin DOMAIN table
    BY <1>2
  <1>4. Nth(DOMAIN table, n + 1) = n
    BY <1>1, <1>3, ConsecutiveNth
  <1>5. all[n + 1] = Row(n)
    BY <1>1, <1>3, <1>4, AllBlocksFacts DEF Row
  <1>6. GetBlock(table, n) = {Row(n)} /\ GetBlock(table, N) = {}
    BY <1>3 DEF GetBlock, Row
  <1>7. get_blocks(table, <<N, n>>) = <<Row(n)>>
    BY <1>6, SkipsUnknown
  <1> QED BY <1>5, <1>6, <1>7 DEF get_block

(***************************************************************************)
(* Until an SQL statement fails, get_info, get_block and get_blocks agree  *)
(* on which numbers there are and which block each one is.                 *)
(***************************************************************************)
THEOREM NumbersAlwaysServed == Spec => []NumbersServed
  BY InvServed, InductiveInvariant, PTL

-----------------------------------------------------------------------------
(***************************************************************************)
(* How often a transaction is in the table, in a block and in the pool.    *)
(***************************************************************************)

(* The places of a transaction in a sequence are finitely many. *)
LEMMA PlacesFacts ==
    ASSUME NEW s \in Seq(TrxParams), NEW trx
    PROVE  /\ Places(s, trx) \in SUBSET Nat
           /\ IsFiniteSet(Places(s, trx))
           /\ Cardinality(Places(s, trx)) \in Nat
  <1>1. Places(s, trx) \in SUBSET (1 .. Len(s)) /\ Len(s) \in Nat
    BY DEF Places
  <1>2. IsFiniteSet(1 .. Len(s))
    BY <1>1, FS_Interval
  <1>3. IsFiniteSet(Places(s, trx))
    BY <1>1, <1>2, FS_Subset
  <1> QED BY <1>1, <1>3, FS_CardinalityType

(* The empty sequence has none. *)
LEMMA NoPlaces ==
    ASSUME NEW trx
    PROVE  Cardinality(Places(<<>>, trx)) = 0
  <1>1. Places(<<>>, trx) = {}
    BY DEF Places
  <1> QED BY <1>1, FS_EmptySet

(* An Append adds a place to what it appends, and to nothing else. *)
LEMMA AppendPlaces ==
    ASSUME NEW s \in Seq(TrxParams), NEW x \in TrxParams, NEW trx
    PROVE  Cardinality(Places(Append(s, x), trx)) =
               Cardinality(Places(s, trx)) + IF x = trx THEN 1 ELSE 0
  <1>1. /\ IsFiniteSet(Places(s, trx)) /\ Cardinality(Places(s, trx)) \in Nat
        /\ Len(s) \in Nat
    BY PlacesFacts
  <1>2. Len(s) + 1 \notin Places(s, trx)
    BY DEF Places
  <1>3. Places(Append(s, x), trx) =
            IF x = trx THEN Places(s, trx) \cup {Len(s) + 1} ELSE Places(s, trx)
    BY DEF Places
  <1>4. CASE x = trx
    <2>1. Places(Append(s, x), trx) = Places(s, trx) \cup {Len(s) + 1}
      BY <1>3, <1>4
    <2>2. Cardinality(Places(s, trx) \cup {Len(s) + 1}) = Cardinality(Places(s, trx)) + 1
      BY <1>1, <1>2, FS_AddElement
    <2> QED BY <1>4, <2>1, <2>2
  <1>5. CASE x # trx
    BY <1>1, <1>3, <1>5
  <1> QED BY <1>4, <1>5

(* The rows in which a transaction is stored are finitely many. *)
StoredFinite == \A trx \in TrxParams : IsFiniteSet(StoredPlaces(trx))

OnceInv == StoredFinite /\ AtMostOnce

(* A row adds as many places as the transaction has in its block. *)
LEMMA InsertPlaces ==
    ASSUME IInv, NEW b, IsBlock(b), KeyFree(table, b), table' = Insert(table, b),
           NEW trx \in TrxParams, IsFiniteSet(StoredPlaces(trx))
    PROVE  /\ IsFiniteSet(StoredPlaces(trx))'
           /\ Cardinality(StoredPlaces(trx))' =
                  Cardinality(StoredPlaces(trx)) + Cardinality(Places(b.trxs, trx))
  <1> DEFINE n     == b.blk_num
             new   == {<<n, k>> : k \in Places(b.trxs, trx)}
             place == [k \in Places(b.trxs, trx) |-> <<n, k>>]
  <1>1. /\ DOMAIN table' = DOMAIN table \cup {n}
        /\ table'[n] = BlockRow(b)
        /\ \A id \in DOMAIN table : table'[id] = table[id]
    BY InsertFacts
  <1>2. Row(n)' = b /\ n \notin DOMAIN table
    BY <1>1 DEF Row, BlockRow, ToJson, FromJson, KeyFree
  <1>3. \A id \in DOMAIN table : Row(id)' = Row(id)
    BY <1>1 DEF Row
  <1>4. StoredPlaces(trx)' = StoredPlaces(trx) \cup new
    <2>1. StoredPlaces(trx)' =
              UNION {{<<id, k>> : k \in Places(Row(id)'.trxs, trx)} : id \in DOMAIN table'}
      BY DEF StoredPlaces, Places
    <2> QED BY <1>1, <1>2, <1>3, <2>1 DEF StoredPlaces
  <1>5. StoredPlaces(trx) \cap new = {}
    BY <1>2 DEF StoredPlaces
  <1>6. IsFiniteSet(Places(b.trxs, trx)) /\ Cardinality(Places(b.trxs, trx)) \in Nat
    BY PlacesFacts DEF IsBlock
  <1>7. place \in Bijection(Places(b.trxs, trx), new)
    BY DEF Bijection, Injection, Surjection, IsInjective
  <1>8. IsFiniteSet(new) /\ Cardinality(new) = Cardinality(Places(b.trxs, trx))
    BY <1>6, <1>7, FS_Bijection DEF ExistsBijection
  <1>9. Cardinality(StoredPlaces(trx)) \in Nat
    BY FS_CardinalityType
  <1>10. /\ IsFiniteSet(StoredPlaces(trx) \cup new)
         /\ Cardinality(StoredPlaces(trx) \cup new) =
                Cardinality(StoredPlaces(trx)) + Cardinality(new)
                    - Cardinality(StoredPlaces(trx) \cap new)
    BY <1>8, FS_Union
  <1>11. Cardinality(StoredPlaces(trx) \cap new) = 0
    BY <1>5, FS_EmptySet
  <1> HIDE DEF new
  <1>12. Cardinality(StoredPlaces(trx) \cup new) =
             Cardinality(StoredPlaces(trx)) + Cardinality(Places(b.trxs, trx))
    BY <1>6, <1>8, <1>9, <1>10, <1>11
  <1> QED BY <1>4, <1>10, <1>12

(* What is in flight is a sequence of requests. *)
LEMMA InFlightType ==
    ASSUME IInv
    PROVE  InFlight \in Seq(TrxParams)
  <1>1. last_blk.trxs \in Seq(TrxParams)
    BY DEF IInv, TypeOK, IsBlock
  <1>2. <<>> \in Seq(TrxParams)
    OBVIOUS
  <1> QED BY <1>1, <1>2 DEF InFlight

(* A step that stores and acknowledges nothing, and copies nothing. *)
LEMMA NoneGained ==
    ASSUME IInv, IInv', OnceInv, UNCHANGED <<table, accepted>>,
           \A trx \in TrxParams :
               Cardinality(Places(InFlight, trx))' + Cardinality(Places(trx_pool, trx))'
                   <= Cardinality(Places(InFlight, trx)) + Cardinality(Places(trx_pool, trx))
    PROVE  OnceInv'
  <1> SUFFICES ASSUME NEW trx \in TrxParams
               PROVE  /\ IsFiniteSet(StoredPlaces(trx))'
                      /\ (Cardinality(StoredPlaces(trx)) + Cardinality(Places(InFlight, trx))
                             + Cardinality(Places(trx_pool, trx))
                                 <= Cardinality(Places(accepted, trx)))'
    BY DEF OnceInv, StoredFinite, AtMostOnce
  <1>1. StoredPlaces(trx)' = StoredPlaces(trx)
    BY DEF StoredPlaces, Row
  <1>2. Places(accepted, trx)' = Places(accepted, trx)
    BY DEF Places
  <1>3. IsFiniteSet(StoredPlaces(trx)) /\ Cardinality(StoredPlaces(trx)) \in Nat
    BY FS_CardinalityType DEF OnceInv, StoredFinite
  <1>4. /\ InFlight \in Seq(TrxParams) /\ trx_pool \in Seq(TrxParams)
        /\ accepted \in Seq(TrxParams)
    BY InFlightType DEF IInv, TypeOK
  <1>5. /\ InFlight' \in Seq(TrxParams) /\ trx_pool' \in Seq(TrxParams)
    <2>1. InFlight' \in Seq(TrxParams)
      <3>1. last_blk'.trxs \in Seq(TrxParams)
        BY DEF IInv, TypeOK, IsBlock
      <3>2. <<>> \in Seq(TrxParams)
        OBVIOUS
      <3> QED BY <3>1, <3>2 DEF InFlight
    <2> QED BY <2>1 DEF IInv, TypeOK
  <1>6. /\ Cardinality(Places(InFlight, trx)) \in Nat
        /\ Cardinality(Places(trx_pool, trx)) \in Nat
        /\ Cardinality(Places(accepted, trx)) \in Nat
    BY <1>4, PlacesFacts
  <1>7. /\ Cardinality(Places(InFlight, trx))' \in Nat
        /\ Cardinality(Places(trx_pool, trx))' \in Nat
    <2>1. \A q \in Seq(TrxParams) : Cardinality(Places(q, trx)) \in Nat
      BY PlacesFacts
    <2> QED BY <1>5, <2>1 DEF Places
  <1>8. Cardinality(StoredPlaces(trx)) + Cardinality(Places(InFlight, trx))
            + Cardinality(Places(trx_pool, trx)) <= Cardinality(Places(accepted, trx))
    BY DEF OnceInv, AtMostOnce
  <1> QED BY <1>1, <1>2, <1>3, <1>6, <1>7, <1>8

(* Every step keeps the count. *)
LEMMA NextOnce == IInv /\ IInv' /\ OnceInv /\ [Next]_vars => OnceInv'
  <1> SUFFICES ASSUME IInv, IInv', OnceInv, [Next]_vars
               PROVE  OnceInv'
    OBVIOUS
  <1> DEFINE C(q, trx) == Cardinality(Places(q, trx))
  <1>1. /\ trx_pool \in Seq(TrxParams) /\ accepted \in Seq(TrxParams)
        /\ InFlight \in Seq(TrxParams) /\ IsBlock(last_blk)
    BY InFlightType DEF IInv, TypeOK
  <1>2. \A trx \in TrxParams :
            C(InFlight, trx) \in Nat /\ C(trx_pool, trx) \in Nat /\ C(accepted, trx) \in Nat
    BY <1>1, PlacesFacts
  <1>3. ASSUME UNCHANGED <<table, accepted>>, trx_pool' = <<>>, InFlight' = <<>>
        PROVE  OnceInv'
    <2>1. \A trx \in TrxParams : C(<<>>, trx) = 0
      BY NoPlaces
    <2>2. ASSUME NEW trx \in TrxParams
          PROVE  C(InFlight, trx)' + C(trx_pool, trx)' <= C(InFlight, trx) + C(trx_pool, trx)
      <3>1. C(InFlight, trx)' = C(<<>>, trx) /\ C(trx_pool, trx)' = C(<<>>, trx)
        BY <1>3 DEF Places
      <3> QED BY <1>2, <2>1, <3>1
    <2> QED BY <1>3, <2>2, NoneGained
  <1>4. ASSUME UNCHANGED <<table, accepted, trx_pool>>, InFlight' \in {InFlight, <<>>}
        PROVE  OnceInv'
    <2>1. \A trx \in TrxParams : C(<<>>, trx) = 0
      BY NoPlaces
    <2>2. ASSUME NEW trx \in TrxParams
          PROVE  C(InFlight, trx)' + C(trx_pool, trx)' <= C(InFlight, trx) + C(trx_pool, trx)
      <3>1. C(trx_pool, trx)' = C(trx_pool, trx)
        BY <1>4 DEF Places
      <3>2. C(InFlight, trx)' \in {C(InFlight, trx), C(<<>>, trx)}
        BY <1>4 DEF Places
      <3> QED BY <1>2, <2>1, <3>1, <3>2
    <2> QED BY <1>4, <2>2, NoneGained
  <1>5. CASE \/ StartupEmpty \/ StartupLoad \/ StartupNoRow \/ StartupCountFails
             \/ StartupRowFails \/ StartupThrows \/ Shutdown \/ Crash
    BY <1>3, <1>5 DEF StartupEmpty, StartupLoad, StartupNoRow, StartupCountFails,
       StartupRowFails, StartupThrows, BootUndefined, Boot, Shutdown, Crash, Halt, InFlight
  <1>6. ASSUME NEW x \in TrxParams, PushAccept(x) PROVE OnceInv'
    <2>1. /\ trx_pool' = Append(trx_pool, x) /\ accepted' = Append(accepted, x)
          /\ InFlight' = InFlight /\ UNCHANGED table
      BY <1>6 DEF PushAccept, InFlight
    <2>2. ASSUME NEW trx \in TrxParams
          PROVE  /\ IsFiniteSet(StoredPlaces(trx))'
                 /\ (Cardinality(StoredPlaces(trx)) + C(InFlight, trx) + C(trx_pool, trx)
                        <= C(accepted, trx))'
      <3>1. StoredPlaces(trx)' = StoredPlaces(trx)
        BY <2>1 DEF StoredPlaces, Row
      <3>2. IsFiniteSet(StoredPlaces(trx)) /\ Cardinality(StoredPlaces(trx)) \in Nat
        BY FS_CardinalityType DEF OnceInv, StoredFinite
      <3>3. C(InFlight, trx)' = C(InFlight, trx)
        BY <2>1 DEF Places
      <3>4. /\ C(Append(trx_pool, x), trx) = C(trx_pool, trx) + IF x = trx THEN 1 ELSE 0
            /\ C(Append(accepted, x), trx) = C(accepted, trx) + IF x = trx THEN 1 ELSE 0
        BY <1>1, AppendPlaces
      <3>5. /\ C(trx_pool, trx)' = C(trx_pool, trx) + IF x = trx THEN 1 ELSE 0
            /\ C(accepted, trx)' = C(accepted, trx) + IF x = trx THEN 1 ELSE 0
        BY <2>1, <3>4 DEF Places
      <3>6. Cardinality(StoredPlaces(trx)) + C(InFlight, trx) + C(trx_pool, trx)
                <= C(accepted, trx)
        BY DEF OnceInv, AtMostOnce
      <3> QED BY <1>2, <3>1, <3>2, <3>3, <3>5, <3>6
    <2> QED BY <2>2 DEF OnceInv, StoredFinite, AtMostOnce
  <1>7. ASSUME NEW now \in Times, PublishBuild(now) PROVE OnceInv'
    <2>1. /\ InFlight = <<>> /\ InFlight' = trx_pool /\ trx_pool' = <<>>
          /\ UNCHANGED <<table, accepted>>
      BY <1>7, BuildBlockFacts DEF PublishBuild, InFlight
    <2>2. ASSUME NEW trx \in TrxParams
          PROVE  C(InFlight, trx)' + C(trx_pool, trx)' <= C(InFlight, trx) + C(trx_pool, trx)
      <3>1. C(<<>>, trx) = 0
        BY NoPlaces
      <3>2. C(InFlight, trx)' = C(trx_pool, trx) /\ C(trx_pool, trx)' = C(<<>>, trx)
            /\ C(InFlight, trx) = C(<<>>, trx)
        BY <2>1 DEF Places
      <3> QED BY <1>2, <3>1, <3>2
    <2> QED BY <2>1, <2>2, NoneGained
  <1>8. CASE AppendStored
    <2>1. /\ KeyFree(table, last_blk) /\ table' = Insert(table, last_blk)
          /\ InFlight = last_blk.trxs /\ InFlight' = <<>> /\ UNCHANGED <<accepted, trx_pool>>
      BY <1>8 DEF AppendStored, InFlight
    <2>2. ASSUME NEW trx \in TrxParams
          PROVE  /\ IsFiniteSet(StoredPlaces(trx))'
                 /\ (Cardinality(StoredPlaces(trx)) + C(InFlight, trx) + C(trx_pool, trx)
                        <= C(accepted, trx))'
      <3>1. IsFiniteSet(StoredPlaces(trx)) /\ Cardinality(StoredPlaces(trx)) \in Nat
        BY FS_CardinalityType DEF OnceInv, StoredFinite
      <3>2. /\ IsFiniteSet(StoredPlaces(trx))'
            /\ Cardinality(StoredPlaces(trx))' =
                   Cardinality(StoredPlaces(trx)) + C(last_blk.trxs, trx)
        BY <1>1, <2>1, <3>1, InsertPlaces
      <3>3. C(<<>>, trx) = 0
        BY NoPlaces
      <3>4. /\ C(InFlight, trx)' = C(<<>>, trx) /\ C(InFlight, trx) = C(last_blk.trxs, trx)
            /\ C(trx_pool, trx)' = C(trx_pool, trx) /\ C(accepted, trx)' = C(accepted, trx)
        BY <2>1 DEF Places
      <3>5. Cardinality(StoredPlaces(trx)) + C(InFlight, trx) + C(trx_pool, trx)
                <= C(accepted, trx)
        BY DEF OnceInv, AtMostOnce
      <3> QED BY <1>2, <3>1, <3>2, <3>3, <3>4, <3>5
    <2> QED BY <2>2 DEF OnceInv, StoredFinite, AtMostOnce
  <1>9. CASE AppendKeyTaken \/ AppendFails \/ AppendThrows
    BY <1>4, <1>9 DEF AppendKeyTaken, AppendFails, AppendThrows, InFlight
  <1>10. CASE PublishDone \/ PublishThrows \/ (\E trx \in TrxParams : PushReject(trx))
    BY <1>4, <1>10 DEF PublishDone, PublishThrows, PushReject, InFlight
  <1>11. CASE UNCHANGED vars
    BY <1>4, <1>11 DEF vars, InFlight
  <1> QED BY <1>5, <1>6, <1>7, <1>8, <1>9, <1>10, <1>11 DEF Next

(* At first there is nothing to count. *)
LEMMA InitOnce == Init => OnceInv
  <1> SUFFICES ASSUME Init, NEW trx \in TrxParams
               PROVE  /\ IsFiniteSet(StoredPlaces(trx))
                      /\ Cardinality(StoredPlaces(trx)) + Cardinality(Places(InFlight, trx))
                             + Cardinality(Places(trx_pool, trx))
                                 <= Cardinality(Places(accepted, trx))
    BY DEF OnceInv, StoredFinite, AtMostOnce
  <1>1. StoredPlaces(trx) = {}
    BY DEF Init, EmptyTable, StoredPlaces
  <1>2. IsFiniteSet(StoredPlaces(trx)) /\ Cardinality(StoredPlaces(trx)) = 0
    BY <1>1, FS_EmptySet
  <1>3. InFlight = <<>> /\ trx_pool = <<>> /\ accepted = <<>>
    BY DEF Init, InFlight
  <1> QED BY <1>2, <1>3, NoPlaces

(***************************************************************************)
(* A transaction is in the table, in the block being stored and in the     *)
(* pool at most as often as push_transaction acknowledged it, through all  *)
(* SQL failures, crashes and restarts.                                     *)
(***************************************************************************)
THEOREM NeverTwice == Spec => []AtMostOnce
  <1>1. OnceInv => AtMostOnce
    BY DEF OnceInv
  <1> QED BY <1>1, InitOnce, NextOnce, InductiveInvariant, PTL DEF Spec

-----------------------------------------------------------------------------
(***************************************************************************)
(* The refinement of Ledger, step by step.                                 *)
(*                                                                         *)
(* What the mapping needs beside the inductive invariant of the node: the  *)
(* pool holds something only between handlers (a stopped process has no    *)
(* pool, and build_block empties it before the block is stored), and the   *)
(* number of a block that is being stored is below its bound.              *)
(***************************************************************************)
PoolInv ==
    /\ pc # "idle" => trx_pool = <<>>
    /\ pc = "append" => last_blk.blk_num \in 0 .. MaxBlocks

RInv == IInv /\ PoolInv

-----------------------------------------------------------------------------
(* The empty sequence is neutral for concatenation. *)
LEMMA ConcatEmpty ==
    ASSUME NEW S, NEW s \in Seq(S)
    PROVE  <<>> \o s = s /\ s \o <<>> = s /\ <<>> \o <<>> = <<>>
OBVIOUS

(* Every step keeps the invariant. *)
LEMMA NextPool ==
    ASSUME RInv, [Next]_vars
    PROVE  PoolInv'
<1>1. ASSUME NEW now \in Times, PublishBuild(now) PROVE PoolInv'
  <2>1. last_blk' = BuildBlock(last_block, trx_pool, now) /\ NextNum(last_block) < MaxBlocks
    BY <1>1 DEF PublishBuild
  <2>2. last_blk'.blk_num = NextNum(last_block)
    BY <2>1, BuildBlockFacts
  <2>3. NextNum(last_block) \in Nat
    <3>1. last_block.blk_num \in Nat
      BY DEF RInv, IInv, TypeOK, IsBlock
    <3> QED BY <3>1 DEF NextNum
  <2> QED BY <1>1, <2>1, <2>2, <2>3, BoundsAssumption DEF PublishBuild, PoolInv
<1>2. CASE \E trx \in TrxParams : PushAccept(trx) \/ PushReject(trx)
  BY <1>2 DEF PushAccept, PushReject, RInv, PoolInv
<1>3. CASE UNCHANGED vars
  BY <1>3 DEF vars, RInv, PoolInv
<1> QED
  BY <1>1, <1>2, <1>3 DEF Next, StartupEmpty, StartupLoad, StartupNoRow, StartupCountFails,
     StartupRowFails, StartupThrows, BootUndefined, Boot, PublishThrows, AppendStored,
     AppendKeyTaken, AppendFails, AppendThrows, PublishDone, Shutdown, Crash, Halt, RInv, PoolInv

(* The invariant the refinement rests on. *)
LEMMA RefinementInvariant == Spec => []RInv
<1>1. Init => PoolInv
  BY DEF Init, PoolInv
<1> QED BY <1>1, InitInv, NextInv, NextPool, PTL DEF Spec, RInv

-----------------------------------------------------------------------------
(***************************************************************************)
(* The state of the ledger, by name.                                       *)
(***************************************************************************)
Pages == [id \in DOMAIN table |-> Row(id).trxs]

Pending == InFlight \o trx_pool

(* What waits, in each phase of the node. *)
LEMMA PendingFacts ==
    ASSUME RInv
    PROVE  /\ pc = "idle" => Pending = trx_pool
           /\ pc = "append" => Pending = last_blk.trxs
           /\ pc \notin {"idle", "append"} => Pending = <<>>
           /\ Pending \in Seq(TrxParams)
<1>1. trx_pool \in Seq(TrxParams) /\ last_blk.trxs \in Seq(TrxParams)
  BY DEF RInv, IInv, TypeOK, IsBlock
<1>2. pc # "idle" => trx_pool = <<>>
  BY DEF RInv, PoolInv
<1>3. <<>> \o trx_pool = trx_pool /\ last_blk.trxs \o <<>> = last_blk.trxs /\ <<>> \o <<>> = <<>>
  BY <1>1, ConcatEmpty
<1> QED BY <1>1, <1>2, <1>3 DEF Pending, InFlight

-----------------------------------------------------------------------------
(* A node that has never run is a ledger without pages. *)
LEMMA InitRefines == Init => L!LInit
<1> SUFFICES ASSUME Init PROVE L!LInit
  OBVIOUS
<1>1. Pages = <<>>
  BY DEF Init, EmptyTable, Pages
<1>2. Pending = <<>>
  BY ConcatEmpty DEF Init, Pending, InFlight
<1>3. Stopped /\ sqlErrors = 0
  BY DEF Init, Stopped
<1> QED BY <1>1, <1>2, <1>3 DEF L!LInit, Pages, Pending

(* The pages follow the table. *)
LEMMA SamePages ==
    ASSUME UNCHANGED table
    PROVE  Pages' = Pages
BY DEF Pages, Row

(* Every plugin_startup, whatever it finds, is a start of the ledger. *)
LEMMA BootRefines ==
    ASSUME RInv, RInv', Stopped, NEW blk, NEW next \in {"idle", "aborted", "down"},
           Boot(blk, next), sqlErrors' = sqlErrors \/ sqlErrors' # 0
    PROVE  L!Start
<1>1. Pages' = Pages
  BY SamePages DEF Boot
<1>2. Pending = <<>> /\ Pending' = <<>>
  <2>1. pc' \in {"idle", "aborted", "down"} /\ trx_pool' = <<>> /\ pc \in {"down", "aborted"}
    BY DEF Boot, Stopped
  <2> QED BY <2>1, PendingFacts, ConcatEmpty DEF Pending, InFlight
<1>3. (sqlErrors' = 0) \in {sqlErrors = 0, FALSE}
  OBVIOUS
<1> QED BY <1>1, <1>2, <1>3 DEF L!Start, L!MayFail, Pages, Pending

(* A shutdown or a crash loses what waits and nothing else. *)
LEMMA HaltRefines ==
    ASSUME RInv, RInv', ~ Stopped, Halt
    PROVE  L!Stop
<1>1. Pages' = Pages
  BY SamePages DEF Halt
<1>2. Pending' = <<>>
  BY ConcatEmpty DEF Halt, Pending, InFlight
<1>3. Stopped' /\ sqlErrors' = sqlErrors
  BY DEF Halt, Stopped
<1> QED BY <1>1, <1>2, <1>3 DEF L!Stop, Pages, Pending

(* push_transaction, when it accepts. *)
LEMMA AcceptRefines ==
    ASSUME RInv, RInv', NEW trx \in TrxParams, PushAccept(trx)
    PROVE  L!Accept(trx) /\ TrxValidate(trx)
<1>1. Pages' = Pages
  BY SamePages DEF PushAccept
<1>2. Pending = trx_pool /\ Pending' = trx_pool'
  <2>1. pc = "idle" /\ pc' = "idle"
    BY DEF PushAccept
  <2>2. trx_pool' \in Seq(TrxParams)
    BY DEF RInv, IInv, TypeOK
  <2> QED BY <2>1, <2>2, PendingFacts, ConcatEmpty DEF Pending, InFlight
<1>3. ~ Stopped /\ ~ Stopped' /\ sqlErrors' = sqlErrors /\ trx_pool' = Append(trx_pool, trx)
  BY DEF PushAccept, Stopped
<1> QED BY <1>1, <1>2, <1>3 DEF L!Accept, Pages, Pending, PushAccept

(***************************************************************************)
(* The INSERT of append_block seals all that waits in one page: the next   *)
(* one as long as no SQL statement has failed, a free one otherwise.       *)
(***************************************************************************)
LEMMA StoredRefines ==
    ASSUME RInv, RInv', AppendStored
    PROVE  L!Seal \/ L!SealAstray
<1>1. PICK n \in 0 .. MaxBlocks : n = last_blk.blk_num
  BY DEF RInv, PoolInv, AppendStored
<1>2. /\ pc = "append" /\ pc' = "cache" /\ n \notin DOMAIN table
      /\ table' = Insert(table, last_blk) /\ sqlErrors' = sqlErrors
      /\ KeyFree(table, last_blk)
  BY <1>1 DEF AppendStored, KeyFree
<1>3. Pending = last_blk.trxs /\ Pending' = <<>>
  <2>1. trx_pool' = <<>>
    BY <1>2 DEF RInv, PoolInv
  <2> QED BY <1>2, <2>1, PendingFacts, ConcatEmpty DEF Pending, InFlight
<1>4. Pages' = [m \in DOMAIN Pages \cup {n} |-> IF m = n THEN Pending ELSE Pages[m]]
  <2>1. /\ DOMAIN table' = DOMAIN table \cup {n}
        /\ table'[n] = BlockRow(last_blk)
        /\ \A id \in DOMAIN table : table'[id] = table[id]
    BY <1>1, <1>2, InsertFacts
  <2>2. Row(n)' = last_blk
    BY <2>1 DEF Row, BlockRow, ToJson, FromJson
  <2>3. \A id \in DOMAIN table : Row(id)' = Row(id)
    BY <2>1 DEF Row
  <2>4. DOMAIN Pages = DOMAIN table /\ \A id \in DOMAIN table : Pages[id] = Row(id).trxs
    BY DEF Pages
  <2>5. ASSUME NEW m \in DOMAIN table \cup {n}
        PROVE  Row(m)'.trxs = IF m = n THEN Pending ELSE Pages[m]
    BY <1>2, <1>3, <2>2, <2>3, <2>4
  <2>6. Pages' = [m \in DOMAIN table' |-> Row(m)'.trxs]
    BY DEF Pages, Row
  <2> QED BY <2>1, <2>4, <2>5, <2>6
<1>5. DOMAIN Pages = DOMAIN table
  BY DEF Pages
<1>6. ~ Stopped /\ ~ Stopped'
  BY <1>2 DEF Stopped
<1>7. L!SealAs(n)
  BY <1>2, <1>3, <1>4, <1>5, <1>6 DEF L!SealAs, Pages, Pending
<1>8. CASE sqlErrors = 0
  <2>1. FaultFreeInv /\ StoreInv
    BY <1>8 DEF RInv, IInv
  <2>2. IsTip(last_block) /\ Consecutive /\ n = NextNum(last_block)
    BY <1>1, <1>2, <2>1 DEF FaultFreeInv
  <2>3. n \in Nat /\ DOMAIN table = 0 .. n - 1
    BY <2>1, <2>2, NextNumFree
  <2> QED BY <1>5, <1>7, <2>3 DEF L!Seal, Pages
<1>9. CASE sqlErrors # 0
  BY <1>7, <1>9 DEF L!SealAstray
<1> QED BY <1>8, <1>9

(***************************************************************************)
(* An append_block that stores nothing loses what waits, and is only       *)
(* possible once an SQL statement has failed.                              *)
(***************************************************************************)
LEMMA LostRefines ==
    ASSUME RInv, RInv', AppendKeyTaken \/ AppendFails \/ AppendThrows
    PROVE  L!Lose
<1>1. /\ pc = "append" /\ pc' \in {"idle", "cache"} /\ UNCHANGED <<table, trx_pool>>
  BY DEF AppendKeyTaken, AppendFails, AppendThrows
<1>2. Pages' = Pages
  BY <1>1, SamePages
<1>3. Pending' = <<>>
  <2>1. trx_pool' = <<>>
    BY <1>1 DEF RInv, PoolInv
  <2> QED BY <1>1, <2>1, ConcatEmpty DEF Pending, InFlight
<1>4. sqlErrors' # 0
  <2>1. CASE AppendFails \/ AppendThrows
    BY <2>1, SqlFailsPositive DEF AppendFails, AppendThrows, RInv, IInv
  <2>2. CASE AppendKeyTaken /\ sqlErrors = 0
    <3>1. FaultFreeInv /\ StoreInv
      BY <2>2 DEF RInv, IInv
    <3>2. last_blk.blk_num \notin DOMAIN table
      BY <1>1, <3>1, NextNumFree DEF FaultFreeInv
    <3> QED BY <2>2, <3>2 DEF AppendKeyTaken, KeyFree
  <2>3. CASE AppendKeyTaken /\ sqlErrors # 0
    BY <2>3 DEF AppendKeyTaken
  <2> QED BY <2>1, <2>2, <2>3
<1>5. ~ Stopped /\ ~ Stopped'
  BY <1>1 DEF Stopped
<1> QED BY <1>2, <1>3, <1>4, <1>5 DEF L!Lose, Pages, Pending

(* build_block, the cache and the refusals are steps the ledger does not see. *)
LEMMA HiddenRefines ==
    ASSUME RInv, RInv',
           \/ (\E now \in Times : PublishBuild(now)) \/ PublishDone \/ PublishThrows
           \/ (\E trx \in TrxParams : PushReject(trx)) \/ UNCHANGED vars
    PROVE  UNCHANGED L!lvars
<1>1. UNCHANGED <<table, sqlErrors>>
  BY DEF PublishBuild, PublishDone, PublishThrows, PushReject, vars
<1>2. Pages' = Pages
  BY <1>1, SamePages
<1>3. Stopped' = Stopped
  <2>1. pc' = pc \/ (pc \in {"idle", "cache"} /\ pc' \in {"append", "idle"})
    BY DEF PublishBuild, PublishDone, PublishThrows, PushReject, vars
  <2> QED BY <2>1 DEF Stopped
<1>4. Pending' = Pending
  <2>1. ASSUME NEW now \in Times, PublishBuild(now) PROVE Pending' = Pending
    <3>1. last_blk'.trxs = trx_pool
      BY <2>1, BuildBlockFacts DEF PublishBuild
    <3>2. pc = "idle" /\ pc' = "append" /\ trx_pool' = <<>> /\ trx_pool \in Seq(TrxParams)
      BY <2>1 DEF PublishBuild, RInv, IInv, TypeOK
    <3> QED BY <3>1, <3>2, ConcatEmpty DEF Pending, InFlight
  <2>2. CASE PublishDone \/ PublishThrows \/ (\E trx \in TrxParams : PushReject(trx))
    BY <2>2 DEF PublishDone, PublishThrows, PushReject, Pending, InFlight
  <2>3. CASE UNCHANGED vars
    BY <2>3 DEF vars, Pending, InFlight
  <2> QED BY <2>1, <2>2, <2>3
<1> QED BY <1>1, <1>2, <1>3, <1>4 DEF L!lvars, Pages, Pending

(* Every step of the node is a step of the ledger, or none. *)
LEMMA NextRefines == RInv /\ RInv' /\ [Next]_vars => [L!LNext]_(L!lvars)
<1> SUFFICES ASSUME RInv, RInv', [Next]_vars PROVE [L!LNext]_(L!lvars)
  OBVIOUS
<1>1. CASE \/ StartupEmpty \/ StartupLoad \/ StartupNoRow \/ StartupCountFails
           \/ StartupRowFails \/ StartupThrows
  <2>1. Stopped /\ (sqlErrors' = sqlErrors \/ sqlErrors' # 0)
    BY <1>1, SqlFailsPositive DEF RInv, IInv, StartupEmpty, StartupLoad, StartupNoRow,
       StartupCountFails, StartupRowFails, StartupThrows
  <2>2. \E blk : \E next \in {"idle", "aborted", "down"} : Boot(blk, next)
    BY <1>1 DEF StartupEmpty, StartupLoad, StartupNoRow, StartupCountFails, StartupRowFails,
       StartupThrows, BootUndefined
  <2> QED BY <2>1, <2>2, BootRefines DEF L!LNext
<1>2. ASSUME NEW trx \in TrxParams, PushAccept(trx) PROVE L!LNext
  BY <1>2, AcceptRefines DEF L!LNext
<1>3. CASE AppendStored
  BY <1>3, StoredRefines DEF L!LNext
<1>4. CASE AppendKeyTaken \/ AppendFails \/ AppendThrows
  BY <1>4, LostRefines DEF L!LNext
<1>5. CASE Shutdown \/ Crash
  <2>1. ~ Stopped /\ Halt
    BY <1>5 DEF Shutdown, Crash, Stopped
  <2> QED BY <2>1, HaltRefines DEF L!LNext
<1>6. CASE \/ (\E now \in Times : PublishBuild(now)) \/ PublishDone \/ PublishThrows
           \/ (\E trx \in TrxParams : PushReject(trx)) \/ UNCHANGED vars
  BY <1>6, HiddenRefines
<1> QED BY <1>1, <1>2, <1>3, <1>4, <1>5, <1>6 DEF Next

(***************************************************************************)
(* The node implements the ledger: an accepted transaction is sealed once, *)
(* in order, in the page after the last one, or lost with the process; and *)
(* after an SQL failure still no page is rewritten and nothing is sealed   *)
(* twice, wherever the process dies.                                       *)
(***************************************************************************)
THEOREM NodeImplementsLedger == Spec => ImplementsLedger
<1>1. Init => L!LInit
  BY InitRefines
<1>2. RInv /\ RInv' /\ [Next]_vars => [L!LNext]_(L!lvars)
  BY NextRefines
<1> QED BY <1>1, <1>2, RefinementInvariant, PTL DEF Spec, ImplementsLedger, L!LSpec
=============================================================================

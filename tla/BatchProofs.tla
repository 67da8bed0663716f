---------------------------- MODULE BatchProofs -----------------------------
(***************************************************************************)
(* Proofs about the scheduled batch, for any number of overlapping runs    *)
(* and any number of alterations of blocks.db outside the node.            *)
(***************************************************************************)
EXTENDS Batch, ChainNodeProofs

-----------------------------------------------------------------------------
(***************************************************************************)
(* What survives an alteration of the transactions of a row: numbers,      *)
(* headers and signatures.  The invariant of the node itself does not (its *)
(* cached block and the row differ then), so this is a second, weaker one. *)
(***************************************************************************)
HeaderInv ==
    /\ \A id \in DOMAIN table :
          Row(id).blk_num = id /\ BlockValid(Row(id)) /\ Row(id).sig # GarbageSig
    /\ pc \in {"append", "cache"} => BlockValid(last_blk) /\ last_blk.sig # GarbageSig

(* b has the highest number of a table of consecutive numbers. *)
NumTip(b) ==
    \/ DOMAIN table = {} /\ ~ BlockValid(b)
    \/ BlockValid(b) /\ DOMAIN table = 0 .. b.blk_num

NumberInv ==
    sqlErrors = 0 =>
        /\ Consecutive
        /\ pc # "aborted"
        /\ pc \in {"idle", "append"} => last_block.sig # GarbageSig /\ NumTip(last_block)
        /\ pc = "append" => last_blk.blk_num = NextNum(last_block)
        /\ pc = "cache" => NumTip(last_blk)

(* The node's own invariant, as long as nobody else writes to blocks.db. *)
AloneInv == edits = 0 => IInv

RunOK ==
    /\ run \in [Runs -> [step : {"waiting", "check", "backup", "first", "copy", "maxid", "backblock",
                                 "compare", "replace", "char2hex", "sign_trx", "push",
                                 "publish", "await", "done"},
                         arg : {"good", "empty", "lost"}, calm : BOOLEAN]]
    /\ client \in Runs \cup {NoRun}
    /\ edits \in Nat

NodeInv ==
    /\ TypeOK
    /\ HeaderInv
    /\ NumberInv
    /\ AloneInv
    /\ RunOK

(***************************************************************************)
(* The files.  t is a contents that the table had before; file holds one   *)
(* such contents or none.                                                  *)
(***************************************************************************)
Past(t) ==
    /\ DOMAIN t \subseteq DOMAIN table
    /\ edits = 0 => \A id \in DOMAIN t : t[id] = table[id]
    /\ sqlErrors = 0 => \E n \in Nat : DOMAIN t = 0 .. n - 1

PastFile(file) ==
    /\ \A a, b \in file : a = b
    /\ \A t \in file : Past(t)

QuerySteps == {"maxid", "backblock", "compare"}

IsLocal(state) ==
    /\ state = [may |-> state.may, maxid |-> state.maxid, backblock |-> state.backblock,
                whole |-> state.whole, clean |-> state.clean]
    /\ state.whole \in BOOLEAN /\ state.clean \in BOOLEAN

(* A run that was left alone since line 18 works on a copy of its own. *)
OwnCopy(r) ==
    /\ \A q \in Runs \ {r} : ~ InCp(q)
    /\ \/ run[r].step = "copy" /\ local[r].may = {{table}}
       \/ /\ run[r].step \in QuerySteps \cup {"replace"}
          /\ copy # {}
          /\ \A old \in kept, new \in copy : DOMAIN old \subseteq DOMAIN new
          /\ InCp(r) => local[r].may = {copy}

(* It has read the last whole backup, and found its last row in the copy. *)
LastRowIn(old, new) == \A id \in LastID(old) : id \in DOMAIN new /\ new[id] = old[id]

OwnQueries(r) ==
    /\ run[r].step \in {"backblock", "compare"} =>
          local[r].maxid = UNION {LastID(t) : t \in kept}
    /\ run[r].step = "compare" => local[r].backblock = Printed(kept, local[r].maxid)
    /\ run[r].step = "replace" => \A old \in kept, new \in copy : LastRowIn(old, new)

RunFiles(r) ==
    /\ InCp(r) => run[r].step \in CpSteps
    /\ \A file \in local[r].may : PastFile(file)
    /\ local[r].clean => OwnCopy(r)
    /\ local[r].clean /\ local[r].whole => OwnQueries(r)

LocalOK ==
    /\ local = [r \in Runs |-> local[r]]
    /\ \A r \in Runs : IsLocal(local[r])
    /\ cpErrors \in Nat

BackupInv ==
    /\ LocalOK
    /\ PastFile(copy) /\ PastFile(kept)
    /\ backup \in {{}, kept}
    /\ \A r \in Runs : RunFiles(r)

(***************************************************************************)
(* A run that the node has not stopped under: past the first call, the     *)
(* node is up; no answer was lost; what it pushed is held by the node.     *)
(***************************************************************************)
In(trx, seq) == \E k \in DOMAIN seq : seq[k] = trx

Building(trx) == pc = "append" /\ In(trx, last_blk.trxs)

RunInv ==
    /\ \A r \in Runs : run[r].calm =>
          /\ run[r].step \notin {"waiting", "check", "done"} => ~ Stopped
          /\ run[r].step \in {"char2hex", "sign_trx", "push"} => run[r].arg # "lost"
    /\ \A r \in Runs : client = r => run[r].step = "await" /\ pc \in {"append", "cache"}

HeldInv ==
    sqlErrors = 0 /\ edits = 0 =>
        \A r \in Runs :
            /\ run[r].step = "done" => OnChain(IotTrx[r])
            /\ run[r].calm /\ run[r].step = "await" =>
                  Building(IotTrx[r]) \/ OnChain(IotTrx[r])
            /\ run[r].calm /\ run[r].step = "publish" =>
                  In(IotTrx[r], trx_pool) \/ Building(IotTrx[r]) \/ OnChain(IotTrx[r])

TInv ==
    /\ NodeInv
    /\ BackupInv
    /\ RunInv
    /\ HeldInv
-----------------------------------------------------------------------------
(***************************************************************************)
(* Numbers and headers.                                                    *)
(***************************************************************************)

(* After the block with the highest number, the next number is free. *)
LEMMA NumTipFree ==
    ASSUME NEW b, b.blk_num \in Nat, NumTip(b)
    PROVE  /\ NextNum(b) \in Nat
           /\ DOMAIN table = 0 .. NextNum(b) - 1
           /\ NextNum(b) \notin DOMAIN table
  <1>1. CASE DOMAIN table = {} /\ ~ BlockValid(b)
    <2>1. NextNum(b) = 0
      BY <1>1 DEF NextNum
    <2> QED BY <1>1, <2>1
  <1>2. CASE BlockValid(b) /\ DOMAIN table = 0 .. b.blk_num
    <2>1. NextNum(b) = b.blk_num + 1
      BY <1>2 DEF NextNum
    <2> QED BY <1>2, <2>1
  <1> QED BY <1>1, <1>2 DEF NumTip

(* A step that keeps the table keeps what is said of its rows and its tip. *)
LEMMA SameHeaders ==
    ASSUME UNCHANGED table
    PROVE  /\ (\A id \in DOMAIN table :
                  Row(id).blk_num = id /\ BlockValid(Row(id)) /\ Row(id).sig # GarbageSig)
              => (\A id \in DOMAIN table :
                  Row(id).blk_num = id /\ BlockValid(Row(id)) /\ Row(id).sig # GarbageSig)'
           /\ Consecutive => Consecutive'
           /\ \A b : NumTip(b) => NumTip(b)'
  BY DEF Row, Consecutive, NumTip

(* A restart: the cached block has the highest number, or an SQL error came. *)
LEMMA BootNumbers ==
    ASSUME HeaderInv, NumberInv, NEW blk, NEW next \in {"idle", "aborted", "down"},
           Boot(blk, next),
           sqlErrors' = 0 => /\ sqlErrors = 0 /\ next = "idle"
                             /\ blk.sig # GarbageSig /\ NumTip(blk)
    PROVE  HeaderInv' /\ NumberInv'
  <1>1. UNCHANGED table /\ pc' = next /\ last_block' = blk
    BY DEF Boot
  <1>2. HeaderInv'
    BY <1>1, SameHeaders DEF HeaderInv
  <1>3. ASSUME sqlErrors' = 0 PROVE Consecutive' /\ NumTip(last_block)'
    <2>1. Consecutive' /\ NumTip(blk)'
      BY <1>1, <1>3, SameHeaders DEF NumberInv
    <2> QED BY <1>1, <2>1 DEF NumTip
  <1> QED BY <1>1, <1>2, <1>3 DEF NumberInv

(* A block that was never signed is not one whose row was overwritten. *)
LEMMA BlankNotGarbage == BlankBlock.sig # GarbageSig
  <1>1. DOMAIN BlankSig = {"blank"} /\ DOMAIN GarbageSig = {"garbage"}
    BY DEF BlankSig, GarbageSig
  <1> QED BY <1>1 DEF BlankBlock

(* Row count - 1 of a table of consecutive numbers holds the highest number. *)
LEMMA LastRowNumTip ==
    ASSUME HeaderInv, Consecutive, GetBlockCount(table) > 0
    PROVE  \E blk : LastRow = {blk} /\ NumTip(blk) /\ blk.sig # GarbageSig
  <1>1. PICK n : n = GetBlockCount(table) - 1
    OBVIOUS
  <1>2. n \in DOMAIN table /\ DOMAIN table = 0 .. n
    BY <1>1, CountFacts
  <1>3. Row(n).blk_num = n /\ BlockValid(Row(n)) /\ Row(n).sig # GarbageSig
    BY <1>2 DEF HeaderInv
  <1>4. LastRow = {Row(n)}
    BY <1>1, <1>2 DEF LastRow, GetBlock, Row
  <1>5. NumTip(Row(n))
    BY <1>2, <1>3 DEF NumTip
  <1> QED BY <1>3, <1>4, <1>5

(* Every step of the node preserves numbers and headers. *)
LEMMA NextNumbers ==
    ASSUME TypeOK, HeaderInv, NumberInv, [Next]_vars
    PROVE  HeaderInv' /\ NumberInv'
  <1>1. CASE StartupEmpty
    <2>1. ASSUME sqlErrors' = 0 PROVE sqlErrors = 0 /\ NumTip(BlankBlock)
      <3>1. sqlErrors = 0 /\ Consecutive
        BY <1>1, <2>1 DEF StartupEmpty, NumberInv
      <3>2. DOMAIN table = 0 .. 0 - 1
        BY <1>1, <3>1, CountFacts DEF StartupEmpty
      <3> QED BY <3>1, <3>2, BlankInvalid DEF NumTip
    <2> QED BY <1>1, <2>1, BlankNotGarbage, BootNumbers DEF StartupEmpty
  <1>2. CASE StartupLoad
    <2>1. PICK blk \in LastRow : Boot(blk, "idle")
      BY <1>2 DEF StartupLoad
    <2>2. ASSUME sqlErrors' = 0
          PROVE  sqlErrors = 0 /\ NumTip(blk) /\ blk.sig # GarbageSig
      <3>1. sqlErrors = 0 /\ Consecutive
        BY <1>2, <2>2 DEF StartupLoad, NumberInv
      <3>2. PICK b : LastRow = {b} /\ NumTip(b) /\ b.sig # GarbageSig
        BY <1>2, <3>1, LastRowNumTip DEF StartupLoad
      <3> QED BY <2>1, <3>1, <3>2
    <2> QED BY <2>1, <2>2, BootNumbers
  <1>3. CASE StartupNoRow
    <2>1. sqlErrors' # 0
      <3> SUFFICES ASSUME sqlErrors' = 0 PROVE FALSE
        OBVIOUS
      <3>1. Consecutive
        BY <1>3 DEF StartupNoRow, NumberInv
      <3> QED BY <1>3, <3>1, LastRowNumTip DEF StartupNoRow
    <2> QED BY <1>3, <2>1, BootNumbers DEF StartupNoRow, BootUndefined
  <1>4. CASE StartupCountFails
    BY <1>4, SqlFailsPositive, BootNumbers DEF StartupCountFails
  <1>5. CASE StartupRowFails
    BY <1>5, SqlFailsPositive, BootNumbers DEF StartupRowFails, BootUndefined
  <1>6. CASE StartupThrows
    BY <1>6, SqlFailsPositive, BootNumbers DEF StartupThrows
  <1>7. CASE \/ \E trx \in TrxParams : PushAccept(trx) \/ PushReject(trx)
             \/ PublishThrows \/ UNCHANGED vars
    <2>1. UNCHANGED <<table, last_block, last_blk, pc, sqlErrors>>
      BY <1>7 DEF PushAccept, PushReject, PublishThrows, vars
    <2>2. HeaderInv'
      BY <2>1, SameHeaders DEF HeaderInv
    <2>3. (NumTip(last_block) => NumTip(last_block)') /\ (NumTip(last_blk) => NumTip(last_blk)')
      BY <2>1 DEF NumTip
    <2> QED BY <2>1, <2>2, <2>3, SameHeaders DEF NumberInv
  <1>8. ASSUME NEW now \in Times, PublishBuild(now) PROVE HeaderInv' /\ NumberInv'
    <2>1. /\ last_blk' = BuildBlock(last_block, trx_pool, now)
          /\ UNCHANGED <<table, last_block, sqlErrors>>
          /\ pc = "idle" /\ pc' = "append" /\ last_block.sig # GarbageSig
      BY <1>8 DEF PublishBuild
    <2>2. /\ BlockValid(last_blk') /\ last_blk'.sig # GarbageSig
          /\ last_blk'.blk_num = NextNum(last_block)
      BY <2>1, BuildBlockFacts, SignatureNotGarbage
    <2>3. HeaderInv'
      BY <2>1, <2>2, SameHeaders DEF HeaderInv
    <2>4. NumTip(last_block) => NumTip(last_block)'
      BY <2>1 DEF NumTip
    <2> QED BY <2>1, <2>2, <2>3, <2>4, SameHeaders DEF NumberInv
  <1>9. CASE AppendStored
    <2>1. PICK b : /\ b = last_blk /\ KeyFree(table, b) /\ table' = Insert(table, b)
                   /\ last_blk' = b
      BY <1>9 DEF AppendStored
    <2>2. pc = "append" /\ pc' = "cache" /\ UNCHANGED sqlErrors
      BY <1>9 DEF AppendStored
    <2>3. BlockValid(b) /\ b.sig # GarbageSig
      BY <2>1, <2>2 DEF HeaderInv
    <2>4. PICK n : n = b.blk_num
      OBVIOUS
    <2>5. /\ DOMAIN table' = DOMAIN table \cup {n}
          /\ table'[n] = BlockRow(b)
          /\ \A id \in DOMAIN table : table'[id] = table[id]
      BY <2>1, <2>4, InsertFacts
    <2>6. Row(n)' = b /\ \A id \in DOMAIN table : Row(id)' = Row(id)
      BY <2>5 DEF Row, BlockRow, ToJson, FromJson
    <2>7. HeaderInv'
      <3>1. ASSUME NEW id \in DOMAIN table'
            PROVE  /\ Row(id)'.blk_num = id /\ BlockValid(Row(id)')
                   /\ Row(id)'.sig # GarbageSig
        BY <2>3, <2>4, <2>5, <2>6 DEF HeaderInv
      <3>2. BlockValid(last_blk') /\ last_blk'.sig # GarbageSig
        BY <2>1, <2>3
      <3> QED BY <3>1, <3>2 DEF HeaderInv
    <2>8. ASSUME sqlErrors' = 0 PROVE Consecutive' /\ NumTip(last_blk)'
      <3>1. NumTip(last_block) /\ n = NextNum(last_block) /\ last_block.blk_num \in Nat
        BY <2>1, <2>2, <2>4, <2>8 DEF NumberInv, TypeOK, IsBlock
      <3>2. n \in Nat /\ DOMAIN table = 0 .. n - 1
        BY <3>1, NumTipFree
      <3>3. n + 1 \in Nat /\ DOMAIN table' = 0 .. n /\ DOMAIN table' = 0 .. (n + 1) - 1
        BY <2>5, <3>2
      <3>4. Consecutive'
        BY <3>3 DEF Consecutive
      <3>5. NumTip(last_blk)'
        BY <2>1, <2>3, <2>4, <3>3 DEF NumTip
      <3> QED BY <3>4, <3>5
    <2> QED BY <2>2, <2>7, <2>8 DEF NumberInv
  <1>10. CASE AppendKeyTaken
    <2>1. sqlErrors' # 0
      <3> SUFFICES ASSUME sqlErrors' = 0 PROVE FALSE
        OBVIOUS
      <3>1. /\ NumTip(last_block) /\ last_blk.blk_num = NextNum(last_block)
            /\ last_block.blk_num \in Nat
        BY <1>10 DEF AppendKeyTaken, NumberInv, TypeOK, IsBlock
      <3> QED BY <1>10, <3>1, NumTipFree DEF AppendKeyTaken, KeyFree
    <2> QED BY <1>10, <2>1, SameHeaders DEF AppendKeyTaken, HeaderInv, NumberInv
  <1>11. CASE AppendFails
    BY <1>11, SqlFailsPositive, SameHeaders DEF AppendFails, HeaderInv, NumberInv
  <1>12. CASE AppendThrows
    BY <1>12, SqlFailsPositive, SameHeaders DEF AppendThrows, HeaderInv, NumberInv
  <1>13. CASE PublishDone
    <2>1. pc = "cache" /\ pc' = "idle" /\ last_block' = last_blk /\ UNCHANGED <<table, sqlErrors>>
      BY <1>13 DEF PublishDone
    <2>2. HeaderInv'
      BY <2>1, SameHeaders DEF HeaderInv
    <2>3. ASSUME sqlErrors' = 0
          PROVE  Consecutive' /\ NumTip(last_block)' /\ last_block'.sig # GarbageSig
      <3>1. Consecutive /\ NumTip(last_blk) /\ last_blk.sig # GarbageSig
        BY <2>1, <2>3 DEF NumberInv, HeaderInv
      <3> QED BY <2>1, <3>1, SameHeaders DEF NumTip
    <2> QED BY <2>1, <2>2, <2>3 DEF NumberInv
  <1>14. CASE Shutdown \/ Crash
    <2>1. UNCHANGED <<table, sqlErrors>> /\ pc' = "down"
      BY <1>14 DEF Shutdown, Crash, Halt
    <2> QED BY <2>1, SameHeaders DEF HeaderInv, NumberInv
  <1> QED BY <1>1, <1>2, <1>3, <1>4, <1>5, <1>6, <1>7, <1>8, <1>9, <1>10, <1>11, <1>12,
             <1>13, <1>14 DEF Next

-----------------------------------------------------------------------------
(***************************************************************************)
(* The steps of the batch, as steps of the node.                           *)
(***************************************************************************)

(* A run asks the node for what any client may ask. *)
LEMMA IotTrxFacts ==
    ASSUME NEW r \in Runs
    PROVE  IotTrx[r] \in TrxParams /\ TrxValidate(IotTrx[r]) /\ r # NoRun
  BY BatchAssumption

(* The steps of database_backup.sh. *)
FileStep(r) ==
    \/ TestBackup(r) \/ CpBegins(r) \/ CpEnds(r) \/ CpRefused(r)
    \/ ReadMaxID(r) \/ ReadBackBlock(r) \/ Compare(r)

(* They leave the node alone, and move no run but their own. *)
LEMMA FileStepMoves ==
    ASSUME NEW r \in Runs, FileStep(r)
    PROVE  /\ UNCHANGED vars /\ UNCHANGED <<crontab, client, edits>>
           /\ \/ UNCHANGED run
              \/ \E step \in {"first", "copy", "maxid", "backblock", "compare", "replace"} :
                     MoveTo(r, step)
              \/ \E arg \in {"good", "empty"} : MoveWith(r, "char2hex", arg)
              \/ Fail(r)
  <1>1. CASE TestBackup(r) \/ CpBegins(r)
    BY <1>1 DEF TestBackup, CpBegins
  <1>2. CASE CpEnds(r) \/ CpRefused(r)
    BY <1>2 DEF CpEnds, CpRefused, AfterCp
  <1>3. CASE ReadMaxID(r) \/ ReadBackBlock(r) \/ Compare(r)
    BY <1>3 DEF ReadMaxID, ReadBackBlock, Compare
  <1> QED BY <1>1, <1>2, <1>3 DEF FileStep

(* Every step is one of the node, or an edit, or a SELECT that fails. *)
LEMMA BatchSteps ==
    ASSUME [BatchNext]_tvars
    PROVE  \/ [Next]_vars /\ UNCHANGED edits
           \/ \E id \in DOMAIN table : Edit(id)
           \/ \E r \in Runs : CheckBlind(r)
  <1>1. CASE UNCHANGED tvars
    BY <1>1 DEF tvars, batchVars, fileVars
  <1>2. CASE NodeStarts
    BY <1>2 DEF NodeStarts, Next
  <1>3. CASE NodeStops \/ NodeDies
    BY <1>3 DEF NodeStops, NodeDies, Interrupt, Next
  <1>4. CASE NodeAppends \/ NodePublished \/ NodeRefused
    BY <1>4 DEF NodeAppends, NodePublished, NodeRefused, Next
  <1>5. ASSUME NEW r \in Runs, BatchStep(r)
        PROVE  ([Next]_vars /\ UNCHANGED edits) \/ CheckBlind(r)
    <2>1. CASE Fire(r) \/ CheckAnswered(r) \/ CheckUnanswered(r)
      BY <2>1 DEF Fire, CheckAnswered, CheckUnanswered
    <2>2. CASE FileStep(r) \/ Char2Hex(r) \/ SignTrxCall(r)
      BY <2>2, FileStepMoves DEF Char2Hex, SignTrxCall
    <2>3. CASE PushLost(r) \/ PublishLost(r)
      BY <2>3 DEF PushLost, PublishLost
    <2>4. CASE Push(r)
      <3>1. UNCHANGED edits /\ (PushAccept(IotTrx[r]) \/ PushReject(EmptyTrx))
        BY <2>4 DEF Push
      <3>2. IotTrx[r] \in TrxParams /\ EmptyTrx \in TrxParams
        BY IotTrxFacts, BatchAssumption
      <3> QED BY <3>1, <3>2 DEF Next
    <2>5. CASE (\E now \in Times : Publish(r, now)) \/ PublishRefused(r)
      BY <2>5 DEF Publish, PublishRefused, Next
    <2> QED BY <1>5, <2>1, <2>2, <2>3, <2>4, <2>5 DEF BatchStep, FileStep
  <1> QED BY <1>1, <1>2, <1>3, <1>4, <1>5 DEF BatchNext

(* An edit keeps every number, header and signature. *)
LEMMA EditFacts ==
    ASSUME TypeOK, NEW id \in DOMAIN table, Edit(id)
    PROVE  /\ DOMAIN table' = DOMAIN table
           /\ \A j \in DOMAIN table :
                 /\ table'[j] = [HASH |-> table'[j].HASH, JSON |-> ToJson(Row(j)')]
                 /\ IsBlock(Row(j)')
                 /\ Row(j)'.blk_num = Row(j).blk_num
                 /\ Row(j)'.sig = Row(j).sig
                 /\ BlockDigest(Row(j)') = BlockDigest(Row(j))
  <1>1. PICK b : b = Row(id) /\ IsBlock(b)
    BY DEF TypeOK, TableOK
  <1>2. PICK new : new = [b EXCEPT !.trxs = <<EmptyTrx>>]
    OBVIOUS
  <1>3. <<EmptyTrx>> \in Seq(TrxParams)
    BY BatchAssumption
  <1>4. /\ IsBlock(new) /\ new.blk_num = b.blk_num /\ new.sig = b.sig
        /\ new.prior_hash = b.prior_hash /\ new.time_point = b.time_point
        /\ new.merkle_root = b.merkle_root
    BY <1>1, <1>2, <1>3 DEF IsBlock
  <1>5. BlockDigest(new) = BlockDigest(b)
    BY <1>4 DEF BlockDigest
  <1>6. PICK row : row = [HASH |-> table[id].HASH, JSON |-> ToJson(new)]
    OBVIOUS
  <1>7. table' = [table EXCEPT ![id] = row]
    <2>1. table[id] = [HASH |-> table[id].HASH, JSON |-> ToJson(Row(id))]
      BY DEF TypeOK, TableOK
    <2>2. [table[id] EXCEPT !.JSON = ToJson(new)] = row
      BY <1>6, <2>1
    <2>3. table' = [table EXCEPT ![id] = [table[id] EXCEPT !.JSON = ToJson(new)]]
      BY <1>1, <1>2 DEF Edit
    <2> QED BY <2>2, <2>3
  <1>8. /\ DOMAIN table' = DOMAIN table /\ table'[id] = row
        /\ \A j \in DOMAIN table \ {id} : table'[j] = table[j]
    BY <1>7
  <1>9. Row(id)' = new
    BY <1>6, <1>8 DEF Row, FromJson, ToJson
  <1>10. \A j \in DOMAIN table \ {id} : Row(j)' = Row(j)
    BY <1>8 DEF Row
  <1>11. ASSUME NEW j \in DOMAIN table
         PROVE  /\ table'[j] = [HASH |-> table'[j].HASH, JSON |-> ToJson(Row(j)')]
                /\ IsBlock(Row(j)')
                /\ Row(j)'.blk_num = Row(j).blk_num
                /\ Row(j)'.sig = Row(j).sig
                /\ BlockDigest(Row(j)') = BlockDigest(Row(j))
    <2>1. CASE j = id
      <3>1. table'[id] = [HASH |-> table'[id].HASH, JSON |-> ToJson(new)]
        BY <1>6, <1>8
      <3> QED BY <1>1, <1>4, <1>5, <1>9, <2>1, <3>1
    <2>2. CASE j # id
      <3>1. table'[j] = table[j] /\ Row(j)' = Row(j)
        BY <1>8, <1>10, <2>2
      <3>2. /\ table[j] = [HASH |-> table[j].HASH, JSON |-> ToJson(Row(j))]
            /\ IsBlock(Row(j))
        BY DEF TypeOK, TableOK
      <3> QED BY <3>1, <3>2
    <2> QED BY <2>1, <2>2
  <1> QED BY <1>8, <1>11

(* An edit of a row keeps its number and leaves a block in every row. *)
LEMMA EditNode ==
    ASSUME TypeOK, HeaderInv, NumberInv, NEW id \in DOMAIN table, Edit(id)
    PROVE  TypeOK' /\ HeaderInv' /\ NumberInv'
  <1>1. UNCHANGED <<trx_pool, last_block, last_blk, pc, reply, accepted, sqlErrors>>
    BY DEF Edit
  <1>2. /\ DOMAIN table' = DOMAIN table
        /\ \A j \in DOMAIN table :
              /\ table'[j] = [HASH |-> table'[j].HASH, JSON |-> ToJson(Row(j)')]
              /\ IsBlock(Row(j)')
              /\ Row(j)'.blk_num = Row(j).blk_num
              /\ Row(j)'.sig = Row(j).sig
              /\ BlockDigest(Row(j)') = BlockDigest(Row(j))
    BY EditFacts
  <1>3. TableOK'
    BY <1>2 DEF TypeOK, TableOK
  <1>4. TypeOK'
    BY <1>1, <1>3 DEF TypeOK
  <1>5. HeaderInv'
    <2>1. ASSUME NEW j \in DOMAIN table
          PROVE  Row(j)'.blk_num = j /\ BlockValid(Row(j)') /\ Row(j)'.sig # GarbageSig
      <3>1. Row(j).blk_num = j /\ BlockValid(Row(j)) /\ Row(j).sig # GarbageSig
        BY DEF HeaderInv
      <3> QED BY <1>2, <3>1 DEF BlockValid
    <2> QED BY <1>1, <1>2, <2>1 DEF HeaderInv
  <1>6. NumberInv'
    BY <1>1, <1>2 DEF NumberInv, NumTip, Consecutive
  <1> QED BY <1>4, <1>5, <1>6

(* A check that cannot read the table changes nothing but the fault count. *)
LEMMA BlindNode ==
    ASSUME TypeOK, HeaderInv, NumberInv, NEW r \in Runs, CheckBlind(r)
    PROVE  TypeOK' /\ HeaderInv' /\ NumberInv' /\ (IInv => IInv')
  <1>1. /\ UNCHANGED <<table, trx_pool, last_block, last_blk, pc, reply, accepted>>
        /\ SqlFails
    BY DEF CheckBlind
  <1>2. TypeOK'
    BY <1>1, SqlFailsType, SameTable DEF TypeOK
  <1>3. sqlErrors' # 0
    BY <1>1, SqlFailsPositive
  <1>4. HeaderInv' /\ NumberInv'
    BY <1>1, <1>3, SameHeaders DEF HeaderInv, NumberInv
  <1>5. IInv => IInv'
    BY <1>1, <1>2, <1>3, SameBlocks
  <1> QED BY <1>2, <1>4, <1>5

(* The state of each run stays one. *)
LEMMA RunOKNext ==
    ASSUME RunOK, [BatchNext]_tvars
    PROVE  RunOK'
  <1> DEFINE Steps == {"waiting", "check", "backup", "first", "copy", "maxid", "backblock",
                       "compare", "replace", "char2hex", "sign_trx", "push",
                       "publish", "await", "done"}
             State == [step : Steps, arg : {"good", "empty", "lost"}, calm : BOOLEAN]
  <1>1. /\ run \in [Runs -> State] /\ client \in Runs \cup {NoRun} /\ edits \in Nat
    BY DEF RunOK
  <1>2. Waiting \in State /\ \A s \in State : Succeeded(s) \in State
    BY DEF Waiting, Succeeded
  <1> HIDE DEF State
  <1>3. ASSUME NEW r \in Runs, NEW step \in Steps, MoveTo(r, step) PROVE run' \in [Runs -> State]
    <2>1. run[r] \in State
      BY <1>1
    <2>2. [run[r] EXCEPT !.step = step] \in State
      BY <2>1 DEF State
    <2>3. run' = [run EXCEPT ![r] = [run[r] EXCEPT !.step = step]]
      BY <1>3 DEF MoveTo
    <2> QED BY <1>1, <2>2, <2>3
  <1>4. ASSUME NEW r \in Runs, NEW step \in Steps, NEW arg \in {"good", "empty", "lost"},
               MoveWith(r, step, arg)
        PROVE  run' \in [Runs -> State]
    <2>1. run[r] \in State
      BY <1>1
    <2>2. [run[r] EXCEPT !.step = step, !.arg = arg] \in State
      BY <2>1 DEF State
    <2>3. run' = [run EXCEPT ![r] = [run[r] EXCEPT !.step = step, !.arg = arg]]
      BY <1>1, <1>4 DEF MoveWith
    <2> QED BY <1>1, <2>2, <2>3
  <1>5. ASSUME NEW r \in Runs, Fail(r) PROVE run' \in [Runs -> State]
    BY <1>1, <1>2, <1>5 DEF Fail
  <1>6. ASSUME Interrupt PROVE run' \in [Runs -> State]
    <2>1. ASSUME NEW r \in Runs PROVE [run[r] EXCEPT !.calm = ~ Active(run[r])] \in State
      <3>1. run[r] \in State
        BY <1>1
      <3>2. \A c \in BOOLEAN : [run[r] EXCEPT !.calm = c] \in State
        BY <3>1 DEF State
      <3>3. Active(run[r]) \in BOOLEAN
        BY DEF Active
      <3> QED BY <3>2, <3>3
    <2> QED BY <1>2, <1>6, <2>1 DEF Interrupt
  <1>7. CASE UNCHANGED tvars
    BY <1>7 DEF tvars, batchVars, RunOK
  <1>8. CASE NodeStarts
    BY <1>8 DEF NodeStarts, RunOK
  <1>9. CASE NodeStops \/ NodeDies
    <2>1. run' \in [Runs -> State] /\ client' = NoRun /\ UNCHANGED edits
      BY <1>6, <1>9 DEF NodeStops, NodeDies, Interrupt
    <2> QED BY <1>1, <2>1 DEF RunOK, State
  <1>10. CASE NodeAppends
    BY <1>10 DEF NodeAppends, RunOK
  <1>11. CASE NodePublished
    <2>1. /\ run' = [r \in Runs |-> IF r = client THEN Succeeded(run[r]) ELSE run[r]]
          /\ client' = NoRun /\ UNCHANGED edits
      BY <1>11 DEF NodePublished
    <2>2. run' \in [Runs -> State]
      BY <1>1, <1>2, <2>1
    <2> QED BY <1>1, <2>1, <2>2 DEF RunOK, State
  <1>12. CASE NodeRefused
    <2>1. /\ run' = [r \in Runs |-> IF r = client THEN Waiting ELSE run[r]]
          /\ client' = NoRun /\ UNCHANGED edits
      BY <1>12 DEF NodeRefused
    <2>2. run' \in [Runs -> State]
      BY <1>1, <1>2, <2>1
    <2> QED BY <1>1, <2>1, <2>2 DEF RunOK, State
  <1>13. ASSUME NEW id \in DOMAIN table, Edit(id) PROVE RunOK'
    <2>1. UNCHANGED <<run, client>> /\ edits' = edits + 1
      BY <1>13 DEF Edit
    <2> QED BY <2>1 DEF RunOK
  <1>14. ASSUME NEW r \in Runs, BatchStep(r) PROVE RunOK'
    <2>1. ASSUME run' \in [Runs -> State], client' \in {client, r}, UNCHANGED edits PROVE RunOK'
      BY <1>1, <2>1 DEF RunOK, State
    <2>2. CASE Fire(r) \/ CheckAnswered(r) \/ CheckBlind(r) \/ CheckUnanswered(r)
      <3>1. UNCHANGED <<client, edits>>
        BY <2>2 DEF Fire, CheckAnswered, CheckBlind, CheckUnanswered
      <3>2. MoveTo(r, "check") \/ MoveTo(r, "backup") \/ Fail(r)
        BY <2>2 DEF Fire, CheckAnswered, CheckBlind, CheckUnanswered
      <3> QED BY <1>3, <1>5, <2>1, <3>1, <3>2
    <2>3. CASE FileStep(r)
      <3>1. /\ UNCHANGED <<client, edits>>
            /\ \/ UNCHANGED run
               \/ \E step \in {"first", "copy", "maxid", "backblock", "compare", "replace"} :
                      MoveTo(r, step)
               \/ \E arg \in {"good", "empty"} : MoveWith(r, "char2hex", arg)
               \/ Fail(r)
        BY <2>3, FileStepMoves
      <3>2. run' \in [Runs -> State]
        BY <1>1, <1>3, <1>4, <1>5, <3>1
      <3> QED BY <2>1, <3>1, <3>2
    <2>5. CASE Char2Hex(r) \/ SignTrxCall(r)
      <3>1. UNCHANGED <<client, edits>>
        BY <2>5 DEF Char2Hex, SignTrxCall
      <3>2. \/ MoveTo(r, "sign_trx") \/ MoveWith(r, "sign_trx", "lost")
            \/ MoveTo(r, "push") \/ MoveWith(r, "push", "lost") \/ Fail(r)
        BY <2>5 DEF Char2Hex, SignTrxCall
      <3> QED BY <1>3, <1>4, <1>5, <2>1, <3>1, <3>2
    <2>6. CASE Push(r) \/ PushLost(r)
      <3>1. UNCHANGED <<client, edits>>
        BY <2>6 DEF Push, PushLost
      <3>2. MoveWith(r, "publish", "good") \/ Fail(r)
        BY <2>6 DEF Push, PushLost
      <3> QED BY <1>4, <1>5, <2>1, <3>1, <3>2
    <2>7. CASE \E now \in Times : Publish(r, now)
      <3>1. client' = r /\ UNCHANGED edits /\ MoveTo(r, "await")
        BY <2>7 DEF Publish
      <3> QED BY <1>3, <2>1, <3>1
    <2>8. CASE PublishRefused(r)
      BY <1>5, <2>1, <2>8 DEF PublishRefused
    <2>9. CASE PublishLost(r)
      <3>1. run' = [run EXCEPT ![r] = Succeeded(run[r])] /\ UNCHANGED <<client, edits>>
        BY <2>9 DEF PublishLost
      <3>2. run' \in [Runs -> State]
        BY <1>1, <1>2, <3>1
      <3> QED BY <2>1, <3>1, <3>2
    <2> QED BY <1>14, <2>2, <2>3, <2>5, <2>6, <2>7, <2>8, <2>9 DEF BatchStep, FileStep
  <1> QED BY <1>7, <1>8, <1>9, <1>10, <1>11, <1>12, <1>13, <1>14 DEF BatchNext

(* The node's part of the invariant holds of the empty table. *)
LEMMA InitNodeInv == BatchInit => NodeInv
  <1> SUFFICES ASSUME BatchInit PROVE NodeInv
    OBVIOUS
  <1>1. IInv /\ TypeOK
    BY InitInv DEF BatchInit, IInv
  <1>2. DOMAIN table = {} /\ pc = "down"
    BY DEF BatchInit, Init, EmptyTable
  <1>3. Consecutive
    <2>1. 0 .. 0 - 1 = {}
      OBVIOUS
    <2> QED BY <1>2, <2>1 DEF Consecutive
  <1>4. HeaderInv /\ NumberInv
    BY <1>2, <1>3 DEF HeaderInv, NumberInv
  <1>5. RunOK
    BY DEF BatchInit, RunOK, Waiting
  <1> QED BY <1>1, <1>4, <1>5 DEF NodeInv, AloneInv

(* Every step of the node, of a script or of an editor keeps the node's part. *)
LEMMA NextNodeInv == NodeInv /\ [BatchNext]_tvars => NodeInv'
  <1> SUFFICES ASSUME NodeInv, [BatchNext]_tvars PROVE NodeInv'
    OBVIOUS
  <1>1. TypeOK /\ HeaderInv /\ NumberInv /\ AloneInv /\ RunOK
    BY DEF NodeInv
  <1>2. RunOK'
    BY <1>1, RunOKNext
  <1>3. CASE [Next]_vars /\ UNCHANGED edits
    <2>1. TypeOK' /\ HeaderInv' /\ NumberInv'
      BY <1>1, <1>3, NextType, NextNumbers
    <2>2. AloneInv'
      BY <1>1, <1>3, NextInv DEF AloneInv
    <2> QED BY <1>2, <2>1, <2>2 DEF NodeInv
  <1>4. ASSUME NEW id \in DOMAIN table, Edit(id) PROVE NodeInv'
    <2>1. TypeOK' /\ HeaderInv' /\ NumberInv'
      BY <1>1, <1>4, EditNode
    <2>2. edits' # 0
      BY <1>1, <1>4 DEF Edit, RunOK
    <2> QED BY <1>2, <2>1, <2>2 DEF NodeInv, AloneInv
  <1>5. ASSUME NEW r \in Runs, CheckBlind(r) PROVE NodeInv'
    <2>1. TypeOK' /\ HeaderInv' /\ NumberInv' /\ (IInv => IInv')
      BY <1>1, <1>5, BlindNode
    <2>2. UNCHANGED edits
      BY <1>5 DEF CheckBlind
    <2> QED BY <1>1, <1>2, <2>1, <2>2 DEF NodeInv, AloneInv
  <1> QED BY <1>3, <1>4, <1>5, BatchSteps

-----------------------------------------------------------------------------
(***************************************************************************)
(* How the runs move, and the node under them.                             *)
(***************************************************************************)

(* How a run's step changes. *)
LEMMA RunMoves ==
    ASSUME RunOK, NEW r \in Runs, NEW q \in Runs
    PROVE  /\ \A step : MoveTo(r, step) =>
                 /\ run'[q].step = IF q = r THEN step ELSE run[q].step
                 /\ run'[q].arg = run[q].arg /\ run'[q].calm = run[q].calm
           /\ \A step, arg : MoveWith(r, step, arg) =>
                 /\ run'[q].step = IF q = r THEN step ELSE run[q].step
                 /\ run'[q].arg = IF q = r THEN arg ELSE run[q].arg
                 /\ run'[q].calm = run[q].calm
           /\ Fail(r) => run'[q] = IF q = r THEN Waiting ELSE run[q]
  <1>1. ASSUME NEW step, MoveTo(r, step)
        PROVE  /\ run'[q].step = IF q = r THEN step ELSE run[q].step
               /\ run'[q].arg = run[q].arg /\ run'[q].calm = run[q].calm
    <2>1. PICK s : s = [run[r] EXCEPT !.step = step]
      OBVIOUS
    <2>2. run' = [run EXCEPT ![r] = s]
      BY <1>1, <2>1 DEF MoveTo
    <2>3. s.step = step /\ s.arg = run[r].arg /\ s.calm = run[r].calm
      BY <2>1 DEF RunOK
    <2>4. run'[q] = IF q = r THEN s ELSE run[q]
      BY <2>2 DEF RunOK
    <2> QED BY <2>3, <2>4
  <1>2. ASSUME NEW step, NEW arg, MoveWith(r, step, arg)
        PROVE  /\ run'[q].step = IF q = r THEN step ELSE run[q].step
               /\ run'[q].arg = IF q = r THEN arg ELSE run[q].arg
               /\ run'[q].calm = run[q].calm
    <2>1. PICK s : s = [run[r] EXCEPT !.step = step, !.arg = arg]
      OBVIOUS
    <2>2. run' = [run EXCEPT ![r] = s]
      BY <1>2, <2>1 DEF MoveWith, RunOK
    <2>3. s.step = step /\ s.arg = arg /\ s.calm = run[r].calm
      BY <2>1 DEF RunOK
    <2>4. run'[q] = IF q = r THEN s ELSE run[q]
      BY <2>2 DEF RunOK
    <2> QED BY <2>3, <2>4
  <1>3. ASSUME Fail(r) PROVE run'[q] = IF q = r THEN Waiting ELSE run[q]
    BY <1>3 DEF Fail, RunOK
  <1> QED BY <1>1, <1>2, <1>3

(* A node that goes away sends its client home and marks the open runs. *)
LEMMA InterruptMoves ==
    ASSUME RunOK, Interrupt, NEW q \in Runs
    PROVE  \/ run'[q] = Waiting
           \/ /\ run'[q].step = run[q].step /\ run'[q].arg = run[q].arg
              /\ run'[q].calm = ~ Active(run[q])
  <1>1. PICK c \in BOOLEAN : c = ~ Active(run[q])
    BY DEF Active
  <1>2. run'[q] = IF q = client THEN Waiting ELSE [run[q] EXCEPT !.calm = c]
    BY <1>1 DEF Interrupt
  <1>3. PICK s : s = [run[q] EXCEPT !.calm = c]
    OBVIOUS
  <1>4. s.step = run[q].step /\ s.arg = run[q].arg /\ s.calm = c
    BY <1>3 DEF RunOK
  <1> QED BY <1>1, <1>2, <1>3, <1>4

(* A run ends as done only if nothing disturbed it. *)
LEMMA SucceededFacts ==
    ASSUME NEW s
    PROVE  \/ Succeeded(s) = Waiting
           \/ Succeeded(s).step = "done" /\ s.calm
  BY DEF Succeeded, Waiting

(* A step of a run that leaves the node where it is. *)
LEMMA SameNodeRunInv ==
    ASSUME RunOK, RunInv, NEW r \in Runs, UNCHANGED <<pc, client>>,
           run[r].step # "await",
           \A q \in Runs \ {r} : run'[q].step = run[q].step /\ run'[q].arg = run[q].arg
                                 /\ run'[q].calm = run[q].calm,
           run'[r].calm =>
              /\ run'[r].step \notin {"waiting", "check", "done"} => ~ Stopped
              /\ run'[r].step \in {"char2hex", "sign_trx", "push"} => run'[r].arg # "lost"
    PROVE  RunInv'
  <1>1. Stopped' = Stopped
    BY DEF Stopped
  <1>2. client # r
    BY DEF RunInv
  <1>3. ASSUME NEW q \in Runs, run'[q].calm
        PROVE  /\ run'[q].step \notin {"waiting", "check", "done"} => ~ Stopped'
               /\ run'[q].step \in {"char2hex", "sign_trx", "push"} => run'[q].arg # "lost"
    BY <1>1, <1>3 DEF RunInv
  <1>4. ASSUME NEW q \in Runs, client' = q
        PROVE  run'[q].step = "await" /\ pc' \in {"append", "cache"}
    BY <1>2, <1>4 DEF RunInv
  <1> QED BY <1>3, <1>4 DEF RunInv

(* The steps of a run, except the one that makes it the client of publish_blk. *)
LEMMA StepRunInv ==
    ASSUME RunOK, RunInv, NEW r \in Runs, BatchStep(r),
           ~ \E now \in Times : Publish(r, now)
    PROVE  RunInv'
  <1>1. run[r].calm => /\ run[r].step \notin {"waiting", "check", "done"} => ~ Stopped
                       /\ run[r].step \in {"char2hex", "sign_trx", "push"} => run[r].arg # "lost"
    BY DEF RunInv
  <1>2. Up => ~ Stopped
    BY DEF Up, Stopped
  <1>3. ASSUME NEW step, MoveTo(r, step), UNCHANGED <<pc, client>>, run[r].step # "await",
               step \notin {"waiting", "check", "done"} => ~ run[r].calm \/ ~ Stopped,
               step \in {"char2hex", "sign_trx", "push"} => ~ run[r].calm \/ run[r].arg # "lost"
        PROVE  RunInv'
    <2>1. /\ run'[r].step = step /\ run'[r].arg = run[r].arg /\ run'[r].calm = run[r].calm
          /\ \A q \in Runs \ {r} : run'[q].step = run[q].step /\ run'[q].arg = run[q].arg
                                   /\ run'[q].calm = run[q].calm
      BY <1>3, RunMoves
    <2> QED BY <1>3, <2>1, SameNodeRunInv
  <1>4. ASSUME NEW step, NEW arg, MoveWith(r, step, arg), UNCHANGED <<pc, client>>,
               run[r].step # "await",
               step \notin {"waiting", "check", "done"} => ~ run[r].calm \/ ~ Stopped,
               step \in {"char2hex", "sign_trx", "push"} => ~ run[r].calm \/ arg # "lost"
        PROVE  RunInv'
    <2>1. /\ run'[r].step = step /\ run'[r].arg = arg /\ run'[r].calm = run[r].calm
          /\ \A q \in Runs \ {r} : run'[q].step = run[q].step /\ run'[q].arg = run[q].arg
                                   /\ run'[q].calm = run[q].calm
      BY <1>4, RunMoves
    <2> QED BY <1>4, <2>1, SameNodeRunInv
  <1>5. ASSUME Fail(r), UNCHANGED <<pc, client>>, run[r].step # "await"
        PROVE  RunInv'
    <2>1. run'[r] = Waiting /\ \A q \in Runs \ {r} : run'[q] = run[q]
      BY <1>5, RunMoves
    <2> QED BY <1>5, <2>1, SameNodeRunInv DEF Waiting
  <1>6. CASE Fire(r) \/ CheckAnswered(r) \/ CheckBlind(r) \/ CheckUnanswered(r)
    <2>1. UNCHANGED <<pc, client>> /\ run[r].step # "await"
      BY <1>6 DEF Fire, CheckAnswered, CheckBlind, CheckUnanswered, vars
    <2>2. MoveTo(r, "check") \/ (MoveTo(r, "backup") /\ Up) \/ Fail(r)
      BY <1>6 DEF Fire, CheckAnswered, CheckBlind, CheckUnanswered
    <2> QED BY <1>2, <1>3, <1>5, <2>1, <2>2
  <1>7. ASSUME FileStep(r), ~ UNCHANGED run PROVE RunInv'
    <2>1. UNCHANGED <<pc, client>>
      BY <1>7, FileStepMoves DEF vars
    <2>2. run[r].step \in {"backup"} \cup CpSteps \cup QuerySteps
      BY <1>7 DEF FileStep, TestBackup, CpBegins, CpEnds, CpRefused, ReadMaxID, ReadBackBlock, Compare,
                  CpSteps, QuerySteps
    <2>3. \/ \E step \in {"first", "copy", "maxid", "backblock", "compare", "replace"} :
                 MoveTo(r, step)
          \/ \E arg \in {"good", "empty"} : MoveWith(r, "char2hex", arg)
          \/ Fail(r)
      BY <1>7, FileStepMoves
    <2> QED BY <1>1, <1>3, <1>4, <1>5, <2>1, <2>2, <2>3 DEF CpSteps, QuerySteps
  <1>8. CASE FileStep(r) /\ UNCHANGED run
    <2>1. UNCHANGED <<pc, client, run>>
      BY <1>8, FileStepMoves DEF vars
    <2> QED BY <2>1 DEF RunInv, Stopped
  <1>9. CASE Char2Hex(r)
    <2>1. UNCHANGED <<pc, client>> /\ run[r].step = "char2hex"
      BY <1>9 DEF Char2Hex, vars
    <2>2. MoveTo(r, "sign_trx") \/ (Stopped /\ MoveWith(r, "sign_trx", "lost"))
      BY <1>9 DEF Char2Hex
    <2> QED BY <1>1, <1>3, <1>4, <2>1, <2>2
  <1>10. CASE SignTrxCall(r)
    <2>1. UNCHANGED <<pc, client>> /\ run[r].step = "sign_trx"
      BY <1>10 DEF SignTrxCall, vars
    <2>2. MoveTo(r, "push") \/ (Stopped /\ MoveWith(r, "push", "lost")) \/ Fail(r)
      BY <1>10 DEF SignTrxCall
    <2> QED BY <1>1, <1>3, <1>4, <1>5, <2>1, <2>2
  <1>11. CASE Push(r) \/ PushLost(r)
    <2>1. UNCHANGED <<pc, client>> /\ run[r].step = "push"
      BY <1>11 DEF Push, PushLost, PushAccept, PushReject, vars
    <2>2. MoveWith(r, "publish", "good") \/ Fail(r)
      BY <1>11 DEF Push, PushLost
    <2> QED BY <1>1, <1>4, <1>5, <2>1, <2>2
  <1>12. CASE PublishRefused(r)
    <2>1. UNCHANGED <<pc, client>> /\ run[r].step = "publish" /\ Fail(r)
      BY <1>12 DEF PublishRefused, PublishThrows
    <2> QED BY <1>5, <2>1
  <1>13. CASE PublishLost(r)
    <2>1. /\ UNCHANGED <<pc, client>> /\ run[r].step = "publish"
          /\ run' = [run EXCEPT ![r] = Succeeded(run[r])]
      BY <1>13 DEF PublishLost, vars
    <2>2. run'[r] = Succeeded(run[r]) /\ \A q \in Runs \ {r} : run'[q] = run[q]
      BY <2>1 DEF RunOK
    <2>3. run'[r].step \in {"waiting", "done"}
      BY <2>2, SucceededFacts DEF Waiting
    <2> QED BY <2>1, <2>2, <2>3, SameNodeRunInv
  <1> QED BY <1>6, <1>7, <1>8, <1>9, <1>10, <1>11, <1>12, <1>13 DEF BatchStep, FileStep

(* Every step keeps the node up for an undisturbed run, and a client in publish. *)
LEMMA NextRunInv ==
    ASSUME NodeInv, RunInv, [BatchNext]_tvars
    PROVE  RunInv'
  <1>1. RunOK
    BY DEF NodeInv
  <1>2. CASE UNCHANGED tvars
    BY <1>2 DEF tvars, vars, batchVars, RunInv, Stopped
  <1>3. CASE NodeStarts
    <2>1. Stopped /\ UNCHANGED <<run, client>>
      BY <1>3 DEF NodeStarts, StartupEmpty, StartupLoad, StartupNoRow, StartupCountFails,
                  StartupRowFails, StartupThrows
    <2>2. \A r \in Runs : client # r
      BY <2>1 DEF RunInv, Stopped
    <2> QED BY <2>1, <2>2 DEF RunInv
  <1>4. CASE NodeStops \/ NodeDies
    <2>1. Interrupt /\ client' = NoRun
      BY <1>4 DEF NodeStops, NodeDies, Interrupt
    <2>2. ASSUME NEW q \in Runs, run'[q].calm PROVE run'[q].step \in {"waiting", "done"}
      <3>1. CASE run'[q] = Waiting
        BY <3>1 DEF Waiting
      <3>2. CASE run'[q].step = run[q].step /\ run'[q].calm = ~ Active(run[q])
        <4>1. ~ Active(run[q])
          BY <2>2, <3>2
        <4> QED BY <3>2, <4>1 DEF Active
      <3> QED BY <1>1, <2>1, <3>1, <3>2, InterruptMoves
    <2>3. \A r \in Runs : client' # r
      BY <2>1, IotTrxFacts
    <2> QED BY <2>2, <2>3 DEF RunInv
  <1>5. CASE NodeAppends
    <2>1. UNCHANGED <<run, client>> /\ pc = "append" /\ pc' = "cache"
      BY <1>5 DEF NodeAppends, AppendStored, AppendKeyTaken, AppendFails
    <2> QED BY <2>1 DEF RunInv, Stopped
  <1>6. CASE NodePublished \/ NodeRefused
    <2>1. client' = NoRun /\ pc' = "idle"
      BY <1>6 DEF NodePublished, NodeRefused, PublishDone, AppendThrows
    <2>2. ASSUME NEW q \in Runs
          PROVE  run'[q] = run[q] \/ run'[q] = Waiting \/ run'[q] = Succeeded(run[q])
      BY <1>6 DEF NodePublished, NodeRefused
    <2>3. ASSUME NEW q \in Runs PROVE run'[q] = run[q] \/ run'[q].step \in {"waiting", "done"}
      BY <2>2, SucceededFacts DEF Waiting
    <2>4. \A r \in Runs : client' # r
      BY <2>1, IotTrxFacts
    <2> QED BY <2>1, <2>3, <2>4 DEF RunInv, Stopped
  <1>7. CASE \E id \in DOMAIN table : Edit(id)
    BY <1>7 DEF Edit, RunInv, Stopped
  <1>8. ASSUME NEW r \in Runs, NEW now \in Times, Publish(r, now) PROVE RunInv'
    <2>1. pc = "idle" /\ pc' = "append" /\ client' = r /\ MoveTo(r, "await")
      BY <1>8 DEF Publish, PublishBuild
    <2>2. \A q \in Runs : /\ run'[q].step = IF q = r THEN "await" ELSE run[q].step
                          /\ run'[q].arg = run[q].arg /\ run'[q].calm = run[q].calm
      BY <1>1, <2>1, RunMoves
    <2> QED BY <2>1, <2>2 DEF RunInv, Stopped
  <1>9. ASSUME NEW r \in Runs, BatchStep(r) PROVE RunInv'
    BY <1>1, <1>8, <1>9, StepRunInv
  <1> QED BY <1>2, <1>3, <1>4, <1>5, <1>6, <1>7, <1>9 DEF BatchNext

(* At first every run waits. *)
LEMMA InitRunInv == BatchInit => RunInv /\ HeldInv
  <1> SUFFICES ASSUME BatchInit PROVE RunInv /\ HeldInv
    OBVIOUS
  <1>1. /\ client = NoRun
        /\ \A r \in Runs : run[r].step = "waiting"
    BY DEF BatchInit, Waiting
  <1>2. \A r \in Runs : client # r
    BY <1>1, IotTrxFacts
  <1> QED BY <1>1, <1>2 DEF RunInv, HeldInv

-----------------------------------------------------------------------------
(***************************************************************************)
(* The backup.                                                             *)
(***************************************************************************)

(* No step takes a row away; only an edit changes one. *)
LEMMA RowsKept ==
    ASSUME NodeInv, [BatchNext]_tvars
    PROVE  /\ DOMAIN table \subseteq DOMAIN table'
           /\ edits' = 0 => edits = 0 /\ \A id \in DOMAIN table : table'[id] = table[id]
           /\ sqlErrors' = 0 => sqlErrors = 0
  <1>1. TypeOK /\ RunOK
    BY DEF NodeInv
  <1>2. CASE [Next]_vars /\ UNCHANGED edits
    <2>1. /\ DOMAIN table \subseteq DOMAIN table'
          /\ \A id \in DOMAIN table : table'[id] = table[id]
      <3>1. CASE UNCHANGED table
        BY <3>1
      <3>2. CASE AppendStored
        BY <3>2, InsertFacts DEF AppendStored
      <3>3. UNCHANGED table \/ AppendStored
        BY <1>2 DEF Next, vars, StartupEmpty, StartupLoad, StartupNoRow, StartupCountFails,
                    StartupRowFails, StartupThrows, BootUndefined, Boot, PushAccept, PushReject,
                    PublishBuild, PublishThrows, AppendKeyTaken, AppendFails, AppendThrows,
                    PublishDone, Shutdown, Crash, Halt
      <3> QED BY <3>1, <3>2, <3>3
    <2>2. UNCHANGED sqlErrors \/ SqlFails
      BY <1>2 DEF Next, vars, StartupEmpty, StartupLoad, StartupNoRow, StartupCountFails,
                  StartupRowFails, StartupThrows, PushAccept, PushReject,
                  PublishBuild, PublishThrows, AppendStored, AppendKeyTaken, AppendFails,
                  AppendThrows, PublishDone, Shutdown, Crash, Halt
    <2> QED BY <1>1, <1>2, <2>1, <2>2, SqlFailsPositive
  <1>3. ASSUME NEW id \in DOMAIN table, Edit(id)
        PROVE  DOMAIN table' = DOMAIN table /\ edits' # 0 /\ UNCHANGED sqlErrors
    <2>1. DOMAIN table' = DOMAIN table
      BY <1>1, <1>3, EditFacts
    <2>2. edits' # 0 /\ UNCHANGED sqlErrors
      BY <1>1, <1>3 DEF Edit, RunOK
    <2> QED BY <2>1, <2>2
  <1>4. ASSUME NEW r \in Runs, CheckBlind(r)
        PROVE  UNCHANGED <<table, edits>> /\ sqlErrors' # 0
    BY <1>1, <1>4, SqlFailsPositive DEF CheckBlind
  <1> QED BY <1>2, <1>3, <1>4, BatchSteps

(* What was an earlier contents of the table still is one. *)
LEMMA PastKept ==
    ASSUME NodeInv, [BatchNext]_tvars, NEW t, Past(t)
    PROVE  Past(t)'
  <1>1. /\ DOMAIN table \subseteq DOMAIN table'
        /\ edits' = 0 => edits = 0 /\ \A id \in DOMAIN table : table'[id] = table[id]
        /\ sqlErrors' = 0 => sqlErrors = 0
    BY RowsKept
  <1> QED BY <1>1 DEF Past

(* The table is a past contents of itself. *)
LEMMA PastNow == NodeInv => Past(table)
  BY DEF NodeInv, NumberInv, Consecutive, Past

(* A file of a table that the steps know is an earlier contents, then as now. *)
LEMMA KnownPast ==
    ASSUME NodeInv, NodeInv', BackupInv, [BatchNext]_tvars, NEW file,
           \/ file \in {{}, copy, kept, {table}, {table'}}
           \/ \E r \in Runs : file \in local[r].may
    PROVE  PastFile(file)'
  <1>1. CASE PastFile(file)
    <2>1. \A t \in file : Past(t)'
      BY <1>1, PastKept DEF PastFile
    <2> QED BY <1>1, <2>1 DEF PastFile
  <1>2. CASE file = {table}
    <2>1. PICK t : t = table
      OBVIOUS
    <2>2. Past(t)'
      BY <2>1, PastNow, PastKept
    <2> QED BY <1>2, <2>1, <2>2 DEF PastFile
  <1>3. CASE file = {table'}
    <2>1. PICK t : t = table'
      OBVIOUS
    <2>2. Past(t)'
      BY <2>1 DEF NodeInv, NumberInv, Consecutive, Past
    <2> QED BY <1>3, <2>1, <2>2 DEF PastFile
  <1>4. CASE file = {}
    BY <1>4 DEF PastFile
  <1>5. CASE file \in {copy, kept} \/ \E r \in Runs : file \in local[r].may
    BY <1>1, <1>5 DEF BackupInv, RunFiles
  <1> QED BY <1>2, <1>3, <1>4, <1>5

(* The shared files after a step, if each holds what the steps know. *)
LEMMA SharedPast ==
    ASSUME NodeInv, NodeInv', BackupInv, [BatchNext]_tvars,
           copy' \in {{}, copy} \/ \E r \in Runs : copy' \in local[r].may,
           kept' = kept \/ \E r \in Runs : kept' \in local[r].may
    PROVE  PastFile(copy)' /\ PastFile(kept)'
  <1>1. PICK c, k : c = copy' /\ k = kept'
    OBVIOUS
  <1>2. PastFile(c)'
    BY <1>1, KnownPast
  <1>3. PastFile(k)'
    BY <1>1, KnownPast
  <1> QED BY <1>1, <1>2, <1>3 DEF PastFile

(* What a run's cp may leave after a step, in the same way. *)
LEMMA MayPast ==
    ASSUME NodeInv, NodeInv', BackupInv, [BatchNext]_tvars, NEW q \in Runs,
           local'[q].may \subseteq local[q].may \cup {{}, copy, {table}, {table'}}
                                   \cup UNION {local[r].may : r \in Runs}
    PROVE  (\A file \in local[q].may : PastFile(file))'
  <1>1. ASSUME NEW file \in local'[q].may PROVE PastFile(file)'
    <2>1. \/ file \in {{}, copy, kept, {table}, {table'}}
          \/ \E r \in Runs : file \in local[r].may
      BY <1>1
    <2> QED BY <2>1, KnownPast
  <1> QED BY <1>1

(***************************************************************************)
(* The steps that concern neither the files nor a run at them.             *)
(***************************************************************************)
Quiet ==
    /\ UNCHANGED <<table, copy, backup, kept, local, cpErrors>>
    /\ \A r \in Runs : \/ run'[r].step = run[r].step
                       \/ run[r].step \notin CpSteps \cup QuerySteps

(* Every other step is one of database_backup.sh, or writes blocks.db. *)
LEMMA QuietSteps ==
    ASSUME RunOK, RunInv, [BatchNext]_tvars
    PROVE  \/ Quiet
           \/ HostWritten /\ UNCHANGED run
           \/ \E r \in Runs : FileStep(r)
  <1>1. CASE UNCHANGED tvars
    BY <1>1 DEF tvars, vars, batchVars, fileVars, Quiet
  <1>2. CASE NodeStarts
    <2>1. UNCHANGED <<copy, backup, kept, local, cpErrors, run>>
      BY <1>2 DEF NodeStarts, fileVars
    <2>2. UNCHANGED table
      BY <1>2 DEF NodeStarts, StartupEmpty, StartupLoad, StartupNoRow, StartupCountFails,
                  StartupRowFails, StartupThrows, BootUndefined, Boot
    <2> QED BY <2>1, <2>2 DEF Quiet
  <1>3. ASSUME NEW q \in Runs, q = client PROVE run[q].step \notin CpSteps \cup QuerySteps
    BY <1>3 DEF RunInv, CpSteps, QuerySteps
  <1>4. CASE NodeStops \/ NodeDies
    <2>1. Interrupt /\ UNCHANGED <<copy, backup, kept, local, cpErrors>>
      BY <1>4 DEF NodeStops, NodeDies, Interrupt, fileVars
    <2>2. UNCHANGED table
      BY <1>4 DEF NodeStops, NodeDies, Shutdown, Crash, Halt
    <2>3. ASSUME NEW q \in Runs PROVE run'[q].step = run[q].step \/ q = client
      <3>1. PICK c : c = ~ Active(run[q])
        OBVIOUS
      <3>2. q # client => run'[q] = [run[q] EXCEPT !.calm = c]
        BY <2>1, <3>1 DEF Interrupt
      <3> QED BY <3>2 DEF RunOK
    <2> QED BY <1>3, <2>1, <2>2, <2>3 DEF Quiet
  <1>5. CASE NodeAppends
    <2>1. CASE HostWritten
      BY <1>5, <2>1 DEF NodeAppends
    <2>2. CASE (AppendKeyTaken \/ AppendFails) /\ UNCHANGED fileVars
      BY <1>5, <2>2 DEF NodeAppends, AppendKeyTaken, AppendFails, fileVars, Quiet
    <2> QED BY <1>5, <2>1, <2>2 DEF NodeAppends
  <1>6. CASE NodePublished \/ NodeRefused
    <2>1. UNCHANGED <<table, copy, backup, kept, local, cpErrors>>
      BY <1>6 DEF NodePublished, NodeRefused, PublishDone, AppendThrows, fileVars
    <2>2. ASSUME NEW q \in Runs PROVE run'[q] = run[q] \/ q = client
      BY <1>6 DEF NodePublished, NodeRefused
    <2> QED BY <1>3, <2>1, <2>2 DEF Quiet
  <1>7. CASE \E id \in DOMAIN table : Edit(id)
    BY <1>7 DEF Edit
  <1>8. ASSUME NEW r \in Runs, BatchStep(r), ~ FileStep(r) PROVE Quiet
    <2>1. ASSUME UNCHANGED <<table, copy, backup, kept, local, cpErrors>>,
                 run[r].step \notin CpSteps \cup QuerySteps,
                 \/ \E step : MoveTo(r, step)
                 \/ \E step, arg : MoveWith(r, step, arg)
                 \/ Fail(r)
          PROVE  Quiet
      <3>1. ASSUME NEW q \in Runs, q # r PROVE run'[q].step = run[q].step
        BY <2>1, <3>1, RunMoves
      <3> QED BY <2>1, <3>1 DEF Quiet
    <2>2. CASE Fire(r) \/ CheckAnswered(r) \/ CheckBlind(r) \/ CheckUnanswered(r)
      <3>1. /\ UNCHANGED <<table, copy, backup, kept, local, cpErrors>>
            /\ run[r].step \in {"waiting", "check"}
        BY <2>2 DEF Fire, CheckAnswered, CheckBlind, CheckUnanswered, fileVars, vars
      <3>2. MoveTo(r, "check") \/ MoveTo(r, "backup") \/ Fail(r)
        BY <2>2 DEF Fire, CheckAnswered, CheckBlind, CheckUnanswered
      <3> QED BY <2>1, <3>1, <3>2 DEF CpSteps, QuerySteps
    <2>3. CASE Char2Hex(r) \/ SignTrxCall(r)
      <3>1. /\ UNCHANGED <<table, copy, backup, kept, local, cpErrors>>
            /\ run[r].step \in {"char2hex", "sign_trx"}
        BY <2>3 DEF Char2Hex, SignTrxCall, fileVars, vars
      <3>2. \/ MoveTo(r, "sign_trx") \/ MoveWith(r, "sign_trx", "lost")
            \/ MoveTo(r, "push") \/ MoveWith(r, "push", "lost") \/ Fail(r)
        BY <2>3 DEF Char2Hex, SignTrxCall
      <3> QED BY <2>1, <3>1, <3>2 DEF CpSteps, QuerySteps
    <2>4. CASE Push(r) \/ PushLost(r)
      <3>1. /\ UNCHANGED <<table, copy, backup, kept, local, cpErrors>>
            /\ run[r].step = "push"
        BY <2>4 DEF Push, PushLost, PushAccept, PushReject, fileVars, vars
      <3>2. MoveWith(r, "publish", "good") \/ Fail(r)
        BY <2>4 DEF Push, PushLost
      <3> QED BY <2>1, <3>1, <3>2 DEF CpSteps, QuerySteps
    <2>5. CASE (\E now \in Times : Publish(r, now)) \/ PublishRefused(r)
      <3>1. /\ UNCHANGED <<table, copy, backup, kept, local, cpErrors>>
            /\ run[r].step = "publish"
        BY <2>5 DEF Publish, PublishBuild, PublishRefused, PublishThrows, fileVars
      <3>2. MoveTo(r, "await") \/ Fail(r)
        BY <2>5 DEF Publish, PublishRefused
      <3> QED BY <2>1, <3>1, <3>2 DEF CpSteps, QuerySteps
    <2>6. CASE PublishLost(r)
      <3>1. /\ UNCHANGED <<table, copy, backup, kept, local, cpErrors>>
            /\ run[r].step = "publish" /\ run' = [run EXCEPT ![r] = Succeeded(run[r])]
        BY <2>6 DEF PublishLost, fileVars, vars
      <3>2. \A q \in Runs : q # r => run'[q] = run[q]
        BY <3>1 DEF RunOK
      <3> QED BY <3>1, <3>2 DEF Quiet, CpSteps, QuerySteps
    <2> QED BY <1>8, <2>2, <2>3, <2>4, <2>5, <2>6 DEF BatchStep, FileStep
  <1> QED BY <1>1, <1>2, <1>4, <1>5, <1>6, <1>7, <1>8 DEF BatchNext

(* A run that is at no cp and no query has nothing to say of the files. *)
LEMMA IdleRun ==
    ASSUME NEW r \in Runs, RunFiles(r), run[r].step \notin CpSteps \cup QuerySteps
    PROVE  ~ InCp(r) /\ ~ local[r].clean
  BY DEF RunFiles, OwnCopy, CpSteps, QuerySteps

(* What a clean run says of the files depends on this much of the state. *)
LEMMA OwnKept ==
    ASSUME NEW r \in Runs, OwnCopy(r), UNCHANGED <<copy, kept>>, run'[r].step = run[r].step,
           local'[r] = local[r], run[r].step = "copy" => UNCHANGED table,
           \A q \in Runs \ {r} : InCp(q)' => InCp(q)
    PROVE  OwnCopy(r)' /\ (OwnQueries(r) => OwnQueries(r)')
  <1>1. OwnCopy(r)'
    BY DEF OwnCopy, InCp, QuerySteps
  <1>2. ASSUME OwnQueries(r) PROVE OwnQueries(r)'
    <2>1. /\ run'[r].step \in {"backblock", "compare"} =>
                local'[r].maxid = UNION {LastID(t) : t \in kept'}
      BY <1>2 DEF OwnQueries
    <2>2. run'[r].step = "compare" => local'[r].backblock = Printed(kept', local'[r].maxid)
      BY <1>2 DEF OwnQueries
    <2>3. run'[r].step = "replace" => \A old \in kept', new \in copy' : LastRowIn(old, new)
      BY <1>2 DEF OwnQueries
    <2> QED BY <2>1, <2>2, <2>3 DEF OwnQueries, LastRowIn, LastID, Printed
  <1> QED BY <1>1, <1>2

(* A quiet step. *)
LEMMA QuietBackup ==
    ASSUME NodeInv, NodeInv', BackupInv, [BatchNext]_tvars, Quiet
    PROVE  BackupInv'
  <1>1. UNCHANGED <<table, copy, backup, kept, local, cpErrors>>
    BY DEF Quiet
  <1>2. LocalOK'
    BY <1>1 DEF BackupInv, LocalOK, IsLocal
  <1>3. PastFile(copy)' /\ PastFile(kept)'
    BY <1>1, SharedPast
  <1>4. ASSUME NEW r \in Runs PROVE RunFiles(r)'
    <2>1. RunFiles(r) /\ InCp(r)' = InCp(r) /\ \A q \in Runs : InCp(q)' => InCp(q)
      BY <1>1 DEF BackupInv, InCp
    <2>2. (\A file \in local[r].may : PastFile(file))'
      BY <1>1, MayPast
    <2>3. CASE run[r].step \notin CpSteps \cup QuerySteps
      <3>1. ~ InCp(r) /\ ~ local[r].clean
        BY <2>1, <2>3, IdleRun
      <3> QED BY <1>1, <2>1, <2>2, <3>1 DEF RunFiles
    <2>4. CASE run'[r].step = run[r].step
      <3>1. local[r].clean => OwnCopy(r)' /\ (OwnQueries(r) => OwnQueries(r)')
        BY <1>1, <2>1, <2>4, OwnKept DEF RunFiles
      <3> QED BY <1>1, <2>1, <2>2, <2>4, <3>1 DEF RunFiles
    <2> QED BY <2>3, <2>4 DEF Quiet
  <1> QED BY <1>1, <1>2, <1>3, <1>4 DEF BackupInv

(* blocks.db is written, by the node or an editor. *)
LEMMA HostBackup ==
    ASSUME NodeInv, NodeInv', BackupInv, [BatchNext]_tvars, HostWritten, UNCHANGED run
    PROVE  BackupInv'
  <1>1. /\ UNCHANGED <<copy, backup, kept, cpErrors, run>>
        /\ LocalOK
    BY DEF HostWritten, BackupInv
  <1>2. ASSUME NEW r \in Runs
        PROVE  /\ IsLocal(local'[r])
               /\ \/ local'[r] = local[r] /\ (InCp(r) => run[r].step \notin {"first", "copy"})
                  \/ /\ InCp(r) /\ run[r].step \in {"first", "copy"}
                     /\ local'[r].may = local[r].may \cup {{}, {table'}}
                     /\ local'[r].clean = FALSE
    <2>1. IsLocal(local[r])
      BY <1>1 DEF LocalOK
    <2>2. PICK m, s : /\ m = local[r].may \cup {{}, {table'}}
                      /\ s = [local[r] EXCEPT !.may = m, !.clean = FALSE]
      OBVIOUS
    <2>3. IsLocal(s) /\ s.may = m /\ s.clean = FALSE
      BY <2>1, <2>2 DEF IsLocal
    <2>4. CASE InCp(r) /\ run[r].step \in {"first", "copy"}
      <3>1. local'[r] = s
        BY <2>2, <2>4 DEF HostWritten
      <3> QED BY <2>2, <2>3, <2>4, <3>1
    <2>5. CASE ~ (InCp(r) /\ run[r].step \in {"first", "copy"})
      <3>1. local'[r] = local[r]
        BY <2>5 DEF HostWritten
      <3> QED BY <2>1, <2>5, <3>1
    <2> QED BY <2>4, <2>5
  <1>3. LocalOK'
    <2>1. local' = [r \in Runs |-> local'[r]]
      BY DEF HostWritten
    <2> QED BY <1>1, <1>2, <2>1 DEF LocalOK
  <1>4. PastFile(copy)' /\ PastFile(kept)'
    BY <1>1, SharedPast
  <1>5. \A q \in Runs : InCp(q)' => InCp(q)
    BY <1>2 DEF InCp
  <1>6. ASSUME NEW r \in Runs PROVE RunFiles(r)'
    <2>1. RunFiles(r)
      BY DEF BackupInv
    <2>2. (\A file \in local[r].may : PastFile(file))'
      BY <1>2, MayPast
    <2>3. CASE local'[r].clean = FALSE
      BY <1>1, <1>5, <2>1, <2>2, <2>3 DEF RunFiles
    <2>4. CASE local'[r] = local[r] /\ (InCp(r) => run[r].step \notin {"first", "copy"})
      <3>1. ASSUME local[r].clean PROVE OwnCopy(r)' /\ (OwnQueries(r) => OwnQueries(r)')
        <4>1. OwnCopy(r)
          BY <2>1, <3>1 DEF RunFiles
        <4>2. run[r].step # "copy"
          BY <2>4, <4>1 DEF OwnCopy, InCp, QuerySteps
        <4> QED BY <1>1, <1>5, <2>4, <4>1, <4>2, OwnKept
      <3> QED BY <1>1, <1>5, <2>1, <2>2, <2>4, <3>1 DEF RunFiles
    <2> QED BY <1>2, <2>3, <2>4
  <1> QED BY <1>1, <1>3, <1>4, <1>6 DEF BackupInv

(* The cp of one run: every other run is disturbed, and none enters or leaves its own. *)
LEMMA WritesFacts ==
    ASSUME LocalOK, NEW r \in Runs, NEW target, NEW file, NEW state, IsLocal(state),
           Writes(r, target, file, state)
    PROVE  /\ local' = [q \in Runs |-> local'[q]]
           /\ \A q \in Runs : IsLocal(local'[q])
           /\ local'[r] = state
           /\ \A q \in Runs \ {r} :
                 /\ local'[q].clean = FALSE
                 /\ InCp(q)' = InCp(q)
                 /\ local'[q].may \subseteq local[q].may \cup {{}, file}
  <1>1. /\ local' = [q \in Runs |-> local'[q]]
        /\ local'[r] = state
        /\ \A q \in Runs \ {r} :
              local'[q] = Disturbed(local[q], run[q].step, run[r].step, file)
    BY DEF Writes
  <1>2. ASSUME NEW q \in Runs \ {r}
        PROVE  /\ IsLocal(local'[q])
               /\ local'[q].clean = FALSE
               /\ InCp(q)' = InCp(q)
               /\ local'[q].may \subseteq local[q].may \cup {{}, file}
    <2>1. IsLocal(local[q])
      BY DEF LocalOK
    <2>2. PICK m : m = IF local[q].may # {} /\ Hits(run[r].step, run[q].step)
                       THEN local[q].may \cup {{}, file} ELSE local[q].may
      OBVIOUS
    <2>3. local'[q] = [local[q] EXCEPT !.clean = FALSE, !.may = m]
      BY <1>1, <2>1, <2>2 DEF Disturbed, IsLocal
    <2>4. IsLocal(local'[q]) /\ local'[q].clean = FALSE /\ local'[q].may = m
      BY <2>1, <2>3 DEF IsLocal
    <2>5. m \subseteq local[q].may \cup {{}, file} /\ (m = {}) = (local[q].may = {})
      BY <2>2
    <2> QED BY <2>4, <2>5 DEF InCp
  <1> QED BY <1>1, <1>2

(* The runs that are disturbed keep what they still have to say. *)
LEMMA DisturbedRun ==
    ASSUME NodeInv, NodeInv', BackupInv, [BatchNext]_tvars, NEW q \in Runs,
           run'[q].step = run[q].step, local'[q].clean = FALSE, InCp(q)' = InCp(q),
           local'[q].may \subseteq local[q].may \cup {{}} \cup UNION {local[r].may : r \in Runs}
    PROVE  RunFiles(q)'
  <1>1. RunFiles(q)
    BY DEF BackupInv
  <1>2. (\A file \in local[q].may : PastFile(file))'
    BY MayPast
  <1> QED BY <1>1, <1>2 DEF RunFiles

(* A cp begins. *)
LEMMA CpBeginsBackup ==
    ASSUME NodeInv, NodeInv', BackupInv, [BatchNext]_tvars, NEW r \in Runs, CpBegins(r)
    PROVE  BackupInv'
  <1>1. /\ LocalOK /\ RunFiles(r) /\ IsLocal(local[r])
        /\ run[r].step \in CpSteps /\ ~ InCp(r)
        /\ UNCHANGED <<table, kept, run, cpErrors>>
    BY DEF BackupInv, LocalOK, CpBegins, vars
  <1>2. PICK others, m, w, c :
           /\ others = {q \in Runs \ {r} : InCp(q)}
           /\ m = {Source(run[r].step)} \cup
                  (IF \E q \in others : Hits(run[q].step, run[r].step) THEN {{}} ELSE {})
           /\ w = (local[r].whole \/ run[r].step = "copy")
           /\ c = (others = {} /\ (local[r].clean \/ run[r].step = "copy"))
    OBVIOUS
  <1>3. PICK s : s = [local[r] EXCEPT !.may = m, !.whole = w, !.clean = c]
    OBVIOUS
  <1>4. /\ IsLocal(s) /\ s.may = m /\ s.whole = w /\ s.clean = c
        /\ s.maxid = local[r].maxid /\ s.backblock = local[r].backblock
    BY <1>1, <1>2, <1>3 DEF IsLocal
  <1>5. Writes(r, {}, {}, s)
    BY <1>1, <1>2, <1>3 DEF CpBegins, IsLocal
  <1>6. /\ local' = [q \in Runs |-> local'[q]] /\ \A q \in Runs : IsLocal(local'[q])
        /\ local'[r] = s
        /\ \A q \in Runs \ {r} : /\ local'[q].clean = FALSE
                                 /\ InCp(q)' = InCp(q)
                                 /\ local'[q].may \subseteq local[q].may \cup {{}}
    <2>1. PICK none : none = {}
      OBVIOUS
    <2>2. LocalOK /\ IsLocal(s) /\ Writes(r, none, none, s)
      BY <1>1, <1>4, <1>5, <2>1
    <2>3. /\ local' = [q \in Runs |-> local'[q]] /\ \A q \in Runs : IsLocal(local'[q])
          /\ local'[r] = s
          /\ \A q \in Runs \ {r} : /\ local'[q].clean = FALSE
                                   /\ InCp(q)' = InCp(q)
                                   /\ local'[q].may \subseteq local[q].may \cup {{}, none}
      BY ONLY <2>2, WritesFacts, r \in Runs
    <2> QED BY <2>1, <2>3
  <1>7. LocalOK'
    BY <1>1, <1>6 DEF LocalOK
  <1>8. /\ copy' \in {{}, copy} /\ backup' \in {{}, backup}
        /\ run[r].step # "copy" => copy' = copy
    BY <1>5 DEF Writes, Put
  <1>9. PastFile(copy)' /\ PastFile(kept)' /\ backup' \in {{}, kept'}
    <2>1. PastFile(copy)' /\ PastFile(kept)'
      BY <1>1, <1>8, SharedPast
    <2> QED BY <1>1, <1>8, <2>1 DEF BackupInv
  <1>10. RunFiles(r)'
    <2>1. m \subseteq {{}, copy, {table}} /\ m # {}
      BY <1>2 DEF Source
    <2>2. (\A file \in local[r].may : PastFile(file))'
      <3>1. local'[r].may \subseteq {{}, copy, {table}}
        BY <1>4, <1>6, <2>1
      <3> QED BY <3>1, MayPast
    <2>3. InCp(r)' /\ run'[r].step \in CpSteps
      BY <1>1, <1>4, <1>6, <2>1 DEF InCp
    <2>4. ASSUME c PROVE OwnCopy(r)'
      <3>1. /\ others = {} /\ m = {Source(run[r].step)}
            /\ \A q \in Runs \ {r} : ~ InCp(q)'
        BY <1>2, <1>6, <2>4
      <3>2. CASE run[r].step = "copy"
        <4>1. local'[r].may = {{table'}}
          BY <1>1, <1>4, <1>6, <3>1, <3>2 DEF Source
        <4> QED BY <1>1, <3>1, <3>2, <4>1 DEF OwnCopy
      <3>3. CASE run[r].step # "copy"
        <4>1. OwnCopy(r)
          BY <1>1, <1>2, <2>4, <3>3 DEF RunFiles
        <4>2. /\ run[r].step = "replace" /\ copy # {}
              /\ \A old \in kept, new \in copy : DOMAIN old \subseteq DOMAIN new
          BY <1>1, <3>3, <4>1 DEF OwnCopy, CpSteps, QuerySteps
        <4>3. local'[r].may = {copy'} /\ copy' = copy
          BY <1>4, <1>6, <1>8, <3>1, <4>2 DEF Source
        <4> QED BY <1>1, <3>1, <4>2, <4>3 DEF OwnCopy
      <3> QED BY <3>2, <3>3
    <2>5. ASSUME c, w PROVE OwnQueries(r)'
      <3>1. CASE run[r].step = "copy"
        BY <1>1, <3>1 DEF OwnQueries
      <3>2. CASE run[r].step # "copy"
        <4>1. OwnCopy(r) /\ OwnQueries(r)
          BY <1>1, <1>2, <2>5, <3>2 DEF RunFiles
        <4>2. run'[r].step = "replace" /\ UNCHANGED <<copy, kept>>
          BY <1>1, <1>8, <3>2, <4>1 DEF OwnCopy, CpSteps, QuerySteps
        <4>3. \A old \in kept, new \in copy : LastRowIn(old, new)
          BY <1>1, <4>1, <4>2 DEF OwnQueries
        <4> QED BY <4>2, <4>3 DEF OwnQueries, LastRowIn
      <3> QED BY <3>1, <3>2
    <2> QED BY <1>4, <1>6, <2>2, <2>3, <2>4, <2>5 DEF RunFiles
  <1>11. ASSUME NEW q \in Runs \ {r} PROVE RunFiles(q)'
    BY <1>1, <1>6, DisturbedRun
  <1> QED BY <1>7, <1>9, <1>10, <1>11 DEF BackupInv

(***************************************************************************)
(* How a cp ends: it leaves one of the contents it may leave, or breaks    *)
(* off.  The cp of a clean run leaves the one contents that it copied.     *)
(***************************************************************************)
LEMMA CpEndsFacts ==
    ASSUME BackupInv, NEW r \in Runs, CpEnds(r)
    PROVE  \E result, file \in local[r].may \cup {{}}, c \in BOOLEAN :
              /\ Writes(r, result, file, Left(r, c))
              /\ c => local[r].clean /\ local[r].may = {result}
              /\ kept' = IF run[r].step # "copy" /\ result # {} THEN result ELSE kept
              /\ \/ UNCHANGED cpErrors /\ c = local[r].clean
                 \/ cpErrors' = cpErrors + 1 /\ result = {}
  <1>1. LocalOK /\ RunFiles(r) /\ IsLocal(local[r]) /\ InCp(r)
    BY DEF BackupInv, LocalOK, CpEnds
  <1>2. PICK shared \in BOOLEAN :
           shared = \E q \in Runs \ {r} : InCp(q) /\ SameTarget(run[q].step, run[r].step)
    OBVIOUS
  <1>3. ASSUME NEW file \in local[r].may, NEW result, UNCHANGED cpErrors,
               result = (IF shared THEN {} ELSE file),
               Writes(r, result, file, Left(r, local[r].clean)),
               kept' = IF run[r].step # "copy" /\ result # {} THEN result ELSE kept
        PROVE  /\ result \in local[r].may \cup {{}}
               /\ local[r].clean => local[r].may = {result}
    <2>1. ASSUME local[r].clean PROVE local[r].may = {result}
      <3>1. OwnCopy(r)
        BY <1>1, <2>1 DEF RunFiles
      <3>2. ~ shared /\ \E f : local[r].may = {f}
        BY <1>1, <1>2, <3>1 DEF OwnCopy
      <3> QED BY <1>3, <3>2
    <2> QED BY <1>3, <2>1
  <1>4. ASSUME CpFails, Writes(r, {}, {}, Left(r, FALSE)), UNCHANGED kept
        PROVE  cpErrors' = cpErrors + 1
    BY <1>4 DEF CpFails
  <1>5. \/ \E file \in local[r].may : \E result \in {{}, file} :
             /\ UNCHANGED cpErrors /\ result = (IF shared THEN {} ELSE file)
             /\ Writes(r, result, file, Left(r, local[r].clean))
             /\ kept' = IF run[r].step # "copy" /\ result # {} THEN result ELSE kept
        \/ CpFails /\ Writes(r, {}, {}, Left(r, FALSE)) /\ UNCHANGED kept
    BY <1>2 DEF CpEnds
  <1>6. local[r].clean \in BOOLEAN
    BY <1>1 DEF IsLocal
  <1> QED BY <1>3, <1>4, <1>5, <1>6

(* What a run keeps of its cp. *)
LEMMA LeftFacts ==
    ASSUME NEW r \in Runs, NEW c \in BOOLEAN
    PROVE  /\ IsLocal(Left(r, c)) /\ Left(r, c).may = {}
           /\ Left(r, c).clean = (run[r].step = "copy" /\ c)
  BY DEF Left, Fresh, IsLocal

(* Where a run goes after its cp. *)
LEMMA AfterCpMoves ==
    ASSUME RunOK, NEW r \in Runs, AfterCp(r)
    PROVE  /\ \A q \in Runs \ {r} : run'[q].step = run[q].step
           /\ run[r].step = "copy" => run'[r].step = "maxid"
  <1>1. \/ run[r].step = "copy" /\ MoveTo(r, "maxid")
        \/ run[r].step # "copy" /\ (Fail(r) \/ \E arg : MoveWith(r, "char2hex", arg))
    BY DEF AfterCp
  <1> QED BY <1>1, RunMoves

(* A cp ends. *)
LEMMA CpEndsBackup ==
    ASSUME NodeInv, NodeInv', BackupInv, [BatchNext]_tvars, NEW r \in Runs, CpEnds(r)
    PROVE  BackupInv'
  <1>1. /\ LocalOK /\ RunFiles(r) /\ run[r].step \in CpSteps
        /\ UNCHANGED table /\ AfterCp(r)
    BY DEF BackupInv, CpEnds, vars
  <1>2. PICK result, file \in local[r].may \cup {{}}, c \in BOOLEAN :
              /\ Writes(r, result, file, Left(r, c))
              /\ c => local[r].clean /\ local[r].may = {result}
              /\ kept' = IF run[r].step # "copy" /\ result # {} THEN result ELSE kept
              /\ cpErrors' \in {cpErrors, cpErrors + 1}
    BY CpEndsFacts
  <1>3. PICK s : s = Left(r, c) /\ IsLocal(s) /\ s.may = {} /\ s.clean = (run[r].step = "copy" /\ c)
    BY LeftFacts
  <1>4. /\ local' = [q \in Runs |-> local'[q]] /\ \A q \in Runs : IsLocal(local'[q])
        /\ local'[r] = s
        /\ \A q \in Runs \ {r} : /\ local'[q].clean = FALSE
                                 /\ InCp(q)' = InCp(q)
                                 /\ local'[q].may \subseteq local[q].may \cup {{}, file}
    <2>1. LocalOK /\ IsLocal(s) /\ Writes(r, result, file, s)
      BY <1>1, <1>2, <1>3
    <2> QED BY ONLY <2>1, WritesFacts, r \in Runs
  <1>5. LocalOK'
    <2>1. cpErrors' \in Nat
      BY <1>1, <1>2 DEF LocalOK
    <2> QED BY <1>4, <2>1 DEF LocalOK
  <1>6. \/ run[r].step = "copy" /\ copy' = result /\ UNCHANGED <<backup, kept>>
        \/ run[r].step # "copy" /\ copy' = copy /\ backup' = result
    BY <1>2 DEF Writes, Put
  <1>7. PastFile(copy)' /\ PastFile(kept)'
    BY <1>2, <1>6, SharedPast
  <1>8. backup' \in {{}, kept'}
    BY <1>2, <1>6 DEF BackupInv
  <1>9. (\A q \in Runs \ {r} : run'[q].step = run[q].step)
        /\ (run[r].step = "copy" => run'[r].step = "maxid")
    BY <1>1, AfterCpMoves DEF NodeInv
  <1>10. RunFiles(r)'
    <2>1. ~ InCp(r)' /\ local'[r].may = {}
      BY <1>3, <1>4 DEF InCp
    <2>2. ASSUME local'[r].clean PROVE OwnCopy(r)' /\ OwnQueries(r)'
      <3>1. run[r].step = "copy" /\ local[r].clean /\ local[r].may = {result}
        BY <1>2, <1>3, <1>4, <2>2
      <3>2. OwnCopy(r)
        BY <1>1, <3>1 DEF RunFiles
      <3>3. result = {table} /\ \A q \in Runs \ {r} : ~ InCp(q)'
        BY <1>4, <3>1, <3>2 DEF OwnCopy, QuerySteps
      <3>4. copy' = {table} /\ kept' = kept /\ run'[r].step = "maxid"
        BY <1>6, <1>9, <3>1, <3>3
      <3>5. \A old \in kept : DOMAIN old \subseteq DOMAIN table
        BY DEF BackupInv, PastFile, Past
      <3>6. OwnCopy(r)'
        BY <2>1, <3>3, <3>4, <3>5 DEF OwnCopy, QuerySteps
      <3>7. OwnQueries(r)'
        BY <3>4 DEF OwnQueries
      <3> QED BY <3>6, <3>7
    <2> QED BY <2>1, <2>2 DEF RunFiles
  <1>11. ASSUME NEW q \in Runs \ {r} PROVE RunFiles(q)'
    BY <1>2, <1>4, <1>9, DisturbedRun
  <1> QED BY <1>5, <1>7, <1>8, <1>10, <1>11 DEF BackupInv

(* A step that concerns one run and no file leaves the other runs as they are. *)
LEMMA OthersKept ==
    ASSUME NodeInv, NodeInv', BackupInv, [BatchNext]_tvars, NEW r \in Runs, NEW q \in Runs \ {r},
           UNCHANGED <<table, copy, kept>>,
           run'[q].step = run[q].step, local'[q] = local[q],
           \A p \in Runs : InCp(p)' => InCp(p)
    PROVE  RunFiles(q)'
  <1>1. RunFiles(q)
    BY DEF BackupInv
  <1>2. (\A file \in local[q].may : PastFile(file))'
    BY MayPast
  <1>3. local[q].clean => OwnCopy(q)' /\ (OwnQueries(q) => OwnQueries(q)')
    BY <1>1, OwnKept DEF RunFiles
  <1> QED BY <1>1, <1>2, <1>3 DEF RunFiles

(* Such a step, if the run itself is in order after it. *)
LEMMA OneRun ==
    ASSUME NodeInv, NodeInv', BackupInv, [BatchNext]_tvars, NEW r \in Runs, NEW state,
           UNCHANGED <<table, copy, backup, kept>>, cpErrors' \in Nat,
           \A q \in Runs \ {r} : run'[q].step = run[q].step,
           local' = [local EXCEPT ![r] = state], IsLocal(state), state.may = {},
           RunFiles(r)'
    PROVE  BackupInv'
  <1>1. /\ local'[r] = state /\ \A q \in Runs \ {r} : local'[q] = local[q]
        /\ local' = [q \in Runs |-> local'[q]]
    BY DEF BackupInv, LocalOK
  <1>2. LocalOK'
    BY <1>1 DEF BackupInv, LocalOK
  <1>3. PastFile(copy)' /\ PastFile(kept)'
    BY SharedPast
  <1>4. \A q \in Runs : InCp(q)' => InCp(q)
    BY <1>1 DEF InCp
  <1>5. ASSUME NEW q \in Runs \ {r} PROVE RunFiles(q)'
    BY <1>1, <1>4, OthersKept
  <1> QED BY <1>2, <1>3, <1>5 DEF BackupInv

(* A cp that is refused. *)
LEMMA CpRefusedBackup ==
    ASSUME NodeInv, NodeInv', BackupInv, [BatchNext]_tvars, NEW r \in Runs, CpRefused(r)
    PROVE  BackupInv'
  <1>1. PICK s : s = Left(r, FALSE) /\ IsLocal(s) /\ s.may = {} /\ s.clean = FALSE
    BY LeftFacts
  <1>2. /\ UNCHANGED <<table, copy, backup, kept>> /\ local' = [local EXCEPT ![r] = s]
        /\ cpErrors' = cpErrors + 1 /\ AfterCp(r)
    BY <1>1 DEF CpRefused, CpFails, vars
  <1>3. cpErrors' \in Nat
    BY <1>2 DEF BackupInv, LocalOK
  <1>4. \A q \in Runs \ {r} : run'[q].step = run[q].step
    BY <1>2, AfterCpMoves DEF NodeInv
  <1>5. local'[r] = s
    BY <1>2 DEF BackupInv, LocalOK
  <1>6. RunFiles(r)'
    BY <1>1, <1>5 DEF RunFiles, InCp
  <1> QED BY <1>1, <1>2, <1>3, <1>4, <1>6, OneRun

(* What a clean run at a query or past it has. *)
LEMMA OwnQuery ==
    ASSUME NEW r \in Runs, OwnCopy(r), run[r].step \in QuerySteps,
           UNCHANGED <<copy, kept>>, run'[r].step \in QuerySteps \cup {"replace"},
           \A q \in Runs : InCp(q)' => InCp(q), ~ InCp(r)'
    PROVE  OwnCopy(r)'
  BY DEF OwnCopy, QuerySteps

(* The two queries of the backup. *)
LEMMA QueryBackup ==
    ASSUME NodeInv, NodeInv', BackupInv, [BatchNext]_tvars, NEW r \in Runs,
           ReadMaxID(r) \/ ReadBackBlock(r)
    PROVE  BackupInv'
  <1>1. /\ LocalOK /\ RunFiles(r) /\ IsLocal(local[r]) /\ backup \in {{}, kept}
        /\ run[r].step \in {"maxid", "backblock"}
        /\ UNCHANGED <<table, copy, backup, kept, cpErrors>>
    BY DEF BackupInv, LocalOK, ReadMaxID, ReadBackBlock, vars
  <1>2. ~ InCp(r) /\ local[r].may = {}
    BY <1>1 DEF RunFiles, CpSteps, InCp
  <1>3. PICK w : w = (local[r].whole /\ backup # {})
    OBVIOUS
  <1>4. PICK i, b, next, s :
           /\ \/ /\ run[r].step = "maxid" /\ next = "backblock"
                 /\ i = UNION {LastID(t) : t \in backup} /\ b = local[r].backblock
              \/ /\ run[r].step = "backblock" /\ next = "compare"
                 /\ i = local[r].maxid /\ b = Printed(backup, local[r].maxid)
           /\ MoveTo(r, next)
           /\ s = [may |-> local[r].may, maxid |-> i, backblock |-> b,
                   whole |-> w, clean |-> local[r].clean]
           /\ local' = [local EXCEPT ![r] = s]
    <2>1. CASE ReadMaxID(r)
      <3>1. PICK i, s : /\ i = UNION {LastID(t) : t \in backup}
                        /\ s = [local[r] EXCEPT !.maxid = i, !.whole = w]
        OBVIOUS
      <3>2. s = [may |-> local[r].may, maxid |-> i, backblock |-> local[r].backblock,
                 whole |-> w, clean |-> local[r].clean]
        BY <1>1, <3>1 DEF IsLocal
      <3>3. local' = [local EXCEPT ![r] = s]
        BY <1>1, <1>3, <2>1, <3>1 DEF ReadMaxID, LocalOK, IsLocal
      <3>4. run[r].step = "maxid" /\ MoveTo(r, "backblock")
        BY <2>1 DEF ReadMaxID
      <3>5. PICK b : b = local[r].backblock
        OBVIOUS
      <3>6. /\ run[r].step = "maxid" /\ i = UNION {LastID(t) : t \in backup}
            /\ b = local[r].backblock /\ MoveTo(r, "backblock")
            /\ s = [may |-> local[r].may, maxid |-> i, backblock |-> b,
                    whole |-> w, clean |-> local[r].clean]
            /\ local' = [local EXCEPT ![r] = s]
        BY <3>1, <3>2, <3>3, <3>4, <3>5
      <3> QED BY <3>6
    <2>2. CASE ReadBackBlock(r)
      <3>1. PICK b, s : /\ b = Printed(backup, local[r].maxid)
                        /\ s = [local[r] EXCEPT !.backblock = b, !.whole = w]
        OBVIOUS
      <3>2. s = [may |-> local[r].may, maxid |-> local[r].maxid, backblock |-> b,
                 whole |-> w, clean |-> local[r].clean]
        BY <1>1, <3>1 DEF IsLocal
      <3>3. local' = [local EXCEPT ![r] = s]
        BY <1>1, <1>3, <2>2, <3>1 DEF ReadBackBlock, LocalOK, IsLocal
      <3>4. run[r].step = "backblock" /\ MoveTo(r, "compare")
        BY <2>2 DEF ReadBackBlock
      <3>5. PICK i : i = local[r].maxid
        OBVIOUS
      <3>6. /\ run[r].step = "backblock" /\ i = local[r].maxid /\ b = Printed(backup, local[r].maxid)
            /\ MoveTo(r, "compare")
            /\ s = [may |-> local[r].may, maxid |-> i, backblock |-> b,
                    whole |-> w, clean |-> local[r].clean]
            /\ local' = [local EXCEPT ![r] = s]
        BY <3>1, <3>2, <3>3, <3>4, <3>5
      <3> QED BY <3>6
    <2> QED BY <2>1, <2>2
  <1>5. /\ IsLocal(s) /\ s.may = {} /\ s.maxid = i /\ s.backblock = b
        /\ s.whole = w /\ s.clean = local[r].clean
    BY <1>1, <1>2, <1>3, <1>4 DEF IsLocal
  <1>6. run'[r].step = next /\ \A q \in Runs \ {r} : run'[q].step = run[q].step
    BY <1>4, RunMoves DEF NodeInv
  <1>7. local'[r] = s /\ \A q \in Runs \ {r} : local'[q] = local[q]
    BY <1>1, <1>4 DEF LocalOK
  <1>8. ~ InCp(r)' /\ \A q \in Runs : InCp(q)' => InCp(q)
    BY <1>5, <1>7 DEF InCp
  <1>9. ASSUME local[r].clean PROVE OwnCopy(r)'
    <2>1. OwnCopy(r) /\ run[r].step \in QuerySteps /\ run'[r].step \in QuerySteps
      BY <1>1, <1>4, <1>6, <1>9 DEF RunFiles, QuerySteps
    <2> QED BY <1>1, <1>8, <2>1, OwnQuery
  <1>10. ASSUME local[r].clean, w PROVE OwnQueries(r)'
    <2>1. OwnQueries(r) /\ backup = kept
      BY <1>1, <1>3, <1>10 DEF RunFiles
    <2>2. i = UNION {LastID(t) : t \in kept}
      BY <1>4, <2>1 DEF OwnQueries
    <2>3. next = "compare" => b = Printed(kept, i)
      BY <1>4, <2>1
    <2>4. next # "replace"
      BY <1>4
    <2>5. kept' = kept /\ local'[r].maxid = i /\ local'[r].backblock = b /\ run'[r].step = next
      BY <1>1, <1>5, <1>6, <1>7
    <2>6. /\ local'[r].maxid = UNION {LastID(t) : t \in kept'}
          /\ run'[r].step = "compare" => local'[r].backblock = Printed(kept', local'[r].maxid)
          /\ run'[r].step # "replace"
      BY <2>2, <2>3, <2>4, <2>5
    <2> QED BY <2>6 DEF OwnQueries
  <1>11. RunFiles(r)'
    BY <1>5, <1>7, <1>8, <1>9, <1>10 DEF RunFiles
  <1>12. cpErrors' \in Nat
    BY <1>1 DEF LocalOK
  <1> QED BY <1>1, <1>4, <1>5, <1>6, <1>11, <1>12, OneRun

(***************************************************************************)
(* Two rows that are printed for the last number of the backup, and equal, *)
(* are the row of that number in both databases.                           *)
(***************************************************************************)
LEMMA PrintedSame ==
    ASSUME NEW file, NEW other, NEW ids, \A a, b \in file : a = b, \A a, b \in other : a = b,
           \A t \in file : DOMAIN t \subseteq Nat,
           ids = UNION {LastID(t) : t \in file},
           Printed(other, ids) = Printed(file, ids),
           NEW old \in file, NEW new \in other
    PROVE  LastRowIn(old, new)
  <1> SUFFICES ASSUME NEW id \in LastID(old) PROVE id \in DOMAIN new /\ new[id] = old[id]
    BY DEF LastRowIn
  <1>1. id \in ids /\ id \in DOMAIN old
    BY DEF LastID
  <1>2. old[id] \in Printed(file, ids)
    BY <1>1 DEF Printed
  <1>3. PICK t \in other : \E j \in ids \cap DOMAIN t : t[j] = old[id]
    BY <1>2 DEF Printed
  <1>4. PICK j \in ids \cap DOMAIN new : new[j] = old[id]
    BY <1>3
  <1>5. j \in LastID(old)
    BY <1>4
  <1>6. j = id
    <2>1. j \in DOMAIN old /\ j <= id /\ id <= j
      BY <1>5 DEF LastID
    <2>2. j \in Nat /\ id \in Nat
      BY <1>1, <2>1
    <2> QED BY <2>1, <2>2
  <1> QED BY <1>4, <1>6

(* The comparison. *)
LEMMA CompareBackup ==
    ASSUME NodeInv, NodeInv', BackupInv, [BatchNext]_tvars, NEW r \in Runs, Compare(r)
    PROVE  BackupInv'
  <1>1. /\ LocalOK /\ RunFiles(r) /\ IsLocal(local[r])
        /\ run[r].step = "compare"
        /\ UNCHANGED <<table, copy, backup, kept, cpErrors>>
    BY DEF BackupInv, LocalOK, Compare, vars
  <1>2. PICK whole \in BOOLEAN : whole = (local[r].whole /\ copy # {})
    BY <1>1 DEF IsLocal
  <1>3. PICK s : s = [Fresh EXCEPT !.whole = whole, !.clean = local[r].clean]
    OBVIOUS
  <1>4. /\ IsLocal(s) /\ s.may = {} /\ s.whole = whole /\ s.clean = local[r].clean
        /\ IsLocal(Fresh) /\ Fresh.may = {} /\ Fresh.clean = FALSE
    BY <1>1, <1>2, <1>3 DEF IsLocal, Fresh
  <1>5. cpErrors' \in Nat
    BY <1>1 DEF LocalOK
  <1>6. \/ /\ whole => Printed(copy, local[r].maxid) = local[r].backblock
           /\ local' = [local EXCEPT ![r] = s] /\ MoveTo(r, "replace")
        \/ local' = [local EXCEPT ![r] = Fresh] /\ Fail(r)
    BY <1>2, <1>3 DEF Compare
  <1>7. CASE local' = [local EXCEPT ![r] = Fresh] /\ Fail(r)
    <2>1. \A q \in Runs \ {r} : run'[q].step = run[q].step
      BY <1>7, RunMoves DEF NodeInv
    <2>2. local'[r] = Fresh
      BY <1>1, <1>7 DEF LocalOK
    <2>3. RunFiles(r)'
      BY <1>4, <2>2 DEF RunFiles, InCp
    <2>4. PICK f : f = Fresh
      OBVIOUS
    <2> QED BY <1>1, <1>4, <1>5, <1>7, <2>1, <2>3, <2>4, OneRun
  <1>8. CASE /\ whole => Printed(copy, local[r].maxid) = local[r].backblock
             /\ local' = [local EXCEPT ![r] = s] /\ MoveTo(r, "replace")
    <2>1. run'[r].step = "replace" /\ \A q \in Runs \ {r} : run'[q].step = run[q].step
      BY <1>8, RunMoves DEF NodeInv
    <2>2. local'[r] = s /\ \A q \in Runs \ {r} : local'[q] = local[q]
      BY <1>1, <1>8 DEF LocalOK
    <2>3. ~ InCp(r)' /\ \A q \in Runs : InCp(q)' => InCp(q)
      BY <1>4, <2>2 DEF InCp
    <2>4. ASSUME local[r].clean PROVE OwnCopy(r)'
      <3>1. OwnCopy(r) /\ run[r].step \in QuerySteps
        BY <1>1, <2>4 DEF RunFiles, QuerySteps
      <3> QED BY <1>1, <2>1, <2>3, <3>1, OwnQuery
    <2>5. ASSUME local[r].clean, whole PROVE OwnQueries(r)'
      <3>1. OwnQueries(r)
        BY <1>1, <1>2, <2>5 DEF RunFiles
      <3>2. /\ local[r].maxid = UNION {LastID(t) : t \in kept}
            /\ Printed(copy, local[r].maxid) = Printed(kept, local[r].maxid)
        BY <1>1, <1>8, <2>5, <3>1 DEF OwnQueries
      <3>3. /\ \A a, b \in kept : a = b
            /\ \A a, b \in copy : a = b
            /\ \A t \in kept : DOMAIN t \subseteq Nat
        BY DEF BackupInv, PastFile, Past, NodeInv, TypeOK, TableOK
      <3>4. \A old \in kept, new \in copy : LastRowIn(old, new)
        BY <3>2, <3>3, PrintedSame
      <3> QED BY <1>1, <2>1, <3>4 DEF OwnQueries, LastRowIn
    <2>6. RunFiles(r)'
      BY <1>4, <2>2, <2>3, <2>4, <2>5 DEF RunFiles
    <2> QED BY <1>1, <1>4, <1>5, <1>8, <2>1, <2>6, OneRun
  <1> QED BY <1>6, <1>7, <1>8

(* Every step keeps the files and what the runs know of them. *)
LEMMA NextBackupInv ==
    ASSUME NodeInv, NodeInv', RunInv, BackupInv, [BatchNext]_tvars
    PROVE  BackupInv'
  <1>1. CASE Quiet
    BY <1>1, QuietBackup
  <1>2. CASE HostWritten /\ UNCHANGED run
    BY <1>2, HostBackup
  <1>3. ASSUME NEW r \in Runs, FileStep(r) PROVE BackupInv'
    <2>1. CASE TestBackup(r)
      <3>1. UNCHANGED <<table, copy, backup, kept, local, cpErrors>> /\ run[r].step = "backup"
        BY <2>1 DEF TestBackup, fileVars, vars
      <3>2. \A q \in Runs \ {r} : run'[q].step = run[q].step
        BY <2>1, RunMoves DEF TestBackup, NodeInv
      <3>3. Quiet
        BY <3>1, <3>2 DEF Quiet, CpSteps, QuerySteps
      <3> QED BY <1>1, <3>3
    <2> QED BY <1>3, <2>1, CpBeginsBackup, CpEndsBackup, CpRefusedBackup, QueryBackup,
               CompareBackup DEF FileStep
  <1> QED BY <1>1, <1>2, <1>3, QuietSteps DEF NodeInv

(* At first there are no files. *)
LEMMA InitBackupInv == BatchInit => BackupInv
  <1> SUFFICES ASSUME BatchInit PROVE BackupInv
    OBVIOUS
  <1>1. /\ copy = {} /\ kept = {} /\ backup = {} /\ cpErrors = 0
        /\ local = [r \in Runs |-> Fresh]
    BY DEF BatchInit
  <1>2. IsLocal(Fresh) /\ Fresh.may = {} /\ Fresh.clean = FALSE
    BY DEF Fresh, IsLocal
  <1>3. LocalOK
    BY <1>1, <1>2 DEF LocalOK
  <1>4. \A r \in Runs : RunFiles(r)
    BY <1>1, <1>2 DEF RunFiles, InCp
  <1> QED BY <1>1, <1>3, <1>4 DEF BackupInv, PastFile

(* The invariant of the node, of the runs and of the files. *)
THEOREM BackupInvariant == BatchSpec => [](NodeInv /\ RunInv /\ BackupInv)
  <1>1. BatchInit => NodeInv /\ RunInv /\ BackupInv
    BY InitNodeInv, InitRunInv, InitBackupInv
  <1>2. NodeInv /\ RunInv /\ BackupInv /\ [BatchNext]_tvars => (NodeInv /\ RunInv /\ BackupInv)'
    BY NextNodeInv, NextRunInv, NextBackupInv
  <1> QED BY <1>1, <1>2, PTL DEF BatchSpec

(* The invariant implies what the run checks of the backup. *)
LEMMA PastBackup == NodeInv /\ BackupInv => BackupIsPast
  <1> SUFFICES ASSUME NodeInv, BackupInv, NEW saved \in kept
               PROVE  /\ edits = 0 => \A id \in DOMAIN saved :
                                         id \in DOMAIN table /\ saved[id] = table[id]
                      /\ sqlErrors = 0 => DOMAIN saved = 0 .. Cardinality(DOMAIN saved) - 1
    BY DEF BackupIsPast
  <1>1. Past(saved)
    BY DEF BackupInv, PastFile
  <1>2. ASSUME sqlErrors = 0 PROVE DOMAIN saved = 0 .. Cardinality(DOMAIN saved) - 1
    <2>1. PICK n \in Nat : DOMAIN saved = 0 .. n - 1
      BY <1>1, <1>2 DEF Past
    <2>2. Cardinality(0 .. n - 1) = n
      BY FS_Interval
    <2> QED BY <2>1, <2>2
  <1> QED BY <1>1, <1>2 DEF Past

(***************************************************************************)
(* A whole backup is an earlier contents of blocks.db unless somebody else *)
(* wrote to it, and its numbers are consecutive unless an SQL statement    *)
(* failed, so that a node restored from it starts: whichever cps overlap   *)
(* or fail, and whatever is stored while they run.                         *)
(***************************************************************************)
THEOREM BackupAlwaysPast == BatchSpec => []BackupIsPast
  BY BackupInvariant, PastBackup, PTL

(* A run leaves the cp into the backup by ending it, and in no other way. *)
LEMMA EndsByCp ==
    ASSUME NodeInv, RunInv, BackupInv, [BatchNext]_tvars, NEW r \in Runs, Ends(r)
    PROVE  CpEnds(r)
  <1>1. LocalOK /\ local[r].may # {} /\ local'[r].may = {} /\ run[r].step \in {"first", "replace"}
    BY DEF Ends, InCp, BackupInv
  <1>2. ~ Quiet
    BY <1>1 DEF Quiet
  <1>3. ~ HostWritten
    <2> SUFFICES ASSUME HostWritten PROVE FALSE
      OBVIOUS
    <2>1. PICK m, s : /\ m = local[r].may \cup {{}, {table'}}
                      /\ s = [local[r] EXCEPT !.may = m, !.clean = FALSE]
      OBVIOUS
    <2>2. s.may = m
      BY <1>1, <2>1 DEF LocalOK, IsLocal
    <2>3. local'[r] = s \/ local'[r] = local[r]
      BY <2>1 DEF HostWritten
    <2> QED BY <1>1, <2>1, <2>2, <2>3
  <1>4. ASSUME NEW q \in Runs, FileStep(q), q # r PROVE FALSE
    <2>1. ASSUME NEW target, NEW file, NEW state, IsLocal(state), Writes(q, target, file, state)
          PROVE  FALSE
      BY <1>1, <1>4, <2>1, WritesFacts DEF InCp
    <2>2. CASE TestBackup(q)
      BY <1>1, <2>2 DEF TestBackup, fileVars
    <2>3. CASE CpBegins(q)
      <3>1. PICK others, m, w, c :
               /\ others = {p \in Runs \ {q} : InCp(p)}
               /\ m = {Source(run[q].step)} \cup
                      (IF \E p \in others : Hits(run[p].step, run[q].step) THEN {{}} ELSE {})
               /\ w = (local[q].whole \/ run[q].step = "copy")
               /\ c = (others = {} /\ (local[q].clean \/ run[q].step = "copy"))
        OBVIOUS
      <3>2. IsLocal(local[q])
        BY <1>1 DEF LocalOK
      <3>3. PICK s : s = [local[q] EXCEPT !.may = m, !.whole = w, !.clean = c]
        OBVIOUS
      <3>4. IsLocal(s)
        BY <3>1, <3>2, <3>3 DEF IsLocal
      <3>5. Writes(q, {}, {}, s)
        BY <2>3, <3>1, <3>2, <3>3 DEF CpBegins, IsLocal
      <3> QED BY <2>1, <3>4, <3>5
    <2>4. CASE CpEnds(q)
      <3>1. PICK result, file \in local[q].may \cup {{}}, c \in BOOLEAN :
               Writes(q, result, file, Left(q, c))
        BY <2>4, CpEndsFacts
      <3>2. IsLocal(Left(q, c))
        BY LeftFacts
      <3> QED BY <2>1, <3>1, <3>2
    <2>5. CASE CpRefused(q) \/ ReadMaxID(q) \/ ReadBackBlock(q) \/ Compare(q)
      <3>1. local'[r] = local[r]
        BY <1>1, <1>4, <2>5 DEF CpRefused, ReadMaxID, ReadBackBlock, Compare, LocalOK
      <3> QED BY <1>1, <3>1
    <2> QED BY <1>4, <2>2, <2>3, <2>4, <2>5 DEF FileStep
  <1>5. FileStep(r)
    BY <1>2, <1>3, <1>4, QuietSteps DEF NodeInv
  <1> QED BY <1>1, <1>5 DEF FileStep, TestBackup, CpBegins, CpRefused, ReadMaxID, ReadBackBlock,
                            Compare, InCp

(* The cp of a clean run into the backup moves the run's own copy. *)
LEMMA CleanEnd ==
    ASSUME BackupInv, NEW r \in Runs, CpEnds(r), local[r].clean, run[r].step # "copy"
    PROVE  /\ OwnCopy(r) /\ run[r].step = "replace"
           /\ \/ cpErrors' = cpErrors + 1 /\ UNCHANGED kept
              \/ backup' = copy /\ kept' = copy
  <1>1. OwnCopy(r) /\ run[r].step \in CpSteps /\ InCp(r)
    BY DEF BackupInv, RunFiles, CpEnds
  <1>2. run[r].step = "replace" /\ copy # {} /\ local[r].may = {copy}
    BY <1>1 DEF OwnCopy, CpSteps, QuerySteps
  <1>3. PICK result, file \in local[r].may \cup {{}}, c \in BOOLEAN :
              /\ Writes(r, result, file, Left(r, c))
              /\ c => local[r].clean /\ local[r].may = {result}
              /\ kept' = IF run[r].step # "copy" /\ result # {} THEN result ELSE kept
              /\ \/ UNCHANGED cpErrors /\ c = local[r].clean
                 \/ cpErrors' = cpErrors + 1 /\ result = {}
    BY CpEndsFacts
  <1>4. backup' = result
    BY <1>2, <1>3 DEF Writes, Put
  <1>5. CASE UNCHANGED cpErrors /\ c = local[r].clean
    <2>1. result = copy
      BY <1>2, <1>3, <1>5
    <2> QED BY <1>1, <1>2, <1>3, <1>4, <2>1
  <1>6. CASE cpErrors' = cpErrors + 1 /\ result = {}
    BY <1>1, <1>2, <1>3, <1>6
  <1> QED BY <1>3, <1>5, <1>6

(***************************************************************************)
(* A run that no other run's cp came near since line 18, whose own cps     *)
(* worked and were not overtaken by an INSERT, leaves a whole backup with  *)
(* every row of the last whole one, whatever state it found it in: the     *)
(* copy it moves was made of a table that never loses a row.               *)
(***************************************************************************)
THEOREM BackupAlwaysGrows == BatchSpec => BackupOnlyGrows
  <1>1. NodeInv /\ RunInv /\ BackupInv /\ [BatchNext]_tvars =>
           [\A r \in Runs : Ends(r) /\ local[r].clean /\ UNCHANGED cpErrors =>
               /\ backup' # {}
               /\ \A old \in kept, new \in backup' : DOMAIN old \subseteq DOMAIN new]_tvars
    <2> SUFFICES ASSUME NodeInv, RunInv, BackupInv, [BatchNext]_tvars, NEW r \in Runs,
                        Ends(r), local[r].clean, UNCHANGED cpErrors
                 PROVE  /\ backup' # {}
                        /\ \A old \in kept, new \in backup' : DOMAIN old \subseteq DOMAIN new
      OBVIOUS
    <2>1. CpEnds(r) /\ run[r].step # "copy"
      BY EndsByCp DEF Ends
    <2>2. OwnCopy(r) /\ run[r].step = "replace" /\ (cpErrors' = cpErrors + 1 \/ backup' = copy)
      BY <2>1, CleanEnd
    <2>3. backup' = copy
      BY <2>2 DEF BackupInv, LocalOK
    <2> QED BY <2>2, <2>3 DEF OwnCopy
  <1> QED BY <1>1, BackupInvariant, PTL DEF BatchSpec, BackupOnlyGrows

(* The last whole contents of the backup is replaced at the end of a cp only. *)
LEMMA KeptChanges ==
    ASSUME NodeInv, RunInv, [BatchNext]_tvars, kept' # kept
    PROVE  \E r \in Runs : CpEnds(r)
  <1>1. ~ Quiet /\ ~ HostWritten
    BY DEF Quiet, HostWritten
  <1>2. PICK r \in Runs : FileStep(r)
    BY <1>1, QuietSteps DEF NodeInv
  <1>3. ~ TestBackup(r) /\ ~ CpBegins(r) /\ ~ CpRefused(r)
    BY DEF TestBackup, CpBegins, CpRefused, fileVars
  <1>4. ~ ReadMaxID(r) /\ ~ ReadBackBlock(r) /\ ~ Compare(r)
    BY DEF ReadMaxID, ReadBackBlock, Compare
  <1> QED BY <1>2, <1>3, <1>4 DEF FileStep

(***************************************************************************)
(* The last block of the backup is kept by every run that was clean and    *)
(* queried whole databases: what it compared is what it moves.             *)
(***************************************************************************)
THEOREM LastRowAlwaysKeptByOwner == BatchSpec => LastRowKeptByOwner
  <1>1. NodeInv /\ RunInv /\ BackupInv /\ [BatchNext]_tvars =>
           [(\A r \in Runs : Ends(r) => local[r].clean /\ local[r].whole) => LastRowSame]_tvars
    <2> SUFFICES ASSUME NodeInv, RunInv, BackupInv, [BatchNext]_tvars,
                        \A r \in Runs : Ends(r) => local[r].clean /\ local[r].whole,
                        NEW old \in kept, NEW new \in kept'
                 PROVE  LastRowIn(old, new)
      BY DEF LastRowSame, LastRowIn
    <2>1. CASE kept' = kept
      <3>1. new = old
        BY <2>1 DEF BackupInv, PastFile
      <3> QED BY <3>1 DEF LastRowIn, LastID
    <2>2. ASSUME NEW r \in Runs, CpEnds(r), kept' # kept PROVE LastRowIn(old, new)
      <3>1. PICK result, file \in local[r].may \cup {{}}, c \in BOOLEAN :
               /\ Writes(r, result, file, Left(r, c))
               /\ kept' = IF run[r].step # "copy" /\ result # {} THEN result ELSE kept
        BY <2>2, CpEndsFacts
      <3>2. run[r].step # "copy"
        BY <2>2, <3>1
      <3>3. local'[r].may = {}
        <4>1. local'[r] = Left(r, c)
          BY <3>1 DEF Writes
        <4> QED BY <4>1, LeftFacts
      <3>4. Ends(r)
        BY <2>2, <3>2, <3>3 DEF Ends, CpEnds, CpSteps, InCp
      <3>5. local[r].clean /\ local[r].whole
        BY <3>4
      <3>6. run[r].step = "replace" /\ kept' = copy
        BY <2>2, <3>2, <3>5, CleanEnd
      <3>7. OwnQueries(r)
        BY <3>5 DEF BackupInv, RunFiles
      <3> QED BY <3>6, <3>7 DEF OwnQueries
    <2> QED BY <2>1, <2>2, KeptChanges
  <1> QED BY <1>1, BackupInvariant, PTL DEF BatchSpec, LastRowKeptByOwner

-----------------------------------------------------------------------------
(***************************************************************************)
(* A run that exits with success.                                          *)
(***************************************************************************)

(* A stored transaction stays stored, until blocks.db is edited. *)
LEMMA OnChainKept ==
    ASSUME NodeInv, [BatchNext]_tvars, edits' = 0, NEW trx, OnChain(trx)
    PROVE  OnChain(trx)'
  <1>1. PICK id \in DOMAIN table : \E k \in DOMAIN Row(id).trxs : Row(id).trxs[k] = trx
    BY DEF OnChain
  <1>2. id \in DOMAIN table' /\ Row(id)' = Row(id)
    BY RowsKept DEF Row
  <1> QED BY <1>1, <1>2 DEF OnChain

(***************************************************************************)
(* While the node is up and no SQL statement fails, a transaction moves    *)
(* from the pool to the block being built and from there to the table.     *)
(***************************************************************************)
LEMMA HeldMoves ==
    ASSUME NodeInv, [Next]_vars, edits = 0, sqlErrors = 0, sqlErrors' = 0,
           ~ Stopped, ~ Halt, NEW trx
    PROVE  /\ In(trx, trx_pool) => In(trx, trx_pool)' \/ Building(trx)'
           /\ Building(trx) => Building(trx)' \/ OnChain(trx)'
  <1>1. TypeOK /\ IInv /\ FaultFreeInv /\ StoreInv
    BY DEF NodeInv, AloneInv, IInv
  <1>2. ~ SqlFails
    BY <1>1, SqlFailsPositive
  <1>3. ASSUME NEW t \in TrxParams, PushAccept(t)
        PROVE  /\ In(trx, trx_pool) => In(trx, trx_pool)'
               /\ Building(trx) => Building(trx)'
    <2>1. trx_pool' = Append(trx_pool, t) /\ UNCHANGED <<pc, last_blk>>
      BY <1>3 DEF PushAccept
    <2>2. trx_pool \in Seq(TrxParams)
      BY <1>1 DEF TypeOK
    <2>3. ASSUME NEW k \in DOMAIN trx_pool
          PROVE  k \in DOMAIN Append(trx_pool, t) /\ Append(trx_pool, t)[k] = trx_pool[k]
      BY <2>2
    <2> QED BY <2>1, <2>3 DEF In, Building
  <1>4. ASSUME NEW now \in Times, PublishBuild(now)
        PROVE  (In(trx, trx_pool) => Building(trx)') /\ ~ Building(trx)
    <2>1. /\ last_blk' = BuildBlock(last_block, trx_pool, now)
          /\ pc = "idle" /\ pc' = "append"
      BY <1>4 DEF PublishBuild
    <2>2. last_blk'.trxs = trx_pool
      BY <2>1, BuildBlockFacts
    <2> QED BY <2>1, <2>2 DEF In, Building
  <1>5. ASSUME AppendStored
        PROVE  (In(trx, trx_pool) => In(trx, trx_pool)') /\ (Building(trx) => OnChain(trx)')
    <2>1. PICK b : /\ b = last_blk /\ KeyFree(table, b) /\ table' = Insert(table, b)
                   /\ UNCHANGED trx_pool
      BY <1>5 DEF AppendStored
    <2>2. PICK n : n = b.blk_num
      OBVIOUS
    <2>3. n \in DOMAIN table' /\ table'[n] = BlockRow(b)
      BY <2>1, <2>2, InsertFacts
    <2>4. Row(n)' = b
      BY <2>3 DEF Row, BlockRow, ToJson, FromJson
    <2> QED BY <2>1, <2>3, <2>4 DEF In, Building, OnChain
  <1>6. ~ AppendKeyTaken
    <2> SUFFICES ASSUME AppendKeyTaken PROVE FALSE
      OBVIOUS
    <2>1. last_blk.blk_num \notin DOMAIN table
      BY <1>1, NextNumFree DEF AppendKeyTaken, FaultFreeInv
    <2> QED BY <2>1 DEF AppendKeyTaken, KeyFree
  <1>7. ASSUME PublishDone
        PROVE  (In(trx, trx_pool) => In(trx, trx_pool)') /\ ~ Building(trx)
    BY <1>7 DEF PublishDone, In, Building
  <1>8. CASE PublishThrows \/ UNCHANGED vars \/ \E t \in TrxParams : PushReject(t)
    <2>1. UNCHANGED <<trx_pool, pc, last_blk>>
      BY <1>8 DEF PublishThrows, vars, PushReject
    <2> QED BY <2>1 DEF In, Building
  <1>9. \/ \E t \in TrxParams : PushAccept(t)
        \/ \E now \in Times : PublishBuild(now)
        \/ AppendStored \/ PublishDone
        \/ PublishThrows \/ UNCHANGED vars \/ \E t \in TrxParams : PushReject(t)
    BY <1>2, <1>6 DEF Next, StartupEmpty, StartupLoad, StartupNoRow, StartupCountFails,
       StartupRowFails, StartupThrows, AppendFails, AppendThrows, Shutdown, Crash
  <1> QED BY <1>3, <1>4, <1>5, <1>7, <1>8, <1>9

(* What a run may claim of its measurement. *)
RunHeld(r) ==
    /\ run[r].step = "done" => OnChain(IotTrx[r])
    /\ run[r].calm /\ run[r].step = "await" => Building(IotTrx[r]) \/ OnChain(IotTrx[r])
    /\ run[r].calm /\ run[r].step = "publish" =>
          In(IotTrx[r], trx_pool) \/ Building(IotTrx[r]) \/ OnChain(IotTrx[r])

(* A run that does not move keeps its claim, and so does one that moves on to it. *)
LEMMA SameRunHeld ==
    ASSUME NodeInv, RunInv, [Next]_vars, [BatchNext]_tvars, edits' = 0, sqlErrors' = 0, ~ Halt,
           NEW r \in Runs, RunHeld(r),
           \/ run'[r].step \notin {"done", "await", "publish"}
           \/ run'[r].step = run[r].step /\ run'[r].calm = run[r].calm
    PROVE  RunHeld(r)'
  <1>1. edits = 0 /\ sqlErrors = 0
    BY RowsKept
  <1>2. OnChain(IotTrx[r]) => OnChain(IotTrx[r])'
    BY OnChainKept
  <1>3. CASE run'[r].step \notin {"done", "await", "publish"}
    BY <1>3 DEF RunHeld
  <1>4. CASE run'[r].step = run[r].step /\ run'[r].calm = run[r].calm
    <2>1. CASE run[r].calm /\ run[r].step \in {"await", "publish"}
      <3>1. ~ Stopped
        BY <2>1 DEF RunInv
      <3>2. /\ In(IotTrx[r], trx_pool) => In(IotTrx[r], trx_pool)' \/ Building(IotTrx[r])'
            /\ Building(IotTrx[r]) => Building(IotTrx[r])' \/ OnChain(IotTrx[r])'
        BY <1>1, <3>1, HeldMoves
      <3> QED BY <1>2, <1>4, <2>1, <3>2 DEF RunHeld
    <2>2. CASE ~ (run[r].calm /\ run[r].step \in {"await", "publish"})
      BY <1>2, <1>4, <2>2 DEF RunHeld
    <2> QED BY <2>1, <2>2
  <1> QED BY <1>3, <1>4

(* Every step keeps the transaction of an undisturbed run in the buffer or on the chain. *)
LEMMA NextHeldInv ==
    ASSUME NodeInv, RunInv, HeldInv, [BatchNext]_tvars
    PROVE  HeldInv'
  <1> SUFFICES ASSUME edits' = 0, sqlErrors' = 0, NEW q \in Runs PROVE RunHeld(q)'
    BY DEF HeldInv, RunHeld
  <1>1. TypeOK /\ RunOK
    BY DEF NodeInv
  <1>2. edits = 0 /\ sqlErrors = 0 /\ RunHeld(q)
    BY RowsKept DEF HeldInv, RunHeld
  <1>3. OnChain(IotTrx[q]) => OnChain(IotTrx[q])'
    BY OnChainKept
  <1>4. ~ SqlFails
    BY <1>1, SqlFailsPositive
  <1>5. ASSUME [Next]_vars, ~ Halt, run'[q] = run[q] PROVE RunHeld(q)'
    BY <1>2, <1>5, SameRunHeld
  <1>6. ASSUME UNCHANGED vars,
               \/ run'[q].step = run[q].step /\ run'[q].calm = run[q].calm
               \/ run'[q].step \notin {"done", "await", "publish"}
        PROVE  RunHeld(q)'
    <2>1. UNCHANGED <<table, trx_pool, last_blk, pc>>
      BY <1>6 DEF vars
    <2>2. /\ OnChain(IotTrx[q])' = OnChain(IotTrx[q]) /\ Building(IotTrx[q])' = Building(IotTrx[q])
          /\ In(IotTrx[q], trx_pool)' = In(IotTrx[q], trx_pool)
      BY <2>1 DEF OnChain, Row, Building, In
    <2> QED BY <1>2, <1>6, <2>2 DEF RunHeld
  <1>7. CASE UNCHANGED tvars
    BY <1>6, <1>7 DEF tvars, batchVars
  <1>8. CASE NodeStarts
    <2>1. Stopped /\ UNCHANGED run
      BY <1>8 DEF NodeStarts, StartupEmpty, StartupLoad, StartupNoRow, StartupCountFails,
                  StartupRowFails, StartupThrows
    <2>2. ~ (run[q].calm /\ run[q].step \in {"await", "publish"})
      BY <2>1 DEF RunInv
    <2> QED BY <1>2, <1>3, <2>1, <2>2 DEF RunHeld
  <1>9. CASE NodeStops \/ NodeDies
    <2>1. Interrupt
      BY <1>9 DEF NodeStops, NodeDies
    <2>2. CASE run'[q] = Waiting
      BY <2>2 DEF RunHeld, Waiting
    <2>3. CASE run'[q].step = run[q].step /\ run'[q].calm = ~ Active(run[q])
      <3>1. CASE run[q].step \in {"await", "publish"}
        <4>1. Active(run[q])
          BY <3>1 DEF Active
        <4> QED BY <2>3, <3>1, <4>1 DEF RunHeld
      <3>2. CASE run[q].step \notin {"await", "publish"}
        BY <1>2, <1>3, <2>3, <3>2 DEF RunHeld
      <3> QED BY <3>1, <3>2
    <2> QED BY <1>1, <2>1, <2>2, <2>3, InterruptMoves
  <1>10. CASE NodeAppends
    <2>1. [Next]_vars /\ UNCHANGED run /\ pc' = "cache"
      BY <1>10 DEF NodeAppends, Next, AppendStored, AppendKeyTaken, AppendFails
    <2>2. ~ Halt
      BY <2>1 DEF Halt
    <2> QED BY <1>5, <2>1, <2>2
  <1>11. CASE NodePublished
    <2>1. /\ PublishDone /\ pc = "cache" /\ pc' = "idle"
          /\ run' = [r \in Runs |-> IF r = client THEN Succeeded(run[r]) ELSE run[r]]
      BY <1>11 DEF NodePublished, PublishDone
    <2>2. [Next]_vars /\ ~ Halt
      BY <2>1 DEF Next, Halt
    <2>3. CASE q = client
      <3>1. run'[q] = Succeeded(run[q]) /\ run[q].step = "await"
        BY <2>1, <2>3 DEF RunInv
      <3>2. CASE run'[q] = Waiting
        BY <3>2 DEF RunHeld, Waiting
      <3>3. CASE run'[q].step = "done" /\ run[q].calm
        <4>1. OnChain(IotTrx[q])
          BY <1>2, <2>1, <3>1, <3>3 DEF RunHeld, Building
        <4> QED BY <1>3, <3>3, <4>1 DEF RunHeld
      <3> QED BY <3>1, <3>2, <3>3, SucceededFacts
    <2>4. CASE q # client
      BY <1>5, <2>1, <2>2, <2>4
    <2> QED BY <2>3, <2>4
  <1>12. ~ NodeRefused
    BY <1>4 DEF NodeRefused, AppendThrows
  <1>13. ASSUME NEW id \in DOMAIN table, Edit(id) PROVE FALSE
    BY <1>1, <1>2, <1>13 DEF Edit
  <1>14. ASSUME NEW r \in Runs, BatchStep(r) PROVE RunHeld(q)'
    <2>1. ASSUME UNCHANGED vars, NEW step, step \notin {"done", "await", "publish"},
                 MoveTo(r, step) \/ (\E arg : MoveWith(r, step, arg)) \/ Fail(r)
          PROVE  RunHeld(q)'
      <3>1. CASE q # r
        <4>1. run'[q].step = run[q].step /\ run'[q].calm = run[q].calm
          BY <1>1, <2>1, <3>1, RunMoves
        <4> QED BY <1>6, <2>1, <4>1
      <3>2. CASE q = r
        <4>1. run'[q].step = step \/ run'[q] = Waiting
          BY <1>1, <2>1, <3>2, RunMoves
        <4> QED BY <1>6, <2>1, <4>1 DEF Waiting
      <3> QED BY <3>1, <3>2
    <2>2. CASE Fire(r) \/ CheckAnswered(r) \/ CheckUnanswered(r)
      <3>1. UNCHANGED vars /\ (MoveTo(r, "check") \/ MoveTo(r, "backup") \/ Fail(r))
        BY <2>2 DEF Fire, CheckAnswered, CheckUnanswered
      <3> QED BY <2>1, <3>1
    <2>3. ~ CheckBlind(r)
      BY <1>4 DEF CheckBlind
    <2>4. ASSUME FileStep(r), ~ UNCHANGED run PROVE RunHeld(q)'
      <3>1. /\ UNCHANGED vars
            /\ \/ \E step \in {"first", "copy", "maxid", "backblock", "compare", "replace"} :
                      MoveTo(r, step)
               \/ \E arg \in {"good", "empty"} : MoveWith(r, "char2hex", arg)
               \/ Fail(r)
        BY <2>4, FileStepMoves
      <3> QED BY <2>1, <3>1
    <2>5. CASE FileStep(r) /\ UNCHANGED run
      BY <1>6, <2>5, FileStepMoves
    <2>6. CASE Char2Hex(r) \/ SignTrxCall(r)
      <3>1. UNCHANGED vars
        BY <2>6 DEF Char2Hex, SignTrxCall
      <3>2. \/ MoveTo(r, "sign_trx") \/ MoveWith(r, "sign_trx", "lost")
            \/ MoveTo(r, "push") \/ MoveWith(r, "push", "lost") \/ Fail(r)
        BY <2>6 DEF Char2Hex, SignTrxCall
      <3> QED BY <2>1, <3>1, <3>2
    <2>7. CASE Push(r)
      <3>1. CASE PushAccept(IotTrx[r]) /\ MoveWith(r, "publish", "good")
        <4>1. [Next]_vars /\ pc = "idle" /\ UNCHANGED pc
          BY <3>1, IotTrxFacts DEF Next, PushAccept
        <4>2. ~ Halt
          BY <4>1 DEF Halt
        <4>3. CASE q = r
          <5>1. trx_pool' = Append(trx_pool, IotTrx[r]) /\ trx_pool \in Seq(TrxParams)
            BY <1>1, <3>1 DEF PushAccept, TypeOK
          <5>2. /\ Len(trx_pool) + 1 \in DOMAIN Append(trx_pool, IotTrx[r])
                /\ Append(trx_pool, IotTrx[r])[Len(trx_pool) + 1] = IotTrx[r]
            BY <5>1
          <5>3. In(IotTrx[q], trx_pool)'
            BY <4>3, <5>1, <5>2 DEF In
          <5>4. run'[q].step = "publish"
            BY <1>1, <3>1, <4>3, RunMoves
          <5> QED BY <5>3, <5>4 DEF RunHeld
        <4>4. CASE q # r
          <5>1. run'[q].step = run[q].step /\ run'[q].calm = run[q].calm
            BY <1>1, <3>1, <4>4, RunMoves
          <5> QED BY <1>2, <4>1, <4>2, <5>1, SameRunHeld
        <4> QED BY <4>3, <4>4
      <3>2. CASE PushReject(EmptyTrx) /\ Fail(r)
        <4>1. [Next]_vars /\ pc = "idle" /\ UNCHANGED pc
          BY <3>2, BatchAssumption DEF Next, PushReject
        <4>2. ~ Halt
          BY <4>1 DEF Halt
        <4>3. run'[q] = run[q] \/ run'[q] = Waiting
          BY <1>1, <3>2, RunMoves
        <4> QED BY <1>2, <1>5, <4>1, <4>2, <4>3 DEF RunHeld, Waiting
      <3> QED BY <2>7, <3>1, <3>2 DEF Push
    <2>8. CASE PushLost(r)
      <3>1. /\ UNCHANGED vars /\ MoveWith(r, "publish", "good") /\ run[r].step = "push"
            /\ Stopped \/ run[r].arg = "lost"
        BY <2>8 DEF PushLost
      <3>2. ~ run[r].calm
        BY <3>1 DEF RunInv
      <3>3. CASE q = r
        <4>1. ~ run'[q].calm /\ run'[q].step = "publish"
          BY <1>1, <3>1, <3>2, <3>3, RunMoves
        <4> QED BY <4>1 DEF RunHeld
      <3>4. CASE q # r
        <4>1. run'[q].step = run[q].step /\ run'[q].calm = run[q].calm
          BY <1>1, <3>1, <3>4, RunMoves
        <4> QED BY <1>6, <3>1, <4>1
      <3> QED BY <3>3, <3>4
    <2>9. CASE \E now \in Times : Publish(r, now)
      <3>1. PICK now \in Times : PublishBuild(now) /\ MoveTo(r, "await") /\ run[r].step = "publish"
        BY <2>9 DEF Publish
      <3>2. [Next]_vars /\ pc = "idle" /\ pc' = "append"
        BY <3>1 DEF Next, PublishBuild
      <3>3. ~ Halt /\ ~ Stopped
        BY <3>2 DEF Halt, Stopped
      <3>4. CASE q = r
        <4>1. run'[q].step = "await" /\ run'[q].calm = run[q].calm
          BY <1>1, <3>1, <3>4, RunMoves
        <4>2. In(IotTrx[q], trx_pool) => Building(IotTrx[q])'
          <5>1. last_blk'.trxs = trx_pool
            BY <3>1, BuildBlockFacts DEF PublishBuild
          <5> QED BY <3>2, <5>1 DEF In, Building
        <4>3. ~ Building(IotTrx[q])
          BY <3>2 DEF Building
        <4> QED BY <1>2, <1>3, <3>1, <3>4, <4>1, <4>2, <4>3 DEF RunHeld
      <3>5. CASE q # r
        <4>1. run'[q].step = run[q].step /\ run'[q].calm = run[q].calm
          BY <1>1, <3>1, <3>5, RunMoves
        <4> QED BY <1>2, <3>2, <3>3, <4>1, SameRunHeld
      <3> QED BY <3>4, <3>5
    <2>10. CASE PublishRefused(r)
      <3>1. PublishThrows /\ Fail(r)
        BY <2>10 DEF PublishRefused
      <3>2. [Next]_vars /\ pc = "idle" /\ UNCHANGED pc
        BY <3>1 DEF Next, PublishThrows
      <3>3. ~ Halt
        BY <3>2 DEF Halt
      <3>4. run'[q] = run[q] \/ run'[q] = Waiting
        BY <1>1, <3>1, RunMoves
      <3> QED BY <1>2, <1>5, <3>2, <3>3, <3>4 DEF RunHeld, Waiting
    <2>11. CASE PublishLost(r)
      <3>1. /\ UNCHANGED vars /\ Stopped /\ run[r].step = "publish"
            /\ run' = [run EXCEPT ![r] = Succeeded(run[r])]
        BY <2>11 DEF PublishLost
      <3>2. ~ run[r].calm
        BY <3>1 DEF RunInv
      <3>3. Succeeded(run[r]) = Waiting
        BY <3>2 DEF Succeeded
      <3>4. run'[q] = run[q] \/ run'[q] = Waiting
        BY <1>1, <3>1, <3>3 DEF RunOK
      <3> QED BY <1>6, <3>1, <3>4 DEF Waiting
    <2> QED BY <1>14, <2>2, <2>3, <2>4, <2>5, <2>6, <2>7, <2>8, <2>9, <2>10, <2>11 DEF BatchStep, FileStep
  <1> QED BY <1>7, <1>8, <1>9, <1>10, <1>11, <1>12, <1>13, <1>14 DEF BatchNext

(* The invariant of the runs, of the node and of the backup together. *)
THEOREM BatchInvariant == BatchSpec => []TInv
  <1>1. BatchInit => TInv
    BY InitNodeInv, InitBackupInv, InitRunInv DEF TInv
  <1>2. TInv /\ [BatchNext]_tvars => TInv'
    BY NextNodeInv, NextBackupInv, NextRunInv, NextHeldInv DEF TInv
  <1> QED BY <1>1, <1>2, PTL DEF BatchSpec

(***************************************************************************)
(* A run that exits with success, during which the node did not stop, has  *)
(* its measurement on the chain, however many runs share the pool and      *)
(* whoever's publish_blk took it along.                                    *)
(***************************************************************************)
THEOREM CalmRunAlwaysStores == BatchSpec => []CalmRunStores
  <1>1. TInv => CalmRunStores
    BY DEF TInv, HeldInv, CalmRunStores
  <1> QED BY <1>1, BatchInvariant, PTL
-----------------------------------------------------------------------------
(***************************************************************************)
(* The node under the batch.  What is proved of a node with any clients    *)
(* holds of the one that overlapping runs call, as long as blocks.db is    *)
(* written by the node only: a run adds nothing but requests, and reads    *)
(* that fail.                                                              *)
(***************************************************************************)
ServedInv == edits = 0 => PoolInv /\ OnceInv

(* A read that fails moves no transaction. *)
LEMMA BlindServed ==
    ASSUME NEW r \in Runs, CheckBlind(r), PoolInv, OnceInv
    PROVE  PoolInv' /\ OnceInv'
  <1>1. UNCHANGED <<table, trx_pool, last_block, last_blk, pc, reply, accepted>>
    BY DEF CheckBlind
  <1>2. PoolInv'
    BY <1>1 DEF PoolInv
  <1>3. InFlight' = InFlight /\ \A trx : StoredPlaces(trx)' = StoredPlaces(trx)
    BY <1>1 DEF InFlight, StoredPlaces, Row
  <1>4. OnceInv'
    BY <1>1, <1>3 DEF OnceInv, StoredFinite, AtMostOnce
  <1> QED BY <1>2, <1>4

(* Every step keeps what the node's promises rest on. *)
LEMMA NextServed == NodeInv /\ NodeInv' /\ ServedInv /\ [BatchNext]_tvars => ServedInv'
  <1> SUFFICES ASSUME NodeInv, NodeInv', ServedInv, [BatchNext]_tvars, edits' = 0
               PROVE  PoolInv' /\ OnceInv'
    BY DEF ServedInv
  <1>1. ASSUME NEW id \in DOMAIN table, Edit(id) PROVE FALSE
    BY <1>1 DEF Edit, NodeInv, RunOK
  <1>2. UNCHANGED edits
    BY <1>1, BatchSteps DEF CheckBlind
  <1>3. IInv /\ IInv' /\ PoolInv /\ OnceInv
    BY <1>2 DEF NodeInv, AloneInv, ServedInv
  <1>4. CASE [Next]_vars
    BY <1>3, <1>4, NextPool, NextOnce DEF RInv
  <1>5. ASSUME NEW r \in Runs, CheckBlind(r) PROVE PoolInv' /\ OnceInv'
    BY <1>3, <1>5, BlindServed
  <1> QED BY <1>1, <1>4, <1>5, BatchSteps

(* The invariant behind both theorems. *)
LEMMA ServedInvariant == BatchSpec => [](NodeInv /\ ServedInv)
  <1>1. BatchInit => ServedInv
    BY InitOnce DEF BatchInit, Init, ServedInv, PoolInv
  <1> QED BY <1>1, InitNodeInv, NextNodeInv, NextServed, PTL DEF BatchSpec

(***************************************************************************)
(* Whatever the order of overlapping runs, crashes and restarts, a node    *)
(* that has its database to itself keeps its chain: the rows are sound,    *)
(* check_chain is exact, no transaction is stored more often than it was   *)
(* acknowledged, and without SQL failures the chain is linked, the cache   *)
(* is its last block, startup finds it and every number is served.         *)
(***************************************************************************)
THEOREM NodeKeptUnderBatch ==
    BatchSpec => [](edits = 0 => /\ RowsSound /\ CheckChainExact /\ AtMostOnce
                                 /\ ChainLinked /\ CacheMatchesStore
                                 /\ StartupDefined /\ NumbersServed)
  <1>1. NodeInv /\ ServedInv =>
            (edits = 0 => /\ RowsSound /\ CheckChainExact /\ AtMostOnce
                          /\ ChainLinked /\ CacheMatchesStore
                          /\ StartupDefined /\ NumbersServed)
    <2> SUFFICES ASSUME NodeInv, ServedInv, edits = 0
                 PROVE  /\ RowsSound /\ CheckChainExact /\ AtMostOnce
                        /\ ChainLinked /\ CacheMatchesStore
                        /\ StartupDefined /\ NumbersServed
      OBVIOUS
    <2>1. IInv /\ OnceInv
      BY DEF NodeInv, AloneInv, ServedInv
    <2>2. RowsSound
      BY <2>1 DEF IInv, StoreInv, GoodBlock, RowsSound
    <2>3. CheckChainExact
      BY <2>1, CheckIsExact
    <2>4. AtMostOnce
      BY <2>1 DEF OnceInv
    <2>5. ChainLinked
      BY <2>1 DEF IInv, FaultFreeInv, ChainLinked
    <2>6. StartupDefined
      BY <2>1 DEF IInv, FaultFreeInv, StartupDefined
    <2>7. CacheMatchesStore /\ NumbersServed
      BY <2>1, InvCache, InvServed
    <2> QED BY <2>2, <2>3, <2>4, <2>5, <2>6, <2>7
  <1> QED BY <1>1, ServedInvariant, PTL

(* A read that fails is a doubt about the ledger's store, and nothing else. *)
LEMMA BlindRefines ==
    ASSUME RInv, NEW r \in Runs, CheckBlind(r)
    PROVE  L!Doubt
  <1>1. /\ UNCHANGED <<table, trx_pool, last_block, last_blk, pc, reply, accepted>>
        /\ SqlFails /\ Up
    BY DEF CheckBlind
  <1>2. Pages' = Pages
    BY <1>1, SamePages
  <1>3. Pending' = Pending /\ Stopped' = Stopped /\ ~ Stopped
    BY <1>1 DEF Pending, InFlight, Stopped, Up
  <1>4. sqlErrors' # 0
    BY <1>1, SqlFailsPositive DEF RInv, IInv
  <1> QED BY <1>2, <1>3, <1>4 DEF L!Doubt, Pages, Pending

(***************************************************************************)
(* The node and the runs that call it implement the ledger together, if    *)
(* nobody else writes to blocks.db: batch.sh sees pages that only grow, in *)
(* which what it pushed is sealed once, however its runs overlap.          *)
(***************************************************************************)
THEOREM BatchImplementsLedger == BatchSpec /\ [](edits = 0) => ImplementsLedger
  <1>1. BatchInit => L!LInit
    BY InitRefines DEF BatchInit
  <1>2. /\ edits = 0 /\ (edits = 0)' /\ [BatchNext]_tvars
        /\ NodeInv /\ ServedInv /\ (NodeInv /\ ServedInv)'
        => [L!LNext]_(L!lvars)
    <2> SUFFICES ASSUME edits = 0, edits' = 0, [BatchNext]_tvars,
                        NodeInv, ServedInv, NodeInv', ServedInv'
                 PROVE  [L!LNext]_(L!lvars)
      OBVIOUS
    <2>1. RInv /\ RInv'
      BY DEF NodeInv, AloneInv, ServedInv, RInv
    <2>2. CASE [Next]_vars
      BY <2>1, <2>2, NextRefines
    <2>3. ASSUME NEW id \in DOMAIN table, Edit(id) PROVE FALSE
      BY <2>3 DEF Edit
    <2>4. ASSUME NEW r \in Runs, CheckBlind(r) PROVE L!LNext
      BY <2>1, <2>4, BlindRefines DEF L!LNext
    <2> QED BY <2>2, <2>3, <2>4, BatchSteps
  <1> QED BY <1>1, <1>2, ServedInvariant, PTL DEF BatchSpec, ImplementsLedger, L!LSpec
=============================================================================

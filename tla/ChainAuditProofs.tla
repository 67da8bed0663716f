-------------------------- MODULE ChainAuditProofs --------------------------
(***************************************************************************)
(* Proofs of what check_chain can tell about an altered database, for a    *)
(* chain of any length and any alteration of one row.                      *)
(***************************************************************************)
EXTENDS ChainAudit, ReadApiProofs, WellFoundedInduction

-----------------------------------------------------------------------------
(***************************************************************************)
(* The inductive invariant.                                                *)
(*                                                                         *)
(* A row as the node wrote it, as far as check_chain looks: the producer's *)
(* signature is over the header of the block, and the block has the number *)
(* of the row.                                                             *)
(***************************************************************************)
IsRecord(b) ==
    b = [blk_num |-> b.blk_num, prior_hash |-> b.prior_hash,
         time_point |-> b.time_point, merkle_root |-> b.merkle_root,
         sig |-> b.sig, trxs |-> b.trxs]

Sealed(id) ==
    /\ IsRecord(Stored(id))
    /\ Stored(id).sig = Sign(ProducerKey, BlockDigest(Stored(id)))
    /\ Stored(id).blk_num = id

(* The one row that is not sealed, if any, and the number that is missing. *)
Damaged == IF edit.kind = "header" THEN {edit.id} ELSE {}

Missing == IF edit.kind = "delete" THEN {edit.id} ELSE {}

RowInv ==
    /\ DOMAIN table \subseteq Nat
    /\ IsFiniteSet(DOMAIN table)
    /\ \A id \in DOMAIN table \ Damaged : Sealed(id)
    /\ \A id \in Damaged : id \in DOMAIN table /\ ~ BlockValid(Stored(id))
    /\ \A id \in DOMAIN table : table[id] = [HASH |-> table[id].HASH, JSON |-> table[id].JSON]

(* The numbers are consecutive, but for the missing one. *)
NumbersInv ==
    /\ \A id \in DOMAIN table : \A j \in 0 .. id : j \in DOMAIN table \cup Missing
    /\ \A id \in Missing : id \in Nat /\ id \notin DOMAIN table
                           /\ \A j \in 0 .. id - 1 : j \in DOMAIN table

(* Each block names the one before it; the one after the gap names neither. *)
LinkInv ==
    \A id \in DOMAIN table \ Damaged :
        id > 0 =>
            \/ id - 1 \in Damaged
            \/ /\ id - 1 \in DOMAIN table
               /\ Stored(id).prior_hash = BlockDigest(Stored(id - 1))
            \/ /\ id - 1 \in Missing
               /\ id - 2 \in DOMAIN table =>
                      Stored(id).prior_hash # BlockDigest(Stored(id - 2))

(* Until the alteration, the cached block is the last row. *)
TipInv ==
    edit = NoEdit =>
        \/ DOMAIN table = {} /\ ~ BlockValid(last_block)
        \/ /\ last_block.blk_num \in DOMAIN table
           /\ last_block = Stored(last_block.blk_num)
           /\ \A id \in DOMAIN table : id <= last_block.blk_num

AInv ==
    /\ RowInv
    /\ NumbersInv
    /\ LinkInv
    /\ TipInv
    /\ report \in {NoReport, check_chain(table)}
-----------------------------------------------------------------------------
(***************************************************************************)
(* What the invariant says of the answer.                                  *)
(***************************************************************************)

(* The walk of check_chain reports the block before one that fails. *)
LEMMA ReportedBlock ==
    ASSUME NEW t, IsTable(t), check_chain(t).result = -1
    PROVE  LET blocks == GetAllBlocks(t)
           IN  \E i \in 1 .. GetBlockCount(t) :
                   FailsAt(blocks, i) /\ check_chain(t).block = {checkBlk(blocks, i)}
  <1> DEFINE blocks == GetAllBlocks(t)
             N == GetBlockCount(t)
             F == {i \in 1 .. N : FailsAt(blocks, i)}
  <1>1. N \in Nat /\ DOMAIN blocks = 1 .. N
    BY AllBlocksFacts
  <1>2. \E i \in DOMAIN blocks : FailsAt(blocks, i)
    BY CheckResult
  <1>3. check_chain(t).block = {checkBlk(blocks, FirstFailure(blocks))}
    BY <1>2 DEF check_chain, CheckBlocks
  <1> HIDE DEF blocks, N
  <1>4. F \subseteq Nat /\ F # {}
    BY <1>1, <1>2
  <1>5. PICK i \in F : \A j \in F : ~ (<<j, i>> \in OpToRel(<, Nat))
    BY <1>4, NatLessThanWellFounded, WFMin
  <1>6. \A j \in F : ~ (j < i)
    BY <1>4, <1>5 DEF OpToRel
  <1>7. \A j \in 1 .. i - 1 : ~ FailsAt(blocks, j)
    BY <1>1, <1>6
  <1>8. \E k \in DOMAIN blocks : FailsAt(blocks, k) /\ \A j \in 1 .. k - 1 : ~ FailsAt(blocks, j)
    BY <1>1, <1>7
  <1>9. FirstFailure(blocks) \in 1 .. N /\ FailsAt(blocks, FirstFailure(blocks))
    BY <1>1, <1>8 DEF FirstFailure
  <1> QED BY <1>3, <1>9 DEF blocks, N

(* A row that fails: damaged and not number 0, or after a damaged or missing one. *)
Broken(id) ==
    \/ id \in Damaged /\ Stored(id).blk_num # 0
    \/ id - 1 \in Damaged \cup Missing

(* The block a row is checked against. *)
PriorRow(id) ==
    CASE id - 1 \in DOMAIN table -> Stored(id - 1)
      [] id - 1 \notin DOMAIN table /\ id - 2 \in DOMAIN table -> Stored(id - 2)
      [] OTHER -> BlankBlock

(* The i-th block of the walk is the i-th row, checked against the row before it. *)
LEMMA WalkFacts ==
    ASSUME AInv, NEW i \in 1 .. GetBlockCount(table)
    PROVE  LET id == Nth(DOMAIN table, i)
           IN  /\ id \in DOMAIN table
               /\ GetAllBlocks(table)[i] = Stored(id)
               /\ checkBlk(GetAllBlocks(table), i) = PriorRow(id)
  <1> DEFINE D == DOMAIN table
             N == GetBlockCount(table)
             blocks == GetAllBlocks(table)
  <1>1. IsTable(table) /\ D \in SUBSET Nat /\ IsFiniteSet(D) /\ N = Cardinality(D)
    BY DEF AInv, RowInv, IsTable, GetBlockCount
  <1>2. N \in Nat /\ \A k \in 1 .. N : Nth(D, k) \in D /\ blocks[k] = Stored(Nth(D, k))
    BY <1>1, AllBlocksFacts DEF Stored
  <1>3. PICK id \in D : id = Nth(D, i)
    BY <1>2
  <1>4. \A k \in D : \A j \in 0 .. k : j \in D \cup Missing
    BY DEF AInv, NumbersInv
  <1>5. \A m \in Missing : \A j \in 0 .. m - 1 : j \in D
    BY DEF AInv, NumbersInv
  <1>6. \A m, n \in Missing : m = n
    BY DEF Missing
  <1>7. id \in Nat /\ i \in 1 .. N
    BY <1>1
  <1> HIDE DEF D, N, blocks
  <1>8. ASSUME NEW m \in D, m < id, \A k \in D : k <= m \/ k >= id
        PROVE  checkBlk(blocks, i) = Stored(m)
    <2>1. i > 1 /\ Nth(D, i - 1) = m
      BY <1>1, <1>3, <1>7, <1>8, NthBefore
    <2>2. i - 1 \in 1 .. N /\ i # 1
      BY <1>2, <1>7, <2>1
    <2> QED BY <1>2, <2>1, <2>2 DEF checkBlk
  <1>9. CASE id - 1 \in D
    <2>1. PICK m \in D : m = id - 1
      BY <1>9
    <2>2. m < id /\ \A k \in D : k <= m \/ k >= id
      BY <1>1, <2>1
    <2>3. checkBlk(blocks, i) = Stored(m)
      BY <1>8, <2>2
    <2>4. PriorRow(id) = Stored(m)
      BY <1>9, <2>1 DEF PriorRow, D
    <2> QED BY <1>2, <1>3, <2>3, <2>4 DEF D, N, blocks
  <1>10. CASE id - 1 \notin D /\ id - 2 \in D
    <2>1. PICK m \in D : m = id - 2
      BY <1>10
    <2>2. m < id /\ \A k \in D : k <= m \/ k >= id
      BY <1>1, <1>10, <2>1
    <2>3. checkBlk(blocks, i) = Stored(m)
      BY <1>8, <2>2
    <2>4. PriorRow(id) = Stored(m)
      BY <1>10, <2>1 DEF PriorRow, D
    <2> QED BY <1>2, <1>3, <2>3, <2>4 DEF D, N, blocks
  <1>11. CASE id - 1 \notin D /\ id - 2 \notin D
    <2>1. id = 0 \/ id = 1
      <3> SUFFICES ASSUME id > 1 PROVE FALSE
        BY <1>7
      <3>1. id - 1 \in 0 .. id /\ id - 2 \in 0 .. id - 1 - 1
        BY <1>7
      <3>2. id - 1 \in Missing
        BY <1>4, <1>11, <3>1
      <3> QED BY <1>5, <1>11, <3>1, <3>2
    <2>2. \A k \in D : k >= id
      BY <1>1, <1>11, <2>1
    <2>3. i = 1
      BY <1>1, <1>3, <1>7, <2>2, NthFirst
    <2>4. checkBlk(blocks, i) = BlankBlock /\ PriorRow(id) = BlankBlock
      BY <1>11, <2>3 DEF checkBlk, PriorRow, D
    <2> QED BY <1>2, <1>3, <2>4 DEF D, N, blocks
  <1> QED BY <1>9, <1>10, <1>11

(* A sealed row holds a valid block. *)
LEMMA SealedValid ==
    ASSUME NEW id, Sealed(id)
    PROVE  BlockValid(Stored(id))
  <1>1. Stored(id).sig # BlankSig
    <2>1. DOMAIN Stored(id).sig = {"key", "digest"} /\ DOMAIN BlankSig = {"blank"}
      BY DEF Sealed, Sign, BlankSig
    <2> QED BY <2>1
  <1>2. Recover(Stored(id).sig, BlockDigest(Stored(id))) = ProducerKey
    BY DEF Sealed, Sign, Recover
  <1> QED BY <1>1, <1>2 DEF BlockValid

(* The walk fails at a block exactly where the chain is broken. *)
LEMMA FailsWhereBroken ==
    ASSUME AInv, NEW i \in 1 .. GetBlockCount(table)
    PROVE  FailsAt(GetAllBlocks(table), i) <=> Broken(Nth(DOMAIN table, i))
  <1>1. PICK id \in DOMAIN table :
           /\ id = Nth(DOMAIN table, i)
           /\ GetAllBlocks(table)[i] = Stored(id)
           /\ checkBlk(GetAllBlocks(table), i) = PriorRow(id)
    BY WalkFacts
  <1>2. FailsAt(GetAllBlocks(table), i) <=>
           Stored(id).blk_num # 0 /\ ~ CheckBlock(Stored(id), PriorRow(id))
    BY <1>1 DEF FailsAt
  <1>3. id \in Nat /\ Damaged \subseteq Nat /\ Missing \subseteq Nat
    BY DEF AInv, RowInv, NumbersInv
  <1>4. CASE id \in Damaged
    <2>1. ~ CheckBlock(Stored(id), PriorRow(id))
      BY <1>4 DEF AInv, RowInv, CheckBlock
    <2>2. id - 1 \notin Damaged \cup Missing
      BY <1>3, <1>4 DEF Damaged, Missing
    <2> QED BY <1>1, <1>2, <1>4, <2>1, <2>2 DEF Broken
  <1>5. CASE id \notin Damaged
    <2>1. Sealed(id)
      BY <1>5 DEF AInv, RowInv
    <2>2. BlockValid(Stored(id)) /\ Stored(id).blk_num = id
      BY <2>1, SealedValid DEF Sealed
    <2>3. CASE id = 0
      <3>1. id - 1 \notin Damaged \cup Missing
        BY <1>3, <2>3
      <3> QED BY <1>1, <1>2, <1>5, <2>2, <2>3, <3>1 DEF Broken
    <2>4. CASE id # 0 /\ id - 1 \in Damaged
      <3>1. id - 1 \in DOMAIN table /\ ~ BlockValid(Stored(id - 1))
        BY <2>4 DEF AInv, RowInv
      <3>2. PriorRow(id) = Stored(id - 1)
        BY <3>1 DEF PriorRow
      <3> QED BY <1>1, <1>2, <2>2, <2>4, <3>1, <3>2 DEF Broken, CheckBlock
    <2>5. CASE id # 0 /\ id - 1 \in Missing
      <3>1. id - 1 \notin DOMAIN table
        BY <2>5 DEF AInv, NumbersInv
      <3>2. id - 1 \notin Damaged
        BY <2>5 DEF Damaged, Missing
      <3>3. ~ CheckBlock(Stored(id), PriorRow(id))
        <4>1. CASE id - 2 \in DOMAIN table
          <5>1. Stored(id).prior_hash # BlockDigest(Stored(id - 2))
            BY <1>3, <1>5, <2>5, <3>1, <3>2, <4>1 DEF AInv, LinkInv
          <5>2. PriorRow(id) = Stored(id - 2)
            BY <3>1, <4>1 DEF PriorRow
          <5> QED BY <5>1, <5>2 DEF CheckBlock
        <4>2. CASE id - 2 \notin DOMAIN table
          <5>1. PriorRow(id) = BlankBlock
            BY <3>1, <4>2 DEF PriorRow
          <5> QED BY <5>1, BlankInvalid DEF CheckBlock
        <4> QED BY <4>1, <4>2
      <3> QED BY <1>1, <1>2, <2>2, <2>5, <3>3 DEF Broken
    <2>6. CASE id # 0 /\ id - 1 \notin Damaged \cup Missing
      <3>1. id - 1 \in DOMAIN table /\ Stored(id).prior_hash = BlockDigest(Stored(id - 1))
        BY <1>3, <1>5, <2>6 DEF AInv, LinkInv
      <3>2. BlockValid(Stored(id - 1))
        BY <2>6, <3>1, SealedValid DEF AInv, RowInv
      <3>3. PriorRow(id) = Stored(id - 1)
        BY <3>1 DEF PriorRow
      <3> QED BY <1>1, <1>2, <1>5, <2>2, <2>6, <3>1, <3>2, <3>3 DEF Broken, CheckBlock
    <2> QED BY <2>3, <2>4, <2>5, <2>6
  <1> QED BY <1>4, <1>5

(* The alterations under which some row fails are the covered ones. *)
LEMMA BrokenWhenCovered == AInv => (Covered <=> \E id \in DOMAIN table : Broken(id))
  <1> SUFFICES ASSUME AInv PROVE Covered <=> \E id \in DOMAIN table : Broken(id)
    OBVIOUS
  <1>1. /\ \A id \in DOMAIN table : id \in Nat
        /\ \A id \in DOMAIN table : \A j \in 0 .. id : j \in DOMAIN table \cup Missing
    BY DEF AInv, RowInv, NumbersInv
  <1>2. CASE edit.kind = "header"
    <2>1. PICK e \in DOMAIN table : edit.id = e /\ Damaged = {e} /\ Missing = {}
      BY <1>2 DEF AInv, RowInv, Damaged, Missing
    <2>2. Followed(e) <=> e + 1 \in DOMAIN table
      <3>1. ASSUME NEW k \in DOMAIN table, k > e PROVE e + 1 \in DOMAIN table
        BY <1>1, <2>1, <3>1
      <3>2. e + 1 > e
        BY <1>1
      <3> QED BY <3>1, <3>2 DEF Followed
    <2>3. Covered <=> Followed(e) \/ Stored(e).blk_num # 0
      BY <1>2, <2>1 DEF Covered
    <2>4. ASSUME NEW id \in DOMAIN table
          PROVE  Broken(id) <=> (id = e /\ Stored(e).blk_num # 0) \/ id = e + 1
      BY <1>1, <2>1 DEF Broken
    <2> QED BY <2>2, <2>3, <2>4
  <1>3. CASE edit.kind = "delete"
    <2>1. PICK e \in Nat : /\ edit.id = e /\ Damaged = {} /\ Missing = {e}
                           /\ e \notin DOMAIN table
      BY <1>3 DEF AInv, NumbersInv, Damaged, Missing
    <2>2. Followed(e) <=> e + 1 \in DOMAIN table
      <3>1. ASSUME NEW k \in DOMAIN table, k > e PROVE e + 1 \in DOMAIN table
        <4>1. e + 1 \in 0 .. k /\ e + 1 # e
          BY <1>1, <3>1
        <4> QED BY <1>1, <2>1, <4>1
      <3>2. e + 1 > e
        OBVIOUS
      <3> QED BY <3>1, <3>2 DEF Followed
    <2>3. Covered <=> Followed(e)
      BY <1>3, <2>1 DEF Covered
    <2>4. ASSUME NEW id \in DOMAIN table
          PROVE  Broken(id) <=> id = e + 1
      BY <1>1, <2>1 DEF Broken
    <2> QED BY <2>2, <2>3, <2>4
  <1>4. CASE edit.kind \notin {"header", "delete"}
    BY <1>4 DEF Covered, Broken, Damaged, Missing
  <1> QED BY <1>2, <1>3, <1>4

(* An answer is the one of check_chain on the table as it is. *)
LEMMA AnswerFacts == AInv /\ Answered => report = check_chain(table)
  BY DEF AInv, Answered

(* An answer of check_chain is exact. *)
LEMMA AnswerIsExact == AInv => DetectionExact
  <1> SUFFICES ASSUME AInv, Answered PROVE report.result = -1 <=> Covered
    BY DEF DetectionExact
  <1> DEFINE blocks == GetAllBlocks(table)
             N == GetBlockCount(table)
  <1>1. report = check_chain(table)
    BY AnswerFacts
  <1>2. IsTable(table)
    BY DEF AInv, RowInv, IsTable
  <1>3. /\ N \in Nat /\ DOMAIN blocks = 1 .. N
        /\ \A i \in 1 .. N : Nth(DOMAIN table, i) \in DOMAIN table
        /\ \A id \in DOMAIN table : \E i \in 1 .. N : Nth(DOMAIN table, i) = id
    BY <1>2, AllBlocksFacts
  <1>4. \A i \in 1 .. N : FailsAt(blocks, i) <=> Broken(Nth(DOMAIN table, i))
    BY FailsWhereBroken
  <1>5. /\ check_chain(table).result = 0 <=> \A i \in DOMAIN blocks : ~ FailsAt(blocks, i)
        /\ check_chain(table).result \in {0, -1}
    BY CheckResult
  <1> HIDE DEF blocks, N
  <1>6. (\E i \in 1 .. N : FailsAt(blocks, i)) <=> \E id \in DOMAIN table : Broken(id)
    BY <1>3, <1>4
  <1>7. check_chain(table).result = -1 <=> \E i \in 1 .. N : FailsAt(blocks, i)
    BY <1>3, <1>5
  <1> QED BY <1>1, <1>6, <1>7, BrokenWhenCovered

(* A failing answer names the altered row or the one before it. *)
LEMMA AnswerIsNear == AInv => ReportIsNear
  <1> SUFFICES ASSUME AInv, Answered, report.result = -1, edit # NoEdit
               PROVE  \/ edit.id \in DOMAIN table /\ report.block = {Stored(edit.id)}
                      \/ edit.id - 1 \in DOMAIN table /\ report.block = {Stored(edit.id - 1)}
                      \/ edit.id = 0 /\ report.block = {BlankBlock}
    BY DEF ReportIsNear
  <1>1. report = check_chain(table)
    BY AnswerFacts
  <1>2. IsTable(table)
    BY DEF AInv, RowInv, IsTable
  <1>3. PICK i \in 1 .. GetBlockCount(table) :
           /\ FailsAt(GetAllBlocks(table), i)
           /\ report.block = {checkBlk(GetAllBlocks(table), i)}
    BY <1>1, <1>2, ReportedBlock
  <1>4. PICK id \in DOMAIN table :
           id = Nth(DOMAIN table, i) /\ checkBlk(GetAllBlocks(table), i) = PriorRow(id)
    BY WalkFacts
  <1>5. Broken(id) /\ report.block = {PriorRow(id)}
    BY <1>3, <1>4, FailsWhereBroken
  <1>6. id \in Nat /\ DOMAIN table \subseteq Nat
    BY DEF AInv, RowInv
  <1>7. CASE id \in Damaged
    <2>1. edit.id = id /\ Missing = {}
      BY <1>7 DEF Damaged, Missing
    <2>2. CASE id = 0
      <3>1. id - 1 \notin DOMAIN table /\ id - 2 \notin DOMAIN table
        BY <1>6, <2>2
      <3> QED BY <1>5, <2>1, <2>2, <3>1 DEF PriorRow
    <2>3. CASE id # 0
      <3>1. id - 1 \in DOMAIN table
        BY <1>6, <2>1, <2>3 DEF AInv, NumbersInv
      <3> QED BY <1>5, <2>1, <3>1 DEF PriorRow
    <2> QED BY <2>2, <2>3
  <1>8. CASE id - 1 \in Damaged
    <2>1. edit.id = id - 1 /\ id - 1 \in DOMAIN table
      BY <1>8 DEF AInv, RowInv, Damaged
    <2> QED BY <1>5, <2>1 DEF PriorRow
  <1>9. CASE id - 1 \in Missing
    <2>1. /\ edit.id = id - 1 /\ id - 1 \notin DOMAIN table /\ id - 1 \in Nat
          /\ \A j \in 0 .. id - 1 - 1 : j \in DOMAIN table
      BY <1>9 DEF AInv, NumbersInv, Missing
    <2>2. CASE id = 1
      <3>1. id - 2 \notin DOMAIN table
        BY <1>6, <2>2
      <3> QED BY <1>5, <2>1, <2>2, <3>1 DEF PriorRow
    <2>3. CASE id # 1
      <3>1. id - 2 \in DOMAIN table /\ edit.id - 1 = id - 2
        BY <1>6, <2>1, <2>3
      <3> QED BY <1>5, <2>1, <3>1 DEF PriorRow
    <2> QED BY <2>2, <2>3
  <1> QED BY <1>5, <1>7, <1>8, <1>9 DEF Broken

-----------------------------------------------------------------------------
(***************************************************************************)
(* The invariant is inductive.                                             *)
(***************************************************************************)

(* The empty table satisfies the invariant. *)
LEMMA InitAInv == AInit => AInv
  <1> SUFFICES ASSUME AInit PROVE AInv
    OBVIOUS
  <1>1. DOMAIN table = {}
    BY DEF AInit, EmptyTable
  <1>2. edit = NoEdit /\ Damaged = {} /\ Missing = {}
    BY DEF AInit, NoEdit, Damaged, Missing
  <1>3. IsFiniteSet(DOMAIN table)
    BY <1>1, FS_EmptySet
  <1>4. ~ BlockValid(last_block)
    BY BlankInvalid DEF AInit
  <1> QED BY <1>1, <1>2, <1>3, <1>4 DEF AInit, AInv, RowInv, NumbersInv, LinkInv, TipInv

(* Without an alteration every row is sealed and linked. *)
LEMMA CleanFacts ==
    ASSUME AInv, edit = NoEdit
    PROVE  /\ Damaged = {} /\ Missing = {}
           /\ \A id \in DOMAIN table : Sealed(id) /\ id \in Nat
           /\ \A id \in DOMAIN table : \A j \in 0 .. id : j \in DOMAIN table
           /\ \A id \in DOMAIN table : id > 0 =>
                 id - 1 \in DOMAIN table /\ Stored(id).prior_hash = BlockDigest(Stored(id - 1))
  <1>1. Damaged = {} /\ Missing = {}
    BY DEF NoEdit, Damaged, Missing
  <1>2. \A id \in DOMAIN table : Sealed(id) /\ id \in Nat
    BY <1>1 DEF AInv, RowInv
  <1>3. \A id \in DOMAIN table : \A j \in 0 .. id : j \in DOMAIN table
    BY <1>1 DEF AInv, NumbersInv
  <1>4. \A id \in DOMAIN table : id > 0 =>
           id - 1 \in DOMAIN table /\ Stored(id).prior_hash = BlockDigest(Stored(id - 1))
    BY <1>1 DEF AInv, LinkInv
  <1> QED BY <1>1, <1>2, <1>3, <1>4

(* The producer appends a block that links to the row before it. *)
LEMMA PublishAInv ==
    ASSUME AInv, NEW pool \in Pools, NEW now \in Times, Publish(pool, now)
    PROVE  AInv'
  <1>0. PICK n : n = NextNum(last_block)
    OBVIOUS
  <1>1. edit = NoEdit /\ edit' = NoEdit /\ report' = NoReport
    BY DEF Publish
  <1>2. PICK b : /\ b = BuildBlock(last_block, pool, now)
                 /\ last_block' = b /\ table' = Insert(table, b)
    BY DEF Publish
  <1>3. /\ IsRecord(b) /\ b.blk_num = n /\ b.prior_hash = PriorHash(last_block)
        /\ b.sig = Sign(ProducerKey, BlockDigest(b))
    BY <1>0, <1>2, BuildBlockFacts DEF IsRecord
  <1>4. Damaged' = {} /\ Missing' = {}
    BY <1>1 DEF NoEdit, Damaged, Missing
  <1>5. /\ \A id \in DOMAIN table : Sealed(id) /\ id \in Nat
        /\ \A id \in DOMAIN table : \A j \in 0 .. id : j \in DOMAIN table
        /\ \A id \in DOMAIN table : id > 0 =>
              id - 1 \in DOMAIN table /\ Stored(id).prior_hash = BlockDigest(Stored(id - 1))
    BY <1>1, CleanFacts
  <1>6. /\ n \in Nat /\ n \notin DOMAIN table
        /\ \A id \in DOMAIN table : id <= n
        /\ \A j \in 0 .. n - 1 : j \in DOMAIN table
        /\ n > 0 => n - 1 \in DOMAIN table /\ b.prior_hash = BlockDigest(Stored(n - 1))
    <2>1. CASE DOMAIN table = {} /\ ~ BlockValid(last_block)
      <3>1. n = 0
        BY <1>0, <2>1 DEF NextNum
      <3> QED BY <2>1, <3>1
    <2>2. CASE /\ last_block.blk_num \in DOMAIN table
               /\ last_block = Stored(last_block.blk_num)
               /\ \A id \in DOMAIN table : id <= last_block.blk_num
      <3>1. PICK k \in DOMAIN table : k = last_block.blk_num
        BY <2>2
      <3>2. k \in Nat /\ last_block = Stored(k) /\ BlockValid(last_block)
        BY <1>5, <2>2, <3>1, SealedValid
      <3>3. n = k + 1 /\ b.prior_hash = BlockDigest(Stored(k))
        BY <1>0, <1>3, <3>1, <3>2 DEF NextNum, PriorHash
      <3>4. \A id \in DOMAIN table : id <= k
        BY <2>2, <3>1
      <3>5. \A j \in 0 .. k : j \in DOMAIN table
        BY <1>5
      <3>6. n \notin DOMAIN table
        BY <3>2, <3>3, <3>4
      <3>7. \A id \in DOMAIN table : id <= n
        BY <1>5, <3>2, <3>3, <3>4
      <3>8. n - 1 = k
        BY <3>2, <3>3
      <3> QED BY <3>2, <3>3, <3>5, <3>6, <3>7, <3>8
    <2> QED BY <1>1, <2>1, <2>2 DEF AInv, TipInv
  <1>7. /\ DOMAIN table' = DOMAIN table \cup {n}
        /\ table'[n] = BlockRow(b)
        /\ \A id \in DOMAIN table : table'[id] = table[id]
    <2>1. KeyFree(table, b) /\ b.blk_num = n
      BY <1>3, <1>6 DEF KeyFree
    <2>2. /\ DOMAIN Insert(table, b) = DOMAIN table \cup {b.blk_num}
          /\ Insert(table, b)[b.blk_num] = BlockRow(b)
          /\ \A id \in DOMAIN table : Insert(table, b)[id] = table[id]
      BY <2>1, InsertFacts
    <2> QED BY <1>2, <2>1, <2>2
  <1>8. Stored(n)' = b /\ \A id \in DOMAIN table : Stored(id)' = Stored(id)
    BY <1>7 DEF Stored, FromJson, BlockRow, ToJson
  <1>9. /\ Sealed(n)'
        /\ \A id \in DOMAIN table : Sealed(id)'
    <2>1. Sealed(n)'
      BY <1>3, <1>8 DEF Sealed
    <2>2. ASSUME NEW id \in DOMAIN table PROVE Sealed(id)'
      BY <1>5, <1>8 DEF Sealed
    <2> QED BY <2>1, <2>2
  <1>10. RowInv'
    <2>1. IsFiniteSet(DOMAIN table')
      BY <1>7, FS_AddElement DEF AInv, RowInv
    <2>2. DOMAIN table' \subseteq Nat
      BY <1>5, <1>6, <1>7
    <2>3. \A id \in DOMAIN table' :
             table'[id] = [HASH |-> table'[id].HASH, JSON |-> table'[id].JSON]
      BY <1>7 DEF AInv, RowInv, BlockRow
    <2> QED BY <1>4, <1>7, <1>9, <2>1, <2>2, <2>3 DEF RowInv
  <1>11. NumbersInv'
    <2>1. ASSUME NEW id \in DOMAIN table', NEW j \in 0 .. id PROVE j \in DOMAIN table'
      <3>1. CASE id \in DOMAIN table
        BY <1>5, <1>7, <3>1
      <3>2. CASE id = n
        <4>1. j = n \/ j \in 0 .. n - 1
          BY <1>6, <3>2
        <4> QED BY <1>6, <1>7, <4>1
      <3> QED BY <1>7, <3>1, <3>2
    <2> QED BY <1>4, <2>1 DEF NumbersInv
  <1>12. LinkInv'
    <2> SUFFICES ASSUME NEW id \in DOMAIN table', id > 0
                 PROVE  /\ id - 1 \in DOMAIN table'
                        /\ Stored(id)'.prior_hash = BlockDigest(Stored(id - 1)')
      BY DEF LinkInv, BlockDigest
    <2>1. CASE id \in DOMAIN table
      <3>1. id - 1 \in DOMAIN table /\ Stored(id).prior_hash = BlockDigest(Stored(id - 1))
        BY <1>5, <2>1
      <3> QED BY <1>7, <1>8, <2>1, <3>1
    <2>2. CASE id = n
      BY <1>6, <1>7, <1>8, <2>2
    <2> QED BY <1>7, <2>1, <2>2
  <1>13. TipInv'
    <2>1. last_block'.blk_num = n /\ last_block' = Stored(n)' /\ n \in DOMAIN table'
      BY <1>2, <1>3, <1>7, <1>8
    <2>2. \A id \in DOMAIN table' : id <= n
      BY <1>6, <1>7
    <2> QED BY <2>1, <2>2 DEF TipInv
  <1> QED BY <1>1, <1>10, <1>11, <1>12, <1>13 DEF AInv

(* What UPDATE of the JSON column does to the rows. *)
LEMMA RewriteFacts ==
    ASSUME RowInv, NEW id \in DOMAIN table, NEW blk, Rewrite(id, blk)
    PROVE  /\ DOMAIN table' = DOMAIN table
           /\ Stored(id)' = blk
           /\ \A j \in DOMAIN table \ {id} : table'[j] = table[j] /\ Stored(j)' = Stored(j)
           /\ \A j \in DOMAIN table :
                 table'[j] = [HASH |-> table'[j].HASH, JSON |-> table'[j].JSON]
  <1>1. PICK row : row = [HASH |-> table[id].HASH, JSON |-> ToJson(blk)]
    OBVIOUS
  <1>2. table' = [table EXCEPT ![id] = row]
    <2>1. [table[id] EXCEPT !.JSON = ToJson(blk)] = row
      BY <1>1 DEF RowInv
    <2>2. table' = [table EXCEPT ![id] = [table[id] EXCEPT !.JSON = ToJson(blk)]]
      BY DEF Rewrite
    <2> QED BY <2>1, <2>2
  <1>3. /\ DOMAIN table' = DOMAIN table /\ table'[id] = row
        /\ \A j \in DOMAIN table \ {id} : table'[j] = table[j]
    BY <1>2
  <1>4. row.JSON = ToJson(blk) /\ row = [HASH |-> row.HASH, JSON |-> row.JSON]
    BY <1>1
  <1>5. Stored(id)' = blk
    BY <1>3, <1>4 DEF Stored, FromJson, ToJson
  <1>6. \A j \in DOMAIN table \ {id} : Stored(j)' = Stored(j)
    BY <1>3 DEF Stored
  <1>7. \A j \in DOMAIN table :
           table'[j] = [HASH |-> table'[j].HASH, JSON |-> table'[j].JSON]
    BY <1>3, <1>4 DEF RowInv
  <1> QED BY <1>3, <1>5, <1>6, <1>7

(***************************************************************************)
(* A header field or the signature cannot be replaced without making the   *)
(* signature one for another digest.                                       *)
(***************************************************************************)
LEMMA ForgeryInvalid ==
    ASSUME AInv, edit = NoEdit, NEW id \in DOMAIN table,
           NEW field \in {"blk_num", "prior_hash", "time_point", "merkle_root", "sig"},
           NEW v \in HeaderValues(field), v # Stored(id)[field]
    PROVE  ~ BlockValid([Stored(id) EXCEPT ![field] = v])
  <1> DEFINE new == [Stored(id) EXCEPT ![field] = v]
  <1>1. PICK b : b = Stored(id) /\ IsRecord(b) /\ b.sig = Sign(ProducerKey, BlockDigest(b))
    BY CleanFacts DEF Sealed
  <1>2. v # b[field] /\ new = [b EXCEPT ![field] = v]
    BY <1>1
  <1> HIDE DEF new
  <1>3. ASSUME BlockDigest(new) # BlockDigest(b), new.sig = b.sig PROVE ~ BlockValid(new)
    BY <1>1, <1>3, KeysAssumption DEF BlockValid, Recover, Sign
  <1>4. CASE field = "blk_num"
    <2>1. new.blk_num # b.blk_num /\ new.sig = b.sig
      BY <1>1, <1>2, <1>4 DEF IsRecord
    <2> QED BY <1>3, <2>1, DigestInjective DEF new
  <1>5. CASE field = "prior_hash"
    <2>1. new.prior_hash # b.prior_hash /\ new.sig = b.sig
      BY <1>1, <1>2, <1>5 DEF IsRecord
    <2> QED BY <1>3, <2>1, DigestInjective DEF new
  <1>6. CASE field = "time_point"
    <2>1. new.time_point # b.time_point /\ new.sig = b.sig
      BY <1>1, <1>2, <1>6 DEF IsRecord
    <2> QED BY <1>3, <2>1, DigestInjective DEF new
  <1>7. CASE field = "merkle_root"
    <2>1. new.merkle_root # b.merkle_root /\ new.sig = b.sig
      BY <1>1, <1>2, <1>7 DEF IsRecord
    <2> QED BY <1>3, <2>1, DigestInjective DEF new
  <1>8. CASE field = "sig"
    <2>1. /\ new.sig = v /\ v # b.sig
          /\ new.blk_num = b.blk_num /\ new.prior_hash = b.prior_hash
          /\ new.time_point = b.time_point /\ new.merkle_root = b.merkle_root
      BY <1>1, <1>2, <1>8 DEF IsRecord
    <2>2. BlockDigest(new) = BlockDigest(b)
      BY <2>1 DEF BlockDigest
    <2>3. v = BlankSig \/ \E j \in DOMAIN table : v = Stored(j).sig
      BY <1>8 DEF HeaderValues
    <2>4. CASE v = BlankSig
      BY <2>1, <2>4 DEF BlockValid, new
    <2>5. ASSUME NEW j \in DOMAIN table, v = Stored(j).sig PROVE ~ BlockValid(new)
      <3>1. v = Sign(ProducerKey, BlockDigest(Stored(j)))
        BY <2>5, CleanFacts DEF Sealed
      <3>2. BlockDigest(Stored(j)) # BlockDigest(b)
        BY <1>1, <2>1, <3>1
      <3>3. Recover(v, BlockDigest(new)) = OtherKey
        BY <2>2, <3>1, <3>2 DEF Recover, Sign
      <3> QED BY <2>1, <3>3, KeysAssumption DEF BlockValid
    <2> QED BY <2>3, <2>4, <2>5 DEF new
  <1> QED BY <1>4, <1>5, <1>6, <1>7, <1>8

(* An edited header field damages one row and leaves the others linked. *)
LEMMA EditHeaderAInv ==
    ASSUME AInv, edit = NoEdit, NEW id \in DOMAIN table,
           NEW field \in {"blk_num", "prior_hash", "time_point", "merkle_root", "sig"},
           EditHeader(id, field), report' = NoReport
    PROVE  AInv'
  <1>1. PICK v \in HeaderValues(field) :
           v # Stored(id)[field] /\ Rewrite(id, [Stored(id) EXCEPT ![field] = v])
    BY DEF EditHeader
  <1>2. PICK new : new = [Stored(id) EXCEPT ![field] = v] /\ Rewrite(id, new)
    BY <1>1
  <1>3. ~ BlockValid(new)
    BY <1>1, <1>2, ForgeryInvalid
  <1>4. edit'.kind = "header" /\ edit'.id = id /\ edit' # NoEdit
    BY DEF EditHeader, NoEdit
  <1>5. Damaged' = {id} /\ Missing' = {}
    BY <1>4 DEF Damaged, Missing
  <1>6. /\ DOMAIN table' = DOMAIN table /\ Stored(id)' = new
        /\ \A j \in DOMAIN table \ {id} : Stored(j)' = Stored(j)
        /\ \A j \in DOMAIN table :
              table'[j] = [HASH |-> table'[j].HASH, JSON |-> table'[j].JSON]
    BY <1>2, RewriteFacts DEF AInv
  <1>7. /\ \A j \in DOMAIN table : Sealed(j) /\ j \in Nat
        /\ \A j \in DOMAIN table : \A k \in 0 .. j : k \in DOMAIN table
        /\ \A j \in DOMAIN table : j > 0 =>
              j - 1 \in DOMAIN table /\ Stored(j).prior_hash = BlockDigest(Stored(j - 1))
    BY CleanFacts
  <1>8. RowInv'
    <2>1. \A j \in DOMAIN table \ {id} : Sealed(j)'
      BY <1>6, <1>7 DEF Sealed
    <2>2. IsFiniteSet(DOMAIN table)
      BY DEF AInv, RowInv
    <2>3. ~ BlockValid(Stored(id)')
      BY <1>3, <1>6
    <2> QED BY <1>5, <1>6, <1>7, <2>1, <2>2, <2>3 DEF RowInv
  <1>9. NumbersInv'
    BY <1>5, <1>6, <1>7 DEF NumbersInv
  <1>10. LinkInv'
    <2> SUFFICES ASSUME NEW j \in DOMAIN table, j # id, j > 0, j - 1 # id
                 PROVE  /\ j - 1 \in DOMAIN table
                        /\ Stored(j)'.prior_hash = BlockDigest(Stored(j - 1)')
      BY <1>5, <1>6 DEF LinkInv
    <2> QED BY <1>6, <1>7
  <1> QED BY <1>4, <1>8, <1>9, <1>10 DEF AInv, TipInv

(* The other columns of the row do not enter the check. *)
LEMMA HiddenAInv ==
    ASSUME AInv, edit = NoEdit, edit'.kind \in {"trxs", "hash"},
           DOMAIN table' = DOMAIN table,
           \A j \in DOMAIN table :
              /\ IsRecord(Stored(j)')
              /\ Stored(j)'.blk_num = Stored(j).blk_num
              /\ Stored(j)'.prior_hash = Stored(j).prior_hash
              /\ Stored(j)'.sig = Stored(j).sig
              /\ BlockDigest(Stored(j)') = BlockDigest(Stored(j))
              /\ table'[j] = [HASH |-> table'[j].HASH, JSON |-> table'[j].JSON],
           report' = NoReport
    PROVE  AInv'
  <1>1. Damaged' = {} /\ Missing' = {} /\ edit' # NoEdit
    BY DEF Damaged, Missing, NoEdit
  <1>2. /\ \A j \in DOMAIN table : Sealed(j) /\ j \in Nat
        /\ \A j \in DOMAIN table : \A k \in 0 .. j : k \in DOMAIN table
        /\ \A j \in DOMAIN table : j > 0 =>
              j - 1 \in DOMAIN table /\ Stored(j).prior_hash = BlockDigest(Stored(j - 1))
    BY CleanFacts
  <1>3. RowInv'
    <2>1. ASSUME NEW j \in DOMAIN table PROVE Sealed(j)'
      <3>1. Stored(j)'.sig = Sign(ProducerKey, BlockDigest(Stored(j)'))
        BY <1>2 DEF Sealed
      <3>2. Stored(j)'.blk_num = j
        BY <1>2 DEF Sealed
      <3> QED BY <3>1, <3>2 DEF Sealed
    <2>2. IsFiniteSet(DOMAIN table)
      BY DEF AInv, RowInv
    <2> QED BY <1>1, <1>2, <2>1, <2>2 DEF RowInv
  <1>4. NumbersInv'
    BY <1>1, <1>2 DEF NumbersInv
  <1>5. LinkInv'
    <2> SUFFICES ASSUME NEW j \in DOMAIN table, j > 0
                 PROVE  /\ j - 1 \in DOMAIN table
                        /\ Stored(j)'.prior_hash = BlockDigest(Stored(j - 1)')
      BY DEF LinkInv
    <2>1. j - 1 \in DOMAIN table /\ Stored(j).prior_hash = BlockDigest(Stored(j - 1))
      BY <1>2
    <2> QED BY <2>1
  <1> QED BY <1>1, <1>3, <1>4, <1>5 DEF AInv, TipInv

(* Edited transactions damage no header. *)
LEMMA EditTrxsAInv ==
    ASSUME AInv, edit = NoEdit, NEW id \in DOMAIN table, EditTrxs(id), report' = NoReport
    PROVE  AInv'
  <1>1. PICK pool : Rewrite(id, [Stored(id) EXCEPT !.trxs = pool])
    BY DEF EditTrxs
  <1>2. PICK new : new = [Stored(id) EXCEPT !.trxs = pool] /\ Rewrite(id, new)
    BY <1>1
  <1>3. /\ DOMAIN table' = DOMAIN table /\ Stored(id)' = new
        /\ \A j \in DOMAIN table \ {id} : Stored(j)' = Stored(j)
        /\ \A j \in DOMAIN table :
              table'[j] = [HASH |-> table'[j].HASH, JSON |-> table'[j].JSON]
    BY <1>2, RewriteFacts DEF AInv
  <1>4. \A j \in DOMAIN table : IsRecord(Stored(j))
    BY CleanFacts DEF Sealed
  <1>5. /\ IsRecord(new)
        /\ new.blk_num = Stored(id).blk_num /\ new.prior_hash = Stored(id).prior_hash
        /\ new.sig = Stored(id).sig /\ new.time_point = Stored(id).time_point
        /\ new.merkle_root = Stored(id).merkle_root
    BY <1>2, <1>4 DEF IsRecord
  <1>6. BlockDigest(new) = BlockDigest(Stored(id))
    BY <1>5 DEF BlockDigest
  <1>7. edit'.kind = "trxs"
    BY DEF EditTrxs
  <1>8. ASSUME NEW j \in DOMAIN table
        PROVE  /\ IsRecord(Stored(j)')
               /\ Stored(j)'.blk_num = Stored(j).blk_num
               /\ Stored(j)'.prior_hash = Stored(j).prior_hash
               /\ Stored(j)'.sig = Stored(j).sig
               /\ BlockDigest(Stored(j)') = BlockDigest(Stored(j))
    <2>1. CASE j = id
      BY <1>3, <1>5, <1>6, <2>1
    <2>2. CASE j # id
      BY <1>3, <1>4, <2>2
    <2> QED BY <2>1, <2>2
  <1> QED BY <1>3, <1>7, <1>8, HiddenAInv

(* An edited HASH column is read by nobody. *)
LEMMA EditHashAInv ==
    ASSUME AInv, edit = NoEdit, NEW id \in DOMAIN table, EditHash(id), report' = NoReport
    PROVE  AInv'
  <1>1. PICK row : row = [HASH |-> ZeroHash, JSON |-> table[id].JSON]
    OBVIOUS
  <1>2. table' = [table EXCEPT ![id] = row]
    <2>1. [table[id] EXCEPT !.HASH = ZeroHash] = row
      BY <1>1 DEF AInv, RowInv
    <2>2. table' = [table EXCEPT ![id] = [table[id] EXCEPT !.HASH = ZeroHash]]
      BY DEF EditHash
    <2> QED BY <2>1, <2>2
  <1>3. /\ DOMAIN table' = DOMAIN table /\ table'[id] = row
        /\ \A j \in DOMAIN table \ {id} : table'[j] = table[j]
    BY <1>2
  <1>4. row.JSON = table[id].JSON /\ row = [HASH |-> row.HASH, JSON |-> row.JSON]
    BY <1>1
  <1>5. \A j \in DOMAIN table : Stored(j)' = Stored(j)
    BY <1>3, <1>4 DEF Stored
  <1>6. \A j \in DOMAIN table : table'[j] = [HASH |-> table'[j].HASH, JSON |-> table'[j].JSON]
    BY <1>3, <1>4 DEF AInv, RowInv
  <1>7. \A j \in DOMAIN table : IsRecord(Stored(j))
    BY CleanFacts DEF Sealed
  <1>8. edit'.kind = "hash"
    BY DEF EditHash
  <1> QED BY <1>3, <1>5, <1>6, <1>7, <1>8, HiddenAInv

(* A deleted row leaves a gap in otherwise linked rows. *)
LEMMA DeleteRowAInv ==
    ASSUME AInv, edit = NoEdit, NEW id \in DOMAIN table, DeleteRow(id), report' = NoReport
    PROVE  AInv'
  <1>1. edit'.kind = "delete" /\ edit'.id = id /\ edit' # NoEdit
    BY DEF DeleteRow, NoEdit
  <1>2. Damaged' = {} /\ Missing' = {id}
    BY <1>1 DEF Damaged, Missing
  <1>3. /\ DOMAIN table' = DOMAIN table \ {id}
        /\ \A j \in DOMAIN table \ {id} : table'[j] = table[j]
    BY DEF DeleteRow
  <1>4. \A j \in DOMAIN table \ {id} : Stored(j)' = Stored(j)
    BY <1>3 DEF Stored
  <1>5. /\ \A j \in DOMAIN table : Sealed(j) /\ j \in Nat
        /\ \A j \in DOMAIN table : \A k \in 0 .. j : k \in DOMAIN table
        /\ \A j \in DOMAIN table : j > 0 =>
              j - 1 \in DOMAIN table /\ Stored(j).prior_hash = BlockDigest(Stored(j - 1))
    BY CleanFacts
  <1>6. RowInv'
    <2>1. IsFiniteSet(DOMAIN table')
      BY <1>3, FS_Subset DEF AInv, RowInv
    <2>2. \A j \in DOMAIN table' : Sealed(j)'
      BY <1>3, <1>4, <1>5 DEF Sealed
    <2>3. \A j \in DOMAIN table' :
             table'[j] = [HASH |-> table'[j].HASH, JSON |-> table'[j].JSON]
      BY <1>3 DEF AInv, RowInv
    <2> QED BY <1>2, <1>3, <1>5, <2>1, <2>2, <2>3 DEF RowInv
  <1>7. NumbersInv'
    <2>1. \A j \in DOMAIN table' : \A k \in 0 .. j : k \in DOMAIN table' \cup {id}
      BY <1>3, <1>5
    <2>2. id \in Nat /\ id \notin DOMAIN table'
      BY <1>3, <1>5
    <2>3. \A j \in 0 .. id - 1 : j \in DOMAIN table'
      BY <1>3, <1>5, <2>2
    <2> QED BY <1>2, <2>1, <2>2, <2>3 DEF NumbersInv
  <1>8. LinkInv'
    <2> SUFFICES ASSUME NEW j \in DOMAIN table, j # id, j > 0
                 PROVE  \/ /\ j - 1 \in DOMAIN table'
                           /\ Stored(j)'.prior_hash = BlockDigest(Stored(j - 1)')
                        \/ /\ j - 1 \in Missing'
                           /\ j - 2 \in DOMAIN table' =>
                                  Stored(j)'.prior_hash # BlockDigest(Stored(j - 2)')
      BY <1>2, <1>3 DEF LinkInv
    <2>1. j - 1 \in DOMAIN table /\ Stored(j).prior_hash = BlockDigest(Stored(j - 1))
      BY <1>5
    <2>2. CASE j - 1 # id
      BY <1>3, <1>4, <2>1, <2>2
    <2>3. CASE j - 1 = id
      <3>1. ASSUME j - 2 \in DOMAIN table'
            PROVE  Stored(j)'.prior_hash # BlockDigest(Stored(j - 2)')
        <4>1. j - 2 \in DOMAIN table /\ Stored(j - 2)' = Stored(j - 2) /\ Stored(j)' = Stored(j)
          BY <1>3, <1>4, <3>1
        <4>2. Stored(j - 2).blk_num = j - 2 /\ Stored(j - 1).blk_num = j - 1
          BY <1>5, <2>1, <4>1 DEF Sealed
        <4>3. BlockDigest(Stored(j - 1)) # BlockDigest(Stored(j - 2))
          <5>1. Stored(j - 1).blk_num # Stored(j - 2).blk_num
            BY <1>5, <4>2
          <5> QED BY <5>1, DigestInjective
        <4> QED BY <2>1, <4>1, <4>3
      <3> QED BY <1>2, <2>3, <3>1
    <2> QED BY <2>2, <2>3
  <1> QED BY <1>1, <1>6, <1>7, <1>8 DEF AInv, TipInv

(* Every step of the audit keeps the invariant. *)
LEMMA NextAInv == AInv /\ [ANext]_avars => AInv'
  <1> SUFFICES ASSUME AInv, [ANext]_avars PROVE AInv'
    OBVIOUS
  <1>1. CASE \E pool \in Pools, now \in Times : Publish(pool, now)
    BY <1>1, PublishAInv
  <1>2. ASSUME NEW id \in DOMAIN table, Alter(id) PROVE AInv'
    <2>1. edit = NoEdit /\ report' = NoReport
      BY <1>2 DEF Alter
    <2>2. CASE \E field \in {"blk_num", "prior_hash", "time_point", "merkle_root", "sig"} :
                  EditHeader(id, field)
      BY <2>1, <2>2, EditHeaderAInv
    <2>3. CASE EditTrxs(id)
      BY <2>1, <2>3, EditTrxsAInv
    <2>4. CASE EditHash(id)
      BY <2>1, <2>4, EditHashAInv
    <2>5. CASE DeleteRow(id)
      BY <2>1, <2>5, DeleteRowAInv
    <2> QED BY <1>2, <2>2, <2>3, <2>4, <2>5 DEF Alter
  <1>3. CASE Check \/ UNCHANGED avars
    <2>1. UNCHANGED <<table, last_block, edit>> /\ report' \in {NoReport, check_chain(table)}
      BY <1>3 DEF Check, avars, AInv
    <2>2. Damaged' = Damaged /\ Missing' = Missing
      BY <2>1 DEF Damaged, Missing
    <2>3. \A id : Stored(id)' = Stored(id)
      BY <2>1 DEF Stored
    <2>4. \A id : Sealed(id)' = Sealed(id)
      BY <2>3 DEF Sealed
    <2>5. RowInv' /\ NumbersInv' /\ TipInv'
      BY <2>1, <2>2, <2>3, <2>4 DEF AInv, RowInv, NumbersInv, TipInv
    <2>6. LinkInv'
      BY <2>1, <2>2, <2>3 DEF AInv, LinkInv
    <2>7. report' \in {NoReport, check_chain(table)'}
      BY <2>1
    <2> QED BY <2>5, <2>6, <2>7 DEF AInv
  <1> QED BY <1>1, <1>2, <1>3 DEF ANext

(* The invariant of a published and then altered chain. *)
THEOREM AuditInvariant == ASpec => []AInv
  BY InitAInv, NextAInv, PTL DEF ASpec

(***************************************************************************)
(* check_chain answers -1 exactly for the alterations that links and       *)
(* signatures cover, on a chain of any length: in a header or a signature  *)
(* because a forged row is no valid block, and for a deleted row because   *)
(* the digest that the row after it names has the deleted number in it.    *)
(***************************************************************************)
THEOREM DetectionAlwaysExact == ASpec => []DetectionExact
  BY AuditInvariant, AnswerIsExact, PTL

(* The block that check_chain reports is the altered one or the one before. *)
THEOREM ReportAlwaysNear == ASpec => []ReportIsNear
  BY AuditInvariant, AnswerIsNear, PTL
=============================================================================

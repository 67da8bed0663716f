----------------------------- MODULE ChainAudit -----------------------------
(***************************************************************************)
(* What check_chain can tell about a database that was altered outside the *)
(* node: a chain is published, then one row of blocks.db is edited or      *)
(* deleted while no handler runs, then check_chain is asked.               *)
(***************************************************************************)
EXTENDS ReadApi

CONSTANTS
    Pools,       \* the pools publish_blk may find
    Times,       \* values of the clock
    MaxBlocks    \* bound: blocks published

VARIABLES
    table,       \* the BLOCK table on disk
    last_block,  \* Buffer::last_block
    edit,        \* history: the alteration made, if any
    report       \* the last answer of check_chain, if any

avars == <<table, last_block, edit, report>>

NoEdit == [kind |-> "none"]

NoReport == [result |-> 1, block |-> {}]

AInit ==
    /\ table = EmptyTable
    /\ last_block = BlankBlock
    /\ edit = NoEdit
    /\ report = NoReport

(* publish_blk on a healthy store. *)
Publish(pool, now) ==
    /\ edit = NoEdit
    /\ NextNum(last_block) < MaxBlocks
    /\ last_block' = BuildBlock(last_block, pool, now)
    /\ table' = Insert(table, last_block')
    /\ report' = NoReport
    /\ UNCHANGED edit

-----------------------------------------------------------------------------
(***************************************************************************)
(* The alterations: of a header field or the signature, of the transaction *)
(* list alone, of the HASH column, or the deletion of the row.             *)
(***************************************************************************)
Stored(id) == FromJson(table[id].JSON)

HeaderValues(field) ==
    CASE field = "blk_num"     -> 0 .. MaxBlocks
      [] field = "prior_hash"  -> {ZeroHash} \cup {BlockDigest(Stored(id)) : id \in DOMAIN table}
      [] field = "time_point"  -> Times \cup {0}
      [] field = "merkle_root" -> {MerkleRoot(pool) : pool \in Pools}
      [] field = "sig"         -> {BlankSig} \cup {Stored(id).sig : id \in DOMAIN table}

Rewrite(id, blk) == table' = [table EXCEPT ![id].JSON = ToJson(blk)]

EditHeader(id, field) ==
    /\ \E v \in HeaderValues(field) \ {Stored(id)[field]} :
           Rewrite(id, [Stored(id) EXCEPT ![field] = v])
    /\ edit' = [kind |-> "header", id |-> id]

EditTrxs(id) ==
    /\ \E pool \in Pools \ {Stored(id).trxs} :
           Rewrite(id, [Stored(id) EXCEPT !.trxs = pool])
    /\ edit' = [kind |-> "trxs", id |-> id]

EditHash(id) ==
    /\ table' = [table EXCEPT ![id].HASH = ZeroHash]
    /\ edit' = [kind |-> "hash", id |-> id]

DeleteRow(id) ==
    /\ table' = [i \in DOMAIN table \ {id} |-> table[i]]
    /\ edit' = [kind |-> "delete", id |-> id]

Alter(id) ==
    /\ edit = NoEdit
    /\ \/ \E field \in {"blk_num", "prior_hash", "time_point", "merkle_root", "sig"} :
              EditHeader(id, field)
       \/ EditTrxs(id)
       \/ EditHash(id)
       \/ DeleteRow(id)
    /\ report' = NoReport
    /\ UNCHANGED last_block

Check ==
    /\ report' = check_chain(table)
    /\ UNCHANGED <<table, last_block, edit>>

ANext ==
    \/ \E pool \in Pools, now \in Times : Publish(pool, now)
    \/ \E id \in DOMAIN table : Alter(id)
    \/ Check

ASpec == AInit /\ [][ANext]_avars

-----------------------------------------------------------------------------
(***************************************************************************)
(* Properties of the answer check_chain gave last.                         *)
(***************************************************************************)
Answered == report # NoReport

Followed(id) == \E i \in DOMAIN table : i > id

(* The alteration is one that the links and signatures cover. *)
Covered ==
    \/ /\ edit.kind = "header"
       /\ Followed(edit.id) \/ Stored(edit.id).blk_num # 0
    \/ edit.kind = "delete" /\ Followed(edit.id)

(***************************************************************************)
(* check_chain answers -1 exactly for these alterations: of a header field *)
(* or the signature of a row, unless it is the last row and says it is     *)
(* number 0; and the deletion of a row other than the last.  An unaltered  *)
(* chain answers 0.                                                        *)
(***************************************************************************)
DetectionExact == Answered => (report.result = -1 <=> Covered)

(***************************************************************************)
(* The block reported with -1 is the altered one or the one before it: a   *)
(* reader of the report looks at most one block away.                      *)
(***************************************************************************)
ReportIsNear ==
    Answered /\ report.result = -1 /\ edit # NoEdit =>
        \/ edit.id \in DOMAIN table /\ report.block = {Stored(edit.id)}
        \/ edit.id - 1 \in DOMAIN table /\ report.block = {Stored(edit.id - 1)}
        \/ edit.id = 0 /\ report.block = {BlankBlock}

(***************************************************************************)
(* What the option --chkchain says the check is for: "check whether the    *)
(* chain was changed".                                                     *)
(***************************************************************************)
ChangeDetected == Answered /\ edit.kind = "trxs" => report.result = -1
=============================================================================

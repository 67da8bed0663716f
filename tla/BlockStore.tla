----------------------------- MODULE BlockStore -----------------------------
(***************************************************************************)
(* sqlite_plugin: the SQL statements run against table                     *)
(*     BLOCK(ID int primary key, HASH, JSON)                               *)
(* A table is a function from the IDs present to their rows.  An           *)
(* fc::optional<Block> is the empty set or a singleton.                    *)
(***************************************************************************)
EXTENDS Blocks, Integers, FiniteSets

(***************************************************************************)
(* fc::json::to_string / from_string on a block: every reflected field is  *)
(* printed and read back (byte vectors as hex, the time as ISO text).      *)
(***************************************************************************)
ToJson(b) == [json |-> b]

FromJson(text) == text.json

EmptyTable == [id \in {} |-> {}]

BlockRow(b) == [HASH |-> BlockDigest(b), JSON |-> ToJson(b)]

(* Variant: INSERT OR REPLACE. *)
KeyFree_Always(table, b) == TRUE

(***************************************************************************)
(* INSERT INTO BLOCK: possible only while the primary key is free.         *)
(***************************************************************************)
KeyFree(table, b) == b.blk_num \notin DOMAIN table

Insert(table, b) ==
    [id \in DOMAIN table \cup {b.blk_num} |->
        IF id = b.blk_num THEN BlockRow(b) ELSE table[id]]

\* SELECT count(*)
GetBlockCount(table) == Cardinality(DOMAIN table)

\* SELECT JSON ... WHERE ID = num
GetBlock(table, num) == {FromJson(table[id].JSON) : id \in DOMAIN table \cap {num}}

(* Variant: ORDER BY ID DESC. *)
Nth_Desc(S, i) == CHOOSE n \in S : Cardinality({m \in S : m > n}) = i - 1

(***************************************************************************)
(* SELECT JSON ... ORDER BY ID: the i-th block returned is the one whose   *)
(* ID has i-1 smaller IDs in the table.                                    *)
(***************************************************************************)
Nth(S, i) == CHOOSE n \in S : Cardinality({m \in S : m < n}) = i - 1

GetAllBlocks(table) ==
    [i \in 1 .. GetBlockCount(table) |-> FromJson(table[Nth(DOMAIN table, i)].JSON)]
=============================================================================

---------------------------- MODULE MCChainAudit ----------------------------
(***************************************************************************)
(* ChainAudit for TLC: pools of no, one and two transactions.  Only their  *)
(* identity matters to check_chain, so a transaction is a model value.     *)
(***************************************************************************)
EXTENDS ChainAudit

CONSTANTS t1, t2

MCPools == {<<>>, <<t1>>, <<t1, t2>>}
=============================================================================

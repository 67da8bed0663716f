------------------------------ MODULE MCBatch -------------------------------
(***************************************************************************)
(* Batch for TLC: the runs measure different data, which stand for the run *)
(* that read them, so that exchanging two runs exchanges their data.       *)
(***************************************************************************)
EXTENDS Batch, TLC

CONSTANTS iot

Measured(data) ==
    SignTrx([time_point |-> 1, data |-> data, attach |-> iot,
             signature |-> BlankSig, pub_key |-> iot], iot)

MCIotTrx == [r \in Runs |-> Measured(r)]

MCEmptyTrx == Measured(NoData)

MCTrxParams == {MCIotTrx[r] : r \in Runs} \cup {MCEmptyTrx}

RunsSymmetry == Permutations(Runs)

(***************************************************************************)
(* What later steps can depend on: not the last reply.                     *)
(***************************************************************************)
BatchView ==
    <<table, trx_pool, last_block, last_blk, pc, Len(accepted), sqlErrors, batchVars>>

(***************************************************************************)
(* Bounds of a behaviour: one failing statement, edit or failing cp, after *)
(* which little is pushed or stored, and one run at a time that the node   *)
(* stopped under.  A schedule that is not installed only takes behaviours  *)
(* away (it is the guard of Fire and of nothing else), so that it need not *)
(* be absent while a run goes on.                                          *)
(***************************************************************************)
Faults == sqlErrors + edits + cpErrors

Bounded ==
    /\ Faults <= 1
    /\ Faults = 1 => Len(accepted) + Cardinality(DOMAIN table) <= 2
    /\ \A r, q \in Runs : ~ run[r].calm /\ ~ run[q].calm => r = q
    /\ crontab \/ \A r \in Runs : ~ Active(run[r])

(***************************************************************************)
(* Bound of the race: no cp is met by another cp, an INSERT or a query,    *)
(* and one run only finds that there is no backup.                         *)
(***************************************************************************)
QuickCps ==
    \A r \in Runs :
        /\ {} \notin local[r].may
        /\ run[r].step \in {"backblock", "compare", "replace"} => local[r].whole
        /\ run[r].step = "first" => exists = InCp(r)
=============================================================================

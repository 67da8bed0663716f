------------------------------- MODULE Batch --------------------------------
(***************************************************************************)
(* The scheduled batch as a client of a node.  schedule_plugin installs a  *)
(* crontab when it starts and removes it when it is shut down; the crontab *)
(* fires every minute of an hour, so runs of batch.sh may overlap.  A run  *)
(* asks check_chain, backs blocks.db up, turns a measurement into a signed *)
(* transaction, pushes it and publishes a block.                           *)
(*                                                                         *)
(* The scripts judge a call by what curl printed: nothing, when the node   *)
(* does not answer.  A call waits while the node is inside a handler.      *)
(*                                                                         *)
(* A cp empties its target, writes it, and may fail unnoticed.  What the   *)
(* files of the scripts hold is a set: the whole database in it, or {} for *)
(* a file that is missing, empty, cut short or a mixture of databases.     *)
(***************************************************************************)
EXTENDS ChainNode

CONSTANTS
    Runs,       \* the runs of batch.sh that the crontab fires
    NoRun,      \* none of them
    IotTrx,     \* the transaction each run makes of its measurement
    EmptyTrx,   \* the one it makes of a measurement that cannot be read
    MaxEdits,   \* bound: alterations of blocks.db outside the node
    MaxCpErrors \* bound: cps that fail

ASSUME BatchAssumption ==
    /\ NoRun \notin Runs
    /\ IotTrx \in [Runs -> {trx \in TrxParams : TrxValidate(trx)}]
    /\ EmptyTrx \in TrxParams /\ ~ TrxValidate(EmptyTrx)
    /\ MaxEdits \in Nat
    /\ MaxCpErrors \in Nat

VARIABLES
    crontab,  \* whether the schedule is installed
    copy,     \* /tmp/blocks.db, which all runs share
    exists,   \* whether there is a backup file
    backup,   \* what it holds
    kept,     \* history: the last whole database it held
    run,      \* for each run: its step, what it has to push, and whether the
              \* node has not stopped since it began (history)
    local,    \* for each run: the cp it is in, and its shell variables
    client,   \* the run whose publish_blk the node is working on, or NoRun
    edits,    \* history: alterations of blocks.db outside the node
    cpErrors  \* history: cps that failed

fileVars == <<copy, exists, backup, kept, local, cpErrors>>

batchVars == <<crontab, fileVars, run, client, edits>>

tvars == <<vars, batchVars>>

Waiting == [step |-> "waiting", arg |-> "good", calm |-> TRUE]

(***************************************************************************)
(* may:  what the file may hold after the cp the run is in; {} outside one *)
(* whole (history): each file that was queried held a whole database       *)
(* clean (history): since line 18 no file in use was written by others,    *)
(*                  and no cp of the run failed                            *)
(***************************************************************************)
Fresh == [may |-> {}, maxid |-> {}, backblock |-> {}, whole |-> FALSE, clean |-> FALSE]

(***************************************************************************)
(* A run that exits with success is "done", unless the node stopped while  *)
(* it went on: then nothing is claimed of it, and its place is free again. *)
(***************************************************************************)
Succeeded(state) ==
    IF state.calm THEN [Waiting EXCEPT !.step = "done"] ELSE Waiting

Active(state) == state.step \notin {"waiting", "done"}

BatchInit ==
    /\ Init
    /\ crontab = FALSE
    /\ copy = {} /\ backup = {} /\ kept = {}
    /\ exists = FALSE
    /\ run = [r \in Runs |-> Waiting]
    /\ local = [r \in Runs |-> Fresh]
    /\ client = NoRun
    /\ edits = 0
    /\ cpErrors = 0

Up == pc = "idle"

MoveTo(r, step) == run' = [run EXCEPT ![r].step = step]

MoveWith(r, step, arg) == run' = [run EXCEPT ![r].step = step, ![r].arg = arg]

(* The run exits with failure; the next one takes its place. *)
Fail(r) == run' = [run EXCEPT ![r] = Waiting]

-----------------------------------------------------------------------------
(***************************************************************************)
(* The node, with schedule_plugin as the last plugin that starts.  What    *)
(* system_cmd returns is never acted on (FC_ASSERT of a string literal is  *)
(* true), so installing or removing the crontab may fail unnoticed.        *)
(***************************************************************************)
NodeStarts ==
    /\ \/ StartupEmpty \/ StartupLoad \/ StartupNoRow
       \/ StartupCountFails \/ StartupRowFails \/ StartupThrows
    /\ IF pc' = "idle" THEN crontab' \in {TRUE, crontab} ELSE UNCHANGED crontab
    /\ UNCHANGED <<fileVars, run, client, edits>>

(* The run that waits for an answer gets none, and takes it for success. *)
Interrupt ==
    /\ run' = [r \in Runs |->
                  IF r = client THEN Waiting
                  ELSE [run[r] EXCEPT !.calm = ~ Active(run[r])]]
    /\ client' = NoRun
    /\ UNCHANGED <<fileVars, edits>>

NodeStops ==
    /\ Shutdown
    /\ crontab' \in {FALSE, crontab}
    /\ Interrupt

NodeDies ==
    /\ Crash
    /\ UNCHANGED crontab
    /\ Interrupt

InCp(r) == local[r].may # {}

(***************************************************************************)
(* blocks.db is written: a cp that is reading it leaves the old contents,  *)
(* the new ones, or pages of both.                                         *)
(***************************************************************************)
HostWritten ==
    /\ local' = [r \in Runs |->
                    IF InCp(r) /\ run[r].step \in {"first", "copy"}
                    THEN [local[r] EXCEPT !.may = @ \cup {{}, {table'}}, !.clean = FALSE]
                    ELSE local[r]]
    /\ UNCHANGED <<copy, exists, backup, kept, cpErrors>>

NodeAppends ==
    /\ \/ AppendStored /\ HostWritten
       \/ (AppendKeyTaken \/ AppendFails) /\ UNCHANGED fileVars
    /\ UNCHANGED <<crontab, run, client, edits>>

(* The reply of publish_blk reaches the run that asked. *)
NodePublished ==
    /\ PublishDone
    /\ run' = [r \in Runs |-> IF r = client THEN Succeeded(run[r]) ELSE run[r]]
    /\ client' = NoRun
    /\ UNCHANGED <<crontab, fileVars, edits>>

NodeRefused ==
    /\ AppendThrows
    /\ run' = [r \in Runs |-> IF r = client THEN Waiting ELSE run[r]]
    /\ client' = NoRun
    /\ UNCHANGED <<crontab, fileVars, edits>>

(***************************************************************************)
(* The transactions of a stored block are replaced outside the node, which *)
(* check_chain does not notice.                                            *)
(***************************************************************************)
Edit(id) ==
    /\ edits < MaxEdits
    /\ edits' = edits + 1
    /\ Row(id).trxs # <<EmptyTrx>>
    /\ table' = [table EXCEPT ![id].JSON = ToJson([Row(id) EXCEPT !.trxs = <<EmptyTrx>>])]
    /\ HostWritten
    /\ UNCHANGED <<trx_pool, last_block, last_blk, pc, reply, accepted, sqlErrors>>
    /\ UNCHANGED <<crontab, run, client>>

-----------------------------------------------------------------------------
(***************************************************************************)
(* batch.sh.  A run that is over is followed by another one, a minute      *)
(* later or the next day, in its place; one that is "done" keeps it.       *)
(***************************************************************************)
Fire(r) ==
    /\ crontab
    /\ run[r].step = "waiting"
    /\ MoveTo(r, "check")
    /\ UNCHANGED vars
    /\ UNCHANGED <<crontab, fileVars, client, edits>>

CheckAnswered(r) ==
    /\ run[r].step = "check"
    /\ Up
    /\ IF check_chain(table).result = 0 THEN MoveTo(r, "backup") ELSE Fail(r)
    /\ UNCHANGED vars
    /\ UNCHANGED <<crontab, fileVars, client, edits>>

(* The SELECT fails: get_all_blocks answers no block, or throws. *)
CheckBlind(r) ==
    /\ run[r].step = "check"
    /\ Up
    /\ SqlFails
    /\ MoveTo(r, "backup") \/ Fail(r)
    /\ UNCHANGED <<table, trx_pool, last_block, last_blk, pc, reply, accepted>>
    /\ UNCHANGED <<crontab, fileVars, client, edits>>

CheckUnanswered(r) ==
    /\ run[r].step = "check"
    /\ Stopped
    /\ Fail(r)
    /\ UNCHANGED vars
    /\ UNCHANGED <<crontab, fileVars, client, edits>>

(***************************************************************************)
(* database_backup.sh.  The first backup ends the run; later ones compare  *)
(* the last row of the backup with the copy before they replace it.        *)
(***************************************************************************)
TestBackup(r) ==
    /\ run[r].step = "backup"
    /\ MoveTo(r, IF exists THEN "copy" ELSE "first")
    /\ UNCHANGED vars
    /\ UNCHANGED <<crontab, fileVars, client, edits>>

(***************************************************************************)
(* The three cps: "first" from blocks.db to the backup, "copy" from        *)
(* blocks.db to /tmp/blocks.db, and "replace" from there to the backup.    *)
(***************************************************************************)
CpSteps == {"first", "copy", "replace"}

(* Variant: only the rows that are new since the last backup are moved. *)
Source_Incremental(step) ==
    IF step = "replace"
    THEN {[id \in DOMAIN t \ UNION {DOMAIN old : old \in backup} |-> t[id]] : t \in copy}
    ELSE {table}

Source(step) == IF step = "replace" THEN copy ELSE {table}

Put(step, file) ==
    IF step = "copy" THEN copy' = file /\ UNCHANGED <<exists, backup>>
                     ELSE backup' = file /\ exists' = TRUE /\ UNCHANGED copy

SameTarget(a, b) == (a = "copy") = (b = "copy")

(* The cp of another run writes what this run's own cp writes or reads. *)
Hits(other, own) == SameTarget(other, own) \/ (other = "copy" /\ own = "replace")

(***************************************************************************)
(* A cp of another run that has written file leaves a cp that it hits with *)
(* its own contents, with that of the other one, or with parts of both.    *)
(***************************************************************************)
Disturbed(state, own, other, file) ==
    [state EXCEPT !.clean = FALSE,
                  !.may = IF @ # {} /\ Hits(other, own) THEN @ \cup {{}, file} ELSE @]

Writes(r, target, file, state) ==
    /\ Put(run[r].step, target)
    /\ local' = [q \in Runs |-> IF q = r THEN state
                                ELSE Disturbed(local[q], run[q].step, run[r].step, file)]

(* A cp opens and empties its target, perhaps while others are under way. *)
CpBegins(r) ==
    /\ run[r].step \in CpSteps /\ ~ InCp(r)
    /\ LET step   == run[r].step
           others == {q \in Runs \ {r} : InCp(q)}
           hit    == \E q \in others : Hits(run[q].step, step)
       IN  Writes(r, {}, {}, [local[r] EXCEPT
               !.may = {Source(step)} \cup (IF hit THEN {{}} ELSE {}),
               !.whole = @ \/ step = "copy",
               !.clean = others = {} /\ (@ \/ step = "copy")])
    /\ UNCHANGED vars
    /\ UNCHANGED <<crontab, kept, run, client, edits, cpErrors>>

CpFails == cpErrors < MaxCpErrors /\ cpErrors' = cpErrors + 1

(***************************************************************************)
(* The step after a cp, which never depends on its success.  The run that  *)
(* replaced the backup begins pushblock_fromIoT.sh, which first reads the  *)
(* measurement: it cannot be had (the run fails), or it is good, or empty. *)
(* arg is what the next call will carry, or "lost" with an answer.         *)
(***************************************************************************)
AfterCp(r) ==
    \/ run[r].step = "copy" /\ MoveTo(r, "maxid")
    \/ run[r].step # "copy" /\ Fail(r)
    \/ run[r].step = "replace" /\ \E arg \in {"good", "empty"} : MoveWith(r, "char2hex", arg)

Left(r, clean) ==
    IF run[r].step = "copy" THEN [Fresh EXCEPT !.whole = TRUE, !.clean = clean] ELSE Fresh

(***************************************************************************)
(* A cp ends, or breaks off.  As long as another cp to the same file goes  *)
(* on, the file is not whole.                                              *)
(***************************************************************************)
CpEnds(r) ==
    /\ run[r].step \in CpSteps /\ InCp(r)
    /\ \E file \in local[r].may \cup {{}} :
           /\ \/ file \in local[r].may /\ UNCHANGED cpErrors
                 /\ LET shared == \E q \in Runs \ {r} : InCp(q) /\ SameTarget(run[q].step, run[r].step)
                        result == IF shared THEN {} ELSE file
                    IN  /\ Writes(r, result, file, Left(r, local[r].clean))
                        /\ kept' = IF run[r].step # "copy" /\ result # {} THEN result ELSE kept
              \/ file = {} /\ CpFails /\ Writes(r, {}, {}, Left(r, FALSE)) /\ UNCHANGED kept
    /\ AfterCp(r)
    /\ UNCHANGED vars
    /\ UNCHANGED <<crontab, client, edits>>

(* A cp that cannot open its files changes nothing. *)
CpRefused(r) ==
    /\ run[r].step \in CpSteps /\ ~ InCp(r)
    /\ CpFails
    /\ local' = [local EXCEPT ![r] = Left(r, FALSE)]
    /\ AfterCp(r)
    /\ UNCHANGED vars
    /\ UNCHANGED <<crontab, copy, exists, backup, kept, client, edits>>

(* max(id): an empty table has none, and nothing is printed. *)
LastID(t) == {id \in DOMAIN t : \A other \in DOMAIN t : other <= id}

(* Line 20. *)
ReadMaxID(r) ==
    /\ run[r].step = "maxid"
    /\ local' = [local EXCEPT ![r].maxid = UNION {LastID(t) : t \in backup},
                              ![r].whole = @ /\ backup # {}]
    /\ MoveTo(r, "backblock")
    /\ UNCHANGED vars
    /\ UNCHANGED <<crontab, copy, exists, backup, kept, cpErrors, client, edits>>

(* Variant: select id instead of the row. *)
Printed_ByID(file, ids) == UNION {ids \cap DOMAIN t : t \in file}

(* What a SELECT of the row with the ID prints; without an ID, nothing. *)
Printed(file, ids) == UNION {{t[id] : id \in ids \cap DOMAIN t} : t \in file}

(* Line 22. *)
ReadBackBlock(r) ==
    /\ run[r].step = "backblock"
    /\ local' = [local EXCEPT ![r].backblock = Printed(backup, local[r].maxid),
                              ![r].whole = @ /\ backup # {}]
    /\ MoveTo(r, "compare")
    /\ UNCHANGED vars
    /\ UNCHANGED <<crontab, copy, exists, backup, kept, cpErrors, client, edits>>

(***************************************************************************)
(* Lines 23 to 30.  What a query prints of a file that is no database, if  *)
(* anything, is not known; two empty outputs are equal.                    *)
(***************************************************************************)
Compare(r) ==
    /\ run[r].step = "compare"
    /\ LET whole == local[r].whole /\ copy # {}
           same  == Printed(copy, local[r].maxid) = local[r].backblock
       IN  \/ /\ whole => same
              /\ local' = [local EXCEPT ![r] = [Fresh EXCEPT !.whole = whole, !.clean = local[r].clean]]
              /\ MoveTo(r, "replace")
           \/ /\ whole => ~ same
              /\ local' = [local EXCEPT ![r] = Fresh]
              /\ Fail(r)
    /\ UNCHANGED vars
    /\ UNCHANGED <<crontab, copy, exists, backup, kept, cpErrors, client, edits>>

-----------------------------------------------------------------------------
Char2Hex(r) ==
    /\ run[r].step = "char2hex"
    /\ \/ Up /\ MoveTo(r, "sign_trx")
       \/ Stopped /\ MoveWith(r, "sign_trx", "lost")
    /\ UNCHANGED vars
    /\ UNCHANGED <<crontab, fileVars, client, edits>>

(* Without the hex text the request is not JSON, and the answer an error. *)
SignTrxCall(r) ==
    /\ run[r].step = "sign_trx"
    /\ \/ Up /\ (IF run[r].arg = "lost" THEN Fail(r) ELSE MoveTo(r, "push"))
       \/ Stopped /\ MoveWith(r, "push", "lost")
    /\ UNCHANGED vars
    /\ UNCHANGED <<crontab, fileVars, client, edits>>

Push(r) ==
    /\ run[r].step = "push"
    /\ run[r].arg # "lost"
    /\ \/ run[r].arg = "good" /\ PushAccept(IotTrx[r]) /\ MoveWith(r, "publish", "good")
       \/ run[r].arg = "empty" /\ PushReject(EmptyTrx) /\ Fail(r)
    /\ UNCHANGED <<crontab, fileVars, client, edits>>

(* The node does not answer, or curl has nothing to send: no error is seen. *)
PushLost(r) ==
    /\ run[r].step = "push"
    /\ Stopped \/ run[r].arg = "lost"
    /\ MoveWith(r, "publish", "good")
    /\ UNCHANGED vars
    /\ UNCHANGED <<crontab, fileVars, client, edits>>

(* Variant: the script does not wait for the node. *)
Publish_NoWait(r, now) ==
    /\ run[r].step = "publish"
    /\ PublishBuild(now)
    /\ run' = [run EXCEPT ![r] = Succeeded(@)]
    /\ UNCHANGED <<crontab, fileVars, client, edits>>

Publish(r, now) ==
    /\ run[r].step = "publish"
    /\ PublishBuild(now)
    /\ client' = r
    /\ MoveTo(r, "await")
    /\ UNCHANGED <<crontab, fileVars, edits>>

PublishRefused(r) ==
    /\ run[r].step = "publish"
    /\ PublishThrows
    /\ Fail(r)
    /\ UNCHANGED <<crontab, fileVars, client, edits>>

PublishLost(r) ==
    /\ run[r].step = "publish"
    /\ Stopped
    /\ run' = [run EXCEPT ![r] = Succeeded(@)]
    /\ UNCHANGED vars
    /\ UNCHANGED <<crontab, fileVars, client, edits>>

BatchStep(r) ==
    \/ Fire(r)
    \/ CheckAnswered(r) \/ CheckBlind(r) \/ CheckUnanswered(r)
    \/ TestBackup(r) \/ CpBegins(r) \/ CpEnds(r) \/ CpRefused(r)
    \/ ReadMaxID(r) \/ ReadBackBlock(r) \/ Compare(r)
    \/ Char2Hex(r) \/ SignTrxCall(r)
    \/ Push(r) \/ PushLost(r)
    \/ (\E now \in Times : Publish(r, now)) \/ PublishRefused(r) \/ PublishLost(r)

BatchNext ==
    \/ NodeStarts
    \/ NodeStops
    \/ NodeDies
    \/ NodeAppends
    \/ NodePublished
    \/ NodeRefused
    \/ \E id \in DOMAIN table : Edit(id)
    \/ \E r \in Runs : BatchStep(r)

BatchSpec == BatchInit /\ [][BatchNext]_tvars

-----------------------------------------------------------------------------
(***************************************************************************)
(* Properties.                                                             *)
(***************************************************************************)

(***************************************************************************)
(* If blocks.db is only written by the node, each whole backup is an       *)
(* earlier contents of it: each of its rows is in the table as it is, and  *)
(* in a node without SQL failures it is an intact chain itself, so that a  *)
(* node restored from the backup starts.                                   *)
(***************************************************************************)
BackupIsPast ==
    \A saved \in kept :
        /\ edits = 0 => \A id \in DOMAIN saved :
                            id \in DOMAIN table /\ saved[id] = table[id]
        /\ sqlErrors = 0 => DOMAIN saved = 0 .. Cardinality(DOMAIN saved) - 1

(***************************************************************************)
(* A run that no other run's cp came near since line 18, whose own cps     *)
(* worked, and under whose cp no block was stored, leaves a whole backup   *)
(* with every row of the last whole one, even if it found a broken one.    *)
(***************************************************************************)
Ends(r) == run[r].step \in {"first", "replace"} /\ InCp(r) /\ ~ InCp(r)'

BackupOnlyGrows ==
    [][\A r \in Runs : Ends(r) /\ local[r].clean /\ UNCHANGED cpErrors =>
           /\ backup' # {}
           /\ \A old \in kept, new \in backup' : DOMAIN old \subseteq DOMAIN new]_tvars

(***************************************************************************)
(* A run that exits with success, during which the node did not stop, has  *)
(* put its measurement on the chain, if no SQL statement failed.           *)
(***************************************************************************)
OnChain(trx) == \E id \in DOMAIN table : \E k \in DOMAIN Row(id).trxs : Row(id).trxs[k] = trx

CalmRunStores ==
    \A r \in Runs :
        run[r].step = "done" /\ sqlErrors = 0 /\ edits = 0 =>
            OnChain(IotTrx[r])

(***************************************************************************)
(* What database_backup.sh compares for: a backup is never replaced by a   *)
(* database in which the last block of the backup has changed.             *)
(***************************************************************************)
LastRowSame ==
    \A old \in kept, new \in kept' :
        \A id \in LastID(old) : id \in DOMAIN new /\ new[id] = old[id]

LastRowKept == [][LastRowSame]_tvars

(***************************************************************************)
(* The comparison fails to protect the last block of the backup in these   *)
(* ways only: another run's cp fell between line 18 and line 32, a cp of   *)
(* the run failed or blocks.db was written under it, a file was queried    *)
(* that held no whole database, or the run came late to line 13, which     *)
(* compares nothing.                                                       *)
(***************************************************************************)
LastRowKeptByOwner ==
    [][(\A r \in Runs : Ends(r) => local[r].clean /\ local[r].whole) => LastRowSame]_tvars
=============================================================================

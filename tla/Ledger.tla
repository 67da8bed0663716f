------------------------------- MODULE Ledger -------------------------------
(***************************************************************************)
(* What a node promises its clients, without blocks, signatures, caches or *)
(* SQL: transactions it accepts wait in order, a seal moves all that wait  *)
(* into the next page of an append-only ledger at once, and a stop of the  *)
(* node loses exactly what waits.  Once the store has failed, the promise  *)
(* is weaker: a seal may lose what waits or use any number not yet taken,  *)
(* but still rewrites no page and seals nothing twice.                     *)
(***************************************************************************)
EXTENDS Integers, Sequences

CONSTANTS Trxs,      \* the transactions a node may accept
          Numbers    \* the page numbers

VARIABLES
    pages,     \* the sealed pages: from numbers to sequences of transactions
    waiting,   \* accepted and not sealed
    up,        \* whether the node takes requests
    trusted    \* whether the store has never failed

lvars == <<pages, waiting, up, trusted>>

LInit ==
    /\ pages = <<>>
    /\ waiting = <<>>
    /\ up = FALSE
    /\ trusted = TRUE

(* A start may meet a failure of the store. *)
MayFail == trusted' \in {trusted, FALSE}

Start ==
    /\ ~ up
    /\ up' \in BOOLEAN
    /\ MayFail
    /\ UNCHANGED <<pages, waiting>>

Accept(trx) ==
    /\ up
    /\ waiting' = Append(waiting, trx)
    /\ UNCHANGED <<pages, up, trusted>>

SealAs(n) ==
    /\ up
    /\ n \notin DOMAIN pages
    /\ pages' = [m \in DOMAIN pages \cup {n} |-> IF m = n THEN waiting ELSE pages[m]]
    /\ waiting' = <<>>
    /\ UNCHANGED <<up, trusted>>

(* The page after the last one. *)
Seal == \E n \in Numbers : DOMAIN pages = 0 .. n - 1 /\ SealAs(n)

SealAstray == ~ trusted /\ \E n \in Numbers : SealAs(n)

Lose ==
    /\ up
    /\ waiting' = <<>>
    /\ trusted' = FALSE
    /\ UNCHANGED <<pages, up>>

(* A read fails while the node is up: its client has no answer, no more. *)
Doubt ==
    /\ up
    /\ trusted' = FALSE
    /\ UNCHANGED <<pages, waiting, up>>

Stop ==
    /\ up
    /\ up' = FALSE
    /\ waiting' = <<>>
    /\ UNCHANGED <<pages, trusted>>

LNext ==
    \/ Start
    \/ \E trx \in Trxs : Accept(trx)
    \/ Seal
    \/ SealAstray
    \/ Lose
    \/ Doubt
    \/ Stop

LSpec == LInit /\ [][LNext]_lvars
=============================================================================

---------------------------- MODULE MCChainNode -----------------------------
(***************************************************************************)
(* ChainNode for TLC: two acceptable transactions, signed as the sign_trx  *)
(* handler signs, and one of each kind that Transaction::validate refuses. *)
(***************************************************************************)
EXTENDS ChainNode

CONSTANTS alice, bob, d1, d2

Unsigned(data) ==
    [time_point |-> 0, data |-> data, attach |-> NoData,
     signature |-> BlankSig, pub_key |-> alice]

MCTrxParams ==
    {SignTrx(Unsigned(d1), alice),
     SignTrx(Unsigned(d2), bob),
     SignTrx(Unsigned(NoData), alice),
     Unsigned(d1),
     [SignTrx(Unsigned(d1), bob) EXCEPT !.pub_key = alice]}

=============================================================================

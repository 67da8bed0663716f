------------------------------- MODULE MCTool -------------------------------
(***************************************************************************)
(* Tool for TLC: every set of options with one value each, and every value *)
(* of the option an operation looks at.                                    *)
(***************************************************************************)
EXTENDS Tool

CONSTANTS alice, bob

Upto(S, n) == UNION {[1 .. m -> S] : m \in 0 .. n}

MCNoData == <<>>

\* 1 and a are digits, 16 is "A", 30 is no digit
MCTexts == Upto({0, 1, 16, 30}, 2 * BufferSize + 1)

MCStrings == Upto({0, 1, 255}, BufferSize + 1)

\* 1 may be the rest of a string that is one byte too long
MCBeyond == {<<>>, <<1>>}

Json(data, attach, key) ==
    [time_point |-> 0, data |-> data, attach |-> attach,
     signature |-> BlankSig, pub_key |-> key]

MCJsons ==
    {Json(data, attach, key) :
        data \in Upto({1, 16}, 4) \cup {<<30, 1>>, <<1, 1, 30>>},
        attach \in Upto({1}, 4), key \in {alice, bob}}

(***************************************************************************)
(* The databases: up to three blocks, each intact, unsigned, of a chain    *)
(* built at other times, or missing.                                       *)
(***************************************************************************)
Block0(now) == BuildBlock(BlankBlock, <<>>, now)

Block1(now) == BuildBlock(Block0(now), <<>>, now)

Block2(now) == BuildBlock(Block1(now), <<>>, now)

Forms(own, other) == {own, other, [own EXCEPT !.sig = BlankSig]}

Stored(blocks) == [id \in {b.blk_num : b \in blocks} |->
                      BlockRow(CHOOSE b \in blocks : b.blk_num = id)]

MCTables ==
    {Stored(S0 \cup S1 \cup S2) :
        S0 \in {{}} \cup {{b} : b \in Forms(Block0(1), Block0(2))},
        S1 \in {{}} \cup {{b} : b \in Forms(Block1(1), Block1(2))},
        S2 \in {{}} \cup {{b} : b \in Forms(Block2(1), Block2(2))}}

Intact == Stored({Block0(1), Block1(1), Block2(1)})

Line(given) ==
    [given |-> given, h2c |-> <<1, 1>>, c2h |-> <<1>>, key |-> alice,
     sign |-> Json(<<1, 1>>, <<>>, alice), sqlite |-> FALSE, table |-> Intact]

MCCommandLines ==
    {[Line(given) EXCEPT !.sqlite = opened] :
        given \in SUBSET Options, opened \in BOOLEAN}
    \cup {[Line({"h2c"}) EXCEPT !.h2c = text] : text \in MCTexts}
    \cup {[Line({"c2h"}) EXCEPT !.c2h = bytes] : bytes \in MCStrings}
    \cup {[Line({"sign", "key"}) EXCEPT !.sign = json] : json \in MCJsons}
    \cup {[Line({"chkchain"}) EXCEPT !.sqlite = TRUE, !.table = t] : t \in MCTables}
=============================================================================

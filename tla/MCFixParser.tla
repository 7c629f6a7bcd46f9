----------------------------- MODULE MCFixParser -----------------------------
(* Messages of FixParser for TLC: every sequence of up to three pieces, and *)
(* every short price.                                                       *)
EXTENDS FixParser

SmallPieces ==
    {<<"3", "5", "=", "D">>, <<"3", "5", "=">>, <<"5", "5", "=", "=">>,
     <<"3", "8", "=", "1", "2">>, <<"3", "8", "=", "-", "1">>, <<"3", "8", "=", "1", "0", "0">>,
     <<"3", "8", "=", "D">>, <<"3", "8">>, <<>>, <<"D", "=", "5">>, <<"5", "4", "=", "2", "D">>,
     <<"4", "4", "=", "1", ".", "5">>, <<"3", "4", "=", "7">>, <<"3", "4", "=", "-", "3">>}

PriceTexts == BoundedSeq({"-", ".", "0", "7"}, 5)

SmallMessages ==
    BoundedSeq(SmallPieces, 3) \cup {<<<<"4", "4", "=">> \o t>> : t \in PriceTexts}
=============================================================================

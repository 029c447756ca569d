---------------------------- MODULE MCJsonParser ----------------------------
(* JsonParser on short texts and chosen longer ones, for TLC.              *)
EXTENDS JsonParser

LB == <<"[">>
RB == <<"]">>
LC == <<"{">>
RC == <<"}">>
Co == <<",">>
Cn == <<":">>
Sp == <<" ">>
One == <<"1">>
KeyA == <<"\"", "a", "\"">>
KeyN == <<"\"", "n", "\"">>
Long == <<"\"", "a", "a", "a", "\"">>
Lexemes == {LB, RB, LC, RC, Co, Cn, One, KeyA, KeyN, Long, Keywords.TRUE, Keywords.NULL, NaN, Infinity}

\* Every text of at most three tokens.
ShortTexts == UNION {[1..n -> {LB, RB, LC, RC, Co, Cn, KeyA, One}] : n \in 1..3}
Pairs == {<<KeyA, Cn, One>>, <<KeyN, Cn, LB, RB>>, <<KeyA, Cn, LB, One, RB>>}
ObjectTexts ==
    {<<LC>> \o p \o <<Co>> \o q \o <<RC>> : p \in Pairs, q \in Pairs}
    \union {<<LC>> \o p \o <<Co>> \o q \o <<Co>> \o r \o <<RC>> : p \in Pairs, q \in Pairs, r \in Pairs}
OtherTexts == {
    <<LB, One, Co, Keywords.TRUE, Co, Keywords.NULL, RB>>, <<LB, One, Co, KeyA, Co, RB>>,
    <<LC, KeyA, Cn, One, Co, RC>>, <<LB, LB, LB, LB, RB, RB, RB, RB>>,
    <<LB, One, Co, LC, KeyA, Cn, RC, RB>>, <<LC, KeyA, Cn, LC, KeyN, Co, RC, RC>>,
    <<LC, Long, Cn, One, RC>>, <<LC, KeyA, Cn, Long, RC>>, <<LB, Long, RB>>, <<LB, Infinity, Co, NaN, RB>>,
    <<LC, KeyA, Cn, NaN, RC>>, <<LB, One, Sp, One, RB>>, <<LB, One, Co, One, Co, One, Co, One, RB>>,
    <<LC, KeyA, Cn, LC, KeyA, Cn, LB, One, RB, RC, RC>>, <<LB, LC, KeyA, Cn, One, Co, KeyA>>}
\* Several values, and what may follow them.
ManyTexts == {
    <<One, Sp, Keywords.TRUE, LB, RB, Sp>>, <<LC, KeyA, Cn, One, RC, Sp, KeyA, LB, One, RB>>,
    <<<<"/", "/", "\n">>, One, <<"/", "*", "*", "/">>, One>>, <<One, Sp, LB, One, Co>>, <<KeyA, KeyN, NaN, Co>>}
AllTexts == ShortTexts \union ObjectTexts \union OtherTexts \union ManyTexts

Opts(dups, situ, trail, multi) ==
    {[dup |-> d, inSitu |-> s, trailing |-> t, multiple |-> m] : d \in dups, s \in situ, t \in trail, m \in multi}
AllOptions == Opts({"ERROR"}, BOOLEAN, {FALSE}, BOOLEAN)
              \union Opts(Policies, {FALSE}, {TRUE}, {FALSE})
=============================================================================

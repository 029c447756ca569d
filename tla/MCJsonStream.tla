---------------------------- MODULE MCJsonStream ----------------------------
(* JsonStream on chosen texts, each cut in every way, for TLC.             *)
EXTENDS JsonStream

LB == <<"[">>
RB == <<"]">>
LC == <<"{">>
RC == <<"}">>
Co == <<",">>
Cn == <<":">>
Sp == <<" ">>
One == <<"1">>
Real == <<"-", "1", "0", ".", "5", "e", "+", "2">>
Zero == <<"-", "0", "e", "1">>
Key1 == <<"\"", "a", "\"">>
Esc  == <<"\"", "\\", "\"", "\\", "\\", "\"">>
Uni  == <<"\"", "\\", "u", "D", "8", "0", "0", "\\", "u", "D", "C", "0", "1", "\"">>
True == Keywords.TRUE
Null == Keywords.NULL

Single == <<"'", "\"", "'">>
Lexemes == {LB, RB, LC, RC, Co, Cn, One, Real, Zero, Key1, Esc, Uni, Single, True, Null,
            Keywords.FALSE, NaN, Infinity}

JsonTexts == {
    <<Real>>, <<Uni>>, <<Sp, True, Sp>>, <<Zero>>, <<LB, RB>>,
    <<LB, One, Sp, Co, Real, Sp, RB>>,
    <<LC, Key1, Cn, Esc, Sp, Co, Sp, Esc, Cn, Null, RC>>,
    <<LB, LC, Key1, Sp, Cn, LB, RB, RC, Co, Keywords.FALSE, Co, Zero, RB>>,
    <<LC, Key1, Cn, LC, Key1, Cn, One, RC, Co, Key1, Cn, LB, LB, One, RB, RB, RC>>,
    <<LC, Single, Cn, NaN, Co, Key1, Cn, Infinity, RC>>,
    <<LB, LB, LB, LB, RB, RB, RB, RB>>, <<LB, One, Co, One, Co, One, Co, One, Co, One, RB>>}

\* Texts that are no JSON, or stop in the middle of it.
OtherTexts == {
    <<Sp>>, <<Real, Sp, One>>, <<One, RB>>, <<LB, One, Co, RB>>, <<LC, Key1, Cn, RC>>, <<LC, RC>>,
    <<LB, One, RC>>, <<LC, Key1, Co>>, <<LB, One, Sp, One, RB>>, <<LC, Key1, Cn, One, Esc, RC>>,
    <<LB, True, True>>, <<<<"n", "u", "l", "l", "l">>>>, <<<<"0", "1">>>>, <<<<"1", "e", "-">>>>,
    <<<<"-">>>>, <<<<"\"", "\\", "a", "\"">>>>, <<<<"\"", "\\", "u", "D", "8", "\"">>>>,
    <<LB, <<"\"", "a">>>>, <<<<"N", "a", "N">>, Sp>>, <<Mark, One>>, <<LB, <<"/">>, RB>>,
    <<LB, <<"/", "/", "1", "\n">>, One, RB>>, <<<<"/", "*", "*", "*", "/">>, Null, Sp>>, <<<<"/", "*">>>>,
    <<<<"-">>, Sp>>, <<NegInfinity, Co>>, <<LB, <<"-", "I">>>>, <<<<"1", "e">>, Mark>>,
    <<<<"\"", "a">> \o Mark \o <<"\"">>>>}
\* Every text of at most three tokens.
ShortTexts == UNION {[1..n -> {LB, RB, LC, RC, Co, Cn, Key1, One}] : n \in 1..3}
AllTexts == JsonTexts \union OtherTexts \union ShortTexts

\* In the state ERROR nothing is read any more but the state itself.
MCView == IF state = "ERROR" /\ pc = "idle" THEN <<text, fed, call, status, told, clean>> ELSE vars
=============================================================================

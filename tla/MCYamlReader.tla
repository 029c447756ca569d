---------------------------- MODULE MCYamlReader ----------------------------
(* YamlReader on chosen texts, each cut in every way, for TLC.             *)
EXTENDS YamlReader, FiniteSets

Of(kind, bytes, value, safe) == [kind |-> kind, bytes |-> bytes, value |-> value, safe |-> safe]
Everywhere(kind, bytes, value) == Of(kind, bytes, value, 1..Len(bytes))
Mark(c) == Everywhere("mark", <<c, " ">>, <<c>>)

A    == Everywhere("scalar", <<"a", "\n">>, <<"a">>)
Word == Everywhere("scalar", <<"a">>, <<"a">>)
\* A blank at the end of a chunk ends a plain scalar.
AB   == Of("scalar", <<"a", " ", "b", "\n">>, <<"a", " ", "b">>, {1, 3, 4})
High == Everywhere("scalar", <<"beyond", "\n">>, <<"beyond">>)
\* So does a quote in a single-quoted one, and an escape in a double-quoted one.
Its  == Of("scalar", <<"'", "i", "'", "'", "s", "'">>, <<"'", "i", "'", "'", "s">>, {1, 2, 4, 5, 6})
Esc  == Of("scalar", <<"\"", "\\", "n", "\\", "\"", "\"">>, <<"\"", "\\", "n", "\\", "\"">>, {1, 3, 5, 6})
Hex  == Of("scalar", <<"\"", "\\", "x", "0", "0", "\"">>, <<"\"", "\\", "x", "0", "0">>, {1, 5, 6})
\* A block scalar must come in one piece, an anchor and a tag too.
Block  == Of("scalar", <<"|", "\n", " ", "a", "\n">>, <<" ", "a", "\n">>, {5})
Deeper == Of("scalar", <<">", "2", "\n", " ", " ", "a", "\n", "\n">>, <<" ", " ", "a", "\n">>, {8})
Anchored == Of("anchor", <<"&", "n", " ">>, <<"n">>, {3})
Tagged   == Of("tag", <<"!", "t", " ">>, <<"!", "t">>, {3})
Typed    == Of("tag", <<"!", "!", "t", " ">>, <<"!", "!", "t">>, {4})
Aliased  == Everywhere("alias", <<"*", "n", " ">>, <<"n">>)
Opens(c)  == Everywhere("open", <<c>>, <<c>>)
Closes(c) == Everywhere("close", <<c>>, <<c>>)
Doc  == Everywhere("start", <<"-", "-", "-", "\n">>, <<>>)
End  == Everywhere("end", <<".", ".", ".", "\r", "\n">>, <<>>)
Note == Everywhere("comment", <<"#", "c", "\n">>, <<"#", "c">>)
Dir  == Everywhere("directive", <<"%", "d", "\n">>, <<"%", "d">>)
\* What is refused.
Nameless == Everywhere("broken", <<"*", "[">>, "BAD_TOKEN")
Unnamed  == Of("broken", <<"&", "]">>, "BAD_TOKEN", {2})
Tripled  == Of("broken", <<"!", "!", "!">>, "BAD_TOKEN", {3})
Endless  == Everywhere("unread", <<"'", "a", " ", "b">>, "INVALID")
Tab      == Everywhere("unread", <<"\t", "a">>, "INVALID")

Read(pieces) == [pieces |-> pieces, encoding |-> "none"]
PlainTexts == {Read(p) : p \in {
    <<>>, <<Word>>, <<Word, Mark(":"), A>>, <<Mark("-"), A, Mark("-"), AB>>,
    <<Its, Mark(":"), Esc>>, <<Hex, Mark(":"), Block>>, <<Block, A>>, <<Deeper, A>>,
    <<Anchored, A, Mark("-"), Aliased, Mark("-"), A>>, <<Tagged, Anchored, Its>>, <<Typed, Opens("["), Closes("]")>>,
    <<Doc, A, Doc, A>>, <<A, End, A>>, <<End, Doc, End>>, <<Note, A, Note>>, <<Dir, Doc, Word>>, <<A, End, Dir>>,
    <<Opens("["), Word, Mark(","), Opens("{"), Word, Mark(":"), Word, Closes("}"), Closes("]")>>,
    <<Opens("["), Opens("["), Opens("["), Closes("]"), Closes("]"), Opens("[")>>,
    <<Closes("]"), Opens("["), Opens("{"), Closes("}")>>,
    <<Aliased, Aliased, Aliased, A>>, <<Tagged, Aliased, A>>, <<Anchored, Tagged, Doc, A>>,
    <<Opens("["), Nameless>>, <<Word, Mark(":"), Unnamed>>, <<Tripled, A>>, <<A, Endless>>, <<A, Tab>>,
    <<A, Mark("?"), A>>}}
Encoded == {[pieces |-> p, encoding |-> e] :
    p \in {<<A>>, <<Mark("-"), High>>}, e \in {"UTF8", "UTF16LE", "UTF16BE", "UTF32LE", "UTF32BE"}}
MCTexts == PlainTexts \union Encoded

\* Bounds: two events are taken while more come, and a text is cut where it may
\* not be, or starved, or goes on behind its end, not all of it.
Few == Len(taken) <= 2 /\ Cardinality(blame \ {"error"}) <= 1

\* A block scalar whose text ends in its header.
Header == {Read(<<Of("scalar", <<"|">>, <<>>, {1})>>)}
=============================================================================

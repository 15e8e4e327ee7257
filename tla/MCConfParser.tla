---------------------------- MODULE MCConfParser ----------------------------
(* Instances of ConfParser for TLC. *)
EXTENDS ConfParser

CONSTANT MaxText  \* bound: length of an arbitrary text, or of its value

Chars == {"a", "1", "=", "#", " ", "eol", "\\", "'", "dquote", "$", "{", "}", "?"}

\* Every short text, and every short text after "a=".
AnyText == UNION {[1..n -> Chars] : n \in 0..MaxText}
AnyValue == {<<"a", "=">> \o t : t \in AnyText}

OneChar == <<"v">>
TwoChars == <<"v", "v">>

\* Well-formed files, rendered from the definitions they mean: a value is a
\* sequence of pieces, a piece is what is written and what it means.
Piece(w, m) == [written |-> w, meant |-> m]
Pieces == {Piece(<<"a">>, <<"a">>), Piece(<<"=">>, <<"=">>), Piece(<<"#">>, <<"#">>),
           Piece(<<"\\", "$">>, <<"$">>), Piece(<<"\\", "eol">>, <<"eol">>),
           Piece(<<"\\", "'">>, <<"'">>),
           Piece(<<"'", " ", "'">>, <<" ">>), Piece(<<"'", "$", "a", "'">>, <<"$", "a">>),
           Piece(<<"'", "\\", "'">>, <<"\\">>), Piece(<<"'", "dquote", "'">>, <<"dquote">>),
           Piece(<<"dquote", "'", "eol", "dquote">>, <<"'", "eol">>),
           Piece(<<"dquote", "\\", "dquote", "dquote">>, <<"dquote">>),
           Piece(<<"dquote", "$", "a", "dquote">>, OneChar),
           Piece(<<"$", "{", "a", "1", "}">>, OneChar),
           Piece(<<"$", "a", "'", "'">>, OneChar)}
Values == UNION {[1..n -> Pieces] : n \in 0..2}
Written(v) == FlattenSeq([i \in DOMAIN v |-> v[i].written])
Meant(v) == FlattenSeq([i \in DOMAIN v |-> v[i].meant])

\* The value between a comment, blanks, its key and another definition.
Render(v) == <<"#", "=", "'", "eol", " ", "a", "=">> \o Written(v)
             \o <<"eol", "_", "1", "=", "a", " ", "#", "$">>
WellFormed == {Render(v) : v \in Values}

Request(texts, size, escape, continues, answer) ==
    [texts |-> texts, size |-> size, escape |-> escape, continues |-> continues,
     answer |-> answer]

\* The callbacks of the toolbox, those of init.c, a file that is right, and the
\* toolbox when it escapes the values and keeps the variables.
Escaping == <<Request(AnyValue, 9, TRUE, TRUE, Normal)>>
AllRequests == <<Request(AnyText, 2, FALSE, TRUE, TwoChars),
                 Request(AnyValue, 2, FALSE, FALSE, NULL),
                 Request(WellFormed, 9, FALSE, FALSE, OneChar)>> \o Escaping

\* A well-formed file is read without an error as the definitions it means.
ReadsBack ==
    label = "stop" /\ ~ShouldEscape /\ text \in WellFormed =>
        /\ errors = 0 /\ Len(puts) = 2
        /\ puts[1].key = <<"a">> /\ puts[2].key = <<"_", "1">> /\ puts[2].value = <<"a">>
        /\ \E v \in Values : text = Render(v) /\ puts[1].value = Meant(v)
=============================================================================

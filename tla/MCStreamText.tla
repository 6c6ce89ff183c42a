---------------------------- MODULE MCStreamText ----------------------------
EXTENDS StreamText

\* What an answer is put together from: the tags and the pieces of one.
Pieces ==
    {<<"<", "c", ">">>, <<"<", "/", "c", ">">>, <<"<", "d">>, <<"/", ">">>, <<">">>,
     <<"<", "/", "d", ">">>, <<"<", "t", ">">>, <<"<", "/", "t", ">">>,
     <<"<">>, <<"call">>}

Card == <<"<", "c", ">", "query", "<", "/", "c", ">">>

Thoughts == {<<"thought">>, <<"<", "d">>, <<"<", "c", ">">>}

Of(pieces, n) == {FlattenSeq(s) : s \in [1 .. n -> pieces]}

On(channel, text) ==
    [i \in 1 .. Len(text) |-> [channel |-> channel, symbol |-> text[i]]]

\* Answers of three pieces, four around a tool call, a card between two others,
\* and thinking before an answer and after one.
MCMessages ==
    {On("content", t) : t \in Of(Pieces, 3)}
    \cup {On("content", <<"text", "<", "t", ">">> \o t) : t \in Of(Pieces, 2)}
    \cup {On("content", x \o Card \o y) :
              x \in Pieces \cup {Card, <<NewLine>>}, y \in Pieces}
    \cup {On("thinking", t) \o On("content", c) :
              t \in Of(Thoughts, 2), c \in Of(Pieces, 1)}
    \cup {On("content", c) \o On("thinking", t) :
              t \in Of(Thoughts, 2), c \in Of(Pieces, 1)}

MCPayloads == {<<"call">>}
=============================================================================

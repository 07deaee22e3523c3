------------------------------ MODULE MCEngine ------------------------------
(* Instances of the engine for TLC.                                        *)
EXTENDS Engine

Chat(max, stops) == [maxTokens |-> max, stops |-> stops]

\* One character a token, as SimpleTokenizer has it, and a token that no
\* decoder takes.
Letters == {"a", "b", "eos", "bad"}
LetterText == [t \in Letters |-> CASE t = "a" -> <<"a">> [] t = "b" -> <<"b">>
                                   [] OTHER -> <<>>]

\* Two characters in one token, as subword tokenizers have them.
Pieces == {"a", "ab", "eos"}
PieceText == [t \in Pieces |-> CASE t = "a" -> <<"a">> [] t = "ab" -> <<"a", "b">>
                                 [] OTHER -> <<>>]

\* No stop sequence, one of two characters, one of one character.
LetterParams == {Chat(2, {}), Chat(3, {<<"a", "b">>}), Chat(2, {<<"b">>, <<>>})}

PieceParams == {Chat(2, {}), Chat(2, {<<"a">>}), Chat(3, {<<"b">>})}
=============================================================================

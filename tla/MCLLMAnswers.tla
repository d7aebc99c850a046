---------------------------- MODULE MCLLMAnswers ----------------------------
(***************************************************************************)
(* Small instances of LLMAnswers for TLC.                                   *)
(***************************************************************************)
EXTENDS LLMAnswers, TLC

\* Two redirects to one page, one to another, and the pages themselves.
Leads == [r1 |-> "p", r2 |-> "p", r3 |-> "q", p |-> "p", q |-> "q"]
UpToThreeChunks == UNION {[1..n -> {"r1", "r2", "r3", "p", None}] : n \in 0..3}

\* A search with hits, a thought before it, and the final answer with citations.
Block(written, cited, found) == [text |-> written, citations |-> cited, results |-> found]
Search == {Block(None, <<>>, s) : s \in {<<>>, <<"p", "q">>, <<"q", None>>}}
Answer == {Block("final", s, <<>>) : s \in {<<>>, <<"q", "p", "q">>, <<None, "p">>}}
Thought == {Block("thought", <<>>, <<>>)}
UpToThreeBlocks ==
    {<<a>> : a \in Answer} \cup (Search \X Answer) \cup (Thought \X Search \X Answer)
        \cup (Answer \X Search)

Flat == <<"lbrace", "word", "rbrace">>
Nested == <<"lbrace", "lbracket", "lbrace", "rbrace", "rbracket", "rbrace">>
TwoObjects == {Flat, Nested}
PlainProse == {<<>>, <<"word">>, <<"word", "word">>}
=============================================================================

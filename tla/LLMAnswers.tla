----------------------------- MODULE LLMAnswers -----------------------------
(***************************************************************************)
(* What is read out of a grounded answer: its citations, by the client that *)
(* produced it, and Claude's JSON.  The redirect links of Google's          *)
(* grounding are resolved concurrently; each request may fail and then the  *)
(* link itself is cited.  A text is a sequence of the tokens that           *)
(* _extract_json tells apart; "fence" is a line that opens or closes a      *)
(* code block.                                                              *)
(***************************************************************************)
EXTENDS Naturals, SequencesExt

CONSTANTS
    Target,  \* [links -> links]: where a link leads; a plain link to itself
    Chunks,  \* grounding chunks of Google's answers: links or None
    Blocks,  \* content blocks of Claude's answers
    Objects, \* JSON objects, as tokens
    Prose    \* what may stand before and after them

\* What _extract_json tells apart; any other text is a "word".
Tokens == {"lbrace", "rbrace", "lbracket", "rbracket", "fence", "word"}
Brackets == {<<"lbrace", "rbrace">>, <<"lbracket", "rbracket">>}

None == "none"

ASSUME LinksAssumption ==
    /\ Target \in [DOMAIN Target -> DOMAIN Target]
    /\ None \notin DOMAIN Target
    /\ Chunks \subseteq Seq(DOMAIN Target \cup {None})
ASSUME ObjectsAssumption ==
    /\ Objects \subseteq Seq(Tokens)
    /\ \A o \in Objects :
          /\ Len(o) >= 2 /\ "fence" \notin ToSet(o)
          /\ <<o[1], o[Len(o)]>> \in Brackets
ASSUME ProseAssumption ==
    /\ Prose \subseteq Seq(Tokens)
    /\ \A p \in Prose : ToSet(p) \cap {"lbrace", "rbrace", "lbracket", "rbracket", "fence"} = {}

\* The last text block of an answer is its "final" one.
ASSUME BlocksAssumption ==
    \A b \in Blocks :
        /\ b \in Seq([text : {"thought", "final", None},
                     citations : Seq(DOMAIN Target \cup {None}),
                     results : Seq(DOMAIN Target \cup {None})])
        /\ \/ \A i \in DOMAIN b : b[i].text = None
           \/ \E i \in DOMAIN b : /\ b[i].text = "final"
                                 /\ \A j \in DOMAIN b : j > i => b[j].text = None

VARIABLES
    raw,       \* RawResponse: the provider's tag and the answer
    object,    \* the object the last text block holds
    text,      \* the last text block, if it is the final answer
    resolved,  \* per chunk, what the HEAD request for its link gave, if it has one
    citations, \* the citations given to the caller; <<None>> before
    json       \* what _extract_json returned; <<None>> before

vars == <<raw, object, text, resolved, citations, json>>

HasLink(u) == u # None

Init ==
    /\ raw \in [provider : {"gemini", "gemini_vertex"}, content : Chunks]
            \cup [provider : {"claude"}, content : Blocks]
    /\ IF raw.provider = "claude"
       THEN /\ object \in Objects
            /\ \E before, after \in Prose :
                  text \in {before \o object \o after,
                            before \o <<"fence">> \o object \o <<"fence">> \o after}
            /\ resolved = <<>>
       ELSE /\ object = <<>> /\ text = <<>>
            /\ resolved = [i \in DOMAIN raw.content |-> None]
    /\ citations = <<None>>
    /\ json = <<None>>

----------------------------------------------------------------------------
\* Mutant: a search hit without a link is cited too.
AddAnything(urls, u) == IF u \in ToSet(urls) THEN urls ELSE Append(urls, u)

\* Links in the order they were found, without repetitions.
AddNew(urls, u) == IF u = None \/ u \in ToSet(urls) THEN urls ELSE Append(urls, u)
AddAll(urls, links) ==
    LET upto[n \in 0..Len(links)] ==
            IF n = 0 THEN urls ELSE AddNew(upto[n - 1], links[n])
    IN upto[Len(links)]

\* A redirect is where it leads, or itself when the request fails or times out.
ResolveGemini(u) == {Target[u], u}
ResolveVertex(u) == {Target[u], u}

\* Mutant: links are compared before they are resolved.
CiteUnresolved(chunks, links) ==
    LET First(u) == CHOOSE i \in DOMAIN links : chunks[i] = u
        once == AddAll(<<>>, chunks)
    IN [i \in DOMAIN once |-> links[First(once[i])]]

\* No candidates, no metadata and no chunks give no citations.
CiteGemini(chunks, links) == AddAll(<<>>, links)
CiteVertex(chunks, links) == AddAll(<<>>, links)

\* Per block the inline citations, then the search hits.
CiteClaude(blocks) ==
    LET upto[n \in 0..Len(blocks)] ==
            IF n = 0 THEN <<>>
            ELSE AddAll(AddAll(upto[n - 1], blocks[n].citations), blocks[n].results)
    IN upto[Len(blocks)]

\* The client that produced the answer reads it.
Dispatch(response, links) ==
    IF response.provider = "claude" THEN CiteClaude(response.content)
    ELSE IF response.provider = "gemini_vertex" THEN CiteVertex(response.content, links)
    ELSE CiteGemini(response.content, links)

Resolve(i) ==
    /\ HasLink(raw.content[i]) /\ resolved[i] = None
    /\ LET u == raw.content[i]
       IN \E v \in IF raw.provider = "gemini" THEN ResolveGemini(u) ELSE ResolveVertex(u) :
             resolved' = [resolved EXCEPT ![i] = v]
    /\ UNCHANGED <<raw, object, text, citations, json>>

Cite ==
    /\ citations = <<None>>
    /\ \A i \in DOMAIN resolved : HasLink(raw.content[i]) => resolved[i] # None
    /\ citations' = Dispatch(raw, resolved)
    /\ UNCHANGED <<raw, object, text, resolved, json>>

----------------------------------------------------------------------------
\* Mutant: the first text block, which may be written before a search.
FirstText(blocks) ==
    LET At == {i \in DOMAIN blocks : blocks[i].text # None}
    IN IF At = {} THEN None ELSE blocks[CHOOSE i \in At : \A j \in At : i <= j].text

\* The last text block: the answer after all searches.
FinalText(blocks) ==
    LET At == {i \in DOMAIN blocks : blocks[i].text # None}
    IN IF At = {} THEN None ELSE blocks[CHOOSE i \in At : \A j \in At : j <= i].text

\* Where a match of {...} or [...] that starts at i may end.
Ends(t, i) == {j \in i + 1..Len(t) : <<t[i], t[j]>> \in Brackets}

\* Leftmost match, as long as it can be.
Embedded(t) ==
    LET Starts == {i \in DOMAIN t : Ends(t, i) # {}}
        start == CHOOSE i \in Starts : \A k \in Starts : i <= k
    IN IF Starts = {} THEN t
       ELSE SubSeq(t, start, CHOOSE j \in Ends(t, start) : \A k \in Ends(t, start) : k <= j)

\* As it is if it starts like JSON; else the first code block; else embedded.
ExtractJson(t) ==
    LET Fences == {i \in DOMAIN t : t[i] = "fence"}
        open == CHOOSE i \in Fences : \A k \in Fences : i <= k
        close == CHOOSE i \in Fences \ {open} : \A k \in Fences \ {open} : i <= k
    IN IF t # <<>> /\ t[1] \in {"lbrace", "lbracket"} THEN t
       ELSE IF Fences # {} /\ Fences # {open} THEN SubSeq(t, open + 1, close - 1)
       ELSE Embedded(t)

Parse ==
    /\ raw.provider = "claude"
    /\ json = <<None>>
    /\ FinalText(raw.content) # None
    /\ json' = ExtractJson(IF FinalText(raw.content) = "final" THEN text ELSE <<"word">>)
    /\ UNCHANGED <<raw, object, text, resolved, citations>>

Next == (\E i \in DOMAIN resolved : Resolve(i)) \/ Cite \/ Parse

Spec == Init /\ [][Next]_vars

----------------------------------------------------------------------------
\* Only links are cited, never the None of a chunk or hit without one.
TypeOK ==
    /\ resolved \in Seq(DOMAIN Target \cup {None})
    /\ citations = <<None>> \/ citations \in Seq(DOMAIN Target)
    /\ text \in Seq(Tokens)
    /\ json = <<None>> \/ json \in Seq(Tokens)

\* The pages an answer rests on, as far as their links could be resolved.
Sources ==
    IF raw.provider = "claude"
    THEN {u \in DOMAIN Target : \E i \in DOMAIN raw.content :
             u \in ToSet(raw.content[i].citations) \cup ToSet(raw.content[i].results)}
    ELSE {resolved[i] : i \in {k \in DOMAIN raw.content : HasLink(raw.content[k])}}

\* Whichever client answered, in whatever order the redirects resolve or fail,
\* every source is cited exactly once (LLMUtil.extract_citations).
CitesEverySourceOnce ==
    citations # <<None>> =>
        /\ ToSet(citations) = Sources
        /\ \A i, j \in DOMAIN citations : citations[i] = citations[j] => i = j

\* The final answer's object is found in raw JSON, in a code block and in prose
\* (docstring of _extract_json); json_repair drops what follows it.
JsonIsFound ==
    json # <<None>> => IsPrefix(object, json)
=============================================================================

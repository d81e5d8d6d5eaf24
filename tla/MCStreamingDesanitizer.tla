----------------------- MODULE MCStreamingDesanitizer -----------------------
EXTENDS StreamingDesanitizer

\* Code points: space, -, A, B, [, ], and a Cyrillic letter, which is no
\* identifier character to the boundary rule.
Sp == 32
Dash == 45
A == 65
B == 66
LB == 91
RB == 93
Cyr == 1071

Pair(original, placeholder) == [original |-> original, placeholder |-> placeholder]

\* Two configured texts, one the start of the other: PARTNER and PARTNER-A.
MCPrefixMappings == {<<Pair(<<Cyr>>, <<A>>), Pair(<<Cyr, Cyr>>, <<A, Dash, A>>)>>}

\* A wrapped label, its bare alias, a longer rule text, one with a dash in it.
Texts == <<<<LB, A, RB>>, <<A>>, <<A, A>>, <<A, Dash, A>>>>

\* An original with no identifier character in it, and one with nothing else.
Originals == {<<Cyr>>, <<B>>}

\* Every mapping of at most two of these texts; two wrapped labels of different
\* lengths; two originals of one rule text; an original that contains a rule text.
MCMappings ==
    {<<>>}
    \union {<<Pair(o, Texts[i])>> : o \in Originals, i \in DOMAIN Texts}
    \union UNION {{<<Pair(o, Texts[i]), Pair(r, Texts[j])>> : o, r \in Originals, i \in 1..(j - 1)} :
                      j \in DOMAIN Texts}
    \union {<<Pair(<<Cyr>>, <<LB, A, RB>>), Pair(<<Cyr, Sp>>, <<LB, A, A, RB>>)>>,
            <<Pair(<<Cyr>>, <<A>>), Pair(<<Cyr, Cyr>>, <<A>>)>>,
            <<Pair(<<A, Sp>>, <<LB, A, RB>>), Pair(<<Cyr>>, <<A>>)>>}
=============================================================================

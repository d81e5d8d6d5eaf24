------------------------ MODULE StreamingDesanitizer ------------------------
(***************************************************************************)
(* StreamingDesanitizer: the hold-back buffer that restores the originals  *)
(* in a text that arrives in chunks, and the reverse function of           *)
(* build_reverse_substituter that it applies to the buffer on every chunk. *)
(*                                                                         *)
(* A text is a sequence of characters, a character is its code point: the  *)
(* places where a chunk may end and the neighbours of an occurrence are    *)
(* what the properties are about.  The original of a pair is the text as   *)
(* it is inserted, after the escape a JSON field asks for.                 *)
(***************************************************************************)
EXTENDS Integers, Sequences, SequencesExt

CONSTANTS
    Mappings,     \* the mappings a request may have: sequences of pairs
    Chars,        \* the characters the model may write
    IdentChars,   \* A-Z, a-z, 0-9 and _
    OpenBracket,  \* [
    MaxChunk,     \* bound: characters of a chunk
    MaxText       \* bound: characters of the answer

VARIABLES
    pairs,         \* mapping.pairs, fixed when the answer starts
    buffer,        \* _buffer
    left_context,  \* _left_context: none or one character
    flushed,       \* _flushed
    input,         \* history: everything fed
    output         \* history: everything returned

streamVars == <<pairs, buffer, left_context, flushed, input, output>>

Placeholders(ps) == {ps[i].placeholder : i \in DOMAIN ps}

\* by_placeholder.setdefault: the first original to claim a placeholder.
OriginalOf(ps, p) == ps[Min({i \in DOMAIN ps : ps[i].placeholder = p})].original

\* The order of Python strings.
Below(s, t) ==
    \/ IsStrictPrefix(s, t)
    \/ \E i \in DOMAIN s \intersect DOMAIN t :
           s[i] < t[i] /\ \A j \in 1..(i - 1) : s[j] = t[j]

\* Longest first, so that no placeholder is shadowed by its own prefix.
SortedPlaceholders(ps) ==
    SetToSortSeq(Placeholders(ps),
                 LAMBDA s, t : Len(s) > Len(t) \/ (Len(s) = Len(t) /\ Below(s, t)))

MaxLen(ps) == Max({Len(p) : p \in Placeholders(ps)} \union {0})

Bracketed(p) == Head(p) = OpenBracket

\* Neither neighbour of text[i..j] is an identifier character.
AtBoundary(text, i, j) ==
    /\ i = 1 \/ text[i - 1] \notin IdentChars
    /\ j = Len(text) \/ text[j + 1] \notin IdentChars

Occurs(p, text, i) ==
    LET j == i + Len(p) - 1
    IN  /\ j <= Len(text)
        /\ SubSeq(text, i, j) = p
        /\ Bracketed(p) \/ AtBoundary(text, i, j)

\* A bare occurrence stays as it is when it starts in text that has left, and,
\* before the end of the answer, when the next chunk may still continue it.
KeptBare(p, text, i, final, protected) ==
    /\ ~Bracketed(p)
    /\ i <= protected \/ (~final /\ i + Len(p) - 1 = Len(text))

\* One pass for one placeholder: leftmost occurrences that do not overlap.
Substitute(p, original, text, final, protected) ==
    LET after[i \in 1..(Len(text) + 1)] ==
            IF i > Len(text) THEN <<>>
            ELSE IF Occurs(p, text, i)
                 THEN (IF KeptBare(p, text, i, final, protected) THEN p ELSE original)
                          \o after[i + Len(p)]
                 ELSE <<text[i]>> \o after[i + 1]
    IN  after[1]

\* The function build_reverse_substituter returns.
ReverseText(ps, text, final, protected) ==
    FoldLeft(LAMBDA t, p : Substitute(p, OriginalOf(ps, p), t, final, protected),
             text, SortedPlaceholders(ps))

\* What a whole answer becomes when it is not streamed.
Unary(ps, text) == ReverseText(ps, text, TRUE, 0)

\* _replace_all: the character before the buffer is seen and not returned.
ReplaceInBuffer(text, final) ==
    LET k == Len(left_context)
        result == ReverseText(pairs, left_context \o text, final, k)
    IN  SubSeq(result, k + 1, Len(result))

StreamTypeOK ==
    /\ pairs \in Mappings
    /\ Len(buffer) <= MaxLen(pairs)
    /\ Len(left_context) <= 1
    /\ flushed \in BOOLEAN
    /\ input \in Seq(Chars) /\ Len(input) <= MaxText
    /\ flushed => buffer = <<>>
    /\ ~flushed /\ left_context # <<>> => left_context = <<Last(output)>>

StreamInit ==
    /\ pairs \in Mappings
    /\ buffer = <<>> /\ left_context = <<>> /\ flushed = FALSE
    /\ input = <<>> /\ output = <<>>

\* Mutant: one character fewer is held back.
HoldOneShort(text) ==
    LET n == Len(text) IN SubSeq(text, Max({1, n - MaxLen(pairs) + 2}), n)

\* What stays in the buffer: the last max_len characters.
Hold(text) ==
    LET n == Len(text) IN SubSeq(text, Max({1, n - MaxLen(pairs) + 1}), n)

Feed(chunk) ==
    /\ ~flushed
    /\ Len(input) + Len(chunk) <= MaxText
    /\ LET text == ReplaceInBuffer(buffer \o chunk, FALSE)
           safe == SubSeq(text, 1, Len(text) - Len(Hold(text)))
       IN  /\ buffer' = Hold(text)
           /\ left_context' = IF safe = <<>> \/ MaxLen(pairs) = 0 THEN left_context
                              ELSE <<Last(safe)>>
           /\ output' = output \o safe
    /\ input' = input \o chunk
    /\ UNCHANGED <<pairs, flushed>>

FlushBuffer ==
    /\ ~flushed
    /\ flushed' = TRUE
    /\ output' = output \o ReplaceInBuffer(buffer, TRUE)
    /\ buffer' = <<>>
    /\ UNCHANGED <<pairs, left_context, input>>

Chunks == UNION {[1..n -> Chars] : n \in 1..MaxChunk}

StreamNext == (\E chunk \in Chunks : Feed(chunk)) \/ FlushBuffer

StreamSpec == StreamInit /\ [][StreamNext]_streamVars

-----------------------------------------------------------------------------
(* Properties *)

\* A bare placeholder is a word to the boundary rule.
WordLike(p) == Bracketed(p) \/ (Head(p) \in IdentChars /\ Last(p) \in IdentChars)

\* While q is still arriving, p is found in what is there of it, and restored.
ReadsInside(p, q) ==
    \E m \in 1..(Len(q) - 1) :
        LET part == SubSeq(q, 1, m)
        IN  \E i \in 1..m : Occurs(p, part, i) /\ ~KeptBare(p, part, i, FALSE, 0)

\* The original put between two parts of p, or alone, makes a p of its own.
Completes(original, p) ==
    \E a \in 0..Len(p), b \in 1..(Len(p) + 1) :
        LET text == SubSeq(p, 1, a) \o original \o SubSeq(p, b, Len(p))
        IN  \E i \in 1..(a + Len(original)) : i + Len(p) - 1 > a /\ Occurs(p, text, i)

\* No placeholder of the mapping can be taken for a part of another, or arise
\* from an original.
Unambiguous(ps) ==
    /\ \A p \in Placeholders(ps) : WordLike(p)
    /\ \A p, q \in Placeholders(ps) : p # q => ~ReadsInside(p, q)
    /\ \A k \in DOMAIN ps, p \in Placeholders(ps) : ~Completes(ps[k].original, p)

\* Nowhere in the answer does a bare placeholder touch another one.
Apart(ps, text) ==
    \A p, q \in Placeholders(ps), i \in DOMAIN text :
        LET j == i + Len(p)
        IN  Occurs(p, text, i) /\ j <= Len(text) /\ Occurs(q, text, j)
                => Bracketed(p) /\ Bracketed(q)

\* However an answer is cut into chunks, and wherever it ends, the client gets
\* the text it would have got in one piece: no placeholder is missed because it
\* was split, none is restored because its neighbour had not arrived or had
\* already left (StreamingDesanitizer.feed, flush and _replace_all).  It holds
\* of mappings whose placeholders cannot be mistaken for one another and of
\* answers that do not write a bare one against another; the code checks
\* neither, and StreamAlwaysMatchesUnary shows what happens without.
StreamMatchesUnary ==
    flushed /\ Unambiguous(pairs) /\ Apart(pairs, input) => output = Unary(pairs, input)

\* What StreamingDesanitizer says of its replacement order: longest first, so a
\* longer placeholder is never shadowed by a shorter one it starts with, and a
\* streamed answer reads like a whole one whatever the mapping.  The code does
\* not keep it: a chunk may end inside the longer one, and the shorter is then
\* found whole and restored.
StreamAlwaysMatchesUnary == flushed => output = Unary(pairs, input)
=============================================================================

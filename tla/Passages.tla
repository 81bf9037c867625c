------------------------------- MODULE Passages -------------------------------
(***************************************************************************)
(* Texts cut into chunks (src/src/rag/chunker.rs) and put together as the  *)
(* context of a prompt (src/src/rag/context.rs).  A character is one of    *)
(* four, each a byte long: a letter, a blank, a line break, a full stop.   *)
(* A span is the first and the last position, and a block of a context is  *)
(* its length.                                                             *)
(***************************************************************************)
EXTENDS Integers, Sequences, FiniteSets
LOCAL INSTANCE SequencesExt
LOCAL INSTANCE FiniteSetsExt

CONSTANTS
    MaxTextLength,
    ChunkSizes,
    Overlaps,
    MinChunkSizes,
    MaxDocuments,   \* in a context
    TextLengths,
    Budgets         \* max_chars

VARIABLE passage    \* the last call and what it returned; before it "none"

Chars == {"w", " ", "n", "."}
Blank(c) == c \in {" ", "n"}

Slice(text, s) == SubSeq(text, s[1], s[2])
Inked(s) == {i \in DOMAIN s : ~ Blank(s[i])}
Trimmed(s) == IF Inked(s) = {} THEN << >> ELSE SubSeq(s, Min(Inked(s)), Max(Inked(s)))

Chunk(text, s) == [from |-> s[1], to |-> s[2], text |-> Slice(text, s)]
TrimmedChunk(text, s) == [from |-> s[1], to |-> s[2], text |-> Trimmed(Slice(text, s))]

-----------------------------------------------------------------------------
(* Chunks                                                                  *)

\* Windows over n items, by their first and last: each starts a step after the one before,
\* and the one that reaches the end is the last.
Windows(n, size, overlap) ==
    LET step == Max({1, size - Min({overlap, size - 1})})
        count == IF size >= n THEN 1 ELSE 1 + ((n - size + step - 1) \div step)
    IN  [j \in 1..count |-> <<1 + (j - 1) * step, Min({(j - 1) * step + size, n})>>]

\* The spans with enough ink, and the last if there is no other.
LongEnough(text, spans, min) ==
    LET Enough(s) == Len(Trimmed(Slice(text, s))) >= min
        kept == SelectSeq(spans, Enough)
    IN  IF kept = << >> THEN <<Last(spans)>> ELSE kept

ChunkFixedChars(text, size, overlap, min) ==
    IF size = 0 THEN << >>
    ELSE LET spans == LongEnough(text, Windows(Len(text), size, overlap), min)
         IN  [j \in DOMAIN spans |-> Chunk(text, spans[j])]

\* The runs of characters between blanks.
TokenSpans(text) ==
    SetToSortSeq({s \in (DOMAIN text) \X (DOMAIN text) :
                    /\ s[1] <= s[2] /\ s[1]..s[2] \subseteq Inked(text)
                    /\ s[1] - 1 \notin Inked(text) /\ s[2] + 1 \notin Inked(text)},
                 LAMBDA a, b : a[1] < b[1])

ChunkFixedTokens(text, size, overlap, min) ==
    LET tokens == TokenSpans(text)
        windows == Windows(Len(tokens), size, overlap)
        spans == LongEnough(text, [j \in DOMAIN windows |->
                    <<tokens[windows[j][1]][1], tokens[windows[j][2]][2]>>], min)
    IN  IF size = 0 THEN << >> ELSE [j \in DOMAIN spans |-> Chunk(text, spans[j])]

\* A paragraph starts with ink and ends at the second of two line breaks in a row.
ChunkParagraphs(text, min) ==
    LET Scan(acc, i) ==
          IF text[i] = "n"
            THEN LET ends == acc.breaks >= 1 /\ acc.start > 0
                     c == TrimmedChunk(text, <<acc.start, i - 1>>)
                 IN  [chunks |-> IF ends /\ Len(c.text) >= min THEN Append(acc.chunks, c)
                                 ELSE acc.chunks,
                      start |-> IF ends THEN 0 ELSE acc.start, breaks |-> acc.breaks + 1]
          ELSE [acc EXCEPT !.start = IF @ = 0 /\ ~ Blank(text[i]) THEN i ELSE @, !.breaks = 0]
        end == FoldLeftDomain(Scan, [chunks |-> << >>, start |-> 0, breaks |-> 0], text)
        rest == TrimmedChunk(text, <<end.start, Len(text)>>)
    IN  IF end.start > 0 /\ (Len(rest.text) >= min \/ end.chunks = << >>)
          THEN Append(end.chunks, rest)
        ELSE end.chunks

SentenceEnds(text, i) ==
    \/ text[i] = "n"
    \/ text[i] = "." /\ (i = Len(text) \/ Blank(text[i + 1]))

\* Faulty: a sentence that is too short is passed over.
ChunkSentencesSkips(text, min) ==
    LET Scan(acc, i) ==
          LET c == TrimmedChunk(text, <<acc.start, i>>)
          IN  IF ~ SentenceEnds(text, i) THEN acc
              ELSE [chunks |-> IF Len(c.text) >= min THEN Append(acc.chunks, c) ELSE acc.chunks,
                    start |-> i + 1]
    IN  FoldLeftDomain(Scan, [chunks |-> << >>, start |-> 1], text).chunks

\* A sentence that is too short goes on in the next one, and what is left over at the end
\* and too short goes to the last.
ChunkSentences(text, min) ==
    LET Scan(acc, i) ==
          LET c == TrimmedChunk(text, <<acc.start, i>>)
          IN  IF SentenceEnds(text, i) /\ Len(c.text) >= min
                THEN [chunks |-> Append(acc.chunks, c), start |-> i + 1]
              ELSE acc
        end == FoldLeftDomain(Scan, [chunks |-> << >>, start |-> 1], text)
        rest == TrimmedChunk(text, <<end.start, Len(text)>>)
        last == Last(end.chunks)
    IN  IF rest.text = << >> THEN end.chunks
        ELSE IF end.chunks # << >> /\ Len(rest.text) < min
          THEN Append(Front(end.chunks),
                      [last EXCEPT !.to = Len(text), !.text = @ \o <<" ">> \o rest.text])
        ELSE Append(end.chunks, rest)

ChunkText(text, c) ==
    IF Inked(text) = {} THEN << >>
    ELSE CASE c.strategy = "FixedChars" -> ChunkFixedChars(text, c.size, c.overlap, c.min)
           [] c.strategy = "FixedTokens" -> ChunkFixedTokens(text, c.size, c.overlap, c.min)
           [] c.strategy = "Paragraph" -> ChunkParagraphs(text, c.min)
           [] c.strategy = "Sentence" -> ChunkSentences(text, c.min)

-----------------------------------------------------------------------------
(* Contexts                                                                *)

\* The length of what stands before a text in a block that is cut, what a whole block has
\* besides (metadata in Markdown, the score elsewhere), and what stands after.
Formats == [Markdown |-> [head |-> 25, extra |-> 12, tail |-> 0],
            Xml      |-> [head |-> 34, extra |-> 14, tail |-> 14],
            Numbered |-> [head |-> 9,  extra |-> 8,  tail |-> 0],
            Compact  |-> [head |-> 4,  extra |-> 0,  tail |-> 0]]
Suffix == 15            \* "... [truncated]"
XmlFrame == 20          \* <context>, a line break, </context>

\* Documents into blocks until one does not fit; current_chars counts a separator after each.
Assemble(texts, header, format, drop, max) ==
    LET f == Formats[format]
        Block(i) == f.head + f.extra + texts[i] + f.tail
        at[i \in 0..Len(texts)] == IF i = 0 THEN header ELSE at[i - 1] + Block(i) + 2
        Fits(i) == at[i - 1] + Block(i) <= max
        whole == Min({Len(texts) + 1} \union {i \in DOMAIN texts : ~ Fits(i)}) - 1
        remaining == Max({0, max - at[whole]})
        room == remaining - f.head - 10
        cut == whole < Len(texts) /\ ~ drop /\ remaining > f.head + 15
        cutText == IF room < texts[whole + 1] THEN room + Suffix ELSE texts[whole + 1]
        blocks == [i \in 1..whole |-> Block(i)]
                    \o (IF cut THEN <<f.head + cutText + f.tail>> ELSE << >>)
        sum == FoldLeft(+, 0, blocks)
    IN  [blocks |-> blocks,
         citations |-> [i \in 1..(whole + (IF cut THEN 1 ELSE 0)) |-> i],
         truncated |-> whole < Len(texts),
         total |-> header + sum + (IF format = "Xml" THEN XmlFrame + Len(blocks)
                                   ELSE 2 * Max({0, Len(blocks) - 1}))]

-----------------------------------------------------------------------------
(* Every call on small inputs                                              *)

PassageInit == passage = [of |-> "none"]

Configs ==
    [strategy : {"FixedChars", "FixedTokens"}, size : ChunkSizes, overlap : Overlaps, min : MinChunkSizes]
      \union [strategy : {"Paragraph", "Sentence"}, min : MinChunkSizes]

CutIntoChunks ==
    \E text \in BoundedSeq(Chars, MaxTextLength), c \in Configs :
        passage' = [of |-> "chunks", text |-> text, config |-> c, out |-> ChunkText(text, c)]

AssembleContext ==
    \E texts \in BoundedSeq(TextLengths, MaxDocuments), header \in {0, 28}, max \in Budgets,
       format \in DOMAIN Formats, drop \in BOOLEAN :
        passage' = [of |-> "context", texts |-> texts, header |-> header, max |-> max, format |-> format,
                    drop |-> drop, out |-> Assemble(texts, header, format, drop, max)]

PassageNext == passage.of = "none" /\ (CutIntoChunks \/ AssembleContext)

-----------------------------------------------------------------------------
(* Properties                                                              *)

InkOf(s) == SelectSeq(s, LAMBDA c : ~ Blank(c))

\* Chunks come in the order of the text and hold what is at their place in it, within the
\* size that was asked for.  No ink is lost if chunks may be a character long, and none at
\* all between sentences; and a text with ink has a chunk, unless it is cut into paragraphs
\* (chunker.rs:11-237).
ChunksKeepText ==
    passage.of = "chunks" =>
        LET text == passage.text  c == passage.config  out == passage.out
            covered == UNION {out[j].from..out[j].to : j \in DOMAIN out}
        IN  /\ \A j \in DOMAIN out :
                 /\ 1 <= out[j].from /\ out[j].from <= out[j].to /\ out[j].to <= Len(text)
                 /\ InkOf(out[j].text) = InkOf(Slice(text, <<out[j].from, out[j].to>>))
                 /\ j > 1 => out[j].from > out[j - 1].from /\ out[j].to > out[j - 1].to
                 /\ c.strategy \in {"Paragraph", "Sentence"} /\ j > 1 => out[j].from > out[j - 1].to
                 /\ c.strategy = "FixedChars" => Len(out[j].text) <= c.size
                 /\ c.strategy = "FixedTokens" => Len(TokenSpans(out[j].text)) <= c.size
            /\ c.min <= 1 \/ c.strategy = "Sentence" => Inked(text) \subseteq covered
            /\ Inked(text) # {} /\ c.strategy # "Paragraph" => out # << >>

\* Every block is cited by its place and nothing else is; what is left out or cut is said
\* to be; and the text is no longer than max_chars, or than its header, but for the tags of
\* XML, and 5 characters, or in XML those of a closing tag more, if the last is cut (context.rs:147-248).
ContextIsCited ==
    passage.of = "context" =>
        LET out == passage.out  cut == Len(out.blocks) > 0 /\ out.truncated /\ ~ passage.drop IN
        /\ out.citations = [i \in DOMAIN out.blocks |-> i]
        /\ Len(out.blocks) < Len(passage.texts) => out.truncated
        /\ ~ out.truncated => Len(out.blocks) = Len(passage.texts)
        /\ out.total <= Max({passage.header, passage.max})
                          + (IF passage.format = "Xml" THEN XmlFrame + 1 ELSE 0)
                          + (IF cut THEN 5 + Formats[passage.format].tail ELSE 0)

PassagesSound == ChunksKeepText /\ ContextIsCited
=============================================================================

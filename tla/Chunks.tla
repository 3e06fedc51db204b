------------------------------- MODULE Chunks -------------------------------
(***************************************************************************)
(* How knowledge-svc cuts a text into chunks and gives each its embedding. *)
(* A text is its paragraphs, each as many tokens as it has, the last of    *)
(* them the blank line that follows it; a chunk is an interval of the      *)
(* text's tokens, its overlap with the chunk before included.  What decode *)
(* makes of an interval is not followed: one that a cut begins or ends     *)
(* inside a character reads as replacement characters there.               *)
(***************************************************************************)
EXTENDS Naturals, Sequences, SequencesExt, Orders

CONSTANTS
  MaxParagraphs,  \* bounds of the texts that are checked
  MaxTokens,
  MaxSize,        \* and of chunk_size
  Limits,         \* values of max_chunks
  Batch           \* texts that are embedded at once

ASSUME ChunksAssumption ==
  {MaxParagraphs, MaxTokens, MaxSize, Batch} \subseteq Nat \ {0} /\ Limits \subseteq Nat

VARIABLE document  \* one that is ingested, or None: its pages, or its text where
                   \* it has none, the settings, and the order in which its
                   \* batches are answered

Length(w) == w.to - w.from + 1

-----------------------------------------------------------------------------
\* MUTANT of Carried: current[-0:] is all of current.
CarriedFromTheEnd(overlap, w) ==
  IF overlap = 0 THEN Length(w) ELSE IF Length(w) > overlap THEN overlap ELSE 0

\* tokens of a window that the next one starts with
Carried(overlap, w) == IF Length(w) > overlap THEN overlap ELSE 0

\* The packing of one paragraph more, of n tokens: the last window is current.
AddParagraph(size, overlap, windows, n) ==
  LET w == Last(windows)
  IN  IF windows = <<>> THEN <<[from |-> 1, to |-> n]>>
      ELSE IF Length(w) + n <= size
           THEN Append(Front(windows), [w EXCEPT !.to = @ + n])
           ELSE Append(windows, [from |-> w.to + 1 - Carried(overlap, w), to |-> w.to + n])

Windows(text, size, overlap) ==
  LET packed[i \in 0..Len(text)] ==
        IF i = 0 THEN <<>> ELSE AddParagraph(size, overlap, packed[i - 1], text[i])
  IN  packed[Len(text)]

\* A window that is too long, in pieces.
HardSplit(size, overlap, w) ==
  IF Length(w) <= size THEN <<w>>
  ELSE [i \in 1..((Length(w) - 1) \div (size - overlap) + 1) |->
          LET from == w.from + (i - 1) * (size - overlap)
          IN  [from |-> from, to |-> IF from + size - 1 < w.to THEN from + size - 1 ELSE w.to]]

-----------------------------------------------------------------------------
\* the token each paragraph ends with, its blank line
Ends(text) ==
  LET end[i \in 0..Len(text)] == IF i = 0 THEN 0 ELSE end[i - 1] + text[i] IN end

Blank(text) == {Ends(text)[i] : i \in 1..Len(text)}

\* chunk_text: the pieces numbered from 0, and those kept that are not blank.
ChunkText(text, size, overlap) ==
  LET ws == Windows(text, size, overlap)
      pieces == FlattenSeq([i \in DOMAIN ws |-> HardSplit(size, overlap, ws[i])])
      kept == {i \in DOMAIN pieces : ~(pieces[i].from..pieces[i].to \subseteq Blank(text))}
      at == OrderedBy([i \in kept |-> i], kept)
  IN  [i \in 1..Cardinality(kept) |->
         [ord |-> at[i] - 1, from |-> pieces[at[i]].from, to |-> pieces[at[i]].to]]

\* chunk_pages: each page by itself, and the chunks numbered through.
ChunkPages(pages, size, overlap) ==
  LET all == FlattenSeq([i \in DOMAIN pages |->
               LET cs == ChunkText(pages[i], size, overlap)
               IN  [j \in DOMAIN cs |-> [page |-> i, chunk |-> cs[j]]]])
  IN  [k \in DOMAIN all |-> [page |-> all[k].page, chunk |-> all[k].chunk, ord |-> k - 1]]

-----------------------------------------------------------------------------
\* An answer of /v1/embeddings: the vector of each text, in the given order.
Answer(texts, order) == [i \in DOMAIN texts |-> [index |-> order[i], vector |-> texts[order[i]]]]

\* MUTANT of EmbedBatch: the vectors as they come.
EmbedBatchAsSent(texts, order) ==
  [i \in DOMAIN texts |-> Answer(texts, order)[i].vector]

\* embed_batch, which sorts the answer by index.
EmbedBatch(texts, order) ==
  LET items == Answer(texts, order)
      at == OrderedBy([i \in DOMAIN items |-> items[i].index], DOMAIN items)
  IN  [i \in DOMAIN items |-> items[at[i]].vector]

\* The embeddings of texts, in batches of which the one of n texts is answered in
\* order[n].
Embeddings(texts, order) ==
  FlattenSeq([b \in 1..((Len(texts) + Batch - 1) \div Batch) |->
    LET part == SubSeq(texts, (b - 1) * Batch + 1,
                       IF b * Batch < Len(texts) THEN b * Batch ELSE Len(texts))
    IN  EmbedBatch(part, order[Len(part)])])

-----------------------------------------------------------------------------
None == <<>>

Texts(paragraphs) == SeqOf(2..MaxTokens, paragraphs)
Settings == {s \in (1..MaxSize) \X (0..(MaxSize - 1)) : s[2] < s[1]}
InOrder == [n \in 1..Batch |-> [i \in 1..n |-> i]]
Reversed == [n \in 1..Batch |-> Reverse(InOrder[n])]

ChunksInit == document = None

\* ingest_document: a text, or two shorter pages.
Parse ==
  /\ document = None
  /\ \E pages \in {<<text>> : text \in Texts(MaxParagraphs)}
                   \cup Texts(MaxParagraphs - 1) \X Texts(MaxParagraphs - 1),
        s \in Settings, limit \in Limits, order \in {InOrder, Reversed} :
       document' = [pages |-> pages, size |-> s[1], overlap |-> s[2], limit |-> limit,
                    order |-> order]

AllChunks(d) ==
  IF Len(d.pages) > 1 THEN ChunkPages(d.pages, d.size, d.overlap)
  ELSE LET cs == ChunkText(d.pages[1], d.size, d.overlap)
       IN  [i \in DOMAIN cs |-> [page |-> 1, chunk |-> cs[i], ord |-> cs[i].ord]]

\* The chunks that are embedded and stored: the first max_chunks.
ChunksOf(d) == Cut(AllChunks(d), d.limit)

ChunksSpec == ChunksInit /\ [][Parse]_document

-----------------------------------------------------------------------------
(* Properties.                                                             *)

Covered(text, to, cs) == (1..to) \ Blank(text) \subseteq UNION {c.from..c.to : c \in cs}

OfPage(cs, p) == {cs[i].chunk : i \in {j \in DOMAIN cs : cs[j].page = p}}

\* how far into a page the chunks that are kept go
Reach(d, cs, p) ==
  IF Len(AllChunks(d)) <= d.limit \/ (cs # <<>> /\ p < Last(cs).page)
  THEN Ends(d.pages[p])[Len(d.pages[p])]
  ELSE IF cs # <<>> /\ p = Last(cs).page THEN Last(cs).chunk.to ELSE 0

Follows(c, d, overlap) == c.to <= d.to /\ c.to < d.from + overlap

\* What is read back from the chunks of a page is its text, or where max_chunks
\* cuts them off, the text up to the end of the last: nothing but blank lines is
\* left out before that, no chunk is longer than chunk_size, a carried overlap
\* included, none ends before the one before it does, and none repeats more of
\* that one than the overlap (chunker.py:80).  Chunks have ords of their own, in
\* the order of the pages, and without gaps where there are pages.
ChunksTileTheText ==
  document # None =>
    \A cs \in {ChunksOf(document)} :
      /\ \A p \in DOMAIN document.pages :
           Covered(document.pages[p], Reach(document, cs, p), OfPage(cs, p))
      /\ \A i \in DOMAIN cs : Length(cs[i].chunk) <= document.size
      /\ \A i \in 1..(Len(cs) - 1) :
           /\ cs[i].ord < cs[i + 1].ord /\ cs[i].page <= cs[i + 1].page
           /\ cs[i].page = cs[i + 1].page =>
                Follows(cs[i].chunk, cs[i + 1].chunk, document.overlap)
      /\ Len(document.pages) > 1 => \A i \in DOMAIN cs : cs[i].ord = i - 1

\* Whatever order a gateway answers each batch in, every chunk is stored with
\* the embedding of its own text.
EmbeddingsAreTheirOwn ==
  document # None =>
    Embeddings(ChunksOf(document), document.order) = ChunksOf(document)
=============================================================================

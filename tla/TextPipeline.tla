---------------------------- MODULE TextPipeline ----------------------------
(***************************************************************************)
(* From the text of a document to its chunks and their vectors: Split of   *)
(* internal/pkg/parser/chunker.go, and batchEmbedding of the document      *)
(* service over GetEmbeddingBatch.                                         *)
(*                                                                         *)
(* Split counts runes and never looks at what they are, so a text is the   *)
(* length of each of its trimmed paragraphs (0 for a blank one) and a rune *)
(* is the place it comes from: <<p, i>> is rune i of paragraph p, <<p, 0>> *)
(* the line break Split writes after paragraph p.  A chunk is a sequence   *)
(* of runes, and stands for its vector too.                                *)
(***************************************************************************)
EXTENDS Integers, Sequences

CONSTANTS
  Texts,      \* the texts being split
  Settings,   \* the arguments of NewChunker: size and overlap
  BatchSize   \* texts per call of GetEmbeddingBatch

ASSUME PipelineAssumption ==
  /\ Texts \subseteq Seq(Nat)
  /\ Settings \subseteq [size : Int, overlap : Int]
  /\ BatchSize \in 1..100   \* GetEmbeddingBatch refuses more

VARIABLES
  text,      \* the text
  chunker,   \* the Chunker: ChunkSize and ChunkOverlap
  next,      \* the paragraph Split looks at
  start,     \* how much of a long paragraph splitBySize has stepped over
  current,   \* currentChunk
  chunks,    \* the chunks made so far
  vectors,   \* allEmbeddings
  batch,     \* the vectors of the batch under way
  phase      \* "split", "embed", "done" or "error"

vars == <<text, chunker, next, start, current, chunks, vectors, batch, phase>>

Rune == Nat \X Nat
Size == chunker.size
Overlap == chunker.overlap

LineBreak(p) == <<p, 0>>
Paragraph(p) == [i \in 1..text[p] |-> <<p, i>>]

(* NewChunker: the settings it is given, with what makes no sense replaced. *)
NewChunkerUnchecked(s) == s
NewChunker(s) ==
  LET size == IF s.size <= 0 THEN 500 ELSE s.size
      overlap == IF s.overlap < 0 THEN 100 ELSE s.overlap
  IN  [size |-> size, overlap |-> IF overlap >= size THEN size \div 5 ELSE overlap]

(* getOverlap: the last n runes of s. *)
GetOverlap(s, n) == IF Len(s) <= n THEN s ELSE SubSeq(s, Len(s) - n + 1, Len(s))

(* strings.TrimSpace, of a chunk whose only white space is its line breaks. *)
TrimSpace(s) ==
  LET solid == {k \in 1..Len(s) : s[k][2] # 0}
      first == CHOOSE k \in solid : \A j \in solid : k <= j
      last == CHOOSE k \in solid : \A j \in solid : j <= k
  IN  IF solid = {} THEN <<>> ELSE SubSeq(s, first, last)
-----------------------------------------------------------------------------
Init == /\ text \in Texts
        /\ \E s \in Settings : chunker = NewChunker(s)
        /\ next = 1 /\ start = 0
        /\ current = <<>> /\ chunks = <<>>
        /\ vectors = <<>> /\ batch = <<>>
        /\ phase = "split"

SkipBlank ==
  /\ phase = "split" /\ next <= Len(text)
  /\ text[next] = 0
  /\ next' = next + 1
  /\ UNCHANGED <<text, chunker, start, current, chunks, vectors, batch, phase>>

(* One round of the loop of splitBySize over a paragraph longer than a chunk:
   the piece goes out at once, whatever is waiting in currentChunk. *)
CutLongDisjoint ==
  /\ phase = "split" /\ next <= Len(text)
  /\ text[next] > Size
  /\ LET end == IF start + Size > text[next] THEN text[next] ELSE start + Size
     IN  /\ chunks' = Append(chunks, SubSeq(Paragraph(next), start + 1, end))
         /\ IF end = text[next] THEN next' = next + 1 /\ start' = 0
                                ELSE start' = end /\ UNCHANGED next
  /\ UNCHANGED <<text, chunker, current, vectors, batch, phase>>
CutLongNoBreak ==
  /\ phase = "split" /\ next <= Len(text)
  /\ text[next] > Size
  /\ LET end == IF start + Size > text[next] THEN text[next] ELSE start + Size
     IN  /\ chunks' = Append(chunks, SubSeq(Paragraph(next), start + 1, end))
         /\ IF start + Size - Overlap >= text[next]
            THEN next' = next + 1 /\ start' = 0
            ELSE start' = start + Size - Overlap /\ UNCHANGED next
  /\ UNCHANGED <<text, chunker, current, vectors, batch, phase>>
CutLong ==
  /\ phase = "split" /\ next <= Len(text)
  /\ text[next] > Size
  /\ LET end == IF start + Size > text[next] THEN text[next] ELSE start + Size
     IN  /\ chunks' = Append(chunks, SubSeq(Paragraph(next), start + 1, end))
         /\ IF end = text[next] THEN next' = next + 1 /\ start' = 0
                                ELSE start' = start + Size - Overlap /\ UNCHANGED next
  /\ UNCHANGED <<text, chunker, current, vectors, batch, phase>>

(* A paragraph that fits into a chunk is added to the current one, after that
   has been saved, and cut down to its overlap, if both are too long for it. *)
AddParagraphJoins ==
  /\ phase = "split" /\ next <= Len(text)
  /\ text[next] \in 1..Size
  /\ LET full == Len(current) + text[next] > Size /\ current # <<>>
     IN  /\ chunks' = IF full THEN Append(chunks, current) ELSE chunks
         /\ current' = (IF full THEN GetOverlap(current, Overlap) ELSE current)
                         \o Paragraph(next)
  /\ next' = next + 1
  /\ UNCHANGED <<text, chunker, start, vectors, batch, phase>>
AddParagraphKeeps ==
  /\ phase = "split" /\ next <= Len(text)
  /\ text[next] \in 1..Size
  /\ LET full == Len(current) + text[next] > Size /\ current # <<>>
     IN  /\ chunks' = IF full THEN Append(chunks, current) ELSE chunks
         /\ current' = current \o Paragraph(next) \o <<LineBreak(next)>>
  /\ next' = next + 1
  /\ UNCHANGED <<text, chunker, start, vectors, batch, phase>>
AddParagraph ==
  /\ phase = "split" /\ next <= Len(text)
  /\ text[next] \in 1..Size
  /\ LET full == Len(current) + text[next] > Size /\ current # <<>>
     IN  /\ chunks' = IF full THEN Append(chunks, current) ELSE chunks
         /\ current' = (IF full THEN GetOverlap(current, Overlap) ELSE current)
                         \o Paragraph(next) \o <<LineBreak(next)>>
  /\ next' = next + 1
  /\ UNCHANGED <<text, chunker, start, vectors, batch, phase>>

(* The end of Split. *)
FinishSplitEarly ==
  /\ phase = "split" /\ next > Len(text)
  /\ chunks' = IF Len(current) > Overlap THEN Append(chunks, TrimSpace(current)) ELSE chunks
  /\ phase' = "embed"
  /\ UNCHANGED <<text, chunker, next, start, current, vectors, batch>>
FinishSplit ==
  /\ phase = "split" /\ next > Len(text)
  /\ chunks' = IF current # <<>> THEN Append(chunks, TrimSpace(current)) ELSE chunks
  /\ phase' = "embed"
  /\ UNCHANGED <<text, chunker, next, start, current, vectors, batch>>
-----------------------------------------------------------------------------
(* The texts of the batch under way: as many as are left, up to BatchSize. *)
BatchEnd == IF Len(vectors) + BatchSize > Len(chunks) THEN Len(chunks)
                                                      ELSE Len(vectors) + BatchSize

(* GetEmbeddingBatch: one call per text; the first one that fails ends the
   request. *)
EmbedTextFromStart ==
  /\ phase = "embed"
  /\ Len(vectors) + Len(batch) < BatchEnd
  /\ batch' = Append(batch, chunks[Len(batch) + 1])
  /\ UNCHANGED <<text, chunker, next, start, current, chunks, vectors, phase>>
EmbedText ==
  /\ phase = "embed"
  /\ Len(vectors) + Len(batch) < BatchEnd
  /\ \/ /\ batch' = Append(batch, chunks[Len(vectors) + Len(batch) + 1])
        /\ UNCHANGED phase
     \/ phase' = "error" /\ UNCHANGED batch
  /\ UNCHANGED <<text, chunker, next, start, current, chunks, vectors>>

(* batchEmbedding takes the batch over and goes on to the next one. *)
EndBatchUnequal ==
  /\ phase = "embed"
  /\ Len(vectors) + Len(batch) = BatchEnd
  /\ vectors' = vectors \o batch
  /\ batch' = <<>>
  /\ phase' = IF Len(vectors) + BatchSize = Len(chunks) THEN "done" ELSE "embed"
  /\ UNCHANGED <<text, chunker, next, start, current, chunks>>
EndBatch ==
  /\ phase = "embed"
  /\ Len(vectors) + Len(batch) = BatchEnd
  /\ vectors' = vectors \o batch
  /\ batch' = <<>>
  /\ phase' = IF BatchEnd = Len(chunks) THEN "done" ELSE "embed"
  /\ UNCHANGED <<text, chunker, next, start, current, chunks>>

Next == SkipBlank \/ CutLong \/ AddParagraph \/ FinishSplit \/ EmbedText \/ EndBatch

Spec == Init /\ [][Next]_vars

(* One goroutine runs all of it, and every embedding call returns: its HTTP
   client has a timeout of 60 s. *)
FairSpec == Spec /\ WF_vars(Next)
-----------------------------------------------------------------------------
(* Type invariant. *)
TypeOK ==
  /\ text \in Texts
  /\ chunker \in [size : Nat \ {0}, overlap : Nat] /\ Overlap < Size
  /\ next \in 1..(Len(text) + 1)
  /\ start \in Nat
  /\ current \in Seq(Rune)
  /\ chunks \in Seq(Seq(Rune))
  /\ vectors \in Seq(Seq(Rune)) /\ batch \in Seq(Seq(Rune))
  /\ phase \in {"split", "embed", "done", "error"}

(* How long a chunk can get, whatever the paragraphs: the size, plus the
   overlap it starts with and the line break it ends in.  The size alone is
   exceeded, which the field's comment rules out (chunker.go:9). *)
ChunksBounded ==
  \A k \in 1..Len(chunks) : Len(chunks[k]) <= Size + Overlap + 1

RunesOf(s) == {s[k] : k \in 1..Len(s)}
InChunks == UNION {RunesOf(chunks[k]) : k \in 1..Len(chunks)}

(* Nothing of the text is lost: each rune of a paragraph Split is done with is
   in a chunk or in the one being made, and in a chunk once Split returns. *)
NothingLost ==
  \A p \in 1..(next - 1) : \A i \in 1..text[p] :
    <<p, i>> \in InChunks \cup (IF phase = "split" THEN RunesOf(current) ELSE {})

(* No chunk only repeats what earlier ones hold: each adds a rune of its own. *)
EveryChunkIsNew ==
  \A k \in 1..Len(chunks) :
    \E r \in RunesOf(chunks[k]) : r[2] # 0 /\ \A j \in 1..(k - 1) : r \notin RunesOf(chunks[j])

(* A chunk is text as it stands in the document: a rune is followed by the one
   after it, a paragraph by the next one that Split joins to it, so at most
   blank and over-long paragraphs are missing in between. *)
Follows(r, s) ==
  \/ s = <<r[1], r[2] + 1>> /\ r[2] > 0
  \/ s = LineBreak(r[1]) /\ r[2] = text[r[1]]
  \/ /\ r[2] = 0 /\ s[2] = 1 /\ r[1] < s[1]
     /\ \A p \in (r[1] + 1)..(s[1] - 1) : text[p] = 0 \/ text[p] > Size
ChunksReadAsText ==
  \A k \in 1..Len(chunks) : \A i \in 1..(Len(chunks[k]) - 1) :
    Follows(chunks[k][i], chunks[k][i + 1])

(* Two pieces cut one after the other from a long paragraph share exactly
   ChunkOverlap runes, also the last, shorter one. *)
PiecesOverlap ==
  \A k \in 1..(Len(chunks) - 1) :
    LET a == chunks[k]
        b == chunks[k + 1]
        p == a[1][1]
    IN  (p = b[1][1] /\ text[p] > Size)
          => GetOverlap(a, Overlap) = SubSeq(b, 1, Overlap)

(* When the vectors are all there, vector i is the one of chunk i: what the
   rows and the points of the document are zipped from by index. *)
VectorsAligned == phase = "done" => vectors = chunks

(* Splitting and embedding come to an end for every text and setting: each
   piece of a long paragraph gets further than the one before. *)
Terminates == <>(phase \in {"done", "error"})
=============================================================================

---------------------------- MODULE TextOrderProofs ----------------------------
(***************************************************************************)
(* Proofs about the order of the runes in the chunks: a chunk reads as the *)
(* text does, and the pieces of a long paragraph overlap as they should.   *)
(***************************************************************************)
EXTENDS TextPipelineProofs

(* SubSeq, of a part that lies within its sequence and may be empty. *)
LEMMA PartOfSequence ==
  ASSUME NEW s \in Seq(Rune), NEW m \in 1..(Len(s) + 1), NEW n \in (m - 1)..Len(s)
  PROVE  /\ SubSeq(s, m, n) \in Seq(Rune)
         /\ Len(SubSeq(s, m, n)) = n - m + 1
         /\ \A i \in 1..(n - m + 1) : SubSeq(s, m, n)[i] = s[m + i - 1]
<1>1. Len(s) \in Nat /\ m \in Nat /\ n \in Nat
  BY LenProperties
<1>2. \A i \in m..n : s[i] \in Rune
  BY <1>1, ElementOfSeq
<1> QED
  BY <1>1, <1>2, SubSeqProperties

(* A part of a part of a sequence is a part of the sequence. *)
LEMMA PartOfPart ==
  ASSUME NEW s \in Seq(Rune), NEW m \in 1..(Len(s) + 1), NEW n \in (m - 1)..Len(s),
         NEW i \in 1..(n - m + 2), NEW j \in (i - 1)..(n - m + 1)
  PROVE  SubSeq(SubSeq(s, m, n), i, j) = SubSeq(s, m + i - 1, m + j - 1)
<1> DEFINE t == SubSeq(s, m, n)
           left == SubSeq(t, i, j)
           right == SubSeq(s, m + i - 1, m + j - 1)
<1>1. Len(s) \in Nat /\ m \in Nat /\ n \in Nat /\ i \in Nat /\ j \in Nat
  BY LenProperties
<1>2. t \in Seq(Rune) /\ Len(t) = n - m + 1 /\ \A k \in 1..(n - m + 1) : t[k] = s[m + k - 1]
  BY PartOfSequence
<1> HIDE DEF t
<1>3. left \in Seq(Rune) /\ Len(left) = j - i + 1 /\ \A k \in 1..(j - i + 1) : left[k] = t[i + k - 1]
  <2>1. i \in 1..(Len(t) + 1) /\ j \in (i - 1)..Len(t)
    BY <1>1, <1>2
  <2> QED
    BY <1>2, <2>1, PartOfSequence
<1>4. /\ right \in Seq(Rune) /\ Len(right) = j - i + 1
      /\ \A k \in 1..(j - i + 1) : right[k] = s[m + i - 1 + k - 1]
  <2>1. m + i - 1 \in 1..(Len(s) + 1) /\ m + j - 1 \in (m + i - 1 - 1)..Len(s)
    BY <1>1
  <2>2. m + j - 1 - (m + i - 1) + 1 = j - i + 1
    BY <1>1
  <2> QED
    BY <2>1, <2>2, PartOfSequence
<1>5. ASSUME NEW k \in 1..(j - i + 1)
      PROVE  left[k] = right[k]
  <2>1. i + k - 1 \in 1..(n - m + 1) /\ m + (i + k - 1) - 1 = m + i - 1 + k - 1
    BY <1>1
  <2> QED
    BY <1>2, <1>3, <1>4, <2>1
<1> HIDE DEF left, right
<1>6. left = right
  BY <1>3, <1>4, <1>5, SeqEqual
<1> QED
  BY <1>6 DEF left, right, t
-----------------------------------------------------------------------------
(* A sequence of runes that stand in the text one after the other. *)
Reads(s) == \A i \in 1..(Len(s) - 1) : Follows(s[i], s[i + 1])

(* A part of such a sequence is one. *)
LEMMA PartReads ==
  ASSUME NEW s \in Seq(Rune), Reads(s),
         NEW m \in 1..(Len(s) + 1), NEW n \in (m - 1)..Len(s)
  PROVE  Reads(SubSeq(s, m, n))
<1>1. Len(s) \in Nat /\ m \in Nat /\ n \in Nat
  BY LenProperties
<1>2. /\ Len(SubSeq(s, m, n)) = n - m + 1
      /\ \A i \in 1..(n - m + 1) : SubSeq(s, m, n)[i] = s[m + i - 1]
  BY PartOfSequence
<1>3. ASSUME NEW i \in 1..(n - m)
      PROVE  Follows(SubSeq(s, m, n)[i], SubSeq(s, m, n)[i + 1])
  <2>1. /\ m + i - 1 \in 1..(Len(s) - 1)
        /\ i \in 1..(n - m + 1) /\ i + 1 \in 1..(n - m + 1)
        /\ m + (i + 1) - 1 = (m + i - 1) + 1
    BY <1>1
  <2>2. Follows(s[m + i - 1], s[(m + i - 1) + 1])
    BY <2>1 DEF Reads
  <2>3. SubSeq(s, m, n)[i] = s[m + i - 1] /\ SubSeq(s, m, n)[i + 1] = s[(m + i - 1) + 1]
    BY <1>2, <2>1
  <2> QED
    BY <2>2, <2>3
<1>4. n - m + 1 - 1 = n - m
  BY <1>1
<1> QED
  BY <1>2, <1>3, <1>4 DEF Reads

(* Two of them make one when the second goes on where the first ends. *)
LEMMA JoinReads ==
  ASSUME NEW s \in Seq(Rune), NEW t \in Seq(Rune), Reads(s), Reads(t),
         s # <<>> => Follows(s[Len(s)], t[1])
  PROVE  Reads(s \o t)
<1>1. Len(s) \in Nat /\ Len(t) \in Nat
  BY LenProperties
<1>2. /\ Len(s \o t) = Len(s) + Len(t)
      /\ \A i \in 1..(Len(s) + Len(t)) :
           (s \o t)[i] = IF i <= Len(s) THEN s[i] ELSE t[i - Len(s)]
  BY ConcatProperties
<1>3. ASSUME NEW i \in 1..(Len(s) + Len(t) - 1)
      PROVE  Follows((s \o t)[i], (s \o t)[i + 1])
  <2>0. i \in Nat /\ i \in 1..(Len(s) + Len(t)) /\ i + 1 \in 1..(Len(s) + Len(t))
    BY <1>1
  <2>1. CASE i + 1 <= Len(s)
    <3>1. (s \o t)[i] = s[i] /\ (s \o t)[i + 1] = s[i + 1] /\ i \in 1..(Len(s) - 1)
      BY <1>1, <1>2, <2>0, <2>1
    <3> QED
      BY <3>1 DEF Reads
  <2>2. CASE i = Len(s)
    <3>1. (s \o t)[i] = s[i] /\ (s \o t)[i + 1] = t[i + 1 - Len(s)] /\ i + 1 - Len(s) = 1
      BY <1>1, <1>2, <2>0, <2>2
    <3>2. s # <<>>
      BY <2>0, <2>2, EmptySeq
    <3> QED
      BY <2>2, <3>1, <3>2
  <2>3. CASE i > Len(s)
    <3>1. /\ (s \o t)[i] = t[i - Len(s)] /\ (s \o t)[i + 1] = t[i + 1 - Len(s)]
          /\ i - Len(s) \in 1..(Len(t) - 1) /\ i + 1 - Len(s) = (i - Len(s)) + 1
      BY <1>1, <1>2, <2>0, <2>3
    <3> QED
      BY <3>1 DEF Reads
  <2> QED
    BY <1>1, <2>0, <2>1, <2>2, <2>3
<1> QED
  BY <1>2, <1>3 DEF Reads

(* What TrimSpace leaves of one. *)
LEMMA TrimReads ==
  ASSUME NEW s \in Seq(Rune), Reads(s)
  PROVE  Reads(TrimSpace(s))
<1>1. CASE TrimSpace(s) = <<>>
  <2>1. Len(<<>>) = 0
    BY EmptySeq
  <2> QED
    BY <1>1, <2>1 DEF Reads
<1>2. ASSUME NEW first \in 1..Len(s), NEW last \in 1..Len(s),
             first <= last, TrimSpace(s) = SubSeq(s, first, last)
      PROVE  Reads(TrimSpace(s))
  <2>1. first \in 1..(Len(s) + 1) /\ last \in (first - 1)..Len(s)
    BY <1>2, LenProperties
  <2> QED
    BY <1>2, <2>1, PartReads
<1> QED
  BY <1>1, <1>2, TrimEnds

(* What getOverlap keeps of one, which ends as it does. *)
LEMMA OverlapReads ==
  ASSUME NEW s \in Seq(Rune), Reads(s), NEW n \in Nat
  PROVE  /\ Reads(GetOverlap(s, n))
         /\ GetOverlap(s, n) # <<>> =>
              s # <<>> /\ GetOverlap(s, n)[Len(GetOverlap(s, n))] = s[Len(s)]
<1>0. Len(s) \in Nat
  BY LenProperties
<1>1. CASE Len(s) <= n
  BY <1>1 DEF GetOverlap
<1>2. CASE ~(Len(s) <= n)
  <2> DEFINE m == Len(s) - n + 1
  <2>1. GetOverlap(s, n) = SubSeq(s, m, Len(s))
    BY <1>2 DEF GetOverlap
  <2>2. m \in 1..(Len(s) + 1) /\ Len(s) \in (m - 1)..Len(s) /\ Len(s) # 0
    BY <1>0, <1>2
  <2> HIDE DEF m
  <2>3. /\ SubSeq(s, m, Len(s)) \in Seq(Rune)
        /\ Len(SubSeq(s, m, Len(s))) = Len(s) - m + 1
        /\ \A i \in 1..(Len(s) - m + 1) : SubSeq(s, m, Len(s))[i] = s[m + i - 1]
    BY <2>2, PartOfSequence
  <2>4. Reads(SubSeq(s, m, Len(s)))
    BY <2>2, PartReads
  <2>5. ASSUME SubSeq(s, m, Len(s)) # <<>>
        PROVE  SubSeq(s, m, Len(s))[Len(SubSeq(s, m, Len(s)))] = s[Len(s)]
    <3>1. Len(SubSeq(s, m, Len(s))) \in Nat \ {0}
      BY <2>3, <2>5, EmptySeq
    <3>2. Len(s) - m + 1 \in 1..(Len(s) - m + 1) /\ m + (Len(s) - m + 1) - 1 = Len(s)
      BY <1>0, <2>2, <2>3, <3>1
    <3> QED
      BY <2>3, <3>2
  <2>6. s # <<>>
    BY <2>2, EmptySeq
  <2> QED
    BY <2>1, <2>4, <2>5, <2>6
<1> QED
  BY <1>1, <1>2

(* A paragraph, or a piece of it, reads as the text. *)
LEMMA ParagraphReads ==
  ASSUME TypeOK, NEW p \in 1..Len(text)
  PROVE  Reads(Paragraph(p))
<1>1. text[p] \in Nat /\ Len(Paragraph(p)) = text[p]
      /\ \A i \in 1..text[p] : Paragraph(p)[i] = <<p, i>>
  BY ParagraphLength
<1>2. ASSUME NEW i \in 1..(text[p] - 1)
      PROVE  Follows(Paragraph(p)[i], Paragraph(p)[i + 1])
  <2>1. i \in 1..text[p] /\ i + 1 \in 1..text[p] /\ i > 0
    BY <1>1
  <2>2. Paragraph(p)[i] = <<p, i>> /\ Paragraph(p)[i + 1] = <<p, i + 1>>
    BY <1>1, <2>1
  <2> QED
    BY <2>1, <2>2 DEF Follows
<1> QED
  BY <1>1, <1>2 DEF Reads
-----------------------------------------------------------------------------
(* The chunks read as the text, and so does the current one, which ends in the
   line break of the last paragraph that was joined. *)
Skipped(p) == text[p] = 0 \/ text[p] > Size
Ended ==
  current # <<>> =>
    \E q \in 1..(next - 1) :
      /\ current[Len(current)] = LineBreak(q)
      /\ \A p \in (q + 1)..(next - 1) : Skipped(p)
Reading == ChunksReadAsText /\ Reads(current) /\ Ended

(* The chunk AddParagraph goes on with. *)
LEMMA AddedReads ==
  ASSUME TypeOK, Reads(current), Ended, AddParagraph
  PROVE  /\ current' \in Seq(Rune) /\ Reads(current')
         /\ current'[Len(current')] = LineBreak(next)
<1> DEFINE para == Paragraph(next)
           break == <<LineBreak(next)>>
<1>1. /\ Size \in Nat \ {0} /\ Overlap \in Nat /\ next \in 1..Len(text)
      /\ text[next] \in 1..Size /\ current \in Seq(Rune)
  BY Numbers DEF AddParagraph, TypeOK
<1>2. /\ Carried \in Seq(Rune) /\ Reads(Carried)
      /\ Carried # <<>> => current # <<>> /\ Carried[Len(Carried)] = current[Len(current)]
  <2>1. GetOverlap(current, Overlap) \in Seq(Rune)
    BY <1>1, OverlapSuffix
  <2> QED
    BY <1>1, <2>1, OverlapReads DEF Carried
<1>3. /\ para \in Seq(Rune) /\ Len(para) = text[next] /\ Reads(para)
      /\ para[1] = <<next, 1>> /\ para[text[next]] = <<next, text[next]>>
  <2>1. 1 \in 1..text[next] /\ text[next] \in 1..text[next]
    BY <1>1
  <2> QED
    BY <1>1, <2>1, ParagraphLength, ParagraphReads
<1>4. /\ break \in Seq(Rune) /\ Len(break) = 1 /\ break[1] = LineBreak(next) /\ Reads(break)
  <2>1. LineBreak(next) \in Rune
    BY <1>1 DEF LineBreak, Rune
  <2> QED
    BY <2>1 DEF Reads
<1>5. current' = (Carried \o para) \o break
  BY DEF AddParagraph, Carried, Full
<1> HIDE DEF para, break
<1>6. Carried # <<>> => Follows(Carried[Len(Carried)], para[1])
  <2> SUFFICES ASSUME Carried # <<>>
               PROVE  Follows(Carried[Len(Carried)], para[1])
    OBVIOUS
  <2>1. PICK q \in 1..(next - 1) :
          /\ Carried[Len(Carried)] = LineBreak(q)
          /\ \A p \in (q + 1)..(next - 1) : Skipped(p)
    BY <1>2 DEF Ended
  <2>2. q < next /\ LineBreak(q)[1] = q /\ LineBreak(q)[2] = 0
    BY <1>1, <2>1 DEF LineBreak
  <2>3. para[1][1] = next /\ para[1][2] = 1
    BY <1>3
  <2> QED
    BY <2>1, <2>2, <2>3 DEF Follows, Skipped
<1>7. Carried \o para \in Seq(Rune) /\ Reads(Carried \o para)
  BY <1>2, <1>3, <1>6, JoinReads, ConcatProperties
<1>8. /\ Carried \o para # <<>>
      /\ (Carried \o para)[Len(Carried \o para)] = <<next, text[next]>>
  <2>1. /\ Len(Carried \o para) = Len(Carried) + Len(para)
        /\ \A i \in 1..(Len(Carried) + Len(para)) :
             (Carried \o para)[i] = IF i <= Len(Carried) THEN Carried[i] ELSE para[i - Len(Carried)]
    BY <1>2, <1>3, ConcatProperties
  <2>2. /\ Len(Carried) \in Nat
        /\ Len(Carried) + Len(para) \in 1..(Len(Carried) + Len(para))
        /\ ~(Len(Carried) + Len(para) <= Len(Carried))
        /\ Len(Carried) + Len(para) - Len(Carried) = text[next]
    BY <1>1, <1>2, <1>3, LenProperties
  <2>3. Len(Carried \o para) # 0
    BY <1>1, <1>3, <2>1, <2>2
  <2> QED
    BY <1>3, <2>1, <2>2, <2>3, EmptySeq
<1>9. Follows((Carried \o para)[Len(Carried \o para)], break[1])
  BY <1>4, <1>8 DEF Follows
<1>10. current' \in Seq(Rune) /\ Reads(current')
  BY <1>4, <1>5, <1>7, <1>9, JoinReads, ConcatProperties
<1>11. current'[Len(current')] = LineBreak(next)
  <2> DEFINE front == Carried \o para
  <2>1. front \in Seq(Rune) /\ current' = front \o break
    BY <1>5, <1>7
  <2> HIDE DEF front
  <2>2. /\ Len(front \o break) = Len(front) + Len(break)
        /\ \A i \in 1..(Len(front) + Len(break)) :
             (front \o break)[i] = IF i <= Len(front) THEN front[i] ELSE break[i - Len(front)]
    BY <1>4, <2>1, ConcatProperties
  <2>3. /\ Len(front) \in Nat
        /\ Len(front) + Len(break) \in 1..(Len(front) + Len(break))
        /\ ~(Len(front) + Len(break) <= Len(front)) /\ Len(front) + Len(break) - Len(front) = 1
    BY <1>4, <2>1, LenProperties
  <2> QED
    BY <1>4, <2>1, <2>2, <2>3
<1> QED
  BY <1>10, <1>11

(* A chunk that reads as the text can be added. *)
LEMMA AppendReads ==
  ASSUME TypeOK, ChunksReadAsText, UNCHANGED <<text, chunker>>,
         NEW s \in Seq(Rune), Reads(s), chunks' = Append(chunks, s)
  PROVE  ChunksReadAsText'
<1>1. /\ Len(chunks') = Len(chunks) + 1
      /\ \A i \in 1..Len(chunks) : chunks'[i] = chunks[i]
      /\ chunks'[Len(chunks) + 1] = s
  BY AppendChunk
<1>2. ASSUME NEW k \in 1..Len(chunks'), NEW i \in 1..(Len(chunks'[k]) - 1)
      PROVE  Follows(chunks'[k][i], chunks'[k][i + 1])
  <2>1. CASE k \in 1..Len(chunks)
    BY <1>1, <1>2, <2>1 DEF ChunksReadAsText
  <2>2. CASE k = Len(chunks) + 1
    BY <1>1, <1>2, <2>2 DEF Reads
  <2> QED
    BY <1>1, <2>1, <2>2, Numbers
<1> QED
  BY <1>2 DEF ChunksReadAsText, Follows, LineBreak, Size

(* Every step makes chunks that read as the text. *)
LEMMA ReadingStep ==
  ASSUME TypeOK, CutUnderway, Reading, [Next]_vars
  PROVE  Reading'
<1>0. ChunksReadAsText /\ Reads(current) /\ Ended /\ current \in Seq(Rune)
  BY DEF Reading, TypeOK
<1>1. ASSUME UNCHANGED <<text, chunker, current>>
      PROVE  Reads(current)'
  BY <1>0, <1>1 DEF Reads, Follows, LineBreak, Size
<1>2. ASSUME UNCHANGED <<text, chunker, chunks>>
      PROVE  ChunksReadAsText'
  BY <1>0, <1>2 DEF ChunksReadAsText, Follows, LineBreak, Size
<1>3. ASSUME UNCHANGED <<text, chunker, current>>,
             next' = next \/ (next' = next + 1 /\ Skipped(next))
      PROVE  Ended'
  <2> SUFFICES ASSUME current # <<>>
               PROVE  \E q \in 1..(next' - 1) :
                        /\ current[Len(current)] = LineBreak(q)
                        /\ \A p \in (q + 1)..(next' - 1) : Skipped(p)
    BY <1>3 DEF Ended, LineBreak, Skipped, Size
  <2>1. PICK q \in 1..(next - 1) :
          /\ current[Len(current)] = LineBreak(q)
          /\ \A p \in (q + 1)..(next - 1) : Skipped(p)
    BY <1>0 DEF Ended
  <2>2. next \in Nat \ {0}
    BY Numbers
  <2>3. q \in 1..(next' - 1)
    BY <1>3, <2>1, <2>2
  <2>4. ASSUME NEW p \in (q + 1)..(next' - 1)
        PROVE  Skipped(p)
    <3>1. p \in (q + 1)..(next - 1) \/ (next' = next + 1 /\ p = next)
      BY <1>3, <2>1, <2>2
    <3> QED
      BY <1>3, <2>1, <3>1
  <2> QED
    BY <2>1, <2>3, <2>4
<1>4. CASE SkipBlank
  <2>1. UNCHANGED <<text, chunker, current, chunks>> /\ next' = next + 1 /\ Skipped(next)
    BY <1>4 DEF SkipBlank, Skipped
  <2> QED
    BY <1>1, <1>2, <1>3, <2>1 DEF Reading
<1>5. CASE CutLong
  <2>1. /\ UNCHANGED <<text, chunker, current>> /\ chunks' = Append(chunks, Piece)
        /\ next <= Len(text) /\ text[next] > Size /\ start < text[next]
        /\ Piece \in Seq(Rune) /\ next' \in {next, next + 1}
    BY <1>5, CutLongStep DEF CutLong
  <2>2. Reads(Piece)
    <3>1. next \in 1..Len(text) /\ start \in Nat /\ text[next] \in Nat
      BY <2>1, Numbers
    <3>2. End \in Nat /\ start < End /\ End <= text[next]
      BY <2>1, PieceRunes
    <3>3. /\ Paragraph(next) \in Seq(Rune) /\ Len(Paragraph(next)) = text[next]
          /\ Reads(Paragraph(next))
      BY <3>1, ParagraphLength, ParagraphReads
    <3> DEFINE para == Paragraph(next)
               m == start + 1
               n == End
    <3>4. m \in 1..(Len(para) + 1) /\ n \in (m - 1)..Len(para)
      BY <3>1, <3>2, <3>3
    <3>5. Piece = SubSeq(para, m, n) /\ para \in Seq(Rune) /\ Reads(para)
      BY <3>3 DEF Piece
    <3> HIDE DEF para, m, n
    <3> QED
      BY <3>4, <3>5, PartReads
  <2>3. ChunksReadAsText'
    BY <1>0, <2>1, <2>2, AppendReads
  <2>4. Skipped(next)
    BY <2>1 DEF Skipped
  <2> QED
    BY <1>1, <1>3, <2>1, <2>3, <2>4 DEF Reading
<1>6. CASE AddParagraph
  <2>1. /\ UNCHANGED <<text, chunker>> /\ next' = next + 1
        /\ chunks' = Append(chunks, current) \/ chunks' = chunks
    BY <1>6 DEF AddParagraph
  <2>2. ChunksReadAsText'
    BY <1>0, <1>2, <2>1, AppendReads
  <2>3. /\ Reads(current') /\ current'[Len(current')] = LineBreak(next)
    BY <1>0, <1>6, AddedReads
  <2>4. Reads(current)'
    BY <2>1, <2>3 DEF Reads, Follows, LineBreak, Size
  <2>5. Ended'
    <3>1. next \in 1..(next' - 1) /\ (next + 1)..(next' - 1) = {}
      BY <2>1, Numbers
    <3> QED
      BY <2>3, <3>1 DEF Ended, LineBreak
  <2> QED
    BY <2>2, <2>4, <2>5 DEF Reading
<1>7. CASE FinishSplit
  <2>1. /\ UNCHANGED <<text, chunker, next, current>>
        /\ chunks' = Append(chunks, TrimSpace(current)) \/ chunks' = chunks
    BY <1>7 DEF FinishSplit
  <2>2. TrimSpace(current) \in Seq(Rune) /\ Reads(TrimSpace(current))
    BY <1>0, TrimReads, TrimKeepsRunes
  <2>3. ChunksReadAsText'
    BY <1>0, <1>2, <2>1, <2>2, AppendReads
  <2> QED
    BY <1>1, <1>3, <2>1, <2>3 DEF Reading
<1>8. CASE EmbedText \/ EndBatch \/ UNCHANGED vars
  <2>1. UNCHANGED <<text, chunker, next, current, chunks>>
    BY <1>8 DEF EmbedText, EndBatch, vars
  <2> QED
    BY <1>1, <1>2, <1>3, <2>1 DEF Reading
<1> QED
  BY <1>4, <1>5, <1>6, <1>7, <1>8 DEF Next

(* A chunk is text as it stands in the document, whatever the paragraphs, the
   size and the overlap: of what lies between two runes of it only blank and
   over-long paragraphs are left out. *)
THEOREM PipelineChunksReadAsText == Spec => []ChunksReadAsText
<1>1. Init => Reading
  <2> SUFFICES ASSUME Init PROVE Reading
    OBVIOUS
  <2>1. current = <<>> /\ Len(current) = 0 /\ Len(chunks) = 0
    BY EmptySeq DEF Init
  <2> QED
    BY <2>1 DEF Reading, ChunksReadAsText, Reads, Ended
<1>2. TypeOK /\ CutUnderway /\ Reading /\ [Next]_vars => Reading'
  BY ReadingStep
<1>3. Reading => ChunksReadAsText
  BY DEF Reading
<1> QED
  BY <1>1, <1>2, <1>3, PipelineTypeCorrect, PTL DEF Spec
-----------------------------------------------------------------------------
(* Two chunks in a row share the overlap when they are pieces of one long
   paragraph. *)
Share(a, b) ==
  (a[1][1] = b[1][1] /\ text[a[1][1]] > Size) => GetOverlap(a, Overlap) = SubSeq(b, 1, Overlap)

(* What is joined to the current chunk comes from paragraphs that fit into a
   chunk. *)
Fitting == \A r \in RunesOf(current) : text[r[1]] \in 1..Size

(* While a long paragraph is being cut, the last chunk ends in the runes that
   the next piece starts with. *)
Continued ==
  start # 0 =>
    /\ Len(chunks) > 0
    /\ GetOverlap(chunks[Len(chunks)], Overlap)
         = SubSeq(Paragraph(next), start + 1, start + Overlap)

Sharing == PiecesOverlap /\ Fitting /\ Continued

(* A chunk can be added that shares the overlap with the last one. *)
LEMMA AppendShares ==
  ASSUME TypeOK, PiecesOverlap, UNCHANGED <<text, chunker>>,
         NEW s \in Seq(Rune), chunks' = Append(chunks, s),
         Len(chunks) > 0 => Share(chunks[Len(chunks)], s)
  PROVE  PiecesOverlap'
<1>1. /\ Len(chunks') = Len(chunks) + 1 /\ Len(chunks) \in Nat
      /\ \A i \in 1..Len(chunks) : chunks'[i] = chunks[i]
      /\ chunks'[Len(chunks) + 1] = s
  BY AppendChunk, Numbers
<1>2. ASSUME NEW k \in 1..(Len(chunks') - 1)
      PROVE  Share(chunks'[k], chunks'[k + 1])
  <2>1. CASE k \in 1..(Len(chunks) - 1)
    <3>1. k \in 1..Len(chunks) /\ k + 1 \in 1..Len(chunks)
      BY <1>1, <2>1
    <3> QED
      BY <1>1, <2>1, <3>1 DEF PiecesOverlap, Share
  <2>2. CASE k = Len(chunks)
    <3>1. k \in 1..Len(chunks) /\ Len(chunks) > 0
      BY <1>1, <2>2
    <3> QED
      BY <1>1, <2>2, <3>1
  <2> QED
    BY <1>1, <2>1, <2>2
<1> QED
  BY <1>2 DEF PiecesOverlap, Share, Size, Overlap

(* A chunk is not empty, and its first rune is one of the chunks'. *)
LEMMA FirstRune ==
  ASSUME TypeOK, EveryChunkIsNew, NEW k \in 1..Len(chunks)
  PROVE  chunks[k][1] \in InChunks
<1>1. PICK r \in RunesOf(chunks[k]) : r[2] # 0
  BY DEF EveryChunkIsNew
<1>2. chunks[k] \in Seq(Rune)
  BY ElementOfSeq DEF TypeOK
<1>3. Len(chunks[k]) \in Nat /\ 1 \in 1..Len(chunks[k])
  BY <1>1, <1>2, LenProperties DEF RunesOf
<1> QED
  BY <1>3 DEF RunesOf, InChunks

(* The runes of a paragraph that fits are the only ones AddParagraph adds. *)
LEMMA FittingStep ==
  ASSUME TypeOK, Fitting, AddParagraph
  PROVE  Fitting'
<1>1. text[next] \in 1..Size /\ UNCHANGED <<text, chunker>>
  BY DEF AddParagraph
<1>2. \A r \in RunesOf(current') : r \in RunesOf(current) \/ r[1] = next
  BY AddedParagraph
<1>3. RunesOf(current)' = RunesOf(current')
  BY DEF RunesOf
<1> QED
  BY <1>1, <1>2, <1>3 DEF Fitting, Size

(* The piece CutLong makes starts with the runes the last chunk ends in, and
   ends in those the next one starts with. *)
LEMMA SharingPiece ==
  ASSUME TypeOK, CutUnderway, next <= Len(text), text[next] > Size, start < text[next]
  PROVE  /\ Piece[1][1] = next
         /\ start # 0 => SubSeq(Piece, 1, Overlap)
                           = SubSeq(Paragraph(next), start + 1, start + Overlap)
         /\ (End = start + Size) =>
              GetOverlap(Piece, Overlap)
                = SubSeq(Paragraph(next), start + Size - Overlap + 1, start + Size)
<1> DEFINE para == Paragraph(next)
           m == start + 1
           n == End
<1>1. /\ next \in 1..Len(text) /\ start \in Nat /\ text[next] \in Nat
      /\ Size \in Nat \ {0} /\ Overlap \in Nat /\ Overlap < Size
      /\ End \in Nat /\ start < End /\ End <= text[next]
      /\ start # 0 => start + Overlap < text[next]
  BY Numbers, PieceRunes DEF CutUnderway
<1>2. /\ para \in Seq(Rune) /\ Len(para) = text[next]
      /\ \A i \in 1..text[next] : para[i] = <<next, i>>
  BY <1>1, ParagraphLength
<1>3. Piece = SubSeq(para, m, n)
  BY DEF Piece
<1>4. m \in 1..(Len(para) + 1) /\ n \in (m - 1)..Len(para) /\ m = start + 1 /\ n = End
  BY <1>1, <1>2
<1> HIDE DEF para, m, n
<1>5. Piece \in Seq(Rune) /\ Len(Piece) = n - m + 1
      /\ \A i \in 1..(n - m + 1) : Piece[i] = para[m + i - 1]
  BY <1>2, <1>3, <1>4, PartOfSequence
<1>6. Piece[1][1] = next
  <2>1. 1 \in 1..(n - m + 1) /\ m + 1 - 1 \in 1..text[next]
    BY <1>1, <1>4
  <2> QED
    BY <1>2, <1>5, <2>1
<1>7. ASSUME start # 0
      PROVE  SubSeq(Piece, 1, Overlap) = SubSeq(para, start + 1, start + Overlap)
  <2>1. start + Overlap <= End
    BY <1>1, <1>7 DEF End
  <2>2. 1 \in 1..(n - m + 2) /\ Overlap \in (1 - 1)..(n - m + 1)
    BY <1>1, <1>4, <2>1
  <2>3. SubSeq(SubSeq(para, m, n), 1, Overlap) = SubSeq(para, m + 1 - 1, m + Overlap - 1)
    BY <1>2, <1>4, <2>2, PartOfPart
  <2>4. m + 1 - 1 = start + 1 /\ m + Overlap - 1 = start + Overlap
    BY <1>1, <1>4
  <2> QED
    BY <1>3, <2>3, <2>4
<1>8. ASSUME End = start + Size
      PROVE  GetOverlap(Piece, Overlap) = SubSeq(para, start + Size - Overlap + 1, start + Size)
  <2> DEFINE i == Size - Overlap + 1
  <2>1. Len(Piece) = Size /\ n - m + 1 = Size
    BY <1>1, <1>4, <1>5, <1>8
  <2>2. GetOverlap(Piece, Overlap) = SubSeq(Piece, i, Size)
    BY <1>1, <2>1 DEF GetOverlap
  <2>3. /\ i \in 1..(n - m + 2) /\ Size \in (i - 1)..(n - m + 1)
        /\ m + i - 1 = start + Size - Overlap + 1 /\ m + Size - 1 = start + Size
    BY <1>1, <1>4, <2>1
  <2> HIDE DEF i
  <2>4. SubSeq(SubSeq(para, m, n), i, Size) = SubSeq(para, m + i - 1, m + Size - 1)
    BY <1>2, <1>4, <2>3, PartOfPart
  <2> QED
    BY <1>3, <2>2, <2>3, <2>4
<1> QED
  BY <1>6, <1>7, <1>8 DEF para

(* Every step keeps the overlaps. *)
LEMMA SharingStep ==
  ASSUME TypeOK, CutUnderway, Ahead, Fresh, Sharing, [Next]_vars
  PROVE  Sharing'
<1>0. PiecesOverlap /\ Fitting /\ Continued /\ EveryChunkIsNew /\ current \in Seq(Rune)
  BY DEF Sharing, Fresh, TypeOK
<1>1. ASSUME UNCHANGED <<text, chunker, chunks>>
      PROVE  PiecesOverlap'
  BY <1>0, <1>1 DEF PiecesOverlap, Size, Overlap
<1>2. ASSUME UNCHANGED <<text, chunker, current>>
      PROVE  Fitting'
  BY <1>0, <1>2 DEF Fitting, RunesOf, Size
<1>3. ASSUME NEW s \in Seq(Rune), s # <<>>, s[1] \in RunesOf(current), Len(chunks) > 0
      PROVE  Share(chunks[Len(chunks)], s)
  BY <1>0, <1>3, Numbers DEF Share, Fitting
<1>4. CASE SkipBlank
  <2>1. UNCHANGED <<text, chunker, current, chunks, start>> /\ start = 0
    BY <1>4, Numbers DEF SkipBlank, CutUnderway
  <2> QED
    BY <1>1, <1>2, <2>1 DEF Sharing, Continued
<1>5. CASE CutLong
  <2>1. /\ UNCHANGED <<text, chunker, current>> /\ chunks' = Append(chunks, Piece)
        /\ next <= Len(text) /\ text[next] > Size /\ start < text[next]
        /\ Piece \in Seq(Rune)
        /\ \/ start' = 0
           \/ /\ End = start + Size
              /\ next' = next /\ start' = start + Size - Overlap
    BY <1>5, CutLongStep DEF CutLong
  <2>2. /\ Piece[1][1] = next
        /\ start # 0 => SubSeq(Piece, 1, Overlap)
                          = SubSeq(Paragraph(next), start + 1, start + Overlap)
        /\ (End = start + Size) =>
             GetOverlap(Piece, Overlap)
               = SubSeq(Paragraph(next), start + Size - Overlap + 1, start + Size)
    BY <2>1, SharingPiece
  <2>3. ASSUME Len(chunks) > 0
        PROVE  Share(chunks[Len(chunks)], Piece)
    <3>1. CASE start # 0
      BY <1>0, <2>2, <3>1 DEF Continued, Share
    <3>2. CASE start = 0
      <4>1. chunks[Len(chunks)][1] \in InChunks
        BY <1>0, <2>3, FirstRune, Numbers
      <4>2. chunks[Len(chunks)][1][1] < next
        BY <3>2, <4>1 DEF Ahead
      <4>3. chunks[Len(chunks)][1][1] \in Nat
        BY <4>1, RunesTyped
      <4> QED
        BY <2>2, <4>2, <4>3, Numbers DEF Share
    <3> QED
      BY <3>1, <3>2
  <2>4. PiecesOverlap'
    BY <1>0, <2>1, <2>3, AppendShares
  <2>5. Continued'
    <3>1. Len(chunks') = Len(chunks) + 1 /\ Len(chunks) \in Nat /\ chunks'[Len(chunks')] = Piece
      BY <2>1, AppendChunk, Numbers
    <3>2. ASSUME start' # 0
          PROVE  /\ next' = next
                 /\ GetOverlap(Piece, Overlap)
                      = SubSeq(Paragraph(next), start' + 1, start' + Overlap)
      <4>1. start' + 1 = start + Size - Overlap + 1 /\ start' + Overlap = start + Size
        BY <2>1, <3>2, Numbers
      <4> QED
        BY <2>1, <2>2, <3>2, <4>1
    <3>3. ASSUME start' # 0
          PROVE  GetOverlap(chunks'[Len(chunks')], Overlap')
                   = SubSeq([i \in 1..text'[next'] |-> <<next', i>>], start' + 1, start' + Overlap')
      <4>1. Overlap' = Overlap /\ text' = text
        BY <2>1 DEF Overlap
      <4> QED
        BY <3>1, <3>2, <3>3, <4>1 DEF Paragraph
    <3>4. start' # 0 => /\ Len(chunks') > 0
                        /\ GetOverlap(chunks'[Len(chunks')], Overlap')
                             = SubSeq([i \in 1..text'[next'] |-> <<next', i>>],
                                      start' + 1, start' + Overlap')
      BY <3>1, <3>3
    <3> QED
      BY <3>4, Zenon DEF Continued, Paragraph, GetOverlap
  <2> QED
    BY <1>2, <2>1, <2>4, <2>5 DEF Sharing
<1>6. CASE AddParagraph
  <2>1. /\ UNCHANGED <<text, chunker, start>> /\ start = 0
        /\ (chunks' = Append(chunks, current) /\ current # <<>>) \/ chunks' = chunks
    BY <1>6, Numbers DEF AddParagraph, CutUnderway
  <2>2. current # <<>> => current[1] \in RunesOf(current)
    BY <1>0, EmptySeq, LenProperties DEF RunesOf
  <2>3. PiecesOverlap'
    BY <1>0, <1>1, <1>3, <2>1, <2>2, AppendShares
  <2>4. Fitting'
    BY <1>0, <1>6, FittingStep
  <2> QED
    BY <2>1, <2>3, <2>4 DEF Sharing, Continued
<1>7. CASE FinishSplit
  <2>1. /\ UNCHANGED <<text, chunker, current, start>> /\ start = 0 /\ phase = "split"
        /\ \/ chunks' = Append(chunks, TrimSpace(current)) /\ current # <<>>
           \/ chunks' = chunks
    BY <1>7, Numbers DEF FinishSplit, CutUnderway
  <2>2. ASSUME current # <<>>
        PROVE  /\ TrimSpace(current) \in Seq(Rune) /\ TrimSpace(current) # <<>>
               /\ TrimSpace(current)[1] \in RunesOf(current)
    <3>1. PICK r \in RunesOf(current) : r[2] # 0
      BY <2>1, <2>2 DEF Fresh
    <3>2. /\ TrimSpace(current) \in Seq(Rune) /\ r \in RunesOf(TrimSpace(current))
          /\ RunesOf(TrimSpace(current)) \subseteq RunesOf(current)
      BY <1>0, <3>1, TrimKeepsRunes DEF RunesOf
    <3>3. 1 \in 1..Len(TrimSpace(current))
      BY <3>2, LenProperties DEF RunesOf
    <3>4. TrimSpace(current)[1] \in RunesOf(TrimSpace(current))
      BY <3>3 DEF RunesOf
    <3> QED
      BY <3>2, <3>3, <3>4, EmptySeq
  <2>3. PiecesOverlap'
    BY <1>0, <1>1, <1>3, <2>1, <2>2, AppendShares
  <2> QED
    BY <1>2, <2>1, <2>3 DEF Sharing, Continued
<1>8. CASE EmbedText \/ EndBatch \/ UNCHANGED vars
  <2>1. UNCHANGED <<text, chunker, next, start, current, chunks>>
    BY <1>8 DEF EmbedText, EndBatch, vars
  <2> QED
    BY <1>0, <1>1, <1>2, <2>1 DEF Sharing, Continued, Overlap, Paragraph, GetOverlap
<1> QED
  BY <1>4, <1>5, <1>6, <1>7, <1>8 DEF Next

(* Two pieces cut one after the other from a long paragraph share exactly the
   overlap, whatever the sizes, the last and shorter piece included. *)
THEOREM PipelinePiecesOverlap == Spec => []PiecesOverlap
<1>1. Init => Sharing
  <2> SUFFICES ASSUME Init PROVE Sharing
    OBVIOUS
  <2>1. start = 0 /\ Len(current) = 0 /\ Len(chunks) = 0
    BY EmptySeq DEF Init
  <2> QED
    BY <2>1 DEF Sharing, PiecesOverlap, Fitting, Continued, RunesOf
<1>2. TypeOK /\ CutUnderway /\ Ahead /\ Fresh /\ Sharing /\ [Next]_vars => Sharing'
  BY SharingStep
<1>3. Sharing => PiecesOverlap
  BY DEF Sharing
<1> QED
  BY <1>1, <1>2, <1>3, PipelineTypeCorrect, PipelineRunes, PTL DEF Spec
=============================================================================

------------------------- MODULE TextPipelineProofs -------------------------
(***************************************************************************)
(* Proofs about splitting and embedding, for any texts, any settings of    *)
(* the chunker and any size of a batch.                                    *)
(***************************************************************************)
EXTENDS TextPipeline, FiniteSetTheorems, SequenceTheorems, TLAPS

(* What NewChunker returns makes sense whatever it is given: every piece of a
   long paragraph starts after the one before it. *)
LEMMA ChunkerSensible ==
  ASSUME NEW s \in Settings
  PROVE  /\ NewChunker(s) \in [size : Nat \ {0}, overlap : Nat]
         /\ NewChunker(s).overlap < NewChunker(s).size
BY PipelineAssumption DEF NewChunker

(* The paragraph of a text. *)
LEMMA ParagraphLength ==
  ASSUME TypeOK, NEW p \in 1..Len(text)
  PROVE  /\ text[p] \in Nat
         /\ Paragraph(p) \in Seq(Rune)
         /\ Len(Paragraph(p)) = text[p]
         /\ \A i \in 1..text[p] : Paragraph(p)[i] = <<p, i>>
<1>1. text \in Seq(Nat)
  BY PipelineAssumption DEF TypeOK
<1>2. text[p] \in Nat /\ p \in Nat
  BY <1>1
<1>3. \A i \in 1..text[p] : <<p, i>> \in Rune
  BY <1>2 DEF Rune
<1> QED
  BY <1>2, <1>3 DEF Paragraph

(* getOverlap: the end of a sequence, at most n long. *)
LEMMA OverlapSuffix ==
  ASSUME NEW s \in Seq(Rune), NEW n \in Nat
  PROVE  /\ GetOverlap(s, n) \in Seq(Rune)
         /\ Len(GetOverlap(s, n)) <= n
         /\ RunesOf(GetOverlap(s, n)) \subseteq RunesOf(s)
<1>1. CASE Len(s) <= n
  BY <1>1 DEF GetOverlap
<1>2. CASE Len(s) > n
  <2> DEFINE m == Len(s) - n + 1
  <2>1. m \in Int /\ Len(s) \in Nat /\ 1 <= m /\ m <= Len(s) + 1
    BY <1>2, LenProperties
  <2>2. GetOverlap(s, n) = SubSeq(s, m, Len(s))
    BY <1>2, <2>1 DEF GetOverlap
  <2>3. \A i \in m..Len(s) : i \in 1..Len(s) /\ s[i] \in Rune
    BY <2>1, ElementOfSeq
  <2> HIDE DEF m
  <2>4. /\ SubSeq(s, m, Len(s)) \in Seq(Rune)
        /\ Len(SubSeq(s, m, Len(s))) = IF m <= Len(s) THEN Len(s) - m + 1 ELSE 0
        /\ \A i \in 1..(Len(s) - m + 1) : SubSeq(s, m, Len(s))[i] = s[m + i - 1]
    BY <2>1, <2>3, SubSeqProperties
  <2>5. Len(SubSeq(s, m, Len(s))) = Len(s) - m + 1
    BY <2>1, <2>4
  <2>6. ASSUME NEW i \in 1..(Len(s) - m + 1)
        PROVE  m + i - 1 \in 1..Len(s) /\ SubSeq(s, m, Len(s))[i] = s[m + i - 1]
    BY <2>1, <2>4
  <2>7. RunesOf(SubSeq(s, m, Len(s))) \subseteq RunesOf(s)
    BY <2>5, <2>6 DEF RunesOf
  <2>8. Len(SubSeq(s, m, Len(s))) = n
    BY <2>1, <2>5 DEF m
  <2> QED
    BY <2>2, <2>4, <2>7, <2>8
<1> QED
  BY <1>1, <1>2, LenProperties

(* A set of naturals has a least element: among the intervals that end in its
   elements one is minimal, as finite sets are well-founded under inclusion. *)
LEMMA LeastNatural ==
  ASSUME NEW T \in SUBSET Nat, T # {}
  PROVE  \E x \in T : \A y \in T : x <= y
<1> DEFINE intervals == {1..k : k \in T}
<1>1. /\ intervals \subseteq FiniteSubsetsOf(Nat)
      /\ intervals # {}
  <2>1. ASSUME NEW k \in T  PROVE 1..k \in FiniteSubsetsOf(Nat)
    <3>1. IsFiniteSet(1..k)
      BY FS_Interval
    <3> QED
      BY <3>1 DEF FiniteSubsetsOf
  <2> QED
    BY <2>1
<1>2. PICK i \in intervals : \A j \in intervals : <<j, i>> \notin StrictSubsetOrdering(Nat)
  <2> HIDE DEF intervals
  <2> QED
    BY <1>1, FS_StrictSubsetOrderingWellFounded, WFMin
<1>3. PICK x \in T : i = 1..x
  BY <1>2
<1>4. ASSUME NEW y \in T, y < x  PROVE FALSE
  <2>1. /\ 1..y \in SUBSET Nat /\ 1..x \in SUBSET Nat
        /\ 1..y \subseteq 1..x
        /\ x \in 1..x /\ x \notin 1..y
    BY <1>4
  <2>2. <<1..y, 1..x>> \in StrictSubsetOrdering(Nat)
    <3>1. 1..y # 1..x
      BY <2>1
    <3> QED
      BY <2>1, <3>1 DEF StrictSubsetOrdering
  <2> QED
    BY <1>2, <1>3, <2>2
<1> QED
  BY <1>4

(* TrimSpace keeps what lies between the first and the last rune that is not a
   line break. *)
LEMMA TrimEnds ==
  ASSUME NEW s \in Seq(Rune)
  PROVE  \/ TrimSpace(s) = <<>> /\ \A k \in 1..Len(s) : s[k][2] = 0
         \/ \E first, last \in 1..Len(s) :
              /\ first <= last /\ TrimSpace(s) = SubSeq(s, first, last)
              /\ \A k \in 1..Len(s) : s[k][2] # 0 => first <= k /\ k <= last
<1> DEFINE solid == {k \in 1..Len(s) : s[k][2] # 0}
           first == CHOOSE k \in solid : \A j \in solid : k <= j
           last == CHOOSE k \in solid : \A j \in solid : j <= k
<1>0. Len(s) \in Nat
  BY LenProperties
<1>1. CASE solid = {}
  <2>1. TrimSpace(s) = <<>>
    BY <1>1 DEF TrimSpace
  <2> QED
    BY <1>1, <2>1
<1>2. CASE solid # {}
  <2>0. solid \in SUBSET Nat
    BY <1>0
  <2>1. \E k \in solid : \A j \in solid : k <= j
    <3> HIDE DEF solid
    <3> QED
      BY <1>2, <2>0, LeastNatural
  <2>2. \E k \in solid : \A j \in solid : j <= k
    <3> DEFINE mirror == {Len(s) - k : k \in solid}
    <3>1. mirror \in SUBSET Nat /\ mirror # {}
      BY <1>0, <1>2
    <3>2. PICK m \in mirror : \A j \in mirror : m <= j
      <4> HIDE DEF mirror
      <4> QED
        BY <3>1, LeastNatural
    <3>3. PICK k \in solid : m = Len(s) - k
      BY <3>2
    <3>4. \A j \in solid : Len(s) - k <= Len(s) - j
      BY <3>2, <3>3
    <3> QED
      BY <1>0, <3>3, <3>4
  <2>3. first \in solid /\ \A j \in solid : first <= j
    BY <2>1
  <2>4. last \in solid /\ \A j \in solid : j <= last
    BY <2>2
  <2>5. TrimSpace(s) = SubSeq(s, first, last)
    BY <1>2 DEF TrimSpace
  <2> HIDE DEF first, last
  <2> QED
    BY <2>3, <2>4, <2>5
<1> QED
  BY <1>1, <1>2

(* TrimSpace takes line breaks off both ends and nothing else. *)
LEMMA TrimKeepsRunes ==
  ASSUME NEW s \in Seq(Rune)
  PROVE  /\ TrimSpace(s) \in Seq(Rune)
         /\ Len(TrimSpace(s)) <= Len(s)
         /\ \A k \in 1..Len(s) : s[k][2] # 0 => s[k] \in RunesOf(TrimSpace(s))
         /\ RunesOf(TrimSpace(s)) \subseteq RunesOf(s)
<1>0. Len(s) \in Nat
  BY LenProperties
<1>1. CASE TrimSpace(s) = <<>> /\ \A k \in 1..Len(s) : s[k][2] = 0
  <2>1. /\ <<>> \in Seq(Rune)
        /\ Len(<<>>) = 0
    BY EmptySeq
  <2>2. RunesOf(<<>>) = {}
    BY <2>1 DEF RunesOf
  <2> QED
    BY <1>0, <1>1, <2>1, <2>2
<1>2. ASSUME NEW first \in 1..Len(s), NEW last \in 1..Len(s),
             first <= last, TrimSpace(s) = SubSeq(s, first, last),
             \A k \in 1..Len(s) : s[k][2] # 0 => first <= k /\ k <= last
      PROVE  /\ TrimSpace(s) \in Seq(Rune)
             /\ Len(TrimSpace(s)) <= Len(s)
             /\ \A k \in 1..Len(s) : s[k][2] # 0 => s[k] \in RunesOf(TrimSpace(s))
             /\ RunesOf(TrimSpace(s)) \subseteq RunesOf(s)
  <2>1. \A i \in first..last : s[i] \in Rune
    BY <1>0, ElementOfSeq
  <2>2. /\ SubSeq(s, first, last) \in Seq(Rune)
        /\ Len(SubSeq(s, first, last)) = last - first + 1
        /\ \A i \in 1..(last - first + 1) : SubSeq(s, first, last)[i] = s[first + i - 1]
    BY <1>0, <1>2, <2>1, SubSeqProperties
  <2>3. ASSUME NEW k \in 1..Len(s), s[k][2] # 0
        PROVE  s[k] \in RunesOf(TrimSpace(s))
    <3>1. first <= k /\ k <= last
      BY <1>2, <2>3
    <3>2. k - first + 1 \in 1..(last - first + 1) /\ first + (k - first + 1) - 1 = k
      BY <1>0, <1>2, <3>1
    <3>3. SubSeq(s, first, last)[k - first + 1] = s[k]
      BY <2>2, <3>2
    <3> QED
      BY <1>2, <2>2, <3>2, <3>3 DEF RunesOf
  <2>4. RunesOf(TrimSpace(s)) \subseteq RunesOf(s)
    <3>1. ASSUME NEW i \in 1..(last - first + 1)
          PROVE  first + i - 1 \in 1..Len(s)
      BY <1>0, <1>2
    <3> QED
      BY <1>2, <2>2, <3>1 DEF RunesOf
  <2> QED
    BY <1>0, <1>2, <2>2, <2>3, <2>4
<1> QED
  BY <1>1, <1>2, TrimEnds
-----------------------------------------------------------------------------
(* What AddParagraph and CutLong make of the current chunk and the text. *)
Full == Len(current) + text[next] > Size /\ current # <<>>
Carried == IF Full THEN GetOverlap(current, Overlap) ELSE current
End == IF start + Size > text[next] THEN text[next] ELSE start + Size
Piece == SubSeq(Paragraph(next), start + 1, End)

(* Sizes are numbers, and a paragraph the loop looks at has a length. *)
LEMMA Numbers ==
  ASSUME TypeOK
  PROVE  /\ Size \in Nat \ {0} /\ Overlap \in Nat /\ Overlap < Size
         /\ start \in Nat /\ next \in Nat \ {0}
         /\ Len(text) \in Nat /\ Len(current) \in Nat /\ Len(chunks) \in Nat
         /\ Len(vectors) \in Nat /\ Len(batch) \in Nat
         /\ next <= Len(text) => text[next] \in Nat
<1>1. text \in Seq(Nat)
  BY PipelineAssumption DEF TypeOK
<1>2. Len(text) \in Nat
  BY <1>1, LenProperties
<1>3. /\ Len(current) \in Nat /\ Len(chunks) \in Nat
      /\ Len(vectors) \in Nat /\ Len(batch) \in Nat
  BY LenProperties DEF TypeOK
<1>4. next \in Nat \ {0}
  BY <1>2 DEF TypeOK
<1>5. next <= Len(text) => text[next] \in Nat
  BY <1>1, <1>2, <1>4, ElementOfSeq
<1> QED
  BY <1>2, <1>3, <1>4, <1>5 DEF TypeOK, Size, Overlap

(* A piece of a long paragraph: the runes from start on, at most Size. *)
LEMMA PieceRunes ==
  ASSUME TypeOK, next <= Len(text), text[next] > Size, start < text[next]
  PROVE  /\ Piece \in Seq(Rune)
         /\ End \in Nat /\ start < End /\ End <= text[next]
         /\ Len(Piece) = End - start /\ Len(Piece) <= Size
         /\ RunesOf(Piece) = {<<next, i>> : i \in (start + 1)..End}
<1>1. /\ Size \in Nat \ {0} /\ start \in Nat /\ next \in 1..Len(text)
      /\ text[next] \in Nat
  BY Numbers
<1>2. End \in Nat /\ start < End /\ End <= text[next] /\ End - start <= Size
  BY <1>1 DEF End
<1>3. \A i \in (start + 1)..End : Paragraph(next)[i] = <<next, i>>
  BY <1>1, <1>2, ParagraphLength
<1>4. \A i \in (start + 1)..End : Paragraph(next)[i] \in Rune
  <2>1. next \in Nat
    BY Numbers
  <2>2. ASSUME NEW i \in (start + 1)..End  PROVE <<next, i>> \in Rune
    BY <1>1, <1>2, <2>1 DEF Rune
  <2> QED
    BY <1>3, <2>2
<1>5. /\ Piece \in Seq(Rune)
      /\ Len(Piece) = End - start
      /\ \A i \in 1..(End - start) : Piece[i] = Paragraph(next)[start + i]
  <2>1. start + 1 \in Int /\ End \in Int /\ start + 1 <= End
    BY <1>1, <1>2
  <2>2. /\ Piece \in Seq(Rune)
        /\ Len(Piece) = IF start + 1 <= End THEN End - (start + 1) + 1 ELSE 0
        /\ \A i \in 1..(End - (start + 1) + 1) :
             Piece[i] = Paragraph(next)[start + 1 + i - 1]
    BY <1>4, <2>1, SubSeqProperties DEF Piece
  <2>3. End - (start + 1) + 1 = End - start
    BY <1>1, <2>1, SMTT(60)
  <2>4. ASSUME NEW i \in 1..(End - start)  PROVE start + 1 + i - 1 = start + i
    BY <1>1, SMTT(60)
  <2> QED
    BY <2>1, <2>2, <2>3, <2>4, SMTT(60)
<1>6. \A i \in 1..(End - start) : Piece[i] = <<next, start + i>>
  BY <1>1, <1>2, <1>3, <1>5
<1>7. RunesOf(Piece) = {<<next, i>> : i \in (start + 1)..End}
  <2>1. RunesOf(Piece) = {Piece[k] : k \in 1..(End - start)}
    BY <1>5 DEF RunesOf
  <2>2. ASSUME NEW i \in (start + 1)..End
        PROVE  \E k \in 1..(End - start) : Piece[k] = <<next, i>>
    <3>1. i - start \in 1..(End - start) /\ start + (i - start) = i
      BY <1>1, <1>2
    <3> QED
      BY <1>6, <3>1
  <2>3. ASSUME NEW k \in 1..(End - start)
        PROVE  start + k \in (start + 1)..End
    BY <1>1, <1>2
  <2> QED
    BY <1>6, <2>1, <2>2, <2>3
<1> QED
  BY <1>2, <1>5, <1>7

(* The chunk AddParagraph goes on with holds the whole paragraph, all of the
   chunk before it unless that was saved, and is no longer than allowed. *)
LEMMA AddedParagraph ==
  ASSUME TypeOK, AddParagraph
  PROVE  /\ current' \in Seq(Rune)
         /\ Len(current') <= Size + Overlap + 1
         /\ \A i \in 1..text[next] : <<next, i>> \in RunesOf(current')
         /\ ~Full => RunesOf(current) \subseteq RunesOf(current')
         /\ \A r \in RunesOf(current') : r \in RunesOf(current) \/ r[1] = next
<1> DEFINE para == Paragraph(next)
           break == <<LineBreak(next)>>
<1>1. /\ Size \in Nat \ {0} /\ Overlap \in Nat /\ Len(current) \in Nat
      /\ next \in 1..Len(text) /\ text[next] \in 1..Size
      /\ current \in Seq(Rune)
  BY Numbers DEF AddParagraph, TypeOK
<1>2. /\ para \in Seq(Rune) /\ Len(para) = text[next]
      /\ \A i \in 1..text[next] : para[i] = <<next, i>>
  BY <1>1, ParagraphLength
<1>3. /\ Carried \in Seq(Rune) /\ Len(Carried) \in Nat
      /\ Len(Carried) + text[next] <= Size + Overlap
      /\ ~Full => Carried = current
      /\ RunesOf(Carried) \subseteq RunesOf(current)
  <2>1. CASE Full
    <3>1. /\ GetOverlap(current, Overlap) \in Seq(Rune)
          /\ Len(GetOverlap(current, Overlap)) <= Overlap
          /\ RunesOf(GetOverlap(current, Overlap)) \subseteq RunesOf(current)
      BY <1>1, OverlapSuffix
    <3>2. Len(GetOverlap(current, Overlap)) \in Nat
      BY <3>1, LenProperties
    <3> QED
      BY <1>1, <2>1, <3>1, <3>2 DEF Carried
  <2>2. CASE ~Full
    <3>1. Len(current) + text[next] <= Size \/ Len(current) = 0
      BY <1>1, <2>2, EmptySeq DEF Full
    <3> QED
      BY <1>1, <2>2, <3>1 DEF Carried
  <2> QED
    BY <2>1, <2>2
<1>4. /\ break \in Seq(Rune) /\ Len(break) = 1 /\ break[1][1] = next
  <2>1. LineBreak(next) \in Rune
    BY <1>1 DEF LineBreak, Rune
  <2> QED
    BY <2>1 DEF LineBreak
<1>5. current' = Carried \o para \o break
  BY DEF AddParagraph, Carried, Full
<1> HIDE DEF para, break
<1>6. /\ Carried \o para \in Seq(Rune)
      /\ Len(Carried \o para) = Len(Carried) + text[next]
      /\ \A i \in 1..(Len(Carried) + text[next]) :
           (Carried \o para)[i] = IF i <= Len(Carried) THEN Carried[i] ELSE para[i - Len(Carried)]
  <2>1. Carried \in Seq(Rune) /\ para \in Seq(Rune) /\ Len(para) = text[next]
    BY <1>2, <1>3
  <2> QED
    BY <2>1, ConcatProperties
<1>7. /\ current' \in Seq(Rune)
      /\ Len(current') = Len(Carried) + text[next] + 1
      /\ \A i \in 1..(Len(Carried) + text[next]) : current'[i] = (Carried \o para)[i]
      /\ current'[Len(Carried) + text[next] + 1] = break[1]
  <2>1. /\ (Carried \o para) \o break \in Seq(Rune)
        /\ Len((Carried \o para) \o break) = Len(Carried \o para) + Len(break)
        /\ \A i \in 1..(Len(Carried \o para) + Len(break)) :
             ((Carried \o para) \o break)[i] = IF i <= Len(Carried \o para) THEN (Carried \o para)[i]
                                             ELSE break[i - Len(Carried \o para)]
    BY <1>4, <1>6, ConcatProperties
  <2>2. current' = (Carried \o para) \o break /\ Len(Carried \o para) = Len(Carried) + text[next]
    BY <1>5, <1>6
  <2>3. /\ Len(Carried) + text[next] \in Nat
        /\ Len(break) = 1
    BY <1>1, <1>3, <1>4
  <2> QED
    BY <2>1, <2>2, <2>3, SMTT(60)
<1>8. ASSUME NEW i \in 1..text[next]
      PROVE  <<next, i>> \in RunesOf(current')
  <2>1. /\ Len(Carried) + i \in 1..(Len(Carried) + text[next])
        /\ Len(Carried) + i \in 1..Len(current')
        /\ ~(Len(Carried) + i <= Len(Carried)) /\ (Len(Carried) + i) - Len(Carried) = i
    BY <1>1, <1>3, <1>7
  <2>2. current'[Len(Carried) + i] = <<next, i>>
    BY <1>2, <1>6, <1>7, <2>1
  <2> QED
    BY <2>1, <2>2 DEF RunesOf
<1>9. ASSUME ~Full
      PROVE  RunesOf(current) \subseteq RunesOf(current')
  <2>1. ASSUME NEW i \in 1..Len(current)
        PROVE  i \in 1..Len(current') /\ current'[i] = current[i]
    <3>1. Carried = current
      BY <1>3, <1>9
    <3>2. /\ i <= Len(Carried) /\ i \in 1..(Len(Carried) + text[next])
          /\ i \in 1..Len(current')
      BY <1>1, <1>3, <1>7, <3>1
    <3>3. current'[i] = Carried[i]
      BY <1>6, <1>7, <3>2
    <3> QED
      BY <3>1, <3>2, <3>3
  <2> QED
    BY <2>1 DEF RunesOf
<1>10. ASSUME NEW i \in 1..Len(current')
       PROVE  current'[i] \in RunesOf(current) \/ current'[i][1] = next
  <2>1. CASE i <= Len(Carried)
    <3>1. /\ i \in 1..Len(Carried) /\ i \in 1..(Len(Carried) + text[next])
      BY <1>1, <1>3, <2>1
    <3>2. current'[i] = Carried[i]
      BY <1>6, <1>7, <2>1, <3>1
    <3> QED
      BY <1>3, <3>1, <3>2 DEF RunesOf
  <2>2. CASE i > Len(Carried) /\ i <= Len(Carried) + text[next]
    <3>1. /\ i \in 1..(Len(Carried) + text[next]) /\ ~(i <= Len(Carried))
          /\ i - Len(Carried) \in 1..text[next]
      BY <1>1, <1>3, <2>2
    <3>2. current'[i] = <<next, i - Len(Carried)>>
      BY <1>2, <1>6, <1>7, <3>1
    <3> QED
      BY <3>2
  <2>3. CASE i > Len(Carried) + text[next]
    <3>1. i = Len(Carried) + text[next] + 1
      BY <1>1, <1>3, <1>7, <2>3
    <3> QED
      BY <1>4, <1>7, <3>1
  <2> QED
    BY <1>1, <1>3, <2>1, <2>2, <2>3
<1>11. \A r \in RunesOf(current') : r \in RunesOf(current) \/ r[1] = next
  BY <1>10 DEF RunesOf
<1> QED
  BY <1>1, <1>3, <1>7, <1>8, <1>9, <1>11

(* Append, as the chunks grow by it. *)
LEMMA AppendChunk ==
  ASSUME TypeOK, NEW s \in Seq(Rune), chunks' = Append(chunks, s)
  PROVE  /\ chunks' \in Seq(Seq(Rune))
         /\ Len(chunks') = Len(chunks) + 1
         /\ \A k \in 1..Len(chunks) : chunks'[k] = chunks[k]
         /\ chunks'[Len(chunks) + 1] = s
         /\ InChunks' = InChunks \cup RunesOf(s)
<1>1. /\ chunks' \in Seq(Seq(Rune))
      /\ Len(chunks') = Len(chunks) + 1
      /\ \A k \in 1..Len(chunks) : chunks'[k] = chunks[k]
      /\ chunks'[Len(chunks) + 1] = s
  BY AppendProperties DEF TypeOK
<1>2. 1..Len(chunks') = 1..Len(chunks) \cup {Len(chunks) + 1}
  BY <1>1, Numbers
<1>3. InChunks' = UNION {RunesOf(chunks'[k]) : k \in 1..Len(chunks')}
  BY DEF InChunks, RunesOf
<1> QED
  BY <1>1, <1>2, <1>3 DEF InChunks
-----------------------------------------------------------------------------
(* While a long paragraph is being cut, what is left of it is longer than the
   overlap, so that the next piece has something new. *)
CutUnderway ==
  start # 0 => /\ phase = "split" /\ next <= Len(text)
               /\ text[next] > Size /\ start + Overlap < text[next]

(* What each action does to the paragraph and the place in it. *)
LEMMA CutLongStep ==
  ASSUME TypeOK, CutUnderway, CutLong
  PROVE  /\ next <= Len(text) /\ text[next] > Size /\ start < text[next]
         /\ Piece \in Seq(Rune) /\ chunks' = Append(chunks, Piece)
         /\ \/ End = text[next] /\ next' = next + 1 /\ start' = 0
            \/ /\ End = start + Size /\ End < text[next]
               /\ next' = next /\ start' = start + Size - Overlap
<1>1. /\ next <= Len(text) /\ text[next] > Size
      /\ chunks' = Append(chunks, Piece)
      /\ IF End = text[next] THEN next' = next + 1 /\ start' = 0
                             ELSE start' = start + Size - Overlap /\ UNCHANGED next
  BY DEF CutLong, Piece, End
<1>2. start < text[next]
  BY <1>1, Numbers DEF CutUnderway
<1>3. Piece \in Seq(Rune)
  BY <1>1, <1>2, PieceRunes
<1>4. End # text[next] => End = start + Size /\ End < text[next]
  <2>1. start \in Nat /\ Size \in Nat /\ text[next] \in Nat
    BY <1>1, Numbers
  <2> QED
    BY <2>1, SMTT(60) DEF End
<1> QED
  BY <1>1, <1>2, <1>3, <1>4

(* The type invariant, for every text, setting and batch size. *)
LEMMA TypeInit ==
  Init => TypeOK /\ CutUnderway
<1> SUFFICES ASSUME Init PROVE TypeOK /\ CutUnderway
  OBVIOUS
<1>1. chunker \in [size : Nat \ {0}, overlap : Nat] /\ Overlap < Size
  BY ChunkerSensible DEF Init, Overlap, Size
<1>2. text \in Seq(Nat)
  BY PipelineAssumption DEF Init
<1>3. 1 \in 1..(Len(text) + 1)
  BY <1>2, LenProperties
<1>4. <<>> \in Seq(Rune) /\ <<>> \in Seq(Seq(Rune))
  BY EmptySeq
<1> QED
  BY <1>1, <1>3, <1>4 DEF Init, TypeOK, CutUnderway

(* Every step of Split and of the embedding keeps the types. *)
LEMMA TypeStep ==
  ASSUME TypeOK, CutUnderway, [Next]_vars
  PROVE  TypeOK' /\ CutUnderway'
<1>0. ASSUME UNCHANGED <<text, chunker>>
      PROVE  /\ text' \in Texts /\ Len(text') = Len(text) /\ text'[next] = text[next]
             /\ chunker' \in [size : Nat \ {0}, overlap : Nat]
             /\ Overlap' = Overlap /\ Size' = Size /\ Overlap' < Size'
  BY <1>0 DEF TypeOK, Overlap, Size
<1>1. CASE SkipBlank
  BY <1>0, <1>1, Numbers DEF SkipBlank, TypeOK, CutUnderway
<1>2. CASE CutLong
  <2>1. chunks' \in Seq(Seq(Rune))
    BY <1>2, CutLongStep, AppendChunk
  <2>2. UNCHANGED <<text, chunker, current, vectors, batch, phase>> /\ phase = "split"
    BY <1>2 DEF CutLong
  <2>3. next' \in 1..(Len(text) + 1) /\ start' \in Nat
    BY <1>2, CutLongStep, Numbers
  <2>4. TypeOK'
    BY <1>0, <2>1, <2>2, <2>3 DEF TypeOK
  <2>5. CutUnderway'
    <3>1. CASE End = text[next] /\ next' = next + 1 /\ start' = 0
      BY <3>1 DEF CutUnderway
    <3>2. CASE /\ End = start + Size /\ End < text[next]
               /\ next' = next /\ start' = start + Size - Overlap
      BY <1>0, <1>2, <2>2, <3>2, CutLongStep, Numbers DEF CutUnderway
    <3> QED
      BY <1>2, <3>1, <3>2, CutLongStep
  <2> QED
    BY <2>4, <2>5
<1>3. CASE AddParagraph
  <2>1. chunks' \in Seq(Seq(Rune))
    <3>1. current \in Seq(Rune) /\ (chunks' = Append(chunks, current) \/ chunks' = chunks)
      BY <1>3 DEF AddParagraph, TypeOK
    <3> QED
      BY <3>1, AppendChunk DEF TypeOK
  <2>2. current' \in Seq(Rune)
    BY <1>3, AddedParagraph
  <2>3. /\ UNCHANGED <<text, chunker, start, vectors, batch, phase>>
        /\ next <= Len(text) /\ ~(text[next] > Size) /\ next' = next + 1
    BY <1>3, Numbers DEF AddParagraph
  <2>4. start = 0
    BY <2>3, Numbers DEF CutUnderway
  <2> QED
    BY <1>0, <2>1, <2>2, <2>3, <2>4, Numbers DEF TypeOK, CutUnderway
<1>4. CASE FinishSplit
  <2>1. chunks' \in Seq(Seq(Rune))
    <3>1. TrimSpace(current) \in Seq(Rune)
      BY TrimKeepsRunes DEF TypeOK
    <3> QED
      BY <1>4, <3>1, AppendChunk DEF FinishSplit, TypeOK
  <2>2. start = 0
    BY <1>4, Numbers DEF FinishSplit, CutUnderway
  <2> QED
    BY <1>0, <1>4, <2>1, <2>2 DEF FinishSplit, TypeOK, CutUnderway
<1>5. CASE EmbedText
  <2>1. batch' \in Seq(Seq(Rune))
    <3>1. CASE batch' = Append(batch, chunks[Len(vectors) + Len(batch) + 1])
      <4>1. Len(vectors) + Len(batch) + 1 \in 1..Len(chunks)
        BY <1>5, Numbers, PipelineAssumption DEF EmbedText, BatchEnd
      <4>2. chunks[Len(vectors) + Len(batch) + 1] \in Seq(Rune)
        BY <4>1, ElementOfSeq DEF TypeOK
      <4> QED
        BY <3>1, <4>2, AppendProperties DEF TypeOK
    <3> QED
      BY <1>5, <3>1 DEF EmbedText, TypeOK
  <2>2. start = 0
    BY <1>5 DEF EmbedText, CutUnderway
  <2> QED
    BY <1>0, <1>5, <2>1, <2>2 DEF EmbedText, TypeOK, CutUnderway
<1>6. CASE EndBatch
  <2>1. vectors' \in Seq(Seq(Rune)) /\ batch' \in Seq(Seq(Rune))
    BY <1>6, ConcatProperties, EmptySeq DEF EndBatch, TypeOK
  <2>2. start = 0
    BY <1>6 DEF EndBatch, CutUnderway
  <2> QED
    BY <1>0, <1>6, <2>1, <2>2 DEF EndBatch, TypeOK, CutUnderway
<1>7. CASE UNCHANGED vars
  BY <1>0, <1>7 DEF vars, TypeOK, CutUnderway
<1> QED
  BY <1>1, <1>2, <1>3, <1>4, <1>5, <1>6, <1>7 DEF Next

(* The type invariant, and that a paragraph is cut only while there is more of
   it than the overlap. *)
THEOREM PipelineTypeCorrect == Spec => [](TypeOK /\ CutUnderway)
<1>1. Init => TypeOK /\ CutUnderway
  BY TypeInit
<1>2. TypeOK /\ CutUnderway /\ [Next]_vars => (TypeOK /\ CutUnderway)'
  BY TypeStep
<1> QED
  BY <1>1, <1>2, PTL DEF Spec
-----------------------------------------------------------------------------
(* How long a chunk can get. *)
Bounded ==
  Len(current) <= Size + Overlap + 1 /\ ChunksBounded

(* A chunk that is short enough can be added. *)
LEMMA BoundedAppend ==
  ASSUME TypeOK, ChunksBounded, NEW s \in Seq(Rune), Len(s) <= Size + Overlap + 1,
         chunks' = Append(chunks, s), chunker' = chunker
  PROVE  ChunksBounded'
<1>1. ASSUME NEW k \in 1..Len(chunks')
      PROVE  \/ k \in 1..Len(chunks) /\ chunks'[k] = chunks[k]
             \/ chunks'[k] = s
  <2>1. /\ Len(chunks') = Len(chunks) + 1
        /\ \A i \in 1..Len(chunks) : chunks'[i] = chunks[i]
        /\ chunks'[Len(chunks) + 1] = s
    BY AppendChunk
  <2>2. k \in 1..Len(chunks) \/ k = Len(chunks) + 1
    BY <2>1, Numbers
  <2> QED
    BY <2>1, <2>2
<1>2. Size' = Size /\ Overlap' = Overlap
  BY DEF Size, Overlap
<1> QED
  BY <1>1, <1>2 DEF ChunksBounded

(* Every step keeps the chunks and the one being made short enough. *)
LEMMA BoundedStep ==
  ASSUME TypeOK, CutUnderway, Bounded, [Next]_vars
  PROVE  Bounded'
<1>0. ChunksBounded /\ Len(current) <= Size + Overlap + 1
  BY DEF Bounded
<1>1. ASSUME UNCHANGED <<chunker, chunks>>
      PROVE  ChunksBounded'
  BY <1>0, <1>1 DEF ChunksBounded, Size, Overlap
<1>2. ASSUME UNCHANGED <<chunker, current>>
      PROVE  Len(current') <= Size' + Overlap' + 1
  BY <1>0, <1>2 DEF Size, Overlap
<1>3. CASE SkipBlank
  BY <1>1, <1>2, <1>3 DEF SkipBlank, Bounded
<1>4. CASE CutLong
  <2>1. UNCHANGED <<chunker, current>>
    BY <1>4 DEF CutLong
  <2>2. Len(Piece) <= Size + Overlap + 1
    BY <1>4, CutLongStep, PieceRunes, Numbers
  <2>3. ChunksBounded'
    BY <1>0, <1>4, <2>1, <2>2, CutLongStep, BoundedAppend
  <2> QED
    BY <1>2, <2>1, <2>3 DEF Bounded
<1>5. CASE AddParagraph
  <2>1. UNCHANGED chunker /\ (chunks' = Append(chunks, current) \/ chunks' = chunks)
    BY <1>5 DEF AddParagraph
  <2>2. ChunksBounded'
    <3>1. current \in Seq(Rune)
      BY DEF TypeOK
    <3> QED
      BY <1>0, <1>1, <2>1, <3>1, BoundedAppend
  <2>3. Len(current') <= Size' + Overlap' + 1
    BY <1>5, <2>1, AddedParagraph DEF Size, Overlap
  <2> QED
    BY <2>2, <2>3 DEF Bounded
<1>6. CASE FinishSplit
  <2>1. /\ UNCHANGED <<chunker, current>>
        /\ chunks' = Append(chunks, TrimSpace(current)) \/ chunks' = chunks
    BY <1>6 DEF FinishSplit
  <2>2. ChunksBounded'
    <3>1. TrimSpace(current) \in Seq(Rune) /\ Len(TrimSpace(current)) <= Len(current)
      BY TrimKeepsRunes DEF TypeOK
    <3>2. Len(TrimSpace(current)) <= Size + Overlap + 1
      BY <1>0, <3>1, Numbers, LenProperties
    <3> QED
      BY <1>0, <1>1, <2>1, <3>1, <3>2, BoundedAppend
  <2> QED
    BY <1>2, <2>1, <2>2 DEF Bounded
<1>7. CASE EmbedText
  BY <1>1, <1>2, <1>7 DEF EmbedText, Bounded
<1>8. CASE EndBatch
  BY <1>1, <1>2, <1>8 DEF EndBatch, Bounded
<1>9. CASE UNCHANGED vars
  BY <1>1, <1>2, <1>9 DEF vars, Bounded
<1> QED
  BY <1>3, <1>4, <1>5, <1>6, <1>7, <1>8, <1>9 DEF Next

(* A chunk never exceeds its size by more than the overlap and a line break. *)
THEOREM PipelineChunksBounded == Spec => []ChunksBounded
<1>1. Init => Bounded
  <2> SUFFICES ASSUME Init PROVE Bounded
    OBVIOUS
  <2>1. Size \in Nat /\ Overlap \in Nat
    BY TypeInit, Numbers
  <2>2. Len(current) = 0 /\ Len(chunks) = 0
    BY EmptySeq DEF Init
  <2> QED
    BY <2>1, <2>2 DEF Bounded, ChunksBounded
<1>2. TypeOK /\ CutUnderway /\ Bounded /\ [Next]_vars => Bounded'
  BY BoundedStep
<1>3. Bounded => ChunksBounded
  BY DEF Bounded
<1> QED
  BY <1>1, <1>2, <1>3, PipelineTypeCorrect, PTL DEF Spec
-----------------------------------------------------------------------------
(* The vectors and the batch under way follow the chunks, from the first on. *)
InStep ==
  /\ phase = "split" => vectors = <<>> /\ batch = <<>>
  /\ phase # "split" =>
       /\ Len(vectors) + Len(batch) <= BatchEnd
       /\ \A i \in 1..Len(vectors) : vectors[i] = chunks[i]
       /\ \A i \in 1..Len(batch) : batch[i] = chunks[Len(vectors) + i]
  /\ phase = "done" => Len(vectors) = Len(chunks)

(* Every step keeps the vectors in step with the chunks. *)
LEMMA InStepStep ==
  ASSUME TypeOK, InStep, [Next]_vars
  PROVE  InStep'
<1>1. CASE SkipBlank \/ CutLong \/ AddParagraph
  BY <1>1 DEF SkipBlank, CutLong, AddParagraph, InStep
<1>2. CASE FinishSplit
  <2>1. phase' = "embed" /\ vectors' = <<>> /\ batch' = <<>> /\ Len(chunks') \in Nat
    <3>1. phase' = "embed" /\ vectors' = <<>> /\ batch' = <<>>
      BY <1>2 DEF FinishSplit, InStep
    <3>2. TrimSpace(current) \in Seq(Rune)
      BY TrimKeepsRunes DEF TypeOK
    <3>3. chunks' \in Seq(Seq(Rune))
      BY <1>2, <3>2, AppendChunk DEF FinishSplit, TypeOK
    <3> QED
      BY <3>1, <3>3, LenProperties
  <2>2. Len(<<>>) = 0
    BY EmptySeq
  <2> QED
    BY <2>1, <2>2, PipelineAssumption DEF InStep, BatchEnd
<1>3. CASE EmbedText
  <2>1. /\ UNCHANGED <<chunks, vectors>> /\ phase = "embed"
        /\ Len(vectors) + Len(batch) < BatchEnd
    BY <1>3 DEF EmbedText
  <2>2. BatchEnd' = BatchEnd
    BY <2>1 DEF BatchEnd
  <2>3. CASE batch' = Append(batch, chunks[Len(vectors) + Len(batch) + 1]) /\ UNCHANGED phase
    <3>1. Len(vectors) + Len(batch) + 1 \in 1..Len(chunks)
      BY <2>1, Numbers, PipelineAssumption DEF BatchEnd
    <3>2. chunks[Len(vectors) + Len(batch) + 1] \in Seq(Rune)
      BY <3>1, ElementOfSeq DEF TypeOK
    <3>3. /\ Len(batch') = Len(batch) + 1
          /\ \A i \in 1..Len(batch) : batch'[i] = batch[i]
          /\ batch'[Len(batch) + 1] = chunks[Len(vectors) + Len(batch) + 1]
      BY <2>3, <3>2, AppendProperties DEF TypeOK
    <3>4. BatchEnd \in Nat
      BY Numbers, PipelineAssumption DEF BatchEnd
    <3>5. Len(vectors') + Len(batch') <= BatchEnd'
      BY <2>1, <2>2, <3>3, <3>4, Numbers
    <3>6. ASSUME NEW i \in 1..Len(batch')
          PROVE  batch'[i] = chunks'[Len(vectors') + i]
      <4>1. i \in 1..Len(batch) \/ i = Len(batch) + 1
        BY <3>3, Numbers
      <4>2. CASE i \in 1..Len(batch)
        BY <2>1, <3>3, <4>2 DEF InStep
      <4>3. CASE i = Len(batch) + 1
        <5>1. Len(vectors') + i = Len(vectors) + Len(batch) + 1
          BY <2>1, <4>3, Numbers
        <5> QED
          BY <2>1, <3>3, <4>3, <5>1
      <4> QED
        BY <4>1, <4>2, <4>3
    <3> QED
      BY <2>1, <2>3, <3>5, <3>6 DEF InStep
  <2>4. CASE phase' = "error" /\ UNCHANGED batch
    BY <2>1, <2>2, <2>4 DEF InStep
  <2> QED
    BY <1>3, <2>3, <2>4 DEF EmbedText
<1>4. CASE EndBatch
  <2>1. /\ UNCHANGED chunks /\ phase = "embed"
        /\ Len(vectors) + Len(batch) = BatchEnd
        /\ vectors' = vectors \o batch /\ batch' = <<>>
        /\ phase' = IF BatchEnd = Len(chunks) THEN "done" ELSE "embed"
    BY <1>4 DEF EndBatch
  <2>2. /\ Len(vectors') = BatchEnd
        /\ \A i \in 1..BatchEnd : vectors'[i] = IF i <= Len(vectors) THEN vectors[i]
                                               ELSE batch[i - Len(vectors)]
    BY <2>1, ConcatProperties DEF TypeOK
  <2>3. BatchEnd \in Nat /\ BatchEnd <= Len(chunks)
    BY Numbers, PipelineAssumption DEF BatchEnd
  <2>4. ASSUME NEW i \in 1..BatchEnd
        PROVE  vectors'[i] = chunks[i]
    <3>1. CASE i <= Len(vectors)
      <4>1. i \in 1..Len(vectors)
        BY <2>3, <3>1, Numbers
      <4> QED
        BY <2>1, <2>2, <3>1, <4>1 DEF InStep
    <3>2. CASE ~(i <= Len(vectors))
      <4>1. /\ i - Len(vectors) \in 1..Len(batch)
            /\ Len(vectors) + (i - Len(vectors)) = i
        BY <2>1, <2>3, <3>2, Numbers
      <4>2. vectors'[i] = batch[i - Len(vectors)]
        BY <2>2, <3>2
      <4>3. batch[i - Len(vectors)] = chunks[Len(vectors) + (i - Len(vectors))]
        BY <2>1, <4>1 DEF InStep
      <4> QED
        BY <4>1, <4>2, <4>3
    <3> QED
      BY <3>1, <3>2
  <2>5. Len(vectors') + Len(batch') <= BatchEnd'
    <3>1. Len(batch') = 0
      BY <2>1, EmptySeq
    <3> QED
      BY <2>1, <2>2, <2>3, <3>1, Numbers, PipelineAssumption DEF BatchEnd
  <2>6. \A i \in 1..Len(batch') : FALSE
    BY <2>1, EmptySeq
  <2>7. phase' = "done" => Len(vectors') = Len(chunks')
    BY <2>1, <2>2
  <2> QED
    BY <2>1, <2>2, <2>4, <2>5, <2>6, <2>7 DEF InStep
<1>5. CASE UNCHANGED vars
  BY <1>5 DEF vars, InStep, BatchEnd
<1> QED
  BY <1>1, <1>2, <1>3, <1>4, <1>5 DEF Next

(* Vector i is the one of chunk i when all are there. *)
THEOREM PipelineVectorsAligned == Spec => []VectorsAligned
<1>1. Init => InStep
  BY DEF Init, InStep
<1>2. TypeOK /\ InStep /\ [Next]_vars => InStep'
  BY InStepStep
<1>3. TypeOK /\ InStep => VectorsAligned
  BY SeqEqual DEF TypeOK, InStep, VectorsAligned
<1> QED
  BY <1>1, <1>2, <1>3, PipelineTypeCorrect, PTL DEF Spec
-----------------------------------------------------------------------------
(* Where the runes are while Split is at work: those of the paragraphs behind
   it are in a chunk or in the current one, and so are those of the pieces cut
   so far; nothing of what lies ahead is in either, and the current chunk has a
   rune that is in no chunk yet. *)
Behind ==
  /\ NothingLost
  /\ start # 0 => \A i \in 1..(start + Overlap) : <<next, i>> \in InChunks
Ahead ==
  /\ \A r \in RunesOf(current) : r[1] < next
  /\ \A r \in InChunks :
       r[1] < next \/ (r[1] = next /\ start # 0 /\ r[2] <= start + Overlap)
Fresh ==
  /\ EveryChunkIsNew
  /\ (phase = "split" /\ current # <<>>) =>
       \E r \in RunesOf(current) : r[2] # 0 /\ r \notin InChunks

(* A chunk with a rune of its own can be added. *)
LEMMA NewChunk ==
  ASSUME TypeOK, EveryChunkIsNew, NEW s \in Seq(Rune), chunks' = Append(chunks, s),
         NEW r \in RunesOf(s), r[2] # 0, r \notin InChunks
  PROVE  EveryChunkIsNew'
<1>1. /\ Len(chunks') = Len(chunks) + 1
      /\ \A i \in 1..Len(chunks) : chunks'[i] = chunks[i]
      /\ chunks'[Len(chunks) + 1] = s
  BY AppendChunk
<1>2. ASSUME NEW k \in 1..Len(chunks')
      PROVE  \E q \in RunesOf(chunks'[k]) :
               q[2] # 0 /\ \A j \in 1..(k - 1) : q \notin RunesOf(chunks'[j])
  <2>1. CASE k \in 1..Len(chunks)
    <3>1. PICK q \in RunesOf(chunks[k]) :
            q[2] # 0 /\ \A j \in 1..(k - 1) : q \notin RunesOf(chunks[j])
      BY <2>1 DEF EveryChunkIsNew
    <3>2. ASSUME NEW j \in 1..(k - 1)  PROVE j \in 1..Len(chunks)
      BY <2>1, Numbers
    <3> QED
      BY <1>1, <2>1, <3>1, <3>2
  <2>2. CASE k = Len(chunks) + 1
    <3>1. ASSUME NEW j \in 1..(k - 1)
          PROVE  r \notin RunesOf(chunks'[j])
      <4>1. j \in 1..Len(chunks)
        BY <2>2, Numbers
      <4> QED
        BY <1>1, <4>1 DEF InChunks
    <3> QED
      BY <1>1, <2>2, <3>1
  <2> QED
    BY <1>1, <2>1, <2>2, Numbers
<1> QED
  BY <1>2 DEF EveryChunkIsNew, RunesOf

(* The chunks stay new while they stay. *)
LEMMA SameChunks ==
  ASSUME EveryChunkIsNew, chunks' = chunks
  PROVE  EveryChunkIsNew'
BY DEF EveryChunkIsNew

(* The runes of the chunks are pairs of numbers. *)
LEMMA RunesTyped ==
  ASSUME TypeOK
  PROVE  \A r \in RunesOf(current) \cup InChunks : r[1] \in Nat /\ r[2] \in Nat
<1>1. \A s \in Seq(Rune) : \A r \in RunesOf(s) : r[1] \in Nat /\ r[2] \in Nat
  <2> SUFFICES ASSUME NEW s \in Seq(Rune), NEW k \in 1..Len(s)
               PROVE  s[k][1] \in Nat /\ s[k][2] \in Nat
    BY DEF RunesOf
  <2>1. s[k] \in Rune
    BY ElementOfSeq
  <2> QED
    BY <2>1 DEF Rune
<1>2. \A k \in 1..Len(chunks) : chunks[k] \in Seq(Rune)
  BY ElementOfSeq DEF TypeOK
<1>3. current \in Seq(Rune)
  BY DEF TypeOK
<1> QED
  BY <1>1, <1>2, <1>3 DEF InChunks

(* The steps after Split leave the chunks alone. *)
LEMMA RunesStay ==
  ASSUME TypeOK, CutUnderway, Behind, Ahead, Fresh,
         UNCHANGED <<text, chunker, next, start, current, chunks>>,
         phase' = phase \/ (phase # "split" /\ phase' # "split")
  PROVE  Behind' /\ Ahead' /\ Fresh'
<1>1. InChunks' = InChunks /\ RunesOf(current') = RunesOf(current) /\ Overlap' = Overlap
  BY DEF InChunks, RunesOf, Overlap
<1>2. EveryChunkIsNew'
  <2>1. chunks' = chunks /\ EveryChunkIsNew
    BY DEF Fresh
  <2> QED
    BY <2>1, SameChunks
<1>3. NothingLost'
  BY <1>1 DEF Behind, NothingLost
<1> QED
  BY <1>1, <1>2, <1>3 DEF Behind, Ahead, Fresh

(* Every step keeps track of the runes: none is lost, and each chunk adds one. *)
LEMMA RunesStep ==
  ASSUME TypeOK, CutUnderway, Behind, Ahead, Fresh, [Next]_vars
  PROVE  Behind' /\ Ahead' /\ Fresh'
<1>1. CASE SkipBlank
  <2>1. /\ UNCHANGED <<text, chunker, start, current, chunks, phase>> /\ next' = next + 1
        /\ phase = "split" /\ next <= Len(text) /\ text[next] = 0
    BY <1>1 DEF SkipBlank
  <2>2. InChunks' = InChunks /\ RunesOf(current') = RunesOf(current)
    BY <2>1 DEF InChunks, RunesOf
  <2>3. start = 0
    BY <2>1, Numbers DEF CutUnderway
  <2>4. NothingLost'
    <3>1. ASSUME NEW p \in 1..(next' - 1), NEW i \in 1..text[p]
          PROVE  <<p, i>> \in InChunks \cup RunesOf(current)
      <4>1. p \in 1..(next - 1) \/ (p = next /\ FALSE)
        BY <2>1, <3>1, Numbers
      <4> QED
        BY <2>1, <3>1, <4>1 DEF Behind, NothingLost
    <3> QED
      BY <2>1, <2>2, <3>1 DEF NothingLost
  <2>5. Ahead'
    BY <2>1, <2>2, <2>3, Numbers, RunesTyped DEF Ahead
  <2>6. Fresh'
    BY <2>1, <2>2 DEF Fresh, EveryChunkIsNew, RunesOf
  <2> QED
    BY <2>1, <2>3, <2>4, <2>5, <2>6 DEF Behind
<1>2. CASE CutLong
  <2>1. /\ UNCHANGED <<text, chunker, current, phase>> /\ phase = "split"
        /\ chunks' = Append(chunks, Piece) /\ Piece \in Seq(Rune)
        /\ next <= Len(text) /\ text[next] > Size /\ start < text[next]
        /\ \/ End = text[next] /\ next' = next + 1 /\ start' = 0
           \/ /\ End = start + Size /\ End < text[next]
              /\ next' = next /\ start' = start + Size - Overlap
    BY <1>2, CutLongStep DEF CutLong
  <2>2. /\ End \in Nat /\ start < End /\ End <= text[next]
        /\ RunesOf(Piece) = {<<next, i>> : i \in (start + 1)..End}
    BY <2>1, PieceRunes
  <2>3. InChunks' = InChunks \cup RunesOf(Piece)
    BY <2>1, AppendChunk
  <2>4. RunesOf(current') = RunesOf(current) /\ Overlap' = Overlap /\ text' = text
    BY <2>1 DEF RunesOf, Overlap
  <2>5. ASSUME NEW i \in 1..End
        PROVE  <<next, i>> \in InChunks'
    <3>1. CASE i > start
      <4>1. i \in (start + 1)..End
        BY <2>2, <3>1, Numbers
      <4> QED
        BY <2>2, <2>3, <4>1
    <3>2. CASE ~(i > start)
      <4>1. start # 0 /\ i \in 1..(start + Overlap)
        BY <2>2, <3>2, Numbers
      <4> QED
        BY <2>3, <4>1 DEF Behind
    <3> QED
      BY <3>1, <3>2
  <2>6. Behind'
    <3>1. ASSUME NEW p \in 1..(next' - 1), NEW i \in 1..text[p]
          PROVE  <<p, i>> \in InChunks' \cup RunesOf(current)
      <4>1. CASE p \in 1..(next - 1)
        BY <2>1, <2>3, <3>1, <4>1 DEF Behind, NothingLost
      <4>2. CASE p = next /\ End = text[next]
        BY <2>5, <3>1, <4>2
      <4> QED
        BY <2>1, <3>1, <4>1, <4>2, Numbers
    <3>2. NothingLost'
      BY <2>1, <2>4, <3>1 DEF NothingLost
    <3>3. ASSUME start' # 0, NEW i \in 1..(start' + Overlap)
          PROVE  <<next', i>> \in InChunks'
      <4>1. next' = next /\ i \in 1..End
        BY <2>1, <2>2, <3>3, Numbers
      <4> QED
        BY <2>5, <4>1
    <3> QED
      BY <2>4, <3>2, <3>3 DEF Behind
  <2>7. Ahead'
    <3>1. ASSUME NEW r \in RunesOf(current)  PROVE r[1] < next'
      BY <2>1, Numbers, RunesTyped DEF Ahead
    <3>2. ASSUME NEW r \in InChunks
          PROVE  r[1] < next' \/ (r[1] = next' /\ start' # 0 /\ r[2] <= start' + Overlap)
      <4>1. /\ r[1] \in Nat /\ r[2] \in Nat
            /\ r[1] < next \/ (r[1] = next /\ r[2] <= start + Overlap)
        BY RunesTyped DEF Ahead
      <4>2. CASE next' = next + 1
        BY <4>1, <4>2, Numbers
      <4>3. CASE next' = next /\ start' = start + Size - Overlap
        <5>1. start' \in Nat \ {0} /\ start' + Overlap = start + Size
          BY <4>3, Numbers
        <5>2. r[1] = next => r[2] <= start + Size
          BY <4>1, Numbers
        <5> QED
          BY <4>1, <4>3, <5>1, <5>2
      <4> QED
        BY <2>1, <4>2, <4>3
    <3>3. ASSUME NEW i \in (start + 1)..End
          PROVE  next < next' \/ (next = next' /\ start' # 0 /\ i <= start' + Overlap)
      BY <2>1, <2>2, Numbers
    <3> QED
      BY <2>2, <2>3, <2>4, <3>1, <3>2, <3>3 DEF Ahead
  <2>8. Fresh'
    <3>1. /\ <<next, End>> \in RunesOf(Piece) /\ <<next, End>>[2] # 0
      <4>1. End \in (start + 1)..End /\ End # 0
        BY <2>2, Numbers
      <4> QED
        BY <2>2, <4>1
    <3>2. <<next, End>> \notin InChunks
      <4>1. SUFFICES ASSUME <<next, End>> \in InChunks PROVE FALSE
        OBVIOUS
      <4>2. start # 0 /\ End <= start + Overlap
        BY <4>1, Numbers DEF Ahead
      <4>3. start + Overlap < text[next] /\ start + Overlap < start + Size
        BY <4>2, Numbers DEF CutUnderway
      <4> QED
        BY <2>1, <2>2, <4>2, <4>3, Numbers
    <3>3. EveryChunkIsNew'
      BY <2>1, <3>1, <3>2, NewChunk DEF Fresh
    <3>4. ASSUME current # <<>>
          PROVE  \E r \in RunesOf(current) : r[2] # 0 /\ r \notin InChunks'
      <4>1. PICK r \in RunesOf(current) : r[2] # 0 /\ r \notin InChunks
        BY <2>1, <3>4 DEF Fresh
      <4>2. r \notin RunesOf(Piece)
        BY <2>2, Numbers, RunesTyped DEF Ahead
      <4> QED
        BY <2>3, <4>1, <4>2
    <3> QED
      BY <2>1, <2>4, <3>3, <3>4 DEF Fresh
  <2> QED
    BY <2>6, <2>7, <2>8
<1>3. CASE AddParagraph
  <2>1. /\ UNCHANGED <<text, chunker, start, phase>> /\ phase = "split" /\ next' = next + 1
        /\ next <= Len(text) /\ text[next] \in 1..Size
        /\ chunks' = (IF Full THEN Append(chunks, current) ELSE chunks)
    BY <1>3 DEF AddParagraph, Full
  <2>2. /\ current' \in Seq(Rune) /\ current \in Seq(Rune)
        /\ \A i \in 1..text[next] : <<next, i>> \in RunesOf(current')
        /\ ~Full => RunesOf(current) \subseteq RunesOf(current')
        /\ \A r \in RunesOf(current') : r \in RunesOf(current) \/ r[1] = next
    BY <1>3, AddedParagraph DEF TypeOK
  <2>3. InChunks' = IF Full THEN InChunks \cup RunesOf(current) ELSE InChunks
    <3>1. CASE Full
      BY <2>1, <2>2, <3>1, AppendChunk
    <3>2. CASE ~Full
      BY <2>1, <3>2 DEF InChunks, RunesOf
    <3> QED
      BY <3>1, <3>2
  <2>4. start = 0
    BY <2>1, Numbers DEF CutUnderway
  <2>5. RunesOf(current)' = RunesOf(current') /\ Overlap' = Overlap
    BY <2>1 DEF RunesOf, Overlap
  <2>6. Behind'
    <3>1. ASSUME NEW p \in 1..(next' - 1), NEW i \in 1..text[p]
          PROVE  <<p, i>> \in InChunks' \cup RunesOf(current')
      <4>1. CASE p \in 1..(next - 1)
        <5>1. <<p, i>> \in InChunks \cup RunesOf(current)
          BY <2>1, <3>1, <4>1 DEF Behind, NothingLost
        <5> QED
          BY <2>2, <2>3, <5>1
      <4>2. CASE p = next
        BY <2>2, <3>1, <4>2
      <4> QED
        BY <2>1, <3>1, <4>1, <4>2, Numbers
    <3>2. NothingLost'
      BY <2>1, <2>5, <3>1 DEF NothingLost
    <3> QED
      BY <2>1, <2>4, <3>2 DEF Behind
  <2>7. Ahead'
    <3>1. ASSUME NEW r \in RunesOf(current')  PROVE r[1] < next'
      BY <2>1, <2>2, Numbers, RunesTyped DEF Ahead
    <3>2. ASSUME NEW r \in InChunks'  PROVE r[1] < next'
      BY <2>1, <2>3, <2>4, Numbers, RunesTyped DEF Ahead
    <3> QED
      BY <2>5, <3>1, <3>2 DEF Ahead
  <2>8. Fresh'
    <3>1. EveryChunkIsNew'
      <4>1. CASE Full
        <5>1. PICK r \in RunesOf(current) : r[2] # 0 /\ r \notin InChunks
          BY <2>1, <4>1 DEF Fresh, Full
        <5> QED
          BY <2>1, <2>2, <4>1, <5>1, NewChunk DEF Fresh
      <4>2. CASE ~Full
        <5>1. chunks' = chunks /\ EveryChunkIsNew
          BY <2>1, <4>2 DEF Fresh
        <5> QED
          BY <5>1, SameChunks
      <4> QED
        BY <4>1, <4>2
    <3>2. <<next, 1>> \in RunesOf(current') /\ <<next, 1>>[2] # 0
      <4>1. 1 \in 1..text[next]
        BY <2>1, Numbers
      <4> QED
        BY <2>2, <4>1
    <3>3. <<next, 1>> \notin InChunks'
      <4>1. SUFFICES ASSUME <<next, 1>> \in InChunks \cup RunesOf(current) PROVE FALSE
        BY <2>3
      <4> QED
        BY <2>4, <4>1, Numbers DEF Ahead
    <3> QED
      BY <2>5, <3>1, <3>2, <3>3 DEF Fresh
  <2> QED
    BY <2>6, <2>7, <2>8
<1>4. CASE FinishSplit
  <2>1. /\ UNCHANGED <<text, chunker, next, start, current>> /\ phase = "split" /\ phase' = "embed"
        /\ chunks' = IF current # <<>> THEN Append(chunks, TrimSpace(current)) ELSE chunks
        /\ next > Len(text)
    BY <1>4 DEF FinishSplit
  <2>2. /\ TrimSpace(current) \in Seq(Rune)
        /\ \A k \in 1..Len(current) :
             current[k][2] # 0 => current[k] \in RunesOf(TrimSpace(current))
        /\ RunesOf(TrimSpace(current)) \subseteq RunesOf(current)
    BY TrimKeepsRunes DEF TypeOK
  <2>3. \A r \in RunesOf(current) : r[2] # 0 => r \in RunesOf(TrimSpace(current))
    BY <2>2 DEF RunesOf
  <2>4. InChunks' = IF current # <<>> THEN InChunks \cup RunesOf(TrimSpace(current)) ELSE InChunks
    <3>1. CASE current # <<>>
      BY <2>1, <2>2, <3>1, AppendChunk
    <3>2. CASE current = <<>>
      BY <2>1, <3>2 DEF InChunks, RunesOf
    <3> QED
      BY <3>1, <3>2
  <2>5. start = 0
    BY <2>1, Numbers DEF CutUnderway
  <2>6. RunesOf(current') = RunesOf(current) /\ Overlap' = Overlap
        /\ (current = <<>> => RunesOf(current) = {})
    BY <2>1, EmptySeq DEF RunesOf, Overlap
  <2>7. Behind'
    <3>1. ASSUME NEW p \in 1..(next - 1), NEW i \in 1..text[p]
          PROVE  <<p, i>> \in InChunks'
      <4>1. <<p, i>> \in InChunks \cup RunesOf(current)
        BY <2>1, <3>1 DEF Behind, NothingLost
      <4>2. <<p, i>>[2] # 0
        <5>1. p \in 1..Len(text)
          BY Numbers DEF TypeOK
        <5> QED
          BY <5>1, ParagraphLength
      <4> QED
        BY <2>3, <2>4, <2>6, <4>1, <4>2
    <3>2. NothingLost'
      BY <2>1, <3>1 DEF NothingLost
    <3> QED
      BY <2>1, <2>5, <3>2 DEF Behind
  <2>8. Ahead'
    BY <2>1, <2>2, <2>4, <2>5, <2>6 DEF Ahead
  <2>9. Fresh'
    <3>1. EveryChunkIsNew'
      <4>1. CASE current # <<>>
        <5>1. PICK r \in RunesOf(current) : r[2] # 0 /\ r \notin InChunks
          BY <2>1, <4>1 DEF Fresh
        <5> QED
          BY <2>1, <2>2, <2>3, <4>1, <5>1, NewChunk DEF Fresh
      <4>2. CASE current = <<>>
        <5>1. chunks' = chunks /\ EveryChunkIsNew
          BY <2>1, <4>2 DEF Fresh
        <5> QED
          BY <5>1, SameChunks
      <4> QED
        BY <4>1, <4>2
    <3> QED
      BY <2>1, <3>1 DEF Fresh
  <2> QED
    BY <2>7, <2>8, <2>9
<1>5. CASE EmbedText
  BY <1>5, RunesStay DEF EmbedText
<1>6. CASE EndBatch
  BY <1>6, RunesStay DEF EndBatch
<1>7. CASE UNCHANGED vars
  BY <1>7, RunesStay DEF vars
<1> QED
  BY <1>1, <1>2, <1>3, <1>4, <1>5, <1>6, <1>7 DEF Next

(* Split loses no text, and makes no chunk of what earlier chunks hold. *)
LEMMA PipelineRunes == Spec => [](Behind /\ Ahead /\ Fresh)
<1>1. Init => Behind /\ Ahead /\ Fresh
  <2> SUFFICES ASSUME Init PROVE Behind /\ Ahead /\ Fresh
    OBVIOUS
  <2>1. /\ next = 1 /\ start = 0 /\ current = <<>> /\ Len(current) = 0 /\ Len(chunks) = 0
    BY EmptySeq DEF Init
  <2>2. RunesOf(current) = {} /\ InChunks = {}
    BY <2>1 DEF RunesOf, InChunks
  <2> QED
    BY <2>1, <2>2 DEF Behind, NothingLost, Ahead, Fresh, EveryChunkIsNew
<1>2. /\ TypeOK /\ CutUnderway /\ [Next]_vars
      /\ Behind /\ Ahead /\ Fresh
      => (Behind /\ Ahead /\ Fresh)'
  BY RunesStep
<1> QED
  BY <1>1, <1>2, PipelineTypeCorrect, PTL DEF Spec

(* Nothing of the text is lost on its way into the chunks. *)
THEOREM PipelineNothingLost == Spec => []NothingLost
<1>1. Behind => NothingLost
  BY DEF Behind
<1> QED
  BY <1>1, PipelineRunes, PTL

(* Every chunk has a rune that no chunk before it has. *)
THEOREM PipelineEveryChunkIsNew == Spec => []EveryChunkIsNew
<1>1. Fresh => EveryChunkIsNew
  BY DEF Fresh
<1> QED
  BY <1>1, PipelineRunes, PTL
=============================================================================

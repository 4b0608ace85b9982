--------------------------- MODULE MCTextPipeline ---------------------------
(* Small instances of TextPipeline for TLC. *)
EXTENDS TextPipeline

CONSTANTS MaxLength, MaxParagraphs

(* Every text of up to MaxParagraphs paragraphs of up to MaxLength runes. *)
SmallTexts == UNION {[1..n -> 0..MaxLength] : n \in 0..MaxParagraphs}

(* An ordinary chunker, one without overlap, one with the largest overlap, and
   settings NewChunker replaces: no size, too much overlap, no overlap given. *)
SomeSettings == {[size |-> 4, overlap |-> 1], [size |-> 3, overlap |-> 0],
                 [size |-> 3, overlap |-> 2], [size |-> 0, overlap |-> 2],
                 [size |-> 5, overlap |-> 7], [size |-> 4, overlap |-> -1]}
=============================================================================

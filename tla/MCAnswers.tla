----------------------------- MODULE MCAnswers -----------------------------
(* Small instances of Answers for TLC. *)
EXTENDS Answers, TLC

CONSTANTS r1, r2, q1, c1, c2

RequestSet == {r1, r2}
QuestionSet == {q1}
ChunkSet == {c1, c2}
DeletableSet == {c1}

(* The requests are interchangeable; no property here is a liveness property. *)
Interchangeable == Permutations(RequestSet)
=============================================================================

------------------------------- MODULE MCChat -------------------------------
(* Small instances of Chat for TLC. *)
EXTENDS Chat, TLC

CONSTANTS r1, r2, r3

RequestSet == {r1, r2, r3}

(* The requests are interchangeable; no property here is a liveness property. *)
Permuted == Permutations(RequestSet)
=============================================================================

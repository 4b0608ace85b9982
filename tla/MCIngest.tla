------------------------------ MODULE MCIngest ------------------------------
(* Small instances of Ingest for TLC. *)
EXTENDS Ingest, TLC

CONSTANTS u1, u2, u3, x1, a, b

TwoUploads == {u1, u2}
ThreeUploads == {u1, u2, u3}
OneDelete == {x1}
NoDelete == {}
OneBody == {a}
TwoBodies == {a, b}

(* The same content sent by everyone; and one other content besides. *)
SameBody == [u \in Uploads |-> a]
OtherBody == [u \in Uploads |-> IF u = u3 THEN b ELSE a]

(* Uploads of one content are interchangeable. *)
Permuted == Permutations(ThreeUploads)

(* Two chunks, one, and none: an empty document.  u1 and u2 send one content,
   under different extensions in the second case. *)
Twice == [u \in Uploads |-> 2]
Split == [u \in Uploads |-> IF u = u1 THEN 2 ELSE IF u = u2 THEN 1 ELSE 0]
SplitOne == [u \in Uploads |-> 1]

Faultless == {"ok"}
=============================================================================

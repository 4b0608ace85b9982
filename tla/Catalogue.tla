----------------------------- MODULE Catalogue -----------------------------
(***************************************************************************)
(* What uploads and deletes promise of the documents, with no files, no    *)
(* links, no replies and no order of calls: a document is listed once, by  *)
(* its own upload, and never together with another of the same body; its   *)
(* chunks are those of one upload, whole, or none; vectors are written     *)
(* whole too, over those of the same places; chunks are cleared by a       *)
(* duplicate upload only, and not while an answer quotes one; "completed"  *)
(* is said by an upload that has written both.                             *)
(***************************************************************************)
EXTENDS Integers

CONSTANTS
  Uploads,  \* they name the documents too
  Body,     \* the content of each
  Size      \* the number of chunks it is split into

VARIABLES
  entry,     \* the status and count of each document
  contents,  \* the chunks of each document
  vectors,   \* the vectors of each document
  quoted,    \* the chunks that answers quote
  phase,     \* how far each upload is
  subject    \* the document it works on

catVars == <<entry, contents, vectors, quoted, phase, subject>>

Absent == [status |-> "none", count |-> 0]
Listed(d) == entry[d] # Absent
Chunks(u) == Size[u]
Whole(u) == {[doc |-> subject[u], idx |-> i, by |-> u] : i \in 0..(Chunks(u) - 1)}

CatInit ==
  /\ entry = [d \in Uploads |-> Absent]
  /\ contents = [d \in Uploads |-> {}] /\ vectors = [d \in Uploads |-> {}]
  /\ quoted = {}
  /\ phase = [u \in Uploads |-> "new"]
  /\ subject = [u \in Uploads |-> u]

Becomes(u, next) == phase' = [phase EXCEPT ![u] = next]

List(u) ==
  /\ phase[u] = "new"
  /\ \A d \in Uploads : Listed(d) => Body[d] # Body[u]
  /\ entry' = [entry EXCEPT ![u] = [status |-> "pending", count |-> 0]]
  /\ Becomes(u, "ready") \/ Becomes(u, "over")
  /\ UNCHANGED <<contents, vectors, quoted, subject>>

Join(u, d) ==
  /\ phase[u] = "new"
  /\ d # u /\ Listed(d) /\ Body[d] = Body[u]
  /\ subject' = [subject EXCEPT ![u] = d]
  /\ Becomes(u, "ready")
  /\ UNCHANGED <<entry, contents, vectors, quoted>>

Clear(u) ==
  /\ phase[u] = "ready" /\ subject[u] # u
  /\ contents[subject[u]] \cap quoted = {}
  /\ contents' = [contents EXCEPT ![subject[u]] = {}]
  /\ UNCHANGED <<entry, vectors, quoted, phase, subject>>

Fill(u) ==
  /\ phase[u] = "ready"
  /\ Whole(u) # {} => Listed(subject[u]) /\ contents[subject[u]] = {}
  /\ contents' = [contents EXCEPT ![subject[u]] = @ \cup Whole(u)]
  /\ Becomes(u, "filled") \/ Becomes(u, "failing")
  /\ UNCHANGED <<entry, vectors, quoted, subject>>

Index(u) ==
  /\ phase[u] = "filled"
  /\ vectors' = [vectors EXCEPT ![subject[u]] =
                   {v \in @ : v.idx >= Chunks(u)} \cup Whole(u)]
  /\ Becomes(u, "indexed") \/ Becomes(u, "failing")
  /\ UNCHANGED <<entry, contents, quoted, subject>>

Says(u, status, count) ==
  entry' = [entry EXCEPT ![subject[u]] =
              IF Listed(subject[u]) THEN [status |-> status, count |-> count] ELSE @]
Announce(u) ==
  /\ \/ phase[u] = "ready" /\ Says(u, "processing", 0) /\ UNCHANGED phase
     \/ phase[u] = "indexed" /\ Says(u, "completed", Chunks(u)) /\ Becomes(u, "over")
     \/ phase[u] = "failing" /\ Says(u, "failed", 0) /\ Becomes(u, "over")
  /\ UNCHANGED <<contents, vectors, quoted, subject>>

GiveUp(u) ==
  /\ \/ phase[u] \in {"ready", "filled"} /\ Becomes(u, "failing")
     \/ phase[u] # "over" /\ Becomes(u, "over")
  /\ UNCHANGED <<entry, contents, vectors, quoted, subject>>

(* All uploads that have begun are over, perhaps before they were listed. *)
Restart ==
  /\ \E begun \in SUBSET Uploads :
       /\ {u \in Uploads : phase[u] # "new"} \subseteq begun
       /\ phase' = [u \in Uploads |-> IF u \in begun THEN "over" ELSE phase[u]]
  /\ UNCHANGED <<entry, contents, vectors, quoted, subject>>

Unindex(d) ==
  /\ phase[d] # "new"
  /\ vectors' = [vectors EXCEPT ![d] = {}]
  /\ UNCHANGED <<entry, contents, quoted, phase, subject>>

Unlist(d) ==
  /\ Listed(d)
  /\ entry' = [entry EXCEPT ![d] = Absent]
  /\ contents' = [contents EXCEPT ![d] = {}]
  /\ quoted' = quoted \ contents[d]
  /\ UNCHANGED <<vectors, phase, subject>>

Quote(d) ==
  /\ \E k \in contents[d] : quoted' = quoted \cup {k}
  /\ UNCHANGED <<entry, contents, vectors, phase, subject>>

CatNext ==
  \/ \E u \in Uploads :
       List(u) \/ Clear(u) \/ Fill(u) \/ Index(u) \/ Announce(u) \/ GiveUp(u)
  \/ \E u, d \in Uploads : Join(u, d)
  \/ \E d \in Uploads : Unindex(d) \/ Unlist(d) \/ Quote(d)
  \/ Restart

CatSpec == CatInit /\ [][CatNext]_catVars
=============================================================================

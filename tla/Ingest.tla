------------------------------- MODULE Ingest -------------------------------
(***************************************************************************)
(* Document ingestion and deletion: ProcessDocument and DeleteDocument of  *)
(* internal/service/document/document.go over the four stores they write   *)
(* one after the other: the upload directory, the MySQL tables documents   *)
(* and document_chunks, and the Qdrant collection.  Nothing spans two      *)
(* stores, so every call to one of them is a step, and the steps of all    *)
(* requests interleave.                                                    *)
(*                                                                         *)
(* A document id is identified with the upload whose INSERT created the    *)
(* row (AUTO_INCREMENT never hands out an id twice and an upload inserts   *)
(* at most one row), so documents[u].file_path is the file of u.  A chunk  *)
(* row or vector point is named by its document, its index and the upload  *)
(* that wrote it: rows inserted twice are different rows.                  *)
(***************************************************************************)
EXTENDS Integers, FiniteSets

CONSTANTS
  Uploads,        \* calls of ProcessDocument
  Deletes,        \* calls of DeleteDocument
  Bodies,         \* the (knowledge base, content hash) pairs being uploaded
  Body,           \* what each upload carries
  ChunksIn,       \* how many chunks each upload's file is split into; the parser goes by
                  \* its extension, so one body may be split in several ways
  Replies,        \* how a call to a store may end (see Reply)
  RemoveCanFail,  \* whether os.Remove may leave the file behind
  Crashes         \* whether the server process may die

(* "ok"; "failed", the call had no effect and returned an error; "lost", it
   took effect and returned an error all the same.  A cancelled request
   context or an open circuit breaker is a run of "failed" replies. *)
Reply == {"ok", "failed", "lost"}

ASSUME IngestAssumption ==
  /\ Body \in [Uploads -> Bodies]
  /\ ChunksIn \in [Uploads -> Nat]
  /\ Replies \subseteq Reply /\ "ok" \in Replies
  /\ RemoveCanFail \in BOOLEAN
  /\ Crashes \in BOOLEAN

VARIABLES
  files,    \* the uploads whose file is on disk
  stuck,    \* history variable: those of them that an os.Remove has left behind
  docs,     \* table documents: NoRow or the row's status and chunk_count
  chunks,   \* table document_chunks
  linked,   \* chunk rows whose qdrant_point_id is set
  cited,    \* chunk rows referenced by qa_sources
  points,   \* the Qdrant collection
  pc,       \* per upload: the call it is about to make, or its answer
  target,   \* per upload: docID
  dpc,      \* per delete: the call it is about to make, or its answer
  dtarget   \* per delete: docID

stores == <<files, stuck, docs, chunks, linked, cited, points>>
vars == <<files, stuck, docs, chunks, linked, cited, points, pc, target, dpc, dtarget>>

Statuses == {"pending", "processing", "completed", "failed"}
NoRow == [status |-> "none", count |-> 0]
Items == [doc : Uploads, idx : Nat, by : Uploads]   \* chunk rows and points

UploadSteps == {"insert", "select", "read", "wipePoints", "wipeChunks", "mark",
                "prepare", "store", "index", "link", "finish", "fail"}
UploadAnswers == {"completed", "reused", "error"}
DeleteSteps == {"unindex", "unlink", "erase"}
DeleteAnswers == {"deleted", "missing", "error"}
UploadStates == UploadSteps \cup UploadAnswers \cup {"idle", "crashed"}
DeleteStates == DeleteSteps \cup DeleteAnswers \cup {"idle", "crashed"}
Rows == [status : Statuses \cup {"none"}, count : Nat]

MayFail == Replies # {"ok"}
N(u) == ChunksIn[u]
HasRow(d) == docs[d] # NoRow
Of(d, items) == {k \in items : k.doc = d}

(* The chunks of upload u, as rows or points of the document it works on. *)
Batch(u) == {[doc |-> target[u], idx |-> i, by |-> u] : i \in 0..(N(u) - 1)}

Go(u, step) == pc' = [pc EXCEPT ![u] = step]
DGo(x, step) == dpc' = [dpc EXCEPT ![x] = step]
-----------------------------------------------------------------------------
(* os.Remove, its error ignored by every caller. *)
Remove(f) ==
  \/ files' = files \ {f} /\ stuck' = stuck \ {f}
  \/ RemoveCanFail /\ stuck' = stuck \cup ({f} \cap files) /\ UNCHANGED files

(* UpdateDocumentStatus: an UPDATE, so it does nothing to a row that is gone. *)
UpsertStatus(d, status, count, r) ==
  docs' = IF r # "failed"
          THEN [docs EXCEPT ![d] = [status |-> status, count |-> count]] ELSE docs
UpdateDocumentStatus(d, status, count, r) ==
  docs' = IF r # "failed" /\ HasRow(d)
          THEN [docs EXCEPT ![d] = [status |-> status, count |-> count]] ELSE docs

(* A set of chunk rows leaves document_chunks, and what qa_sources and the
   qdrant_point_id column said about them goes with it. *)
DropChunks(gone) == /\ chunks' = chunks \ gone
                    /\ linked' = linked \ gone
                    /\ cited' = cited \ gone
-----------------------------------------------------------------------------
Init == /\ files = {} /\ stuck = {}
        /\ docs = [u \in Uploads |-> NoRow]
        /\ chunks = {} /\ linked = {} /\ cited = {} /\ points = {}
        /\ pc = [u \in Uploads |-> "idle"]
        /\ target = [u \in Uploads |-> u]
        /\ dpc = [x \in Deletes |-> "idle"]
        /\ dtarget \in [Deletes -> Uploads]

(* getFileType and saveFile.  An unsupported type, or a write that fails and
   removes the partial file, answers at once. *)
SaveFile(u) ==
  /\ pc[u] = "idle"
  /\ \/ files' = files \cup {u} /\ Go(u, "insert") /\ UNCHANGED stuck
     \/ Go(u, "error") /\ UNCHANGED <<files, stuck>>
     \/ /\ RemoveCanFail
        /\ files' = files \cup {u} /\ stuck' = stuck \cup {u}
        /\ Go(u, "error")
  /\ UNCHANGED <<docs, chunks, linked, cited, points, target, dpc, dtarget>>

(* CreateDocument: the INSERT.  The unique index on (knowledge base, hash)
   sends a duplicate on to the SELECT; any other error discards the file. *)
InsertDocument(u) ==
  /\ pc[u] = "insert"
  /\ \E r \in Replies :
       \/ /\ r = "ok"
          /\ \E d \in Uploads : HasRow(d) /\ Body[d] = Body[u]
          /\ Go(u, "select")
          /\ UNCHANGED <<docs, files, stuck>>
       \/ /\ r # "failed"
          /\ \A d \in Uploads : HasRow(d) => Body[d] # Body[u]
          /\ docs' = [docs EXCEPT ![u] = [status |-> "pending", count |-> 0]]
          /\ IF r = "ok" THEN Go(u, "mark") /\ UNCHANGED <<files, stuck>>
                         ELSE Go(u, "error") /\ Remove(u)
       \/ /\ r = "failed"
          /\ Remove(u)
          /\ Go(u, "error")
          /\ UNCHANGED docs
  /\ UNCHANGED <<chunks, linked, cited, points, target, dpc, dtarget>>

(* CreateDocument: the SELECT by the same key.  The row may be gone again, in
   which case the duplicate-key error is returned and the file discarded. *)
SelectAnyDocument(u) ==
  /\ pc[u] = "select"
  /\ \/ \E d \in Uploads :
          /\ HasRow(d)
          /\ target' = [target EXCEPT ![u] = d]
          /\ Go(u, "read")
          /\ UNCHANGED <<files, stuck>>
     \/ Remove(u) /\ Go(u, "error") /\ UNCHANGED target
  /\ UNCHANGED <<docs, chunks, linked, cited, points, dpc, dtarget>>
SelectUnscanned(u) ==
  /\ pc[u] = "select"
  /\ target' = [target EXCEPT ![u] =
       IF \E d \in Uploads : HasRow(d) /\ Body[d] = Body[u]
       THEN CHOOSE d \in Uploads : HasRow(d) /\ Body[d] = Body[u] ELSE 0]
  /\ Go(u, "read")
  /\ UNCHANGED <<stores, dpc, dtarget>>
SelectDocument(u) ==
  /\ pc[u] = "select"
  /\ \/ \E d \in Uploads :
          /\ HasRow(d) /\ Body[d] = Body[u]
          /\ target' = [target EXCEPT ![u] = d]
          /\ Go(u, "read")
          /\ UNCHANGED <<files, stuck>>
     \/ /\ \/ \A d \in Uploads : HasRow(d) => Body[d] # Body[u]
           \/ MayFail
        /\ Remove(u)
        /\ Go(u, "error")
        /\ UNCHANGED target
  /\ UNCHANGED <<docs, chunks, linked, cited, points, dpc, dtarget>>

(* The duplicate branch of ProcessDocument: GetDocumentByID, then os.Remove of
   the file just saved (no other request knows its path), then the decision
   on the status that was read. *)
ReadExistingKeepsFile(u) ==
  /\ pc[u] = "read"
  /\ Go(u, "reused")
  /\ UNCHANGED <<stores, target, dpc, dtarget>>
ReadExisting(u) ==
  /\ pc[u] = "read"
  /\ Remove(u)
  /\ \/ docs[target[u]].status = "failed" /\ Go(u, "wipePoints")
     \/ docs[target[u]].status = "processing" /\ Go(u, "mark")
     \/ docs[target[u]].status \in {"completed", "pending"} /\ Go(u, "reused")
     \/ (~HasRow(target[u]) \/ MayFail) /\ Go(u, "error")
  /\ UNCHANGED <<docs, chunks, linked, cited, points, target, dpc, dtarget>>

(* Clearing out a failed document: both errors are ignored, and the second
   call is one statement that the foreign key of qa_sources makes fail when
   any of the chunks is cited. *)
WipePoints(u) ==
  /\ pc[u] = "wipePoints"
  /\ \E r \in Replies : points' = IF r = "failed" THEN points
                                  ELSE points \ Of(target[u], points)
  /\ Go(u, "wipeChunks")
  /\ UNCHANGED <<files, stuck, docs, chunks, linked, cited, target, dpc, dtarget>>

WipeCitedChunks(u) ==
  /\ pc[u] = "wipeChunks"
  /\ \E r \in Replies : DropChunks(IF r = "failed" THEN {} ELSE Of(target[u], chunks))
  /\ Go(u, "mark")
  /\ UNCHANGED <<files, stuck, docs, points, target, dpc, dtarget>>
WipeChunks(u) ==
  /\ pc[u] = "wipeChunks"
  /\ \E r \in Replies :
       DropChunks(IF r = "failed" \/ Of(target[u], cited) # {} THEN {}
                  ELSE Of(target[u], chunks))
  /\ Go(u, "mark")
  /\ UNCHANGED <<files, stuck, docs, points, target, dpc, dtarget>>

MarkProcessing(u) ==
  /\ pc[u] = "mark"
  /\ \E r \in Replies : UpdateDocumentStatus(target[u], "processing", 0, r)
  /\ Go(u, "prepare")
  /\ UNCHANGED <<files, stuck, chunks, linked, cited, points, target, dpc, dtarget>>

(* Parse the saved file, split the text and embed the chunks: three calls
   that read the file, the text and the embedding service and change no
   store.  A file that is not there cannot be parsed. *)
PrepareSplit(u) ==
  /\ pc[u] = "prepare"
  /\ \/ u \in files /\ Go(u, "store")
     \/ (u \notin files \/ MayFail) /\ Go(u, "error")
  /\ UNCHANGED <<stores, target, dpc, dtarget>>
Prepare(u) ==
  /\ pc[u] = "prepare"
  /\ \/ u \in files /\ Go(u, "store")
     \/ (u \notin files \/ MayFail) /\ Go(u, "fail")
  /\ UNCHANGED <<stores, target, dpc, dtarget>>

(* Some row of the batch meets the unique index on (document, index). *)
Clashes(u) == \E k \in chunks : k.doc = target[u] /\ k.idx < N(u)

(* BatchCreateChunks: one transaction, undone as a whole when any row clashes
   with one that is there or has no document; an empty batch does not reach the
   database. *)
StoreChunksOneByOne(u) ==
  /\ pc[u] = "store"
  /\ \E S \in SUBSET Batch(u) :
       /\ HasRow(target[u]) \/ S = {}
       /\ chunks' = chunks \cup S
       /\ Go(u, IF S = Batch(u) THEN "index" ELSE "fail")
  /\ UNCHANGED <<files, stuck, docs, linked, cited, points, target, dpc, dtarget>>
StoreChunks(u) ==
  /\ pc[u] = "store"
  /\ \/ Batch(u) = {} /\ Go(u, "index") /\ UNCHANGED chunks
     \/ /\ Batch(u) # {}
        /\ HasRow(target[u]) /\ ~Clashes(u)
        /\ \E r \in Replies :
             /\ chunks' = IF r = "failed" THEN chunks ELSE chunks \cup Batch(u)
             /\ Go(u, IF r = "ok" THEN "index" ELSE "fail")
     \/ /\ Batch(u) # {}
        /\ ~HasRow(target[u]) \/ Clashes(u)
        /\ Go(u, "fail")
        /\ UNCHANGED chunks
  /\ UNCHANGED <<files, stuck, docs, linked, cited, points, target, dpc, dtarget>>

(* The point id of a chunk.  Documents and indexes can stand for it in this
   model because it tells them apart up to 100000 chunks per document, which
   IngestProofs proves. *)
PointId(docID, index) == docID * 100000 + index

(* UpsertPoints: a point written before under the same id is overwritten. *)
Upsert(batch) ==
  {p \in points : \A q \in batch : p.doc # q.doc \/ p.idx # q.idx} \cup batch
IndexChunksUnchecked(u) ==
  /\ pc[u] = "index"
  /\ \E r \in Replies :
       points' = IF r = "failed" THEN points ELSE Upsert(Batch(u))
  /\ Go(u, "link")
  /\ UNCHANGED <<files, stuck, docs, chunks, linked, cited, target, dpc, dtarget>>
IndexChunks(u) ==
  /\ pc[u] = "index"
  /\ \E r \in IF Batch(u) = {} THEN {"ok"} ELSE Replies :
       /\ points' = IF r = "failed" THEN points ELSE Upsert(Batch(u))
       /\ Go(u, IF r = "ok" THEN "link" ELSE "fail")
  /\ UNCHANGED <<files, stuck, docs, chunks, linked, cited, target, dpc, dtarget>>

(* The loop over UpdateChunkQdrantID: a row that is gone is not touched, and
   one that could not be updated is logged and passed over. *)
LinkChunks(u) ==
  /\ pc[u] = "link"
  /\ \E S \in IF Replies = {"ok"} THEN {Batch(u)} ELSE SUBSET Batch(u) :
       linked' = linked \cup (S \cap chunks)
  /\ Go(u, "finish")
  /\ UNCHANGED <<files, stuck, docs, chunks, cited, points, target, dpc, dtarget>>

(* The last status update; the request answers "completed" whatever becomes
   of it. *)
Finish(u) ==
  /\ pc[u] = "finish"
  /\ \E r \in Replies : UpdateDocumentStatus(target[u], "completed", N(u), r)
  /\ Go(u, "completed")
  /\ UNCHANGED <<files, stuck, chunks, linked, cited, points, target, dpc, dtarget>>

(* The status update of every error branch. *)
Fail(u) ==
  /\ pc[u] = "fail"
  /\ \E r \in Replies : UpdateDocumentStatus(target[u], "failed", 0, r)
  /\ Go(u, "error")
  /\ UNCHANGED <<files, stuck, chunks, linked, cited, points, target, dpc, dtarget>>
-----------------------------------------------------------------------------
(* DeleteDocument: GetDocumentByID. *)
StartDelete(x) ==
  /\ dpc[x] = "idle"
  /\ \/ HasRow(dtarget[x]) /\ DGo(x, "unindex")
     \/ ~HasRow(dtarget[x]) /\ DGo(x, "missing")
     \/ MayFail /\ DGo(x, "error")
  /\ UNCHANGED <<stores, pc, target, dtarget>>

DeletePoints(x) ==
  /\ dpc[x] = "unindex"
  /\ \E r \in Replies :
       /\ points' = IF r = "failed" THEN points ELSE points \ Of(dtarget[x], points)
       /\ DGo(x, IF r = "ok" THEN "unlink" ELSE "error")
  /\ UNCHANGED <<files, stuck, docs, chunks, linked, cited, pc, target, dtarget>>

RemoveFile(x) ==
  /\ dpc[x] = "unlink"
  /\ Remove(dtarget[x])
  /\ DGo(x, "erase")
  /\ UNCHANGED <<docs, chunks, linked, cited, points, pc, target, dtarget>>

(* DocumentRepo.DeleteDocument: qa_sources, document_chunks and the row, in
   one transaction. *)
Erase(x) ==
  /\ dpc[x] = "erase"
  /\ \E r \in Replies :
       /\ IF r = "failed" THEN UNCHANGED <<docs, chunks, linked, cited>>
          ELSE /\ docs' = [docs EXCEPT ![dtarget[x]] = NoRow]
               /\ DropChunks(Of(dtarget[x], chunks))
       /\ DGo(x, IF r = "ok" THEN "deleted" ELSE "error")
  /\ UNCHANGED <<files, stuck, points, pc, target, dtarget>>
-----------------------------------------------------------------------------
(* A QA record cites a chunk (CreateRecordWithSources): the foreign key makes
   sure the chunk exists when it does. *)
Cite == /\ \E k \in chunks \ cited : cited' = cited \cup {k}
        /\ UNCHANGED <<files, stuck, docs, chunks, linked, points, pc, target, dpc, dtarget>>

(* The process dies and is started again: every request under way is gone,
   the stores are as it left them, and nothing resumes its work. *)
Crash ==
  /\ Crashes
  /\ pc' = [u \in Uploads |-> IF pc[u] \in UploadSteps THEN "crashed" ELSE pc[u]]
  /\ dpc' = [x \in Deletes |-> IF dpc[x] \in DeleteSteps THEN "crashed" ELSE dpc[x]]
  /\ UNCHANGED <<stores, target, dtarget>>

UploadStep(u) ==
  \/ InsertDocument(u) \/ SelectDocument(u) \/ ReadExisting(u)
  \/ WipePoints(u) \/ WipeChunks(u) \/ MarkProcessing(u) \/ Prepare(u)
  \/ StoreChunks(u) \/ IndexChunks(u) \/ LinkChunks(u) \/ Finish(u) \/ Fail(u)

DeleteStep(x) == DeletePoints(x) \/ RemoveFile(x) \/ Erase(x)

Next == \/ \E u \in Uploads : SaveFile(u) \/ UploadStep(u)
        \/ \E x \in Deletes : StartDelete(x) \/ DeleteStep(x)
        \/ Cite
        \/ Crash

Spec == Init /\ [][Next]_vars

(* A request that has begun keeps running; nobody has to send another one. *)
Fairness == /\ \A u \in Uploads : WF_vars(UploadStep(u))
            /\ \A x \in Deletes : WF_vars(DeleteStep(x))

FairSpec == Spec /\ Fairness
-----------------------------------------------------------------------------
(* Type invariant. *)
TypeOK ==
  /\ files \subseteq Uploads /\ stuck \subseteq files
  /\ docs \in [Uploads -> Rows]
  /\ chunks \subseteq Items /\ points \subseteq Items
  /\ linked \subseteq Items /\ cited \subseteq Items
  /\ pc \in [Uploads -> UploadStates]
  /\ target \in [Uploads -> Uploads]
  /\ dpc \in [Deletes -> DeleteStates]
  /\ dtarget \in [Deletes -> Uploads]

(* The chunk rows of a document are none, or the whole batch of one upload,
   however many uploads of the same body, deletes, failures and crashes there
   have been; and none outlives the row of its document. *)
ChunksAllOrNothing ==
  \A d \in Uploads :
    \/ Of(d, chunks) = {}
    \/ /\ HasRow(d)
       /\ \E u \in Uploads :
            Of(d, chunks) = {[doc |-> d, idx |-> i, by |-> u] : i \in 0..(N(u) - 1)}

(* What a document is searched by was computed from its own content: no chunk
   row or vector point of it comes from an upload of another body, or is one
   that upload does not have, through all the reuse of ids that deduplication
   does. *)
IndexMatchesContent ==
  \A k \in chunks \cup points : Body[k.by] = Body[k.doc] /\ k.idx < N(k.by)

(* Every file on disk belongs to a document row or to an upload that has not
   settled yet whose it is; only a crash, or an os.Remove that failed on this
   very file, leaks one. *)
NoFileLeak ==
  \A f \in files :
    HasRow(f) \/ pc[f] \in {"insert", "select", "read", "crashed"} \/ f \in stuck

(* Once a delete has answered, the document stays deleted: no late step of an
   upload still working on it brings back its row, its chunk rows or its file,
   or leaves it cited; only an os.Remove that failed leaves the file. *)
DeleteSticks ==
  \A x \in Deletes : dpc[x] = "deleted" =>
    /\ ~HasRow(dtarget[x])
    /\ Of(dtarget[x], chunks \cup linked \cup cited) = {}
    /\ dtarget[x] \in files => dtarget[x] \in stuck

(* Another request works on document d: a duplicate upload that was let past
   the status check, or a delete. *)
Contested(d) ==
  \/ \E u \in Uploads \ {d} :
       target[u] = d /\ pc[u] \notin {"read", "reused"}
  \/ \E x \in Deletes : dtarget[x] = d /\ dpc[x] \notin {"idle", "missing"}

(* A completed document is searchable in full: unless another request has been
   let loose on it, it has all its chunk rows, all its points, its file and
   the right chunk_count, whatever failed, was lost or crashed on the way. *)
CompletedIsIndexed ==
  \A d \in Uploads : (docs[d].status = "completed" /\ ~Contested(d)) =>
    LET all == {[doc |-> d, idx |-> i, by |-> d] : i \in 0..(N(d) - 1)}
    IN  /\ Of(d, chunks) = all
        /\ Of(d, points) = all
        /\ d \in files
        /\ docs[d].count = N(d)

(* With no failure and no crash, a document never stays pending or processing:
   some request working on it settles its status or deletes it. *)
StatusSettles ==
  \A d \in Uploads : (docs[d].status \in {"pending", "processing"})
                       ~> (docs[d].status \notin {"pending", "processing"})

(* A reprocessed document has a file to be parsed when its turn comes. *)
RetryFindsItsFile ==
  \A u \in Uploads : (pc[u] = "prepare" /\ target[u] # u) => u \in files

(* A duplicate upload reuses a completed document: it does not take it back to
   processing or failed. *)
CompletedIsReused ==
  [][\A d \in Uploads : docs[d].status = "completed"
       => docs'[d].status \in {"completed", "none"}]_vars

(* A deleted document has left the vector store. *)
DeleteLeavesNoVectors ==
  \A x \in Deletes : dpc[x] = "deleted" => Of(dtarget[x], points) = {}

(* What an upload may still do to the catalogue, at each of its calls. *)
Phase(step) ==
  CASE step \in {"idle", "insert", "select"} -> "new"
    [] step \in {"read", "wipePoints", "wipeChunks", "mark", "prepare", "store"} -> "ready"
    [] step = "index" -> "filled"
    [] step \in {"link", "finish"} -> "indexed"
    [] step = "fail" -> "failing"
    [] OTHER -> "over"

(* Store by store and call by call, with failures, lost replies and crashes in
   between, uploads and deletes implement the catalogue of Catalogue.tla. *)
Cat == INSTANCE Catalogue WITH
         Size <- ChunksIn, entry <- docs, quoted <- cited, subject <- target,
         contents <- [d \in Uploads |-> Of(d, chunks)],
         vectors <- [d \in Uploads |-> Of(d, points)],
         phase <- [u \in Uploads |-> Phase(pc[u])]
ImplementsCatalogue == Cat!CatSpec
=============================================================================

---------------------------- MODULE IngestProofs ----------------------------
(***************************************************************************)
(* Proofs about ingestion, for any uploads, deletes, bodies, chunk counts  *)
(* and failures.                                                           *)
(***************************************************************************)
EXTENDS Ingest, TLAPS

(* A number below 100000 is the remainder of what PointId makes of it. *)
LEMMA QuotientAndRest ==
  ASSUME NEW d \in Int, NEW e \in Int, NEW i \in Int, NEW j \in Int,
         0 <= i, i < 100000, 0 <= j, j < 100000,
         d * 100000 + i = e * 100000 + j
  PROVE  d = e /\ i = j
BY SMT

(* Point ids tell chunks apart as long as no document has more than 100000 of
   them; the model of the collection, keyed by document and index, rests on
   this. *)
THEOREM PointIdsDistinct ==
  ASSUME NEW d \in Nat, NEW e \in Nat, NEW i \in Nat, NEW j \in Nat,
         i < 100000, j < 100000, PointId(d, i) = PointId(e, j)
  PROVE  d = e /\ i = j
<1>1. /\ d \in Int /\ e \in Int /\ i \in Int /\ j \in Int
      /\ 0 <= i /\ 0 <= j
      /\ d * 100000 + i = e * 100000 + j
  BY SMT DEF PointId
<1> QED
  BY ONLY <1>1, i < 100000, j < 100000, QuotientAndRest, SMT

(* The names of the steps, answers and statuses. *)
LEMMA Names ==
  /\ {"insert", "select", "read", "wipePoints", "wipeChunks", "mark", "prepare",
      "store", "index", "link", "finish", "fail", "completed", "reused", "error",
      "crashed"} \subseteq UploadStates
  /\ {"unindex", "unlink", "erase", "deleted", "missing", "error", "crashed"}
      \subseteq DeleteStates
  /\ {"pending", "processing", "completed", "failed"} \subseteq Statuses
  /\ NoRow \in Rows
BY DEF UploadStates, UploadSteps, UploadAnswers, DeleteStates, DeleteSteps,
       DeleteAnswers, Statuses, NoRow, Rows

(* A batch consists of items of the document its upload works on. *)
LEMMA BatchType ==
  ASSUME TypeOK, NEW u \in Uploads
  PROVE  /\ N(u) \in Nat
         /\ Batch(u) \subseteq Items
         /\ \A k \in Batch(u) : k.doc = target[u] /\ k.by = u /\ k.idx \in 0..(N(u) - 1)
<1>1. N(u) \in Nat
  BY IngestAssumption DEF N
<1>2. target[u] \in Uploads
  BY DEF TypeOK
<1> QED
  BY <1>1, <1>2 DEF Batch, Items

(* Remove takes at most the named file away, or leaves it behind for good. *)
LEMMA RemoveType ==
  ASSUME TypeOK, NEW f \in Uploads, Remove(f)
  PROVE  /\ files' \subseteq files /\ files \subseteq files' \cup {f}
         /\ stuck \cap files' \subseteq stuck' /\ stuck' \subseteq files'
         /\ f \in files' => f \in stuck'
BY DEF Remove, TypeOK

(* A status update leaves a row for row, none for none. *)
LEMMA StatusType ==
  ASSUME TypeOK, NEW d \in Uploads, NEW s \in Statuses, NEW n \in Nat, NEW r,
         UpdateDocumentStatus(d, s, n, r)
  PROVE  /\ docs' \in [Uploads -> Rows]
         /\ \A e \in Uploads : e # d => docs'[e] = docs[e]
         /\ docs'[d] = docs[d] \/ (HasRow(d) /\ docs'[d] = [status |-> s, count |-> n])
         /\ \A e \in Uploads : HasRow(e) <=> HasRow(e)'
BY DEF UpdateDocumentStatus, TypeOK, HasRow, NoRow, Rows, Statuses

(* Go moves one upload. *)
LEMMA GoType ==
  ASSUME TypeOK, NEW u \in Uploads, NEW s, Go(u, s)
  PROVE  /\ pc'[u] = s /\ \A v \in Uploads : v # u => pc'[v] = pc[v]
         /\ s \in UploadStates => pc' \in [Uploads -> UploadStates]
BY DEF Go, TypeOK

(* DGo moves one delete. *)
LEMMA DGoType ==
  ASSUME TypeOK, NEW x \in Deletes, NEW s, DGo(x, s)
  PROVE  /\ dpc'[x] = s /\ \A y \in Deletes : y # x => dpc'[y] = dpc[y]
         /\ s \in DeleteStates => dpc' \in [Deletes -> DeleteStates]
BY DEF DGo, TypeOK
-----------------------------------------------------------------------------
(* The initial state has the right types. *)
LEMMA InitType == Init => TypeOK
BY Names DEF Init, TypeOK, UploadStates, DeleteStates

(* Every step keeps the types. *)
LEMMA NextType == TypeOK /\ [Next]_vars => TypeOK'
<1> SUFFICES ASSUME TypeOK, [Next]_vars PROVE TypeOK'
  OBVIOUS
<1>1. ASSUME NEW u \in Uploads, SaveFile(u) PROVE TypeOK'
  BY <1>1, GoType, Names DEF SaveFile, TypeOK
<1>2. ASSUME NEW u \in Uploads, InsertDocument(u) PROVE TypeOK'
  <2>1. files' \subseteq Uploads /\ stuck' \subseteq files'
    BY <1>2, RemoveType DEF InsertDocument, TypeOK
  <2>2. docs' \in [Uploads -> Rows]
    <3>1. [status |-> "pending", count |-> 0] \in Rows
      BY Names DEF Rows
    <3> QED
      BY <1>2, <3>1 DEF InsertDocument, TypeOK
  <2>3. pc' \in [Uploads -> UploadStates]
    BY <1>2, GoType, Names DEF InsertDocument
  <2> QED
    BY <1>2, <2>1, <2>2, <2>3 DEF InsertDocument, TypeOK
<1>3. ASSUME NEW u \in Uploads, SelectDocument(u) PROVE TypeOK'
  <2>1. files' \subseteq Uploads /\ stuck' \subseteq files'
    BY <1>3, RemoveType DEF SelectDocument, TypeOK
  <2>2. target' \in [Uploads -> Uploads]
    BY <1>3 DEF SelectDocument, TypeOK
  <2>3. pc' \in [Uploads -> UploadStates]
    BY <1>3, GoType, Names DEF SelectDocument
  <2> QED
    BY <1>3, <2>1, <2>2, <2>3 DEF SelectDocument, TypeOK
<1>4. ASSUME NEW u \in Uploads, ReadExisting(u) PROVE TypeOK'
  <2>1. files' \subseteq Uploads /\ stuck' \subseteq files'
    BY <1>4, RemoveType DEF ReadExisting, TypeOK
  <2>2. pc' \in [Uploads -> UploadStates]
    BY <1>4, GoType, Names DEF ReadExisting
  <2> QED
    BY <1>4, <2>1, <2>2 DEF ReadExisting, TypeOK
<1>5. ASSUME NEW u \in Uploads, WipePoints(u) PROVE TypeOK'
  BY <1>5, GoType, Names DEF WipePoints, TypeOK
<1>6. ASSUME NEW u \in Uploads, WipeChunks(u) PROVE TypeOK'
  BY <1>6, GoType, Names DEF WipeChunks, DropChunks, TypeOK
<1>7. ASSUME NEW u \in Uploads,
             \/ MarkProcessing(u)
             \/ Finish(u)
             \/ Fail(u)
      PROVE  TypeOK'
  <2>1. PICK s \in Statuses, n \in Nat, r \in Replies : UpdateDocumentStatus(target[u], s, n, r)
    BY <1>7, BatchType, Names DEF MarkProcessing, Finish, Fail
  <2>2. docs' \in [Uploads -> Rows]
    BY <2>1, StatusType DEF TypeOK
  <2>3. pc' \in [Uploads -> UploadStates]
    BY <1>7, GoType, Names DEF MarkProcessing, Finish, Fail
  <2> QED
    BY <1>7, <2>2, <2>3 DEF MarkProcessing, Finish, Fail, TypeOK
<1>8. ASSUME NEW u \in Uploads, Prepare(u) PROVE TypeOK'
  BY <1>8, GoType, Names DEF Prepare, TypeOK, stores
<1>9. ASSUME NEW u \in Uploads, StoreChunks(u) PROVE TypeOK'
  <2>1. chunks' \subseteq Items
    BY <1>9, BatchType DEF StoreChunks, TypeOK
  <2>2. pc' \in [Uploads -> UploadStates]
    BY <1>9, GoType, Names DEF StoreChunks
  <2> QED
    BY <1>9, <2>1, <2>2 DEF StoreChunks, TypeOK
<1>10. ASSUME NEW u \in Uploads, IndexChunks(u) PROVE TypeOK'
  <2>1. points' \subseteq Items
    BY <1>10, BatchType DEF IndexChunks, Upsert, TypeOK
  <2>2. pc' \in [Uploads -> UploadStates]
    BY <1>10, GoType, Names DEF IndexChunks
  <2> QED
    BY <1>10, <2>1, <2>2 DEF IndexChunks, TypeOK
<1>11. ASSUME NEW u \in Uploads, LinkChunks(u) PROVE TypeOK'
  BY <1>11, GoType, Names DEF LinkChunks, TypeOK
<1>12. ASSUME NEW x \in Deletes, StartDelete(x) PROVE TypeOK'
  BY <1>12, DGoType, Names DEF StartDelete, TypeOK, stores
<1>13. ASSUME NEW x \in Deletes, DeletePoints(x) PROVE TypeOK'
  BY <1>13, DGoType, Names DEF DeletePoints, TypeOK
<1>14. ASSUME NEW x \in Deletes, RemoveFile(x) PROVE TypeOK'
  BY <1>14, RemoveType, DGoType, Names DEF RemoveFile, TypeOK
<1>15. ASSUME NEW x \in Deletes, Erase(x) PROVE TypeOK'
  <2>1. /\ docs' \in [Uploads -> Rows]
        /\ chunks' \subseteq Items /\ linked' \subseteq Items /\ cited' \subseteq Items
    BY <1>15, Names DEF Erase, DropChunks, TypeOK
  <2>2. dpc' \in [Deletes -> DeleteStates]
    BY <1>15, DGoType, Names DEF Erase
  <2> QED
    BY <1>15, <2>1, <2>2 DEF Erase, TypeOK
<1>16. CASE Cite
  BY <1>16 DEF Cite, TypeOK
<1>17. CASE Crash
  BY <1>17, Names DEF Crash, TypeOK, stores
<1>18. CASE UNCHANGED vars
  BY <1>18 DEF vars, TypeOK
<1> QED
  BY <1>1, <1>2, <1>3, <1>4, <1>5, <1>6, <1>7, <1>8, <1>9, <1>10, <1>11, <1>12,
     <1>13, <1>14, <1>15, <1>16, <1>17, <1>18
     DEF Next, UploadStep, DeleteStep

(* Type correctness of the stores and of every request's progress. *)
THEOREM IngestTypeCorrect == Spec => []TypeOK
BY InitType, NextType, PTL DEF Spec
-----------------------------------------------------------------------------
(* The inductive invariant.  An upload is Decided once it has created its row
   or been told what to do about somebody else's. *)
Decided(u) == pc[u] \notin {"idle", "insert", "select", "read"}

(* Requests know whose document they work on. *)
RequestInv == \A u \in Uploads :
  /\ Body[target[u]] = Body[u]
  /\ pc[u] \in {"idle", "insert", "select"} => target[u] = u
  /\ pc[u] \in {"read", "wipePoints", "wipeChunks"} => target[u] # u
  /\ HasRow(u) => Decided(u) /\ target[u] = u

(* Deletes only ever work on documents whose upload is decided, so the row
   and the file they remove cannot come back. *)
DeleteInv == \A x \in Deletes :
  /\ dpc[x] \in {"unindex", "unlink", "erase", "deleted"} => Decided(dtarget[x])
  /\ dpc[x] \in {"erase", "deleted"} => (dtarget[x] \in files => dtarget[x] \in stuck)
  /\ dpc[x] = "deleted" => ~HasRow(dtarget[x])

RowInv == linked \subseteq chunks /\ cited \subseteq chunks

StoreInv == /\ RequestInv /\ DeleteInv /\ RowInv
            /\ ChunksAllOrNothing /\ IndexMatchesContent /\ NoFileLeak

(* How far the creating upload of an uncontested document has come, and what
   the stores hold of the document by then. *)
All(d) == {[doc |-> d, idx |-> i, by |-> d] : i \in 0..(N(d) - 1)}
At(d, steps) == target[d] = d /\ pc[d] \in steps
Progress(d) ==
  /\ At(d, {"insert", "select", "mark", "prepare", "store", "index", "link",
            "finish", "completed"}) => d \in files
  /\ At(d, {"idle", "insert", "select", "mark", "prepare", "store", "index"})
       => Of(d, points) = {}
  /\ At(d, {"mark", "prepare", "store"}) => Of(d, chunks) = {}
  /\ At(d, {"index", "link", "finish", "completed"}) => Of(d, chunks) = All(d)
  /\ At(d, {"link", "finish", "completed"}) => Of(d, points) = All(d)
  /\ docs[d].status = "completed" => At(d, {"completed"}) /\ docs[d].count = N(d)

ProgressInv == \A d \in Uploads : ~Contested(d) => Progress(d)
-----------------------------------------------------------------------------
(* The initial state satisfies the store invariant. *)
LEMMA InitStore == Init => StoreInv
BY IngestAssumption
   DEF Init, StoreInv, RequestInv, DeleteInv, RowInv, ChunksAllOrNothing,
       IndexMatchesContent, NoFileLeak, Of, HasRow, NoRow, Decided

(* A request that is decided stays decided, and keeps its document. *)
LEMMA DecidedStays ==
  ASSUME TypeOK, [Next]_vars, NEW u \in Uploads, Decided(u)
  PROVE  Decided(u)' /\ target'[u] = target[u]
<1>1. ASSUME NEW v \in Uploads, SaveFile(v) \/ UploadStep(v)
      PROVE  Decided(u)' /\ target'[u] = target[u]
  <2>1. CASE v = u
    BY <1>1, <2>1, GoType
       DEF Decided, UploadStep, SaveFile, InsertDocument, SelectDocument, ReadExisting,
           WipePoints, WipeChunks, MarkProcessing, Prepare, StoreChunks, IndexChunks,
           LinkChunks, Finish, Fail
  <2>2. CASE v # u
    <3>1. pc'[u] = pc[u]
      BY <1>1, <2>2, GoType
         DEF UploadStep, SaveFile, InsertDocument, SelectDocument, ReadExisting,
             WipePoints, WipeChunks, MarkProcessing, Prepare, StoreChunks, IndexChunks,
             LinkChunks, Finish, Fail
    <3>2. target'[u] = target[u]
      BY <1>1, <2>2
         DEF TypeOK, UploadStep, SaveFile, InsertDocument, SelectDocument, ReadExisting,
             WipePoints, WipeChunks, MarkProcessing, Prepare, StoreChunks, IndexChunks,
             LinkChunks, Finish, Fail
    <3> QED
      BY <3>1, <3>2 DEF Decided
  <2> QED
    BY <2>1, <2>2
<1>2. ASSUME NEW x \in Deletes, StartDelete(x) \/ DeleteStep(x)
      PROVE  Decided(u)' /\ target'[u] = target[u]
  BY <1>2 DEF Decided, DeleteStep, StartDelete, DeletePoints, RemoveFile, Erase
<1>3. CASE Cite \/ UNCHANGED vars
  BY <1>3 DEF Cite, vars, Decided
<1>4. CASE Crash
  BY <1>4 DEF Crash, Decided
<1> QED
  BY <1>1, <1>2, <1>3, <1>4 DEF Next

(* Every step preserves RequestInv. *)
LEMMA NextRequest ==
  ASSUME TypeOK, StoreInv, [Next]_vars
  PROVE  RequestInv'
<1> USE DEF RequestInv
<1>0. RequestInv
  BY DEF StoreInv
<1>1. ASSUME NEW u \in Uploads, SaveFile(u) PROVE RequestInv'
  BY <1>0, <1>1, GoType DEF SaveFile, Decided, HasRow
<1>2. ASSUME NEW u \in Uploads, InsertDocument(u) PROVE RequestInv'
  <2>1. \A v \in Uploads : v # u => pc'[v] = pc[v] /\ docs'[v] = docs[v]
    BY <1>2, GoType DEF InsertDocument, TypeOK
  <2>2. pc[u] = "insert" /\ pc'[u] \in {"select", "mark", "error"} /\ target' = target
    BY <1>2, GoType DEF InsertDocument
  <2>3. pc'[u] = "select" => docs' = docs
    BY <1>2, GoType DEF InsertDocument
  <2> QED
    BY <1>0, <2>1, <2>2, <2>3 DEF Decided, HasRow, NoRow
<1>3. ASSUME NEW u \in Uploads, SelectDocument(u) PROVE RequestInv'
  <2>1. \A v \in Uploads : v # u => pc'[v] = pc[v] /\ target'[v] = target[v]
    BY <1>3, GoType DEF SelectDocument, TypeOK
  <2>2. pc[u] = "select" /\ docs' = docs /\ ~HasRow(u)
    BY <1>0, <1>3 DEF SelectDocument, Decided
  <2>3. \/ pc'[u] = "error" /\ target'[u] = target[u]
        \/ pc'[u] = "read" /\ HasRow(target'[u]) /\ Body[target'[u]] = Body[u]
    BY <1>3, GoType DEF SelectDocument, TypeOK
  <2> QED
    BY <1>0, <2>1, <2>2, <2>3 DEF Decided, HasRow
<1>4. ASSUME NEW u \in Uploads, ReadExisting(u) PROVE RequestInv'
  BY <1>0, <1>4, GoType DEF ReadExisting, Decided, HasRow
<1>5. ASSUME NEW u \in Uploads,
             \/ WipePoints(u)
             \/ WipeChunks(u)
             \/ Prepare(u)
             \/ StoreChunks(u)
             \/ IndexChunks(u)
             \/ LinkChunks(u)
      PROVE  RequestInv'
  BY <1>0, <1>5, GoType
     DEF WipePoints, WipeChunks, Prepare, StoreChunks, IndexChunks, LinkChunks,
         Decided, HasRow, stores
<1>6. ASSUME NEW u \in Uploads, MarkProcessing(u) \/ Finish(u) \/ Fail(u) PROVE RequestInv'
  <2>1. \A v \in Uploads : HasRow(v)' => HasRow(v)
    <3>1. PICK s \in Statuses, n \in Nat, r \in Replies : UpdateDocumentStatus(target[u], s, n, r)
      BY <1>6, BatchType, Names DEF MarkProcessing, Finish, Fail
    <3> QED
      BY <3>1, StatusType DEF TypeOK
  <2>2. target' = target /\ pc[u] \in {"mark", "finish", "fail"} 
        /\ pc'[u] \in {"prepare", "completed", "error"}
        /\ \A v \in Uploads : v # u => pc'[v] = pc[v]
    BY <1>6, GoType DEF MarkProcessing, Finish, Fail
  <2> QED
    BY <1>0, <2>1, <2>2 DEF Decided
<1>7. ASSUME NEW x \in Deletes, StartDelete(x) \/ DeletePoints(x) \/ RemoveFile(x)
      PROVE  RequestInv'
  BY <1>0, <1>7 DEF StartDelete, DeletePoints, RemoveFile, Decided, HasRow, stores
<1>8. ASSUME NEW x \in Deletes, Erase(x) PROVE RequestInv'
  BY <1>0, <1>8 DEF Erase, TypeOK, Decided, HasRow
<1>9. CASE Cite \/ UNCHANGED vars
  BY <1>0, <1>9 DEF Cite, vars, Decided, HasRow
<1>10. CASE Crash
  BY <1>0, <1>10 DEF Crash, Decided, HasRow, stores
<1> QED
  BY <1>1, <1>2, <1>3, <1>4, <1>5, <1>6, <1>7, <1>8, <1>9, <1>10
     DEF Next, UploadStep, DeleteStep

(* Every step preserves DeleteInv. *)
LEMMA NextDelete ==
  ASSUME TypeOK, StoreInv, [Next]_vars
  PROVE  DeleteInv'
<1> USE DEF DeleteInv
<1>0. DeleteInv /\ RequestInv /\ (\A x \in Deletes : dtarget[x] \in Uploads)
  BY DEF StoreInv, TypeOK
<1>1. dtarget' = dtarget
  BY DEF Next, UploadStep, SaveFile, InsertDocument, SelectDocument, ReadExisting,
         WipePoints, WipeChunks, MarkProcessing, Prepare, StoreChunks, IndexChunks,
         LinkChunks, Finish, Fail, DeleteStep, StartDelete, DeletePoints, RemoveFile,
         Erase, Cite, Crash, vars
<1>2. \A x \in Deletes : Decided(dtarget[x]) => Decided(dtarget[x])'
  BY <1>0, <1>1, DecidedStays
<1>3. ASSUME NEW u \in Uploads, SaveFile(u) \/ UploadStep(u) PROVE DeleteInv'
  <2>1. dpc' = dpc
    BY <1>3 DEF UploadStep, SaveFile, InsertDocument, SelectDocument, ReadExisting,
         WipePoints, WipeChunks, MarkProcessing, Prepare, StoreChunks, IndexChunks,
         LinkChunks, Finish, Fail, stores
  <2>2. \A f \in Uploads : (Decided(f) /\ f \in files') =>
          f \in files /\ (f \in stuck => f \in stuck')
    BY <1>3, RemoveType
       DEF Decided, UploadStep, SaveFile, InsertDocument, SelectDocument, ReadExisting,
         WipePoints, WipeChunks, MarkProcessing, Prepare, StoreChunks, IndexChunks,
         LinkChunks, Finish, Fail, stores
  <2>3. \A d \in Uploads : Decided(d) => (HasRow(d)' => HasRow(d))
    <3>1. CASE MarkProcessing(u) \/ Finish(u) \/ Fail(u)
      <4>1. PICK s \in Statuses, n \in Nat, r \in Replies : UpdateDocumentStatus(target[u], s, n, r)
        BY <3>1, BatchType, Names DEF MarkProcessing, Finish, Fail
      <4> QED
        BY <4>1, StatusType DEF TypeOK
    <3>2. CASE InsertDocument(u)
      BY <3>2 DEF InsertDocument, Decided, HasRow, TypeOK
    <3>3. CASE ~(MarkProcessing(u) \/ Finish(u) \/ Fail(u) \/ InsertDocument(u))
      BY <1>3, <3>3
         DEF HasRow, UploadStep, SaveFile, SelectDocument, ReadExisting, WipePoints,
             WipeChunks, Prepare, StoreChunks, IndexChunks, LinkChunks, stores
    <3> QED
      BY <3>1, <3>2, <3>3
  <2> QED
    BY <1>0, <1>1, <1>2, <2>1, <2>2, <2>3
<1>4. ASSUME NEW x \in Deletes, StartDelete(x) PROVE DeleteInv'
  BY <1>0, <1>1, <1>2, <1>4, DGoType DEF StartDelete, RequestInv, HasRow, stores
<1>5. ASSUME NEW x \in Deletes, DeletePoints(x) PROVE DeleteInv'
  BY <1>0, <1>1, <1>2, <1>5, DGoType DEF DeletePoints, HasRow
<1>6. ASSUME NEW x \in Deletes, RemoveFile(x) PROVE DeleteInv'
  BY <1>0, <1>1, <1>2, <1>6, DGoType, RemoveType DEF RemoveFile, HasRow
<1>7. ASSUME NEW x \in Deletes, Erase(x) PROVE DeleteInv'
  <2>1. \A d \in Uploads : HasRow(d)' => HasRow(d)
    BY <1>7 DEF Erase, TypeOK, HasRow
  <2>2. dpc'[x] = "deleted" => ~HasRow(dtarget[x])'
    BY <1>0, <1>7, DGoType DEF Erase, TypeOK, HasRow
  <2> QED
    BY <1>0, <1>1, <1>2, <1>7, <2>1, <2>2, DGoType DEF Erase
<1>8. CASE Cite \/ UNCHANGED vars
  BY <1>0, <1>1, <1>2, <1>8 DEF Cite, vars, HasRow
<1>9. CASE Crash
  BY <1>0, <1>1, <1>2, <1>9 DEF Crash, stores, HasRow
<1> QED
  BY <1>3, <1>4, <1>5, <1>6, <1>7, <1>8, <1>9 DEF Next, DeleteStep

(* Every step preserves RowInv. *)
LEMMA NextRow ==
  ASSUME TypeOK, StoreInv, [Next]_vars
  PROVE  RowInv'
<1>0. linked \subseteq chunks /\ cited \subseteq chunks
  BY DEF StoreInv, RowInv
<1>1. CASE UNCHANGED <<chunks, linked, cited>>
  BY <1>0, <1>1 DEF RowInv
<1>2. ASSUME NEW gone, DropChunks(gone) PROVE RowInv'
  BY <1>0, <1>2 DEF DropChunks, RowInv
<1>3. ASSUME NEW u \in Uploads, StoreChunks(u) \/ LinkChunks(u) PROVE RowInv'
  BY <1>0, <1>3 DEF StoreChunks, LinkChunks, RowInv
<1>4. CASE Cite
  BY <1>0, <1>4 DEF Cite, RowInv
<1> QED
  BY <1>1, <1>2, <1>3, <1>4
     DEF Next, UploadStep, SaveFile, InsertDocument, SelectDocument, ReadExisting,
         WipePoints, WipeChunks, MarkProcessing, Prepare, IndexChunks, Finish, Fail,
         DeleteStep, StartDelete, DeletePoints, RemoveFile, Erase, Crash, stores, vars

(* No step but the creating INSERT makes a row, and none but Erase unmakes
   one. *)
LEMMA RowsStay ==
  ASSUME TypeOK, [Next]_vars, NEW d \in Uploads, HasRow(d),
         ~\E x \in Deletes : Erase(x)
  PROVE  HasRow(d)'
<1>1. ASSUME NEW u \in Uploads, MarkProcessing(u) \/ Finish(u) \/ Fail(u)
      PROVE  HasRow(d)'
  <2>1. PICK s \in Statuses, n \in Nat, r \in Replies : UpdateDocumentStatus(target[u], s, n, r)
    BY <1>1, BatchType, Names DEF MarkProcessing, Finish, Fail
  <2> QED
    BY <2>1, StatusType DEF TypeOK
<1>2. ASSUME NEW u \in Uploads, InsertDocument(u) PROVE HasRow(d)'
  BY <1>2 DEF InsertDocument, HasRow, NoRow, TypeOK
<1>3. CASE docs' = docs
  BY <1>3 DEF HasRow
<1> QED
  BY <1>1, <1>2, <1>3
     DEF Next, UploadStep, SaveFile, SelectDocument, ReadExisting, WipePoints, WipeChunks,
         Prepare, StoreChunks, IndexChunks, LinkChunks, DeleteStep, StartDelete,
         DeletePoints, RemoveFile, Cite, Crash, stores, vars

(* A batch that clashes with no chunk row finds the document without any: the
   rows of a document, if there are any, begin at index 0. *)
LEMMA NoClashNoRows ==
  ASSUME TypeOK, ChunksAllOrNothing,
         NEW u \in Uploads, Batch(u) # {}, ~Clashes(u)
  PROVE  Of(target[u], chunks) = {}
<1>1. target[u] \in Uploads
  BY DEF TypeOK
<1>2. \A v \in Uploads : N(v) \in Nat
  BY IngestAssumption DEF N
<1>3. N(u) > 0
  BY <1>2 DEF Batch
<1> SUFFICES ASSUME NEW v \in Uploads, NEW k \in Of(target[u], chunks),
                    Of(target[u], chunks) =
                      {[doc |-> target[u], idx |-> i, by |-> v] : i \in 0..(N(v) - 1)}
             PROVE  FALSE
  BY <1>1 DEF ChunksAllOrNothing
<1>4. N(v) > 0
  BY <1>2
<1>5. [doc |-> target[u], idx |-> 0, by |-> v] \in Of(target[u], chunks)
  BY <1>2, <1>4
<1> QED
  BY <1>3, <1>5 DEF Clashes, Of

(* Every step preserves ChunksAllOrNothing. *)
LEMMA NextChunks ==
  ASSUME TypeOK, StoreInv, [Next]_vars
  PROVE  ChunksAllOrNothing'
<1>0. ChunksAllOrNothing
  BY DEF StoreInv
<1>1. CASE chunks' = chunks /\ ~\E x \in Deletes : Erase(x)
  <2>1. \A d \in Uploads : HasRow(d) => HasRow(d)'
    BY <1>1, RowsStay
  <2> QED
    BY <1>0, <1>1, <2>1 DEF ChunksAllOrNothing, Of
<1>2. ASSUME NEW u \in Uploads, WipeChunks(u) PROVE ChunksAllOrNothing'
  <2>1. \A d \in Uploads : Of(d, chunks') = {} \/ Of(d, chunks') = Of(d, chunks)
    BY <1>2 DEF WipeChunks, DropChunks, Of
  <2>2. \A d \in Uploads : HasRow(d) => HasRow(d)'
    BY <1>2 DEF WipeChunks, HasRow
  <2> QED
    BY <1>0, <2>1, <2>2 DEF ChunksAllOrNothing
<1>3. ASSUME NEW u \in Uploads, StoreChunks(u) PROVE ChunksAllOrNothing'
  <2>1. \A d \in Uploads : HasRow(d) => HasRow(d)'
    BY <1>3 DEF StoreChunks, HasRow
  <2>2. CASE chunks' = chunks
    BY <1>0, <2>1, <2>2 DEF ChunksAllOrNothing, Of
  <2>3. CASE /\ HasRow(target[u]) /\ Batch(u) # {} /\ ~Clashes(u)
             /\ chunks' = chunks \cup Batch(u)
    <3>0. Of(target[u], chunks) = {}
      BY <1>0, <2>3, NoClashNoRows
    <3>1. \A d \in Uploads : d # target[u] => Of(d, chunks') = Of(d, chunks)
      BY <2>3, BatchType DEF Of
    <3>2. Of(target[u], chunks') = Batch(u)
      BY <2>3, <3>0, BatchType DEF Of
    <3> QED
      BY <1>0, <2>1, <2>3, <3>1, <3>2 DEF ChunksAllOrNothing, Batch
  <2> QED
    BY <1>3, <2>2, <2>3 DEF StoreChunks
<1>4. ASSUME NEW x \in Deletes, Erase(x) PROVE ChunksAllOrNothing'
  <2>1. CASE UNCHANGED <<docs, chunks>>
    BY <1>0, <2>1 DEF ChunksAllOrNothing, Of, HasRow
  <2>2. CASE docs' = [docs EXCEPT ![dtarget[x]] = NoRow]
             /\ DropChunks(Of(dtarget[x], chunks))
    <3>1. Of(dtarget[x], chunks') = {}
      BY <2>2 DEF DropChunks, Of
    <3>2. \A d \in Uploads : d # dtarget[x] =>
            Of(d, chunks') = Of(d, chunks) /\ (HasRow(d) => HasRow(d)')
      BY <2>2 DEF DropChunks, Of, HasRow, TypeOK
    <3> QED
      BY <1>0, <3>1, <3>2 DEF ChunksAllOrNothing
  <2> QED
    BY <1>4, <2>1, <2>2 DEF Erase
<1> QED
  BY <1>1, <1>2, <1>3, <1>4
     DEF Next, UploadStep, SaveFile, InsertDocument, SelectDocument, ReadExisting,
         WipePoints, MarkProcessing, Prepare, IndexChunks, LinkChunks, Finish, Fail,
         DeleteStep, StartDelete, DeletePoints, RemoveFile, Cite, Crash, stores, vars

(* Every step preserves IndexMatchesContent. *)
LEMMA NextContent ==
  ASSUME TypeOK, StoreInv, [Next]_vars
  PROVE  IndexMatchesContent'
<1>0. IndexMatchesContent /\ RequestInv
  BY DEF StoreInv
<1>1. CASE chunks' \subseteq chunks /\ points' \subseteq points
  BY <1>0, <1>1 DEF IndexMatchesContent
<1>2. ASSUME NEW u \in Uploads, StoreChunks(u) \/ IndexChunks(u)
      PROVE  IndexMatchesContent'
  <2>1. chunks' \cup points' \subseteq chunks \cup points \cup Batch(u)
    BY <1>2 DEF StoreChunks, IndexChunks, Upsert
  <2>2. \A k \in Batch(u) : Body[k.by] = Body[k.doc] /\ k.idx < N(k.by)
    BY <1>0, BatchType DEF RequestInv
  <2> QED
    BY <1>0, <2>1, <2>2 DEF IndexMatchesContent
<1> QED
  BY <1>1, <1>2
     DEF Next, UploadStep, SaveFile, InsertDocument, SelectDocument, ReadExisting,
         WipePoints, WipeChunks, DropChunks, MarkProcessing, Prepare, LinkChunks, Finish,
         Fail, DeleteStep, StartDelete, DeletePoints, RemoveFile, Erase, Cite, Crash,
         stores, vars

(* Every step preserves NoFileLeak. *)
LEMMA NextFiles ==
  ASSUME TypeOK, StoreInv, [Next]_vars
  PROVE  NoFileLeak'
<1>0. NoFileLeak /\ DeleteInv
  BY DEF StoreInv
<1>1. ASSUME NEW u \in Uploads, SaveFile(u) PROVE NoFileLeak'
  BY <1>0, <1>1, GoType DEF SaveFile, NoFileLeak, HasRow, TypeOK
<1>2. ASSUME NEW u \in Uploads, InsertDocument(u) PROVE NoFileLeak'
  <2>1. \A f \in files' : f # u => /\ f \in files /\ (f \in stuck => f \in stuck')
                                   /\ docs'[f] = docs[f] /\ pc'[f] = pc[f]
    BY <1>2, RemoveType, GoType DEF InsertDocument, TypeOK
  <2>2. u \in files' => HasRow(u)' \/ pc'[u] = "select" \/ u \in stuck'
    BY <1>2, RemoveType, GoType DEF InsertDocument, TypeOK, HasRow, NoRow
  <2> QED
    BY <1>0, <2>1, <2>2 DEF NoFileLeak, HasRow
<1>3. ASSUME NEW u \in Uploads, SelectDocument(u) \/ ReadExisting(u) PROVE NoFileLeak'
  BY <1>0, <1>3, RemoveType, GoType
     DEF SelectDocument, ReadExisting, NoFileLeak, HasRow, TypeOK
<1>4. ASSUME NEW u \in Uploads,
             \/ WipePoints(u) \/ WipeChunks(u) \/ MarkProcessing(u) \/ Prepare(u)
             \/ StoreChunks(u) \/ IndexChunks(u) \/ LinkChunks(u) \/ Finish(u)
             \/ Fail(u)
      PROVE  NoFileLeak'
  <2>1. ~\E x \in Deletes : Erase(x)
    BY <1>4, GoType
       DEF WipePoints, WipeChunks, MarkProcessing, Prepare, StoreChunks, IndexChunks,
           LinkChunks, Finish, Fail, Erase
  <2>2. \A d \in Uploads : HasRow(d) => HasRow(d)'
    BY <2>1, RowsStay
  <2>3. files' = files /\ stuck' = stuck /\ pc[u] \notin {"insert", "select", "read", "crashed"}
        /\ \A f \in Uploads : f # u => pc'[f] = pc[f]
    BY <1>4, GoType
       DEF WipePoints, WipeChunks, MarkProcessing, Prepare, StoreChunks, IndexChunks,
           LinkChunks, Finish, Fail, stores
  <2> QED
    BY <1>0, <2>2, <2>3 DEF NoFileLeak, TypeOK
<1>5. ASSUME NEW x \in Deletes, StartDelete(x) \/ DeletePoints(x) \/ RemoveFile(x)
      PROVE  NoFileLeak'
  BY <1>0, <1>5, RemoveType
     DEF StartDelete, DeletePoints, RemoveFile, NoFileLeak, HasRow, stores, TypeOK
<1>6. ASSUME NEW x \in Deletes, Erase(x) PROVE NoFileLeak'
  BY <1>0, <1>6 DEF Erase, DeleteInv, NoFileLeak, HasRow, TypeOK
<1>7. CASE Cite \/ UNCHANGED vars
  BY <1>0, <1>7 DEF Cite, vars, NoFileLeak, HasRow
<1>8. CASE Crash
  BY <1>0, <1>8 DEF Crash, stores, NoFileLeak, HasRow, TypeOK, UploadSteps
<1> QED
  BY <1>1, <1>2, <1>3, <1>4, <1>5, <1>6, <1>7, <1>8 DEF Next, UploadStep, DeleteStep

(* StoreInv is inductive relative to TypeOK. *)
LEMMA NextStore == TypeOK /\ StoreInv /\ [Next]_vars => StoreInv'
BY NextRequest, NextDelete, NextRow, NextChunks, NextContent, NextFiles DEF StoreInv

(* StoreInv, the inductive invariant behind the four theorems that follow. *)
THEOREM IngestStoreInvariant == Spec => []StoreInv
BY InitStore, NextStore, IngestTypeCorrect, PTL DEF Spec

(* ChunksAllOrNothing, however many uploads, deletes, failures and crashes. *)
THEOREM IngestChunksAllOrNothing == Spec => []ChunksAllOrNothing
BY IngestStoreInvariant, PTL DEF StoreInv

(* IndexMatchesContent: deduplication never mixes two contents up. *)
THEOREM IngestIndexMatchesContent == Spec => []IndexMatchesContent
BY IngestStoreInvariant, PTL DEF StoreInv

(* NoFileLeak: only a crash or a failed os.Remove leaves an orphan file. *)
THEOREM IngestNoFileLeak == Spec => []NoFileLeak
BY IngestStoreInvariant, PTL DEF StoreInv

(* DeleteSticks: an answered delete is not undone by any late upload step. *)
THEOREM IngestDeleteSticks == Spec => []DeleteSticks
<1>1. ASSUME TypeOK, StoreInv PROVE DeleteSticks
  <2> SUFFICES ASSUME NEW x \in Deletes, dpc[x] = "deleted"
               PROVE  /\ ~HasRow(dtarget[x])
                      /\ Of(dtarget[x], chunks \cup linked \cup cited) = {}
                      /\ dtarget[x] \in files => dtarget[x] \in stuck
    BY DEF DeleteSticks
  <2>1. ~HasRow(dtarget[x]) /\ (dtarget[x] \in files => dtarget[x] \in stuck)
    BY <1>1 DEF StoreInv, DeleteInv
  <2>2. Of(dtarget[x], chunks) = {}
    BY <1>1, <2>1 DEF StoreInv, ChunksAllOrNothing, TypeOK
  <2>3. chunks \cup linked \cup cited = chunks
    BY <1>1 DEF StoreInv, RowInv
  <2> QED
    BY <2>1, <2>2, <2>3
<1> QED
  BY <1>1, IngestTypeCorrect, IngestStoreInvariant, PTL

-----------------------------------------------------------------------------
(* Once another request is loose on a document, it counts as contested for
   good. *)
LEMMA ContestedStays ==
  ASSUME TypeOK, StoreInv, [Next]_vars, NEW d \in Uploads, ~Contested(d)'
  PROVE  ~Contested(d)
<1>0. RequestInv
  BY DEF StoreInv
<1>1. ASSUME NEW u \in Uploads, u # d, target[u] = d, pc[u] \notin {"read", "reused"}
      PROVE  FALSE
  <2>1. Decided(u)
    BY <1>0, <1>1 DEF RequestInv, Decided
  <2>2. target'[u] = d
    BY <1>1, <2>1, DecidedStays
  <2>3. pc'[u] \notin {"read", "reused"}
    <3>1. ASSUME NEW v \in Uploads, SaveFile(v) \/ UploadStep(v)
          PROVE  pc'[u] \notin {"read", "reused"}
      <4>1. CASE v # u
        BY <1>1, <3>1, <4>1, GoType
           DEF UploadStep, SaveFile, InsertDocument, SelectDocument, ReadExisting,
               WipePoints, WipeChunks, MarkProcessing, Prepare, StoreChunks,
               IndexChunks, LinkChunks, Finish, Fail
      <4>2. CASE v = u
        BY <1>1, <2>1, <3>1, <4>2, GoType
           DEF Decided, UploadStep, SaveFile, InsertDocument, SelectDocument,
               ReadExisting, WipePoints, WipeChunks, MarkProcessing, Prepare,
               StoreChunks, IndexChunks, LinkChunks, Finish, Fail
      <4> QED
        BY <4>1, <4>2
    <3>2. CASE pc' = pc
      BY <1>1, <3>2
    <3>3. CASE Crash
      BY <1>1, <3>3 DEF Crash
    <3> QED
      BY <3>1, <3>2, <3>3
         DEF Next, DeleteStep, StartDelete, DeletePoints, RemoveFile, Erase, Cite, vars
  <2> QED
    BY <1>1, <2>2, <2>3 DEF Contested
<1>2. ASSUME NEW x \in Deletes, dtarget[x] = d, dpc[x] \notin {"idle", "missing"}
      PROVE  FALSE
  <2>1. dtarget' = dtarget
    BY DEF Next, UploadStep, SaveFile, InsertDocument, SelectDocument, ReadExisting,
           WipePoints, WipeChunks, MarkProcessing, Prepare, StoreChunks, IndexChunks,
           LinkChunks, Finish, Fail, DeleteStep, StartDelete, DeletePoints, RemoveFile,
           Erase, Cite, Crash, vars
  <2>2. dpc'[x] \notin {"idle", "missing"}
    <3>1. ASSUME NEW y \in Deletes, StartDelete(y) \/ DeleteStep(y)
          PROVE  dpc'[x] \notin {"idle", "missing"}
      BY <1>2, <3>1, DGoType
         DEF DeleteStep, StartDelete, DeletePoints, RemoveFile, Erase
    <3>2. CASE dpc' = dpc
      BY <1>2, <3>2
    <3>3. CASE Crash
      BY <1>2, <3>3 DEF Crash
    <3> QED
      BY <3>1, <3>2, <3>3
         DEF Next, UploadStep, SaveFile, InsertDocument, SelectDocument, ReadExisting,
             WipePoints, WipeChunks, MarkProcessing, Prepare, StoreChunks, IndexChunks,
             LinkChunks, Finish, Fail, Cite, stores, vars
  <2> QED
    BY <1>2, <2>1, <2>2 DEF Contested
<1> QED
  BY <1>1, <1>2 DEF Contested

(* Nothing Progress says of document d has changed. *)
Untouched(d) == /\ pc'[d] = pc[d] /\ target'[d] = target[d]
                /\ docs'[d] = docs[d]
                /\ Of(d, chunks') = Of(d, chunks)
                /\ Of(d, points') = Of(d, points)
                /\ d \in files => d \in files'

(* Progress(d) survives a step that leaves everything about d alone. *)
LEMMA UntouchedProgress ==
  ASSUME NEW d \in Uploads, Progress(d), Untouched(d)
  PROVE  Progress(d)'
BY DEF Progress, Untouched, At, All, N, Of

(* Other uploads leave an uncontested document alone. *)
LEMMA OthersLeaveAlone ==
  ASSUME TypeOK, StoreInv, NEW d \in Uploads, NEW u \in Uploads, u # d,
         SaveFile(u) \/ UploadStep(u), ~Contested(d)
  PROVE  Untouched(d)
<1>0. RequestInv
  BY DEF StoreInv
<1>1. pc'[d] = pc[d]
  BY GoType
     DEF UploadStep, SaveFile, InsertDocument, SelectDocument, ReadExisting, WipePoints,
         WipeChunks, MarkProcessing, Prepare, StoreChunks, IndexChunks, LinkChunks,
         Finish, Fail
<1>2. target'[d] = target[d]
  BY DEF TypeOK, UploadStep, SaveFile, InsertDocument, SelectDocument, ReadExisting,
         WipePoints, WipeChunks, MarkProcessing, Prepare, StoreChunks, IndexChunks,
         LinkChunks, Finish, Fail
<1>3. d \in files => d \in files'
  BY RemoveType
     DEF UploadStep, SaveFile, InsertDocument, SelectDocument, ReadExisting, WipePoints,
         WipeChunks, MarkProcessing, Prepare, StoreChunks, IndexChunks, LinkChunks,
         Finish, Fail, stores
<1>4. target[u] # d \/ pc[u] \in {"read", "reused"}
  BY DEF Contested
<1>5. docs'[d] = docs[d]
  <2>1. CASE MarkProcessing(u) \/ Finish(u) \/ Fail(u)
    <3>1. target[u] # d
      BY <1>4, <2>1 DEF MarkProcessing, Finish, Fail
    <3>2. PICK s \in Statuses, n \in Nat, r \in Replies : UpdateDocumentStatus(target[u], s, n, r)
      BY <2>1, BatchType, Names DEF MarkProcessing, Finish, Fail
    <3> QED
      BY <3>1, <3>2, StatusType DEF TypeOK
  <2>2. CASE ~(MarkProcessing(u) \/ Finish(u) \/ Fail(u))
    BY <2>2
       DEF TypeOK, UploadStep, SaveFile, InsertDocument, SelectDocument, ReadExisting,
           WipePoints, WipeChunks, Prepare, StoreChunks, IndexChunks, LinkChunks, stores
  <2> QED
    BY <2>1, <2>2
<1>6. Of(d, chunks') = Of(d, chunks)
  <2>1. CASE WipeChunks(u)
    BY <1>4, <2>1 DEF WipeChunks, DropChunks, Of
  <2>2. CASE StoreChunks(u)
    BY <1>4, <2>2, BatchType DEF StoreChunks, Of
  <2>3. CASE ~(WipeChunks(u) \/ StoreChunks(u))
    BY <2>3
       DEF UploadStep, SaveFile, InsertDocument, SelectDocument, ReadExisting, WipePoints,
           MarkProcessing, Prepare, IndexChunks, LinkChunks, Finish, Fail, stores
  <2> QED
    BY <2>1, <2>2, <2>3
<1>7. Of(d, points') = Of(d, points)
  <2>1. CASE WipePoints(u)
    BY <1>4, <2>1 DEF WipePoints, Of
  <2>2. CASE IndexChunks(u)
    BY <1>4, <2>2, BatchType DEF IndexChunks, Upsert, Of
  <2>3. CASE ~(WipePoints(u) \/ IndexChunks(u))
    BY <2>3
       DEF UploadStep, SaveFile, InsertDocument, SelectDocument, ReadExisting, WipeChunks,
           MarkProcessing, Prepare, StoreChunks, LinkChunks, Finish, Fail, stores
  <2> QED
    BY <2>1, <2>2, <2>3
<1> QED
  BY <1>1, <1>2, <1>3, <1>5, <1>6, <1>7 DEF Untouched

(* The creating upload itself, from saving the file to its answer. *)
LEMMA OwnStep ==
  ASSUME TypeOK, StoreInv, NEW d \in Uploads, Progress(d),
         SaveFile(d) \/ UploadStep(d)
  PROVE  Progress(d)'
<1> USE DEF At
<1>0. RequestInv /\ ChunksAllOrNothing /\ d \in Uploads /\ target[d] \in Uploads
  BY DEF StoreInv, TypeOK
<1>1. target[d] = d => Batch(d) = All(d)
  BY DEF Batch, All
<1>2. All(d)' = All(d)
  BY DEF All, N
<1>3. CASE SaveFile(d)
  BY <1>0, <1>3, GoType DEF SaveFile, Progress, Of
<1>4. CASE InsertDocument(d)
  <2>1. /\ target' = target /\ target[d] = d /\ pc[d] = "insert"
        /\ Of(d, points') = {} /\ chunks' = chunks /\ d \in files
    BY <1>0, <1>4 DEF InsertDocument, Progress, RequestInv
  <2>2. ~HasRow(d) /\ Of(d, chunks) = {} /\ docs[d].status # "completed"
    BY <1>0, <2>1 DEF RequestInv, Decided, ChunksAllOrNothing, HasRow, NoRow
  <2>3. docs'[d].status # "completed"
    BY <1>4, <2>2 DEF InsertDocument, TypeOK
  <2>4. pc'[d] \in {"select", "mark"} => files' = files
    BY <1>4, GoType DEF InsertDocument
  <2>5. pc'[d] \in {"select", "mark", "error"}
    BY <1>4, GoType DEF InsertDocument
  <2> QED
    BY <2>1, <2>2, <2>3, <2>4, <2>5 DEF Progress, Of
<1>5. CASE SelectDocument(d)
  <2>1. pc[d] = "select" /\ docs' = docs /\ pc'[d] \in {"read", "error"}
    BY <1>5, GoType DEF SelectDocument
  <2>2. docs[d].status # "completed"
    BY <2>1 DEF Progress
  <2> QED
    BY <2>1, <2>2 DEF Progress
<1>6. CASE ReadExisting(d) \/ WipePoints(d) \/ WipeChunks(d)
  <2>1. /\ pc[d] \in {"read", "wipePoints", "wipeChunks"}
        /\ target' = target /\ docs' = docs
    BY <1>6 DEF ReadExisting, WipePoints, WipeChunks
  <2>2. target[d] # d /\ docs[d].status # "completed"
    BY <1>0, <2>1 DEF RequestInv, Progress
  <2> QED
    BY <2>1, <2>2 DEF Progress
<1>7. CASE MarkProcessing(d) \/ Fail(d)
  <2>1. PICK s \in {"processing", "failed"}, r \in Replies : UpdateDocumentStatus(target[d], s, 0, r)
    BY <1>7 DEF MarkProcessing, Fail
  <2>2. docs[d].status # "completed" /\ pc[d] \in {"mark", "fail"}
    BY <1>7 DEF Progress, MarkProcessing, Fail
  <2>3. docs'[d].status # "completed"
    BY <2>1, <2>2 DEF UpdateDocumentStatus, TypeOK
  <2>4. /\ UNCHANGED <<files, chunks, points, target>>
        /\ (pc'[d] = "prepare" /\ pc[d] = "mark") \/ pc'[d] = "error"
    BY <1>7, GoType DEF MarkProcessing, Fail
  <2> QED
    BY <2>2, <2>3, <2>4 DEF Progress, Of
<1>8. CASE Prepare(d)
  BY <1>8, GoType DEF Prepare, Progress, Of, stores
<1>9. CASE StoreChunks(d)
  <2>1. /\ pc[d] = "store" /\ UNCHANGED <<files, docs, points, target>>
        /\ pc'[d] \in {"index", "fail"}
    BY <1>9, GoType DEF StoreChunks
  <2>2. docs'[d].status # "completed"
    BY <2>1 DEF Progress
  <2>3. ASSUME target[d] = d, pc'[d] = "index" PROVE Of(d, chunks') = All(d)
    <3>1. Of(d, chunks) = {}
      BY <2>1, <2>3 DEF Progress
    <3>2. chunks' = chunks \/ chunks' = chunks \cup All(d)
      BY <1>1, <1>9, <2>3 DEF StoreChunks
    <3>3. chunks' = chunks => All(d) = {}
      <4>1. chunks' = chunks => Batch(d) = {} \/ Batch(d) \subseteq chunks
        BY <1>9, <2>3, GoType DEF StoreChunks
      <4>2. Batch(d) = All(d)
        BY <1>1, <2>3
      <4> QED
        BY <3>1, <4>1, <4>2 DEF Of, All
    <3> QED
      BY <3>1, <3>2, <3>3 DEF Of, All
  <2> QED
    BY <1>2, <2>1, <2>2, <2>3 DEF Progress, Of
<1>10. CASE IndexChunks(d)
  <2>1. /\ pc[d] = "index" /\ UNCHANGED <<files, docs, chunks, target>>
        /\ pc'[d] \in {"link", "fail"}
    BY <1>10, GoType DEF IndexChunks
  <2>2. docs'[d].status # "completed"
    BY <2>1 DEF Progress
  <2>3. ASSUME target[d] = d, pc'[d] = "link" PROVE Of(d, points') = All(d)
    <3>1. Of(d, points) = {}
      BY <2>1, <2>3 DEF Progress
    <3>2. points' = Upsert(All(d))
      BY <1>1, <1>10, <2>3, GoType DEF IndexChunks
    <3> QED
      BY <3>1, <3>2 DEF Of, All, Upsert
  <2> QED
    BY <1>2, <2>1, <2>2, <2>3 DEF Progress, Of
<1>11. CASE LinkChunks(d)
  BY <1>2, <1>11, GoType DEF LinkChunks, Progress, Of
<1>12. CASE Finish(d)
  <2>1. /\ pc[d] = "finish" /\ UNCHANGED <<files, chunks, points, target>>
        /\ pc'[d] = "completed"
    BY <1>12, GoType DEF Finish
  <2>2. docs[d].status # "completed"
    BY <2>1 DEF Progress
  <2>3. docs'[d].status = "completed" => target[d] = d /\ docs'[d].count = N(d)
    BY <1>12, <2>2 DEF Finish, UpdateDocumentStatus, TypeOK
  <2>4. N(d)' = N(d)
    BY DEF N
  <2> QED
    BY <1>2, <2>1, <2>3, <2>4 DEF Progress, Of
<1> QED
  BY <1>3, <1>4, <1>5, <1>6, <1>7, <1>8, <1>9, <1>10, <1>11, <1>12 DEF UploadStep

(* The initial state satisfies ProgressInv. *)
LEMMA InitProgress == Init => ProgressInv
BY DEF Init, ProgressInv, Progress, At, Of, NoRow

(* Every step preserves ProgressInv. *)
LEMMA NextProgress ==
  ASSUME TypeOK, StoreInv, ProgressInv, [Next]_vars
  PROVE  ProgressInv'
<1> SUFFICES ASSUME NEW d \in Uploads, ~Contested(d)' PROVE Progress(d)'
  BY DEF ProgressInv
<1>0. ~Contested(d) /\ Progress(d)
  BY ContestedStays DEF ProgressInv
<1>1. ASSUME NEW u \in Uploads, SaveFile(u) \/ UploadStep(u) PROVE Progress(d)'
  BY <1>0, <1>1, OwnStep, OthersLeaveAlone, UntouchedProgress
<1>2. ASSUME NEW x \in Deletes, StartDelete(x) \/ DeleteStep(x) PROVE Progress(d)'
  <2>1. CASE StartDelete(x)
    BY <1>0, <2>1, UntouchedProgress DEF StartDelete, Untouched, Of, stores
  <2>2. CASE DeleteStep(x)
    <3>1. dtarget[x] # d
      BY <1>0, <2>2 DEF Contested, DeleteStep, DeletePoints, RemoveFile, Erase
    <3>2. Untouched(d)
      BY <2>2, <3>1, RemoveType
         DEF DeleteStep, DeletePoints, RemoveFile, Erase, DropChunks, Untouched, Of, TypeOK
    <3> QED
      BY <1>0, <3>2, UntouchedProgress
  <2> QED
    BY <1>2, <2>1, <2>2
<1>3. CASE Cite \/ UNCHANGED vars
  BY <1>0, <1>3, UntouchedProgress DEF Cite, vars, Untouched, Of
<1>4. CASE Crash
  <2>1. pc'[d] = pc[d] \/ (pc'[d] = "crashed" /\ pc[d] # "completed")
    BY <1>4 DEF Crash, UploadSteps
  <2>2. pc'[d] = pc[d] => Untouched(d)
    BY <1>4 DEF Crash, Untouched, Of, stores
  <2>3. pc'[d] = "crashed" /\ pc[d] # "completed" => Progress(d)'
    BY <1>0, <1>4 DEF Crash, Progress, At, stores
  <2> QED
    BY <1>0, <2>1, <2>2, <2>3, UntouchedProgress
<1> QED
  BY <1>1, <1>2, <1>3, <1>4 DEF Next

(* CompletedIsIndexed: a completed document nobody else works on has every
   chunk row, every vector, its file and its count. *)
THEOREM IngestCompletedIsIndexed == Spec => []CompletedIsIndexed
<1>1. ASSUME ProgressInv PROVE CompletedIsIndexed
  BY <1>1 DEF ProgressInv, Progress, At, All, CompletedIsIndexed
<1>2. Spec => []ProgressInv
  BY InitProgress, NextProgress, IngestTypeCorrect, IngestStoreInvariant, PTL DEF Spec
<1> QED
  BY <1>1, <1>2, PTL
-----------------------------------------------------------------------------
(* A document that a duplicate works on has been listed before. *)
Joined == \A u \in Uploads : target[u] # u => Decided(target[u])

(* Only SelectDocument gives an upload another document. *)
LEMMA OnlySelectJoins ==
  ASSUME TypeOK, [Next]_vars, NEW u \in Uploads, target'[u] # target[u]
  PROVE  SelectDocument(u) /\ HasRow(target'[u])
<1>1. target' # target
  OBVIOUS
<1>2. PICK v \in Uploads : SelectDocument(v)
  BY <1>1 DEF Next, UploadStep, SaveFile, InsertDocument, ReadExisting, WipePoints, WipeChunks,
              MarkProcessing, Prepare, StoreChunks, IndexChunks, LinkChunks, Finish, Fail,
              DeleteStep, StartDelete, DeletePoints, RemoveFile, Erase, Cite, Crash, vars
<1> QED
  BY <1>2 DEF SelectDocument, TypeOK

(* Every step preserves Joined. *)
LEMMA NextJoined ==
  ASSUME TypeOK, StoreInv, Joined, [Next]_vars
  PROVE  Joined'
<1> SUFFICES ASSUME NEW u \in Uploads, target'[u] # u
             PROVE  Decided(target[u])'
  BY DEF Joined
<1>1. CASE target'[u] = target[u]
  <2>1. PICK d \in Uploads : target[u] = d /\ target'[u] = d
    BY <1>1 DEF TypeOK
  <2>2. Decided(d)
    BY <2>1 DEF Joined
  <2> QED
    BY <2>1, <2>2, DecidedStays DEF Decided
<1>2. CASE target'[u] # target[u]
  <2>1. PICK d \in Uploads : target'[u] = d /\ HasRow(d)
    BY <1>2, OnlySelectJoins DEF SelectDocument, TypeOK
  <2>2. Decided(d)
    BY <2>1 DEF StoreInv, RequestInv
  <2> QED
    BY <2>1, <2>2, DecidedStays DEF Decided
<1> QED
  BY <1>1, <1>2

(* The phases by name. *)
LEMMA Phases ==
  /\ Phase("idle") = "new" /\ Phase("insert") = "new" /\ Phase("select") = "new"
  /\ Phase("read") = "ready" /\ Phase("wipePoints") = "ready" /\ Phase("wipeChunks") = "ready"
  /\ Phase("mark") = "ready" /\ Phase("prepare") = "ready" /\ Phase("store") = "ready"
  /\ Phase("index") = "filled" /\ Phase("link") = "indexed" /\ Phase("finish") = "indexed"
  /\ Phase("fail") = "failing"
  /\ Phase("completed") = "over" /\ Phase("reused") = "over" /\ Phase("error") = "over"
  /\ Phase("crashed") = "over"
BY DEF Phase

(* An upload that moves, moves in the catalogue. *)
LEMMA PhaseMoves ==
  ASSUME TypeOK, NEW u \in Uploads, NEW s, Go(u, s)
  PROVE  /\ Cat!Becomes(u, Phase(s))
         /\ Phase(s) = Phase(pc[u]) => \A v \in Uploads : Phase(pc'[v]) = Phase(pc[v])
BY GoType DEF Cat!Becomes

(* The contents of the catalogue change with the chunks of one document. *)
LEMMA ContentsMove ==
  ASSUME NEW S, NEW T, NEW d \in Uploads, \A e \in Uploads : e # d => Of(e, T) = Of(e, S)
  PROVE  [e \in Uploads |-> Of(e, T)] = [[e \in Uploads |-> Of(e, S)] EXCEPT ![d] = Of(d, T)]
OBVIOUS
(* A step that changes none of the stores and moves an upload within its phase,
   or out of it, changes nothing else in the catalogue. *)
LEMMA QuietMove ==
  ASSUME TypeOK, NEW u \in Uploads, NEW s, Go(u, s),
         UNCHANGED <<docs, chunks, cited, points, target>>,
         \/ Phase(s) = Phase(pc[u])
         \/ Phase(s) = "over" /\ Phase(pc[u]) # "over"
         \/ Phase(s) = "failing" /\ Phase(pc[u]) \in {"ready", "filled"}
  PROVE  [Cat!CatNext]_(Cat!catVars)
<1>1. CASE Phase(s) = Phase(pc[u])
  BY <1>1, PhaseMoves DEF Cat!catVars, Of
<1>2. CASE Phase(s) # Phase(pc[u])
  <2>1. Cat!GiveUp(u)
    BY <1>2, PhaseMoves DEF Cat!GiveUp, Of
  <2> QED
    BY <2>1 DEF Cat!CatNext
<1> QED
  BY <1>1, <1>2

(* The batch of an upload, in the words of the catalogue. *)
LEMMA WholeIsBatch ==
  ASSUME NEW u \in Uploads
  PROVE  Cat!Whole(u) = Batch(u) /\ Cat!Chunks(u) = N(u)
BY DEF Cat!Whole, Cat!Chunks, Batch, N

(* Of the vectors of a document, those that the batch has no place for stay. *)
LEMMA UpsertReplaces ==
  ASSUME TypeOK, NEW u \in Uploads
  PROVE  /\ Of(target[u], Upsert(Batch(u))) =
              {p \in Of(target[u], points) : p.idx >= N(u)} \cup Batch(u)
         /\ \A d \in Uploads : d # target[u] => Of(d, Upsert(Batch(u))) = Of(d, points)
<1>1. /\ N(u) \in Nat
      /\ \A k \in Batch(u) : k.doc = target[u] /\ k.idx \in 0..(N(u) - 1)
  BY BatchType
<1>2. ASSUME NEW p \in points, p.doc = target[u]
      PROVE  (p.idx < N(u)) <=> (\E q \in Batch(u) : q.doc = p.doc /\ q.idx = p.idx)
  <2>1. p.idx \in Nat
    BY DEF TypeOK, Items
  <2>2. p.idx < N(u) => [doc |-> target[u], idx |-> p.idx, by |-> u] \in Batch(u)
    BY <1>1, <2>1 DEF Batch
  <2> QED
    BY <1>1, <1>2, <2>1, <2>2
<1>3. \A p \in points : p.idx >= N(u) <=> ~(p.idx < N(u))
  BY <1>1 DEF TypeOK, Items
<1> QED
  BY <1>1, <1>2, <1>3 DEF Upsert, Of

(* A status update is what the upload says of its document. *)
LEMMA SaysStatus ==
  ASSUME TypeOK, NEW u \in Uploads, NEW s, NEW n, NEW r,
         UpdateDocumentStatus(target[u], s, n, r)
  PROVE  docs' = docs \/ Cat!Says(u, s, n)
<1>1. target[u] \in Uploads /\ docs = [d \in Uploads |-> docs[d]]
  BY DEF TypeOK
<1> QED
  BY <1>1 DEF UpdateDocumentStatus, HasRow, NoRow, Cat!Says, Cat!Listed, Cat!Absent

(* Every step of an upload is a step of the catalogue, or none. *)
LEMMA UploadMaps ==
  ASSUME TypeOK, StoreInv, Joined, [Next]_vars,
         NEW u \in Uploads, SaveFile(u) \/ UploadStep(u)
  PROVE  [Cat!CatNext]_(Cat!catVars)
<1>0. RequestInv /\ target[u] \in Uploads
  BY DEF StoreInv, TypeOK
<1>1. CASE SaveFile(u)
  BY <1>1, QuietMove, Phases DEF SaveFile
<1>2. CASE InsertDocument(u)
  <2>1. CASE /\ Go(u, "select") \/ Go(u, "error")
             /\ UNCHANGED <<docs, chunks, cited, points, target>>
    BY <1>2, <2>1, QuietMove, Phases DEF InsertDocument
  <2>2. CASE /\ Go(u, "mark") \/ Go(u, "error")
             /\ \A d \in Uploads : HasRow(d) => Body[d] # Body[u]
             /\ docs' = [docs EXCEPT ![u] = [status |-> "pending", count |-> 0]]
             /\ UNCHANGED <<chunks, cited, points, target>>
    <3>1. Cat!Becomes(u, "ready") \/ Cat!Becomes(u, "over")
      BY <2>2, PhaseMoves, Phases
    <3>2. Phase(pc[u]) = "new"
      BY <1>2, Phases DEF InsertDocument
    <3>3. Cat!List(u)
      BY <2>2, <3>1, <3>2 DEF Cat!List, Cat!Listed, Cat!Absent, HasRow, NoRow, Of
    <3> QED
      BY <3>3 DEF Cat!CatNext
  <2> QED
    BY <1>2, <2>1, <2>2 DEF InsertDocument
<1>3. CASE SelectDocument(u)
  <2>1. CASE target' = target
    <3>1. Go(u, "error") \/ Go(u, "read")
      BY <1>3 DEF SelectDocument
    <3>2. ~Go(u, "read")
      <4>1. ASSUME Go(u, "read") PROVE FALSE
        <5>1. PICK d \in Uploads : HasRow(d) /\ target' = [target EXCEPT ![u] = d]
          BY <1>3, <4>1, GoType DEF SelectDocument
        <5>2. target[u] = d /\ target[u] = u
          BY <1>0, <1>3, <2>1, <5>1 DEF RequestInv, SelectDocument, TypeOK
        <5> QED
          BY <1>0, <1>3, <5>1, <5>2 DEF RequestInv, Decided, SelectDocument
      <4> QED
        BY <4>1
    <3> QED
      BY <1>3, <2>1, <3>1, <3>2, QuietMove, Phases DEF SelectDocument
  <2>2. CASE target' # target
    <3>1. PICK d \in Uploads :
            /\ pc[u] = "select" /\ Go(u, "read")
            /\ HasRow(d) /\ Body[d] = Body[u]
            /\ target' = [target EXCEPT ![u] = d]
            /\ UNCHANGED <<docs, chunks, cited, points>>
      BY <1>3, <2>2 DEF SelectDocument
    <3>2. d # u
      BY <1>0, <3>1 DEF RequestInv, Decided
    <3>3. Cat!Join(u, d)
      BY <3>1, <3>2, PhaseMoves, Phases
         DEF Cat!Join, Cat!Listed, Cat!Absent, Cat!Becomes, HasRow, NoRow, Of
    <3> QED
      BY <3>3 DEF Cat!CatNext
  <2> QED
    BY <2>1, <2>2
<1>4. CASE ReadExisting(u)
  BY <1>4, QuietMove, Phases DEF ReadExisting
<1>5. CASE WipePoints(u)
  <2>1. CASE points' = points
    BY <1>5, <2>1, QuietMove, Phases DEF WipePoints
  <2>2. CASE points' # points
    <3> DEFINE d == target[u]
    <3>1. /\ pc[u] = "wipePoints" /\ Go(u, "wipeChunks")
          /\ points' = points \ Of(d, points)
          /\ UNCHANGED <<docs, chunks, cited, target>>
      BY <1>5, <2>2 DEF WipePoints
    <3>2. Decided(d)
      BY <1>0, <3>1 DEF RequestInv, Joined
    <3>3. Phase(pc[d]) # "new"
      BY <1>0, <3>2 DEF Decided, Phase
    <3>4. /\ Of(d, points') = {}
          /\ \A e \in Uploads : e # d => Of(e, points') = Of(e, points)
      BY <3>1 DEF Of
    <3>5. [e \in Uploads |-> Of(e, points')] = [[e \in Uploads |-> Of(e, points)] EXCEPT ![d] = {}]
      BY <1>0, <3>4, ContentsMove
    <3>6. \A v \in Uploads : Phase(pc'[v]) = Phase(pc[v])
      BY <3>1, PhaseMoves, Phases
    <3>7. Cat!Unindex(d)
      BY <1>0, <3>1, <3>3, <3>5, <3>6 DEF Cat!Unindex, Of
    <3> QED
      BY <1>0, <3>7 DEF Cat!CatNext
  <2> QED
    BY <2>1, <2>2
<1>6. CASE WipeChunks(u)
  <2>1. CASE chunks' = chunks /\ cited' = cited
    BY <1>6, <2>1, QuietMove, Phases DEF WipeChunks
  <2>2. CASE ~(chunks' = chunks /\ cited' = cited)
    <3> DEFINE d == target[u]
    <3>1. /\ pc[u] = "wipeChunks" /\ Go(u, "mark")
          /\ Of(d, cited) = {} /\ chunks' = chunks \ Of(d, chunks)
          /\ cited' = cited \ Of(d, chunks)
          /\ UNCHANGED <<docs, points, target>>
      BY <1>6, <2>2 DEF WipeChunks, DropChunks
    <3>2. d # u
      BY <1>0, <3>1 DEF RequestInv
    <3>3. Of(d, chunks) \cap cited = {} /\ cited' = cited
      BY <3>1 DEF Of
    <3>4. /\ Of(d, chunks') = {}
          /\ \A e \in Uploads : e # d => Of(e, chunks') = Of(e, chunks)
      BY <3>1 DEF Of
    <3>5. [e \in Uploads |-> Of(e, chunks')] = [[e \in Uploads |-> Of(e, chunks)] EXCEPT ![d] = {}]
      BY <1>0, <3>4, ContentsMove
    <3>6. \A v \in Uploads : Phase(pc'[v]) = Phase(pc[v])
      BY <3>1, PhaseMoves, Phases
    <3>7. Cat!Clear(u)
      BY <1>0, <3>1, <3>2, <3>3, <3>5, <3>6, Phases DEF Cat!Clear, Of
    <3> QED
      BY <3>7 DEF Cat!CatNext
  <2> QED
    BY <2>1, <2>2
<1>7. ASSUME NEW s \in {"processing", "completed", "failed"},
             NEW n, n = IF s = "completed" THEN N(u) ELSE 0,
             NEW r, UpdateDocumentStatus(target[u], s, n, r),
             NEW there, Go(u, there), UNCHANGED <<chunks, cited, points, target>>,
             \/ s = "processing" /\ pc[u] = "mark" /\ there = "prepare"
             \/ s = "completed" /\ pc[u] = "finish" /\ there = "completed"
             \/ s = "failed" /\ pc[u] = "fail" /\ there = "error"
      PROVE  [Cat!CatNext]_(Cat!catVars)
  <2>1. CASE docs' = docs
    BY <1>7, <2>1, QuietMove, Phases
  <2>2. CASE Cat!Says(u, s, n)
    <3>1. Cat!Announce(u)
      <4>1. CASE s = "processing"
        <5>1. \A v \in Uploads : Phase(pc'[v]) = Phase(pc[v])
          BY <1>7, <4>1, PhaseMoves, Phases
        <5> QED
          BY <1>7, <2>2, <4>1, <5>1, Phases DEF Cat!Announce, Of
      <4>2. CASE s = "completed"
        BY <1>7, <2>2, <4>2, PhaseMoves, Phases, WholeIsBatch DEF Cat!Announce, Of
      <4>3. CASE s = "failed"
        BY <1>7, <2>2, <4>3, PhaseMoves, Phases DEF Cat!Announce, Of
      <4> QED
        BY <4>1, <4>2, <4>3
    <3> QED
      BY <3>1 DEF Cat!CatNext
  <2> QED
    BY <1>7, <2>1, <2>2, SaysStatus
<1>8. CASE MarkProcessing(u) \/ Finish(u) \/ Fail(u)
  <2>1. CASE MarkProcessing(u)
    BY <1>7, <2>1 DEF MarkProcessing
  <2>2. CASE Finish(u)
    BY <1>7, <2>2 DEF Finish
  <2>3. CASE Fail(u)
    BY <1>7, <2>3 DEF Fail
  <2> QED
    BY <1>8, <2>1, <2>2, <2>3
<1>9. CASE Prepare(u) \/ LinkChunks(u)
  <2>1. CASE Prepare(u)
    BY <2>1, QuietMove, Phases DEF Prepare, stores
  <2>2. CASE LinkChunks(u)
    BY <2>2, QuietMove, Phases DEF LinkChunks
  <2> QED
    BY <1>9, <2>1, <2>2
<1>10. CASE StoreChunks(u)
  <2> DEFINE d == target[u]
  <2>1. CASE chunks' = chunks /\ Batch(u) # {} /\ Go(u, "fail")
    BY <1>10, <2>1, QuietMove, Phases DEF StoreChunks
  <2>2. CASE ~(chunks' = chunks /\ Batch(u) # {} /\ Go(u, "fail"))
    <3>1. /\ pc[u] = "store" /\ (Go(u, "index") \/ Go(u, "fail"))
          /\ chunks' = chunks \cup Batch(u)
          /\ Batch(u) # {} => HasRow(d) /\ ~Clashes(u)
          /\ UNCHANGED <<docs, cited, points, target>>
      <4>1. CASE Batch(u) = {}
        BY <1>10, <2>2, <4>1 DEF StoreChunks
      <4>2. CASE Batch(u) # {}
        BY <1>10, <2>2, <4>2 DEF StoreChunks, Clashes
      <4> QED
        BY <4>1, <4>2
    <3>2. Batch(u) # {} => Of(d, chunks) = {}
      BY <3>1, NoClashNoRows DEF StoreInv
    <3>3. /\ Of(d, chunks') = Of(d, chunks) \cup Batch(u)
          /\ \A e \in Uploads : e # d => Of(e, chunks') = Of(e, chunks)
      BY <3>1, BatchType DEF Of
    <3>4. [e \in Uploads |-> Of(e, chunks')] =
             [[e \in Uploads |-> Of(e, chunks)] EXCEPT ![d] = Of(d, chunks) \cup Batch(u)]
      BY <1>0, <3>3, ContentsMove
    <3>5. Cat!Fill(u)
      <4>1. Cat!Becomes(u, "filled") \/ Cat!Becomes(u, "failing")
        BY <3>1, PhaseMoves, Phases
      <4>2. Phase(pc[u]) = "ready"
        BY <3>1, Phases
      <4>3. Cat!Whole(u) # {} => Cat!Listed(d) /\ Of(d, chunks) = {}
        BY <3>1, <3>2, WholeIsBatch DEF Cat!Listed, Cat!Absent, HasRow, NoRow
      <4>4. [e \in Uploads |-> Of(e, chunks')] =
              [[e \in Uploads |-> Of(e, chunks)] EXCEPT ![d] = Of(d, chunks) \cup Cat!Whole(u)]
        BY <3>4, WholeIsBatch
      <4> QED
        BY <1>0, <3>1, <4>1, <4>2, <4>3, <4>4 DEF Cat!Fill, Of
    <3> QED
      BY <3>5 DEF Cat!CatNext
  <2> QED
    BY <2>1, <2>2
<1>11. CASE IndexChunks(u)
  <2> DEFINE d == target[u]
  <2>1. CASE points' = points /\ Go(u, "fail")
    BY <1>11, <2>1, QuietMove, Phases DEF IndexChunks
  <2>2. CASE points' = Upsert(Batch(u))
    <3>1. /\ pc[u] = "index" /\ (Go(u, "link") \/ Go(u, "fail"))
          /\ UNCHANGED <<docs, chunks, cited, target>>
      BY <1>11 DEF IndexChunks
    <3> DEFINE new == {p \in Of(d, points) : p.idx >= N(u)} \cup Batch(u)
    <3>2. [e \in Uploads |-> Of(e, points')] =
             [[e \in Uploads |-> Of(e, points)] EXCEPT ![d] = new]
      <4>1. /\ Of(d, points') = new
            /\ \A e \in Uploads : e # d => Of(e, points') = Of(e, points)
        BY <2>2, UpsertReplaces
      <4> QED
        BY <1>0, <4>1, ContentsMove
    <3>3. Cat!Index(u)
      <4>1. Cat!Becomes(u, "indexed") \/ Cat!Becomes(u, "failing")
        BY <3>1, PhaseMoves, Phases
      <4>2. Phase(pc[u]) = "filled"
        BY <3>1, Phases
      <4>3. [e \in Uploads |-> Of(e, points')] =
              [[e \in Uploads |-> Of(e, points)] EXCEPT ![d] =
                 {v \in Of(d, points) : v.idx >= Cat!Chunks(u)} \cup Cat!Whole(u)]
        BY <3>2, WholeIsBatch
      <4> QED
        BY <1>0, <3>1, <4>1, <4>2, <4>3 DEF Cat!Index, Of
    <3> QED
      BY <3>3 DEF Cat!CatNext
  <2> QED
    BY <1>11, <2>1, <2>2 DEF IndexChunks
<1> QED
  BY <1>1, <1>2, <1>3, <1>4, <1>5, <1>6, <1>8, <1>9, <1>10, <1>11 DEF UploadStep

(* Every step of a delete is a step of the catalogue, or none. *)
LEMMA DeleteMaps ==
  ASSUME TypeOK, StoreInv, [Next]_vars,
         NEW x \in Deletes, StartDelete(x) \/ DeleteStep(x)
  PROVE  [Cat!CatNext]_(Cat!catVars)
<1> DEFINE d == dtarget[x]
<1>0. d \in Uploads /\ DeleteInv
  BY DEF TypeOK, StoreInv
<1>1. CASE StartDelete(x) \/ RemoveFile(x)
  BY <1>1 DEF StartDelete, RemoveFile, stores, Cat!catVars, Of
<1>2. CASE DeletePoints(x)
  <2>1. CASE points' = points
    BY <1>2, <2>1 DEF DeletePoints, Cat!catVars, Of
  <2>2. CASE points' # points
    <3>1. /\ dpc[x] = "unindex" /\ points' = points \ Of(d, points)
          /\ UNCHANGED <<docs, chunks, cited, pc, target>>
      BY <1>2, <2>2 DEF DeletePoints
    <3>2. Phase(pc[d]) # "new"
      BY <1>0, <3>1 DEF DeleteInv, Decided, Phase
    <3>3. /\ Of(d, points') = {}
          /\ \A e \in Uploads : e # d => Of(e, points') = Of(e, points)
      BY <3>1 DEF Of
    <3>4. [e \in Uploads |-> Of(e, points')] = [[e \in Uploads |-> Of(e, points)] EXCEPT ![d] = {}]
      BY <1>0, <3>3, ContentsMove
    <3>5. Cat!Unindex(d)
      BY <1>0, <3>1, <3>2, <3>4 DEF Cat!Unindex, Of
    <3> QED
      BY <1>0, <3>5 DEF Cat!CatNext
  <2> QED
    BY <2>1, <2>2
<1>3. CASE Erase(x)
  <2>1. CASE UNCHANGED <<docs, chunks, cited>>
    BY <1>3, <2>1 DEF Erase, Cat!catVars, Of
  <2>2. CASE ~UNCHANGED <<docs, chunks, cited>>
    <3>1. /\ docs' = [docs EXCEPT ![d] = NoRow]
          /\ chunks' = chunks \ Of(d, chunks) /\ cited' = cited \ Of(d, chunks)
          /\ UNCHANGED <<points, pc, target>>
      BY <1>3, <2>2 DEF Erase, DropChunks
    <3>2. HasRow(d)
      <4>1. ASSUME ~HasRow(d) PROVE FALSE
        <5>1. Of(d, chunks) = {} /\ docs' = docs
          BY <1>0, <3>1, <4>1 DEF StoreInv, ChunksAllOrNothing, HasRow, TypeOK
        <5> QED
          BY <2>2, <3>1, <5>1
      <4> QED
        BY <4>1
    <3>3. /\ Of(d, chunks') = {}
          /\ \A e \in Uploads : e # d => Of(e, chunks') = Of(e, chunks)
      BY <3>1 DEF Of
    <3>4. [e \in Uploads |-> Of(e, chunks')] = [[e \in Uploads |-> Of(e, chunks)] EXCEPT ![d] = {}]
      BY <1>0, <3>3, ContentsMove
    <3>5. Cat!Unlist(d)
      BY <1>0, <3>1, <3>2, <3>4 DEF Cat!Unlist, Cat!Listed, Cat!Absent, HasRow, NoRow, Of
    <3> QED
      BY <1>0, <3>5 DEF Cat!CatNext
  <2> QED
    BY <2>1, <2>2
<1> QED
  BY <1>1, <1>2, <1>3 DEF DeleteStep

(* ImplementsCatalogue: whatever fails, is lost or crashes between the calls to
   the stores, every one of them is a step of the catalogue or none. *)
THEOREM IngestImplementsCatalogue == Spec => ImplementsCatalogue
<1>1. Init => Cat!CatInit
  BY Phases DEF Init, Cat!CatInit, Cat!Absent, NoRow, Of
<1>2. Init => Joined
  BY DEF Init, Joined
<1>3. TypeOK /\ StoreInv /\ Joined /\ [Next]_vars => Joined'
  BY NextJoined
<1>4. ASSUME TypeOK, StoreInv, Joined, [Next]_vars
      PROVE  [Cat!CatNext]_(Cat!catVars)
  <2>1. CASE Cite
    <3>1. PICK k \in chunks : cited' = cited \cup {k}
      BY <2>1 DEF Cite
    <3>2. k.doc \in Uploads /\ k \in Of(k.doc, chunks)
      BY <1>4 DEF TypeOK, Items, Of
    <3>3. Cat!Quote(k.doc)
      BY <2>1, <3>1, <3>2 DEF Cat!Quote, Cite, Of
    <3> QED
      BY <3>2, <3>3 DEF Cat!CatNext
  <2>2. CASE Crash
    <3> DEFINE begun == {u \in Uploads : pc'[u] # "idle"}
    <3>1. /\ UNCHANGED <<docs, chunks, cited, points, target>>
          /\ pc' = [u \in Uploads |-> IF pc[u] \in UploadSteps THEN "crashed" ELSE pc[u]]
      BY <2>2 DEF Crash, stores
    <3>2. ASSUME NEW u \in Uploads
          PROVE  /\ Phase(pc[u]) # "new" => u \in begun
                 /\ Phase(pc'[u]) = IF u \in begun THEN "over" ELSE Phase(pc[u])
      <4>1. pc[u] \in UploadStates
        BY <1>4 DEF TypeOK
      <4>2. CASE pc[u] = "idle"
        BY <3>1, <4>2, Phases DEF UploadSteps
      <4>3. CASE pc[u] # "idle"
        <5>1. /\ pc'[u] \in {"completed", "reused", "error", "crashed"}
          BY <3>1, <4>1, <4>3 DEF UploadStates, UploadSteps, UploadAnswers
        <5> QED
          BY <5>1, Phases
      <4> QED
        BY <4>2, <4>3
    <3>3. Cat!Restart
      BY <3>1, <3>2 DEF Cat!Restart, Of
    <3> QED
      BY <3>3 DEF Cat!CatNext
  <2>3. CASE UNCHANGED vars
    BY <2>3 DEF vars, Cat!catVars, Of
  <2> QED
    BY <1>4, <2>1, <2>2, <2>3, UploadMaps, DeleteMaps DEF Next
<1> QED
  BY <1>1, <1>2, <1>3, <1>4, IngestTypeCorrect, IngestStoreInvariant, PTL
     DEF Spec, ImplementsCatalogue, Cat!CatSpec
=============================================================================

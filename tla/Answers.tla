------------------------------- MODULE Answers -------------------------------
(***************************************************************************)
(* Single-turn questions about one knowledge base: AskQuestion and Ask of  *)
(* internal/service/qa/qa.go, Search of internal/service/search/search.go, *)
(* the two Redis caches between them and the records they leave in MySQL.  *)
(* The documents come and go meanwhile; of that only the effect on the     *)
(* chunk rows and the vector points is kept here (Ingest has the rest).    *)
(*                                                                         *)
(* Scores, prompts and texts are left out: an answer is what it was made   *)
(* of.  A Redis error, a corrupt value and a disabled cache are a miss.    *)
(***************************************************************************)
EXTENDS Integers, FiniteSets

CONSTANTS
  Requests,   \* clients: each calls Search as often as it likes, and AskQuestion once
  Questions,
  TopKs,      \* the values of top_k clients send
  DefaultK,   \* the topK Search takes in place of one that makes no sense
  LargestK,   \* the largest topK Search accepts
  Chunks,
  Deletable,  \* those whose document may be deleted
  None,       \* no record, no cache entry
  QATTL,      \* ttl of the answer cache, in ticks
  VectorTTL,  \* ttl of the vector cache, in ticks
  MaxLag,     \* bound on the ticks from a request's retrieval to its last write
  MaxFaults   \* bound on the calls that fail and the work that is dropped

ASSUME AnswersAssumption ==
  /\ TopKs \subseteq Int /\ LargestK \in Nat /\ DefaultK \in 1..LargestK
  /\ {QATTL, VectorTTL} \subseteq Nat \ {0} /\ {MaxLag, MaxFaults} \subseteq Nat
  /\ None \notin Requests \cup Questions
  /\ IsFiniteSet(Chunks) /\ Deletable \subseteq Chunks

VARIABLES
  rows,      \* the chunks in document_chunks
  points,    \* the chunks in Qdrant
  stored,    \* the chunks that ever had a row: their ids are not used again
  indexed,   \* the chunks that ever had a point
  gone,      \* the ticks since a chunk was last in MySQL or in Qdrant
  cited,     \* the chunks that rows of qa_sources refer to
  records,   \* the status of each request's row of qa_records
  qaCache,   \* answers by question
  vecCache,  \* hits by question and topK
  pc,        \* where each request is
  query,     \* the question, the topK, and whether an answer is asked for
  hits,      \* the chunks a request has retrieved
  lag,       \* ticks since then
  answer,    \* the AskResponse
  pending,   \* the record a request has handed to the worker pool
  faults

corpus == <<rows, points, stored, indexed>>
database == <<cited, records>>
caches == <<qaCache, vecCache>>
request == <<pc, query, hits, lag, answer, pending>>
vars == <<corpus, gone, database, caches, request, faults>>

Keys == Questions \X (TopKs \cup {DefaultK})
Queries == [question : Questions, topK : TopKs, op : {"ask", "search"}]
Horizon == QATTL + VectorTTL + 2 * MaxLag
Kinds == {"generated", "excerpt", "nothing"}
AnswerType == [record : Requests \cup {None}, kind : Kinds, flagged : BOOLEAN]
QAEntry == [record : Requests \cup {None}, kind : Kinds, sources : SUBSET Chunks, age : 0..QATTL]
VectorEntry == [hits : SUBSET Chunks, age : 0..VectorTTL]
Statuses == {"none", "success", "fallback", "failed"}
NoAnswer == [record |-> None, kind |-> "nothing", flagged |-> FALSE]
NoQuery == [question |-> None, topK |-> DefaultK, op |-> "search"]
NoRecord == [status |-> "none", sources |-> {}]

(* The steps between the retrieval of a request and the last use of it. *)
Holding == {"keep", "answer", "record", "save"}

Init ==
  /\ rows = {} /\ points = {} /\ stored = {} /\ indexed = {} /\ cited = {}
  /\ gone = [c \in Chunks |-> 0]
  /\ records = [r \in Requests |-> "none"]
  /\ qaCache = [q \in Questions |-> None]
  /\ vecCache = [k \in Keys |-> None]
  /\ pc = [r \in Requests |-> "idle"]
  /\ query = [r \in Requests |-> NoQuery]
  /\ hits = [r \in Requests |-> {}]
  /\ lag = [r \in Requests |-> 0]
  /\ answer = [r \in Requests |-> NoAnswer]
  /\ pending = [r \in Requests |-> NoRecord]
  /\ faults = 0

Goto(r, there) == pc' = [pc EXCEPT ![r] = there]
Question(r) == query[r].question

(* Search: topK as it is used, where the cache was asked for the raw one. *)
TopK(r) == IF query[r].topK <= 0 \/ query[r].topK > LargestK THEN DefaultK ELSE query[r].topK

(* Something fails. *)
Fault == faults < MaxFaults /\ faults' = faults + 1
NoFault == UNCHANGED faults

(* submitAsync hands the writing of a record to the pool, which turns it away
   when its queue is full: like a write that fails, this leaves no record. *)
Submit(r, status, sources) ==
  pending' = [pending EXCEPT ![r] = [status |-> status, sources |-> sources]]
-----------------------------------------------------------------------------
(* The search, and with it the request, fails. *)
SearchFails(r) ==
  /\ IF query[r].op = "ask"
     THEN Goto(r, "failed") /\ Submit(r, "failed", {}) /\ UNCHANGED query
     ELSE Goto(r, "idle") /\ query' = [query EXCEPT ![r] = NoQuery] /\ UNCHANGED pending
  /\ UNCHANGED <<hits, lag>>

(* A request is done with its hits. *)
Forget(r) ==
  /\ hits' = [hits EXCEPT ![r] = {}]
  /\ lag' = [lag EXCEPT ![r] = 0]

Retrieve(r, found) ==
  /\ hits' = [hits EXCEPT ![r] = found]
  /\ lag' = [lag EXCEPT ![r] = 0]

(* AskQuestion: the answer cache first.  A cached answer has lost its
   IsFallback, which model.QAResult has no field for. *)
AskCached(r, q, k) ==
  /\ pc[r] = "idle" /\ qaCache[q] # None
  /\ query' = [query EXCEPT ![r] = [question |-> q, topK |-> k, op |-> "ask"]]
  /\ answer' = [answer EXCEPT ![r] =
       [record |-> qaCache[q].record, kind |-> qaCache[q].kind, flagged |-> FALSE]]
  /\ Goto(r, "done")
  /\ UNCHANGED <<corpus, gone, database, caches, hits, lag, pending, faults>>

(* Search: the vector cache, under the topK the client sent. *)
ReadVectorsSliding(r, key) ==
  \/ /\ vecCache[key] # None
     /\ Retrieve(r, vecCache[key].hits)
     /\ vecCache' = [vecCache EXCEPT ![key].age = 0]
     /\ Goto(r, "answer")
  \/ Goto(r, "query") /\ UNCHANGED <<hits, lag, vecCache>>
ReadVectors(r, key) ==
  \/ /\ vecCache[key] # None
     /\ Retrieve(r, vecCache[key].hits)
     /\ Goto(r, "answer")
     /\ UNCHANGED vecCache
  \/ Goto(r, "query") /\ UNCHANGED <<hits, lag, vecCache>>

(* Ask, without a cached answer, and the search endpoint go on to Search.  They
   also do when Redis fails, which is a miss. *)
Start(r, q, k, op) ==
  /\ pc[r] = "idle"
  /\ query' = [query EXCEPT ![r] = [question |-> q, topK |-> k, op |-> op]]
  /\ ReadVectors(r, <<q, k>>)
  /\ IF (op = "ask" /\ qaCache[q] # None) \/ (vecCache[<<q, k>>] # None /\ pc'[r] = "query")
     THEN Fault ELSE NoFault
  /\ UNCHANGED <<corpus, gone, database, qaCache, answer, pending>>

Begin(r) ==
  \E q \in Questions, k \in TopKs :
    AskCached(r, q, k) \/ \E op \in {"ask", "search"} : Start(r, q, k, op)

(* The hits among `from`: Qdrant returns as many points as it is asked for and
   has, full-text search the rows, at most as many, that hold the question. *)
Nearest(from, k) ==
  {s \in SUBSET from : Cardinality(s) = IF Cardinality(from) < k THEN Cardinality(from) ELSE k}
Matching(from, k) == {s \in SUBSET from : Cardinality(s) <= k}

(* fallbackFullTextSearch: its hits are not put into the vector cache. *)
FallbackHits(r) ==
  \E found \in Matching(rows, TopK(r)) :
    /\ Retrieve(r, found)
    /\ Goto(r, "answer")
    /\ UNCHANGED <<query, pending>>

(* Search: GetEmbedding and Qdrant; without Qdrant full-text search in MySQL;
   without the embedding, or with neither, an error. *)
Query(r) ==
  /\ pc[r] = "query"
  /\ \/ \E found \in Nearest(points, TopK(r)) :
          /\ Retrieve(r, found)
          /\ NoFault
          /\ Goto(r, IF found = {} THEN "answer" ELSE "keep")
          /\ UNCHANGED <<query, pending>>
     \/ FallbackHits(r) /\ Fault
     \/ Fault /\ SearchFails(r)
  /\ UNCHANGED <<corpus, gone, database, caches, answer>>

(* Search: the hits go into the vector cache, under the topK that was used. *)
KeepVectorsForAllK(r) ==
  /\ pc[r] = "keep"
  /\ vecCache' = [k \in Keys |-> IF k[1] = Question(r) THEN [hits |-> hits[r], age |-> 0]
                                 ELSE vecCache[k]]
  /\ NoFault
  /\ Goto(r, "answer")
  /\ UNCHANGED <<corpus, gone, database, qaCache, query, hits, lag, answer, pending>>
KeepVectors(r) ==
  /\ pc[r] = "keep"
  /\ \/ /\ vecCache' = [vecCache EXCEPT ![<<Question(r), TopK(r)>>] = [hits |-> hits[r], age |-> 0]]
        /\ NoFault
     \/ Fault /\ UNCHANGED vecCache
  /\ Goto(r, "answer")
  /\ UNCHANGED <<corpus, gone, database, qaCache, query, hits, lag, answer, pending>>

(* Ask, with the hits: nothing found; or Complete fails and the hits are the
   answer; or it answers.  The search endpoint just returns the hits. *)
ReturnHits(r) ==
  /\ query[r].op = "search"
  /\ Goto(r, "idle") /\ Forget(r)
  /\ query' = [query EXCEPT ![r] = NoQuery]
  /\ UNCHANGED <<answer, pending>>
Fallback(r, kind, status) ==
  /\ answer' = [answer EXCEPT ![r] = [record |-> None, kind |-> kind, flagged |-> TRUE]]
  /\ Submit(r, status, hits[r])
  /\ Goto(r, "save")
Generate(r) ==
  /\ answer' = [answer EXCEPT ![r] = [record |-> None, kind |-> "generated", flagged |-> FALSE]]
  /\ Goto(r, "record")
  /\ UNCHANGED pending
Complete(r) ==
  /\ pc[r] = "answer"
  /\ \/ ReturnHits(r) /\ NoFault
     \/ /\ query[r].op = "ask"
        /\ IF hits[r] = {} THEN Fallback(r, "nothing", "success") /\ NoFault
           ELSE (Generate(r) /\ NoFault) \/ (Fallback(r, "excerpt", "fallback") /\ Fault)
        /\ UNCHANGED <<query, hits, lag>>
  /\ UNCHANGED <<corpus, gone, database, caches>>

(* CreateRecordWithSources: the record and its sources, all or nothing.  The
   foreign key refuses a source whose chunk has no row any more. *)
Insert(r, status, sources) ==
  /\ sources \subseteq rows
  /\ records' = [records EXCEPT ![r] = status]
  /\ cited' = cited \cup sources
NoInsert(sources) ==
  /\ IF sources \subseteq rows THEN Fault ELSE NoFault
  /\ UNCHANGED <<records, cited>>

(* Ask: a generated answer waits for its record, to return the record's id.
   The id is 0 when that fails, also when only the reply to COMMIT is lost. *)
RecordRegardless(r) ==
  /\ pc[r] = "record"
  /\ answer' = [answer EXCEPT ![r].record = r]
  /\ (Insert(r, "success", hits[r]) /\ NoFault) \/ NoInsert(hits[r])
  /\ Goto(r, "save")
  /\ UNCHANGED <<corpus, gone, caches, query, hits, lag, pending>>
Record(r) ==
  /\ pc[r] = "record"
  /\ \/ Insert(r, "success", hits[r]) /\ answer' = [answer EXCEPT ![r].record = r] /\ NoFault
     \/ Insert(r, "success", hits[r]) /\ Fault /\ UNCHANGED answer
     \/ NoInsert(hits[r]) /\ UNCHANGED answer
  /\ Goto(r, "save")
  /\ UNCHANGED <<corpus, gone, caches, query, hits, lag, pending>>

(* The worker pool writes the record of a failure or of a fallback. *)
PersistAsFailed(r) ==
  /\ pending[r].status # "none"
  /\ (Insert(r, "failed", pending[r].sources) /\ NoFault) \/ NoInsert(pending[r].sources)
  /\ pending' = [pending EXCEPT ![r] = NoRecord]
  /\ UNCHANGED <<corpus, gone, caches, pc, query, hits, lag, answer>>
Persist(r) ==
  /\ pending[r].status # "none"
  /\ (Insert(r, pending[r].status, pending[r].sources) /\ NoFault) \/ NoInsert(pending[r].sources)
  /\ pending' = [pending EXCEPT ![r] = NoRecord]
  /\ UNCHANGED <<corpus, gone, caches, pc, query, hits, lag, answer>>

(* AskQuestion: the answer has been returned, and a goroutine of its own puts
   it into the answer cache. *)
Save(r) ==
  /\ pc[r] = "save"
  /\ \/ /\ qaCache' = [qaCache EXCEPT ![Question(r)] =
                         [record |-> answer[r].record, kind |-> answer[r].kind,
                          sources |-> hits[r], age |-> 0]]
        /\ NoFault
     \/ Fault /\ UNCHANGED qaCache
  /\ Goto(r, "done") /\ Forget(r)
  /\ UNCHANGED <<corpus, gone, database, vecCache, query, answer, pending>>

(* SubmitFeedback, by a client that was given a record's id; the foreign key
   of qa_feedback wants that record. *)
Feedback(r) ==
  /\ pc[r] = "done" /\ answer[r].record # None
  /\ records[answer[r].record] # "none"
  /\ Goto(r, "rated")
  /\ UNCHANGED <<corpus, gone, database, caches, query, hits, lag, answer, pending, faults>>

Request(r) ==
  \/ Begin(r) \/ Query(r) \/ KeepVectors(r) \/ Complete(r)
  \/ Record(r) \/ Persist(r) \/ Save(r) \/ Feedback(r)
-----------------------------------------------------------------------------
(* The document service, as seen from here: ProcessDocument stores the rows of
   a chunk and then its point, perhaps after a delete has been and gone;
   DeleteDocument removes the point and then, in one transaction, what cites
   the row and the row. *)
Present(c) == gone' = [gone EXCEPT ![c] = 0]

Store(c) ==
  /\ c \notin stored
  /\ rows' = rows \cup {c} /\ stored' = stored \cup {c}
  /\ Present(c)
  /\ UNCHANGED <<points, indexed, database, caches, request, faults>>
Index(c) ==
  /\ c \in stored \ indexed
  /\ points' = points \cup {c} /\ indexed' = indexed \cup {c}
  /\ Present(c)
  /\ UNCHANGED <<rows, stored, database, caches, request, faults>>
Unindex(c) ==
  /\ c \in points \cap Deletable
  /\ points' = points \ {c}
  /\ UNCHANGED <<rows, stored, indexed, gone, database, caches, request, faults>>
EraseCited(c) ==
  /\ c \in rows \cap Deletable
  /\ rows' = rows \ {c}
  /\ UNCHANGED <<points, stored, indexed, gone, database, caches, request, faults>>
Erase(c) ==
  /\ c \in rows \cap Deletable
  /\ rows' = rows \ {c} /\ cited' = cited \ {c}
  /\ UNCHANGED <<points, stored, indexed, gone, records, caches, request, faults>>

Corpus(c) == Store(c) \/ Index(c) \/ Unindex(c) \/ Erase(c)

(* Time: entries of the caches expire, and no request sits on what it has
   retrieved for more than MaxLag ticks. *)
Older(e, ttl) == IF e = None \/ e.age >= ttl THEN None ELSE [e EXCEPT !.age = @ + 1]
Tick ==
  /\ \A r \in Requests : pc[r] \in Holding => lag[r] < MaxLag
  /\ lag' = [r \in Requests |-> IF pc[r] \in Holding THEN lag[r] + 1 ELSE lag[r]]
  /\ gone' = [c \in Chunks |-> IF c \in rows \cup points THEN 0
                               ELSE IF gone[c] > Horizon THEN gone[c] ELSE gone[c] + 1]
  /\ qaCache' = [q \in Questions |-> Older(qaCache[q], QATTL)]
  /\ vecCache' = [k \in Keys |-> Older(vecCache[k], VectorTTL)]
  /\ UNCHANGED <<corpus, database, pc, query, hits, answer, pending, faults>>

Next ==
  \/ Tick
  \/ \E r \in Requests : Request(r)
  \/ \E c \in Chunks : Corpus(c)

Spec == Init /\ [][Next]_vars
-----------------------------------------------------------------------------
(* Type invariant. *)
TypeOK ==
  /\ rows \subseteq stored /\ stored \subseteq Chunks
  /\ points \subseteq indexed /\ indexed \subseteq stored
  /\ gone \in [Chunks -> 0..(Horizon + 1)]
  /\ cited \subseteq rows
  /\ records \in [Requests -> Statuses]
  /\ qaCache \in [Questions -> QAEntry \cup {None}]
  /\ vecCache \in [Keys -> VectorEntry \cup {None}]
  /\ pc \in [Requests -> Holding \cup {"idle", "query", "done", "rated", "failed"}]
  /\ query \in [Requests -> Queries \cup {NoQuery}]
  /\ hits \in [Requests -> SUBSET Chunks]
  /\ lag \in [Requests -> 0..MaxLag]
  /\ answer \in [Requests -> AnswerType]
  /\ faults \in 0..MaxFaults
  /\ pending \in [Requests -> [status : Statuses, sources : SUBSET Chunks]]

(* What has been deleted goes out of the answers, although nothing invalidates
   the caches: no request and no cache holds a chunk that left MySQL and Qdrant
   longer ago than both lifetimes, one after the other, and two requests take.
   (The design, RAG_ROBOT项目设计.md:237 and 239, has the entries of a knowledge
   base evicted when its documents change; InvalidateByKB does not do it.) *)
Held ==
  (UNION {hits[r] : r \in {p \in Requests : pc[p] \in Holding}})
    \cup (UNION {vecCache[k].hits : k \in {j \in Keys : vecCache[j] # None}})
    \cup (UNION {qaCache[q].sources : q \in {p \in Questions : qaCache[p] # None}})
DeletedContentAgesOut == \A c \in Held : gone[c] <= Horizon

(* Whoever is given the id of a record, in a new or in a cached answer, can send
   feedback for it: the record is there, and is that of a generated answer to
   the same question. *)
FeedbackHasRecord ==
  \A r \in Requests :
    LET q == answer[r].record
    IN  (pc[r] \in {"save", "done", "rated"} /\ q # None) =>
          records[q] = "success" /\ answer[q].kind = "generated" /\ Question(q) = Question(r)

(* A record tells what its request came to, whoever writes it and when; only an
   answer that was made for the request has one. *)
RecordTellsOutcome ==
  \A r \in Requests : records[r] # "none" =>
    /\ query[r].op = "ask"
    /\ records[r] = "failed" <=> pc[r] = "failed"
    /\ records[r] = "fallback" => answer[r].kind = "excerpt" /\ answer[r].flagged
    /\ records[r] = "success" => (answer[r].kind = "nothing" <=> answer[r].flagged)

(* No request gets more hits than it asked for, however they came to it. *)
HitsFitTopK == \A r \in Requests : pc[r] \in Holding => Cardinality(hits[r]) <= TopK(r)
=============================================================================

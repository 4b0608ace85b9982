---------------------------- MODULE AnswersProofs ----------------------------
(***************************************************************************)
(* Proofs about single-turn questions, for any clients, questions, chunks, *)
(* values of top_k, lifetimes of the caches and number of faults.          *)
(***************************************************************************)
EXTENDS Answers, FiniteSetTheorems, TLAPS

(* The bounds of the model are numbers. *)
LEMMA Bounds ==
  /\ QATTL \in Nat /\ VectorTTL \in Nat /\ MaxLag \in Nat /\ MaxFaults \in Nat
  /\ Horizon \in Nat /\ Horizon = QATTL + VectorTTL + 2 * MaxLag
BY AnswersAssumption DEF Horizon

(* What Search takes for topK. *)
LEMMA TopKNormalised ==
  ASSUME TypeOK, NEW r \in Requests
  PROVE  TopK(r) \in 1..LargestK
<1>1. query[r] \in Queries \cup {NoQuery}
  BY DEF TypeOK
<1>2. query[r].topK \in Int
  <2>1. CASE query[r] \in Queries
    BY <2>1, AnswersAssumption DEF Queries
  <2>2. CASE query[r] = NoQuery
    BY <2>2, AnswersAssumption DEF NoQuery
  <2> QED
    BY <1>1, <2>1, <2>2
<1> QED
  BY <1>2, AnswersAssumption DEF TopK
-----------------------------------------------------------------------------
(* The types. *)
Places == Holding \cup {"idle", "query", "done", "rated", "failed"}
Pendings == [status : Statuses, sources : SUBSET Chunks]

(* Where a request goes is a place. *)
LEMMA GotoTypes ==
  ASSUME TypeOK, NEW r \in Requests, NEW there \in Places, Goto(r, there)
  PROVE  pc' \in [Requests -> Places]
BY DEF Goto, TypeOK, Places

(* What a request retrieves are chunks. *)
LEMMA RetrieveTypes ==
  ASSUME TypeOK, NEW r \in Requests, NEW found \in SUBSET Chunks, Retrieve(r, found)
  PROVE  hits' \in [Requests -> SUBSET Chunks] /\ lag' \in [Requests -> 0..MaxLag]
BY Bounds DEF Retrieve, TypeOK

(* What a request hands to the pool is a record. *)
LEMMA SubmitTypes ==
  ASSUME TypeOK, NEW r \in Requests, NEW status \in Statuses, NEW sources \in SUBSET Chunks,
         Submit(r, status, sources)
  PROVE  pending' \in [Requests -> Pendings]
<1>1. [status |-> status, sources |-> sources] \in Pendings
  BY DEF Pendings
<1>2. pending \in [Requests -> Pendings]
  BY DEF TypeOK, Pendings
<1> QED
  BY <1>1, <1>2 DEF Submit

(* The two caches give a request answers and hits of their types. *)
LEMMA StartTypes ==
  ASSUME TypeOK, NEW r \in Requests, Begin(r)
  PROVE  TypeOK'
<1>0. NoFault \/ Fault => faults' \in 0..MaxFaults
  BY Bounds DEF NoFault, Fault, TypeOK
<1>1. ASSUME NEW q \in Questions, NEW k \in TopKs, AskCached(r, q, k)
      PROVE  TypeOK'
  <2>1. qaCache[q] \in QAEntry
    BY <1>1 DEF AskCached, TypeOK
  <2>2. answer' \in [Requests -> AnswerType]
    BY <1>1, <2>1 DEF AskCached, TypeOK, AnswerType, QAEntry
  <2>3. query' \in [Requests -> Queries \cup {NoQuery}]
    BY <1>1 DEF AskCached, TypeOK, Queries
  <2>4. pc' \in [Requests -> Places]
    BY <1>1, GotoTypes DEF AskCached, Places
  <2>5. UNCHANGED <<rows, points, stored, indexed, gone, cited, records, qaCache, vecCache,
                    hits, lag, pending, faults>>
    BY <1>1 DEF AskCached, corpus, database, caches
  <2> QED
    BY <2>2, <2>3, <2>4, <2>5 DEF TypeOK, Places
<1>2. ASSUME NEW q \in Questions, NEW k \in TopKs, NEW op \in {"ask", "search"}, Start(r, q, k, op)
      PROVE  TypeOK'
  <2>1. vecCache[<<q, k>>] \in VectorEntry \cup {None}
    BY <1>2 DEF Keys, TypeOK
  <2>2. /\ hits' \in [Requests -> SUBSET Chunks] /\ lag' \in [Requests -> 0..MaxLag]
        /\ pc' \in [Requests -> Places]
        /\ vecCache' = vecCache
    <3>1. CASE vecCache[<<q, k>>] # None /\ Retrieve(r, vecCache[<<q, k>>].hits)
                /\ Goto(r, "answer") /\ UNCHANGED vecCache
      BY <2>1, <3>1, RetrieveTypes, GotoTypes DEF VectorEntry, Places, Holding
    <3>2. CASE Goto(r, "query") /\ UNCHANGED <<hits, lag, vecCache>>
      BY <3>2, GotoTypes DEF TypeOK, Places
    <3> QED
      BY <1>2, <3>1, <3>2 DEF Start, ReadVectors
  <2>3. query' \in [Requests -> Queries \cup {NoQuery}]
    BY <1>2 DEF Start, TypeOK, Queries
  <2>4. UNCHANGED <<rows, points, stored, indexed, gone, cited, records, qaCache, answer, pending>>
    BY <1>2 DEF Start, corpus, database
  <2>5. faults' \in 0..MaxFaults
    BY <1>0, <1>2 DEF Start
  <2> QED
    BY <2>2, <2>3, <2>4, <2>5 DEF TypeOK, Places
<1> QED
  BY <1>1, <1>2 DEF Begin

(* The search gives it chunks, or fails it. *)
LEMMA QueryTypes ==
  ASSUME TypeOK, NEW r \in Requests, Query(r)
  PROVE  TypeOK'
<1>1. faults' \in 0..MaxFaults
  BY Bounds DEF Query, NoFault, Fault, TypeOK
<1>2. UNCHANGED <<rows, points, stored, indexed, gone, cited, records, qaCache, vecCache, answer>>
  BY DEF Query, corpus, database, caches
<1>3. ASSUME NEW found \in SUBSET (points \cup rows), NEW there \in {"answer", "keep"},
             Retrieve(r, found), Goto(r, there), UNCHANGED <<query, pending>>
      PROVE  TypeOK'
  <2>1. /\ hits' \in [Requests -> SUBSET Chunks] /\ lag' \in [Requests -> 0..MaxLag]
        /\ pc' \in [Requests -> Places]
    <3>1. found \in SUBSET Chunks
      BY <1>3 DEF TypeOK
    <3> QED
      BY <1>3, <3>1, RetrieveTypes, GotoTypes DEF Places, Holding
  <2> QED
    BY <1>1, <1>2, <1>3, <2>1 DEF TypeOK, Places
<1>4. CASE SearchFails(r)
  <2>1. UNCHANGED <<hits, lag>>
    BY <1>4 DEF SearchFails
  <2>2. query' \in [Requests -> Queries \cup {NoQuery}]
    BY <1>4 DEF SearchFails, TypeOK
  <2>3. pending' \in [Requests -> Pendings]
    BY <1>4, SubmitTypes DEF SearchFails, TypeOK, Statuses, Pendings
  <2>4. pc' \in [Requests -> Places]
    BY <1>4, GotoTypes DEF SearchFails, Places
  <2> QED
    BY <1>1, <1>2, <2>1, <2>2, <2>3, <2>4 DEF TypeOK, Places, Pendings
<1> QED
  BY <1>3, <1>4 DEF Query, FallbackHits, Nearest, Matching

(* The completion gives it an answer, a fallback or its hits. *)
LEMMA CompleteTypes ==
  ASSUME TypeOK, NEW r \in Requests, Complete(r)
  PROVE  TypeOK'
<1>1. faults' \in 0..MaxFaults
  BY Bounds DEF Complete, NoFault, Fault, TypeOK
<1>2. UNCHANGED <<rows, points, stored, indexed, gone, cited, records, qaCache, vecCache>>
  BY DEF Complete, corpus, database, caches
<1>3. CASE ReturnHits(r)
  <2>1. /\ query' \in [Requests -> Queries \cup {NoQuery}]
        /\ hits' \in [Requests -> SUBSET Chunks] /\ lag' \in [Requests -> 0..MaxLag]
        /\ pc' \in [Requests -> Places]
        /\ UNCHANGED <<answer, pending>>
    BY <1>3, Bounds, GotoTypes DEF ReturnHits, Forget, TypeOK, Places
  <2> QED
    BY <1>1, <1>2, <2>1 DEF TypeOK, Places
<1>4. ASSUME NEW kind \in {"nothing", "excerpt"}, NEW status \in Statuses,
             Fallback(r, kind, status), UNCHANGED <<query, hits, lag>>
      PROVE  TypeOK'
  <2>1. /\ answer' \in [Requests -> AnswerType]
        /\ pending' \in [Requests -> Pendings]
        /\ pc' \in [Requests -> Places]
    <3>1. answer' \in [Requests -> AnswerType]
      BY <1>4 DEF Fallback, TypeOK, AnswerType, Kinds
    <3>2. pending' \in [Requests -> Pendings]
      BY <1>4, SubmitTypes DEF Fallback, TypeOK
    <3> QED
      BY <1>4, <3>1, <3>2, GotoTypes DEF Fallback, Places, Holding
  <2> QED
    BY <1>1, <1>2, <1>4, <2>1 DEF TypeOK, Places, Pendings
<1>5. CASE Generate(r) /\ UNCHANGED <<query, hits, lag>>
  <2>1. /\ answer' \in [Requests -> AnswerType] /\ pending' = pending
        /\ pc' \in [Requests -> Places]
    BY <1>5, GotoTypes DEF Generate, TypeOK, AnswerType, Kinds, Places, Holding
  <2> QED
    BY <1>1, <1>2, <1>5, <2>1 DEF TypeOK, Places
<1> QED
  BY <1>3, <1>4, <1>5 DEF Complete, Statuses

(* What goes into the caches has their types. *)
LEMMA CacheTypes ==
  ASSUME TypeOK, NEW r \in Requests, KeepVectors(r) \/ Save(r)
  PROVE  TypeOK'
<1>1. faults' \in 0..MaxFaults
  BY Bounds DEF KeepVectors, Save, NoFault, Fault, TypeOK
<1>2. CASE KeepVectors(r)
  <2>1. [hits |-> hits[r], age |-> 0] \in VectorEntry
    BY Bounds DEF VectorEntry, TypeOK
  <2>2. vecCache' \in [Keys -> VectorEntry \cup {None}]
    BY <1>2, <2>1 DEF KeepVectors, TypeOK
  <2>3. UNCHANGED <<rows, points, stored, indexed, gone, cited, records, qaCache, query, hits, lag,
                    answer, pending>>
    BY <1>2 DEF KeepVectors, corpus, database
  <2>4. pc' \in [Requests -> Places]
    BY <1>2, GotoTypes DEF KeepVectors, Places, Holding
  <2> QED
    BY <1>1, <2>2, <2>3, <2>4 DEF TypeOK, Places
<1>3. CASE Save(r)
  <2>1. [record |-> answer[r].record, kind |-> answer[r].kind, sources |-> hits[r], age |-> 0]
          \in QAEntry
    <3>1. answer[r] \in AnswerType /\ hits[r] \in SUBSET Chunks
      BY DEF TypeOK
    <3> QED
      BY <3>1, Bounds DEF QAEntry, AnswerType
  <2>2. qaCache' \in [Questions -> QAEntry \cup {None}]
    BY <1>3, <2>1 DEF Save, TypeOK
  <2>3. UNCHANGED <<rows, points, stored, indexed, gone, cited, records, vecCache, query, answer,
                    pending>>
    BY <1>3 DEF Save, corpus, database
  <2>4. /\ pc' \in [Requests -> Places]
        /\ hits' \in [Requests -> SUBSET Chunks] /\ lag' \in [Requests -> 0..MaxLag]
    BY <1>3, GotoTypes, Bounds DEF Save, Forget, TypeOK, Places
  <2> QED
    BY <1>1, <2>2, <2>3, <2>4 DEF TypeOK, Places
<1> QED
  BY <1>2, <1>3

(* A record is written whole, and cites chunks that have a row. *)
LEMMA RecordTypes ==
  ASSUME TypeOK, NEW r \in Requests, Record(r) \/ Persist(r) \/ Feedback(r)
  PROVE  TypeOK'
<1>1. faults' \in 0..MaxFaults
  BY Bounds DEF Record, Persist, Feedback, NoInsert, NoFault, Fault, TypeOK
<1>2. ASSUME NEW status \in Statuses, NEW sources,
             Insert(r, status, sources) \/ NoInsert(sources)
      PROVE  cited' \subseteq rows /\ records' \in [Requests -> Statuses]
  BY <1>2 DEF Insert, NoInsert, TypeOK
<1>3. pending[r].status \in Statuses /\ NoRecord \in Pendings
  BY DEF TypeOK, NoRecord, Pendings, Statuses
<1>4. cited' \subseteq rows /\ records' \in [Requests -> Statuses]
  <2>1. CASE Record(r)
    BY <1>2, <2>1 DEF Record, Statuses
  <2>2. CASE Persist(r)
    BY <1>2, <1>3, <2>2 DEF Persist
  <2>3. CASE Feedback(r)
    BY <2>3 DEF Feedback, database, TypeOK
  <2> QED
    BY <2>1, <2>2, <2>3
<1>5. UNCHANGED <<rows, points, stored, indexed, gone, qaCache, vecCache, query, hits, lag>>
  BY DEF Record, Persist, Feedback, corpus, caches
<1>6. answer' \in [Requests -> AnswerType]
  <2>1. CASE answer' = answer
    BY <2>1 DEF TypeOK
  <2>2. CASE answer' = [answer EXCEPT ![r].record = r]
    <3>1. answer[r] \in AnswerType
      BY DEF TypeOK
    <3>2. [answer[r] EXCEPT !.record = r] \in AnswerType
      BY <3>1 DEF AnswerType
    <3> QED
      BY <2>2, <3>2 DEF TypeOK
  <2> QED
    BY <2>1, <2>2 DEF Record, Persist, Feedback
<1>7. pending' \in [Requests -> Pendings]
  BY <1>3 DEF Record, Persist, Feedback, TypeOK, Pendings
<1>8. pc' \in [Requests -> Places]
  <2>1. CASE Persist(r)
    BY <2>1 DEF Persist, TypeOK, Places
  <2>2. CASE Record(r) \/ Feedback(r)
    BY <2>2, GotoTypes DEF Record, Feedback, Places, Holding
  <2> QED
    BY <2>1, <2>2
<1> QED
  BY <1>1, <1>4, <1>5, <1>6, <1>7, <1>8 DEF TypeOK, Places, Pendings

(* Every step keeps the types. *)
LEMMA TypeStep ==
  ASSUME TypeOK, [Next]_vars
  PROVE  TypeOK'
<1>1. ASSUME NEW r \in Requests, Request(r)
      PROVE  TypeOK'
  BY <1>1, StartTypes, QueryTypes, CompleteTypes, CacheTypes, RecordTypes DEF Request
<1>2. ASSUME NEW c \in Chunks, Corpus(c)
      PROVE  TypeOK'
  <2>1. UNCHANGED <<records, qaCache, vecCache, pc, query, hits, lag, answer, pending, faults>>
    BY <1>2 DEF Corpus, Store, Index, Unindex, Erase, database, caches, request
  <2>2. gone' \in [Chunks -> 0..(Horizon + 1)]
    BY <1>2, Bounds DEF Corpus, Store, Index, Unindex, Erase, Present, TypeOK
  <2>3. /\ rows' \subseteq stored' /\ stored' \subseteq Chunks /\ cited' \subseteq rows'
        /\ points' \subseteq indexed' /\ indexed' \subseteq stored'
    BY <1>2 DEF Corpus, Store, Index, Unindex, Erase, database, TypeOK
  <2> QED
    BY <2>1, <2>2, <2>3 DEF TypeOK
<1>3. CASE Tick
  <2>1. UNCHANGED <<rows, points, stored, indexed, cited, records, pc, query, hits, answer, pending,
                    faults>>
    BY <1>3 DEF Tick, corpus, database
  <2>2. lag' \in [Requests -> 0..MaxLag]
    BY <1>3, Bounds DEF Tick, TypeOK
  <2>3. gone' \in [Chunks -> 0..(Horizon + 1)]
    BY <1>3, Bounds DEF Tick, TypeOK
  <2>4. ASSUME NEW e \in QAEntry \cup {None}
        PROVE  Older(e, QATTL) \in QAEntry \cup {None}
    BY Bounds DEF Older, QAEntry
  <2>5. ASSUME NEW e \in VectorEntry \cup {None}
        PROVE  Older(e, VectorTTL) \in VectorEntry \cup {None}
    BY Bounds DEF Older, VectorEntry
  <2>6. qaCache' \in [Questions -> QAEntry \cup {None}]
    BY <1>3, <2>4 DEF Tick, TypeOK
  <2>7. vecCache' \in [Keys -> VectorEntry \cup {None}]
    BY <1>3, <2>5 DEF Tick, TypeOK
  <2> QED
    BY <2>1, <2>2, <2>3, <2>6, <2>7 DEF TypeOK
<1>4. CASE UNCHANGED vars
  BY <1>4 DEF vars, corpus, database, caches, request, TypeOK
<1> QED
  BY <1>1, <1>2, <1>3, <1>4 DEF Next
-----------------------------------------------------------------------------
(* The inductive invariant, in parts.

   Content grows old with whatever holds it: a request that has asked Qdrant
   or MySQL, an entry of the vector cache made of such hits, a request that
   holds hits of either origin, an entry of the answer cache. *)
Aged ==
  /\ \A c \in rows \cup points : gone[c] = 0
  /\ \A r \in Requests : \A c \in hits[r] :
       /\ pc[r] = "keep" => gone[c] <= lag[r]
       /\ pc[r] \in Holding => gone[c] <= lag[r] + VectorTTL + MaxLag
  /\ \A k \in Keys : vecCache[k] # None =>
       \A c \in vecCache[k].hits : gone[c] <= vecCache[k].age + MaxLag
  /\ \A q \in Questions : qaCache[q] # None =>
       \A c \in qaCache[q].sources : gone[c] <= qaCache[q].age + VectorTTL + 2 * MaxLag

(* An entry of the vector cache stands under the topK it was retrieved with. *)
Fitting ==
  /\ \A q \in Questions, k \in TopKs \cup {DefaultK} : vecCache[<<q, k>>] # None =>
       k \in 1..LargestK /\ Cardinality(vecCache[<<q, k>>].hits) <= k
  /\ HitsFitTopK

(* A status, written or still in the pool, is that of the request. *)
Tells(r, status) ==
  /\ query[r].op = "ask" /\ pc[r] \in {"failed", "save", "done", "rated"}
  /\ status = "failed" <=> pc[r] = "failed"
  /\ status = "fallback" => answer[r].kind = "excerpt" /\ answer[r].flagged
  /\ status = "success" => (answer[r].kind = "nothing" <=> answer[r].flagged)
Settled ==
  \A r \in Requests :
    /\ records[r] # "none" => Tells(r, records[r])
    /\ pending[r].status # "none" =>
         /\ Tells(r, pending[r].status)
         /\ pc[r] # "failed" => answer[r].kind # "generated"
    /\ pc[r] = "record" =>
         /\ query[r].op = "ask"
         /\ answer[r].kind = "generated" /\ ~answer[r].flagged /\ answer[r].record = None

(* The ids of records in the answers and in the answer cache. *)
Given(p, question) ==
  /\ p \in Requests /\ records[p] = "success" /\ answer[p].kind = "generated"
  /\ Question(p) = question /\ pc[p] \in {"save", "done", "rated"}
HandedOut ==
  /\ \A r \in Requests :
       (pc[r] \in {"save", "done", "rated"} /\ answer[r].record # None) =>
         Given(answer[r].record, Question(r))
  /\ \A q \in Questions :
       (qaCache[q] # None /\ qaCache[q].record # None) => Given(qaCache[q].record, q)

Inv == TypeOK /\ Aged /\ Fitting /\ Settled /\ HandedOut
-----------------------------------------------------------------------------
(* A request leaves the others' state alone. *)
LEMMA OthersKept ==
  ASSUME TypeOK, NEW r \in Requests, Request(r), NEW p \in Requests, p # r
  PROVE  /\ pc'[p] = pc[p] /\ query'[p] = query[p] /\ hits'[p] = hits[p] /\ lag'[p] = lag[p]
         /\ answer'[p] = answer[p] /\ pending'[p] = pending[p] /\ records'[p] = records[p]
<1>1. CASE Begin(r)
  BY <1>1 DEF Begin, AskCached, Start, ReadVectors, Retrieve, Goto, database, TypeOK
<1>2. CASE Query(r)
  BY <1>2 DEF Query, FallbackHits, Retrieve, SearchFails, Submit, Goto, database, TypeOK
<1>3. CASE KeepVectors(r) \/ Save(r)
  BY <1>3 DEF KeepVectors, Save, Forget, Goto, database, TypeOK
<1>4. CASE Complete(r)
  BY <1>4 DEF Complete, ReturnHits, Fallback, Generate, Forget, Submit, Goto, database, TypeOK
<1>5. CASE Record(r) \/ Persist(r) \/ Feedback(r)
  BY <1>5 DEF Record, Persist, Feedback, Insert, NoInsert, Goto, database, TypeOK
<1> QED
  BY <1>1, <1>2, <1>3, <1>4, <1>5 DEF Request

(* How a request comes by its hits. *)
Keeps(r) ==
  /\ hits'[r] = hits[r] /\ lag'[r] = lag[r] /\ query'[r] = query[r]
  /\ pc'[r] \in Holding => pc[r] \in Holding
  /\ pc'[r] = "keep" => pc[r] = "keep"
Searches(r) ==
  /\ lag'[r] = 0 /\ query'[r] = query[r]
  /\ hits'[r] \subseteq rows \cup points /\ Cardinality(hits'[r]) <= TopK(r)
FindsCached(r, q, k) ==
  /\ lag'[r] = 0 /\ pc'[r] = "answer"
  /\ vecCache[<<q, k>>] # None /\ hits'[r] = vecCache[<<q, k>>].hits
  /\ query'[r].topK = k

(* A search finds chunks that are there, at most as many as it asks for. *)
LEMMA SearchSizes ==
  ASSUME TypeOK, NEW r \in Requests, NEW k \in Nat,
         NEW found, found \in Nearest(points, k) \/ found \in Matching(rows, k)
  PROVE  found \subseteq rows \cup points /\ Cardinality(found) <= k
<1>1. IsFiniteSet(points)
  BY AnswersAssumption, FS_Subset DEF TypeOK
<1>2. Cardinality(points) \in Nat
  BY <1>1, FS_CardinalityType
<1> QED
  BY <1>2 DEF Nearest, Matching

(* How a step of a request changes what the request holds. *)
LEMMA HitMoves ==
  ASSUME TypeOK, NEW r \in Requests, Request(r)
  PROVE  \/ pc'[r] \notin Holding
         \/ Keeps(r)
         \/ Searches(r)
         \/ \E q \in Questions, k \in TopKs : FindsCached(r, q, k)
<1>0. /\ \A there : Goto(r, there) => pc'[r] = there
      /\ \A found : Retrieve(r, found) => hits'[r] = found /\ lag'[r] = 0
  BY DEF Goto, Retrieve, TypeOK
<1>1. CASE Begin(r)
  <2>1. ASSUME NEW q \in Questions, NEW k \in TopKs, AskCached(r, q, k)
        PROVE  pc'[r] \notin Holding
    BY <1>0, <2>1 DEF AskCached, Holding
  <2>2. ASSUME NEW q \in Questions, NEW k \in TopKs, NEW op \in {"ask", "search"},
               Start(r, q, k, op)
        PROVE  pc'[r] \notin Holding \/ FindsCached(r, q, k)
    <3>1. query'[r].topK = k
      BY <2>2 DEF Start, TypeOK
    <3> QED
      BY <1>0, <2>2, <3>1 DEF Start, ReadVectors, FindsCached, Holding
  <2> QED
    BY <1>1, <2>1, <2>2 DEF Begin
<1>2. CASE Query(r)
  <2>1. TopK(r) \in Nat
    BY TopKNormalised, AnswersAssumption
  <2>2. CASE SearchFails(r)
    BY <1>0, <2>2 DEF SearchFails, Holding
  <2>3. ASSUME NEW found, found \in Nearest(points, TopK(r)) \/ found \in Matching(rows, TopK(r)),
               Retrieve(r, found), query' = query
        PROVE  Searches(r)
    BY <1>0, <2>1, <2>3, SearchSizes DEF Searches
  <2> QED
    BY <1>2, <2>2, <2>3 DEF Query, FallbackHits
<1>3. CASE KeepVectors(r)
  BY <1>0, <1>3 DEF KeepVectors, Keeps, Holding
<1>4. CASE Complete(r)
  <2>1. CASE ReturnHits(r)
    BY <1>0, <2>1 DEF ReturnHits, Holding
  <2>2. CASE UNCHANGED <<query, hits, lag>> /\ pc'[r] \in {"save", "record"}
    BY <1>4, <2>2 DEF Complete, Keeps, Holding
  <2> QED
    BY <1>0, <1>4, <2>1, <2>2 DEF Complete, Fallback, Generate
<1>5. CASE Record(r)
  BY <1>0, <1>5 DEF Record, Keeps, Holding
<1>6. CASE Persist(r)
  BY <1>6 DEF Persist, Keeps
<1>7. CASE Save(r) \/ Feedback(r)
  BY <1>0, <1>7 DEF Save, Feedback, Holding
<1> QED
  BY <1>1, <1>2, <1>3, <1>4, <1>5, <1>6, <1>7 DEF Request

(* How a request changes a cache; it changes nothing about the documents. *)
LEMMA CacheMoves ==
  ASSUME NEW r \in Requests, Request(r)
  PROVE  /\ UNCHANGED <<rows, points, gone>>
         /\ \/ vecCache' = vecCache
            \/ /\ pc[r] = "keep"
               /\ vecCache' = [vecCache EXCEPT ![<<Question(r), TopK(r)>>] =
                                  [hits |-> hits[r], age |-> 0]]
         /\ \/ qaCache' = qaCache
            \/ /\ pc[r] = "save"
               /\ qaCache' = [qaCache EXCEPT ![Question(r)] =
                                [record |-> answer[r].record, kind |-> answer[r].kind,
                                 sources |-> hits[r], age |-> 0]]
BY DEF Request, Begin, AskCached, Start, ReadVectors, Query, KeepVectors, Complete, Record, Persist,
       Save, Feedback, corpus, caches

(* The steps of the documents leave the requests and the caches alone. *)
LEMMA CorpusMoves ==
  ASSUME TypeOK, NEW c \in Chunks, Corpus(c)
  PROVE  /\ UNCHANGED <<records, qaCache, vecCache, pc, query, hits, lag, answer, pending>>
         /\ rows' \cup points' \subseteq rows \cup points \cup {c}
         /\ \/ gone' = [gone EXCEPT ![c] = 0]
            \/ gone' = gone /\ rows' \cup points' \subseteq rows \cup points
BY DEF Corpus, Store, Index, Unindex, Erase, Present, database, caches, request

(* Deleted chunks age out of the requests, the vector cache and the answer
   cache, each within its time. *)
LEMMA AgedStep ==
  ASSUME Inv, [Next]_vars
  PROVE  Aged'
<1>0. /\ TypeOK /\ Aged
      /\ gone \in [Chunks -> 0..(Horizon + 1)] /\ lag \in [Requests -> 0..MaxLag]
      /\ \A r \in Requests : hits[r] \subseteq Chunks
      /\ \A k \in Keys : vecCache[k] # None => vecCache[k] \in VectorEntry
      /\ \A q \in Questions : qaCache[q] # None => qaCache[q] \in QAEntry
      /\ rows \cup points \subseteq Chunks
  BY DEF Inv, TypeOK
<1>1. ASSUME NEW r \in Requests, Request(r)
      PROVE  Aged'
  <2>1. UNCHANGED <<rows, points, gone>>
    BY <1>1, CacheMoves
  <2>2. ASSUME NEW p \in Requests, NEW c \in hits'[p]
        PROVE  /\ pc'[p] = "keep" => gone[c] <= lag'[p]
               /\ pc'[p] \in Holding => gone[c] <= lag'[p] + VectorTTL + MaxLag
    <3>1. CASE p # r \/ Keeps(r)
      BY <1>0, <1>1, <2>2, <3>1, OthersKept DEF Aged, Keeps
    <3>2. CASE p = r /\ Searches(r)
      <4>1. gone[c] = 0 /\ lag'[r] = 0
        BY <1>0, <2>2, <3>2 DEF Aged, Searches
      <4> QED
        BY <3>2, <4>1, Bounds
    <3>3. ASSUME p = r, NEW q \in Questions, NEW k \in TopKs, FindsCached(r, q, k)
          PROVE  pc'[p] # "keep" /\ gone[c] <= lag'[p] + VectorTTL + MaxLag
      <4>1. <<q, k>> \in Keys
        BY DEF Keys
      <4>2. vecCache[<<q, k>>] \in VectorEntry /\ c \in vecCache[<<q, k>>].hits
        BY <1>0, <2>2, <3>3, <4>1 DEF FindsCached
      <4>3. gone[c] <= vecCache[<<q, k>>].age + MaxLag /\ vecCache[<<q, k>>].age \in 0..VectorTTL
        BY <1>0, <3>3, <4>1, <4>2 DEF Aged, FindsCached, VectorEntry
      <4>4. c \in Chunks /\ gone[c] \in Nat
        BY <1>0, <4>2, Bounds DEF VectorEntry
      <4> QED
        BY <3>3, <4>3, <4>4, Bounds DEF FindsCached
    <3>4. CASE p = r /\ pc'[r] \notin Holding
      BY <3>4 DEF Holding
    <3> QED
      BY <1>0, <1>1, <3>1, <3>2, <3>3, <3>4, HitMoves
  <2>3. ASSUME NEW k \in Keys, vecCache'[k] # None, NEW c \in vecCache'[k].hits
        PROVE  gone[c] <= vecCache'[k].age + MaxLag
    <3>1. CASE vecCache'[k] = vecCache[k]
      BY <1>0, <2>3, <3>1 DEF Aged
    <3>2. CASE pc[r] = "keep" /\ vecCache'[k] = [hits |-> hits[r], age |-> 0]
      <4>1. gone[c] <= lag[r] /\ c \in Chunks
        BY <1>0, <2>3, <3>2 DEF Aged
      <4> QED
        BY <1>0, <3>2, <4>1, Bounds
    <3> QED
      BY <1>0, <1>1, <3>1, <3>2, CacheMoves DEF TypeOK
  <2>4. ASSUME NEW q \in Questions, qaCache'[q] # None, NEW c \in qaCache'[q].sources
        PROVE  gone[c] <= qaCache'[q].age + VectorTTL + 2 * MaxLag
    <3>1. CASE qaCache'[q] = qaCache[q]
      BY <1>0, <2>4, <3>1 DEF Aged
    <3>2. CASE pc[r] = "save" /\ qaCache'[q].sources = hits[r] /\ qaCache'[q].age = 0
      <4>1. gone[c] <= lag[r] + VectorTTL + MaxLag /\ c \in Chunks
        BY <1>0, <2>4, <3>2 DEF Aged, Holding
      <4> QED
        BY <1>0, <3>2, <4>1, Bounds
    <3>3. CASE qaCache' = [qaCache EXCEPT ![Question(r)] =
                            [record |-> answer[r].record, kind |-> answer[r].kind,
                             sources |-> hits[r], age |-> 0]]
               /\ q = Question(r) /\ pc[r] = "save"
      <4>1. qaCache'[q] = [record |-> answer[r].record, kind |-> answer[r].kind,
                           sources |-> hits[r], age |-> 0]
        BY <3>3 DEF TypeOK, Inv
      <4> QED
        BY <3>2, <3>3, <4>1
    <3>4. qaCache'[q] = qaCache[q] \/ q = Question(r)
      BY <1>0, <1>1, CacheMoves DEF TypeOK
    <3> QED
      BY <1>1, <3>1, <3>3, <3>4, CacheMoves
  <2> QED
    BY <1>0, <2>1, <2>2, <2>3, <2>4 DEF Aged
<1>2. ASSUME NEW c \in Chunks, Corpus(c)
      PROVE  Aged'
  <2>1. UNCHANGED <<qaCache, vecCache, pc, hits, lag>>
    BY <1>0, <1>2, CorpusMoves
  <2>2. /\ \A b \in Chunks : gone'[b] <= gone[b]
        /\ \A b \in rows' \cup points' : gone'[b] = 0
    <3>1. \A b \in Chunks : gone[b] \in Nat
      BY <1>0, Bounds
    <3>2. CASE gone' = [gone EXCEPT ![c] = 0]
      <4>1. \A b \in Chunks : gone'[b] = IF b = c THEN 0 ELSE gone[b]
        BY <1>0, <3>2
      <4>2. \A b \in rows' \cup points' : b = c \/ b \in rows \cup points
        BY <1>0, <1>2, CorpusMoves
      <4> QED
        BY <1>0, <3>1, <4>1, <4>2 DEF Aged
    <3>3. CASE gone' = gone /\ rows' \cup points' \subseteq rows \cup points
      BY <1>0, <3>1, <3>3 DEF Aged
    <3> QED
      BY <1>0, <1>2, <3>2, <3>3, CorpusMoves
  <2>3. \A b \in Chunks : gone[b] \in Nat /\ gone'[b] \in Nat
    BY <1>0, <1>2, CorpusMoves, Bounds
  <2>4. ASSUME NEW r \in Requests, NEW b \in hits[r]
        PROVE  /\ pc[r] = "keep" => gone'[b] <= lag[r]
               /\ pc[r] \in Holding => gone'[b] <= lag[r] + VectorTTL + MaxLag
    <3>1. b \in Chunks /\ lag[r] \in Nat
      BY <1>0, <2>4, Bounds
    <3> QED
      BY <1>0, <2>2, <2>3, <2>4, <3>1, Bounds DEF Aged
  <2>5. ASSUME NEW k \in Keys, vecCache[k] # None, NEW b \in vecCache[k].hits
        PROVE  gone'[b] <= vecCache[k].age + MaxLag
    <3>1. b \in Chunks /\ vecCache[k].age \in Nat
      BY <1>0, <2>5, Bounds DEF VectorEntry
    <3>2. gone[b] <= vecCache[k].age + MaxLag
      BY <1>0, <2>5 DEF Aged
    <3> QED
      BY <2>2, <2>3, <3>1, <3>2, Bounds
  <2>6. ASSUME NEW q \in Questions, qaCache[q] # None, NEW b \in qaCache[q].sources
        PROVE  gone'[b] <= qaCache[q].age + VectorTTL + 2 * MaxLag
    <3>1. b \in Chunks /\ qaCache[q].age \in Nat
      BY <1>0, <2>6, Bounds DEF QAEntry
    <3>2. gone[b] <= qaCache[q].age + VectorTTL + 2 * MaxLag
      BY <1>0, <2>6 DEF Aged
    <3> QED
      BY <2>2, <2>3, <3>1, <3>2, Bounds
  <2> QED
    BY <2>1, <2>2, <2>4, <2>5, <2>6 DEF Aged
<1>3. CASE Tick
  <2>1. /\ UNCHANGED <<rows, points, pc, hits>>
        /\ \A r \in Requests : lag'[r] = IF pc[r] \in Holding THEN lag[r] + 1 ELSE lag[r]
        /\ \A b \in rows \cup points : gone'[b] = 0
    BY <1>0, <1>3 DEF Tick, corpus
  <2>2. \A b \in Chunks : gone'[b] <= gone[b] + 1 /\ gone[b] \in Nat /\ gone'[b] \in Nat
    BY <1>0, <1>3, Bounds DEF Tick
  <2>3. ASSUME NEW r \in Requests, NEW b \in hits[r]
        PROVE  /\ pc[r] = "keep" => gone'[b] <= lag'[r]
               /\ pc[r] \in Holding => gone'[b] <= lag'[r] + VectorTTL + MaxLag
    <3>1. b \in Chunks /\ lag[r] \in Nat
      BY <1>0, <2>3, Bounds
    <3>2. pc[r] = "keep" => pc[r] \in Holding
      BY DEF Holding
    <3>3. pc[r] \in Holding => lag'[r] = lag[r] + 1
      BY <2>1
    <3>4. /\ pc[r] = "keep" => gone[b] <= lag[r]
          /\ pc[r] \in Holding => gone[b] <= lag[r] + VectorTTL + MaxLag
      BY <1>0, <2>3 DEF Aged
    <3> QED
      BY <2>2, <3>1, <3>2, <3>3, <3>4, Bounds
  <2>4. ASSUME NEW k \in Keys, vecCache'[k] # None, NEW b \in vecCache'[k].hits
        PROVE  gone'[b] <= vecCache'[k].age + MaxLag
    <3>1. /\ vecCache[k] # None /\ vecCache[k] \in VectorEntry
          /\ vecCache'[k] = [vecCache[k] EXCEPT !.age = @ + 1]
      BY <1>0, <1>3, <2>4 DEF Tick, Older
    <3>2. b \in vecCache[k].hits /\ vecCache'[k].age = vecCache[k].age + 1
      BY <2>4, <3>1 DEF VectorEntry
    <3>3. b \in Chunks /\ vecCache[k].age \in Nat /\ gone[b] <= vecCache[k].age + MaxLag
      BY <1>0, <3>1, <3>2, Bounds DEF Aged, VectorEntry
    <3> QED
      BY <2>2, <3>2, <3>3, Bounds
  <2>5. ASSUME NEW q \in Questions, qaCache'[q] # None, NEW b \in qaCache'[q].sources
        PROVE  gone'[b] <= qaCache'[q].age + VectorTTL + 2 * MaxLag
    <3>1. /\ qaCache[q] # None /\ qaCache[q] \in QAEntry
          /\ qaCache'[q] = [qaCache[q] EXCEPT !.age = @ + 1]
      BY <1>0, <1>3, <2>5 DEF Tick, Older
    <3>2. b \in qaCache[q].sources /\ qaCache'[q].age = qaCache[q].age + 1
      BY <2>5, <3>1 DEF QAEntry
    <3>3. /\ b \in Chunks /\ qaCache[q].age \in Nat
          /\ gone[b] <= qaCache[q].age + VectorTTL + 2 * MaxLag
      BY <1>0, <3>1, <3>2, Bounds DEF Aged, QAEntry
    <3> QED
      BY <2>2, <3>2, <3>3, Bounds
  <2> QED
    BY <2>1, <2>3, <2>4, <2>5 DEF Aged
<1>4. CASE UNCHANGED vars
  BY <1>0, <1>4 DEF vars, corpus, caches, request, Aged
<1> QED
  BY <1>1, <1>2, <1>3, <1>4 DEF Next

(* Hits fit the topK of their request, and those of a cache entry its key. *)
LEMMA FittingStep ==
  ASSUME Inv, [Next]_vars
  PROVE  Fitting'
<1> DEFINE Ks == TopKs \cup {DefaultK}
           Fits(q, k) == vecCache[<<q, k>>] # None =>
                           k \in 1..LargestK /\ Cardinality(vecCache[<<q, k>>].hits) <= k
<1>0. /\ TypeOK /\ HitsFitTopK /\ (\A q \in Questions, k \in Ks : Fits(q, k))
      /\ \A q \in Questions, k \in Ks : <<q, k>> \in Keys
  BY DEF Inv, Fitting, Keys
<1>1. ASSUME NEW r \in Requests, Request(r)
      PROVE  Fitting'
  <2>1. ASSUME NEW q \in Questions, NEW k \in Ks
        PROVE  Fits(q, k)'
    <3>1. CASE vecCache'[<<q, k>>] = vecCache[<<q, k>>]
      BY <1>0, <3>1
    <3>2. CASE /\ pc[r] = "keep" /\ k = TopK(r)
               /\ vecCache'[<<q, k>>] = [hits |-> hits[r], age |-> 0]
      <4>1. Cardinality(hits[r]) <= k /\ k \in 1..LargestK
        BY <1>0, <3>2, TopKNormalised DEF HitsFitTopK, Holding
      <4> QED
        BY <3>2, <4>1
    <3>3. CASE pc[r] = "keep" /\ vecCache' = [vecCache EXCEPT ![<<Question(r), TopK(r)>>] =
                                                [hits |-> hits[r], age |-> 0]]
      <4>1. CASE <<q, k>> = <<Question(r), TopK(r)>>
        <5>1. vecCache'[<<q, k>>] = [hits |-> hits[r], age |-> 0]
          BY <1>0, <3>3, <4>1 DEF TypeOK
        <5> QED
          BY <3>2, <3>3, <4>1, <5>1
      <4>2. CASE <<q, k>> # <<Question(r), TopK(r)>>
        BY <1>0, <3>1, <3>3, <4>2 DEF TypeOK
      <4> QED
        BY <4>1, <4>2
    <3> QED
      BY <1>1, <3>1, <3>3, CacheMoves
  <2>2. ASSUME NEW p \in Requests, pc'[p] \in Holding
        PROVE  Cardinality(hits'[p]) <= TopK(p)'
    <3>1. CASE p # r \/ Keeps(r)
      <4>1. hits'[p] = hits[p] /\ query'[p] = query[p] /\ pc[p] \in Holding
        BY <1>0, <1>1, <2>2, <3>1, OthersKept DEF Keeps
      <4> QED
        BY <1>0, <4>1 DEF HitsFitTopK, TopK
    <3>2. CASE p = r /\ Searches(r)
      BY <3>2 DEF Searches, TopK
    <3>3. ASSUME p = r, NEW q \in Questions, NEW k \in TopKs, FindsCached(r, q, k)
          PROVE  Cardinality(hits'[p]) <= TopK(p)'
      <4>1. Fits(q, k) /\ vecCache[<<q, k>>] # None
        BY <1>0, <3>3 DEF FindsCached
      <4>2. TopK(r)' = k
        BY <3>3, <4>1, AnswersAssumption DEF FindsCached, TopK
      <4> QED
        BY <3>3, <4>1, <4>2 DEF FindsCached
    <3> QED
      BY <1>0, <1>1, <2>2, <3>1, <3>2, <3>3, HitMoves
  <2> QED
    BY <2>1, <2>2 DEF Fitting, HitsFitTopK
<1>2. CASE Tick
  <2>1. UNCHANGED <<pc, query, hits>>
    BY <1>2 DEF Tick
  <2>2. ASSUME NEW q \in Questions, NEW k \in Ks, vecCache'[<<q, k>>] # None
        PROVE  k \in 1..LargestK /\ Cardinality(vecCache'[<<q, k>>].hits) <= k
    <3>1. /\ vecCache[<<q, k>>] # None /\ vecCache[<<q, k>>] \in VectorEntry
          /\ vecCache'[<<q, k>>] = [vecCache[<<q, k>>] EXCEPT !.age = @ + 1]
      BY <1>0, <1>2, <2>2 DEF Tick, Older, TypeOK
    <3>2. vecCache'[<<q, k>>].hits = vecCache[<<q, k>>].hits
      BY <3>1 DEF VectorEntry
    <3> QED
      BY <1>0, <3>1, <3>2
  <2> QED
    BY <1>0, <2>1, <2>2 DEF Fitting, HitsFitTopK, TopK
<1>3. CASE (\E c \in Chunks : Corpus(c)) \/ UNCHANGED vars
  <2>1. UNCHANGED <<vecCache, pc, query, hits>>
    BY <1>0, <1>3, CorpusMoves DEF vars, caches, request
  <2> QED
    BY <1>0, <2>1 DEF Fitting, HitsFitTopK, TopK
<1> QED
  BY <1>1, <1>2, <1>3 DEF Next
-----------------------------------------------------------------------------
(* The steps that leave what requests have come to alone. *)
LEMMA QuietSteps ==
  ASSUME TypeOK, Tick \/ (\E c \in Chunks : Corpus(c)) \/ UNCHANGED vars
  PROVE  UNCHANGED <<records, pc, query, answer, pending>>
BY CorpusMoves DEF Tick, database, vars, request

(* Before it has its outcome a request has no record, and none on the way. *)
LEMMA NothingYet ==
  ASSUME Inv, NEW r \in Requests, pc[r] \in {"idle", "query", "keep", "answer", "record"}
  PROVE  records[r] = "none" /\ pending[r].status = "none"
BY DEF Inv, Settled, Tells

(* What is true of one request after its step. *)
SettledOne(r) ==
  /\ records[r] # "none" => Tells(r, records[r])
  /\ pending[r].status # "none" =>
       /\ Tells(r, pending[r].status)
       /\ pc[r] # "failed" => answer[r].kind # "generated"
  /\ pc[r] = "record" =>
       /\ query[r].op = "ask"
       /\ answer[r].kind = "generated" /\ ~answer[r].flagged /\ answer[r].record = None

(* A step of a request keeps its record true to its outcome. *)
LEMMA SettledRequest ==
  ASSUME Inv, NEW r \in Requests, Request(r)
  PROVE  SettledOne(r)'
<1>0. /\ TypeOK /\ SettledOne(r)
      /\ \A there : Goto(r, there) => pc'[r] = there
      /\ \A status, sources : Submit(r, status, sources) => pending'[r].status = status
  BY DEF Inv, Settled, SettledOne, Goto, Submit, TypeOK
<1>1. CASE Begin(r)
  <2>1. /\ pc[r] = "idle" /\ pc'[r] \in {"done", "answer", "query"}
        /\ UNCHANGED <<records, pending>>
    BY <1>0, <1>1 DEF Begin, AskCached, Start, ReadVectors, database
  <2> QED
    BY <2>1, NothingYet DEF SettledOne
<1>2. CASE Query(r)
  <2>1. pc[r] = "query" /\ UNCHANGED <<records, answer>>
    BY <1>2 DEF Query, database
  <2>2. CASE pending' = pending /\ pc'[r] # "record"
    BY <2>1, <2>2, NothingYet DEF SettledOne
  <2>3. CASE /\ pending'[r].status = "failed" /\ pc'[r] = "failed"
             /\ query' = query /\ query[r].op = "ask"
    BY <2>1, <2>3, NothingYet DEF SettledOne, Tells
  <2>4. CASE SearchFails(r)
    BY <1>0, <2>2, <2>3, <2>4 DEF SearchFails
  <2> QED
    BY <1>0, <1>2, <2>2, <2>4 DEF Query, FallbackHits
<1>3. CASE KeepVectors(r)
  <2>1. pc[r] = "keep" /\ UNCHANGED <<records, pending>> /\ pc'[r] = "answer"
    BY <1>0, <1>3 DEF KeepVectors, database
  <2> QED
    BY <2>1, NothingYet DEF SettledOne
<1>4. CASE Complete(r)
  <2>1. pc[r] = "answer" /\ records' = records
    BY <1>4 DEF Complete, database
  <2>2. CASE ReturnHits(r)
    <3>1. pending' = pending /\ pc'[r] = "idle"
      BY <1>0, <2>2 DEF ReturnHits
    <3> QED
      BY <2>1, <3>1, NothingYet DEF SettledOne
  <2>3. ASSUME NEW kind, NEW status, Fallback(r, kind, status), query' = query, query[r].op = "ask",
               \/ kind = "nothing" /\ status = "success"
               \/ kind = "excerpt" /\ status = "fallback"
        PROVE  SettledOne(r)'
    <3>1. /\ answer'[r] = [record |-> None, kind |-> kind, flagged |-> TRUE]
          /\ pending'[r].status = status /\ pc'[r] = "save"
      BY <1>0, <2>3 DEF Fallback, TypeOK
    <3> QED
      BY <2>1, <2>3, <3>1, NothingYet DEF SettledOne, Tells
  <2>4. CASE Generate(r) /\ query' = query /\ query[r].op = "ask"
    <3>1. /\ answer'[r] = [record |-> None, kind |-> "generated", flagged |-> FALSE]
          /\ pending' = pending /\ pc'[r] = "record"
      BY <1>0, <2>4 DEF Generate, TypeOK
    <3> QED
      BY <2>1, <2>4, <3>1, NothingYet DEF SettledOne
  <2> QED
    BY <1>4, <2>2, <2>3, <2>4 DEF Complete
<1>5. CASE Record(r)
  <2>1. /\ pc[r] = "record" /\ pc'[r] = "save" /\ UNCHANGED <<query, pending>>
        /\ records'[r] \in {"none", "success"}
    BY <1>0, <1>5, NothingYet DEF Record, Insert, NoInsert, TypeOK
  <2>2. /\ query[r].op = "ask"
        /\ answer[r] \in AnswerType /\ answer[r].kind = "generated" /\ ~answer[r].flagged
    BY <1>0, <2>1 DEF SettledOne, TypeOK
  <2>3. answer'[r].kind = "generated" /\ ~answer'[r].flagged
    BY <1>0, <1>5, <2>2 DEF Record, TypeOK, AnswerType
  <2> QED
    BY <2>1, <2>2, <2>3, NothingYet DEF SettledOne, Tells
<1>6. CASE Persist(r)
  <2>1. /\ UNCHANGED <<pc, query, answer>>
        /\ pending[r].status # "none" /\ pending'[r].status = "none"
        /\ records'[r] \in {records[r], pending[r].status}
    BY <1>0, <1>6 DEF Persist, Insert, NoInsert, NoRecord, TypeOK
  <2> QED
    BY <1>0, <2>1 DEF SettledOne, Tells
<1>7. CASE Save(r) \/ Feedback(r)
  <2>1. /\ UNCHANGED <<query, answer, records, pending>>
        /\ pc[r] \in {"save", "done"} /\ pc'[r] \in {"done", "rated"}
    BY <1>0, <1>7 DEF Save, Feedback, database
  <2> QED
    BY <1>0, <2>1 DEF SettledOne, Tells
<1> QED
  BY <1>1, <1>2, <1>3, <1>4, <1>5, <1>6, <1>7 DEF Request

(* So does every step, for every request. *)
LEMMA SettledStep ==
  ASSUME Inv, [Next]_vars
  PROVE  Settled'
<1>0. TypeOK /\ \A p \in Requests : SettledOne(p)
  BY DEF Inv, Settled, SettledOne
<1>1. ASSUME NEW r \in Requests, Request(r), NEW p \in Requests
      PROVE  SettledOne(p)'
  <2>1. CASE p = r
    BY <1>1, <2>1, SettledRequest
  <2>2. CASE p # r
    BY <1>0, <1>1, <2>2, OthersKept DEF SettledOne, Tells
  <2> QED
    BY <2>1, <2>2
<1>2. ASSUME Tick \/ (\E c \in Chunks : Corpus(c)) \/ UNCHANGED vars, NEW p \in Requests
      PROVE  SettledOne(p)'
  <2>1. UNCHANGED <<records, pc, query, answer, pending>>
    BY <1>0, <1>2, QuietSteps
  <2> QED
    BY <1>0, <2>1 DEF SettledOne, Tells
<1>3. \A p \in Requests : SettledOne(p)'
  BY <1>1, <1>2 DEF Next
<1> QED
  BY <1>3 DEF Settled, SettledOne
-----------------------------------------------------------------------------
(* A record that was handed out stays what it was. *)
GivenNext(p, question) ==
  /\ p \in Requests /\ records'[p] = "success" /\ answer'[p].kind = "generated"
  /\ query'[p].question = question /\ pc'[p] \in {"save", "done", "rated"}

(* No step takes a record back or changes what its request came to. *)
LEMMA GivenKept ==
  ASSUME Inv, [Next]_vars, NEW p, NEW question, Given(p, question)
  PROVE  GivenNext(p, question)
<1>0. /\ TypeOK /\ Settled
      /\ p \in Requests /\ records[p] = "success" /\ answer[p].kind = "generated"
      /\ query[p].question = question /\ pc[p] \in {"save", "done", "rated"}
  BY DEF Inv, Given, Question
<1>1. ASSUME NEW r \in Requests, Request(r)
      PROVE  GivenNext(p, question)
  <2>1. CASE p # r
    BY <1>0, <1>1, <2>1, OthersKept DEF GivenNext
  <2>2. CASE p = r
    <3>1. ~Persist(r)
      BY <1>0, <2>2 DEF Persist, Settled
    <3>2. Save(r) \/ Feedback(r)
      BY <1>0, <1>1, <2>2, <3>1 DEF Request, Begin, AskCached, Start, Query, KeepVectors, Complete,
                                    Record
    <3>3. UNCHANGED <<records, answer, query>> /\ pc'[r] \in {"done", "rated"}
      BY <1>0, <3>2 DEF Save, Feedback, Goto, database, TypeOK
    <3> QED
      BY <1>0, <2>2, <3>3 DEF GivenNext
  <2> QED
    BY <2>1, <2>2
<1>2. CASE Tick \/ (\E c \in Chunks : Corpus(c)) \/ UNCHANGED vars
  BY <1>0, <1>2, QuietSteps DEF GivenNext
<1> QED
  BY <1>1, <1>2 DEF Next

(* The id in the answer a request ends up with. *)
LEMMA AnswerIds ==
  ASSUME Inv, NEW r \in Requests, Request(r),
         pc'[r] \in {"save", "done", "rated"}, answer'[r].record # None
  PROVE  GivenNext(answer'[r].record, query'[r].question)
<1>0. /\ TypeOK /\ Settled /\ HandedOut /\ r # None
      /\ \A there : Goto(r, there) => pc'[r] = there
  BY AnswersAssumption DEF Inv, Goto, TypeOK
<1>1. CASE Begin(r)
  <2>1. PICK q \in Questions, k \in TopKs : AskCached(r, q, k)
    BY <1>0, <1>1 DEF Begin, Start, ReadVectors
  <2>2. /\ qaCache[q] # None /\ answer'[r].record = qaCache[q].record /\ query'[r].question = q
        /\ pc[r] = "idle"
    BY <1>0, <2>1 DEF AskCached, TypeOK
  <2>3. Given(qaCache[q].record, q)
    BY <1>0, <2>2 DEF HandedOut
  <2>4. GivenNext(qaCache[q].record, q)
    BY <2>3, GivenKept DEF Next
  <2> QED
    BY <2>2, <2>4
<1>2. CASE Complete(r)
  <2>1. answer'[r].record = None
    BY <1>0, <1>2 DEF Complete, ReturnHits, Fallback, Generate, TypeOK
  <2> QED
    BY <2>1
<1>3. CASE Record(r)
  <2>1. answer[r] \in AnswerType /\ answer[r].kind = "generated" /\ answer[r].record = None
    BY <1>0, <1>3 DEF Record, Settled, TypeOK
  <2>2. answer' # answer
    BY <2>1
  <2>3. /\ answer'[r] = [answer[r] EXCEPT !.record = r] /\ records'[r] = "success"
        /\ query' = query /\ pc'[r] = "save"
    BY <1>0, <1>3, <2>2 DEF Record, Insert, TypeOK
  <2>4. answer'[r].record = r /\ answer'[r].kind = "generated"
    BY <2>1, <2>3 DEF AnswerType
  <2> QED
    BY <2>3, <2>4 DEF GivenNext
<1>4. CASE Persist(r) \/ Save(r) \/ Feedback(r)
  <2>1. /\ UNCHANGED <<answer, query>>
        /\ pc[r] \in {"save", "done", "rated"}
    BY <1>0, <1>4 DEF Persist, Save, Feedback
  <2>2. Given(answer[r].record, Question(r))
    BY <1>0, <2>1 DEF HandedOut
  <2>3. GivenNext(answer[r].record, Question(r))
    BY <2>1, <2>2, GivenKept DEF Next, Question
  <2> QED
    BY <2>1, <2>3 DEF Question
<1>5. CASE Query(r) \/ KeepVectors(r)
  BY <1>0, <1>5 DEF Query, FallbackHits, SearchFails, KeepVectors
<1> QED
  BY <1>1, <1>2, <1>3, <1>4, <1>5 DEF Request

(* Only records that are there are handed out, by a request or the cache. *)
LEMMA HandedOutStep ==
  ASSUME Inv, [Next]_vars
  PROVE  HandedOut'
<1>0. TypeOK /\ HandedOut
  BY DEF Inv
<1>1. ASSUME NEW r \in Requests, Request(r)
      PROVE  HandedOut'
  <2>1. ASSUME NEW p \in Requests, pc'[p] \in {"save", "done", "rated"}, answer'[p].record # None
        PROVE  GivenNext(answer'[p].record, query'[p].question)
    <3>1. CASE p = r
      BY <1>1, <2>1, <3>1, AnswerIds
    <3>2. CASE p # r
      <4>1. /\ pc'[p] = pc[p] /\ answer'[p] = answer[p] /\ query'[p] = query[p]
        BY <1>0, <1>1, <3>2, OthersKept
      <4>2. Given(answer[p].record, query[p].question)
        BY <1>0, <2>1, <4>1 DEF HandedOut, Question
      <4>3. GivenNext(answer[p].record, query[p].question)
        BY <4>1, <4>2, GivenKept
      <4> QED
        BY <4>1, <4>3
    <3> QED
      BY <3>1, <3>2
  <2>2. ASSUME NEW q \in Questions, qaCache'[q] # None, qaCache'[q].record # None
        PROVE  GivenNext(qaCache'[q].record, q)
    <3>1. CASE qaCache'[q] = qaCache[q]
      <4>1. Given(qaCache[q].record, q)
        BY <1>0, <2>2, <3>1 DEF HandedOut
      <4> QED
        BY <3>1, <4>1, GivenKept
    <3>2. CASE q = Question(r) /\ pc[r] = "save" /\ qaCache'[q].record = answer[r].record
      <4>1. Given(answer[r].record, q)
        BY <1>0, <2>2, <3>2 DEF HandedOut
      <4>2. GivenNext(answer[r].record, q)
        BY <4>1, GivenKept
      <4> QED
        BY <3>2, <4>2
    <3>3. CASE qaCache' = [qaCache EXCEPT ![Question(r)] =
                            [record |-> answer[r].record, kind |-> answer[r].kind,
                             sources |-> hits[r], age |-> 0]]
               /\ q = Question(r) /\ pc[r] = "save"
      <4>1. qaCache'[q] = [record |-> answer[r].record, kind |-> answer[r].kind,
                           sources |-> hits[r], age |-> 0]
        BY <1>0, <3>3 DEF TypeOK
      <4> QED
        BY <3>2, <3>3, <4>1
    <3>4. qaCache'[q] = qaCache[q] \/ q = Question(r)
      BY <1>0, <1>1, CacheMoves DEF TypeOK
    <3> QED
      BY <1>1, <3>1, <3>3, <3>4, CacheMoves
  <2> QED
    BY <2>1, <2>2 DEF HandedOut, Given, GivenNext, Question
<1>2. CASE Tick \/ (\E c \in Chunks : Corpus(c)) \/ UNCHANGED vars
  <2>1. UNCHANGED <<records, pc, query, answer>>
    BY <1>0, <1>2, QuietSteps
  <2>2. ASSUME NEW q \in Questions, qaCache'[q] # None
        PROVE  qaCache[q] # None /\ qaCache'[q].record = qaCache[q].record
    <3>1. CASE Tick
      <4>1. /\ qaCache[q] # None /\ qaCache[q] \in QAEntry
            /\ qaCache'[q] = [qaCache[q] EXCEPT !.age = @ + 1]
        BY <1>0, <2>2, <3>1 DEF Tick, Older, TypeOK
      <4> QED
        BY <4>1 DEF QAEntry
    <3>2. CASE (\E c \in Chunks : Corpus(c)) \/ UNCHANGED vars
      BY <1>0, <2>2, <3>2, CorpusMoves DEF vars, caches
    <3> QED
      BY <1>2, <3>1, <3>2
  <2> QED
    BY <1>0, <2>1, <2>2 DEF HandedOut, Given, Question
<1> QED
  BY <1>1, <1>2 DEF Next
-----------------------------------------------------------------------------
(* The empty caches and tables satisfy the invariant. *)
LEMMA InvInit ==
  ASSUME Init
  PROVE  Inv
<1>1. TypeOK
  <2>1. gone \in [Chunks -> 0..(Horizon + 1)] /\ lag \in [Requests -> 0..MaxLag]
        /\ faults \in 0..MaxFaults
    BY Bounds DEF Init
  <2>2. qaCache \in [Questions -> QAEntry \cup {None}] /\ vecCache \in [Keys -> VectorEntry \cup {None}]
    BY DEF Init
  <2>3. answer \in [Requests -> AnswerType] /\ records \in [Requests -> Statuses]
    BY DEF Init, NoAnswer, AnswerType, Kinds, Statuses
  <2>4. pending \in [Requests -> Pendings]
    BY DEF Init, NoRecord, Pendings, Statuses
  <2>5. query \in [Requests -> Queries \cup {NoQuery}] /\ hits \in [Requests -> SUBSET Chunks]
        /\ pc \in [Requests -> Places]
    BY DEF Init, Places
  <2> QED
    BY <2>1, <2>2, <2>3, <2>4, <2>5 DEF TypeOK, Init, Pendings, Places
<1>2. Aged /\ Fitting
  <2>1. \A q \in Questions, k \in TopKs \cup {DefaultK} : vecCache[<<q, k>>] = None
    BY DEF Init, Keys
  <2> QED
    BY <2>1 DEF Init, Aged, Fitting, HitsFitTopK, Holding
<1>3. Settled /\ HandedOut
  BY DEF Init, Settled, HandedOut, NoRecord
<1> QED
  BY <1>1, <1>2, <1>3 DEF Inv

(* The inductive invariant: types, ages, sizes, outcomes and ids. *)
THEOREM AnswersInvariant == Spec => []Inv
<1>1. Init => Inv
  BY InvInit
<1>2. Inv /\ [Next]_vars => Inv'
  <2> SUFFICES ASSUME Inv, [Next]_vars
               PROVE  Inv'
    OBVIOUS
  <2>1. TypeOK'
    BY TypeStep DEF Inv
  <2> QED
    BY <2>1, AgedStep, FittingStep, SettledStep, HandedOutStep DEF Inv
<1> QED
  BY <1>1, <1>2, PTL DEF Spec

(* The requests, the records and the caches keep their types. *)
THEOREM AnswersTypeCorrect == Spec => []TypeOK
<1>1. Inv => TypeOK
  BY DEF Inv
<1> QED
  BY <1>1, AnswersInvariant, PTL

(* What has been deleted goes out of the requests and the caches in the time
   the two lifetimes and two requests take, without anyone invalidating them. *)
THEOREM AnswersDeletedContentAgesOut == Spec => []DeletedContentAgesOut
<1>1. ASSUME Inv
      PROVE  DeletedContentAgesOut
  <2>0. TypeOK /\ Aged
    BY <1>1 DEF Inv
  <2>1. ASSUME NEW r \in Requests, pc[r] \in Holding, NEW c \in hits[r]
        PROVE  gone[c] <= Horizon
    <3>1. gone[c] <= lag[r] + VectorTTL + MaxLag /\ lag[r] \in 0..MaxLag
      BY <2>0, <2>1 DEF Aged, TypeOK
    <3>2. gone[c] \in Nat
      BY <2>0, Bounds DEF TypeOK
    <3> QED
      BY <3>1, <3>2, Bounds
  <2>2. ASSUME NEW k \in Keys, vecCache[k] # None, NEW c \in vecCache[k].hits
        PROVE  gone[c] <= Horizon
    <3>1. vecCache[k] \in VectorEntry /\ gone[c] <= vecCache[k].age + MaxLag
      BY <2>0, <2>2 DEF Aged, TypeOK
    <3>2. vecCache[k].age \in 0..VectorTTL /\ gone[c] \in Nat
      BY <2>0, <2>2, <3>1, Bounds DEF TypeOK, VectorEntry
    <3> QED
      BY <3>1, <3>2, Bounds
  <2>3. ASSUME NEW q \in Questions, qaCache[q] # None, NEW c \in qaCache[q].sources
        PROVE  gone[c] <= Horizon
    <3>1. qaCache[q] \in QAEntry /\ gone[c] <= qaCache[q].age + VectorTTL + 2 * MaxLag
      BY <2>0, <2>3 DEF Aged, TypeOK
    <3>2. qaCache[q].age \in 0..QATTL /\ gone[c] \in Nat
      BY <2>0, <2>3, <3>1, Bounds DEF TypeOK, QAEntry
    <3> QED
      BY <3>1, <3>2, Bounds
  <2> QED
    BY <2>1, <2>2, <2>3 DEF DeletedContentAgesOut, Held
<1> QED
  BY <1>1, AnswersInvariant, PTL

(* The id of a record in an answer is that of a record that exists, also when
   the answer comes out of the cache. *)
THEOREM AnswersFeedbackHasRecord == Spec => []FeedbackHasRecord
<1>1. Inv => FeedbackHasRecord
  BY DEF Inv, HandedOut, Given, FeedbackHasRecord
<1> QED
  BY <1>1, AnswersInvariant, PTL

(* A record, written by the request or later by the pool, tells what the
   request came to. *)
THEOREM AnswersRecordTellsOutcome == Spec => []RecordTellsOutcome
<1>1. Inv => RecordTellsOutcome
  BY DEF Inv, Settled, Tells, RecordTellsOutcome
<1> QED
  BY <1>1, AnswersInvariant, PTL

(* The vector cache never hands out the hits of a larger topK. *)
THEOREM AnswersHitsFitTopK == Spec => []HitsFitTopK
<1>1. Inv => HitsFitTopK
  BY DEF Inv, Fitting
<1> QED
  BY <1>1, AnswersInvariant, PTL
=============================================================================

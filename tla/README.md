# Verification of RAG_ROBOT

RAG_ROBOT is a Go server that ingests documents into MySQL and Qdrant and answers
questions about them through the OpenAI API.  This directory holds TLA+ models of its
stateful components, TLC runs on small instances and TLAPS proofs for all instances.
Paths below are relative to `src/`; `document.go:97` is a line of the file of that name.

Run a model with `tlc -config MCBreaker.cfg MCBreaker`, a proof with
`tlapm BreakerProofs.tla`.  `PROJECT.json` maps every definition to the lines it models.

## 1. Inventory

| component | state | operations | talks to |
|---|---|---|---|
| circuit breaker, `internal/pkg/circuitbreaker/breaker.go` | state, sliding window of results, time of the last trip | `Call`, `GetState` | wraps each OpenAI call, Qdrant upsert and search |
| worker pool, `internal/pkg/pool/worker_pool.go` | buffered channel, context, wait group | `Submit`, workers, `Shutdown` | runs the QA and chat services' record writes |
| document service, `internal/service/document/document.go` | none of its own; files under `uploads/` | `ProcessDocument`, `DeleteDocument` | repository, embeddings, Qdrant, disk |
| document repository, `internal/repository/database/document_repo.go`, schema in `scripts/init_mysql.sql` | tables `documents`, `document_chunks` | create, status, batch of chunks, deletes, full-text search | MySQL |
| vector store client, `internal/repository/qdrant/qdrant.go` | collection `rag_chunks` | upsert, search, delete by document | Qdrant, a breaker |
| text chunker, `internal/pkg/parser/chunker.go` | none (pure) | `NewChunker`, `Split` | document service |
| search service and vector cache, `internal/service/search`, `internal/repository/cache/vector_cache.go` | Redis entries, 30 min | `Search`, full-text fallback | embeddings, Qdrant, MySQL |
| QA service, QA cache, QA repository | Redis entries, 1 h; `qa_records`, `qa_sources`, `qa_feedback` | `Ask`, `AskQuestion`, `SubmitFeedback` | search, chat completion, pool |
| chat service, `internal/service/chat/chat.go`, `conversation_repo.go` | sessions map under a RWMutex; `conversations`, `messages` | `CreateSession`, `Chat` | search, streaming completion, pool |
| OpenAI clients, `internal/pkg/openai` | none | `GetEmbedding`, `GetEmbeddingBatch`, `Complete`, `StreamComplete` | the OpenAI API, a breaker each |
| Redis client, `internal/repository/cache/redis.go` | connection, hit counters | `Get`, `Set`, `Del`, disabled when Redis is away at start | Redis |
| document cache, rate limiter, health checks, HTTP layer, file parsers, configuration, logging, metrics, tracing | little or none | see section 5 | |

How they interact.  An upload request runs `ProcessDocument` on its own goroutine: disk,
`documents`, embeddings, `document_chunks`, Qdrant, `documents` again, with nothing spanning
two stores.  A question runs `Search` and a completion, answers, and leaves the record to
the worker pool.  `qa_sources` holds foreign keys to `document_chunks`, so old answers
constrain what ingestion may delete.  Every remote call may fail, lose its reply, or be
refused by a breaker that other requests have tripped.

What is hard:

- *circuit breaker*: only `canProceed` and `record` hold the mutex, so results of calls
  admitted in one state arrive in another; sliding-window edges; recovery.
- *ingestion*: duplicate uploads of one content, deletes, failures and crashes at every
  point between the stores; statuses read and acted upon later.
- *worker pool*: submitters, workers and `Shutdown` racing on a channel, a context and a wait
  group; the two-way `select`.
- *chat*: two requests of one session restoring it from the database at once, history read
  without the lock, message pairs persisted by different workers in any order.
- *QA and search*: cached results that outlive the documents they cite, and lose the fallback
  flag; records lost when a cited chunk is gone or the pool is full.
- *chunker*: long paragraphs overtaking the text before them, chunk-size bound with overlap.

What makes each correct is stated by the properties of its module (section 3).  Every hard
spot is listed at its line under "hazards" in `PROJECT.json`, with the properties that watch it
or the reason why none does.

## 2. Modules and plan

| module | of | composed with |
|---|---|---|
| `Breaker` | one circuit breaker and its callers | implements `CallGate` |
| `Ingest` | uploads and deletes over MySQL, Qdrant and the disk | implements `Catalogue` |
| `WorkerPool` | the pool, its submitters and `Shutdown` | implements `TaskBag` |
| `TextPipeline` | from a text to chunks and vectors | |
| `Chat` | one chat session, in memory and in MySQL | implements `TurnLog`; pool and search as outcomes |
| `Answers` | questions, the search, two caches and the records | documents as coming and going |

Each has an `MC` module with its small instances and a `Proofs` module; the order of the text in
chunks and the memory of chats are proved in `TextOrderProofs` and `ChatMemoryProofs`.  The modules meet at
narrow interfaces instead of being multiplied with each other, which TLC could not exhaust:
what one guarantees is an input of the next.  `TextPipeline` is the inside of `Ingest`'s step
`Prepare`; `WorkerPool` shows that a submitted task runs at most once, or never after a
shutdown, which is what `Submit` and the crash of `Chat` and `Submit` and `Persist` of
`Answers` assume; `Breaker` is one of the reasons for the failing calls of all others; the
corpus of `Answers` (`Store`, `Index`, `Unindex`, `Erase`) is `Ingest` seen from the readers' side:
the steps `Fill`, `Index`, `Unindex` and `Unlist` of `Catalogue`, taken chunk by chunk.

Left on the plan: an abstract specification for `Answers` to implement, and liveness of `Chat` and
`Answers` on instances small enough for it (safety alone takes millions of states).

A module that is proved about uses no RECURSIVE operator, declares its parameters as
CONSTANTS with a named assumption, and has one action per operation or store call.

## 3. Modules, runs and what they show

Operators whose definition stands directly before another of the same purpose
(`StoreChunksOneByOne` before `StoreChunks`) are faulty variants of it: substituting one for
the other makes the property named in `PROJECT.json` fail, which shows the property to depend
on that piece of code.  No specification uses them.

### Breaker

`state`, `window` and `openedAge` are the fields of `CircuitBreaker`; a time is kept as an
age, saturated one tick past the bound it is compared with.  `Admit` and `Reject` are `Call` up
to `canProceed`; `Finish` is the return of the protected function and `record`.  `call` says
where each goroutine is, `up` whether the dependency answers every call; while it is down a
call may fail or succeed.

`MCBreaker.cfg` — three callers, `minRequests` 2, threshold 3/5, two ticks of window and of
reset timeout.  One caller can trip the breaker while two more are inside, and their late
failures are then enough to meet the condition again; two ticks let entries be fresh, on the
boundary and stale.  `MaxWindow = 5` bounds results held or awaited and is where 3/5 is met
exactly.  It checks

- `WindowBelowThreshold`: the window never rests on a content that meets the trip condition;
- `WindowExact`: pruning a prefix drops exactly what is too old, so the window must be in order
  (`WindowChronological`, which is proved on the way);
- `ImplementsGate`: the breaker implements `CallGate`, which knows no window: no call passes an
  open gate before the timeout, the first result after it settles it;
- `OpenEventuallyProbes`, `RecoversForGood`: an open breaker is probed, however many late
  failures re-trip it; after a lasting recovery it is closed for good.

Fairness: the clock ticks; a protected call returns (each has a context or network deadline
of its dependency); some caller keeps calling (no promise can be made to a breaker nobody uses).

`breaker_single_probe` shows the code departing from its comment: a half-open breaker lets
everybody through (`breaker.go:93` against line 29).  For the same reason a result of a call
admitted before the trip may settle the half-open state (line 119 against line 118); the abstract
gate allows it, so `ImplementsGate` holds.

### Ingest

One action per call to a store, in the order of `ProcessDocument` (`SaveFile`,
`InsertDocument`, `SelectDocument`, `ReadExisting`, `WipePoints`, `WipeChunks`,
`MarkProcessing`, `Prepare`, `StoreChunks`, `IndexChunks`, `LinkChunks`, `Finish`, `Fail`) and of
`DeleteDocument` (`StartDelete`, `DeletePoints`, `RemoveFile`, `Erase`).  `pc` and `dpc` hold
the next call of each request, `target` and `dtarget` its `docID`.  The schema's unique indexes
and foreign keys are in `InsertDocument`, `Clashes`, `WipeChunks`, `DropChunks` and `Cite`
(a QA record citing a chunk).  A store call ends "ok", "failed" or "lost" (it took effect, the
caller sees an error); `Crash` ends every request under way and leaves the stores.

Abstractions: a document id is the upload that inserted it; a content is the pair of knowledge
base and hash; parsing, splitting and embedding, which change no store, are the one step `Prepare`,
and `ChunksIn` is the number of chunks that come of it, per upload, since the parser follows the
extension of the upload's own name; saving a file under a fresh name is atomic (two saves in the
same nanosecond would share a name); a Qdrant call applies as a whole.  The history variable `stuck`
holds the files that an `os.Remove` has left behind.

| run | instance | shows |
|---|---|---|
| `ingest_safety` | 3 uploads of one content with 2 chunks, 1 delete, failures (`os.Remove` included), lost replies, crashes | `ChunksAllOrNothing`, `NoFileLeak`, `DeleteSticks`, `CompletedIsIndexed`, `ImplementsCatalogue` |
| `ingest_live` | 3 uploads of 2 contents (one split in 2 chunks or 1, one in none), 1 delete; `os.Remove` may fail, no store does | `IndexMatchesContent`, `StatusSettles` |

`Catalogue` is what is promised of the documents with files, links, replies and the order of calls
left out: a document is listed once, by its own upload, and never beside another of the same
content; its chunks are one upload's and whole, or none; vectors are written whole too, over those of
the same index; only a duplicate clears chunks, and none while an answer cites one; "completed" is
written by an upload that has written both.  `Phase` maps a `pc` to how far its upload is; a lost reply is a step of the catalogue
after which the upload gives up, and a store call that failed is a stutter or `GiveUp`.

In `ingest_safety` the uploads send one content and nothing else tells them apart, so they are
symmetric.  `os.Remove` may fail there, because only a duplicate that still has its file gets past
`Prepare` and can meet the rows of another upload (`Clashes`).  In `ingest_live` the first content is
sent under two extensions.  Three uploads are the fewest for the worst race (one works, one fails the document, one wipes
it), and the third can be one of another content; two chunks tell a partial batch from a whole
one.  `StatusSettles` is stated without store failures because it is false with them: the error
branches only try to write "failed".  Requests are finite in number, so the
system may stop and deadlock is not checked.  Fairness: a request that has begun keeps running
(its calls return); no request has to come.

Disagreements found, each shown by a run:

- `ingest_retry_file`: the retry of a failed document parses a file the duplicate branch has
  removed (`document.go:82`, `130`), so a failed document can never be repaired by uploading again;
- `ingest_reprocess`: a duplicate upload racing the first takes a completed document back to
  processing and failed (`document.go:97`);
- `ingest_orphan_vectors`: a delete that answered leaves vectors behind when an upload was still
  writing (`document.go:191`, `291`).

With three uploads one may also wipe the rows of a document another then reports completed, so
that `chunk_count` is not the number of rows.  `CompletedIsIndexed` therefore speaks of documents on
which no second request has been let loose (`Contested`), and `DeleteSticks` of MySQL and the disk only.

### WorkerPool

`taskQueue` is the channel, `closed` and `cancelled` what `Shutdown` did, `live` the wait
group, `job` the task in each worker's hands.  `Enqueue`/`TurnAway` are the two cases of
`Submit`; `Receive`, `Execute`, `Exit` a worker's loop; when both cases of its `select` are
ready either may be taken, as Go does.  A task that panics would end the process and is left out.

`MCWorkerPool.cfg` — four tasks, two workers, two slots: the channel fills while both workers are
busy, and `Shutdown` may come at any point.  It checks `OnePlace` (no task in two places or run
twice), `QuietAfterShutdown`, `ImplementsBag` (it implements `TaskBag`, a bag with a capacity
and a width), `AcceptedRuns` and `ShutdownReturns`.  Fairness: workers are scheduled, tasks
return (those submitted run under 3 s timeouts), `Shutdown` goes on once begun.  Tasks are
finite and the pool stops, so deadlock is not checked.  `pool_drain` shows `Shutdown` leaving
queued tasks behind (`worker_pool.go:121`) where its comment promises to run them all.

### TextPipeline

`Split` counts runes and never looks at them, so a text is the sequence of the lengths of its
trimmed paragraphs and a rune is the place it comes from; a chunk is a sequence of runes and
stands for its own vector.  `SkipBlank`, `CutLong` (one round of `splitBySize`, whose pieces are
emitted at once) and `AddParagraph` are the three branches of the loop of `Split`, `FinishSplit`
its end.  `EmbedText` is one `GetEmbedding` of `GetEmbeddingBatch`, which may fail, `EndBatch` a
round of `batchEmbedding`.  `NewChunker` is applied to every setting in `Init`.

`MCTextPipeline.cfg` — all 400 texts of up to three paragraphs of 0 to 6 runes; six settings:
ordinary ones, no overlap, the largest overlap, and three that `NewChunker` replaces.  Six runes
make three pieces at size 3 with overlap 2, one paragraph in each branch in every order needs
three paragraphs, and batches of two make whole, partial and no last batch.

- `ChunksBounded`: at most size + overlap + 1 runes.  The comment at `chunker.go:9` calls the size
  itself the maximum; the check at line 55 leaves out the line breaks and the overlap.
- `NothingLost`, `EveryChunkIsNew`, `ChunksReadAsText`: together the chunks cover the text, none is
  a mere repetition, and none puts text next to each other that is not so in the document.
- `PiecesOverlap`: two pieces of a long paragraph share exactly the overlap.
- `VectorsAligned`: vector *i* is that of chunk *i*, what `ProcessDocument` relies on at line 184.
- `Terminates`: one goroutine, and HTTP calls with a timeout of 60 s, hence weak fairness of `Next`.

The run stops when the pipeline has, so deadlock is not checked; so it is in the two below, whose
requests are finite in number.

### Chat

One session: `row`, `messages` and `records` are its rows in MySQL, `current` its entry in the
`sessions` map, `history` the `History` of each `Session` object — the object of `CreateSession`
and the one each request restores.  `Lookup`, `Restore`, `Publish` are `getSession`; `Search`,
`Stream` the two remote calls; `Lock`, `AppendTurn`, `Trim` lines 189-198 (`append` reads the slice,
then stores it); `PersistMessage` and `PersistRecord` the work in the pool.  `copy` is the slice a
request has read.  A message is its turn and role.

What the code does not exclude is there: two requests that miss the map restore the session both
and one object replaces the other; `BuildMessages` reads without the lock, which is a data race, so
the read may return `Garbage` while another request writes; rows of one second come back in any
order; an error of `ListMessages` means an empty history, a list that breaks off a shorter one
(`rows.Err` is never asked); a session whose row could not be stored persists nothing
(`HasID`); a message may be lost without the other one of its turn; the pool may drop the work.

Left out: that two sessions created for one knowledge base in one nanosecond share an id, the
`nil` checks of `convRepo` and `pool`, which the router always sets, `last_question_at` and
`UpdatedAt`, which nothing reads.  The foreign keys of a record's sources are `Answers`' matter,
here the write may fail.

`MCChat.cfg` — three requests, `maxHistory` 2 (the code has 10), two seconds, one restart, two
faults.  Two requests race and the third fills the window beyond its bound or comes
after the restart; two faults let each message of a turn be lost, or a failed restore follow a
lost message.  The requests are symmetric, and no property speaks of liveness.

- `WritersExclude`: the lock is held by exactly the request that writes.
- `HistoryBounded`: at most `maxHistory` turns in every object, also when restored full or odd.
- `OnlyAnsweredTurns`: nothing of a failed, interrupted or crashed request is in a history or stored.
- `TurnsWhole`: of the turns appended to a history in this life of the server none is there twice
  or mixed with another, also while a third request is between `append` and trim.
- `Remembers`: a prompt holds every turn answered on the same object before the request started,
  and every message MySQL kept over a restart, unless a full window has pushed it out.  Its
  exceptions are the race on the read and the restores that could not read everything; turns
  of an object that was replaced in the map are lost to later prompts, so it is stated per object.
- `ImplementsLog`: the histories implement `TurnLog`, which has no lock, no copies and no late
  trimming: a turn is added once and whole at the end of one log, only an empty log is filled from
  the database, and with nothing unanswered and nothing twice.  `Settled` reads a history that
  is about to be trimmed as trimmed.

### Answers

Questions about one knowledge base.  `qaCache` and `vecCache` are the entries of the two caches
with their ages; `rows` and `points` the chunks in MySQL and Qdrant, `cited` those in `qa_sources`.
`AskCached` is the hit of `AskQuestion`; `Start` (with `ReadVectors`), `Query`, `KeepVectors` are
`Search`; `Complete` the rest of `Ask` with its three outcomes; `Record` the synchronous
`persistRecord` of a generated answer, `Persist` the one in the pool; `Save` the goroutine that
fills the answer cache; `Feedback` is `SubmitFeedback`.  A client may search any number of times,
and then asks once.  An answer is what it was made of: generated, an excerpt, or nothing found.

A failing Redis, a corrupt value and a disabled cache are all a miss in the code, and here.  A
record the pool drops is one that could not be written.  An empty question never gets past
the handlers (`binding:"required"`).  `Start` reads both caches in one step: they hold
independent entries, so nothing is missed.  `MaxLag` is the one timing assumption: no request
sits on its hits for longer; the calls in between have deadlines but for the chat completion, whose
client has none of its own, so the bound is an assumption about the service, not proved of it.

`MCAnswers.cfg` — two clients, one question, two chunks one of which can be deleted, `top_k` 0
(normalised to 2) and 1, lifetimes and lag of one tick, one fault.  Two clients let one
hand its answer to the other through either cache; a lifetime of one tick already tells an entry that
is renewed from one that expires, and the bound of `DeletedContentAgesOut` is met exactly.

- `DeletedContentAgesOut`: the design has cache entries evicted when documents change
  (`RAG_ROBOT项目设计.md:237`, `239`), but `InvalidateByKB` does nothing (`qa_cache.go:115`,
  `vector_cache.go:92`).  Still, what left MySQL and Qdrant is out of every cache after both lifetimes
  and two requests: an answer may be cached that was made from a cached search, but neither cache is
  renewed by a hit.
- `FeedbackHasRecord`: a record id that is handed out, also from the cache to another client, is that
  of an existing record of a generated answer to that question.
- `RecordTellsOutcome`: the record, if there is one, agrees with what the request came to.
- `HitsFitTopK`: the cache is read under the client's `top_k` and written under the normalised one;
  still no request gets hits meant for a larger one.

What the model has and no property forbids: a cached fallback answer comes back without
`IsFallback`, since `model.QAResult` has no field for it (`model/cache.go:13`), and the answer cache
ignores `top_k`; an answer from the cache leaves no record, although `qa_repo.go:10` says every
question has one.

## 4. What is proved

All theorems are about `Spec`, for every value of the constants that satisfies the module's named
assumption (`BreakerAssumption`, `IngestAssumption`, `PoolAssumption`, `PipelineAssumption`,
`ChatAssumption`, `AnswersAssumption`), which ask for no more than types, finiteness, positive
capacities and lifetimes, and names that differ.

- `BreakerProofs`: `BreakerTypeCorrect`; `BreakerBelowThreshold` (inductive given types; each
  branch of `record` leaves an empty window or one that was just found below the threshold, and
  ageing changes neither the length nor the failures); `BreakerChronological` (a new entry is the
  youngest, pruning keeps the order); `BreakerWindowExact`, which needs it: in an ordered window the
  prefix the loop drops is exactly the set of entries that are too old; `BreakerImplementsGate`, by matching
  `Admit` with `Pass`, `Finish` with `Return`, `Tick` with `Wait` or a stutter.
- `IngestProofs`: `IngestTypeCorrect`, then the inductive invariant `StoreInv`.
  `ChunksAllOrNothing`, `NoFileLeak` and `DeleteSticks` are not inductive: they need that a
  request past the status check works on a document of its own content (`RequestInv`), that a
  delete past its steps has done them (`DeleteInv`), and that a row is made only by the upload
  it is named after (`RowInv`).  With them every step preserves the conjunction.
  `CompletedIsIndexed` adds `ProgressInv`: for an uncontested document, which of the writes
  have been done at each `pc` of its only upload; that contestedness is never lost
  (`ContestedStays`) and that other requests leave an uncontested document alone
  (`OthersLeaveAlone`) reduce it to that upload's own steps.  `PointIdsDistinct` justifies
  keying the vector collection by document and index.  `IngestImplementsCatalogue` matches each
  store call with a step of `Catalogue` or a stutter.  It needs `StoreInv`, `Joined` (who works on
  another's document has found that document's row, so the deletes that come later know it), and
  `UpsertReplaces`: what an upsert leaves of a document's vectors is the batch and what lies
  beyond it, because ids are document and index.
- `WorkerPoolProofs`: types, `PoolQuietAfterShutdown`, `PoolOnePlace` and `PoolImplementsBag`,
  whose counting steps (`QueuedBounded`, `RunningBounded`) use that the set of an image is no
  larger than its domain.

- `TextPipelineProofs`: types with `CutUnderway` (a piece still to be cut starts inside a long
  paragraph); `ChunksBounded` with the same bound on `currentChunk`; `VectorsAligned` from `InStep`,
  the vectors and the batch under way being a prefix of the chunks.  `NothingLost` and
  `EveryChunkIsNew` need to know where the runes are: `Behind` (what `splitBySize` has stepped over
  is in the chunks), `Ahead` (nothing beyond that is in any chunk) and `Fresh` (`currentChunk` holds a
  rune no chunk has), which are preserved together.
- `TextOrderProofs`: `ChunksReadAsText` follows from `Reading`, that `currentChunk` too is text in
  order and ends where the loop has got to; the lemmas say which of the operators on sequences
  (a part, a join with a line break, a trim, the overlap) keep that.  `PiecesOverlap` follows from
  `Sharing`, which says where the last piece began and ended and where the next one begins.
- `ChatProofs`: one inductive invariant.  `HistoryBounded` needs `Bounded`, the length a history has at
  each place of the request that writes it; `Copied`, that what the writer is about to extend is
  still what the object holds, which follows from `WritersExclude`; and `Unshared`, that an object
  being restored is nobody else's.  `OnlyAnsweredTurns` needs `Sound` (turns in a
  history or in the messages belong to requests that answered or are appending) and `Tasks`
  (which work can be left for a request at each of its ends).
- `ChatMemoryProofs`: `TurnsWhole` from `Whole`, with a request between append and trim and one
  that is about to append in view.  `Remembers` from `Recall`, the conjunction of what an
  object has of the turns answered on it (`Memory`), of objects nobody has used (`Untouched`), of
  histories that wait for their trim (`LongTrim`), of what `before` can hold (`Earlier`) and of copies
  (`Remembering`).  `ImplementsLog` from `Mapped`: besides `LongTrim`, that no message is twice in a
  history (`Once`), that a request about to trim has its turn at the end (`Ending`), and that an
  object being restored is empty (`Unfilled`).
- `AnswersProofs`: `Aged` splits the bound of `DeletedContentAgesOut` along the way of a hit: what
  is in the vector cache at age *a*, in a request at lag *l* and in the answer cache left the stores at
  most so many ticks ago.  `Fitting` bounds the cache entries by the topK in their key; `Settled`
  ties records, pending records and answers to the outcome; `HandedOut` says that ids in
  answers and in the cache are of settled records.

Every invariant and every refinement a passing run checks is proved.  Model-checked only are the
liveness properties `OpenEventuallyProbes`, `RecoversForGood`, `StatusSettles`, `AcceptedRuns`,
`ShutdownReturns` and `Terminates`: they rest on fairness, hence on ENABLED, which is out of the
prover's reach.  The properties of the runs that expect a violation are false, and have no theorem.

## 5. Not modelled

- *File parsers*: wrappers around libraries; a text or an error, which is the outcome of `Prepare`.
- *Document cache*: no service uses it.
- *Rate limiter*: a token bucket of `golang.org/x/time/rate`, asked once per request.
- *Health checks*: pings and readings of `GetState`, no state of their own.
- *HTTP layer, configuration, logging, metrics, tracing, errors, wiring in `cmd/`*: decoding,
  observation and construction.  One fact of the wiring matters: `main.go:161` defers `Shutdown`
  in a function that never returns, so queued work is lost whenever the server is stopped.
- Of the modelled components: the wording of prompts and answers, scores and their order, the
  counters of cache hits, and reads that only format rows.

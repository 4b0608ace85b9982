----------------------------- MODULE WorkerPool -----------------------------
(***************************************************************************)
(* internal/pkg/pool/worker_pool.go: a fixed set of worker goroutines that *)
(* receive tasks from a buffered channel.  The QA and chat services hand   *)
(* it the writing of QA records and chat messages.                         *)
(*                                                                         *)
(* A worker sits in a select with two cases, so when a task is queued and  *)
(* the context is cancelled Go takes either: the model lets it.            *)
(***************************************************************************)
EXTENDS Integers, Sequences, SequencesExt, FiniteSets

CONSTANTS Tasks, Workers,
          Capacity,        \* queueSize
          NoTask,          \* what a worker between two tasks holds
          CanShutDown      \* whether Shutdown is ever called

ASSUME PoolAssumption == /\ Capacity \in Nat \ {0}
                         /\ IsFiniteSet(Workers)
                         /\ NoTask \notin Tasks
                         /\ CanShutDown \in BOOLEAN

VARIABLES
  taskQueue,  \* p.taskQueue, oldest first
  closed,     \* the channel has been closed
  cancelled,  \* p.ctx is done
  live,       \* workers that have not returned (the wait group)
  job,        \* the task each worker is executing, or NoTask
  done,       \* tasks that have been executed
  refused,    \* tasks Submit did not take (ErrQueueFull, or its panic)
  shutdown    \* where Shutdown is

vars == <<taskQueue, closed, cancelled, live, job, done, refused, shutdown>>

Queued == ToSet(taskQueue)
Running == {job[w] : w \in Workers} \ {NoTask}
Busy == {w \in Workers : job[w] # NoTask}
Fresh(t) == t \notin Queued \cup Running \cup done \cup refused

Init == /\ taskQueue = <<>>
        /\ closed = FALSE /\ cancelled = FALSE
        /\ live = Workers
        /\ job = [w \in Workers |-> NoTask]
        /\ done = {} /\ refused = {}
        /\ shutdown = "off"
-----------------------------------------------------------------------------
(* Submit finds room in the channel. *)
EnqueueOverfull(t) == /\ Fresh(t) /\ ~closed
                      /\ Len(taskQueue) <= Capacity
                      /\ taskQueue' = Append(taskQueue, t)
                      /\ UNCHANGED <<closed, cancelled, live, job, done, refused, shutdown>>
Enqueue(t) == /\ Fresh(t) /\ ~closed
              /\ Len(taskQueue) < Capacity
              /\ taskQueue' = Append(taskQueue, t)
              /\ UNCHANGED <<closed, cancelled, live, job, done, refused, shutdown>>

(* Submit takes the default case (ErrQueueFull), or the channel is closed and
   the send panics. *)
TurnAway(t) == /\ Fresh(t)
               /\ closed \/ Len(taskQueue) = Capacity
               /\ refused' = refused \cup {t}
               /\ UNCHANGED <<taskQueue, closed, cancelled, live, job, done, shutdown>>

(* A worker's select receives a task, closed channel or not. *)
ReceiveKeeps(w) == /\ w \in live /\ job[w] = NoTask
                   /\ taskQueue # <<>>
                   /\ job' = [job EXCEPT ![w] = Head(taskQueue)]
                   /\ UNCHANGED <<taskQueue, closed, cancelled, live, done, refused, shutdown>>
ReceiveUnchecked(w) ==
  /\ w \in live /\ job[w] = NoTask
  /\ \/ taskQueue # <<>> /\ taskQueue' = Tail(taskQueue)
        /\ job' = [job EXCEPT ![w] = Head(taskQueue)]
     \/ taskQueue = <<>> /\ closed /\ UNCHANGED taskQueue
        /\ job' = [job EXCEPT ![w] = "nil"]
  /\ UNCHANGED <<closed, cancelled, live, done, refused, shutdown>>
Receive(w) == /\ w \in live /\ job[w] = NoTask
              /\ taskQueue # <<>>
              /\ job' = [job EXCEPT ![w] = Head(taskQueue)]
              /\ taskQueue' = Tail(taskQueue)
              /\ UNCHANGED <<closed, cancelled, live, done, refused, shutdown>>

(* The task returns; an error is logged and the worker goes on. *)
ExecuteOrDie(w) == /\ job[w] # NoTask
                   /\ done' = done \cup {job[w]}
                   /\ job' = [job EXCEPT ![w] = NoTask]
                   /\ live' \in {live, live \ {w}}
                   /\ UNCHANGED <<taskQueue, closed, cancelled, refused, shutdown>>
Execute(w) == /\ job[w] # NoTask
              /\ done' = done \cup {job[w]}
              /\ job' = [job EXCEPT ![w] = NoTask]
              /\ UNCHANGED <<taskQueue, closed, cancelled, live, refused, shutdown>>

(* A worker returns: the channel is closed and drained, or its select took
   the Done case. *)
Exit(w) == /\ w \in live /\ job[w] = NoTask
           /\ (closed /\ taskQueue = <<>>) \/ cancelled
           /\ live' = live \ {w}
           /\ UNCHANGED <<taskQueue, closed, cancelled, job, done, refused, shutdown>>

(* Shutdown: close the channel, cancel the context, wait for the workers. *)
CloseQueue == /\ CanShutDown /\ shutdown = "off"
              /\ closed' = TRUE /\ shutdown' = "closed"
              /\ UNCHANGED <<taskQueue, cancelled, live, job, done, refused>>
Cancel == /\ shutdown = "closed"
          /\ cancelled' = TRUE /\ shutdown' = "waiting"
          /\ UNCHANGED <<taskQueue, closed, live, job, done, refused>>
ReturnWhenDrained == /\ shutdown = "waiting" /\ live = {} /\ taskQueue = <<>>
                     /\ shutdown' = "returned"
                     /\ UNCHANGED <<taskQueue, closed, cancelled, live, job, done, refused>>
ReturnAtOnce == /\ shutdown = "waiting"
                /\ shutdown' = "returned"
                /\ UNCHANGED <<taskQueue, closed, cancelled, live, job, done, refused>>
ReturnFromShutdown == /\ shutdown = "waiting" /\ live = {}
                      /\ shutdown' = "returned"
                      /\ UNCHANGED <<taskQueue, closed, cancelled, live, job, done, refused>>

Work(w) == Receive(w) \/ Execute(w) \/ Exit(w)
Shutdown == CloseQueue \/ Cancel \/ ReturnFromShutdown

Next == \/ \E t \in Tasks : Enqueue(t) \/ TurnAway(t)
        \/ \E w \in Workers : Work(w)
        \/ Shutdown

Spec == Init /\ [][Next]_vars

(* Workers are scheduled, every task returns (the ones the services submit
   run under a timeout), and a Shutdown that has begun goes on. *)
Fairness == /\ \A w \in Workers : WF_vars(Work(w))
            /\ WF_vars(Cancel \/ ReturnFromShutdown)

FairSpec == Spec /\ Fairness
-----------------------------------------------------------------------------
(* Type invariant. *)
TypeOK == /\ taskQueue \in Seq(Tasks)
          /\ closed \in BOOLEAN /\ cancelled \in BOOLEAN
          /\ live \subseteq Workers
          /\ job \in [Workers -> Tasks \cup {NoTask}]
          /\ done \subseteq Tasks /\ refused \subseteq Tasks
          /\ shutdown \in {"off", "closed", "waiting", "returned"}

(* Every task is in one place at most: one slot of the channel, one worker's
   hands, done or refused; so it is executed at most once. *)
OnePlace ==
  /\ \A i, j \in DOMAIN taskQueue : taskQueue[i] = taskQueue[j] => i = j
  /\ \A v, w \in Busy : job[v] = job[w] => v = w
  /\ Queued \cap (Running \cup done \cup refused) = {}
  /\ Running \cap (done \cup refused) = {}
  /\ done \cap refused = {}

(* Workers holding a task are still counted by the wait group, so when
   Shutdown returns nothing of the pool is running and nothing starts any
   more. *)
QuietAfterShutdown ==
  /\ Busy \subseteq live
  /\ shutdown = "returned" => live = {} /\ Running = {}

(* The pool implements the bag of TaskBag.tla. *)
Bag == INSTANCE TaskBag WITH waiting <- Queued, running <- Running,
                             Width <- Cardinality(Workers)
ImplementsBag == Bag!BagSpec

(* A task that Submit accepted is executed, unless the pool is shut down: no
   mix of full queues, failing tasks and busy workers strands it. *)
AcceptedRuns == \A t \in Tasks : (t \in Queued) ~> (t \in done \/ closed)

(* Shutdown comes to an end, whatever is still queued and whichever case each
   worker's select takes. *)
ShutdownReturns == (shutdown # "off") ~> (shutdown = "returned")

(* The comment on Shutdown: it waits until all tasks have been executed. *)
ShutdownRunsEverything == shutdown = "returned" => Queued = {}
=============================================================================

-------------------------- MODULE WorkerPoolProofs --------------------------
(***************************************************************************)
(* Proofs about the worker pool, for any number of tasks, workers and any  *)
(* queue capacity.                                                         *)
(***************************************************************************)
EXTENDS WorkerPool, FiniteSetTheorems, SequenceTheorems, TLAPS

(* The initial state has the right types. *)
LEMMA InitType == Init => TypeOK
BY EmptySeq DEF Init, TypeOK

(* Every step keeps the types. *)
LEMMA NextType == TypeOK /\ [Next]_vars => TypeOK'
<1> SUFFICES ASSUME TypeOK, [Next]_vars PROVE TypeOK'
  OBVIOUS
<1> USE DEF TypeOK
<1>1. ASSUME NEW t \in Tasks, Enqueue(t) PROVE TypeOK'
  BY <1>1, AppendProperties DEF Enqueue
<1>2. ASSUME NEW t \in Tasks, TurnAway(t) PROVE TypeOK'
  BY <1>2 DEF TurnAway
<1>3. ASSUME NEW w \in Workers, Receive(w) PROVE TypeOK'
  BY <1>3, HeadTailProperties DEF Receive
<1>4. ASSUME NEW w \in Workers, Execute(w) PROVE TypeOK'
  BY <1>4 DEF Execute
<1>5. ASSUME NEW w \in Workers, Exit(w) PROVE TypeOK'
  BY <1>5 DEF Exit
<1>6. CASE Shutdown
  BY <1>6 DEF Shutdown, CloseQueue, Cancel, ReturnFromShutdown
<1>7. CASE UNCHANGED vars
  BY <1>7 DEF vars
<1> QED
  BY <1>1, <1>2, <1>3, <1>4, <1>5, <1>6, <1>7 DEF Next, Work

(* Type correctness of the pool. *)
THEOREM PoolTypeCorrect == Spec => []TypeOK
BY InitType, NextType, PTL DEF Spec

(* QuietAfterShutdown: a worker holds a task only while the wait group counts
   it, so a Shutdown that has returned leaves nothing running. *)
THEOREM PoolQuietAfterShutdown == Spec => []QuietAfterShutdown
<1>1. Init => QuietAfterShutdown
  BY DEF Init, QuietAfterShutdown, Busy
<1>2. ASSUME TypeOK, QuietAfterShutdown, [Next]_vars PROVE QuietAfterShutdown'
  <2> USE <1>2 DEF TypeOK, QuietAfterShutdown, Busy, Running
  <2>1. ASSUME NEW t \in Tasks, Enqueue(t) \/ TurnAway(t) PROVE QuietAfterShutdown'
    BY <2>1 DEF Enqueue, TurnAway
  <2>2. ASSUME NEW w \in Workers, Receive(w) PROVE QuietAfterShutdown'
    BY <2>2 DEF Receive
  <2>3. ASSUME NEW w \in Workers, Execute(w) PROVE QuietAfterShutdown'
    BY <2>3 DEF Execute
  <2>4. ASSUME NEW w \in Workers, Exit(w) PROVE QuietAfterShutdown'
    BY <2>4 DEF Exit
  <2>5. CASE Shutdown
    BY <2>5 DEF Shutdown, CloseQueue, Cancel, ReturnFromShutdown
  <2>6. CASE UNCHANGED vars
    BY <2>6 DEF vars
  <2> QED
    BY <2>1, <2>2, <2>3, <2>4, <2>5, <2>6 DEF Next, Work
<1> QED
  BY <1>1, <1>2, PoolTypeCorrect, PTL DEF Spec
-----------------------------------------------------------------------------
(* No slot of the channel repeats a task. *)
Distinct(q) == \A i, j \in DOMAIN q : q[i] = q[j] => i = j

(* Appending a task that is not in the channel adds it to the channel. *)
LEMMA AppendFresh ==
  ASSUME NEW q \in Seq(Tasks), NEW t \in Tasks, Distinct(q), t \notin ToSet(q)
  PROVE  /\ Distinct(Append(q, t))
         /\ ToSet(Append(q, t)) = ToSet(q) \cup {t}
BY AppendProperties DEF Distinct, ToSet

(* Receiving takes the oldest task, and nothing else, out of the channel. *)
LEMMA TailOfDistinct ==
  ASSUME NEW q \in Seq(Tasks), q # <<>>, Distinct(q)
  PROVE  /\ Distinct(Tail(q))
         /\ Head(q) \in ToSet(q)
         /\ ToSet(Tail(q)) = ToSet(q) \ {Head(q)}
<1>1. /\ DOMAIN q = 1..Len(q) /\ Len(q) \in Nat /\ Len(q) > 0
      /\ DOMAIN Tail(q) = 1..(Len(q) - 1)
      /\ \A i \in 1..(Len(q) - 1) : Tail(q)[i] = q[i + 1]
      /\ Head(q) = q[1]
  BY HeadTailProperties
<1>2. Distinct(Tail(q))
  BY <1>1 DEF Distinct
<1>3. Head(q) \in ToSet(q)
  BY <1>1 DEF ToSet
<1>4. ToSet(Tail(q)) \subseteq ToSet(q) \ {Head(q)}
  BY <1>1 DEF ToSet, Distinct
<1>5. ASSUME NEW t \in ToSet(q) \ {Head(q)} PROVE t \in ToSet(Tail(q))
  <2>1. PICK i \in 1..Len(q) : t = q[i]
    BY <1>1 DEF ToSet
  <2>2. i - 1 \in 1..(Len(q) - 1) /\ t = Tail(q)[i - 1]
    BY <1>1, <2>1
  <2> QED
    BY <1>1, <2>2 DEF ToSet
<1> QED
  BY <1>2, <1>3, <1>4, <1>5

(* OnePlace: no task is ever in two places, so none is executed twice. *)
THEOREM PoolOnePlace == Spec => []OnePlace
<1>1. Init => OnePlace
  BY DEF Init, OnePlace, Queued, Running, Busy, ToSet
<1>2. ASSUME TypeOK, OnePlace, [Next]_vars PROVE OnePlace'
  <2> USE <1>2 DEF TypeOK
  <2>0. Distinct(taskQueue)
    BY DEF OnePlace, Distinct
  <2>1. ASSUME NEW t \in Tasks, Enqueue(t) PROVE OnePlace'
    <3>1. Distinct(taskQueue') /\ Queued' = Queued \cup {t}
      BY <2>0, <2>1, AppendFresh DEF Enqueue, Fresh, Queued
    <3>2. Running' = Running /\ Busy' = Busy
      BY <2>1 DEF Enqueue, Running, Busy
    <3> QED
      BY <2>1, <3>1, <3>2 DEF OnePlace, Distinct, Enqueue, Fresh
  <2>2. ASSUME NEW t \in Tasks, TurnAway(t) PROVE OnePlace'
    BY <2>2 DEF TurnAway, OnePlace, Fresh, Queued, Running, Busy
  <2>3. ASSUME NEW w \in Workers, Receive(w) PROVE OnePlace'
    <3> DEFINE t == Head(taskQueue)
    <3>1. /\ Distinct(taskQueue') /\ t \in Queued /\ Queued' = Queued \ {t}
          /\ t \in Tasks
      BY <2>0, <2>3, TailOfDistinct, HeadTailProperties DEF Receive, Queued
    <3>2. job' = [job EXCEPT ![w] = t] /\ t # NoTask /\ t \notin Running
      BY <2>3, <3>1, PoolAssumption DEF Receive, OnePlace
    <3>3. Busy' = Busy \cup {w} /\ Running' = Running \cup {t}
      BY <2>3, <3>2 DEF Busy, Running, Receive
    <3>4. \A v, x \in Busy' : job'[v] = job'[x] => v = x
      BY <3>2, <3>3 DEF OnePlace, Busy, Running
    <3> QED
      BY <2>3, <3>1, <3>3, <3>4 DEF OnePlace, Distinct, Receive
  <2>4. ASSUME NEW w \in Workers, Execute(w) PROVE OnePlace'
    <3>1. /\ job' = [job EXCEPT ![w] = NoTask] /\ w \in Busy
          /\ done' = done \cup {job[w]} /\ UNCHANGED <<taskQueue, refused>>
      BY <2>4 DEF Execute, Busy
    <3>2. Busy' = Busy \ {w} /\ Running' = Running \ {job[w]} /\ job[w] \in Running
      BY <3>1 DEF OnePlace, Busy, Running
    <3>3. Queued' = Queued
      BY <3>1 DEF Queued
    <3>4. \A v, x \in Busy' : job'[v] = job'[x] => v = x
      BY <3>1, <3>2 DEF OnePlace, Busy
    <3> QED
      BY <3>1, <3>2, <3>3, <3>4 DEF OnePlace
  <2>5. ASSUME NEW w \in Workers, Exit(w) PROVE OnePlace'
    BY <2>5 DEF Exit, OnePlace, Queued, Running, Busy
  <2>6. CASE Shutdown
    BY <2>6 DEF Shutdown, CloseQueue, Cancel, ReturnFromShutdown, OnePlace, Queued,
                Running, Busy
  <2>7. CASE UNCHANGED vars
    BY <2>7 DEF vars, OnePlace, Queued, Running, Busy
  <2> QED
    BY <2>1, <2>2, <2>3, <2>4, <2>5, <2>6, <2>7 DEF Next, Work
<1> QED
  BY <1>1, <1>2, PoolTypeCorrect, PTL DEF Spec
-----------------------------------------------------------------------------
(* There are no more tasks in the channel than it has slots in use. *)
LEMMA QueuedBounded ==
  ASSUME TypeOK
  PROVE  IsFiniteSet(Queued) /\ Cardinality(Queued) <= Len(taskQueue)
<1> DEFINE D == 1..Len(taskQueue)
<1>1. taskQueue \in Seq(Tasks) /\ Len(taskQueue) \in Nat /\ DOMAIN taskQueue = D
  BY DEF TypeOK
<1>2. IsFiniteSet(D) /\ Cardinality(D) = Len(taskQueue)
  BY <1>1, FS_Interval
<1>3. taskQueue \in [D -> Queued] /\ \A t \in Queued : \E i \in D : taskQueue[i] = t
  BY <1>1 DEF Queued, ToSet
<1>4. taskQueue \in Surjection(D, Queued)
  BY <1>3 DEF Surjection
<1> HIDE DEF D
<1> QED
  BY <1>2, <1>4, FS_Surjection

(* A worker between two tasks leaves room for one more to run. *)
LEMMA RunningBounded ==
  ASSUME TypeOK, NEW w \in Workers, job[w] = NoTask
  PROVE  Cardinality(Running) < Cardinality(Workers)
<1>1. IsFiniteSet(Workers) /\ Cardinality(Workers) \in Nat
  BY PoolAssumption, FS_CardinalityType
<1>2. IsFiniteSet(Workers \ {w})
      /\ Cardinality(Workers \ {w}) = Cardinality(Workers) - 1
  BY <1>1, FS_RemoveElement
<1>3. Busy \in SUBSET (Workers \ {w})
  BY DEF Busy
<1>4. IsFiniteSet(Busy) /\ Cardinality(Busy) <= Cardinality(Workers) - 1
  BY <1>2, <1>3, FS_Subset
<1> DEFINE f == [v \in Busy |-> job[v]]
<1>5. f \in Surjection(Busy, Running)
  BY DEF Surjection, Busy, Running
<1> HIDE DEF f
<1>6. Cardinality(Running) <= Cardinality(Busy) /\ IsFiniteSet(Running)
  BY <1>4, <1>5, FS_Surjection
<1>7. Cardinality(Running) \in Nat /\ Cardinality(Busy) \in Nat
  BY <1>4, <1>6, FS_CardinalityType
<1> QED
  BY <1>1, <1>4, <1>6, <1>7

(* The bag counts tasks as the pool does. *)
LEMMA SameCount == \A S : Bag!Cardinality(S) = Cardinality(S)
BY DEF Cardinality, Bag!Cardinality, IsFiniteSet, Bag!IsFiniteSet

(* ImplementsBag: every step of the channel and its workers is a step of the
   bag of tasks or leaves it unchanged. *)
THEOREM PoolImplementsBag == Spec => ImplementsBag
<1>1. Init => Bag!BagInit
  BY DEF Init, Bag!BagInit, Queued, Running, ToSet
<1>2. ASSUME TypeOK, OnePlace, [Next]_vars
      PROVE  [Bag!BagNext]_(Bag!bagVars)
  <2> USE <1>2 DEF TypeOK
  <2>0. Distinct(taskQueue)
    BY DEF OnePlace, Distinct
  <2>1. ASSUME NEW t \in Tasks, Enqueue(t) PROVE Bag!Accept(t)
    <3>1. Queued' = Queued \cup {t} /\ Running' = Running
      BY <2>0, <2>1, AppendFresh DEF Enqueue, Fresh, Queued, Running
    <3>2. IsFiniteSet(Queued) /\ Cardinality(Queued) < Capacity
      <4>1. IsFiniteSet(Queued)
        BY QueuedBounded
      <4>2. Cardinality(Queued) \in Nat
        BY <4>1, FS_CardinalityType
      <4> QED
        BY <2>1, <4>1, <4>2, QueuedBounded, PoolAssumption DEF Enqueue
    <3> QED
      BY <2>1, <3>1, <3>2, SameCount DEF Enqueue, Fresh, Bag!Accept, Bag!Fresh
  <2>2. ASSUME NEW t \in Tasks, TurnAway(t) PROVE Bag!Refuse(t)
    BY <2>2 DEF TurnAway, Fresh, Queued, Running, Bag!Refuse, Bag!Fresh
  <2>3. ASSUME NEW w \in Workers, Receive(w)
        PROVE  \E t \in Tasks : Bag!Start(t)
    <3> DEFINE t == Head(taskQueue)
    <3>1. /\ t \in Queued /\ Queued' = Queued \ {t} /\ t \in Tasks
      BY <2>0, <2>3, TailOfDistinct, HeadTailProperties DEF Receive, Queued
    <3>2. Running' = Running \cup {t}
      BY <2>3, <3>1, PoolAssumption DEF Receive, Running
    <3>3. Cardinality(Running) < Cardinality(Workers)
      BY <2>3, RunningBounded DEF Receive
    <3>4. Bag!Start(t)
      BY <2>3, <3>1, <3>2, <3>3, SameCount DEF Receive, Bag!Start
    <3> QED
      BY <3>1, <3>4
  <2>4. ASSUME NEW w \in Workers, Execute(w)
        PROVE  \E t \in Tasks : Bag!Complete(t)
    <3>1. job[w] \in Tasks /\ job[w] \in Running /\ Running' = Running \ {job[w]}
      BY <2>4 DEF Execute, OnePlace, Busy, Running
    <3>2. Bag!Complete(job[w])
      BY <2>4, <3>1 DEF Execute, Queued, Bag!Complete
    <3> QED
      BY <3>1, <3>2
  <2>5. ASSUME NEW w \in Workers, Exit(w) PROVE UNCHANGED Bag!bagVars
    BY <2>5 DEF Exit, Bag!bagVars, Queued, Running
  <2>6. CASE Shutdown
    BY <2>6 DEF Shutdown, CloseQueue, Cancel, ReturnFromShutdown, Bag!bagVars,
                Queued, Running
  <2>7. CASE UNCHANGED vars
    BY <2>7 DEF vars, Bag!bagVars, Queued, Running
  <2> QED
    BY <2>1, <2>2, <2>3, <2>4, <2>5, <2>6, <2>7 DEF Next, Work, Bag!BagNext
<1> QED
  BY <1>1, <1>2, PoolTypeCorrect, PoolOnePlace, PTL
     DEF Spec, ImplementsBag, Bag!BagSpec
=============================================================================

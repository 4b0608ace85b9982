---------------------------- MODULE BreakerProofs ----------------------------
(***************************************************************************)
(* Proofs about the circuit breaker, for any set of callers, any window,   *)
(* any threshold and any reset timeout.                                    *)
(***************************************************************************)
EXTENDS Breaker, FiniteSetTheorems, SequenceTheorems, TLAPS

(* The loop of record drops between none and all of the entries. *)
LEMMA StalePrefixBounded ==
  ASSUME NEW w \in Seq(Entries)
  PROVE  Cardinality(StalePrefix(w)) \in 0..Len(w)
<1>0. Len(w) \in Nat
  BY LenProperties
<1>1. /\ IsFiniteSet(1..Len(w))
      /\ Cardinality(1..Len(w)) = Len(w)
  BY <1>0, FS_Interval
<1>2. StalePrefix(w) \in SUBSET (1..Len(w))
  <2>1. DOMAIN w = 1..Len(w)
    BY LenProperties
  <2> QED
    BY <2>1 DEF StalePrefix
<1>3. /\ IsFiniteSet(StalePrefix(w))
      /\ Cardinality(StalePrefix(w)) <= Len(w)
  BY <1>1, <1>2, FS_Subset
<1> QED
  BY <1>0, <1>3, FS_CardinalityType

(* What the pruning loop leaves is a suffix of what was there. *)
LEMMA PruneSuffix ==
  ASSUME NEW w \in Seq(Entries)
  PROVE  /\ Prune(w) \in Seq(Entries)
         /\ Len(Prune(w)) = Len(w) - Cardinality(StalePrefix(w))
         /\ \A i \in 1..Len(Prune(w)) :
              Prune(w)[i] = w[Cardinality(StalePrefix(w)) + i]
<1> DEFINE k == Cardinality(StalePrefix(w))
<1>1. k \in 0..Len(w)
  BY StalePrefixBounded
<1>2. \A i \in (k + 1)..Len(w) : w[i] \in Entries
  BY <1>1
<1>3. /\ SubSeq(w, k + 1, Len(w)) \in Seq(Entries)
      /\ Len(SubSeq(w, k + 1, Len(w))) = IF k + 1 <= Len(w) THEN Len(w) - (k + 1) + 1 ELSE 0
      /\ \A i \in 1..(Len(w) - (k + 1) + 1) : SubSeq(w, k + 1, Len(w))[i] = w[k + 1 + i - 1]
  <2>1. /\ k + 1 \in Int
        /\ Len(w) \in Int
    BY <1>1
  <2> HIDE DEF k
  <2> QED
    BY <1>2, <2>1, SubSeqProperties
<1> HIDE DEF k
<1>4. Len(SubSeq(w, k + 1, Len(w))) = Len(w) - k
  BY <1>1, <1>3
<1>5. \A i \in 1..(Len(w) - k) : SubSeq(w, k + 1, Len(w))[i] = w[k + i]
  BY <1>1, <1>3
<1>6. Prune(w) = SubSeq(w, k + 1, Len(w))
  BY DEF Prune, k
<1> QED
  BY <1>3, <1>4, <1>5, <1>6 DEF k

(* The window as record leaves it before judging it. *)
LEMMA RecordedWindow ==
  ASSUME NEW ok \in BOOLEAN, window \in Seq(Entries)
  PROVE  /\ Counted(ok) \in Seq(Entries)
         /\ Prune(Counted(ok)) \in Seq(Entries)
<1>1. [success |-> ok, age |-> 0] \in Entries
  BY BreakerAssumption DEF Entries
<1>2. Counted(ok) \in Seq(Entries)
  BY <1>1, AppendProperties DEF Counted
<1> QED
  BY <1>2, PruneSuffix

(* A tick leaves every entry where it is and ages it by at most one. *)
LEMMA TickAges ==
  ASSUME TypeOK, Tick
  PROVE  /\ window' \in Seq(Entries)
         /\ Len(window') = Len(window)
         /\ \A i \in 1..Len(window) :
              /\ window'[i].success = window[i].success
              /\ window'[i].age = Older(window[i].age, WindowSize + 1)
<1>1. /\ DOMAIN window = 1..Len(window)
      /\ Len(window) \in Nat
      /\ \A i \in 1..Len(window) : window[i] \in Entries
  BY DEF TypeOK
<1>2. \A i \in 1..Len(window) :
        /\ window'[i] \in Entries
        /\ window'[i].success = window[i].success
        /\ window'[i].age = Older(window[i].age, WindowSize + 1)
  BY <1>1, BreakerAssumption DEF Tick, Older, Entries
<1>3. window' = [i \in 1..Len(window) |-> window'[i]]
  BY <1>1 DEF Tick
<1>4. window' \in Seq(Entries)
  BY <1>1, <1>2, <1>3
<1>5. Len(window') = Len(window)
  BY <1>1, <1>3
<1> QED
  BY <1>2, <1>4, <1>5

(* The initial state has the right types. *)
LEMMA InitType == Init => TypeOK
BY BreakerAssumption DEF Init, TypeOK, States, CallStates, Entries

(* Every step keeps the types. *)
LEMMA NextType == TypeOK /\ [Next]_vars => TypeOK'
<1> SUFFICES ASSUME TypeOK, [Next]_vars PROVE TypeOK'
  OBVIOUS
<1>1. ASSUME NEW c \in Callers, Admit(c) PROVE TypeOK'
  BY <1>1 DEF Admit, TypeOK, States, CallStates
<1>2. ASSUME NEW c \in Callers, Reject(c) PROVE TypeOK'
  BY <1>2 DEF Reject, TypeOK, States, CallStates
<1>3. ASSUME NEW c \in Callers, Finish(c) PROVE TypeOK'
  <2>1. PICK ok \in BOOLEAN : Record(ok)
    BY <1>3 DEF Finish
  <2>2. Prune(Counted(ok)) \in Seq(Entries)
    BY RecordedWindow DEF TypeOK
  <2>3. state' \in States /\ window' \in Seq(Entries) /\ openedAge' \in 0..ResetTimeout
    <3> DEFINE w == Prune(Counted(ok))
    <3>1. CASE state = "HalfOpen" /\ ok /\ Close
      BY <3>1 DEF Close, TypeOK, States
    <3>2. CASE TripOpen
      BY <3>2, BreakerAssumption DEF TripOpen, States
    <3>3. CASE window' = w /\ UNCHANGED <<state, openedAge>>
      BY <2>2, <3>3 DEF TypeOK
    <3> QED
      BY <2>1, <3>1, <3>2, <3>3 DEF Record
  <2>4. call' \in [Callers -> CallStates] /\ up' \in BOOLEAN
    BY <1>3 DEF Finish, TypeOK, CallStates
  <2> QED
    BY <2>3, <2>4 DEF TypeOK
<1>4. CASE Tick
  <2>1. window' \in Seq(Entries)
    BY <1>4, TickAges
  <2>2. openedAge' \in 0..ResetTimeout
    BY <1>4, BreakerAssumption DEF Tick, Older, TypeOK
  <2> QED
    BY <1>4, <2>1, <2>2 DEF Tick, TypeOK
<1>5. CASE Toggle
  BY <1>5 DEF Toggle, TypeOK
<1>6. CASE UNCHANGED vars
  BY <1>6 DEF vars, TypeOK
<1> QED
  BY <1>1, <1>2, <1>3, <1>4, <1>5, <1>6 DEF Next, Enter

(* Type correctness: whatever the interleaving of calls, results and time,
   the breaker's fields keep their types. *)
THEOREM BreakerTypeCorrect == Spec => []TypeOK
BY InitType, NextType, PTL DEF Spec
-----------------------------------------------------------------------------
(* Ageing the entries changes neither how many there are nor which failed,
   so it cannot make a window meet the trip condition. *)
LEMMA TickKeepsVerdict ==
  ASSUME TypeOK, Tick
  PROVE  Trips(window)' <=> Trips(window)
<1>1. /\ DOMAIN window' = 1..Len(window')
      /\ DOMAIN window = 1..Len(window)
      /\ Len(window') = Len(window)
  BY TickAges DEF TypeOK
<1>2. {i \in DOMAIN window' : ~window'[i].success} = {i \in DOMAIN window : ~window[i].success}
  BY <1>1, TickAges
<1>3. Failures(window)' = Failures(window)
  BY <1>2 DEF Failures
<1> QED
  BY <1>1, <1>3 DEF Trips

(* An emptied window does not meet the trip condition. *)
LEMMA EmptyDoesNotTrip == ~Trips(<<>>)
BY BreakerAssumption DEF Trips

(* WindowBelowThreshold: whichever branch record takes, and whenever the
   result arrives, the window it leaves does not meet the trip condition. *)
THEOREM BreakerBelowThreshold == Spec => []WindowBelowThreshold
<1>1. Init => WindowBelowThreshold
  BY EmptyDoesNotTrip DEF Init, WindowBelowThreshold
<1>2. TypeOK /\ WindowBelowThreshold /\ [Next]_vars => WindowBelowThreshold'
  <2> SUFFICES ASSUME TypeOK, WindowBelowThreshold, [Next]_vars
               PROVE  WindowBelowThreshold'
    OBVIOUS
  <2>1. CASE UNCHANGED window
    BY <2>1 DEF WindowBelowThreshold, Trips, Failures
  <2>2. ASSUME NEW c \in Callers, Finish(c) PROVE WindowBelowThreshold'
    <3>1. PICK ok \in BOOLEAN : Record(ok)
      BY <2>2 DEF Finish
    <3>2. CASE window' = <<>>
      BY <3>2, EmptyDoesNotTrip DEF WindowBelowThreshold, Trips, Failures
    <3>3. CASE \E w : ~Trips(w) /\ window' = w
      BY <3>3 DEF WindowBelowThreshold, Trips, Failures
    <3> QED
      BY <3>1, <3>2, <3>3 DEF Record, Close, TripOpen
  <2>3. CASE Tick
    BY <2>3, TickKeepsVerdict DEF WindowBelowThreshold
  <2> QED
    BY <2>1, <2>2, <2>3 DEF Next, Enter, Admit, Reject, Toggle, vars
<1> QED
  BY <1>1, <1>2, BreakerTypeCorrect, PTL DEF Spec
-----------------------------------------------------------------------------
(* Admitting, refusing or finishing a call moves exactly that caller in or
   out of the protected function. *)
LEMMA CallerMoves ==
  ASSUME TypeOK, NEW c \in Callers
  PROVE  /\ Admit(c) => c \notin InFlight /\ InFlight' = InFlight \cup {c}
         /\ Reject(c) => InFlight' = InFlight
         /\ Finish(c) => c \in InFlight /\ InFlight' = InFlight \ {c}
BY DEF TypeOK, Admit, Reject, Finish, InFlight, CallStates

(* ImplementsGate: every step of the breaker is a step of the abstract gate
   or leaves it unchanged. *)
THEOREM BreakerImplementsGate == Spec => ImplementsGate
<1>1. Init => Gate!GateInit
  BY DEF Init, Gate!GateInit, InFlight
<1>2. TypeOK /\ [Next]_vars => [Gate!GateNext]_(Gate!gateVars)
  <2> SUFFICES ASSUME TypeOK, [Next]_vars
               PROVE  [Gate!GateNext]_(Gate!gateVars)
    OBVIOUS
  <2>1. ASSUME NEW c \in Callers, Admit(c) PROVE Gate!Pass(c)
    BY <2>1, CallerMoves DEF Admit, CanProceed, Gate!Pass
  <2>2. ASSUME NEW c \in Callers, Reject(c) PROVE UNCHANGED Gate!gateVars
    BY <2>2, CallerMoves DEF Reject, Gate!gateVars
  <2>3. ASSUME NEW c \in Callers, Finish(c) PROVE Gate!Return(c)
    <3>1. PICK ok \in BOOLEAN : Record(ok)
      BY <2>3 DEF Finish
    <3> QED
      BY <2>3, <3>1, CallerMoves DEF Record, Close, TripOpen, Gate!Return
  <2>4. CASE Tick
    <3>1. InFlight' = InFlight
      BY <2>4 DEF Tick, InFlight
    <3> QED
      BY <2>4, <3>1, BreakerAssumption
         DEF Tick, Older, TypeOK, Gate!GateNext, Gate!Wait, Gate!gateVars
  <2>5. CASE Toggle \/ UNCHANGED vars
    BY <2>5 DEF Toggle, vars, InFlight, Gate!gateVars
  <2> QED
    BY <2>1, <2>2, <2>3, <2>4, <2>5 DEF Next, Enter, Gate!GateNext
<1> QED
  BY <1>1, <1>2, BreakerTypeCorrect, PTL DEF Spec, ImplementsGate, Gate!GateSpec
-----------------------------------------------------------------------------
(* How many numbers there are from 1 to n. *)
LEMMA IntervalSize ==
  ASSUME NEW n \in Nat
  PROVE  IsFiniteSet(1..n) /\ Cardinality(1..n) = n
BY FS_Interval

(* WindowChronological, of any window. *)
Chronological(w) == \A i, j \in 1..Len(w) : i < j => w[i].age >= w[j].age

(* The entry of a new result is the youngest. *)
LEMMA CountedChronological ==
  ASSUME NEW ok \in BOOLEAN, window \in Seq(Entries), Chronological(window)
  PROVE  /\ Counted(ok) \in Seq(Entries) /\ Chronological(Counted(ok))
         /\ Len(Counted(ok)) = Len(window) + 1
         /\ \A i \in 1..Len(window) : Counted(ok)[i] = window[i]
         /\ Counted(ok)[Len(window) + 1].age = 0
<1>1. [success |-> ok, age |-> 0] \in Entries
  BY BreakerAssumption DEF Entries
<1>2. /\ Counted(ok) \in Seq(Entries)
      /\ Len(Counted(ok)) = Len(window) + 1
      /\ \A i \in 1..Len(window) : Counted(ok)[i] = window[i]
      /\ Counted(ok)[Len(window) + 1] = [success |-> ok, age |-> 0]
  BY <1>1, AppendProperties DEF Counted
<1>3. Len(window) \in Nat /\ \A i \in 1..Len(window) : window[i].age \in Nat
  <2>1. \A i \in 1..Len(window) : window[i] \in Entries
    BY ElementOfSeq
  <2> QED
    BY <2>1, LenProperties, BreakerAssumption DEF Entries
<1>4. ASSUME NEW i \in 1..(Len(window) + 1), NEW j \in 1..(Len(window) + 1), i < j
      PROVE  Counted(ok)[i].age >= Counted(ok)[j].age
  <2>1. CASE j = Len(window) + 1
    BY <1>2, <1>3, <1>4, <2>1
  <2>2. CASE j # Len(window) + 1
    BY <1>2, <1>3, <1>4, <2>2 DEF Chronological
  <2> QED
    BY <2>1, <2>2
<1> QED
  BY <1>2, <1>4 DEF Chronological

(* In the order of their ages, the entries the loop drops are those that are
   too old, and no other. *)
LEMMA StaleIsOld ==
  ASSUME NEW w \in Seq(Entries), Chronological(w)
  PROVE  StalePrefix(w) = {i \in 1..Len(w) : w[i].age > WindowSize}
<1>1. /\ DOMAIN w = 1..Len(w) /\ Len(w) \in Nat /\ WindowSize \in Nat
      /\ \A i \in 1..Len(w) : w[i].age \in Nat
  <2>1. \A i \in 1..Len(w) : w[i] \in Entries
    BY ElementOfSeq
  <2> QED
    BY <2>1, LenProperties, BreakerAssumption DEF Entries
<1>2. ASSUME NEW i \in 1..Len(w), w[i].age > WindowSize, NEW j \in 1..i
      PROVE  w[j].age > WindowSize
  <2>1. j \in 1..Len(w)
    BY <1>1
  <2>2. j = i \/ w[j].age >= w[i].age
    BY <1>1, <2>1 DEF Chronological
  <2> QED
    BY <1>1, <1>2, <2>1, <2>2
<1> QED
  BY <1>1, <1>2 DEF StalePrefix

(* The entries after the dropped ones are not too old. *)
LEMMA KeptIsFresh ==
  ASSUME NEW w \in Seq(Entries), Chronological(w)
  PROVE  \A i \in 1..Len(w) : i > Cardinality(StalePrefix(w)) => w[i].age <= WindowSize
<1>0. /\ Len(w) \in Nat /\ WindowSize \in Nat /\ DOMAIN w = 1..Len(w)
      /\ \A i \in 1..Len(w) : w[i].age \in Nat
      /\ IsFiniteSet(StalePrefix(w)) /\ Cardinality(StalePrefix(w)) \in Nat
  <2>1. \A i \in 1..Len(w) : w[i] \in Entries
    BY ElementOfSeq
  <2>2. StalePrefix(w) \subseteq 1..Len(w) /\ IsFiniteSet(1..Len(w))
    BY LenProperties, IntervalSize DEF StalePrefix
  <2> QED
    BY <2>1, <2>2, LenProperties, BreakerAssumption, FS_Subset, FS_CardinalityType DEF Entries
<1>1. ASSUME NEW i \in 1..Len(w), i > Cardinality(StalePrefix(w)), w[i].age > WindowSize
      PROVE  FALSE
  <2>1. i \in StalePrefix(w)
    BY <1>1, StaleIsOld
  <2>2. 1..i \subseteq StalePrefix(w)
    BY <1>0, <2>1 DEF StalePrefix
  <2>3. Cardinality(1..i) <= Cardinality(StalePrefix(w))
    BY <1>0, <2>2, FS_Subset
  <2>4. Cardinality(1..i) = i
    BY FS_Interval
  <2> QED
    BY <1>0, <1>1, <2>3, <2>4
<1> QED
  BY <1>0, <1>1

(* Dropping a prefix keeps the order. *)
LEMMA PruneChronological ==
  ASSUME NEW w \in Seq(Entries), Chronological(w)
  PROVE  Chronological(Prune(w))
<1> DEFINE k == Cardinality(StalePrefix(w))
<1>1. /\ k \in 0..Len(w) /\ Len(w) \in Nat
      /\ Len(Prune(w)) = Len(w) - k
      /\ \A i \in 1..Len(Prune(w)) : Prune(w)[i] = w[k + i]
  BY StalePrefixBounded, PruneSuffix, LenProperties
<1> HIDE DEF k
<1>2. ASSUME NEW i \in 1..Len(Prune(w)), NEW j \in 1..Len(Prune(w)), i < j
      PROVE  Prune(w)[i].age >= Prune(w)[j].age
  <2>1. k + i \in 1..Len(w) /\ k + j \in 1..Len(w) /\ k + i < k + j
    BY <1>1, <1>2
  <2> QED
    BY <1>1, <2>1 DEF Chronological
<1> QED
  BY <1>2 DEF Chronological

(* A result leaves the window pruned, or empty. *)
LEMMA FinishWindow ==
  ASSUME TypeOK, NEW c \in Callers, Finish(c)
  PROVE  window' = <<>> \/ \E ok \in BOOLEAN : window' = Prune(Counted(ok))
<1>1. PICK ok \in BOOLEAN : Record(ok)
  BY DEF Finish
<1> QED
  BY <1>1 DEF Record, Close, TripOpen

(* WindowChronological: dropping a prefix drops everything that is too old. *)
THEOREM BreakerChronological == Spec => []WindowChronological
<1>0. ASSUME TypeOK
      PROVE  WindowChronological <=> Chronological(window)
  BY <1>0, LenProperties DEF TypeOK, WindowChronological, Chronological
<1>1. Init => WindowChronological
  BY DEF Init, WindowChronological
<1>2. TypeOK /\ WindowChronological /\ [Next]_vars => WindowChronological'
  <2> SUFFICES ASSUME TypeOK, WindowChronological, [Next]_vars
               PROVE  WindowChronological'
    OBVIOUS
  <2>1. CASE UNCHANGED window
    BY <2>1 DEF WindowChronological
  <2>2. ASSUME NEW c \in Callers, Finish(c) PROVE WindowChronological'
    <3>1. ASSUME NEW ok \in BOOLEAN, window' = Prune(Counted(ok))
          PROVE  WindowChronological'
      <4>1. window \in Seq(Entries) /\ Chronological(window)
        BY <1>0 DEF TypeOK
      <4>2. Counted(ok) \in Seq(Entries) /\ Chronological(Counted(ok))
        BY <4>1, CountedChronological
      <4> DEFINE p == Prune(Counted(ok))
      <4>3. Chronological(p) /\ p \in Seq(Entries)
        BY <4>2, PruneChronological, PruneSuffix
      <4> HIDE DEF p
      <4>4. DOMAIN p = 1..Len(p)
        BY <4>3, LenProperties
      <4>5. window' = p
        BY <3>1 DEF p
      <4> QED
        BY <4>3, <4>4, <4>5 DEF WindowChronological, Chronological
    <3>2. CASE window' = <<>>
      BY <3>2 DEF WindowChronological
    <3> QED
      BY <2>2, <3>1, <3>2, FinishWindow
  <2>3. CASE Tick
    <3>1. /\ window \in Seq(Entries) /\ Chronological(window)
          /\ \A i \in 1..Len(window) : window[i].age \in Int
      <4>1. window \in Seq(Entries) /\ \A i \in 1..Len(window) : window[i] \in Entries
        BY ElementOfSeq DEF TypeOK
      <4> QED
        BY <1>0, <4>1 DEF Entries
    <3>2. /\ DOMAIN window' = 1..Len(window)
          /\ \A i \in 1..Len(window) : window'[i].age = Older(window[i].age, WindowSize + 1)
      BY <2>3, TickAges, LenProperties
    <3>3. ASSUME NEW i \in 1..Len(window), NEW j \in 1..Len(window), i < j
          PROVE  window'[i].age >= window'[j].age
      <4>1. window[i].age >= window[j].age /\ window[i].age \in Int /\ window[j].age \in Int
        BY <3>1, <3>3 DEF Chronological
      <4> QED
        BY <3>2, <4>1, BreakerAssumption DEF Older
    <3> QED
      BY <3>2, <3>3 DEF WindowChronological
  <2> QED
    BY <2>1, <2>2, <2>3 DEF Next, Enter, Admit, Reject, Toggle, vars
<1> QED
  BY <1>1, <1>2, BreakerTypeCorrect, PTL DEF Spec

(* WindowExact: a result leaves in the window what the last windowSize has
   brought, and itself. *)
THEOREM BreakerWindowExact == Spec => WindowExact
<1>1. ASSUME TypeOK, WindowChronological,
             NEW c \in Callers, NEW ok \in BOOLEAN, window' = Prune(Counted(ok))
      PROVE  /\ \A i \in DOMAIN window' : window'[i].age <= WindowSize
             /\ Len(window') = 1 + Cardinality({i \in DOMAIN window :
                                                  window[i].age <= WindowSize})
  <2> DEFINE w == Counted(ok)
             n == Len(window)
             stale == {i \in 1..n : window[i].age > WindowSize}
             fresh == {i \in 1..n : window[i].age <= WindowSize}
  <2>1. /\ window \in Seq(Entries) /\ n \in Nat /\ DOMAIN window = 1..n
        /\ Chronological(window) /\ WindowSize \in Nat
        /\ \A i \in 1..n : window[i].age \in Nat
    <3>1. window \in Seq(Entries) /\ \A i \in 1..n : window[i] \in Entries
      BY <1>1, ElementOfSeq DEF TypeOK
    <3> QED
      BY <1>1, <3>1, LenProperties, BreakerAssumption
         DEF WindowChronological, Chronological, Entries
  <2>2. /\ w \in Seq(Entries) /\ Chronological(w) /\ Len(w) = n + 1
        /\ \A i \in 1..n : w[i] = window[i]
        /\ w[n + 1].age = 0
    BY <2>1, CountedChronological
  <2> HIDE DEF w
  <2>3. StalePrefix(w) = stale
    <3>1. StalePrefix(w) = {i \in 1..(n + 1) : w[i].age > WindowSize}
      BY <2>2, StaleIsOld
    <3> QED
      BY <2>1, <2>2, <3>1
  <2>4. Cardinality(stale) + Cardinality(fresh) = n
    <3>1. IsFiniteSet(1..n) /\ Cardinality(1..n) = n
      BY <2>1, IntervalSize
    <3>2. stale \subseteq 1..n /\ fresh = (1..n) \ stale
      BY <2>1
    <3> HIDE DEF stale, fresh
    <3>3. Cardinality(fresh) = Cardinality(1..n) - Cardinality(stale)
      <4>1. Cardinality((1..n) \ stale) = Cardinality(1..n) - Cardinality((1..n) \cap stale)
        BY <3>1, FS_Difference
      <4>2. (1..n) \cap stale = stale
        BY <3>2
      <4> QED
        BY <3>2, <4>1, <4>2
    <3>4. Cardinality(stale) \in Nat
      BY <3>1, <3>2, FS_Subset, FS_CardinalityType
    <3> QED
      BY <2>1, <3>1, <3>3, <3>4
  <2>5. Cardinality(stale) \in Nat /\ Cardinality(fresh) \in Nat
    <3>1. IsFiniteSet(1..n) /\ stale \subseteq 1..n /\ fresh \subseteq 1..n
      BY <2>1, IntervalSize
    <3> QED
      BY <3>1, FS_Subset, FS_CardinalityType
  <2>6. /\ window' \in Seq(Entries) /\ Len(window') = n + 1 - Cardinality(stale)
        /\ \A i \in 1..Len(window') : window'[i] = w[Cardinality(stale) + i]
    <3>1. window' = Prune(w)
      BY <1>1 DEF w
    <3> HIDE DEF stale, n
    <3>2. /\ Prune(w) \in Seq(Entries)
          /\ Len(Prune(w)) = Len(w) - Cardinality(stale)
          /\ \A i \in 1..Len(Prune(w)) : Prune(w)[i] = w[Cardinality(stale) + i]
      BY <2>2, <2>3, PruneSuffix
    <3>3. Len(Prune(w)) = n + 1 - Cardinality(stale)
      BY <2>1, <2>2, <2>5, <3>2
    <3> QED
      BY <3>1, <3>2, <3>3
  <2>7. \A i \in 1..Len(w) : i > Cardinality(stale) => w[i].age <= WindowSize
    BY <2>2, <2>3, KeptIsFresh
  <2>8. DOMAIN window' = 1..Len(window')
    BY <2>6, LenProperties
  <2>9. fresh = {i \in DOMAIN window : window[i].age <= WindowSize}
    BY <2>1
  <2> HIDE DEF stale, fresh, n
  <2>10. ASSUME NEW i \in 1..Len(window')
        PROVE  window'[i].age <= WindowSize
    <3>1. Cardinality(stale) + i \in 1..Len(w) /\ Cardinality(stale) + i > Cardinality(stale)
      BY <2>1, <2>2, <2>6, <2>5
    <3> QED
      BY <2>6, <2>7, <3>1
  <2> QED
    BY <2>1, <2>4, <2>6, <2>5, <2>8, <2>9, <2>10
<1>2. TypeOK /\ WindowChronological /\ [Next]_vars =>
        [\A c \in Callers :
           (c \in InFlight /\ call'[c] = "idle" /\ window' # <<>>)
             => /\ \A i \in DOMAIN window' : window'[i].age <= WindowSize
                /\ Len(window') = 1 + Cardinality({i \in DOMAIN window :
                                                     window[i].age <= WindowSize})]_vars
  <2> SUFFICES ASSUME TypeOK, WindowChronological, [Next]_vars, ~UNCHANGED vars,
                      NEW c \in Callers, c \in InFlight, call'[c] = "idle", window' # <<>>
               PROVE  /\ \A i \in DOMAIN window' : window'[i].age <= WindowSize
                      /\ Len(window') = 1 + Cardinality({i \in DOMAIN window :
                                                           window[i].age <= WindowSize})
    OBVIOUS
  <2>1. \E d \in Callers : Finish(d)
    <3>1. call[c] # "idle"
      BY DEF InFlight
    <3> QED
      BY <3>1 DEF Next, Enter, Admit, Reject, Tick, Toggle, vars, TypeOK
  <2>2. PICK ok \in BOOLEAN : window' = Prune(Counted(ok))
    BY <2>1, FinishWindow
  <2> QED
    BY <1>1, <2>2
<1> QED
  BY <1>2, BreakerTypeCorrect, BreakerChronological, PTL DEF Spec, WindowExact
=============================================================================

------------------------------- MODULE Breaker -------------------------------
(***************************************************************************)
(* internal/pkg/circuitbreaker/breaker.go: the sliding-window circuit      *)
(* breaker that wraps every OpenAI call and the Qdrant upsert and search.  *)
(*                                                                         *)
(* Call runs canProceed, then the protected function, then record; only    *)
(* the two ends hold the mutex, so any number of calls are between them    *)
(* and their results arrive in any order, in whatever state the breaker is *)
(* by then.  Time is kept as ages: the clock readings the code stores are  *)
(* only ever compared with windowSize and resetTimeout, so an age that has *)
(* passed the bound it is compared with stops growing and the state space  *)
(* stays finite on unbounded behaviours.                                   *)
(***************************************************************************)
EXTENDS Integers, Sequences, FiniteSets

CONSTANTS
  Callers,            \* goroutines that use the breaker
  WindowSize,         \* windowSize, in ticks
  MinRequests,        \* minRequests
  RateNum, RateDen,   \* failureRate = RateNum / RateDen
  ResetTimeout,       \* resetTimeout, in ticks
  MaxWindow           \* bound of the model: results held or awaited at once

ASSUME BreakerAssumption ==
  /\ WindowSize \in Nat
  /\ MinRequests \in Nat \ {0}
  /\ RateNum \in Nat
  /\ RateDen \in Nat \ {0}
  /\ ResetTimeout \in Nat
  /\ MaxWindow \in Nat
  /\ IsFiniteSet(Callers)

VARIABLES
  state,      \* cb.state
  window,     \* cb.window: the results counted so far, oldest first
  openedAge,  \* time since cb.openedAt, saturated at ResetTimeout
  call,       \* where each caller is (see CallStates)
  up          \* whether the dependency answers every call it gets

vars == <<state, window, openedAge, call, up>>

States == {"Closed", "Open", "HalfOpen"}

(* "idle" and "rejected" callers are outside Call (the last one of a
   rejected caller returned ErrCircuitOpen); "calling" and "probing" callers
   are inside the protected function, and a probing one was let through by
   an open or half-open breaker. *)
CallStates == {"idle", "rejected", "calling", "probing"}

Entries == [success : BOOLEAN, age : 0..(WindowSize + 1)]

InFlight == {c \in Callers : call[c] \in {"calling", "probing"}}

Failures(w) == Cardinality({i \in DOMAIN w : ~w[i].success})
-----------------------------------------------------------------------------
(* canProceed: only an open breaker whose reset timeout has not passed
   refuses. *)
CanProceedImpatient == state \in States
CanProceed == state = "Open" => openedAge = ResetTimeout

(* The loop of record that drops the longest prefix of entries recorded
   before now - windowSize. *)
StalePrefixInclusive(w) == {i \in DOMAIN w : \A j \in 1..i : w[j].age >= WindowSize}
StalePrefix(w) == {i \in DOMAIN w : \A j \in 1..i : w[j].age > WindowSize}

Prune(w) == SubSeq(w, Cardinality(StalePrefix(w)) + 1, Len(w))

(* The trip condition over the entries left in the window. *)
Trips(w) == /\ Len(w) >= MinRequests
            /\ Failures(w) * RateDen >= RateNum * Len(w)

TripOpenAhead == state' = "Open" /\ openedAge' = -ResetTimeout /\ window' = <<>>
TripOpen == state' = "Open" /\ openedAge' = 0 /\ window' = <<>>

CloseForgotten == window' = <<>> /\ UNCHANGED <<state, openedAge>>
Close == state' = "Closed" /\ window' = <<>> /\ UNCHANGED openedAge

(* The entry of a result goes to the end of the window. *)
Counted(ok) == Append(window, [success |-> ok, age |-> 0])

(* record(success): one result settles a half-open breaker; otherwise, open
   breakers included, the pruned window decides. *)
RecordUnjudged(ok) ==
  LET w == Prune(Counted(ok))
  IN  \/ state = "HalfOpen" /\ ok /\ Close
      \/ state = "HalfOpen" /\ ~ok /\ TripOpen
      \/ state = "Closed" /\ Trips(w) /\ TripOpen
      \/ /\ state = "Open" \/ (state = "Closed" /\ ~Trips(w))
         /\ window' = w /\ UNCHANGED <<state, openedAge>>
Record(ok) ==
  LET w == Prune(Counted(ok))
  IN  \/ state = "HalfOpen" /\ ok /\ Close
      \/ state = "HalfOpen" /\ ~ok /\ TripOpen
      \/ state # "HalfOpen" /\ Trips(w) /\ TripOpen
      \/ state # "HalfOpen" /\ ~Trips(w) /\ window' = w /\ UNCHANGED <<state, openedAge>>
-----------------------------------------------------------------------------
Init == /\ state = "Closed"
        /\ window = <<>>
        /\ openedAge = ResetTimeout
        /\ call = [c \in Callers |-> "idle"]
        /\ up = TRUE

(* The results that may be in the window when this call's own arrives. *)
Pending == Cardinality({i \in DOMAIN window : window[i].age <= WindowSize})
             + Cardinality(InFlight)

(* Call, first half: canProceed lets the function run. *)
Admit(c) == /\ call[c] \in {"idle", "rejected"}
            /\ Pending < MaxWindow
            /\ CanProceed
            /\ state' = IF state = "Open" THEN "HalfOpen" ELSE state
            /\ call' = [call EXCEPT ![c] = IF state = "Closed" THEN "calling" ELSE "probing"]
            /\ UNCHANGED <<window, openedAge, up>>

(* Call returns ErrCircuitOpen without running the function. *)
RejectRearms(c) == /\ call[c] \in {"idle", "rejected"}
                   /\ ~CanProceed
                   /\ call' = [call EXCEPT ![c] = "rejected"]
                   /\ openedAge' = 0
                   /\ UNCHANGED <<state, window, up>>
Reject(c) == /\ call[c] \in {"idle", "rejected"}
             /\ ~CanProceed
             /\ call' = [call EXCEPT ![c] = "rejected"]
             /\ UNCHANGED <<state, window, openedAge, up>>

(* Call, second half: the function returned and its outcome is recorded. *)
Finish(c) == /\ c \in InFlight
             /\ \E ok \in BOOLEAN : (up => ok) /\ Record(ok)
             /\ call' = [call EXCEPT ![c] = "idle"]
             /\ UNCHANGED up

(* The clock moves on by one tick. *)
Older(age, bound) == IF age < bound THEN age + 1 ELSE age
Tick == /\ window' = [i \in DOMAIN window |->
                        [window[i] EXCEPT !.age = Older(@, WindowSize + 1)]]
        /\ openedAge' = Older(openedAge, ResetTimeout)
        /\ UNCHANGED <<state, call, up>>

(* The dependency goes down, and while it is down a call may fail or not;
   or it comes back, and every call succeeds. *)
Toggle == up' = ~up /\ UNCHANGED <<state, window, openedAge, call>>

Enter(c) == Admit(c) \/ Reject(c)

Next == \/ \E c \in Callers : Enter(c) \/ Finish(c)
        \/ Tick
        \/ Toggle

Spec == Init /\ [][Next]_vars

(* Time passes, every protected call returns, and requests keep arriving. *)
Fairness == /\ WF_vars(Tick)
            /\ WF_vars(\E c \in Callers : Enter(c))
            /\ \A c \in Callers : WF_vars(Finish(c))

FairSpec == Spec /\ Fairness
-----------------------------------------------------------------------------
(* Type invariant. *)
TypeOK == /\ state \in States
          /\ window \in Seq(Entries)
          /\ openedAge \in 0..ResetTimeout
          /\ call \in [Callers -> CallStates]
          /\ up \in BOOLEAN

(* The breaker never rests on a window that already meets its own trip
   condition: whatever mix of on-time, late and probe results has been
   recorded, and whichever branch of record took them, the failures that are
   left cannot by themselves have reached the threshold. *)
WindowBelowThreshold == ~Trips(window)

(* Entries are in the order they were recorded, which is what makes dropping
   a prefix the same as dropping everything too old. *)
WindowChronological ==
  \A i, j \in DOMAIN window : i < j => window[i].age >= window[j].age

(* A result that does not change the state leaves in the window exactly the
   entries of the last windowSize and itself: nothing stale survives the
   prefix loop and nothing fresh is dropped by it. *)
WindowExact ==
  [][\A c \in Callers :
       (c \in InFlight /\ call'[c] = "idle" /\ window' # <<>>)
         => /\ \A i \in DOMAIN window' : window'[i].age <= WindowSize
            /\ Len(window') = 1 + Cardinality({i \in DOMAIN window :
                                                 window[i].age <= WindowSize})]_vars

(* The breaker implements the gate of CallGate.tla. *)
Gate == INSTANCE CallGate WITH gate <- state, quiet <- openedAge, inside <- InFlight
ImplementsGate == Gate!GateSpec

(* An open breaker does not stay open: rejected requests and late failures
   of calls admitted before the trip only delay the half-open probe. *)
OpenEventuallyProbes == (state = "Open") ~> (state # "Open")

(* Once the dependency has recovered for good the breaker ends up closed and
   stays closed, even though a success can itself trip it (by completing
   MinRequests) and old failures are still in its window. *)
RecoversForGood == <>[]up => <>[](state = "Closed")

(* The comment on CircuitBreaker: one request is let through as a probe. *)
SingleProbe == Cardinality({c \in Callers : call[c] = "probing"}) <= 1
=============================================================================

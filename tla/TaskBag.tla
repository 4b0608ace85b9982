------------------------------- MODULE TaskBag -------------------------------
(***************************************************************************)
(* What a bounded worker pool promises for the tasks it is given, with no  *)
(* queue order, channels or goroutines: a task is taken in or turned away  *)
(* once, it is started at most once and only after it was taken in, and    *)
(* no more than Capacity tasks wait and no more than Width run at a time.  *)
(***************************************************************************)
EXTENDS Integers, FiniteSets

CONSTANTS Tasks, Capacity, Width

VARIABLES waiting, running, done, refused

bagVars == <<waiting, running, done, refused>>

BagInit == waiting = {} /\ running = {} /\ done = {} /\ refused = {}

Fresh(t) == t \notin waiting \cup running \cup done \cup refused

Accept(t) == /\ Fresh(t)
             /\ Cardinality(waiting) < Capacity
             /\ waiting' = waiting \cup {t}
             /\ UNCHANGED <<running, done, refused>>

Refuse(t) == /\ Fresh(t)
             /\ refused' = refused \cup {t}
             /\ UNCHANGED <<waiting, running, done>>

Start(t) == /\ t \in waiting
            /\ Cardinality(running) < Width
            /\ waiting' = waiting \ {t}
            /\ running' = running \cup {t}
            /\ UNCHANGED <<done, refused>>

Complete(t) == /\ t \in running
               /\ running' = running \ {t}
               /\ done' = done \cup {t}
               /\ UNCHANGED <<waiting, refused>>

BagNext == \E t \in Tasks : Accept(t) \/ Refuse(t) \/ Start(t) \/ Complete(t)

BagSpec == BagInit /\ [][BagNext]_bagVars
=============================================================================

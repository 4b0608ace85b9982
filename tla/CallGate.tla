------------------------------ MODULE CallGate ------------------------------
(***************************************************************************)
(* What a circuit breaker promises to the dependency it protects, with no  *)
(* mention of how outcomes are counted: once the gate has opened, no call  *)
(* passes it until ResetTimeout has gone by; the first call after that     *)
(* half-opens it; and the first result that arrives while it is half-open  *)
(* settles it.  Breaker.tla is shown to implement this specification.      *)
(***************************************************************************)
EXTENDS Naturals

CONSTANTS Callers,        \* goroutines that may be inside Call
          ResetTimeout    \* ticks between opening and the first call let through

VARIABLES gate,    \* "Closed", "Open" or "HalfOpen"
          quiet,   \* ticks since the gate last opened, saturated at ResetTimeout
          inside   \* callers that have passed the gate and not yet returned

gateVars == <<gate, quiet, inside>>

GateInit == /\ gate = "Closed"
            /\ quiet = ResetTimeout
            /\ inside = {}

(* A call passes: freely unless the gate is open, and through an open gate
   only after the quiet period, which half-opens it. *)
Pass(c) == /\ c \notin inside
           /\ gate = "Open" => quiet = ResetTimeout
           /\ gate' = IF gate = "Open" THEN "HalfOpen" ELSE gate
           /\ inside' = inside \cup {c}
           /\ UNCHANGED quiet

(* A result arrives.  It may open the gate, from any state; it closes the
   gate only when the gate is half-open; a half-open gate never ignores it. *)
Return(c) == /\ c \in inside
             /\ inside' = inside \ {c}
             /\ \/ gate' = "Open" /\ quiet' = 0
                \/ gate = "HalfOpen" /\ gate' = "Closed" /\ UNCHANGED quiet
                \/ gate # "HalfOpen" /\ UNCHANGED <<gate, quiet>>

Wait == /\ quiet < ResetTimeout
        /\ quiet' = quiet + 1
        /\ UNCHANGED <<gate, inside>>

GateNext == \/ \E c \in Callers : Pass(c) \/ Return(c)
            \/ Wait

GateSpec == GateInit /\ [][GateNext]_gateVars
=============================================================================

---------------------------- MODULE MCEventQueue ----------------------------
(* Model-checking instances of EventQueue.                                  *)
EXTENDS EventQueue

(* A priority above the highest level, to be clamped; an event of the       *)
(* application that may expire; and an event of a node.                     *)
KindsMixed == { [prio |-> 5, ttl |-> FALSE, dest |-> "local"],
                [prio |-> 0, ttl |-> TRUE,  dest |-> "distant"] }
=============================================================================

--------------------------- MODULE PriorityQueue ---------------------------
(***************************************************************************)
(* What the event queue of CMSIS-Stream promises, with no ring buffer, no   *)
(* lock and no thread: one bounded first-in first-out sequence per          *)
(* priority, and a consumer that always takes the oldest event of the       *)
(* highest priority that has one, one event at a time.                      *)
(***************************************************************************)
EXTENDS Integers, Sequences

CONSTANTS
  Message,       (* the messages that may be queued                         *)
  NbPriorities,  (* number of priority levels                               *)
  Capacity,      (* bound on each sequence                                  *)
  Level(_),      (* the level at which a message is queued                  *)
  NoMessage      (* the consumer holds no message                           *)

VARIABLES
  waiting,       (* waiting[p] is the sequence of messages queued at p      *)
  inHand         (* the message the consumer is processing                  *)

pqVars == <<waiting, inHand>>

Levels == 0 .. NbPriorities - 1

Init ==
  /\ waiting = [p \in Levels |-> <<>>]
  /\ inHand = NoMessage

Put(m) ==
  /\ Len(waiting[Level(m)]) < Capacity
  /\ waiting' = [waiting EXCEPT ![Level(m)] = Append(@, m)]
  /\ UNCHANGED inHand

Take(p) ==
  /\ inHand = NoMessage
  /\ waiting[p] # <<>>
  /\ \A r \in Levels : r > p => waiting[r] = <<>>
  /\ inHand' = Head(waiting[p])
  /\ waiting' = [waiting EXCEPT ![p] = Tail(@)]

Finish ==
  /\ inHand # NoMessage
  /\ inHand' = NoMessage
  /\ UNCHANGED waiting

Flush ==
  /\ waiting' = [p \in Levels |-> <<>>]
  /\ UNCHANGED inHand

Next ==
  \/ \E m \in Message : Put(m)
  \/ \E p \in Levels : Take(p)
  \/ Finish
  \/ Flush

Spec == Init /\ [][Next]_pqVars
=============================================================================

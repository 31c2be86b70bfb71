-------------------------- MODULE MCRuntimeControl --------------------------
(* Model-checking instances of RuntimeControl: one thread of an application *)
(* and what it makes of the runtime.                                        *)
EXTENDS RuntimeControl

CONSTANT app

AllGraphs == {"g1", "g2", "ev"}
TwoGraphs == {"g1", "g2"}

(* It starts, pauses, switches between two graphs, stops and restarts, and   *)
(* the second thread may not start.                                         *)
Switch ==
  [platform |-> "CMSIS-RTOS",
   graphs |-> TwoGraphs, dataflow |-> TwoGraphs, first |-> "g1",
   pausers |-> {app}, stoppers |-> {app}, waiters |-> {},
   faults |-> {"startFailure"}, handlerStops |-> FALSE,
   maxFault |-> 1, maxCall |-> 5, maxStart |-> 2]

(* The same with a graph that is made of events only.                       *)
EventOnly ==
  [Switch EXCEPT !.graphs = {"ev"}, !.dataflow = {}, !.first = "ev",
                 !.faults = {}, !.maxFault = 0, !.maxCall = 4, !.maxStart = 1]

(* It stops and waits; two errors at any time.                              *)
Faulty ==
  [Switch EXCEPT !.pausers = {}, !.waiters = {app},
                 !.faults = {"streamError", "stopGraph", "finished", "eventError"},
                 !.maxFault = 2, !.maxCall = 3]

(* Its error handler stops the runtime, from a runtime thread.              *)
Handler ==
  [Faulty EXCEPT !.waiters = {}, !.stoppers = {}, !.handlerStops = TRUE,
                 !.faults = {"streamError", "stopGraph", "eventError"}]

(* It pauses and resumes; one error, after which a resumption may fail.     *)
Recovery ==
  [Switch EXCEPT !.faults = {"streamError", "stopGraph", "eventError"},
                 !.maxCall = 4, !.maxStart = 1]

(* A pause that meets an event error goes wrong on Zephyr as on posix: it is *)
(* left out of its uses.                                                    *)
AllUses ==
  LET Calm == {"streamError", "stopGraph"} IN
  {Switch, EventOnly, Faulty, Handler, Recovery,
   [Switch EXCEPT !.platform = "posix", !.maxCall = 3, !.maxStart = 1]}
  \cup {[u EXCEPT !.platform = "Zephyr"] :
          u \in {Switch, EventOnly, Faulty, Handler, [Recovery EXCEPT !.faults = Calm]}}

(* It pauses while an event handler fails, on posix.                        *)
PauseOnError ==
  {[Switch EXCEPT !.platform = "posix", !.stoppers = {}, !.faults = {"eventError"},
                  !.maxCall = 3, !.maxStart = 1]}

(* It pauses a graph of events and resumes one with dataflow nodes.          *)
MixedSwitch ==
  {[Switch EXCEPT !.platform = "posix", !.graphs = {"g1", "ev"}, !.first = "ev",
                  !.dataflow = {"g1"}, !.stoppers = {}, !.faults = {},
                  !.maxFault = 0, !.maxCall = 2, !.maxStart = 1]}

(* It restarts the graph after an error, on posix.                          *)
Restart ==
  {[Faulty EXCEPT !.platform = "posix", !.waiters = {},
                  !.faults = {"streamError"}, !.maxFault = 1]}
=============================================================================

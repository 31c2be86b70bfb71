----------------------------- MODULE MCLifecycle -----------------------------
(***************************************************************************)
(* The six programs with their own mains, and applications that stop, free  *)
(* and start again from a supervising thread, as the comment of             *)
(* handle_error() advises.                                                  *)
(***************************************************************************)
EXTENDS ApplicationLifecycle

\* The main of the hello program of a platform, of one graph
Use0(p) == [program |-> p, platform |-> p, queues |-> 1, waits |-> FALSE,
            frees |-> FALSE, restarts |-> FALSE, handlers |-> {}, failing |-> {1}]

Hello == {[Use0("posix") EXCEPT !.waits = TRUE],
          [Use0("CMSIS") EXCEPT !.handlers = Threads],
          [Use0("Zephyr") EXCEPT !.handlers = Threads]}

\* Of two graphs, with restarts
Supervised == {[Use0(p) EXCEPT !.queues = 2, !.frees = TRUE, !.restarts = TRUE] :
                 p \in {"posix", "CMSIS", "Zephyr"}}

\* Without the runtime: only the events example tests what init returns
Plain == {[Use0(p) EXCEPT !.platform = "posix", !.queues = 0, !.frees = TRUE,
                          !.failing = {}] : p \in {"Example10", "Callback"}}
Events == {[Use0("Events") EXCEPT !.platform = "posix", !.frees = TRUE]}

AllUses == Hello \cup Supervised \cup Plain \cup Events

\* The run has uses that the theorems are about
ASSUME UsesAreOrderly == \A u \in AllUses : OrderlyUse(u)

\* Supervised, and a later start fails too
FailsAgain == {[u EXCEPT !.failing = {1, 2}] : u \in Supervised}

\* The main of the posix program waits while a handler frees
WaitsAndHandles == {[Use0("posix") EXCEPT !.waits = TRUE, !.handlers = {t}] : t \in Threads}
=============================================================================

----------------------------- MODULE EventQueue -----------------------------
(***************************************************************************)
(* The event queue of the CMSIS-Stream runtime (EventQueue.hpp and the      *)
(* stream_event_queue.cpp of the posix, CMSIS-RTOS and Zephyr runtimes).    *)
(*                                                                         *)
(* Threads push events into one ring buffer per priority; the event thread  *)
(* runs execute(), which takes the events out and hands each to its node or *)
(* to the application; a controlling thread pauses, clears, resumes and     *)
(* ends the queue.  A step of the model is one access to shared state: an   *)
(* atomic load or store, one critical section of queue_mutex, or one        *)
(* operation of the wake-up event.                                          *)
(***************************************************************************)
EXTENDS Integers, Sequences, FiniteSets

CONSTANTS
  StreamProducers,    (* pushing threads that the runtime parks in a pause  *)
  ExternalProducers,  (* pushing threads that the runtime knows nothing of  *)
  EventThread,        (* the thread that runs execute()                     *)
  NbPriorities,       (* nb_priorities                                      *)
  QueueMax,           (* POSIX_QUEUE_MAX_ELEMS, MY_QUEUE_MAX_ELEMS          *)
  Kinds,              (* what is pushed: records [prio, ttl, dest]          *)
  FailingDest,        (* destinations whose handler may report a failure    *)
  Platforms,          (* which of "posix", "CMSIS-RTOS" and "Zephyr"        *)
  MaxPush,            (* bound: pushes of each producer                     *)
  MaxHandlerPush,     (* bound: pushes by the handlers of events            *)
  MaxPause,           (* bound: pauses asked by the controlling thread      *)
  MaxResume,          (* bound: resumptions by the controlling thread       *)
  NoMessage           (* the empty slot, and the empty hand                 *)

Producers == StreamProducers \cup ExternalProducers
Threads   == Producers \cup {EventThread}
Levels    == 0 .. NbPriorities - 1
Slots     == 0 .. QueueMax - 1

PushBound(t) == IF t = EventThread THEN MaxHandlerPush ELSE MaxPush

(* A message is what was pushed, stamped with its origin: src and seq stand *)
(* for the identity of the event and are not read by the code.              *)
Message == [src : Threads, seq : 1 .. MaxPush + MaxHandlerPush,
            kind : Kinds]

ASSUME ConstantsAssumption ==
  /\ EventThread \notin Producers
  /\ NbPriorities \in Nat \ {0}
  /\ QueueMax \in Nat \ {0}
  /\ \A k \in Kinds : k.prio \in Nat /\ k.ttl \in BOOLEAN
                                     /\ k.dest \in {"local", "distant"}
  /\ FailingDest \subseteq {"local", "distant"}
  /\ MaxPush \in Nat /\ MaxHandlerPush \in Nat
  /\ MaxPause \in Nat /\ MaxResume \in Nat
  /\ NoMessage \notin Message

VARIABLES
  platform,                      (* whose stream_event_queue.cpp this is    *)
  queue, read, write, nb_elems,  (* the rings, guarded by queue_mutex       *)
  queue_mutex,                   (* its owner, or NoMessage                 *)
  event_,                        (* the wake-up event                       *)
  mustEnd_, mustPause_,
  error,         (* errorPending_, errorStatus_, errorNodeId_               *)
  pushPc,        (* where each thread is in push()                          *)
  pushed,        (* the message each thread is pushing                      *)
  nbPush,        (* how many pushes each thread has begun                   *)
  errPc,         (* where each thread is in setError()                      *)
  errArg,        (* the arguments of that call                              *)
  execPc, msg,   (* where the event thread is, and the message it has taken *)
  report,        (* the error last read by consumeError()                   *)
  ctlPc,         (* where the controlling thread is                         *)
  go,            (* EVENT_RESUME: the parked event thread may continue      *)
  parked,        (* the stream thread has been parked with the event thread *)
  nbPause, nbResume,
  late           (* history: events dispatched since mustPause_ was set     *)

ringVars  == <<queue, read, write, nb_elems>>
flagVars  == <<event_, mustEnd_, mustPause_>>
errVars   == <<error, errPc, errArg>>
pushVars  == <<pushPc, pushed, nbPush>>
execVars  == <<execPc, msg, report>>
ctlVars   == <<ctlPc, go, nbPause, nbResume, parked>>
(* What execute() leaves alone as long as it runs no handler, and what the  *)
(* controlling thread leaves alone.                                         *)
notExec   == <<platform, ringVars, queue_mutex, flagVars, errVars, pushVars,
               ctlVars>>
notCtl    == <<platform, ringVars, queue_mutex, errVars, pushVars, execVars>>
vars == <<platform, ringVars, queue_mutex, flagVars, errVars, pushVars,
          execVars, ctlVars, late>>

(* A full ring is an error on posix, elsewhere the event is dropped; a wait  *)
(* clears what it has waited for, but for Zephyr's.                         *)
OverflowIsError == platform = "posix"
AtomicWait == platform # "Zephyr"

(* cg_status values and node ids, as far as a report tells them apart.      *)
CleanError == [pending |-> FALSE, status |-> "CG_SUCCESS", node |-> "none"]
OverflowError == [status |-> "CG_EVENT_QUEUE_FULL", node |-> "none"]
HandlerError(dest) ==
  IF dest = "local" THEN [status |-> "nodeStatus", node |-> "dst"]
                    ELSE [status |-> "CG_EVENT_QUEUE_FULL", node |-> "src"]
NoReport == [status |-> "noReport", node |-> "noReport"]

-----------------------------------------------------------------------------
(* The rings.                                                              *)

(* push() and execute() clamp a priority above the highest level.           *)
LevelOf(m) == IF m.kind.prio >= NbPriorities THEN NbPriorities - 1
                                             ELSE m.kind.prio

Wrapped(i) == IF i = QueueMax THEN 0 ELSE i

(* The index n slots further, n at most QueueMax: n increments that wrap.   *)
Advanced(i, n) == IF i + n >= QueueMax THEN i + n - QueueMax ELSE i + n

Enqueue(m) ==
  LET p == LevelOf(m) IN
  /\ queue' = [queue EXCEPT ![p][write[p]] = m]
  /\ write' = [write EXCEPT ![p] = Wrapped(@ + 1)]
  /\ nb_elems' = [nb_elems EXCEPT ![p] = @ + 1]
  /\ UNCHANGED read

(* A moved-from message is empty.                                           *)
Dequeue(p) ==
  /\ queue' = [queue EXCEPT ![p][read[p]] = NoMessage]
  /\ read' = [read EXCEPT ![p] = Wrapped(@ + 1)]
  /\ nb_elems' = [nb_elems EXCEPT ![p] = @ - 1]
  /\ UNCHANGED write

isEmpty == \A p \in Levels : nb_elems[p] = 0

(* Mutant of TopLevel: the lowest priority goes first.                      *)
BottomLevel(p) == nb_elems[p] # 0 /\ \A r \in Levels : r < p => nb_elems[r] = 0

TopLevel(p) == nb_elems[p] # 0 /\ \A r \in Levels : r > p => nb_elems[r] = 0

Unlocked == queue_mutex = NoMessage
-----------------------------------------------------------------------------
(* setError(): three stores, then pause(), which stores and notifies.  The  *)
(* stores of the additional information are those of the node.              *)

StartError(t, e) ==
  /\ errPc' = [errPc EXCEPT ![t] = "status"]
  /\ errArg' = [errArg EXCEPT ![t] = e]

(* Mutant of StoreErrorField: the node is not stored.                       *)
StoreErrorNoNode(t) ==
  /\ \/ /\ errPc[t] = "status"
        /\ error' = [error EXCEPT !.status = errArg[t].status]
        /\ errPc' = [errPc EXCEPT ![t] = "pending"]
     \/ /\ errPc[t] = "pending"
        /\ error' = [error EXCEPT !.pending = TRUE]
        /\ errPc' = [errPc EXCEPT ![t] = "pause"]
  /\ UNCHANGED <<platform, ringVars, queue_mutex, flagVars, errArg, pushVars,
                 execVars, ctlVars, late>>

StoreErrorField(t) ==
  /\ \/ /\ errPc[t] = "status"
        /\ error' = [error EXCEPT !.status = errArg[t].status]
        /\ errPc' = [errPc EXCEPT ![t] = "node"]
     \/ /\ errPc[t] = "node"
        /\ error' = [error EXCEPT !.node = errArg[t].node]
        /\ errPc' = [errPc EXCEPT ![t] = "pending"]
     \/ /\ errPc[t] = "pending"
        /\ error' = [error EXCEPT !.pending = TRUE]
        /\ errPc' = [errPc EXCEPT ![t] = "pause"]
  /\ UNCHANGED <<platform, ringVars, queue_mutex, flagVars, errArg, pushVars,
                 execVars, ctlVars, late>>

ErrorPause(t) ==
  /\ errPc[t] = "pause"
  /\ mustPause_' = TRUE
  /\ errPc' = [errPc EXCEPT ![t] = "notify"]
  /\ UNCHANGED <<platform, ringVars, queue_mutex, event_, mustEnd_, error,
                 errArg, pushVars, execVars, ctlVars, late>>

ErrorNotify(t) ==
  /\ errPc[t] = "notify"
  /\ event_' = TRUE
  /\ errPc' = [errPc EXCEPT ![t] = "none"]
  /\ errArg' = [errArg EXCEPT ![t] = OverflowError]
  /\ UNCHANGED <<platform, ringVars, queue_mutex, mustEnd_, mustPause_,
                 error, pushVars, execVars, ctlVars, late>>
-----------------------------------------------------------------------------
(* push(), called by a producer, or by a node that the event thread runs.   *)

MayPush(t) ==
  /\ nbPush[t] < PushBound(t)
  /\ t \in StreamProducers => ~parked
  /\ t = EventThread => execPc = "running"

(* The unlocked test of both flags: mustEnd_ is never reset, so reading the *)
(* two flags at once loses no outcome of reading one after the other.       *)
PushCheck(t, k) ==
  /\ pushPc[t] = "idle" /\ MayPush(t)
  /\ nbPush' = [nbPush EXCEPT ![t] = @ + 1]
  /\ IF mustPause_ \/ mustEnd_
     THEN UNCHANGED <<pushPc, pushed>>
     ELSE /\ pushPc' = [pushPc EXCEPT ![t] = "lock"]
          /\ pushed' = [pushed EXCEPT ![t] =
                          [src |-> t, seq |-> nbPush[t] + 1, kind |-> k]]
  /\ UNCHANGED <<platform, ringVars, queue_mutex, flagVars, errVars,
                 execVars, ctlVars, late>>

PushStore(t) ==
  /\ pushPc[t] = "lock" /\ Unlocked
  /\ nb_elems[LevelOf(pushed[t])] < QueueMax
  /\ Enqueue(pushed[t])
  /\ pushPc' = [pushPc EXCEPT ![t] = "notify"]
  /\ UNCHANGED <<platform, queue_mutex, flagVars, errVars, pushed, nbPush,
                 execVars, ctlVars, late>>

(* Overflow on posix: setError() runs inside the critical section.          *)
PushFullError(t) ==
  /\ OverflowIsError
  /\ pushPc[t] = "lock" /\ Unlocked
  /\ nb_elems[LevelOf(pushed[t])] >= QueueMax
  /\ queue_mutex' = t
  /\ StartError(t, OverflowError)
  /\ pushPc' = [pushPc EXCEPT ![t] = "unlock"]
  /\ UNCHANGED <<platform, ringVars, flagVars, error, pushed, nbPush,
                 execVars, ctlVars, late>>

PushUnlock(t) ==
  /\ pushPc[t] = "unlock" /\ errPc[t] = "none"
  /\ queue_mutex' = NoMessage
  /\ pushPc' = [pushPc EXCEPT ![t] = "notify"]
  /\ UNCHANGED <<platform, ringVars, flagVars, errVars, pushed, nbPush,
                 execVars, ctlVars, late>>

(* Overflow on CMSIS-RTOS and Zephyr: the event is dropped.                 *)
PushFullDrop(t) ==
  /\ ~OverflowIsError
  /\ pushPc[t] = "lock" /\ Unlocked
  /\ nb_elems[LevelOf(pushed[t])] >= QueueMax
  /\ pushPc' = [pushPc EXCEPT ![t] = "notify"]
  /\ UNCHANGED <<platform, ringVars, queue_mutex, flagVars, errVars, pushed,
                 nbPush, execVars, ctlVars, late>>

(* Mutant of PushNotify: the consumer is not woken.                         *)
PushNoNotify(t) ==
  /\ pushPc[t] = "notify"
  /\ pushPc' = [pushPc EXCEPT ![t] = "idle"]
  /\ pushed' = [pushed EXCEPT ![t] = NoMessage]
  /\ UNCHANGED <<platform, ringVars, queue_mutex, flagVars, errVars, nbPush,
                 execVars, ctlVars, late>>

PushNotify(t) ==
  /\ pushPc[t] = "notify"
  /\ event_' = TRUE
  /\ pushPc' = [pushPc EXCEPT ![t] = "idle"]
  /\ pushed' = [pushed EXCEPT ![t] = NoMessage]
  /\ UNCHANGED <<platform, ringVars, queue_mutex, mustEnd_, mustPause_,
                 errVars, nbPush, execVars, ctlVars, late>>
-----------------------------------------------------------------------------
(* execute(), on the event thread.                                          *)

AtExec(l) == execPc = l /\ errPc[EventThread] = "none"

LeaveExec(stop, stay) ==
  execPc' = IF mustEnd_ \/ mustPause_ THEN stop ELSE stay

ExecOuter ==
  /\ AtExec("outer")
  /\ LeaveExec("returned", "flags")
  /\ UNCHANGED <<notExec, msg, report, late>>

ExecFlags ==
  /\ AtExec("flags")
  /\ LeaveExec("tail", "isEmpty")
  /\ UNCHANGED <<notExec, msg, report, late>>

ExecIsEmpty ==
  /\ AtExec("isEmpty") /\ Unlocked
  /\ execPc' = IF isEmpty THEN "tail" ELSE "pop"
  /\ UNCHANGED <<notExec, msg, report, late>>

ExecPop ==
  /\ AtExec("pop") /\ Unlocked
  /\ \/ /\ isEmpty
        /\ execPc' = "flags"
        /\ UNCHANGED <<ringVars, msg>>
     \/ \E p \in Levels :
        /\ TopLevel(p)
        /\ msg' = queue[p][read[p]]
        /\ Dequeue(p)
        /\ execPc' = "dispatch"
  /\ UNCHANGED <<platform, queue_mutex, flagVars, errVars, pushVars, report,
                 ctlVars, late>>

(* The time-to-live test; the clock is abstract, an event that has a ttl    *)
(* may be found expired or not.                                             *)
ExecExpired ==
  /\ AtExec("dispatch") /\ msg.kind.ttl
  /\ msg' = NoMessage
  /\ execPc' = "flags"
  /\ UNCHANGED <<notExec, report, late>>

ExecDispatch ==
  /\ AtExec("dispatch")
  /\ execPc' = "running"
  /\ late' = IF mustPause_ THEN late + 1 ELSE late
  /\ UNCHANGED <<notExec, msg, report>>

HandlerReturns ==
  /\ AtExec("running") /\ pushPc[EventThread] = "idle"
  /\ msg' = NoMessage
  /\ execPc' = "flags"

(* callAsyncHandler() refuses to call the application once mustEnd_ is set. *)
ExecSucceeds ==
  /\ HandlerReturns
  /\ msg.kind.dest = "distant" => ~mustEnd_
  /\ UNCHANGED <<notExec, report, late>>

ExecFails ==
  /\ HandlerReturns
  /\ \/ msg.kind.dest \in FailingDest
     \/ msg.kind.dest = "distant" /\ mustEnd_
  /\ StartError(EventThread, HandlerError(msg.kind.dest))
  /\ UNCHANGED <<platform, ringVars, queue_mutex, flagVars, error, pushVars,
                 report, ctlVars, late>>

ExecTail ==
  /\ AtExec("tail")
  /\ LeaveExec("returned", "wait")
  /\ UNCHANGED <<notExec, msg, report, late>>

(* waitEvent() and osEventFlagsWait() clear the event as they return.       *)
ExecWait ==
  /\ AtExec("wait") /\ event_ /\ AtomicWait
  /\ event_' = FALSE
  /\ execPc' = "outer"
  /\ UNCHANGED <<platform, ringVars, queue_mutex, mustEnd_, mustPause_,
                 errVars, pushVars, msg, report, ctlVars, late>>

(* On Zephyr k_event_wait() leaves the event set and k_event_clear() is a   *)
(* call of its own: what is posted in between is wiped out.                 *)
ExecWaitZephyr ==
  /\ AtExec("wait") /\ event_ /\ ~AtomicWait
  /\ execPc' = "clear"
  /\ UNCHANGED <<notExec, msg, report, late>>

ExecClearZephyr ==
  /\ AtExec("clear")
  /\ event_' = FALSE
  /\ execPc' = "outer"
  /\ UNCHANGED <<platform, ringVars, queue_mutex, mustEnd_, mustPause_,
                 errVars, pushVars, msg, report, ctlVars, late>>
-----------------------------------------------------------------------------
(* event_thread_function(), once execute() has returned.                    *)

(* Mutant of EvtReturned: the result of consumeError() is not looked at.    *)
EvtReturnedUnseen ==
  /\ AtExec("returned")
  /\ execPc' = IF mustEnd_ THEN "done" ELSE "parked"
  /\ error' = [error EXCEPT !.pending = FALSE]
  /\ UNCHANGED <<platform, ringVars, queue_mutex, flagVars, errPc, errArg,
                 pushVars, msg, report, ctlVars, late>>

EvtReturned ==
  /\ AtExec("returned")
  /\ \/ /\ mustEnd_
        /\ execPc' = "done"
        /\ UNCHANGED error
     \/ /\ ~mustEnd_
        /\ execPc' = IF error.pending THEN "readStatus" ELSE "parked"
        /\ error' = [error EXCEPT !.pending = FALSE]
  /\ UNCHANGED <<platform, ringVars, queue_mutex, flagVars, errPc, errArg,
                 pushVars, msg, report, ctlVars, late>>

EvtReadStatus ==
  /\ AtExec("readStatus")
  /\ report' = [report EXCEPT !.status = error.status]
  /\ execPc' = "readNode"
  /\ UNCHANGED <<notExec, msg, late>>

EvtReadNode ==
  /\ AtExec("readNode")
  /\ report' = [report EXCEPT !.node = error.node]
  /\ execPc' = "pausePeer"
  /\ UNCHANGED <<notExec, msg, late>>

(* pause_peer_stream_thread(): the stream thread parks between two nodes.   *)
EvtPausePeer ==
  /\ AtExec("pausePeer")
  /\ \A t \in StreamProducers : pushPc[t] = "idle"
  /\ parked' = TRUE
  /\ execPc' = "parked"
  /\ UNCHANGED <<platform, ringVars, queue_mutex, flagVars, errVars,
                 pushVars, msg, report, ctlPc, go, nbPause, nbResume, late>>

EvtResume ==
  /\ AtExec("parked") /\ go
  /\ go' = FALSE
  /\ execPc' = "outer"
  /\ UNCHANGED <<platform, ringVars, queue_mutex, flagVars, errVars,
                 pushVars, msg, report, ctlPc, nbPause, nbResume, parked,
                 late>>
-----------------------------------------------------------------------------
(* The controlling thread: stream_pause_current_scheduler(),                *)
(* stream_resume_scheduler() and stream_stop_threads(), as far as they act  *)
(* on the queue.                                                            *)

CtlPause ==
  /\ ctlPc = "idle" /\ nbPause < MaxPause
  /\ mustPause_' = TRUE
  /\ nbPause' = nbPause + 1
  /\ ctlPc' = "pauseNotify"
  /\ UNCHANGED <<notCtl, event_, mustEnd_, go, nbResume, parked, late>>

(* Mutant of CtlPauseNotify: pause() does not wake the event thread.        *)
CtlPauseNoNotify ==
  /\ ctlPc = "pauseNotify"
  /\ ctlPc' = "pausing"
  /\ UNCHANGED <<notCtl, flagVars, go, nbPause, nbResume, parked, late>>

CtlPauseNotify ==
  /\ ctlPc = "pauseNotify"
  /\ event_' = TRUE
  /\ ctlPc' = "pausing"
  /\ UNCHANGED <<notCtl, mustEnd_, mustPause_, go, nbPause, nbResume, parked,
                 late>>

(* STREAM_PAUSED and EVENT_PAUSED have both been received.                  *)
CtlPaused ==
  /\ ctlPc = "pausing" /\ execPc = "parked" /\ ~go
  /\ \A t \in StreamProducers : pushPc[t] = "idle"
  /\ parked' = TRUE
  /\ ctlPc' = "clear"
  /\ UNCHANGED <<notCtl, flagVars, go, nbPause, nbResume, late>>

(* Mutants of CtlClear: the lowest level is skipped; the read index is not  *)
(* moved.                                                                   *)
CtlClearButLowest ==
  /\ ctlPc = "clear" /\ Unlocked
  /\ queue' = [p \in Levels |-> IF p = 0 THEN queue[p]
                               ELSE [i \in Slots |-> NoMessage]]
  /\ read' = [p \in Levels |-> IF p = 0 THEN read[p]
                              ELSE Advanced(read[p], nb_elems[p])]
  /\ nb_elems' = [p \in Levels |-> IF p = 0 THEN nb_elems[p] ELSE 0]
  /\ ctlPc' = "paused"
  /\ UNCHANGED <<platform, write, queue_mutex, flagVars, errVars, pushVars,
                 execVars, go, nbPause, nbResume, parked, late>>

CtlClearKeepsRead ==
  /\ ctlPc = "clear" /\ Unlocked
  /\ queue' = [p \in Levels |-> [i \in Slots |-> NoMessage]]
  /\ nb_elems' = [p \in Levels |-> 0]
  /\ ctlPc' = "paused"
  /\ UNCHANGED <<platform, read, write, queue_mutex, flagVars, errVars,
                 pushVars, execVars, go, nbPause, nbResume, parked, late>>

CtlClear ==
  /\ ctlPc = "clear" /\ Unlocked
  /\ queue' = [p \in Levels |-> [i \in Slots |-> NoMessage]]
  /\ read' = [p \in Levels |-> Advanced(read[p], nb_elems[p])]
  /\ nb_elems' = [p \in Levels |-> 0]
  /\ ctlPc' = "paused"
  /\ UNCHANGED <<platform, write, queue_mutex, flagVars, errVars, pushVars,
                 execVars, go, nbPause, nbResume, parked, late>>

(* resume(): the pause flag first, then clearError().  The application      *)
(* resumes what it has paused, or what has told it of an error.             *)
CtlResume ==
  /\ \/ ctlPc = "paused"
     \/ ctlPc = "idle" /\ execPc = "parked" /\ ~go /\ report # NoReport
  /\ nbResume < MaxResume
  /\ mustPause_' = FALSE
  /\ late' = 0
  /\ nbResume' = nbResume + 1
  /\ ctlPc' = "clearPending"
  /\ UNCHANGED <<notCtl, event_, mustEnd_, go, nbPause, parked>>

CtlClearPending ==
  /\ ctlPc = "clearPending"
  /\ error' = [error EXCEPT !.pending = FALSE]
  /\ ctlPc' = "clearFields"
  /\ UNCHANGED <<platform, ringVars, queue_mutex, flagVars, errPc, errArg,
                 pushVars, execVars, go, nbPause, nbResume, parked, late>>

CtlClearFields ==
  /\ ctlPc = "clearFields"
  /\ error' = [error EXCEPT !.status = CleanError.status,
                            !.node = CleanError.node]
  /\ go' = TRUE
  /\ parked' = FALSE
  /\ report' = NoReport
  /\ ctlPc' = "idle"
  /\ UNCHANGED <<platform, ringVars, queue_mutex, flagVars, errPc, errArg,
                 pushVars, execPc, msg, nbPause, nbResume, late>>

CtlEnd ==
  /\ ctlPc \in {"idle", "paused"} /\ ~mustEnd_
  /\ mustEnd_' = TRUE
  /\ ctlPc' = "endNotify"
  /\ UNCHANGED <<notCtl, event_, mustPause_, go, nbPause, nbResume, parked,
                 late>>

(* Mutant of CtlEndNotify: end() does not wake the event thread.            *)
CtlEndNoNotify ==
  /\ ctlPc = "endNotify"
  /\ go' = TRUE
  /\ ctlPc' = "ended"
  /\ UNCHANGED <<notCtl, flagVars, nbPause, nbResume, parked, late>>

CtlEndNotify ==
  /\ ctlPc = "endNotify"
  /\ event_' = TRUE
  /\ go' = TRUE
  /\ ctlPc' = "ended"
  /\ UNCHANGED <<notCtl, mustEnd_, mustPause_, nbPause, nbResume, parked,
                 late>>
-----------------------------------------------------------------------------
Init ==
  /\ platform \in Platforms
  /\ queue = [p \in Levels |-> [i \in Slots |-> NoMessage]]
  /\ read = [p \in Levels |-> 0]
  /\ write = [p \in Levels |-> 0]
  /\ nb_elems = [p \in Levels |-> 0]
  /\ queue_mutex = NoMessage
  /\ event_ = FALSE
  /\ mustEnd_ = FALSE
  /\ mustPause_ = FALSE
  /\ error = CleanError
  /\ pushPc = [t \in Threads |-> "idle"]
  /\ pushed = [t \in Threads |-> NoMessage]
  /\ nbPush = [t \in Threads |-> 0]
  /\ errPc = [t \in Threads |-> "none"]
  /\ errArg = [t \in Threads |-> OverflowError]
  /\ execPc = "outer"
  /\ msg = NoMessage
  /\ report = NoReport
  /\ ctlPc = "idle"
  /\ go = FALSE
  /\ parked = FALSE
  /\ nbPause = 0
  /\ nbResume = 0
  /\ late = 0

setError(t) == StoreErrorField(t) \/ ErrorPause(t) \/ ErrorNotify(t)

push(t) == \/ PushStore(t) \/ PushFullError(t) \/ PushUnlock(t)
           \/ PushFullDrop(t) \/ PushNotify(t)

execute ==
  \/ ExecOuter \/ ExecFlags \/ ExecIsEmpty \/ ExecPop
  \/ ExecExpired \/ ExecDispatch \/ ExecSucceeds \/ ExecFails
  \/ ExecTail \/ ExecWait \/ ExecWaitZephyr \/ ExecClearZephyr

event_thread_function ==
  EvtReturned \/ EvtReadStatus \/ EvtReadNode \/ EvtPausePeer \/ EvtResume

(* The steps with which the controlling thread completes what it began.     *)
CtlContinue == CtlPauseNotify \/ CtlPaused \/ CtlClear \/ CtlClearPending
                 \/ CtlClearFields \/ CtlEndNotify

Next ==
  \/ \E t \in Threads : setError(t) \/ push(t)
  \/ \E t \in Threads, k \in Kinds : PushCheck(t, k)
  \/ execute
  \/ event_thread_function
  \/ CtlPause \/ CtlResume \/ CtlEnd
  \/ CtlContinue

Spec == Init /\ [][Next]_vars

(* Every thread that has begun something is scheduled; nobody has to push,  *)
(* pause, resume or end.                                                    *)
Fairness ==
  /\ \A t \in Threads : WF_vars(setError(t)) /\ WF_vars(push(t))
  /\ WF_vars(execute)
  /\ WF_vars(event_thread_function)
  /\ WF_vars(CtlContinue)

FairSpec == Spec /\ Fairness
-----------------------------------------------------------------------------
(* Properties.                                                              *)

ErrorRecord == [status : {"CG_SUCCESS", "CG_EVENT_QUEUE_FULL", "nodeStatus",
                          "noReport"},
                node : {"none", "src", "dst", "noReport"}]

RingType ==
  /\ queue \in [Levels -> [Slots -> Message \cup {NoMessage}]]
  /\ read \in [Levels -> Slots]
  /\ write \in [Levels -> Slots]
  /\ nb_elems \in [Levels -> 0 .. QueueMax]

FlagType ==
  /\ platform \in Platforms
  /\ queue_mutex \in Threads \cup {NoMessage}
  /\ event_ \in BOOLEAN /\ mustEnd_ \in BOOLEAN /\ mustPause_ \in BOOLEAN
  /\ go \in BOOLEAN /\ parked \in BOOLEAN

ErrorType ==
  /\ error \in [pending : BOOLEAN, status : {"CG_SUCCESS",
                  "CG_EVENT_QUEUE_FULL", "nodeStatus"},
                 node : {"none", "src", "dst"}]
  /\ errPc \in [Threads -> {"none", "status", "node", "pending", "pause",
                             "notify"}]
  /\ errArg \in [Threads -> {OverflowError, HandlerError("local"),
                              HandlerError("distant")}]

PushType ==
  /\ pushPc \in [Threads -> {"idle", "lock", "unlock", "notify"}]
  /\ pushed \in [Threads -> Message \cup {NoMessage}]
  /\ nbPush \in [Threads -> 0 .. MaxPush + MaxHandlerPush]

ExecType ==
  /\ execPc \in {"outer", "flags", "isEmpty", "pop", "dispatch", "running",
                  "tail", "wait", "clear", "returned", "readStatus",
                  "readNode", "pausePeer", "parked", "done"}
  /\ msg \in Message \cup {NoMessage}
  /\ report \in ErrorRecord
  /\ late \in Nat

CtlType ==
  /\ ctlPc \in {"idle", "pauseNotify", "pausing", "clear", "paused",
                 "clearPending", "clearFields", "endNotify", "ended"}
  /\ nbPause \in 0 .. MaxPause /\ nbResume \in 0 .. MaxResume

(* Every variable has its type.                                             *)
TypeOK ==
  RingType /\ FlagType /\ ErrorType /\ PushType /\ ExecType /\ CtlType

Live(p, i) == \E n \in 0 .. nb_elems[p] - 1 : i = Advanced(read[p], n)

RingAt(p) ==
  /\ write[p] = Advanced(read[p], nb_elems[p])
  /\ \A i \in Slots : IF Live(p, i) THEN /\ queue[p][i] \in Message
                                        /\ LevelOf(queue[p][i]) = p
                                   ELSE queue[p][i] = NoMessage

(* Each ring is where its counter says: the write index is nb_elems slots   *)
(* after the read index, the slots in between hold messages of that level   *)
(* and no other slot holds one, whatever interleaving of push(), execute()  *)
(* and clear() has run.                                                     *)
RingConsistent == \A p \in Levels : RingAt(p)

(* pause() stops the processing: after mustPause_ is set, by whatever       *)
(* thread, execute() hands at most the one event already on its way to a    *)
(* node or to the application.                                              *)
AtMostOneLate == late <= 1

(* Where overflows are dropped, whatever consumeError() returns was the       *)
(* argument of one setError() call, in spite of the resume() that may clear  *)
(* the fields meanwhile.  On posix a push of another thread can set its own  *)
(* error at the same time, and the report is a mixture of the two.           *)
ReportIsWhole ==
  ~OverflowIsError /\ execPc \in {"pausePeer", "parked"} /\ report # NoReport
    => report \in {OverflowError, HandlerError("local"),
                   HandlerError("distant")}

(* The event thread does not stop behind the application's back: when it    *)
(* has parked, the application has asked for a pause, has ended the queue,  *)
(* or has been given an error.                                              *)
NoSilentPark ==
  execPc = "parked" /\ ~go /\ ctlPc = "idle" => report # NoReport

(* stream_pause_current_scheduler() leaves an empty queue, and it stays     *)
(* empty until the graph is resumed.                                        *)
EmptyWhilePaused == ctlPc = "paused" => isEmpty

(* No wake-up is lost: an event in the queue is taken out of it, unless the *)
(* queue is paused or ended.                                                *)
EventsLeave ==
  \A p \in Levels :
    nb_elems[p] # 0 ~> (nb_elems[p] = 0 \/ mustPause_ \/ mustEnd_)

(* A pause brings the event thread to rest, whatever it was doing.          *)
PauseParks == mustPause_ ~> (execPc \in {"parked", "done"} \/ ~mustPause_)

(* end() terminates the event thread from every state, paused or not.       *)
EndTerminates == mustEnd_ ~> execPc = "done"

(* The rings, read from the read index on, are bounded first-in first-out   *)
(* sequences, and execute() takes the oldest event of the highest level.    *)
Contents(p) == [i \in 1 .. nb_elems[p] |->
                  queue[p][Advanced(read[p], i - 1)]]

PQ == INSTANCE PriorityQueue WITH
        Capacity <- QueueMax, Level <- LevelOf,
        waiting <- [p \in Levels |-> Contents(p)], inHand <- msg

(* The queue implements the abstract priority queue.                        *)
ImplementsPriorityQueue == PQ!Spec
=============================================================================

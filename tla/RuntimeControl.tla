--------------------------- MODULE RuntimeControl ---------------------------
(***************************************************************************)
(* The two runtime threads of CMSIS-Stream and the calls that control them  *)
(* (stream_runtime_init.cpp; the lines of the map are those of the posix    *)
(* runtime where the three platforms agree).                                *)
(*                                                                         *)
(* The stream thread runs the dataflow scheduler of the current graph, the  *)
(* event thread runs its event queue.  They are paused, resumed, switched   *)
(* to another graph and stopped by application threads, and by each other   *)
(* when one of them meets an error, through two sets of event flags:        *)
(* cg_streamEvent carries requests and cg_streamReplyEvent acknowledgments. *)
(*                                                                         *)
(* Of the queue only the flags that this protocol reads are kept; its own   *)
(* steps are those of module EventQueue.                                    *)
(***************************************************************************)
EXTENDS Integers, FiniteSets

CONSTANTS
  Graphs,          (* the execution contexts                                *)
  NoGraph,         (* the null context                                      *)
  Applications,    (* the threads of the application                        *)
  Starter,         (* the one that starts the runtime                       *)
  Uses             (* what applications do, of which one is chosen          *)

StreamThread == "stream"
EventThread  == "event"
Runtime      == {StreamThread, EventThread}
Threads      == Applications \cup Runtime
FaultKinds   == {"streamError", "stopGraph", "finished", "eventError",
                 "startFailure"}

(* One way to use the runtime: the platform; the graphs, those with         *)
(* scheduler_length > 0 and the first to be started; the threads that pause *)
(* and resume, stop, and wait for the end; what may fail; and the bounds of *)
(* faults, of pauses and resumptions together, and of starts.  The runtime  *)
(* is stopped either by the error handler or by a supervising thread: two   *)
(* stops at once would join a thread twice.                                 *)
IsUse(u) ==
  /\ u.platform \in {"posix", "CMSIS-RTOS", "Zephyr"}
  /\ u.graphs \subseteq Graphs /\ u.dataflow \subseteq u.graphs
  /\ u.first \in u.graphs
  /\ u.pausers \cup u.stoppers \cup u.waiters \subseteq Applications
  /\ u.faults \subseteq FaultKinds
  /\ u.handlerStops \in BOOLEAN
  /\ u.handlerStops => u.stoppers = {}
  /\ u.maxFault \in Nat /\ u.maxCall \in Nat /\ u.maxStart \in Nat

ASSUME ConstantsAssumption ==
  /\ NoGraph \notin Graphs
  /\ Starter \in Applications /\ Runtime \cap Applications = {}
  /\ \A u \in Uses : IsUse(u)

VARIABLES
  use,             (* the way in which the application uses the runtime     *)
  pc,              (* where each thread is                                  *)
  ctx,             (* the context each thread has loaded or was given       *)
  why,             (* why each runtime thread is pausing                    *)
  streamEvent, replyEvent,  (* the flags that are set                       *)
  found,           (* what each thread's k_event_wait() has returned        *)
  current_context,
  runtime_stop_requested,
  queue,           (* the flags of each graph's event queue                 *)
  nodesPaused,     (* the graphs whose nodes are between pause and resume   *)
  view,            (* what the application believes of the graph            *)
  reported,        (* what its handler was told since the last start/resume *)
  nb               (* how often the bounded events have happened            *)

flags  == <<streamEvent, replyEvent, found>>
shared == <<current_context, runtime_stop_requested, queue, nodesPaused>>
locals == <<ctx, why, use>>
seen   == <<view, reported, nb>>
vars   == <<pc, flags, shared, locals, seen>>

Requests == {"STREAM_PAUSE", "STREAM_RESUME", "EVENT_RESUME", "STREAM_DONE"}
Replies  == {"STREAM_PAUSED", "STREAM_RESUMED", "EVENT_PAUSED",
             "EVENT_RESUMED"}
Failures == {"STREAM_PAUSED", "EVENT_PAUSED"}

(* The flags are static on posix; elsewhere stream_init_memory() makes them *)
(* again after each stop.                                                   *)
FlagsSurvive == use.platform = "posix"

(* stream_event_flags::wait() and osEventFlagsWait() clear the flags that   *)
(* end them.  k_event_wait() leaves them to k_event_clear(), a step later.  *)
AtomicWait == use.platform # "Zephyr"

FreshQueue == [mustPause |-> FALSE, mustEnd |-> FALSE, error |-> FALSE]

HasDataflow(g) == g \in use.dataflow

Goto(t, l, m) == pc[t] = l /\ pc' = [pc EXCEPT ![t] = m]

(* A step that only moves on.                                               *)
Jump(t, l, m) ==
  Goto(t, l, m) /\ UNCHANGED <<flags, shared, locals, seen>>

(* post(), and the waits for any of the flags f.  Sees is k_event_wait();    *)
(* of two flags found together Zephyr clears only the one that means a      *)
(* failure, which the thread looks at first.                                *)
PostRequest(t, l, f, m) ==
  /\ Goto(t, l, m)
  /\ streamEvent' = streamEvent \cup f
  /\ UNCHANGED <<replyEvent, found, shared, locals, seen>>

PostReply(t, l, f, m) ==
  /\ Goto(t, l, m)
  /\ replyEvent' = replyEvent \cup f
  /\ UNCHANGED <<streamEvent, found, shared, locals, seen>>

Sees(t, l, res) ==
  /\ ~AtomicWait
  /\ pc[t] = l /\ found[t] = {} /\ res # {}
  /\ found' = [found EXCEPT ![t] = res]
  /\ UNCHANGED <<pc, streamEvent, replyEvent, shared, locals, seen>>

Result(t, res) == IF AtomicWait THEN res ELSE found[t]

Cleared(res) ==
  IF AtomicWait \/ res \cap Failures = {} THEN res ELSE res \cap Failures

EndsWait(t, res) == Result(t, res) # {} /\ found' = [found EXCEPT ![t] = {}]

AwaitRequest(t, l, f, m) ==
  LET res == f \cap streamEvent IN
  \/ Sees(t, l, res)
  \/ /\ Goto(t, l, m)
     /\ EndsWait(t, res)
     /\ streamEvent' = streamEvent \ Result(t, res)
     /\ UNCHANGED <<replyEvent, shared, locals, seen>>

(* The thread goes on at m, or at n if it has found a failure.              *)
AwaitEither(t, l, f, m, n) ==
  LET res == f \cap replyEvent IN
  \/ Sees(t, l, res)
  \/ /\ Goto(t, l, IF Result(t, res) \cap Failures = {} THEN m ELSE n)
     /\ EndsWait(t, res)
     /\ replyEvent' = replyEvent \ Cleared(Result(t, res))
     /\ UNCHANGED <<streamEvent, shared, locals, seen>>

AwaitReply(t, l, f, m) == AwaitEither(t, l, f, m, m)

SetQueue(g, q) == queue' = [queue EXCEPT ![g] = q]

(* pause() on the queue of a graph.                                         *)
PauseQueue(t, l, g, m) ==
  /\ Goto(t, l, m)
  /\ SetQueue(g, [queue[g] EXCEPT !.mustPause = TRUE])
  /\ UNCHANGED <<flags, current_context, runtime_stop_requested, nodesPaused,
                 locals, seen>>

Fault(f) ==
  /\ f \in use.faults /\ nb.fault < use.maxFault
  /\ nb' = [nb EXCEPT !.fault = @ + 1]
-----------------------------------------------------------------------------
(* stream_thread_function().                                                *)

LoadContext(t, m) ==
  /\ Goto(t, "load", m)
  /\ ctx' = [ctx EXCEPT ![t] = current_context]
  /\ UNCHANGED <<flags, shared, why, use, seen>>

StreamLoad == LoadContext(StreamThread, "sched")

(* A graph without dataflow nodes: its scheduler returns CG_STOP_SCHEDULER  *)
(* at once, which the thread takes as a pause that nobody has asked for.    *)
StreamNoDataflow ==
  /\ ~HasDataflow(ctx[StreamThread])
  /\ Jump(StreamThread, "sched", "waitResume")

SchedulerReturns(reason, m) ==
  /\ Goto(StreamThread, "sched", m)
  /\ HasDataflow(ctx[StreamThread])
  /\ why' = [why EXCEPT ![StreamThread] = reason]
  /\ UNCHANGED <<replyEvent, shared, ctx, use, view, reported>>

(* CG_BEFORE_NODE_EXECUTION polls both requests before each node and clears *)
(* what it finds, on Zephyr only the one that it obeys; STREAM_DONE wins.    *)
Polled == streamEvent \cap {"STREAM_PAUSE", "STREAM_DONE"}

StreamPoll ==
  LET res    == Result(StreamThread, Polled)
      obeyed == IF "STREAM_DONE" \in res THEN {"STREAM_DONE"} ELSE res IN
  \/ HasDataflow(ctx[StreamThread]) /\ Sees(StreamThread, "sched", Polled)
  \/ /\ EndsWait(StreamThread, Polled)
     /\ streamEvent' = streamEvent \ IF AtomicWait THEN res ELSE obeyed
     /\ IF "STREAM_DONE" \in res
        THEN SchedulerReturns("done", "pauseQueue")
        ELSE SchedulerReturns("paused", "pauseNodes")
     /\ UNCHANGED nb

(* A node returns an error or CG_STOP_SCHEDULER, or the schedule, which may *)
(* be finite, has run: the thread then ends.                                *)
StreamNodeReturns(f) ==
  /\ Polled = {}
  /\ f \in {"streamError", "stopGraph", "finished"} /\ Fault(f)
  /\ SchedulerReturns(f, IF f = "finished" THEN "exit" ELSE "pauseQueue")
  /\ UNCHANGED <<streamEvent, found>>

(* pause_stream_thread_on_error() and pause_stream_thread_on_stop_graph().  *)
StreamPauseQueue ==
  PauseQueue(StreamThread, "pauseQueue", ctx[StreamThread], "pauseNodes")

PauseNodes(t, l, m) ==
  /\ Goto(t, l, m)
  /\ nodesPaused' = nodesPaused \cup {ctx[t]}
  /\ UNCHANGED <<flags, current_context, runtime_stop_requested, queue, locals,
                 seen>>

(* pause_all_nodes(); a pause that was asked for does not wait for the      *)
(* event thread.                                                            *)
StreamPauseNodes ==
  PauseNodes(StreamThread, "pauseNodes",
             IF why[StreamThread] = "paused" THEN "ack" ELSE "waitEvent")

(* Mutant of StreamWaitEvent: the error is reported at once.                *)
StreamNoWaitEvent == Jump(StreamThread, "waitEvent", "report")

StreamWaitEvent ==
  AwaitReply(StreamThread, "waitEvent", {"EVENT_PAUSED"}, "report")

(* callSyncHandler(): the application's handler may stop the runtime from   *)
(* the thread that reports.                                                 *)
Report(t, l, isError) ==
  /\ Goto(t, l, IF isError /\ use.handlerStops THEN "stop" ELSE "afterReport")
  /\ reported' = reported \cup {why[t]}
  /\ UNCHANGED <<flags, shared, locals, view, nb>>

StreamReport ==
  Report(StreamThread, "report", why[StreamThread] = "streamError")

StreamAfterReport ==
  Jump(StreamThread, "afterReport",
       IF runtime_stop_requested THEN "exit" ELSE "ack")

StreamAck ==
  PostReply(StreamThread, "ack", {"STREAM_PAUSED"}, "waitResume")

(* wait_stream_resume(): on Zephyr the request stays set until the thread    *)
(* has seen that the runtime is not being stopped.                          *)
StreamWaitResume ==
  IF AtomicWait
  THEN AwaitRequest(StreamThread, "waitResume", {"STREAM_RESUME"}, "resume")
  ELSE "STREAM_RESUME" \in streamEvent
       /\ Jump(StreamThread, "waitResume", "resume")

StreamLooksAtStop ==
  /\ Goto(StreamThread, "resume",
          IF runtime_stop_requested THEN "exit" ELSE "resumeNodes")
  /\ why' = [why EXCEPT ![StreamThread] = "none"]
  /\ UNCHANGED <<flags, shared, ctx, use, seen>>

ClearResume ==
  /\ streamEvent' = streamEvent \ IF AtomicWait THEN {} ELSE {"STREAM_RESUME"}
  /\ UNCHANGED <<replyEvent, found>>

(* Mutant of StreamResume: resume_all_nodes() is not called.                *)
StreamResumeNoNodes ==
  /\ Goto(StreamThread, "resumeNodes", "resumeAck")
  /\ ClearResume
  /\ UNCHANGED <<shared, locals, seen>>

(* reset_fifos(1) and resume_all_nodes() of the context it finds.           *)
StreamResume ==
  /\ Goto(StreamThread, "resumeNodes", "resumeAck")
  /\ ClearResume
  /\ nodesPaused' = nodesPaused \ {current_context}
  /\ UNCHANGED <<current_context, runtime_stop_requested, queue, locals, seen>>

StreamResumeAck ==
  PostReply(StreamThread, "resumeAck", {"STREAM_RESUMED"}, "afterResume")

StreamAfterResume ==
  Jump(StreamThread, "afterResume",
       IF runtime_stop_requested THEN "exit" ELSE "load")

stream_thread_function ==
  \/ StreamLoad \/ StreamNoDataflow \/ StreamPoll
  \/ StreamPauseQueue \/ StreamPauseNodes \/ StreamWaitEvent \/ StreamReport
  \/ StreamAfterReport \/ StreamAck \/ StreamWaitResume
  \/ StreamLooksAtStop \/ StreamResume \/ StreamResumeAck \/ StreamAfterResume
-----------------------------------------------------------------------------
(* event_thread_function().                                                 *)

EventLoad == LoadContext(EventThread, "execute")

(* A handler of an event fails, or the queue overflows: setError().         *)
EventFails ==
  /\ pc[EventThread] = "execute"
  /\ Fault("eventError")
  /\ LET g == ctx[EventThread] IN
     SetQueue(g, [queue[g] EXCEPT !.error = TRUE, !.mustPause = TRUE])
  /\ UNCHANGED <<pc, flags, current_context, runtime_stop_requested,
                 nodesPaused, locals, view, reported>>

EventExecuteReturns ==
  /\ queue[ctx[EventThread]].mustPause \/ queue[ctx[EventThread]].mustEnd
  /\ Jump(EventThread, "execute", "returned")

EventEnds ==
  /\ queue[ctx[EventThread]].mustEnd
  /\ Jump(EventThread, "returned", "exit")

(* consumeError(): an error pauses the stream thread first.                 *)
EventConsumeError ==
  LET g == ctx[EventThread] IN
  /\ ~queue[g].mustEnd
  /\ Goto(EventThread, "returned",
          IF queue[g].error /\ HasDataflow(g) THEN "pausePeer" ELSE "paused")
  /\ why' = [why EXCEPT ![EventThread] =
               IF queue[g].error THEN "eventError" ELSE "none"]
  /\ SetQueue(g, [queue[g] EXCEPT !.error = FALSE])
  /\ UNCHANGED <<flags, current_context, runtime_stop_requested, nodesPaused,
                 ctx, use, seen>>

(* Mutant of EventPausePeer: the request is not posted.                     *)
EventNoPausePeer == Jump(EventThread, "pausePeer", "waitStream")

(* pause_peer_stream_thread().                                              *)
EventPausePeer ==
  PostRequest(EventThread, "pausePeer", {"STREAM_PAUSE"}, "waitStream")

EventWaitStream ==
  AwaitReply(EventThread, "waitStream", {"STREAM_PAUSED"}, "paused")

(* pause_all_nodes() when there is no dataflow to do it.                    *)
EventPauseNodes ==
  LET next == IF why[EventThread] = "eventError" THEN "report"
                                                 ELSE "afterReport" IN
  IF HasDataflow(ctx[EventThread])
  THEN Jump(EventThread, "paused", next)
  ELSE PauseNodes(EventThread, "paused", next)

EventReport == Report(EventThread, "report", TRUE)

EventAfterReport ==
  Jump(EventThread, "afterReport",
       IF runtime_stop_requested THEN "exit" ELSE "ack")

(* Mutant of EventAck: the pause is not acknowledged.                       *)
EventNoAck == Jump(EventThread, "ack", "waitResume")

EventAck == PostReply(EventThread, "ack", {"EVENT_PAUSED"}, "waitResume")

(* wait_event_resume(): unlike the stream thread, this one does not look at *)
(* runtime_stop_requested before it runs the queue again.                   *)
EventWaitResume ==
  AwaitRequest(EventThread, "waitResume", {"EVENT_RESUME"}, "resumeAck")

EventResumeAck == PostReply(EventThread, "resumeAck", {"EVENT_RESUMED"}, "load")

event_thread_function ==
  \/ EventLoad \/ EventExecuteReturns \/ EventEnds \/ EventConsumeError
  \/ EventPausePeer \/ EventWaitStream \/ EventPauseNodes \/ EventReport
  \/ EventAfterReport \/ EventAck \/ EventWaitResume \/ EventResumeAck
-----------------------------------------------------------------------------
(* stream_start_threads(), after the application has made the queues, and   *)
(* the flags unless they are static, and has resumed the first graph's      *)
(* nodes.  The event thread is created before the stream thread.            *)
CallStart ==
  /\ \A t \in Applications : pc[t] = "idle"
  /\ \A t \in Runtime : pc[t] = "exit"
  /\ view = "stopped" /\ nb.start < use.maxStart
  /\ nb' = [nb EXCEPT !.start = @ + 1]
  /\ current_context' = use.first
  /\ runtime_stop_requested' = FALSE
  /\ queue' = [g \in Graphs |-> FreshQueue]
  /\ nodesPaused' = Graphs \ {use.first}
  /\ IF FlagsSurvive THEN UNCHANGED flags
                     ELSE /\ streamEvent' = {} /\ replyEvent' = {}
                          /\ UNCHANGED found
  /\ why' = [t \in Runtime |-> "none"]
  /\ reported' = {}
  /\ pc' = [pc EXCEPT ![EventThread] = "load", ![Starter] = "startStream"]
  /\ UNCHANGED <<ctx, use, view>>

StartStream ==
  /\ pc[Starter] = "startStream"
  /\ pc' = [pc EXCEPT ![StreamThread] = "load", ![Starter] = "idle"]
  /\ view' = "running"
  /\ UNCHANGED <<flags, shared, locals, reported, nb>>

(* The stream thread cannot be created: posix ends the event thread, an     *)
(* RTOS stops it wherever it is.                                            *)
StartFails ==
  /\ pc[Starter] = "startStream"
  /\ Fault("startFailure")
  /\ IF use.platform = "posix"
     THEN /\ pc' = [pc EXCEPT ![Starter] = "startJoin"]
          /\ SetQueue(use.first, [queue[use.first] EXCEPT !.mustEnd = TRUE])
          /\ UNCHANGED found
     ELSE /\ pc' = [pc EXCEPT ![Starter] = "startJoin", ![EventThread] = "exit"]
          /\ found' = [found EXCEPT ![EventThread] = {}]
          /\ UNCHANGED queue
  /\ UNCHANGED <<streamEvent, replyEvent, current_context,
                 runtime_stop_requested, nodesPaused,
                 locals, view, reported>>

Forget(t, l, m) ==
  /\ Goto(t, l, m)
  /\ current_context' = NoGraph
  /\ view' = "stopped"
  /\ UNCHANGED <<flags, runtime_stop_requested, queue, nodesPaused, locals,
                 reported, nb>>

StartJoin == pc[EventThread] = "exit" /\ Forget(Starter, "startJoin", "idle")
-----------------------------------------------------------------------------
Counted == nb.call < use.maxCall /\ nb' = [nb EXCEPT !.call = @ + 1]

(* stream_pause_current_scheduler(), called by an application that believes *)
(* the graph runs and has not been told of an error.                        *)
CallPause(a) ==
  /\ view = "running" /\ reported = {} /\ Counted
  /\ Goto(a, "idle", IF HasDataflow(current_context) THEN "pausePost"
                                                     ELSE "pauseWaitEvent")
  /\ SetQueue(current_context,
              [queue[current_context] EXCEPT !.mustPause = TRUE])
  /\ view' = "pausing"
  /\ UNCHANGED <<flags, current_context, runtime_stop_requested, nodesPaused,
                 locals, reported>>

PausePost(a) ==
  PostRequest(a, "pausePost", {"STREAM_PAUSE"}, "pauseWaitStream")

PauseWaitStream(a) ==
  AwaitReply(a, "pauseWaitStream", {"STREAM_PAUSED"}, "pauseWaitEvent")

(* Mutants of PauseWaitEvent: no wait; a wait that leaves the flag set.     *)
PauseNoWaitEvent(a) == Jump(a, "pauseWaitEvent", "pauseClear")

PauseWaitEventKeepsFlag(a) ==
  "EVENT_PAUSED" \in replyEvent /\ Jump(a, "pauseWaitEvent", "pauseClear")

PauseWaitEvent(a) ==
  AwaitReply(a, "pauseWaitEvent", {"EVENT_PAUSED"}, "pauseClear")

Returns(a, l, result) ==
  /\ Goto(a, l, "idle")
  /\ view' = IF view = "stopped" THEN view ELSE result
  /\ UNCHANGED <<shared, locals, reported, nb>>

(* current_context.load()->evtQueue->clear().                               *)
PauseClear(a) == Returns(a, "pauseClear", "paused") /\ UNCHANGED flags
-----------------------------------------------------------------------------
(* stream_resume_scheduler(), called for a graph that is paused, or whose   *)
(* error has been reported.                                                 *)
CallResume(a, g) ==
  /\ view = "paused" \/ (view = "running" /\ reported # {})
  /\ Counted
  /\ Goto(a, "idle", "resumeQueue")
  /\ current_context' = g
  /\ ctx' = [ctx EXCEPT ![a] = g]
  /\ view' = "resuming"
  /\ reported' = {}
  /\ UNCHANGED <<flags, runtime_stop_requested, queue, nodesPaused, why,
                 use>>

(* EventQueue::resume(): the pause flag and the error are cleared.          *)
ResumeQueue(a) ==
  /\ Goto(a, "resumeQueue", "resumePost")
  /\ SetQueue(ctx[a], [queue[ctx[a]] EXCEPT !.mustPause = FALSE,
                                            !.error = FALSE])
  /\ UNCHANGED <<flags, current_context, runtime_stop_requested, nodesPaused,
                 locals, seen>>

ResumePost(a) ==
  PostRequest(a, "resumePost", {"STREAM_RESUME"}, "resumeWaitStream")

(* STREAM_PAUSED among the flags that end the wait means failure.           *)
ResumeWaitStream(a) ==
  AwaitEither(a, "resumeWaitStream", {"STREAM_RESUMED", "STREAM_PAUSED"},
              "resumePostEvent", "resumeStreamFailed")

ResumePostEvent(a) ==
  PostRequest(a, "resumePostEvent", {"EVENT_RESUME"}, "resumeWaitEvent")

ResumeWaitEvent(a) ==
  AwaitEither(a, "resumeWaitEvent", {"EVENT_RESUMED", "EVENT_PAUSED"},
              "resumeClear", "resumeEventFailed")

(* The queue is paused again and CG_RESUME_FAILURE is reported.             *)
ResumeFails(a, l, m, t) ==
  /\ Goto(a, l, m)
  /\ SetQueue(ctx[a], [queue[ctx[a]] EXCEPT !.mustPause = TRUE])
  /\ reported' = reported \cup
       {IF t = StreamThread THEN "streamResumeFailure" ELSE "eventResumeFailure"}
  /\ view' = IF m = "idle" /\ view # "stopped" THEN "failed" ELSE view
  /\ UNCHANGED <<flags, current_context, runtime_stop_requested, nodesPaused,
                 locals, nb>>

ResumeStreamFailed(a) ==
  ResumeFails(a, "resumeStreamFailed", "idle", StreamThread)

(* The stream thread, which has resumed, is paused if it runs nodes.        *)
ResumeEventFailed(a) ==
  ResumeFails(a, "resumeEventFailed",
              IF HasDataflow(ctx[a]) THEN "resumeUndo" ELSE "idle", EventThread)

ResumeUndo(a) ==
  PostRequest(a, "resumeUndo", {"STREAM_PAUSE"}, "resumeUndoWait")

ResumeUndoWait(a) ==
  LET res == replyEvent \cap {"STREAM_PAUSED"} IN
  \/ Sees(a, "resumeUndoWait", res)
  \/ /\ EndsWait(a, res)
     /\ replyEvent' = replyEvent \ {"STREAM_PAUSED"}
     /\ Returns(a, "resumeUndoWait", "failed")
     /\ UNCHANGED streamEvent

ResumeClear(a) ==
  /\ replyEvent' = replyEvent \ {"STREAM_PAUSED", "EVENT_PAUSED"}
  /\ Returns(a, "resumeClear", "running")
  /\ UNCHANGED <<streamEvent, found>>
-----------------------------------------------------------------------------
(* stream_stop_threads(), called by an application thread, or by a runtime  *)
(* thread through the application's error handler.                          *)
CallStop(a) ==
  /\ view # "stopped" /\ ~runtime_stop_requested
  /\ Jump(a, "idle", "stop")

StopRequest(t) ==
  /\ Goto(t, "stop", "stopEnd")
  /\ runtime_stop_requested' = TRUE
  /\ UNCHANGED <<flags, current_context, queue, nodesPaused, locals, seen>>

StopEnd(t) ==
  /\ Goto(t, "stopEnd", "stopPost")
  /\ queue' = [g \in Graphs |-> [queue[g] EXCEPT !.mustEnd =
                                     @ \/ g = current_context]]
  /\ UNCHANGED <<flags, current_context, runtime_stop_requested, nodesPaused,
                 locals, seen>>

(* Mutant of StopPost: a paused event thread is not woken.                  *)
StopPostStreamOnly(t) ==
  PostRequest(t, "stopPost", {"STREAM_DONE", "STREAM_RESUME"}, "stopReply")

StopPost(t) ==
  PostRequest(t, "stopPost", {"STREAM_DONE", "STREAM_RESUME", "EVENT_RESUME"},
              "stopReply")

StopReply(t) == PostReply(t, "stopReply", Replies, "joinEvent")

(* stop_thread(): a runtime thread is joined, or detached by itself.        *)
StopJoinEvent(t) ==
  /\ t = EventThread \/ pc[EventThread] = "exit"
  /\ Jump(t, "joinEvent", "joinStream")

(* Mutant of StopJoinStream: the stream thread is not waited for.           *)
StopNoJoinStream(t) ==
  Forget(t, "joinStream", IF t \in Runtime THEN "afterReport" ELSE "idle")

StopJoinStream(t) ==
  /\ t = StreamThread \/ pc[StreamThread] = "exit"
  /\ Forget(t, "joinStream", IF t \in Runtime THEN "afterReport" ELSE "idle")
-----------------------------------------------------------------------------
(* stream_wait_for_threads_end(): the stream thread first; a thread that a  *)
(* stop has already collected is not waited for.                            *)
CallWait(a) ==
  view \in {"running", "stopped"} /\ Jump(a, "idle", "waitJoinStream")

WaitJoinStream(a) ==
  /\ pc[StreamThread] = "exit"
  /\ Jump(a, "waitJoinStream", "waitJoinEvent")

WaitJoinEvent(a) ==
  pc[EventThread] = "exit" /\ Forget(a, "waitJoinEvent", "idle")
-----------------------------------------------------------------------------
Init ==
  /\ use \in Uses
  /\ streamEvent = {} /\ replyEvent = {}
  /\ found = [t \in Threads |-> {}]
  /\ current_context = NoGraph
  /\ runtime_stop_requested = FALSE
  /\ queue = [g \in Graphs |-> FreshQueue]
  /\ nodesPaused = Graphs
  /\ pc = [t \in Threads |-> IF t \in Runtime THEN "exit" ELSE "idle"]
  /\ ctx = [t \in Threads |-> use.first]
  /\ why = [t \in Runtime |-> "none"]
  /\ view = "stopped" /\ reported = {}
  /\ nb = [fault |-> 0, call |-> 0, start |-> 0]

stream_start_threads == StartStream \/ StartFails \/ StartJoin

stream_pause_current_scheduler(a) ==
  PausePost(a) \/ PauseWaitStream(a) \/ PauseWaitEvent(a) \/ PauseClear(a)

stream_resume_scheduler(a) ==
  \/ ResumeQueue(a) \/ ResumePost(a) \/ ResumeWaitStream(a)
  \/ ResumeStreamFailed(a) \/ ResumePostEvent(a) \/ ResumeWaitEvent(a)
  \/ ResumeEventFailed(a) \/ ResumeUndo(a) \/ ResumeUndoWait(a)
  \/ ResumeClear(a)

stream_stop_threads(t) ==
  \/ StopRequest(t) \/ StopEnd(t) \/ StopPost(t) \/ StopReply(t)
  \/ StopJoinEvent(t) \/ StopJoinStream(t)

stream_wait_for_threads_end(a) == WaitJoinStream(a) \/ WaitJoinEvent(a)

Next ==
  \/ stream_thread_function
  \/ \E f \in FaultKinds : StreamNodeReturns(f)
  \/ event_thread_function
  \/ EventFails
  \/ CallStart \/ stream_start_threads
  \/ \E a \in use.pausers : \/ CallPause(a) \/ stream_pause_current_scheduler(a)
                            \/ \E g \in use.graphs : CallResume(a, g)
                        \/ stream_resume_scheduler(a)
  \/ \E a \in use.stoppers : CallStop(a)
  \/ \E t \in use.stoppers \cup Runtime : stream_stop_threads(t)
  \/ \E a \in use.waiters : CallWait(a) \/ stream_wait_for_threads_end(a)

Spec == Init /\ [][Next]_vars

(* The threads run, and a call that was made runs on; no application has to *)
(* call anything and no fault has to happen.                                *)
Fairness ==
  /\ WF_vars(stream_thread_function)
  /\ WF_vars(event_thread_function)
  /\ WF_vars(StartStream \/ StartJoin)
  /\ \A a \in Applications : /\ WF_vars(stream_pause_current_scheduler(a))
                             /\ WF_vars(stream_resume_scheduler(a))
                             /\ WF_vars(stream_wait_for_threads_end(a))
  /\ \A t \in Applications \cup Runtime : WF_vars(stream_stop_threads(t))

FairSpec == Spec /\ Fairness
-----------------------------------------------------------------------------
(* Properties.                                                              *)

(* The stream thread is inside the scheduler of a graph, the event thread   *)
(* is taking events from its queue.                                         *)
RunsNodes    == pc[StreamThread] = "sched" /\ HasDataflow(ctx[StreamThread])
RunsHandlers == /\ pc[EventThread] = "execute"
                /\ queue[ctx[EventThread]] = FreshQueue

(* When stream_pause_current_scheduler() has returned, both threads are at  *)
(* rest, the nodes have been paused, and no request is left that would wake *)
(* one of the threads before the graph is resumed                          *)
PauseQuiesces ==
  view = "paused" /\ ~runtime_stop_requested =>
    /\ pc[EventThread] = "waitResume"
    /\ pc[StreamThread] = "waitResume" \/ ~HasDataflow(current_context)
    /\ current_context \in nodesPaused
    /\ streamEvent = {}

(* A context switch moves both threads: what runs is the current graph, and *)
(* only after its nodes have been resumed.                                  *)
RunsCurrentGraph ==
  ~runtime_stop_requested =>
    /\ RunsNodes    => /\ ctx[StreamThread] = current_context
                       /\ current_context \notin nodesPaused
    /\ RunsHandlers => /\ ctx[EventThread] = current_context
                       /\ current_context \notin nodesPaused

(* The code reads the current context where it cannot be null: in a thread  *)
(* that loads it, in a stream thread that resumes, in a pause that clears.  *)
ContextAlive ==
  (\/ \E t \in Runtime : pc[t] = "load"
   \/ pc[StreamThread] = "resumeNodes"
   \/ \E a \in use.pausers : pc[a] = "pauseClear")
  => current_context # NoGraph

(* The handler that is told of an error, or of a stop of the graph, runs    *)
(* while the other runtime thread rests.                                    *)
QuietReport ==
  ~runtime_stop_requested =>
    /\ pc[StreamThread] = "report" => pc[EventThread] = "waitResume"
    /\ pc[EventThread] = "report" /\ HasDataflow(ctx[EventThread])
         => pc[StreamThread] = "waitResume"

ErrorFree == use.faults \subseteq {"startFailure"}

(* Without errors, a resumption never fails.                                *)
ResumeSucceeds == ErrorFree => view # "failed"

(* kStopGraph is given to the application when a node stops the graph or    *)
(* when the runtime is being stopped, and at no other time.                 *)
StopGraphIsMeant == "done" \in reported => runtime_stop_requested

(* Every call of the control API returns, to the threads that pause, stop   *)
(* and start (a thread that waits for the end may wait for ever).           *)
CallsReturn ==
  \A a \in Applications :
    pc[a] \notin {"idle", "waitJoinStream", "waitJoinEvent"}
      ~> pc[a] \in {"idle", "waitJoinStream", "waitJoinEvent"}

(* In an application without errors they do.                                *)
CallsReturnWithoutErrors ==
  \A a \in Applications :
    ErrorFree /\ pc[a] \notin {"idle", "waitJoinStream", "waitJoinEvent"}
      ~> pc[a] \in {"idle", "waitJoinStream", "waitJoinEvent"}

(* stream_stop_threads() ends both threads, from whatever they were doing.  *)
StopTerminates ==
  runtime_stop_requested ~> /\ view = "stopped"
                            /\ \A t \in Runtime : pc[t] = "exit"

(* An error of a node, or of an event handler, is given to the application  *)
(* when it stays the only one, unless the application stops the runtime or  *)
(* pauses and resumes it, which takes acknowledgments that the threads need. *)
ErrorReported ==
  LET excused == \/ runtime_stop_requested \/ nb.fault > 1
                 \/ use.pausers # {} IN
  /\ \A k \in {"streamError", "stopGraph"} :
       why[StreamThread] = k ~> (k \in reported \/ excused)
  /\ (\E g \in Graphs : queue[g].error)
       ~> ("eventError" \in reported \/ excused)
=============================================================================

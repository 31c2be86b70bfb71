------------------------ MODULE RuntimeControlProofs ------------------------
(***************************************************************************)
(* Proofs about module RuntimeControl: what pausing, resuming and switching *)
(* promise holds for every number of graphs, of calls and of starts, on     *)
(* each platform, when one application thread controls a runtime in which   *)
(* no node and no event fails; and what the reports of errors promise holds *)
(* whatever fails and stops, when nobody pauses.                            *)
(***************************************************************************)
EXTENDS RuntimeControl, TLAPS

(* Nothing fails but the creation of the second thread; the graphs are all  *)
(* of dataflow nodes or all of events; on posix, where the flags outlive a  *)
(* stop, the runtime is started once.                                       *)
CalmUse(u) ==
  /\ u.faults \subseteq {"startFailure"}
  /\ u.dataflow \in {u.graphs, {}}
  /\ u.platform = "posix" => u.maxStart <= 1

(* The application is one thread.                                           *)
Calm == Applications = {Starter} /\ \A u \in Uses : CalmUse(u)

AppPc    == pc[Starter]
StreamPc == pc[StreamThread]
EventPc  == pc[EventThread]

StopLabels == {"stop", "stopEnd", "stopPost", "stopReply", "joinEvent",
               "joinStream"}
RestLabels == {"idle", "waitJoinStream", "waitJoinEvent"}
CallLabels == {"pausePost", "pauseWaitStream", "pauseWaitEvent", "pauseClear",
               "resumeQueue", "resumePost", "resumeWaitStream",
               "resumePostEvent", "resumeWaitEvent", "resumeClear"}
AppLabels  == RestLabels \cup StopLabels \cup CallLabels
                \cup {"startStream", "startJoin"}

StreamLabels == {"exit", "load", "sched", "pauseQueue", "pauseNodes",
                 "waitEvent", "report", "afterReport", "ack", "waitResume",
                 "resume", "resumeNodes", "resumeAck", "afterResume"}
EventLabels  == {"exit", "load", "execute", "returned", "paused",
                 "afterReport", "ack", "waitResume", "resumeAck"}

Dataflow == use.dataflow # {}

QueueFlags == [mustPause : BOOLEAN, mustEnd : BOOLEAN, error : {FALSE}]

PcType ==
  /\ pc \in [Threads -> AppLabels \cup StreamLabels \cup EventLabels]
  /\ AppPc \in AppLabels /\ StreamPc \in StreamLabels
  /\ EventPc \in EventLabels

(* The types, sharp enough to say that no error is on its way.              *)
CalmType ==
  /\ use \in Uses
  /\ PcType
  /\ streamEvent \subseteq Requests /\ replyEvent \subseteq Replies
  /\ found \in [Threads -> SUBSET (Requests \cup Replies)]
  /\ current_context \in use.graphs \cup {NoGraph}
  /\ ctx \in [Threads -> use.graphs]
  /\ runtime_stop_requested \in BOOLEAN
  /\ queue \in [Graphs -> QueueFlags]
  /\ nodesPaused \subseteq Graphs
  /\ why \in [Runtime -> {"none", "paused", "done"}]
  /\ why[EventThread] = "none"
  /\ view \in {"stopped", "running", "pausing", "paused", "resuming"}
  /\ nb \in [fault : Nat, call : Nat, start : Nat]

(* What k_event_wait() has returned is kept for the step that follows only. *)
FoundInv ==
  /\ found[Starter] # {} =>
       AppPc \in {"pauseWaitStream", "pauseWaitEvent", "resumeWaitStream",
                  "resumeWaitEvent"}
  /\ found[StreamThread] # {} =>
       StreamPc = "waitEvent" \/ (StreamPc = "sched" /\ Dataflow)
  /\ found[EventThread] # {} => EventPc = "waitResume"
  /\ AtomicWait => \A t \in Threads : found[t] = {}

Dead == StreamPc = "exit" /\ EventPc = "exit"

(* When the threads exist, and when there is a current graph.               *)
LifeInv ==
  /\ view = "stopped" /\ AppPc \in RestLabels => Dead
  /\ current_context = NoGraph => Dead /\ view = "stopped"
                                       /\ AppPc \in RestLabels
  /\ AppPc \in {"startStream", "startJoin"} =>
       view = "stopped" /\ StreamPc = "exit" /\ ~runtime_stop_requested
  /\ AppPc = "startJoin" /\ EventPc # "exit" =>
       /\ EventPc \in {"load", "execute", "returned"}
       /\ EventPc # "load" => ctx[EventThread] = current_context
       /\ queue[current_context].mustEnd
  /\ AppPc \in StopLabels => view \in {"running", "paused"}
  /\ AppPc \in CallLabels => view # "stopped" /\ ~runtime_stop_requested
  /\ AppPc = "joinStream" => EventPc = "exit"
  /\ AppPc = "stop" => ~runtime_stop_requested
  /\ runtime_stop_requested /\ AppPc \notin StopLabels => view = "stopped"
  /\ nb.start = 0 => /\ view = "stopped" /\ AppPc \in RestLabels
                     /\ streamEvent = {} /\ replyEvent = {}

-----------------------------------------------------------------------------
(* The two handshakes, as the application sees them from where it is.       *)

Entering == {"afterResume", "load", "sched"}

(* The stream thread runs nodes, or waits without having been paused when   *)
(* there are none; no flag of its own is set.                               *)
NoStreamFlag ==
  /\ streamEvent \cap {"STREAM_PAUSE", "STREAM_RESUME", "STREAM_DONE"} = {}
  /\ replyEvent \cap {"STREAM_PAUSED", "STREAM_RESUMED"} = {}

Going == StreamPc \in Entering \/ (~Dataflow /\ StreamPc = "waitResume")

StreamRuns == NoStreamFlag /\ Going /\ current_context \notin nodesPaused

StreamRests == /\ NoStreamFlag
               /\ IF Dataflow THEN StreamPc = "waitResume" ELSE Going

(* From the request to pause to its acknowledgment.                         *)
StreamPausing ==
  /\ Dataflow
  /\ streamEvent \cap {"STREAM_RESUME", "STREAM_DONE"} = {}
  /\ "STREAM_RESUMED" \notin replyEvent
  /\ \/ /\ StreamPc \in Entering /\ current_context \notin nodesPaused
        /\ "STREAM_PAUSE" \in streamEvent /\ "STREAM_PAUSED" \notin replyEvent
     \/ /\ StreamPc = "pauseNodes" /\ why[StreamThread] = "paused"
        /\ "STREAM_PAUSE" \notin streamEvent
        /\ "STREAM_PAUSED" \notin replyEvent
     \/ /\ StreamPc = "ack" /\ current_context \in nodesPaused
        /\ "STREAM_PAUSE" \notin streamEvent
        /\ "STREAM_PAUSED" \notin replyEvent
     \/ /\ StreamPc = "waitResume" /\ current_context \in nodesPaused
        /\ "STREAM_PAUSE" \notin streamEvent /\ "STREAM_PAUSED" \in replyEvent

(* From the request to resume to its acknowledgment.                        *)
StreamResuming ==
  /\ streamEvent \cap {"STREAM_PAUSE", "STREAM_DONE"} = {}
  /\ "STREAM_PAUSED" \notin replyEvent
  /\ \/ /\ StreamPc = "waitResume" \/ (~Dataflow /\ Going)
        /\ "STREAM_RESUME" \in streamEvent /\ "STREAM_RESUMED" \notin replyEvent
     \/ /\ StreamPc \in {"resume", "resumeNodes"}
        /\ AtomicWait <=> "STREAM_RESUME" \notin streamEvent
        /\ "STREAM_RESUMED" \notin replyEvent
     \/ /\ StreamPc = "resumeAck" /\ current_context \notin nodesPaused
        /\ "STREAM_RESUME" \notin streamEvent
        /\ "STREAM_RESUMED" \notin replyEvent
     \/ /\ Going /\ current_context \notin nodesPaused
        /\ "STREAM_RESUME" \notin streamEvent /\ "STREAM_RESUMED" \in replyEvent

NoEventFlag == /\ "EVENT_RESUME" \notin streamEvent
               /\ replyEvent \cap {"EVENT_PAUSED", "EVENT_RESUMED"} = {}

QueueOpen == queue[current_context] = FreshQueue

EventRuns == NoEventFlag /\ EventPc \in {"load", "execute"} /\ QueueOpen

EventRests == NoEventFlag /\ EventPc = "waitResume"

EventPausing ==
  /\ queue[current_context].mustPause
  /\ "EVENT_RESUME" \notin streamEvent
  /\ "EVENT_RESUMED" \notin replyEvent
  /\ \/ /\ EventPc \in {"load", "execute", "returned", "paused"}
        /\ "EVENT_PAUSED" \notin replyEvent
     \/ /\ EventPc \in {"afterReport", "ack"}
        /\ "EVENT_PAUSED" \notin replyEvent
        /\ Dataflow \/ current_context \in nodesPaused
     \/ /\ EventPc = "waitResume" /\ "EVENT_PAUSED" \in replyEvent
        /\ Dataflow \/ current_context \in nodesPaused

EventResuming ==
  /\ QueueOpen
  /\ "EVENT_PAUSED" \notin replyEvent
  /\ \/ /\ EventPc = "waitResume"
        /\ "EVENT_RESUME" \in streamEvent /\ "EVENT_RESUMED" \notin replyEvent
     \/ /\ EventPc = "resumeAck"
        /\ "EVENT_RESUME" \notin streamEvent
        /\ "EVENT_RESUMED" \notin replyEvent
     \/ /\ EventPc \in {"load", "execute"}
        /\ "EVENT_RESUME" \notin streamEvent /\ "EVENT_RESUMED" \in replyEvent

(* What each thread has found is a flag that is still set.                  *)
FoundIsSet ==
  /\ found[StreamThread] # {} => /\ found[StreamThread] = {"STREAM_PAUSE"}
                                 /\ "STREAM_PAUSE" \in streamEvent
  /\ found[EventThread] # {} => /\ found[EventThread] = {"EVENT_RESUME"}
                                /\ "EVENT_RESUME" \in streamEvent
  /\ found[Starter] \subseteq replyEvent
  /\ found[Starter] # {} =>
       found[Starter] = CASE AppPc = "pauseWaitStream"  -> {"STREAM_PAUSED"}
                          [] AppPc = "pauseWaitEvent"   -> {"EVENT_PAUSED"}
                          [] AppPc = "resumeWaitStream" -> {"STREAM_RESUMED"}
                          [] OTHER                      -> {"EVENT_RESUMED"}

(* The contexts that the threads work on.                                   *)
ContextInv ==
  /\ StreamPc \in {"sched", "pauseNodes", "ack"} /\ Dataflow =>
       ctx[StreamThread] = current_context
  /\ EventPc \in {"execute", "returned", "paused", "afterReport", "ack"} =>
       ctx[EventThread] = current_context
  /\ view = "resuming" => ctx[Starter] = current_context
  /\ \A g \in Graphs : ~queue[g].mustEnd

AtRest == AppPc \in {"idle", "waitJoinStream", "stop"}

(* Where the threads may be for each place of the application.              *)
PhaseInv ==
  /\ reported = {} /\ FoundIsSet /\ ContextInv
  /\ AtRest \/ AppPc \in CallLabels
  /\ AtRest => view \in {"running", "paused"}
  /\ AppPc = "waitJoinStream" => view = "running"
  /\ AppPc \in {"pausePost", "pauseWaitStream", "pauseWaitEvent",
                "pauseClear"} => view = "pausing"
  /\ AppPc \in {"resumeQueue", "resumePost", "resumeWaitStream",
                "resumePostEvent", "resumeWaitEvent", "resumeClear"} =>
       view = "resuming"
  /\ AtRest /\ view = "running" => StreamRuns /\ EventRuns
  /\ AtRest /\ view = "paused" =>
       StreamRests /\ EventRests /\ current_context \in nodesPaused
  /\ AppPc = "pausePost" => Dataflow /\ StreamRuns /\ EventPausing
  /\ AppPc = "pauseWaitStream" => StreamPausing /\ EventPausing
  /\ AppPc = "pauseWaitEvent" =>
       /\ StreamRests /\ EventPausing
       /\ Dataflow => current_context \in nodesPaused
  /\ AppPc = "pauseClear" =>
       StreamRests /\ EventRests /\ current_context \in nodesPaused
  /\ AppPc = "resumeQueue" => StreamRests /\ EventRests
  /\ AppPc = "resumePost" => StreamRests /\ EventRests /\ QueueOpen
  /\ AppPc = "resumeWaitStream" => StreamResuming /\ EventRests /\ QueueOpen
  /\ AppPc = "resumePostEvent" => StreamRuns /\ EventRests /\ QueueOpen
  /\ AppPc = "resumeWaitEvent" => StreamRuns /\ EventResuming
  /\ AppPc = "resumeClear" => StreamRuns /\ EventRuns

(* While the stream thread is still to be created.                          *)
StartInv ==
  /\ current_context = use.first /\ reported = {}
  /\ streamEvent = {} /\ replyEvent = {}
  /\ found[EventThread] = {}
  /\ EventPc \in {"load", "execute"}
  /\ EventPc = "execute" => ctx[EventThread] = current_context
  /\ current_context \notin nodesPaused
  /\ \A g \in Graphs : queue[g] = FreshQueue

Steady == view # "stopped" /\ ~runtime_stop_requested

CalmInv ==
  /\ CalmType /\ FoundInv /\ LifeInv
  /\ AppPc = "startStream" => StartInv
  /\ Steady => PhaseInv
-----------------------------------------------------------------------------
(* The three threads.                                                       *)
LEMMA Setting ==
  ASSUME Calm
  PROVE  /\ Threads = {Starter, StreamThread, EventThread}
         /\ Starter # StreamThread /\ Starter # EventThread
         /\ NoGraph \notin Graphs
  BY ConstantsAssumption DEF Calm, Threads, Runtime, StreamThread, EventThread

(* What the assumption on the uses says of the one that was chosen.         *)
LEMMA UseFacts ==
  ASSUME Calm, CalmType
  PROVE  /\ use.graphs \subseteq Graphs /\ use.first \in use.graphs
         /\ use.faults \subseteq {"startFailure"}
         /\ use.pausers \subseteq {Starter} /\ use.stoppers \subseteq {Starter}
         /\ use.waiters \subseteq {Starter}
         /\ use.dataflow = IF Dataflow THEN use.graphs ELSE {}
         /\ use.platform = "posix" => use.maxStart <= 1
         /\ use.maxStart \in Nat
         /\ \A g \in use.graphs : HasDataflow(g) <=> Dataflow
  BY ConstantsAssumption
     DEF Calm, CalmUse, IsUse, CalmType, Dataflow, HasDataflow

(* In a steady runtime there is a current graph.                            *)
LEMMA SteadyGraph ==
  ASSUME Calm, CalmInv, Steady
  PROVE  /\ current_context \in use.graphs /\ current_context \in Graphs
         /\ HasDataflow(current_context) <=> Dataflow
         /\ \A t \in Threads : HasDataflow(ctx[t]) <=> Dataflow
  BY UseFacts DEF CalmInv, Steady, LifeInv, CalmType, HasDataflow, Dataflow

USE DEF flags, shared, locals, seen

(* What a step of the stream thread does to the places of the three.        *)
LEMMA StreamMoves ==
  ASSUME Calm, PcType, NEW l, NEW m \in StreamLabels, Goto(StreamThread, l, m)
  PROVE  /\ PcType' /\ StreamPc = l /\ StreamPc' = m
         /\ AppPc' = AppPc /\ EventPc' = EventPc
  BY Setting DEF PcType, AppPc, StreamPc, EventPc, Goto, StreamThread,
     EventThread

(* A step of the event thread.                                              *)
LEMMA EventMoves ==
  ASSUME Calm, PcType, NEW l, NEW m \in EventLabels, Goto(EventThread, l, m)
  PROVE  /\ PcType' /\ EventPc = l /\ EventPc' = m
         /\ AppPc' = AppPc /\ StreamPc' = StreamPc
  BY Setting DEF PcType, AppPc, StreamPc, EventPc, Goto, StreamThread,
     EventThread

(* A step of the application.                                               *)
LEMMA AppMoves ==
  ASSUME Calm, PcType, NEW l, NEW m \in AppLabels, Goto(Starter, l, m)
  PROVE  /\ PcType' /\ AppPc = l /\ AppPc' = m
         /\ StreamPc' = StreamPc /\ EventPc' = EventPc
  BY Setting DEF PcType, AppPc, StreamPc, EventPc, Goto

USE DEF CalmInv, Steady, PhaseInv, FoundIsSet, ContextInv, AtRest, StreamRuns,
        StreamRests, StreamPausing, StreamResuming, NoStreamFlag, Going,
        Entering, EventRuns, EventRests, EventPausing, EventResuming,
        NoEventFlag, QueueOpen, LifeInv, Dead, FoundInv, StartInv

(* In a steady runtime the place of a thread tells that of the application. *)
LEMMA Whereabouts ==
  ASSUME Calm, CalmInv, Steady
  PROVE  /\ PhaseInv
         /\ StreamPc \in {"afterResume", "load", "sched", "pauseNodes", "ack",
                          "waitResume", "resume", "resumeNodes", "resumeAck"}
         /\ StreamPc \in {"pauseNodes", "ack"} => AppPc = "pauseWaitStream"
         /\ StreamPc \in {"resume", "resumeNodes", "resumeAck"} =>
              AppPc = "resumeWaitStream"
         /\ EventPc \in {"load", "execute", "returned", "paused",
                         "afterReport", "ack", "waitResume", "resumeAck"}
         /\ EventPc \in {"returned", "paused", "afterReport", "ack"} =>
              /\ AppPc \in {"pausePost", "pauseWaitStream", "pauseWaitEvent"}
              /\ EventPausing
         /\ EventPc = "resumeAck" => AppPc = "resumeWaitEvent"
  <1>1. PhaseInv
    OBVIOUS
  <1>2. AppPc \in AppLabels
    BY DEF CalmType, PcType
  <1>3. AtRest \/ AppPc \in CallLabels
    OBVIOUS
  <1> QED
    BY <1>1, <1>3 DEF CallLabels

(* So does a flag that is set.                                              *)
LEMMA FlagsTell ==
  ASSUME Calm, CalmInv, Steady
  PROVE  /\ "STREAM_DONE" \notin streamEvent
         /\ "STREAM_PAUSE" \in streamEvent => AppPc = "pauseWaitStream"
         /\ "STREAM_RESUME" \in streamEvent => AppPc = "resumeWaitStream"
         /\ "EVENT_RESUME" \in streamEvent => AppPc = "resumeWaitEvent"
         /\ "STREAM_PAUSED" \in replyEvent => AppPc = "pauseWaitStream"
         /\ "STREAM_RESUMED" \in replyEvent => AppPc = "resumeWaitStream"
         /\ "EVENT_PAUSED" \in replyEvent =>
              AppPc \in {"pausePost", "pauseWaitStream", "pauseWaitEvent"}
         /\ "EVENT_RESUMED" \in replyEvent => AppPc = "resumeWaitEvent"
  <1>1. PhaseInv
    OBVIOUS
  <1>2. AtRest \/ AppPc \in CallLabels
    OBVIOUS
  <1>3. CASE AtRest
    <2>1. EventRuns \/ EventRests
      BY <1>1, <1>3
    <2>2. StreamRuns \/ StreamRests
      BY <1>1, <1>3
    <2> QED
      BY <2>1, <2>2
  <1>4. CASE AppPc \in CallLabels
    BY <1>1, <1>4 DEF CallLabels
  <1> QED
    BY <1>2, <1>3, <1>4

(* The flags of a queue with one of them stored.                            *)
LEMMA QueueStores ==
  ASSUME NEW q \in QueueFlags, NEW b \in BOOLEAN
  PROVE  /\ [q EXCEPT !.mustPause = b] \in QueueFlags
         /\ [q EXCEPT !.mustEnd = b] \in QueueFlags
         /\ [q EXCEPT !.error = FALSE] = q
  BY DEF QueueFlags

(* EventQueue::resume() on a queue that has not been ended.                 *)
LEMMA QueueReopens ==
  ASSUME NEW q \in QueueFlags, ~q.mustEnd
  PROVE  [q EXCEPT !.mustPause = FALSE, !.error = FALSE] = FreshQueue
  <1> DEFINE opened == [q EXCEPT !.mustPause = FALSE]
  <1>1. opened \in QueueFlags
    BY QueueStores
  <1>2. [opened EXCEPT !.error = FALSE] = opened
    BY <1>1, QueueStores
  <1>3. opened = FreshQueue
    <2>1. ~opened.mustPause /\ ~opened.mustEnd /\ ~opened.error
      BY DEF QueueFlags
    <2>2. opened = [mustPause |-> opened.mustPause, mustEnd |-> opened.mustEnd,
                    error |-> opened.error]
      <3> HIDE DEF opened
      <3> QED
        BY <1>1 DEF QueueFlags
    <2>3. /\ opened.mustPause = FALSE /\ opened.mustEnd = FALSE
          /\ opened.error = FALSE
      <3> HIDE DEF opened
      <3> QED
        BY <1>1, <2>1 DEF QueueFlags
    <2> HIDE DEF opened
    <2> QED
      BY <2>2, <2>3 DEF FreshQueue
  <1>4. [q EXCEPT !.mustPause = FALSE, !.error = FALSE]
          = [opened EXCEPT !.error = FALSE]
    BY Zenon
  <1> QED
    BY <1>2, <1>3, <1>4, Zenon

(* The first half of a wait on Zephyr: what it has found.                   *)
LEMMA SeesEffect ==
  ASSUME Calm, CalmType, NEW t \in Threads, NEW l,
         NEW res \in SUBSET (Requests \cup Replies), Sees(t, l, res)
  PROVE  /\ pc[t] = l /\ PcType' /\ ~AtomicWait
         /\ AppPc' = AppPc /\ StreamPc' = StreamPc /\ EventPc' = EventPc
         /\ found' \in [Threads -> SUBSET (Requests \cup Replies)]
         /\ found'[t] = res /\ res # {}
         /\ \A u \in Threads \ {t} : found'[u] = found[u]
         /\ UNCHANGED <<streamEvent, replyEvent, shared, locals, seen>>
  BY DEF Sees, CalmType, PcType, AppPc, StreamPc, EventPc

(* The step of a wait that goes on.                                         *)
LEMMA EndsWaitEffect ==
  ASSUME Calm, CalmType, NEW t \in Threads, NEW res, EndsWait(t, res)
  PROVE  /\ found' \in [Threads -> SUBSET (Requests \cup Replies)]
         /\ found'[t] = {} /\ Result(t, res) # {}
         /\ \A u \in Threads \ {t} : found'[u] = found[u]
  BY DEF EndsWait, CalmType

(* The stream thread.                                                       *)
LEMMA StreamStep ==
  ASSUME Calm, CalmInv, stream_thread_function
  PROVE  CalmInv'
  <1> USE Setting, UseFacts, SteadyGraph
      DEF CalmType, AtomicWait, Dataflow, HasDataflow
  <1>0. PcType
    OBVIOUS
  <1>1. CASE StreamLoad
    <2>1. /\ PcType' /\ StreamPc = "load"
          /\ StreamPc' = "sched"
          /\ AppPc' = AppPc /\ EventPc' = EventPc
      BY <1>0, <1>1, StreamMoves DEF StreamLoad, LoadContext, StreamLabels
    <2>2. CalmType'
      BY <1>1, <2>1 DEF StreamLoad, LoadContext
    <2>3. FoundInv' /\ LifeInv' /\ (AppPc = "startStream" => StartInv)'
      BY <1>1, <2>1 DEF StreamLoad, LoadContext
    <2>4. (Steady => PhaseInv)'
      BY <1>1, <2>1, Whereabouts DEF StreamLoad, LoadContext
    <2> QED
      BY <2>2, <2>3, <2>4
  <1>2. CASE StreamNoDataflow
    <2>1. /\ PcType' /\ StreamPc = "sched"
          /\ StreamPc' = "waitResume"
          /\ AppPc' = AppPc /\ EventPc' = EventPc
      BY <1>0, <1>2, StreamMoves DEF StreamNoDataflow, Jump, StreamLabels
    <2>2. CalmType'
      BY <1>2, <2>1 DEF StreamNoDataflow, Jump
    <2>3. FoundInv' /\ LifeInv' /\ (AppPc = "startStream" => StartInv)'
      BY <1>2, <2>1 DEF StreamNoDataflow, Jump
    <2>4. (Steady => PhaseInv)'
      BY <1>2, <2>1, Whereabouts DEF StreamNoDataflow, Jump
    <2> QED
      BY <2>2, <2>3, <2>4
  <1>3. CASE StreamPoll
    <2>1. CASE Dataflow /\ Sees(StreamThread, "sched", Polled)
      <3>1. /\ StreamPc = "sched" /\ PcType' /\ ~AtomicWait
            /\ AppPc' = AppPc /\ StreamPc' = StreamPc /\ EventPc' = EventPc
            /\ found' \in [Threads -> SUBSET (Requests \cup Replies)]
            /\ found'[StreamThread] = Polled
            /\ found'[Starter] = found[Starter]
            /\ found'[EventThread] = found[EventThread]
            /\ UNCHANGED <<streamEvent, replyEvent, shared, locals, seen>>
        <4>1. Polled \in SUBSET (Requests \cup Replies)
          BY DEF Polled, Requests
        <4> QED
          BY <2>1, <4>1, SeesEffect DEF StreamPc, StreamThread, EventThread
      <3>2. CalmType'
        BY <3>1
      <3>3. FoundInv' /\ LifeInv' /\ (AppPc = "startStream" => StartInv)'
        BY <2>1, <3>1
      <3>4. Steady => Polled \subseteq {"STREAM_PAUSE"}
        BY FlagsTell DEF Polled
      <3>5. (Steady => PhaseInv)'
        BY <2>1, <3>1, <3>4, Whereabouts DEF Polled
      <3> QED
        BY <3>2, <3>3, <3>5
    <2>2. CASE ~ Sees(StreamThread, "sched", Polled)
      <3> DEFINE res == Result(StreamThread, Polled)
      <3>1. /\ found' \in [Threads -> SUBSET (Requests \cup Replies)]
            /\ found'[StreamThread] = {} /\ res # {}
            /\ found'[Starter] = found[Starter]
            /\ found'[EventThread] = found[EventThread]
        BY <1>3, <2>2, EndsWaitEffect DEF StreamPoll, StreamThread, EventThread
      <3>2. /\ PcType' /\ StreamPc = "sched"
            /\ StreamPc' = IF "STREAM_DONE" \in res THEN "pauseQueue"
                                                    ELSE "pauseNodes"
            /\ AppPc' = AppPc /\ EventPc' = EventPc
        BY <1>0, <1>3, <2>2, StreamMoves
           DEF StreamPoll, SchedulerReturns, StreamLabels
      <3>3. /\ Dataflow
            /\ why' = [why EXCEPT ![StreamThread] =
                         IF "STREAM_DONE" \in res THEN "done" ELSE "paused"]
            /\ streamEvent' = streamEvent \ IF AtomicWait THEN res
                                ELSE IF "STREAM_DONE" \in res
                                     THEN {"STREAM_DONE"} ELSE res
            /\ UNCHANGED <<replyEvent, shared, ctx, use, seen>>
        BY <1>3, <2>2 DEF StreamPoll, SchedulerReturns
      <3> HIDE DEF res
      <3>4. CalmType'
        <4>1. why' \in [Runtime -> {"none", "paused", "done"}]
              /\ why'[EventThread] = "none"
          BY <3>3 DEF Runtime, StreamThread, EventThread
        <4>2. streamEvent' \subseteq Requests
          BY <3>3
        <4> QED
          BY <3>1, <3>2, <3>3, <4>1, <4>2
      <3>5. FoundInv' /\ LifeInv' /\ (AppPc = "startStream" => StartInv)'
        BY <3>1, <3>2, <3>3
      <3>6. Steady => res = {"STREAM_PAUSE"} /\ "STREAM_PAUSE" \in streamEvent
        BY <3>1, FlagsTell DEF res, Result, Polled
      <3>7. Steady => AppPc = "pauseWaitStream" /\ StreamPausing
        BY <3>6, <3>2, FlagsTell
      <3>8. (Steady => PhaseInv)'
        BY <3>1, <3>2, <3>3, <3>6, <3>7, Whereabouts DEF Runtime
      <3> QED
        BY <3>4, <3>5, <3>8
    <2>3. HasDataflow(ctx[StreamThread]) <=> Dataflow
      OBVIOUS
    <2> QED
      BY <1>3, <2>1, <2>2, <2>3 DEF StreamPoll, SchedulerReturns
  <1>4. CASE StreamPauseQueue
    <2>1. /\ PcType' /\ StreamPc = "pauseQueue"
          /\ StreamPc' = "pauseNodes"
          /\ AppPc' = AppPc /\ EventPc' = EventPc
      BY <1>0, <1>4, StreamMoves DEF StreamPauseQueue, PauseQueue, SetQueue,
         StreamLabels
    <2>2. CalmType'
      <3>1. queue' \in [Graphs -> QueueFlags]
        BY <1>4, QueueStores DEF StreamPauseQueue, PauseQueue, SetQueue
      <3> QED
        BY <1>4, <2>1, <3>1 DEF StreamPauseQueue, PauseQueue
    <2>3. FoundInv' /\ LifeInv' /\ (AppPc = "startStream" => StartInv)'
      BY <1>4, <2>1 DEF StreamPauseQueue, PauseQueue, SetQueue
    <2>4. (Steady => PhaseInv)'
      BY <1>4, <2>1, Whereabouts DEF StreamPauseQueue, PauseQueue, SetQueue
    <2> QED
      BY <2>2, <2>3, <2>4
  <1>5. CASE StreamPauseNodes
    <2>1. /\ PcType' /\ StreamPc = "pauseNodes"
          /\ StreamPc' = IF why[StreamThread] = "paused" THEN "ack"
                        ELSE "waitEvent"
          /\ AppPc' = AppPc /\ EventPc' = EventPc
      BY <1>0, <1>5, StreamMoves DEF StreamPauseNodes, PauseNodes, StreamLabels
    <2>2. CalmType'
      BY <1>5, <2>1 DEF StreamPauseNodes, PauseNodes
    <2>3. FoundInv' /\ LifeInv' /\ (AppPc = "startStream" => StartInv)'
      BY <1>5, <2>1 DEF StreamPauseNodes, PauseNodes
    <2>4. (Steady => PhaseInv)'
      <3>1. Steady => /\ AppPc = "pauseWaitStream" /\ StreamPausing
                      /\ why[StreamThread] = "paused"
        BY <2>1, Whereabouts
      <3> QED
        BY <1>5, <2>1, <3>1 DEF StreamPauseNodes, PauseNodes
    <2> QED
      BY <2>2, <2>3, <2>4
  <1>6. CASE StreamWaitEvent
    <2>0. StreamPc = "waitEvent" /\ ~ Steady
      BY <1>6, Whereabouts DEF StreamWaitEvent, AwaitReply, AwaitEither, Sees,
         Goto, StreamPc
    <2>1. /\ PcType' /\ StreamPc' \in {"waitEvent", "report"}
          /\ AppPc' = AppPc /\ EventPc' = EventPc
      BY <1>0, <1>6, <2>0, StreamMoves
         DEF StreamWaitEvent, AwaitReply, AwaitEither, Sees, StreamLabels,
             PcType, AppPc, StreamPc, EventPc
    <2>2. /\ found' \in [Threads -> SUBSET (Requests \cup Replies)]
          /\ replyEvent' \subseteq replyEvent
          /\ \A t \in Threads \ {StreamThread} : found'[t] = found[t]
          /\ StreamPc' = "report" => found'[StreamThread] = {}
          /\ AtomicWait => found'[StreamThread] = {}
      BY <1>6, <2>0 DEF StreamWaitEvent, AwaitReply, AwaitEither, Sees,
         EndsWait,
         Result, Cleared, Replies, Goto, StreamPc
    <2>3. UNCHANGED <<streamEvent, shared, locals, seen>>
      BY <1>6 DEF StreamWaitEvent, AwaitReply, AwaitEither, Sees
    <2>4. CalmType'
      BY <2>1, <2>2, <2>3
    <2>5. FoundInv'
      BY <2>0, <2>1, <2>2, <2>3 DEF StreamThread, EventThread
    <2>7. LifeInv' /\ (AppPc = "startStream" => StartInv)'
      BY <2>0, <2>1, <2>2, <2>3 DEF StreamThread, EventThread
    <2>6. (Steady => PhaseInv)'
      BY <2>0, <2>3
    <2> QED
      BY <2>4, <2>5, <2>6, <2>7
  <1>7. CASE StreamReport
    <2>1. /\ PcType' /\ StreamPc = "report"
          /\ StreamPc' = "afterReport"
          /\ AppPc' = AppPc /\ EventPc' = EventPc
      BY <1>0, <1>7, StreamMoves DEF StreamReport, Report, StreamLabels, Runtime
    <2>2. CalmType'
      BY <1>7, <2>1 DEF StreamReport, Report
    <2>3. FoundInv' /\ LifeInv' /\ (AppPc = "startStream" => StartInv)'
      BY <1>7, <2>1 DEF StreamReport, Report
    <2>4. (Steady => PhaseInv)'
      BY <1>7, <2>1, Whereabouts DEF StreamReport, Report
    <2> QED
      BY <2>2, <2>3, <2>4
  <1>8. CASE StreamAfterReport
    <2>1. /\ PcType' /\ StreamPc = "afterReport"
          /\ StreamPc' = IF runtime_stop_requested THEN "exit" ELSE "ack"
          /\ AppPc' = AppPc /\ EventPc' = EventPc
      BY <1>0, <1>8, StreamMoves DEF StreamAfterReport, Jump, StreamLabels
    <2>2. CalmType'
      BY <1>8, <2>1 DEF StreamAfterReport, Jump
    <2>3. FoundInv' /\ LifeInv' /\ (AppPc = "startStream" => StartInv)'
      BY <1>8, <2>1 DEF StreamAfterReport, Jump
    <2>4. (Steady => PhaseInv)'
      BY <1>8, <2>1, Whereabouts DEF StreamAfterReport, Jump
    <2> QED
      BY <2>2, <2>3, <2>4
  <1>9. CASE StreamAck
    <2>1. /\ PcType' /\ StreamPc = "ack"
          /\ StreamPc' = "waitResume"
          /\ AppPc' = AppPc /\ EventPc' = EventPc
      BY <1>0, <1>9, StreamMoves DEF StreamAck, PostReply, StreamLabels
    <2>2. CalmType'
      BY <1>9, <2>1 DEF StreamAck, PostReply, Replies
    <2>3. FoundInv' /\ LifeInv' /\ (AppPc = "startStream" => StartInv)'
      BY <1>9, <2>1 DEF StreamAck, PostReply
    <2>4. (Steady => PhaseInv)'
      BY <1>9, <2>1, Whereabouts DEF StreamAck, PostReply
    <2> QED
      BY <2>2, <2>3, <2>4
  <1>10. CASE StreamWaitResume
    <2>0. StreamPc = "waitResume" => found[StreamThread] = {}
      OBVIOUS
    <2>1. /\ StreamPc = "waitResume" /\ StreamPc' = "resume" /\ PcType'
          /\ AppPc' = AppPc /\ EventPc' = EventPc
          /\ "STREAM_RESUME" \in streamEvent
          /\ streamEvent' = streamEvent \ IF AtomicWait THEN {"STREAM_RESUME"}
                                                       ELSE {}
          /\ \A t \in Threads : found'[t] = found[t]
          /\ found' \in [Threads -> SUBSET (Requests \cup Replies)]
          /\ UNCHANGED <<replyEvent, shared, locals, seen>>
      <3>1. CASE AtomicWait
        <4>1. /\ Goto(StreamThread, "waitResume", "resume")
              /\ EndsWait(StreamThread, {"STREAM_RESUME"} \cap streamEvent)
              /\ streamEvent' = streamEvent \
                   Result(StreamThread, {"STREAM_RESUME"} \cap streamEvent)
              /\ UNCHANGED <<replyEvent, shared, locals, seen>>
          BY <1>10, <3>1 DEF StreamWaitResume, AwaitRequest, Sees
        <4>2. /\ StreamPc = "waitResume" /\ StreamPc' = "resume" /\ PcType'
              /\ AppPc' = AppPc /\ EventPc' = EventPc
          BY <1>0, <4>1, StreamMoves DEF StreamLabels
        <4>3. found[StreamThread] = {} /\ StreamThread \in Threads
          BY <2>0, <4>2 DEF Threads
        <4>4. /\ found'[StreamThread] = {}
              /\ \A u \in Threads \ {StreamThread} : found'[u] = found[u]
              /\ found' \in [Threads -> SUBSET (Requests \cup Replies)]
              /\ Result(StreamThread, {"STREAM_RESUME"} \cap streamEvent) # {}
          BY <4>1, <4>3, EndsWaitEffect
        <4>5. \A t \in Threads : found'[t] = found[t]
          BY <4>3, <4>4
        <4> QED
          BY <3>1, <4>1, <4>2, <4>4, <4>5 DEF Result
      <3>2. CASE ~AtomicWait
        <4>1. /\ Goto(StreamThread, "waitResume", "resume")
              /\ "STREAM_RESUME" \in streamEvent
              /\ UNCHANGED <<flags, shared, locals, seen>>
          BY <1>10, <3>2 DEF StreamWaitResume, Jump
        <4>2. /\ StreamPc = "waitResume" /\ StreamPc' = "resume" /\ PcType'
              /\ AppPc' = AppPc /\ EventPc' = EventPc
          BY <1>0, <4>1, StreamMoves DEF StreamLabels
        <4> QED
          BY <3>2, <4>1, <4>2
      <3> QED
        BY <3>1, <3>2
    <2>2. CalmType'
      BY <2>1
    <2>3. FoundInv' /\ LifeInv' /\ (AppPc = "startStream" => StartInv)'
      BY <2>0, <2>1
    <2>4. Steady => AppPc = "resumeWaitStream" /\ StreamResuming
      BY <2>1, FlagsTell
    <2>5. (Steady => PhaseInv)'
      BY <2>0, <2>1, <2>4, Whereabouts
    <2> QED
      BY <2>2, <2>3, <2>5
  <1>11. CASE StreamLooksAtStop
    <2>1. /\ PcType' /\ StreamPc = "resume"
          /\ StreamPc' = IF runtime_stop_requested THEN "exit"
                        ELSE "resumeNodes"
          /\ AppPc' = AppPc /\ EventPc' = EventPc
      BY <1>0, <1>11, StreamMoves DEF StreamLooksAtStop, StreamLabels
    <2>2. CalmType'
      BY <1>11, <2>1 DEF StreamLooksAtStop, Runtime
    <2>3. FoundInv' /\ LifeInv' /\ (AppPc = "startStream" => StartInv)'
      BY <1>11, <2>1 DEF StreamLooksAtStop
    <2>4. (Steady => PhaseInv)'
      BY <1>11, <2>1, Whereabouts DEF StreamLooksAtStop
    <2> QED
      BY <2>2, <2>3, <2>4
  <1>12. CASE StreamResume
    <2>1. /\ PcType' /\ StreamPc = "resumeNodes"
          /\ StreamPc' = "resumeAck"
          /\ AppPc' = AppPc /\ EventPc' = EventPc
      BY <1>0, <1>12, StreamMoves DEF StreamResume, ClearResume, AtomicWait,
         StreamLabels
    <2>2. CalmType'
      BY <1>12, <2>1 DEF StreamResume, ClearResume, AtomicWait
    <2>3. FoundInv' /\ LifeInv' /\ (AppPc = "startStream" => StartInv)'
      BY <1>12, <2>1 DEF StreamResume, ClearResume, AtomicWait
    <2>4. (Steady => PhaseInv)'
      BY <1>12, <2>1, Whereabouts DEF StreamResume, ClearResume, AtomicWait
    <2> QED
      BY <2>2, <2>3, <2>4
  <1>13. CASE StreamResumeAck
    <2>1. /\ PcType' /\ StreamPc = "resumeAck"
          /\ StreamPc' = "afterResume"
          /\ AppPc' = AppPc /\ EventPc' = EventPc
      BY <1>0, <1>13, StreamMoves DEF StreamResumeAck, PostReply, StreamLabels
    <2>2. CalmType'
      BY <1>13, <2>1 DEF StreamResumeAck, PostReply, Replies
    <2>3. FoundInv' /\ LifeInv' /\ (AppPc = "startStream" => StartInv)'
      BY <1>13, <2>1 DEF StreamResumeAck, PostReply
    <2>4. (Steady => PhaseInv)'
      BY <1>13, <2>1, Whereabouts DEF StreamResumeAck, PostReply
    <2> QED
      BY <2>2, <2>3, <2>4
  <1>14. CASE StreamAfterResume
    <2>1. /\ PcType' /\ StreamPc = "afterResume"
          /\ StreamPc' = IF runtime_stop_requested THEN "exit" ELSE "load"
          /\ AppPc' = AppPc /\ EventPc' = EventPc
      BY <1>0, <1>14, StreamMoves DEF StreamAfterResume, Jump, StreamLabels
    <2>2. CalmType'
      BY <1>14, <2>1 DEF StreamAfterResume, Jump
    <2>3. FoundInv' /\ LifeInv' /\ (AppPc = "startStream" => StartInv)'
      BY <1>14, <2>1 DEF StreamAfterResume, Jump
    <2>4. (Steady => PhaseInv)'
      BY <1>14, <2>1, Whereabouts DEF StreamAfterResume, Jump
    <2> QED
      BY <2>2, <2>3, <2>4
  <1> QED
    BY <1>1, <1>2, <1>3, <1>4, <1>5, <1>6, <1>7, <1>8, <1>9, <1>10, <1>11,
       <1>12, <1>13, <1>14 DEF stream_thread_function

(* The event thread.                                                        *)
LEMMA EventStep ==
  ASSUME Calm, CalmInv, event_thread_function
  PROVE  CalmInv'
  <1> USE Setting, UseFacts, SteadyGraph
      DEF CalmType, AtomicWait, Dataflow, HasDataflow
  <1>0. PcType
    OBVIOUS
  <1>1. CASE EventLoad
    <2>1. /\ PcType' /\ EventPc = "load"
          /\ EventPc' = "execute"
          /\ AppPc' = AppPc /\ StreamPc' = StreamPc
      BY <1>0, <1>1, EventMoves DEF EventLoad, LoadContext, EventLabels
    <2>2. CalmType'
      BY <1>1, <2>1 DEF EventLoad, LoadContext
    <2>3. FoundInv' /\ LifeInv' /\ (AppPc = "startStream" => StartInv)'
      BY <1>1, <2>1 DEF EventLoad, LoadContext
    <2>4. (Steady => PhaseInv)'
      BY <1>1, <2>1, Whereabouts DEF EventLoad, LoadContext
    <2> QED
      BY <2>2, <2>3, <2>4
  <1>2. CASE EventExecuteReturns
    <2>1. /\ PcType' /\ EventPc = "execute"
          /\ EventPc' = "returned"
          /\ AppPc' = AppPc /\ StreamPc' = StreamPc
      BY <1>0, <1>2, EventMoves DEF EventExecuteReturns, Jump, EventLabels
    <2>2. UNCHANGED <<flags, shared, locals, seen>>
      BY <1>2 DEF EventExecuteReturns, Jump
    <2>3. queue[ctx[EventThread]] # FreshQueue
      BY <1>2 DEF EventExecuteReturns, FreshQueue
    <2>4. CalmType'
      BY <2>1, <2>2
    <2>5. AppPc # "startStream"
      <3>1. SUFFICES ASSUME AppPc = "startStream" PROVE FALSE
        OBVIOUS
      <3>2. StartInv
        BY <3>1
      <3>3. ctx[EventThread] = current_context
        BY <2>1, <3>2
      <3>4. ctx[EventThread] \in Graphs
        OBVIOUS
      <3> QED
        BY <2>3, <3>2, <3>3, <3>4
    <2>6. FoundInv'
      BY <2>1, <2>2
    <2>7. LifeInv' /\ (AppPc = "startStream" => StartInv)'
      BY <2>1, <2>2, <2>5
    <2>8. ASSUME Steady
          PROVE  /\ AppPc \in {"pausePost", "pauseWaitStream",
                                "pauseWaitEvent"}
                 /\ EventPausing
      <3>1. PhaseInv
        BY <2>8, Whereabouts
      <3>2. ctx[EventThread] = current_context
        BY <2>1, <3>1
      <3>3. ~QueueOpen
        BY <2>3, <3>2
      <3>4. ~EventRuns /\ ~EventResuming /\ ~EventRests
        BY <2>1, <3>3
      <3>5. AtRest \/ AppPc \in CallLabels
        BY <3>1
      <3> QED
        BY <3>1, <3>4, <3>5 DEF CallLabels
    <2>9. (Steady => PhaseInv)'
      BY <2>1, <2>2, <2>8, Whereabouts
    <2> QED
      BY <2>4, <2>6, <2>7, <2>9
  <1>3. CASE EventEnds
    <2>1. /\ PcType' /\ EventPc = "returned"
          /\ EventPc' = "exit"
          /\ AppPc' = AppPc /\ StreamPc' = StreamPc
      BY <1>0, <1>3, EventMoves DEF EventEnds, Jump, EventLabels
    <2>2. CalmType'
      BY <1>3, <2>1 DEF EventEnds, Jump
    <2>3. FoundInv' /\ LifeInv' /\ (AppPc = "startStream" => StartInv)'
      BY <1>3, <2>1 DEF EventEnds, Jump
    <2>4. (Steady => PhaseInv)'
      BY <1>3, <2>1, Whereabouts DEF EventEnds, Jump
    <2> QED
      BY <2>2, <2>3, <2>4
  <1>4. CASE EventConsumeError
    <2>1. /\ ctx[EventThread] \in Graphs
          /\ queue[ctx[EventThread]] \in QueueFlags
          /\ ~ queue[ctx[EventThread]].error
      BY DEF QueueFlags
    <2>2. queue' = queue
      BY <1>4, <2>1, QueueStores DEF EventConsumeError, SetQueue
    <2>3. why' = why
      BY <1>4, <2>1 DEF EventConsumeError, Runtime, EventThread
    <2>4. /\ PcType' /\ EventPc = "returned" /\ EventPc' = "paused"
          /\ AppPc' = AppPc /\ StreamPc' = StreamPc
      BY <1>0, <1>4, <2>1, EventMoves DEF EventConsumeError, EventLabels
    <2>5. UNCHANGED <<flags, shared, locals, seen>>
      BY <1>4, <2>2, <2>3 DEF EventConsumeError
    <2>6. CalmType'
      BY <2>4, <2>5
    <2>7. FoundInv' /\ LifeInv' /\ (AppPc = "startStream" => StartInv)'
      <3>1. ~queue[ctx[EventThread]].mustEnd
        BY <1>4 DEF EventConsumeError
      <3> QED
        BY <2>4, <2>5, <3>1
    <2>8. (Steady => PhaseInv)'
      BY <2>4, <2>5, Whereabouts
    <2> QED
      BY <2>6, <2>7, <2>8
  <1>5. CASE EventPausePeer \/ EventWaitStream \/ EventReport
    <2>1. EventPc \in {"pausePeer", "waitStream", "report"}
      BY <1>5 DEF EventPausePeer, EventWaitStream, EventReport, PostRequest,
         AwaitReply, AwaitEither, Sees, Report, Goto, EventPc
    <2> QED
      BY <2>1 DEF PcType, EventLabels
  <1>6. CASE EventPauseNodes
    <2>1. /\ PcType' /\ EventPc = "paused"
          /\ EventPc' = "afterReport"
          /\ AppPc' = AppPc /\ StreamPc' = StreamPc
      BY <1>0, <1>6, EventMoves DEF EventPauseNodes, PauseNodes, Jump,
         EventLabels
    <2>2. CalmType'
      BY <1>6, <2>1 DEF EventPauseNodes, PauseNodes, Jump
    <2>3. FoundInv' /\ LifeInv' /\ (AppPc = "startStream" => StartInv)'
      BY <1>6, <2>1 DEF EventPauseNodes, PauseNodes, Jump
    <2>4. (Steady => PhaseInv)'
      BY <1>6, <2>1, Whereabouts DEF EventPauseNodes, PauseNodes, Jump
    <2> QED
      BY <2>2, <2>3, <2>4
  <1>7. CASE EventAfterReport
    <2>1. /\ PcType' /\ EventPc = "afterReport"
          /\ EventPc' = IF runtime_stop_requested THEN "exit" ELSE "ack"
          /\ AppPc' = AppPc /\ StreamPc' = StreamPc
      BY <1>0, <1>7, EventMoves DEF EventAfterReport, Jump, EventLabels
    <2>2. CalmType'
      BY <1>7, <2>1 DEF EventAfterReport, Jump
    <2>3. FoundInv' /\ LifeInv' /\ (AppPc = "startStream" => StartInv)'
      BY <1>7, <2>1 DEF EventAfterReport, Jump
    <2>4. (Steady => PhaseInv)'
      BY <1>7, <2>1, Whereabouts DEF EventAfterReport, Jump
    <2> QED
      BY <2>2, <2>3, <2>4
  <1>8. CASE EventAck
    <2>1. /\ PcType' /\ EventPc = "ack"
          /\ EventPc' = "waitResume"
          /\ AppPc' = AppPc /\ StreamPc' = StreamPc
      BY <1>0, <1>8, EventMoves DEF EventAck, PostReply, EventLabels
    <2>2. CalmType'
      BY <1>8, <2>1 DEF EventAck, PostReply, Replies
    <2>3. FoundInv' /\ LifeInv' /\ (AppPc = "startStream" => StartInv)'
      BY <1>8, <2>1 DEF EventAck, PostReply
    <2>4. (Steady => PhaseInv)'
      BY <1>8, <2>1, Whereabouts DEF EventAck, PostReply
    <2> QED
      BY <2>2, <2>3, <2>4
  <1>9. CASE EventWaitResume
    <2> DEFINE res == {"EVENT_RESUME"} \cap streamEvent
    <2>1. CASE Sees(EventThread, "waitResume", res)
      <3>1. /\ EventPc = "waitResume" /\ PcType' /\ ~AtomicWait
            /\ AppPc' = AppPc /\ StreamPc' = StreamPc /\ EventPc' = EventPc
            /\ found' \in [Threads -> SUBSET (Requests \cup Replies)]
            /\ found'[EventThread] = {"EVENT_RESUME"}
            /\ "EVENT_RESUME" \in streamEvent
            /\ found'[Starter] = found[Starter]
            /\ found'[StreamThread] = found[StreamThread]
            /\ UNCHANGED <<streamEvent, replyEvent, shared, locals, seen>>
        <4>1. res \in SUBSET (Requests \cup Replies)
          BY DEF Requests
        <4> QED
          BY <2>1, <4>1, SeesEffect DEF EventPc, StreamThread, EventThread
      <3>2. CalmType'
        BY <3>1
      <3>3. FoundInv' /\ LifeInv' /\ (AppPc = "startStream" => StartInv)'
        BY <3>1
      <3>4. (Steady => PhaseInv)'
        BY <3>1, FlagsTell, Whereabouts
      <3> QED
        BY <3>2, <3>3, <3>4
    <2>2. CASE ~ Sees(EventThread, "waitResume", res)
      <3>1. /\ found' \in [Threads -> SUBSET (Requests \cup Replies)]
            /\ found'[EventThread] = {} /\ Result(EventThread, res) # {}
            /\ found'[Starter] = found[Starter]
            /\ found'[StreamThread] = found[StreamThread]
        BY <1>9, <2>2, EndsWaitEffect
           DEF EventWaitResume, AwaitRequest, StreamThread, EventThread
      <3>2. /\ PcType' /\ EventPc = "waitResume" /\ EventPc' = "resumeAck"
            /\ AppPc' = AppPc /\ StreamPc' = StreamPc
        BY <1>0, <1>9, <2>2, EventMoves
           DEF EventWaitResume, AwaitRequest, EventLabels
      <3>3. /\ streamEvent' = streamEvent \ Result(EventThread, res)
            /\ UNCHANGED <<replyEvent, shared, locals, seen>>
        BY <1>9, <2>2 DEF EventWaitResume, AwaitRequest
      <3>4. CalmType'
        BY <3>1, <3>2, <3>3
      <3>5. FoundInv' /\ LifeInv' /\ (AppPc = "startStream" => StartInv)'
        BY <3>1, <3>2, <3>3
      <3>6. Steady => /\ Result(EventThread, res) = {"EVENT_RESUME"}
                      /\ "EVENT_RESUME" \in streamEvent
        BY <3>1, FlagsTell DEF Result
      <3>7. Steady => AppPc = "resumeWaitEvent" /\ EventResuming
        BY <3>6, FlagsTell
      <3>8. (Steady => PhaseInv)'
        BY <3>1, <3>2, <3>3, <3>6, <3>7, Whereabouts
      <3> QED
        BY <3>4, <3>5, <3>8
    <2> QED
      BY <2>1, <2>2
  <1>10. CASE EventResumeAck
    <2>1. /\ PcType' /\ EventPc = "resumeAck"
          /\ EventPc' = "load"
          /\ AppPc' = AppPc /\ StreamPc' = StreamPc
      BY <1>0, <1>10, EventMoves DEF EventResumeAck, PostReply, EventLabels
    <2>2. CalmType'
      BY <1>10, <2>1 DEF EventResumeAck, PostReply, Replies
    <2>3. FoundInv' /\ LifeInv' /\ (AppPc = "startStream" => StartInv)'
      BY <1>10, <2>1 DEF EventResumeAck, PostReply
    <2>4. (Steady => PhaseInv)'
      BY <1>10, <2>1, Whereabouts DEF EventResumeAck, PostReply
    <2> QED
      BY <2>2, <2>3, <2>4
  <1> QED
    BY <1>1, <1>2, <1>3, <1>4, <1>5, <1>6, <1>7, <1>8, <1>9, <1>10
       DEF event_thread_function

(* A thread inside a call to pause or to resume controls a steady runtime.  *)
LEMMA CallIsSteady ==
  ASSUME Calm, CalmInv, AppPc \in CallLabels
  PROVE  Steady /\ PhaseInv /\ ~AtRest
  BY DEF CallLabels

(* A wait of the application for the acknowledgment f, among flags of which *)
(* no other is set: it finds f, or goes on without it.                      *)
LEMMA AppWaits ==
  ASSUME Calm, CalmInv, NEW l \in CallLabels, NEW m \in CallLabels, NEW n,
         NEW f \in Replies, NEW F, F \cap replyEvent \subseteq {f},
         found[Starter] \subseteq {f} \cap replyEvent,
         f \in Failures => n = m,
         AwaitEither(Starter, l, F, m, n)
  PROVE  /\ PcType' /\ AppPc = l /\ f \in replyEvent
         /\ StreamPc' = StreamPc /\ EventPc' = EventPc
         /\ found' \in [Threads -> SUBSET (Requests \cup Replies)]
         /\ found'[EventThread] = found[EventThread]
         /\ found'[StreamThread] = found[StreamThread]
         /\ UNCHANGED <<streamEvent, shared, locals, seen>>
         /\ \/ /\ ~AtomicWait /\ AppPc' = l /\ found'[Starter] = {f}
               /\ replyEvent' = replyEvent
            \/ /\ AppPc' = m /\ found'[Starter] = {}
               /\ replyEvent' = replyEvent \ {f}
  <1> USE Setting DEF CalmType
  <1> DEFINE res == F \cap replyEvent
  <1>0. PcType /\ AppPc = l
    BY DEF AwaitEither, Sees, Goto, AppPc
  <1>1. CASE Sees(Starter, l, res)
    <2>1. res \in SUBSET (Requests \cup Replies) /\ (res # {} => res = {f})
      OBVIOUS
    <2> QED
      BY <1>0, <1>1, <2>1, SeesEffect
  <1>2. CASE ~Sees(Starter, l, res)
    <2> DEFINE got == Result(Starter, res)
    <2>1. /\ Goto(Starter, l, IF got \cap Failures = {} THEN m ELSE n)
          /\ EndsWait(Starter, res)
          /\ replyEvent' = replyEvent \ Cleared(got)
          /\ UNCHANGED <<streamEvent, shared, locals, seen>>
      BY <1>2 DEF AwaitEither
    <2>2. /\ found' \in [Threads -> SUBSET (Requests \cup Replies)]
          /\ found'[Starter] = {} /\ got # {}
          /\ \A u \in Threads \ {Starter} : found'[u] = found[u]
      BY <2>1, EndsWaitEffect
    <2>3. got = {f} /\ f \in replyEvent
      BY <2>2 DEF Result
    <2>4. (IF got \cap Failures = {} THEN m ELSE n) = m
      <3> HIDE DEF got
      <3>1. CASE f \in Failures
        BY <3>1
      <3>2. CASE f \notin Failures
        BY <2>3, <3>2
      <3> QED
        BY <3>1, <3>2
    <2>5. Cleared(got) = {f}
      <3> HIDE DEF got
      <3>1. {f} \cap Failures = {} \/ {f} \cap Failures = {f}
        OBVIOUS
      <3> QED
        BY <2>3, <3>1 DEF Cleared
    <2>6. Goto(Starter, l, m)
      BY <2>1, <2>4
    <2>7. PcType' /\ AppPc' = m /\ StreamPc' = StreamPc /\ EventPc' = EventPc
      BY <1>0, <2>6, AppMoves DEF AppLabels
    <2> QED
      BY <1>0, <2>1, <2>2, <2>3, <2>5, <2>7
  <1> QED
    BY <1>1, <1>2

(* stream_pause_current_scheduler().                                        *)
LEMMA PauseStep ==
  ASSUME Calm, CalmInv,
         CallPause(Starter) \/ stream_pause_current_scheduler(Starter)
  PROVE  CalmInv'
  <1> USE Setting, UseFacts, SteadyGraph
      DEF CalmType, AtomicWait, Dataflow, HasDataflow
  <1>0. PcType
    OBVIOUS
  <1>1. CASE CallPause(Starter)
    <2>1. /\ PcType' /\ AppPc = "idle"
          /\ AppPc' = IF HasDataflow(current_context) THEN "pausePost"
                                                      ELSE "pauseWaitEvent"
          /\ StreamPc' = StreamPc /\ EventPc' = EventPc
      BY <1>0, <1>1, AppMoves DEF CallPause, AppLabels, CallLabels
    <2>2. Steady /\ view = "running" /\ view' = "pausing"
      BY <1>1, <2>1 DEF CallPause, StopLabels
    <2>3. /\ queue' = [queue EXCEPT ![current_context] =
                         [queue[current_context] EXCEPT !.mustPause = TRUE]]
          /\ queue[current_context] \in QueueFlags
          /\ current_context \in Graphs
      BY <1>1, <2>2 DEF CallPause, SetQueue
    <2>4. queue' \in [Graphs -> QueueFlags]
      BY <2>3, QueueStores
    <2>5. /\ queue'[current_context].mustPause
          /\ \A g \in Graphs : queue'[g].mustEnd = queue[g].mustEnd
      BY <2>3 DEF QueueFlags
    <2>6. nb' \in [fault : Nat, call : Nat, start : Nat] /\ nb'.start = nb.start
      BY <1>1 DEF CallPause, Counted
    <2>7. CalmType'
      BY <1>1, <2>1, <2>2, <2>4, <2>6 DEF CallPause
    <2>8. FoundInv' /\ LifeInv'
      BY <1>1, <2>1, <2>2, <2>6 DEF CallPause, RestLabels, StopLabels,
         CallLabels
    <2>9. (Steady => PhaseInv)'
      BY <1>1, <2>1, <2>2, <2>5 DEF CallPause, CallLabels
    <2> QED
      BY <2>1, <2>7, <2>8, <2>9
  <1>2. CASE PausePost(Starter)
    <2>1. /\ PcType' /\ AppPc = "pausePost" /\ AppPc' = "pauseWaitStream"
          /\ StreamPc' = StreamPc /\ EventPc' = EventPc
      BY <1>0, <1>2, AppMoves
         DEF PausePost, PostRequest, AppLabels, CallLabels,
             RestLabels
    <2>2. Steady /\ PhaseInv /\ ~AtRest
      BY <2>1, CallIsSteady DEF CallLabels
    <2>3. CalmType'
      BY <1>2, <2>1, <2>2 DEF PausePost, PostRequest, Requests
    <2>4. FoundInv'
      BY <1>2, <2>1, <2>2 DEF PausePost, PostRequest
    <2>5. LifeInv'
      BY <1>2, <2>1, <2>2
         DEF PausePost, PostRequest, RestLabels, StopLabels, CallLabels
    <2>6. (Steady => PhaseInv)'
      BY <1>2, <2>1, <2>2 DEF PausePost, PostRequest, CallLabels
    <2> QED
      BY <2>1, <2>3, <2>4, <2>5, <2>6
  <1>3. CASE PauseWaitStream(Starter)
    <2>1. AwaitEither(Starter, "pauseWaitStream", {"STREAM_PAUSED"},
                      "pauseWaitEvent", "pauseWaitEvent")
      BY <1>3 DEF PauseWaitStream, AwaitReply
    <2>2. AppPc = "pauseWaitStream"
      BY <2>1 DEF AwaitEither, Sees, Goto, AppPc
    <2>3. Steady /\ PhaseInv /\ ~AtRest
      BY <2>2, CallIsSteady DEF CallLabels
    <2>4. /\ {"STREAM_PAUSED"} \cap replyEvent \subseteq {"STREAM_PAUSED"}
          /\ found[Starter] \subseteq {"STREAM_PAUSED"} \cap replyEvent
      BY <2>2, <2>3
    <2>5. /\ PcType' /\ "STREAM_PAUSED" \in replyEvent
          /\ StreamPc' = StreamPc /\ EventPc' = EventPc
          /\ found' \in [Threads -> SUBSET (Requests \cup Replies)]
          /\ found'[EventThread] = found[EventThread]
          /\ found'[StreamThread] = found[StreamThread]
          /\ UNCHANGED <<streamEvent, shared, locals, seen>>
          /\ \/ /\ ~AtomicWait /\ AppPc' = "pauseWaitStream"
                /\ found'[Starter] = {"STREAM_PAUSED"}
                /\ replyEvent' = replyEvent
             \/ /\ AppPc' = "pauseWaitEvent" /\ found'[Starter] = {}
                /\ replyEvent' = replyEvent \ {"STREAM_PAUSED"}
      <3>1. "STREAM_PAUSED" \in Replies
        BY DEF Replies
      <3>2. "pauseWaitStream" \in CallLabels /\ "pauseWaitEvent" \in CallLabels
        BY DEF CallLabels
      <3> QED
        BY <2>1, <2>4, <3>1, <3>2, AppWaits
    <2>6. CalmType'
      BY <2>5
    <2>7. FoundInv'
      BY <2>2, <2>5
    <2>8. LifeInv'
      BY <2>2, <2>3, <2>5 DEF RestLabels, StopLabels, CallLabels
    <2>9. (Steady => PhaseInv)'
      <3>1. CASE AppPc' = "pauseWaitStream"
        BY <2>2, <2>3, <2>5, <3>1
      <3>2. CASE AppPc' = "pauseWaitEvent"
        BY <2>2, <2>3, <2>5, <3>2 DEF CallLabels
      <3> QED
        BY <2>5, <3>1, <3>2
    <2> QED
      BY <2>2, <2>5, <2>6, <2>7, <2>8, <2>9
  <1>4. CASE PauseWaitEvent(Starter)
    <2>1. AwaitEither(Starter, "pauseWaitEvent", {"EVENT_PAUSED"},
                      "pauseClear", "pauseClear")
      BY <1>4 DEF PauseWaitEvent, AwaitReply
    <2>2. AppPc = "pauseWaitEvent"
      BY <2>1 DEF AwaitEither, Sees, Goto, AppPc
    <2>3. Steady /\ PhaseInv /\ ~AtRest
      BY <2>2, CallIsSteady DEF CallLabels
    <2>4. /\ {"EVENT_PAUSED"} \cap replyEvent \subseteq {"EVENT_PAUSED"}
          /\ found[Starter] \subseteq {"EVENT_PAUSED"} \cap replyEvent
      BY <2>2, <2>3
    <2>5. /\ PcType' /\ "EVENT_PAUSED" \in replyEvent
          /\ StreamPc' = StreamPc /\ EventPc' = EventPc
          /\ found' \in [Threads -> SUBSET (Requests \cup Replies)]
          /\ found'[EventThread] = found[EventThread]
          /\ found'[StreamThread] = found[StreamThread]
          /\ UNCHANGED <<streamEvent, shared, locals, seen>>
          /\ \/ /\ ~AtomicWait /\ AppPc' = "pauseWaitEvent"
                /\ found'[Starter] = {"EVENT_PAUSED"}
                /\ replyEvent' = replyEvent
             \/ /\ AppPc' = "pauseClear" /\ found'[Starter] = {}
                /\ replyEvent' = replyEvent \ {"EVENT_PAUSED"}
      <3>1. "EVENT_PAUSED" \in Replies
        BY DEF Replies
      <3>2. "pauseWaitEvent" \in CallLabels /\ "pauseClear" \in CallLabels
        BY DEF CallLabels
      <3> QED
        BY <2>1, <2>4, <3>1, <3>2, AppWaits
    <2>6. CalmType'
      BY <2>5
    <2>7. FoundInv'
      BY <2>2, <2>5
    <2>8. LifeInv'
      BY <2>2, <2>3, <2>5 DEF RestLabels, StopLabels, CallLabels
    <2>9. (Steady => PhaseInv)'
      <3>1. CASE AppPc' = "pauseWaitEvent"
        BY <2>2, <2>3, <2>5, <3>1
      <3>2. CASE AppPc' = "pauseClear"
        BY <2>2, <2>3, <2>5, <3>2 DEF CallLabels
      <3> QED
        BY <2>5, <3>1, <3>2
    <2> QED
      BY <2>2, <2>5, <2>6, <2>7, <2>8, <2>9
  <1>5. CASE PauseClear(Starter)
    <2>1. /\ PcType' /\ AppPc = "pauseClear" /\ AppPc' = "idle"
          /\ StreamPc' = StreamPc /\ EventPc' = EventPc
      BY <1>0, <1>5, AppMoves
         DEF PauseClear, Returns, AppLabels, CallLabels,
             RestLabels
    <2>2. Steady /\ PhaseInv /\ ~AtRest
      BY <2>1, CallIsSteady DEF CallLabels
    <2>3. CalmType'
      BY <1>5, <2>1, <2>2 DEF PauseClear, Returns, Requests
    <2>4. FoundInv'
      BY <1>5, <2>1, <2>2 DEF PauseClear, Returns
    <2>5. LifeInv'
      BY <1>5, <2>1, <2>2
         DEF PauseClear, Returns, RestLabels, StopLabels, CallLabels
    <2>6. (Steady => PhaseInv)'
      BY <1>5, <2>1, <2>2 DEF PauseClear, Returns, CallLabels
    <2> QED
      BY <2>1, <2>3, <2>4, <2>5, <2>6
  <1> QED
    BY <1>1, <1>2, <1>3, <1>4, <1>5 DEF stream_pause_current_scheduler

(* stream_resume_scheduler().                                               *)
LEMMA ResumeStep ==
  ASSUME Calm, CalmInv,
         \/ \E g \in use.graphs : CallResume(Starter, g)
         \/ stream_resume_scheduler(Starter)
  PROVE  CalmInv'
  <1> USE Setting, UseFacts, SteadyGraph
      DEF CalmType, AtomicWait, Dataflow, HasDataflow
  <1>0. PcType
    OBVIOUS
  <1>1. ASSUME NEW g \in use.graphs, CallResume(Starter, g)
        PROVE  CalmInv'
    <2>1. /\ PcType' /\ AppPc = "idle" /\ AppPc' = "resumeQueue"
          /\ StreamPc' = StreamPc /\ EventPc' = EventPc
      BY <1>0, <1>1, AppMoves DEF CallResume, AppLabels, CallLabels
    <2>2. view # "stopped"
      BY <1>1 DEF CallResume
    <2>3. Steady /\ PhaseInv /\ view = "paused"
      <3>1. ~runtime_stop_requested
        BY <2>1, <2>2 DEF StopLabels
      <3> QED
        BY <1>1, <2>2, <3>1 DEF CallResume
    <2>4. /\ ctx' \in [Threads -> use.graphs] /\ ctx'[Starter] = g
          /\ ctx'[StreamThread] = ctx[StreamThread]
          /\ ctx'[EventThread] = ctx[EventThread]
      BY <1>1 DEF CallResume
    <2>5. nb' \in [fault : Nat, call : Nat, start : Nat] /\ nb'.start = nb.start
      BY <1>1 DEF CallResume, Counted
    <2>6. CalmType'
      BY <1>1, <2>1, <2>4, <2>5 DEF CallResume
    <2>7. FoundInv' /\ LifeInv'
      BY <1>1, <2>1, <2>3, <2>5 DEF CallResume, RestLabels, StopLabels,
         CallLabels
    <2>8. (Steady => PhaseInv)'
      BY <1>1, <2>1, <2>3, <2>4 DEF CallResume, CallLabels
    <2> QED
      BY <2>1, <2>6, <2>7, <2>8
  <1>2. CASE ResumeQueue(Starter)
    <2>1. /\ PcType' /\ AppPc = "resumeQueue" /\ AppPc' = "resumePost"
          /\ StreamPc' = StreamPc /\ EventPc' = EventPc
      BY <1>0, <1>2, AppMoves DEF ResumeQueue, AppLabels, CallLabels
    <2>2. Steady /\ PhaseInv /\ ~AtRest
      BY <2>1, CallIsSteady DEF CallLabels
    <2>3. /\ ctx[Starter] = current_context /\ current_context \in Graphs
          /\ queue[current_context] \in QueueFlags
          /\ ~queue[current_context].mustEnd
      BY <2>1, <2>2
    <2>4. [queue[current_context] EXCEPT !.mustPause = FALSE, !.error = FALSE]
            = FreshQueue
      BY <2>3, QueueReopens
    <2>5. queue' = [queue EXCEPT ![current_context] = FreshQueue]
      BY <1>2, <2>3, <2>4 DEF ResumeQueue, SetQueue
    <2>6. FreshQueue \in QueueFlags /\ ~FreshQueue.mustEnd
      BY DEF QueueFlags, FreshQueue
    <2>7. CalmType'
      BY <1>2, <2>1, <2>5, <2>6 DEF ResumeQueue
    <2>8. FoundInv' /\ LifeInv'
      BY <1>2, <2>1, <2>2 DEF ResumeQueue, RestLabels, StopLabels, CallLabels
    <2>9. (Steady => PhaseInv)'
      BY <1>2, <2>1, <2>2, <2>3, <2>5, <2>6 DEF ResumeQueue, CallLabels
    <2> QED
      BY <2>1, <2>7, <2>8, <2>9
  <1>3. CASE ResumePost(Starter)
    <2>1. /\ PcType' /\ AppPc = "resumePost" /\ AppPc' = "resumeWaitStream"
          /\ StreamPc' = StreamPc /\ EventPc' = EventPc
      BY <1>0, <1>3, AppMoves
         DEF ResumePost, PostRequest, AppLabels, CallLabels,
             RestLabels
    <2>2. Steady /\ PhaseInv /\ ~AtRest
      BY <2>1, CallIsSteady DEF CallLabels
    <2>3. CalmType'
      BY <1>3, <2>1, <2>2 DEF ResumePost, PostRequest, Requests
    <2>4. FoundInv'
      BY <1>3, <2>1, <2>2 DEF ResumePost, PostRequest
    <2>5. LifeInv'
      BY <1>3, <2>1, <2>2
         DEF ResumePost, PostRequest, RestLabels, StopLabels, CallLabels
    <2>6. (Steady => PhaseInv)'
      BY <1>3, <2>1, <2>2 DEF ResumePost, PostRequest, CallLabels
    <2> QED
      BY <2>1, <2>3, <2>4, <2>5, <2>6
  <1>4. CASE ResumeWaitStream(Starter)
    <2>1. AwaitEither(Starter, "resumeWaitStream",
                      {"STREAM_RESUMED", "STREAM_PAUSED"},
                      "resumePostEvent", "resumeStreamFailed")
      BY <1>4 DEF ResumeWaitStream
    <2>2. AppPc = "resumeWaitStream"
      BY <2>1 DEF AwaitEither, Sees, Goto, AppPc
    <2>3. Steady /\ PhaseInv /\ ~AtRest
      BY <2>2, CallIsSteady DEF CallLabels
    <2>4. /\ {"STREAM_RESUMED", "STREAM_PAUSED"} \cap replyEvent
              \subseteq {"STREAM_RESUMED"}
          /\ found[Starter] \subseteq {"STREAM_RESUMED"} \cap replyEvent
      BY <2>2, <2>3
    <2>5. /\ PcType' /\ "STREAM_RESUMED" \in replyEvent
          /\ StreamPc' = StreamPc /\ EventPc' = EventPc
          /\ found' \in [Threads -> SUBSET (Requests \cup Replies)]
          /\ found'[EventThread] = found[EventThread]
          /\ found'[StreamThread] = found[StreamThread]
          /\ UNCHANGED <<streamEvent, shared, locals, seen>>
          /\ \/ /\ ~AtomicWait /\ AppPc' = "resumeWaitStream"
                /\ found'[Starter] = {"STREAM_RESUMED"}
                /\ replyEvent' = replyEvent
             \/ /\ AppPc' = "resumePostEvent" /\ found'[Starter] = {}
                /\ replyEvent' = replyEvent \ {"STREAM_RESUMED"}
      <3>1. "STREAM_RESUMED" \in Replies \ Failures
        BY DEF Replies, Failures
      <3>2. /\ "resumeWaitStream" \in CallLabels
            /\ "resumePostEvent" \in CallLabels
        BY DEF CallLabels
      <3> QED
        BY <2>1, <2>4, <3>1, <3>2, AppWaits
    <2>6. CalmType'
      BY <2>5
    <2>7. FoundInv'
      BY <2>2, <2>5
    <2>8. LifeInv'
      BY <2>2, <2>3, <2>5 DEF RestLabels, StopLabels, CallLabels
    <2>9. (Steady => PhaseInv)'
      <3>1. CASE AppPc' = "resumeWaitStream"
        BY <2>2, <2>3, <2>5, <3>1
      <3>2. CASE AppPc' = "resumePostEvent"
        BY <2>2, <2>3, <2>5, <3>2 DEF CallLabels
      <3> QED
        BY <2>5, <3>1, <3>2
    <2> QED
      BY <2>2, <2>5, <2>6, <2>7, <2>8, <2>9
  <1>5. CASE ResumePostEvent(Starter)
    <2>1. /\ PcType' /\ AppPc = "resumePostEvent" /\ AppPc' = "resumeWaitEvent"
          /\ StreamPc' = StreamPc /\ EventPc' = EventPc
      BY <1>0, <1>5, AppMoves
         DEF ResumePostEvent, PostRequest, AppLabels, CallLabels,
             RestLabels
    <2>2. Steady /\ PhaseInv /\ ~AtRest
      BY <2>1, CallIsSteady DEF CallLabels
    <2>3. CalmType'
      BY <1>5, <2>1, <2>2 DEF ResumePostEvent, PostRequest, Requests
    <2>4. FoundInv'
      BY <1>5, <2>1, <2>2 DEF ResumePostEvent, PostRequest
    <2>5. LifeInv'
      BY <1>5, <2>1, <2>2
         DEF ResumePostEvent, PostRequest, RestLabels, StopLabels, CallLabels
    <2>6. (Steady => PhaseInv)'
      BY <1>5, <2>1, <2>2 DEF ResumePostEvent, PostRequest, CallLabels
    <2> QED
      BY <2>1, <2>3, <2>4, <2>5, <2>6
  <1>6. CASE ResumeWaitEvent(Starter)
    <2>1. AwaitEither(Starter, "resumeWaitEvent",
                      {"EVENT_RESUMED", "EVENT_PAUSED"},
                      "resumeClear", "resumeEventFailed")
      BY <1>6 DEF ResumeWaitEvent
    <2>2. AppPc = "resumeWaitEvent"
      BY <2>1 DEF AwaitEither, Sees, Goto, AppPc
    <2>3. Steady /\ PhaseInv /\ ~AtRest
      BY <2>2, CallIsSteady DEF CallLabels
    <2>4. /\ {"EVENT_RESUMED", "EVENT_PAUSED"} \cap replyEvent
              \subseteq {"EVENT_RESUMED"}
          /\ found[Starter] \subseteq {"EVENT_RESUMED"} \cap replyEvent
      BY <2>2, <2>3
    <2>5. /\ PcType' /\ "EVENT_RESUMED" \in replyEvent
          /\ StreamPc' = StreamPc /\ EventPc' = EventPc
          /\ found' \in [Threads -> SUBSET (Requests \cup Replies)]
          /\ found'[EventThread] = found[EventThread]
          /\ found'[StreamThread] = found[StreamThread]
          /\ UNCHANGED <<streamEvent, shared, locals, seen>>
          /\ \/ /\ ~AtomicWait /\ AppPc' = "resumeWaitEvent"
                /\ found'[Starter] = {"EVENT_RESUMED"}
                /\ replyEvent' = replyEvent
             \/ /\ AppPc' = "resumeClear" /\ found'[Starter] = {}
                /\ replyEvent' = replyEvent \ {"EVENT_RESUMED"}
      <3>1. "EVENT_RESUMED" \in Replies \ Failures
        BY DEF Replies, Failures
      <3>2. /\ "resumeWaitEvent" \in CallLabels
            /\ "resumeClear" \in CallLabels
        BY DEF CallLabels
      <3> QED
        BY <2>1, <2>4, <3>1, <3>2, AppWaits
    <2>6. CalmType'
      BY <2>5
    <2>7. FoundInv'
      BY <2>2, <2>5
    <2>8. LifeInv'
      BY <2>2, <2>3, <2>5 DEF RestLabels, StopLabels, CallLabels
    <2>9. (Steady => PhaseInv)'
      <3>1. CASE AppPc' = "resumeWaitEvent"
        BY <2>2, <2>3, <2>5, <3>1
      <3>2. CASE AppPc' = "resumeClear"
        BY <2>2, <2>3, <2>5, <3>2 DEF CallLabels
      <3> QED
        BY <2>5, <3>1, <3>2
    <2> QED
      BY <2>2, <2>5, <2>6, <2>7, <2>8, <2>9
  <1>7. CASE ResumeClear(Starter)
    <2>1. /\ PcType' /\ AppPc = "resumeClear" /\ AppPc' = "idle"
          /\ StreamPc' = StreamPc /\ EventPc' = EventPc
      BY <1>0, <1>7, AppMoves
         DEF ResumeClear, Returns, AppLabels, CallLabels,
             RestLabels
    <2>2. Steady /\ PhaseInv /\ ~AtRest
      BY <2>1, CallIsSteady DEF CallLabels
    <2>3. CalmType'
      BY <1>7, <2>1, <2>2 DEF ResumeClear, Returns, Requests
    <2>4. FoundInv'
      BY <1>7, <2>1, <2>2 DEF ResumeClear, Returns
    <2>5. LifeInv'
      BY <1>7, <2>1, <2>2
         DEF ResumeClear, Returns, RestLabels, StopLabels, CallLabels
    <2>6. (Steady => PhaseInv)'
      BY <1>7, <2>1, <2>2 DEF ResumeClear, Returns, CallLabels
    <2> QED
      BY <2>1, <2>3, <2>4, <2>5, <2>6
  <1>8. CASE \/ ResumeStreamFailed(Starter) \/ ResumeEventFailed(Starter)
             \/ ResumeUndo(Starter) \/ ResumeUndoWait(Starter)
    <2>1. AppPc \in {"resumeStreamFailed", "resumeEventFailed", "resumeUndo",
                    "resumeUndoWait"}
      BY <1>8 DEF ResumeStreamFailed, ResumeEventFailed, ResumeFails,
         ResumeUndo, ResumeUndoWait, PostRequest, Sees, Returns, Goto, AppPc
    <2> QED
      BY <2>1 DEF PcType, AppLabels, RestLabels, StopLabels, CallLabels
  <1> QED
    BY <1>1, <1>2, <1>3, <1>4, <1>5, <1>6, <1>7, <1>8
       DEF stream_resume_scheduler

(* stream_start_threads().                                                  *)
LEMMA StartStep ==
  ASSUME Calm, CalmInv, CallStart \/ stream_start_threads
  PROVE  CalmInv'
  <1> USE Setting, UseFacts DEF CalmType, AtomicWait, Dataflow, HasDataflow
  <1>0. PcType
    OBVIOUS
  <1>1. CASE CallStart
    <2>1. AppPc = "idle" /\ StreamPc = "exit" /\ EventPc = "exit"
      BY <1>1 DEF CallStart, Calm, Runtime, AppPc, StreamPc, EventPc
    <2>2. /\ PcType' /\ AppPc' = "startStream" /\ StreamPc' = "exit"
          /\ EventPc' = "load"
      BY <1>0, <1>1, <2>1 DEF CallStart, PcType, AppPc, StreamPc, EventPc,
         AppLabels, EventLabels, StreamLabels, StreamThread, EventThread
    <2>3. /\ view' = "stopped" /\ reported' = {} /\ ~runtime_stop_requested'
          /\ current_context' = use.first /\ UNCHANGED <<use, ctx>>
          /\ nodesPaused' = Graphs \ {use.first}
          /\ why' = [t \in Runtime |-> "none"]
          /\ queue' = [g \in Graphs |-> FreshQueue]
      BY <1>1 DEF CallStart
    <2>4. /\ nb' \in [fault : Nat, call : Nat, start : Nat]
          /\ nb'.start = nb.start + 1 /\ nb.start < use.maxStart
      BY <1>1 DEF CallStart
    <2>5. streamEvent' = {} /\ replyEvent' = {} /\ found' = found
      <3>1. CASE FlagsSurvive
        <4>1. UNCHANGED flags
          BY <1>1, <3>1 DEF CallStart
        <4>2. nb.start = 0
          BY <2>4, <3>1 DEF FlagsSurvive
        <4> QED
          BY <4>1, <4>2
      <3>2. CASE ~FlagsSurvive
        BY <1>1, <3>2 DEF CallStart
      <3> QED
        BY <3>1, <3>2
    <2>6. \A t \in Threads : found[t] = {}
      BY <2>1
    <2>7. CalmType'
      <3>1. FreshQueue \in QueueFlags
        BY DEF FreshQueue, QueueFlags
      <3>2. /\ why' \in [Runtime -> {"none", "paused", "done"}]
            /\ why'[EventThread] = "none"
        BY <2>3 DEF Runtime
      <3>3. queue' \in [Graphs -> QueueFlags]
        BY <2>3, <3>1
      <3>4. /\ use' \in Uses /\ current_context' \in use'.graphs
            /\ ctx' \in [Threads -> use'.graphs]
            /\ nodesPaused' \subseteq Graphs
        BY <2>3
      <3>5. /\ streamEvent' \subseteq Requests /\ replyEvent' \subseteq Replies
            /\ found' \in [Threads -> SUBSET (Requests \cup Replies)]
        BY <2>5
      <3>6. /\ runtime_stop_requested' \in BOOLEAN
            /\ view' \in {"stopped", "running", "pausing", "paused", "resuming"}
        BY <1>1, <2>3 DEF CallStart
      <3> QED
        BY <2>2, <2>4, <3>2, <3>3, <3>4, <3>5, <3>6
    <2>8. FoundInv' /\ LifeInv'
      BY <2>2, <2>3, <2>4, <2>5, <2>6 DEF RestLabels, StopLabels, CallLabels
    <2>9. StartInv' /\ ~Steady'
      BY <2>2, <2>3, <2>5, <2>6
    <2> QED
      BY <2>7, <2>8, <2>9
  <1>2. CASE StartStream
    <2>1. AppPc = "startStream" /\ StartInv
      BY <1>2 DEF StartStream, AppPc
    <2>2. /\ PcType' /\ AppPc' = "idle" /\ StreamPc' = "load"
          /\ EventPc' = EventPc
      BY <1>0, <1>2, <2>1 DEF StartStream, PcType, AppPc, StreamPc, EventPc,
         AppLabels, RestLabels, StreamLabels
    <2>3. view' = "running" /\ UNCHANGED <<flags, shared, locals, reported, nb>>
      BY <1>2 DEF StartStream
    <2>4. current_context \in use.graphs /\ StreamPc = "exit"
      BY <2>1 DEF RestLabels
    <2>5. CalmType'
      BY <2>2, <2>3
    <2>6. FoundInv' /\ LifeInv'
      BY <2>1, <2>2, <2>3, <2>4 DEF RestLabels, StopLabels, CallLabels
    <2>7. (Steady => PhaseInv)'
      <3>1. \A g \in Graphs : queue[g] = FreshQueue
        BY <2>1
      <3>2. ~FreshQueue.mustEnd
        BY DEF FreshQueue
      <3> QED
        BY <2>1, <2>2, <2>3, <2>4, <3>1, <3>2
    <2> QED
      BY <2>2, <2>5, <2>6, <2>7
  <1>3. CASE StartFails
    <2>1. /\ AppPc = "startStream" /\ StartInv
          /\ UNCHANGED <<streamEvent, replyEvent, current_context, view,
                         runtime_stop_requested, nodesPaused, locals, reported>>
      BY <1>3 DEF StartFails, AppPc
    <2>2. nb' \in [fault : Nat, call : Nat, start : Nat] /\ nb'.start = nb.start
      BY <1>3 DEF StartFails, Fault
    <2>3. CASE use.platform = "posix"
      <3>1. /\ pc' = [pc EXCEPT ![Starter] = "startJoin"]
            /\ SetQueue(use.first, [queue[use.first] EXCEPT !.mustEnd = TRUE])
            /\ UNCHANGED found
        BY <1>3, <2>3 DEF StartFails
      <3>2. /\ PcType' /\ AppPc' = "startJoin" /\ StreamPc' = StreamPc
            /\ EventPc' = EventPc
        BY <1>0, <3>1 DEF PcType, AppPc, StreamPc, EventPc, AppLabels
      <3>3. queue' \in [Graphs -> QueueFlags]
        BY <3>1, QueueStores DEF SetQueue
      <3>4. queue'[current_context].mustEnd
        <4>1. use.first \in Graphs /\ current_context = use.first
          BY <2>1
        <4>2. queue'[use.first] = [queue[use.first] EXCEPT !.mustEnd = TRUE]
          BY <3>1, <4>1 DEF SetQueue
        <4>3. queue[use.first] \in QueueFlags
          BY <4>1
        <4>4. [queue[use.first] EXCEPT !.mustEnd = TRUE].mustEnd
          BY <4>3 DEF QueueFlags
        <4> QED
          BY <2>1, <4>1, <4>2, <4>4
      <3>5. CalmType' /\ FoundInv'
        BY <2>1, <2>2, <3>1, <3>2, <3>3
      <3>6. LifeInv'
        BY <2>1, <2>2, <3>1, <3>2, <3>4 DEF RestLabels, StopLabels, CallLabels
      <3> QED
        BY <2>1, <3>2, <3>5, <3>6
    <2>4. CASE use.platform # "posix"
      <3>1. /\ pc' = [pc EXCEPT ![Starter] = "startJoin",
                                ![EventThread] = "exit"]
            /\ found' = [found EXCEPT ![EventThread] = {}]
            /\ UNCHANGED queue
        BY <1>3, <2>4 DEF StartFails
      <3>2. /\ PcType' /\ AppPc' = "startJoin" /\ StreamPc' = StreamPc
            /\ EventPc' = "exit"
        BY <1>0, <3>1 DEF PcType, AppPc, StreamPc, EventPc, AppLabels,
           EventLabels, StreamLabels, StreamThread, EventThread
      <3>3. CalmType' /\ FoundInv' /\ LifeInv'
        BY <2>1, <2>2, <3>1, <3>2 DEF RestLabels, StopLabels, CallLabels
      <3> QED
        BY <2>1, <3>2, <3>3
    <2> QED
      BY <2>3, <2>4
  <1>4. CASE StartJoin
    <2>1. /\ PcType' /\ AppPc = "startJoin" /\ AppPc' = "idle"
          /\ StreamPc' = StreamPc /\ EventPc' = EventPc
      BY <1>0, <1>4, AppMoves DEF StartJoin, Forget, AppLabels, RestLabels
    <2>2. /\ EventPc = "exit" /\ view' = "stopped" /\ current_context' = NoGraph
          /\ UNCHANGED <<flags, runtime_stop_requested, queue, nodesPaused,
                         locals, reported, nb>>
      BY <1>4 DEF StartJoin, Forget, EventPc
    <2>3. StreamPc = "exit"
      BY <2>1
    <2>4. CalmType'
      BY <2>1, <2>2
    <2>5. FoundInv' /\ LifeInv'
      BY <2>1, <2>2, <2>3 DEF RestLabels, StopLabels, CallLabels
    <2> QED
      BY <2>1, <2>2, <2>4, <2>5
  <1> QED
    BY <1>1, <1>2, <1>3, <1>4 DEF stream_start_threads

(* stream_stop_threads(): no handler reports, so a runtime thread never     *)
(* calls it.                                                                *)
LEMMA StopStep ==
  ASSUME Calm, CalmInv,
         CallStop(Starter) \/ stream_stop_threads(Starter)
  PROVE  CalmInv'
  <1> USE Setting, UseFacts DEF CalmType, AtomicWait, Dataflow, HasDataflow
  <1>0. PcType
    OBVIOUS
  <1>1. CASE CallStop(Starter)
    <2>1. /\ PcType' /\ AppPc = "idle" /\ AppPc' = "stop"
          /\ StreamPc' = StreamPc /\ EventPc' = EventPc
      BY <1>0, <1>1, AppMoves DEF CallStop, Jump, AppLabels, StopLabels
    <2>2. Steady /\ PhaseInv
      BY <1>1 DEF CallStop
    <2>3. UNCHANGED <<flags, shared, locals, seen>>
      BY <1>1 DEF CallStop, Jump
    <2>4. CalmType'
      BY <2>1, <2>3
    <2>5. FoundInv' /\ LifeInv'
      BY <2>1, <2>2, <2>3 DEF RestLabels, StopLabels, CallLabels
    <2>6. (Steady => PhaseInv)'
      BY <2>1, <2>2, <2>3
    <2> QED
      BY <2>1, <2>4, <2>5, <2>6
  <1>2. CASE StopRequest(Starter)
    <2>1. /\ PcType' /\ AppPc = "stop" /\ AppPc' = "stopEnd"
          /\ StreamPc' = StreamPc /\ EventPc' = EventPc
      BY <1>0, <1>2, AppMoves
         DEF StopRequest, AppLabels, StopLabels, RestLabels
    <2>2. CalmType'
      BY <1>2, <2>1 DEF StopRequest, Requests
    <2>3. FoundInv' /\ LifeInv'
      BY <1>2, <2>1 DEF StopRequest, RestLabels, StopLabels,
         CallLabels, EventPc, StreamPc, StreamThread, EventThread
    <2>4. ~Steady'
      BY <1>2, <2>1 DEF StopRequest, CallLabels
    <2> QED
      BY <2>1, <2>2, <2>3, <2>4
  <1>3. CASE StopEnd(Starter)
    <2>1. /\ PcType' /\ AppPc = "stopEnd" /\ AppPc' = "stopPost"
          /\ StreamPc' = StreamPc /\ EventPc' = EventPc
      BY <1>0, <1>3, AppMoves DEF StopEnd, AppLabels, StopLabels
    <2>2. \A g \in Graphs :
            [queue[g] EXCEPT !.mustEnd = @ \/ g = current_context]
              \in QueueFlags
      BY QueueStores DEF QueueFlags
    <2>3. queue' \in [Graphs -> QueueFlags]
      BY <1>3, <2>2 DEF StopEnd
    <2>4. CalmType'
      BY <1>3, <2>1, <2>3 DEF StopEnd
    <2>5. FoundInv' /\ LifeInv'
      BY <1>3, <2>1 DEF StopEnd, RestLabels, StopLabels, CallLabels
    <2>6. (Steady => PhaseInv)'
      <3>1. ~Steady
        BY <2>1 DEF CallLabels
      <3> QED
        BY <1>3, <3>1 DEF StopEnd
    <2> QED
      BY <2>1, <2>4, <2>5, <2>6
  <1>4. CASE StopPost(Starter)
    <2>1. /\ PcType' /\ AppPc = "stopPost" /\ AppPc' = "stopReply"
          /\ StreamPc' = StreamPc /\ EventPc' = EventPc
      BY <1>0, <1>4, AppMoves
         DEF StopPost, PostRequest, AppLabels, StopLabels, RestLabels
    <2>2. CalmType'
      BY <1>4, <2>1 DEF StopPost, PostRequest, Requests
    <2>3. FoundInv' /\ LifeInv'
      BY <1>4, <2>1 DEF StopPost, PostRequest, RestLabels, StopLabels,
         CallLabels, EventPc, StreamPc, StreamThread, EventThread
    <2>4. ~Steady'
      <3>1. ~Steady
        BY <2>1 DEF CallLabels
      <3> QED
        BY <1>4, <3>1 DEF StopPost, PostRequest
    <2> QED
      BY <2>1, <2>2, <2>3, <2>4
  <1>5. CASE StopReply(Starter)
    <2>1. /\ PcType' /\ AppPc = "stopReply" /\ AppPc' = "joinEvent"
          /\ StreamPc' = StreamPc /\ EventPc' = EventPc
      BY <1>0, <1>5, AppMoves
         DEF StopReply, PostReply, AppLabels, StopLabels, RestLabels
    <2>2. CalmType'
      BY <1>5, <2>1 DEF StopReply, PostReply, Requests, Replies
    <2>3. FoundInv' /\ LifeInv'
      BY <1>5, <2>1 DEF StopReply, PostReply, RestLabels, StopLabels,
         CallLabels, EventPc, StreamPc, StreamThread, EventThread
    <2>4. ~Steady'
      <3>1. ~Steady
        BY <2>1 DEF CallLabels
      <3> QED
        BY <1>5, <3>1 DEF StopReply, PostReply
    <2> QED
      BY <2>1, <2>2, <2>3, <2>4
  <1>6. CASE StopJoinEvent(Starter)
    <2>1. /\ PcType' /\ AppPc = "joinEvent" /\ AppPc' = "joinStream"
          /\ StreamPc' = StreamPc /\ EventPc' = EventPc
      BY <1>0, <1>6, AppMoves
         DEF StopJoinEvent, Jump, AppLabels, StopLabels, RestLabels
    <2>2. CalmType'
      BY <1>6, <2>1 DEF StopJoinEvent, Jump, Requests
    <2>3. FoundInv' /\ LifeInv'
      BY <1>6, <2>1 DEF StopJoinEvent, Jump, RestLabels, StopLabels,
         CallLabels, EventPc, StreamPc, StreamThread, EventThread
    <2>4. ~Steady'
      <3>1. ~Steady
        BY <2>1 DEF CallLabels
      <3> QED
        BY <1>6, <3>1 DEF StopJoinEvent, Jump
    <2> QED
      BY <2>1, <2>2, <2>3, <2>4
  <1>7. CASE StopJoinStream(Starter)
    <2>1. /\ PcType' /\ AppPc = "joinStream" /\ AppPc' = "idle"
          /\ StreamPc' = StreamPc /\ EventPc' = EventPc
      BY <1>0, <1>7, AppMoves
         DEF StopJoinStream, Forget, AppLabels, RestLabels,
             Runtime
    <2>2. CalmType'
      BY <1>7, <2>1 DEF StopJoinStream, Forget, Requests
    <2>3. FoundInv' /\ LifeInv'
      BY <1>7, <2>1 DEF StopJoinStream, Forget, RestLabels, StopLabels,
         CallLabels, EventPc, StreamPc, StreamThread, EventThread
    <2>4. ~Steady'
      BY <1>7, <2>1 DEF StopJoinStream, Forget, CallLabels
    <2> QED
      BY <2>1, <2>2, <2>3, <2>4
  <1> QED
    BY <1>1, <1>2, <1>3, <1>4, <1>5, <1>6, <1>7 DEF stream_stop_threads

(* stream_wait_for_threads_end().                                           *)
LEMMA WaitStep ==
  ASSUME Calm, CalmInv,
         CallWait(Starter) \/ stream_wait_for_threads_end(Starter)
  PROVE  CalmInv'
  <1> USE Setting, UseFacts DEF CalmType, AtomicWait, Dataflow, HasDataflow
  <1>0. PcType
    OBVIOUS
  <1>1. CASE CallWait(Starter)
    <2>1. /\ PcType' /\ AppPc = "idle" /\ AppPc' = "waitJoinStream"
          /\ StreamPc' = StreamPc /\ EventPc' = EventPc
          /\ view \in {"running", "stopped"}
      BY <1>0, <1>1, AppMoves DEF CallWait, Jump, AppLabels, RestLabels
    <2>2. UNCHANGED <<flags, shared, locals, seen>>
      BY <1>1 DEF CallWait, Jump
    <2>3. CalmType'
      BY <2>1, <2>2
    <2>4. FoundInv' /\ LifeInv'
      BY <2>1, <2>2 DEF RestLabels, StopLabels, CallLabels
    <2>5. (Steady => PhaseInv)'
      BY <2>1, <2>2
    <2> QED
      BY <2>1, <2>3, <2>4, <2>5
  <1>2. CASE WaitJoinStream(Starter)
    <2>1. /\ PcType' /\ AppPc = "waitJoinStream" /\ AppPc' = "waitJoinEvent"
          /\ StreamPc' = StreamPc /\ EventPc' = EventPc
      BY <1>0, <1>2, AppMoves DEF WaitJoinStream, Jump, AppLabels, RestLabels
    <2>2. StreamPc = "exit" /\ UNCHANGED <<flags, shared, locals, seen>>
      BY <1>2 DEF WaitJoinStream, Jump, StreamPc
    <2>3. ~Steady
      BY <2>2, Whereabouts
    <2>4. CalmType'
      BY <2>1, <2>2
    <2>5. FoundInv' /\ LifeInv'
      BY <2>1, <2>2 DEF RestLabels, StopLabels, CallLabels
    <2> QED
      BY <2>1, <2>2, <2>3, <2>4, <2>5
  <1>3. CASE WaitJoinEvent(Starter)
    <2>1. /\ PcType' /\ AppPc = "waitJoinEvent" /\ AppPc' = "idle"
          /\ StreamPc' = StreamPc /\ EventPc' = EventPc
      BY <1>0, <1>3, AppMoves DEF WaitJoinEvent, Forget, AppLabels, RestLabels
    <2>2. ~Steady /\ view = "stopped"
      <3>1. ~Steady
        BY <2>1 DEF CallLabels
      <3> QED
        BY <2>1, <3>1 DEF StopLabels
    <2>3. Dead
      BY <2>1, <2>2 DEF RestLabels
    <2>4. /\ view' = "stopped" /\ current_context' = NoGraph
          /\ UNCHANGED <<flags, runtime_stop_requested, queue, nodesPaused,
                         locals, reported, nb>>
      BY <1>3 DEF WaitJoinEvent, Forget
    <2>5. CalmType'
      BY <2>1, <2>4
    <2>6. FoundInv' /\ LifeInv'
      BY <2>1, <2>3, <2>4 DEF RestLabels, StopLabels, CallLabels
    <2> QED
      BY <2>1, <2>4, <2>5, <2>6
  <1> QED
    BY <1>1, <1>2, <1>3 DEF stream_wait_for_threads_end

(* No node and no event fails in a calm use, so no runtime thread stops the *)
(* runtime.                                                                 *)
LEMMA NoFault ==
  ASSUME Calm, CalmInv
  PROVE  /\ \A f \in FaultKinds : ~StreamNodeReturns(f)
         /\ ~EventFails
         /\ \A t \in Runtime : ~stream_stop_threads(t)
  <1>1. use.faults \subseteq {"startFailure"}
    BY UseFacts
  <1>2. \A t \in Runtime : pc[t] \notin StopLabels
    BY DEF CalmType, PcType, Runtime, StreamPc, EventPc, StreamLabels,
       EventLabels, StopLabels
  <1>3. ASSUME NEW t \in Runtime, stream_stop_threads(t)
        PROVE  pc[t] \in StopLabels
    BY <1>3 DEF stream_stop_threads, StopRequest, StopEnd, StopPost, StopReply,
       StopJoinEvent, StopJoinStream, PostRequest, PostReply, Jump, Forget,
       Goto, StopLabels
  <1> QED
    BY <1>1, <1>2, <1>3 DEF StreamNodeReturns, EventFails, Fault

(* The runtime has not been started.                                        *)
LEMMA CalmAtFirst ==
  ASSUME Calm, Init
  PROVE  CalmInv
  <1>1. Starter \notin Runtime /\ StreamThread \in Runtime
        /\ EventThread \in Runtime /\ use \in Uses /\ use.first \in use.graphs
    BY ConstantsAssumption DEF Init, IsUse, Runtime
  <1>2. PcType /\ AppPc = "idle" /\ StreamPc = "exit" /\ EventPc = "exit"
    BY <1>1, Setting DEF Init, PcType, AppPc, StreamPc, EventPc, AppLabels,
       RestLabels, StreamLabels, EventLabels, Threads
  <1>3. queue \in [Graphs -> QueueFlags]
    BY DEF Init, QueueFlags, FreshQueue
  <1>4. CalmType
    BY <1>1, <1>2, <1>3 DEF Init, CalmType
  <1>5. FoundInv
    BY Setting DEF Init
  <1>6. LifeInv
    BY <1>2 DEF Init, RestLabels, StopLabels, CallLabels
  <1> QED
    BY <1>2, <1>4, <1>5, <1>6 DEF Init

(* Every step of a calm use keeps the invariant.                            *)
LEMMA CalmStep ==
  ASSUME Calm, CalmInv, [Next]_vars
  PROVE  CalmInv'
  <1>1. CASE Next
    <2>1. /\ use.pausers \subseteq {Starter} /\ use.stoppers \subseteq {Starter}
          /\ use.waiters \subseteq {Starter}
      BY UseFacts
    <2> QED
      BY <1>1, <2>1, NoFault, StreamStep, EventStep, StartStep, PauseStep,
         ResumeStep, StopStep, WaitStep DEF Next
  <1>2. CASE UNCHANGED vars
    BY <1>2 DEF vars, CalmType, PcType, AppPc, StreamPc, EventPc, AtomicWait,
       Dataflow, HasDataflow
  <1> QED
    BY <1>1, <1>2
-----------------------------------------------------------------------------
(* The invariant holds in every calm use.                                   *)
THEOREM CalmIsInvariant == ASSUME Calm PROVE Spec => []CalmInv
  <1> HIDE DEF CalmInv
  <1>1. Init => CalmInv
    BY CalmAtFirst
  <1>2. CalmInv /\ [Next]_vars => CalmInv'
    BY CalmStep
  <1> QED
    BY <1>1, <1>2, PTL DEF Spec

(* Property PauseQuiesces of run control: when the call that pauses has     *)
(* returned, both threads rest, the nodes have been paused and no request   *)
(* is left to wake a thread, whatever the order of the two handshakes.      *)
THEOREM PausesAreQuiet == ASSUME Calm PROVE Spec => []PauseQuiesces
  <1>1. CalmInv => PauseQuiesces
    <2> SUFFICES ASSUME CalmInv, view = "paused", ~runtime_stop_requested
                 PROVE  /\ EventPc = "waitResume"
                        /\ \/ StreamPc = "waitResume"
                           \/ ~HasDataflow(current_context)
                        /\ current_context \in nodesPaused
                        /\ streamEvent = {}
      BY DEF PauseQuiesces, EventPc, StreamPc
    <2>1. Steady /\ PhaseInv
      OBVIOUS
    <2>2. AtRest
      BY <2>1 DEF CallLabels
    <2>3. StreamRests /\ EventRests /\ current_context \in nodesPaused
      BY <2>1, <2>2
    <2>4. streamEvent \subseteq Requests
      BY DEF CalmType
    <2> QED
      BY <2>1, <2>3, <2>4, SteadyGraph DEF Requests
  <1> HIDE DEF CalmInv
  <1> QED
    BY <1>1, CalmIsInvariant, PTL

(* Property RunsCurrentGraph: a switch moves both threads to the new graph, *)
(* and neither runs it before its nodes have been resumed.                  *)
THEOREM SwitchMovesBoth == ASSUME Calm PROVE Spec => []RunsCurrentGraph
  <1>1. CalmInv => RunsCurrentGraph
    <2> SUFFICES ASSUME CalmInv, ~runtime_stop_requested
                 PROVE  /\ RunsNodes =>
                              /\ ctx[StreamThread] = current_context
                              /\ current_context \notin nodesPaused
                        /\ RunsHandlers =>
                              /\ ctx[EventThread] = current_context
                              /\ current_context \notin nodesPaused
      BY DEF RunsCurrentGraph
    <2>1. CASE Steady
      <3>1. /\ PhaseInv /\ current_context \in Graphs
            /\ HasDataflow(ctx[StreamThread]) <=> Dataflow
        BY <2>1, SteadyGraph, Setting
      <3>2. AtRest \/ AppPc \in CallLabels
        BY <3>1
      <3>3. ASSUME RunsNodes
            PROVE  /\ ctx[StreamThread] = current_context
                   /\ current_context \notin nodesPaused
        <4>1. Dataflow /\ StreamPc = "sched"
          BY <3>1, <3>3 DEF RunsNodes, StreamPc
        <4> QED
          BY <3>1, <3>2, <4>1 DEF CallLabels
      <3>4. ASSUME RunsHandlers
            PROVE  /\ ctx[EventThread] = current_context
                   /\ current_context \notin nodesPaused
        <4>1. EventPc = "execute" /\ ctx[EventThread] = current_context
          BY <3>1, <3>4 DEF RunsHandlers, EventPc
        <4>2. QueueOpen /\ ~queue[current_context].mustPause
          BY <3>4, <4>1 DEF RunsHandlers, FreshQueue
        <4> QED
          BY <3>1, <3>2, <4>1, <4>2 DEF CallLabels
      <3> QED
        BY <3>3, <3>4
    <2>2. CASE ~Steady
      <3>1. view = "stopped"
        BY <2>2
      <3>2. AppPc \in RestLabels \/ AppPc \in {"startStream", "startJoin"}
        BY <3>1 DEF CalmType, PcType, AppLabels
      <3>3. StreamPc = "exit"
        BY <3>1, <3>2
      <3>4. ASSUME RunsHandlers
            PROVE  AppPc = "startStream" /\ EventPc = "execute"
        <4>1. EventPc = "execute" /\ ~queue[ctx[EventThread]].mustEnd
          BY <3>4 DEF RunsHandlers, EventPc, FreshQueue
        <4>2. AppPc \in {"startStream", "startJoin"}
          BY <3>1, <3>2, <4>1
        <4> QED
          BY <4>1, <4>2
      <3> QED
        BY <3>3, <3>4 DEF RunsNodes, StreamPc
    <2> QED
      BY <2>1, <2>2
  <1> HIDE DEF CalmInv
  <1> QED
    BY <1>1, CalmIsInvariant, PTL

(* Property ContextAlive: no thread reads the context when it is null.      *)
THEOREM ContextIsThere == ASSUME Calm PROVE Spec => []ContextAlive
  <1>1. ASSUME CalmInv PROVE ContextAlive
    <2>1. use.pausers \subseteq {Starter}
      BY <1>1, UseFacts
    <2>2. current_context = NoGraph =>
            /\ StreamPc = "exit" /\ EventPc = "exit" /\ AppPc # "pauseClear"
      BY <1>1 DEF RestLabels
    <2> QED
      BY <2>1, <2>2 DEF ContextAlive, Runtime, AppPc, StreamPc, EventPc
  <1>2. CalmInv => ContextAlive
    BY <1>1
  <1> HIDE DEF CalmInv
  <1> QED
    BY <1>2, CalmIsInvariant, PTL

(* Property ResumeSucceeds: an acknowledgment of an earlier pause is never  *)
(* taken for the failure of a resumption.                                   *)
THEOREM ResumptionsSucceed == ASSUME Calm PROVE Spec => []ResumeSucceeds
  <1>1. CalmInv => ResumeSucceeds
    BY DEF CalmType, ResumeSucceeds
  <1> HIDE DEF CalmInv
  <1> QED
    BY <1>1, CalmIsInvariant, PTL
-----------------------------------------------------------------------------
HIDE DEF CalmInv, Steady, PhaseInv, FoundIsSet, ContextInv, AtRest, StreamRuns,
         StreamRests, StreamPausing, StreamResuming, NoStreamFlag, Going,
         Entering, EventRuns, EventRests, EventPausing, EventResuming,
         NoEventFlag, QueueOpen, LifeInv, Dead, FoundInv, StartInv

(* Nobody pauses or resumes; nodes and events may fail as they like, any     *)
(* number of threads stops and waits, and the error handler may stop the    *)
(* runtime itself.  On posix, where the flags outlive a stop, the runtime is *)
(* started once.                                                            *)
UnpausedUse(u) == u.pausers = {} /\ (u.platform = "posix" => u.maxStart <= 1)

Unpaused == \A u \in Uses : UnpausedUse(u)

StoppingLabels == {"stopEnd", "stopPost", "stopReply", "joinEvent",
                   "joinStream"}

QueueType == [mustPause : BOOLEAN, mustEnd : BOOLEAN, error : BOOLEAN]

ErrorType ==
  /\ use \in Uses
  /\ DOMAIN pc = Threads
  /\ ctx \in [Threads -> Graphs \cup {NoGraph}]
  /\ current_context \in Graphs \cup {NoGraph}
  /\ runtime_stop_requested \in BOOLEAN
  /\ streamEvent \subseteq Requests /\ replyEvent \subseteq Replies
  /\ found \in [Threads -> SUBSET (Requests \cup Replies)]
  /\ queue \in [Graphs -> QueueType]
  /\ DOMAIN why = Runtime
  /\ nb \in [fault : Nat, call : Nat, start : Nat]

(* What k_event_wait() has returned waits for the step that follows it.     *)
FoundKept ==
  /\ found[StreamThread] # {} => StreamPc \in {"sched", "waitEvent"}
  /\ found[StreamThread] # {} /\ StreamPc = "sched" =>
       HasDataflow(ctx[StreamThread]) /\ found[StreamThread] \subseteq Polled
  /\ StreamPc = "waitEvent" => found[StreamThread] \subseteq {"EVENT_PAUSED"}
  /\ found[EventThread] # {} => EventPc \in {"waitStream", "waitResume"}
  /\ EventPc = "waitResume" => found[EventThread] \subseteq {"EVENT_RESUME"}

(* When the runtime is being stopped or started.                            *)
StopsKnown ==
  \A t \in Threads : pc[t] \in StoppingLabels => runtime_stop_requested

LifeKnown ==
  /\ AppPc \in {"startStream", "startJoin"} => StreamPc = "exit"
  /\ nb.start = 0 =>
       /\ streamEvent = {} /\ replyEvent = {} /\ view = "stopped"
       /\ StreamPc = "exit" /\ EventPc = "exit"
       /\ \A a \in Applications : pc[a] \in RestLabels

(* Until it is stopped: a thread is in one of these places, on the first     *)
(* graph, ...                                                               *)
Places ==
  /\ EventPc \in {"exit", "load", "execute", "returned", "pausePeer",
                  "waitStream", "paused", "report", "stop", "afterReport",
                  "ack", "waitResume"}
  /\ StreamPc \in {"exit", "load", "sched", "pauseQueue", "pauseNodes",
                   "waitEvent", "report", "stop", "afterReport", "ack",
                   "waitResume"}
  /\ EventPc # "exit" => current_context = use.first
  /\ EventPc \notin {"exit", "load"} => ctx[EventThread] = use.first
  /\ StreamPc \notin {"exit", "load"} => ctx[StreamThread] = use.first
  /\ StreamPc # "exit" \/ AppPc = "startStream" =>
       EventPc # "exit" /\ ~queue[use.first].mustEnd

(* and an acknowledgment, or a report that follows from it, means that the   *)
(* other thread rests.                                                      *)
Acknowledged ==
  /\ streamEvent \subseteq {"STREAM_PAUSE"} /\ replyEvent \subseteq Failures
  /\ "EVENT_PAUSED" \in replyEvent \cup found[StreamThread] =>
       EventPc \in {"waitResume", "exit"}
  /\ "STREAM_PAUSED" \in replyEvent \cup found[EventThread] =>
       StreamPc = "waitResume"
  /\ EventPc = "waitStream" => found[EventThread] \subseteq {"STREAM_PAUSED"}
  /\ EventPc = "waitResume" => found[EventThread] = {}
  /\ StreamPc = "report" => EventPc = "waitResume"
  /\ HasDataflow(use.first)
       /\ (EventPc = "report"
             \/ (EventPc = "paused" /\ why[EventThread] = "eventError"))
       => StreamPc = "waitResume"

ErrorInv ==
  /\ ErrorType /\ FoundKept /\ StopsKnown /\ LifeKnown
  /\ ~runtime_stop_requested => Places /\ Acknowledged
-----------------------------------------------------------------------------
(* What the assumptions say of the use that was chosen.                     *)
LEMMA UnpausedFacts ==
  ASSUME Unpaused, use \in Uses
  PROVE  /\ use.pausers = {}
         /\ use.stoppers \cup use.waiters \subseteq Applications
         /\ use.first \in Graphs /\ use.maxStart \in Nat
         /\ use.platform = "posix" => use.maxStart <= 1
         /\ NoGraph \notin Graphs /\ Starter \in Applications
         /\ Starter # StreamThread /\ Starter # EventThread
         /\ StreamThread \notin Applications /\ EventThread \notin Applications
         /\ Threads = Applications \cup {StreamThread, EventThread}
  BY ConstantsAssumption
     DEF Unpaused, UnpausedUse, IsUse, Threads, Runtime, StreamThread,
         EventThread

(* What a step does to the places of the three.                             *)
LEMMA StreamGoes ==
  ASSUME Unpaused, use \in Uses, DOMAIN pc = Threads,
         NEW l, NEW m, Goto(StreamThread, l, m)
  PROVE  /\ DOMAIN pc' = Threads /\ StreamPc = l /\ StreamPc' = m
         /\ AppPc' = AppPc /\ EventPc' = EventPc
         /\ \A b \in Applications : pc'[b] = pc[b]
         /\ \/ m \in StoppingLabels \/ ~StopsKnown
            \/ runtime_stop_requested' # runtime_stop_requested
            \/ StopsKnown'
  BY UnpausedFacts DEF StopsKnown, AppPc, StreamPc, EventPc, Goto, StreamThread,
     EventThread

(* The same for a step of the event thread, ...                             *)
LEMMA EventGoes ==
  ASSUME Unpaused, use \in Uses, DOMAIN pc = Threads,
         NEW l, NEW m, Goto(EventThread, l, m)
  PROVE  /\ DOMAIN pc' = Threads /\ EventPc = l /\ EventPc' = m
         /\ AppPc' = AppPc /\ StreamPc' = StreamPc
         /\ \A b \in Applications : pc'[b] = pc[b]
         /\ \/ m \in StoppingLabels \/ ~StopsKnown
            \/ runtime_stop_requested' # runtime_stop_requested
            \/ StopsKnown'
  BY UnpausedFacts DEF StopsKnown, AppPc, StreamPc, EventPc, Goto, StreamThread,
     EventThread

(* and for one of the application.                                          *)
LEMMA AppGoes ==
  ASSUME Unpaused, use \in Uses, DOMAIN pc = Threads,
         NEW a \in Applications, NEW l, NEW m, Goto(a, l, m)
  PROVE  /\ DOMAIN pc' = Threads /\ pc[a] = l /\ pc'[a] = m
         /\ EventPc' = EventPc /\ StreamPc' = StreamPc
         /\ AppPc' = IF a = Starter THEN m ELSE AppPc
         /\ \A b \in Applications \ {a} : pc'[b] = pc[b]
         /\ \/ m \in StoppingLabels \/ ~StopsKnown
            \/ runtime_stop_requested' # runtime_stop_requested
            \/ StopsKnown'
  BY UnpausedFacts DEF StopsKnown, AppPc, StreamPc, EventPc, Goto

(* A wait of a runtime thread: it sees what it waits for, or it goes on.    *)
LEMMA WaitsFor ==
  ASSUME found \in [Threads -> SUBSET (Requests \cup Replies)],
         NEW t \in Threads, NEW l, NEW m,
         NEW f \in SUBSET Replies, AwaitReply(t, l, f, m)
  PROVE  /\ UNCHANGED <<streamEvent, shared, locals, seen>>
         /\ found' \in [Threads -> SUBSET (Requests \cup Replies)]
         /\ \A u \in Threads \ {t} : found'[u] = found[u]
         /\ \/ /\ pc[t] = l /\ pc' = pc /\ replyEvent' = replyEvent
               /\ found'[t] = f \cap replyEvent
            \/ /\ Goto(t, l, m) /\ found'[t] = {}
               /\ replyEvent' \subseteq replyEvent
               /\ found[t] # {} \/ f \cap replyEvent # {}
  BY DEF AwaitReply, AwaitEither, Sees, EndsWait, Result, Cleared

(* A flag of a queue is set.                                                *)
LEMMA QueueKeeps ==
  ASSUME NEW q \in QueueType, NEW b \in BOOLEAN
  PROVE  /\ [q EXCEPT !.mustPause = b] \in QueueType
         /\ [q EXCEPT !.mustPause = b].mustEnd = q.mustEnd
         /\ [q EXCEPT !.error = b] \in QueueType
         /\ [q EXCEPT !.error = b].mustEnd = q.mustEnd
         /\ [q EXCEPT !.mustEnd = b] \in QueueType
         /\ [q EXCEPT !.error = TRUE, !.mustPause = TRUE] \in QueueType
         /\ [q EXCEPT !.error = TRUE, !.mustPause = TRUE].mustEnd = q.mustEnd
  BY DEF QueueType

(* Only the flags of a queue change that do not end it.                     *)
LEMMA QueueStays ==
  ASSUME queue \in [Graphs -> QueueType], NEW g,
         NEW q, g \in Graphs => q \in QueueType /\ q.mustEnd = queue[g].mustEnd,
         SetQueue(g, q)
  PROVE  /\ queue' \in [Graphs -> QueueType]
         /\ \A h \in Graphs : queue'[h].mustEnd = queue[h].mustEnd
  BY DEF SetQueue

USE DEF ErrorType, FoundKept, LifeKnown, Places, Acknowledged

(* The stream thread.                                                       *)
LEMMA ErrorStreamStep ==
  ASSUME Unpaused, ErrorInv, stream_thread_function
  PROVE  ErrorInv'
  <1> USE UnpausedFacts DEF ErrorInv, HasDataflow, Polled
  <1>0. use \in Uses /\ DOMAIN pc = Threads
    OBVIOUS
  <1>1. CASE StreamLoad
    <2>1. /\ DOMAIN pc' = Threads /\ StreamPc = "load"
          /\ StreamPc' = "sched" /\ AppPc' = AppPc /\ EventPc' = EventPc
          /\ \A a \in Applications : pc'[a] = pc[a] /\ StopsKnown'
      BY <1>0, <1>1, StreamGoes DEF StreamLoad, LoadContext, StoppingLabels
    <2>2. ErrorType'
      BY <1>1, <2>1 DEF StreamLoad, LoadContext
    <2>3. FoundKept' /\ LifeKnown'
      BY <1>1, <2>1 DEF StreamLoad, LoadContext
    <2>4. (~runtime_stop_requested => Places /\ Acknowledged)'
      BY <1>1, <2>1 DEF StreamLoad, LoadContext
    <2> QED
      BY <2>1, <2>2, <2>3, <2>4
  <1>2. CASE StreamNoDataflow
    <2>1. /\ DOMAIN pc' = Threads /\ StreamPc = "sched"
          /\ StreamPc' = "waitResume" /\ AppPc' = AppPc /\ EventPc' = EventPc
          /\ \A a \in Applications : pc'[a] = pc[a] /\ StopsKnown'
      BY <1>0, <1>2, StreamGoes DEF StreamNoDataflow, Jump, StoppingLabels
    <2>2. ErrorType'
      BY <1>2, <2>1 DEF StreamNoDataflow, Jump
    <2>3. FoundKept' /\ LifeKnown'
      BY <1>2, <2>1 DEF StreamNoDataflow, Jump
    <2>4. (~runtime_stop_requested => Places /\ Acknowledged)'
      BY <1>2, <2>1 DEF StreamNoDataflow, Jump
    <2> QED
      BY <2>1, <2>2, <2>3, <2>4
  <1>3. CASE StreamPoll
    <2>1. CASE /\ HasDataflow(ctx[StreamThread])
               /\ Sees(StreamThread, "sched", Polled)
      <3>1. /\ StreamPc = "sched" /\ HasDataflow(ctx[StreamThread])
            /\ found' = [found EXCEPT ![StreamThread] = Polled]
            /\ UNCHANGED <<pc, streamEvent, replyEvent, shared, locals, seen>>
        BY <2>1 DEF Sees, StreamPc
      <3>2. /\ found' \in [Threads -> SUBSET (Requests \cup Replies)]
            /\ found'[StreamThread] = Polled
            /\ found'[EventThread] = found[EventThread]
        BY <3>1 DEF Requests, StreamThread, EventThread
      <3>3. UNCHANGED <<StreamPc, EventPc, AppPc>>
        BY <3>1 DEF StreamPc, EventPc, AppPc
      <3>4. StopsKnown'
        BY <3>1 DEF StopsKnown
      <3> QED
        BY <3>1, <3>2, <3>3, <3>4
    <2>2. CASE ~(/\ HasDataflow(ctx[StreamThread])
                 /\ Sees(StreamThread, "sched", Polled))
      <3>1. /\ found' = [found EXCEPT ![StreamThread] = {}]
            /\ streamEvent' \subseteq streamEvent
            /\ UNCHANGED <<replyEvent, shared, ctx, use, view, reported, nb>>
            /\ \E reason : why' = [why EXCEPT ![StreamThread] = reason]
        BY <1>3, <2>2 DEF StreamPoll, EndsWait, SchedulerReturns
      <3>2. PICK m \in {"pauseQueue", "pauseNodes"} :
              Goto(StreamThread, "sched", m)
        BY <1>3, <2>2 DEF StreamPoll, SchedulerReturns
      <3>3. /\ DOMAIN pc' = Threads /\ StreamPc = "sched"
            /\ StreamPc' = m /\ AppPc' = AppPc /\ EventPc' = EventPc
            /\ \A a \in Applications : pc'[a] = pc[a] /\ StopsKnown'
        BY <1>0, <1>3, <2>2, <3>2, StreamGoes
           DEF StreamPoll, SchedulerReturns, StoppingLabels
      <3>4. /\ found' \in [Threads -> SUBSET (Requests \cup Replies)]
            /\ found'[StreamThread] = {}
            /\ found'[EventThread] = found[EventThread]
        BY <3>1 DEF StreamThread, EventThread
      <3>5. DOMAIN why' = Runtime /\ why'[EventThread] = why[EventThread]
        BY <3>1 DEF StreamThread, EventThread
      <3>6. ErrorType'
        BY <3>1, <3>3, <3>4, <3>5
      <3>7. FoundKept' /\ LifeKnown'
        BY <3>1, <3>2, <3>3, <3>4
      <3>8. (~runtime_stop_requested => Places /\ Acknowledged)'
        BY <3>1, <3>2, <3>3, <3>4, <3>5
      <3> QED
        BY <3>3, <3>6, <3>7, <3>8
    <2> QED
      BY <2>1, <2>2
  <1>4. CASE StreamPauseQueue
    <2>1. /\ DOMAIN pc' = Threads /\ StreamPc = "pauseQueue"
          /\ StreamPc' = "pauseNodes" /\ AppPc' = AppPc /\ EventPc' = EventPc
          /\ \A a \in Applications : pc'[a] = pc[a] /\ StopsKnown'
      BY <1>0, <1>4, StreamGoes DEF StreamPauseQueue, PauseQueue, StoppingLabels
    <2>2. /\ queue' \in [Graphs -> QueueType]
          /\ \A h \in Graphs : queue'[h].mustEnd = queue[h].mustEnd
      <3>1. PICK g :
              /\ g = ctx[StreamThread]
              /\ SetQueue(g, [queue[g] EXCEPT !.mustPause = TRUE])
        BY <1>4 DEF StreamPauseQueue, PauseQueue
      <3> DEFINE q == [queue[g] EXCEPT !.mustPause = TRUE]
      <3>2. g \in Graphs => q \in QueueType /\ q.mustEnd = queue[g].mustEnd
        BY QueueKeeps DEF ErrorInv
      <3>3. SetQueue(g, q)
        BY <3>1
      <3> HIDE DEF q
      <3> QED
        BY <3>2, <3>3, QueueStays DEF ErrorInv
    <2>3. UNCHANGED <<flags, current_context, runtime_stop_requested, locals,
                      seen>>
      BY <1>4 DEF StreamPauseQueue, PauseQueue
    <2>4. ErrorType' /\ FoundKept' /\ LifeKnown'
      BY <2>1, <2>2, <2>3
    <2>5. (~runtime_stop_requested => Places /\ Acknowledged)'
      BY <2>1, <2>2, <2>3
    <2> QED
      BY <2>1, <2>2, <2>4, <2>5
  <1>5. CASE StreamPauseNodes
    <2>1. PICK m \in {"ack", "waitEvent"} : Goto(StreamThread, "pauseNodes", m)
      BY <1>5 DEF StreamPauseNodes, PauseNodes
    <2>2. /\ DOMAIN pc' = Threads /\ StreamPc = "pauseNodes"
          /\ StreamPc' = m /\ AppPc' = AppPc /\ EventPc' = EventPc
          /\ \A a \in Applications : pc'[a] = pc[a] /\ StopsKnown'
      BY <1>0, <1>5, <2>1, StreamGoes
         DEF StreamPauseNodes, PauseNodes, StoppingLabels
    <2>3. UNCHANGED <<flags, current_context, runtime_stop_requested, queue,
                      locals, seen>>
      BY <1>5 DEF StreamPauseNodes, PauseNodes
    <2>4. ErrorType' /\ FoundKept' /\ LifeKnown'
      BY <2>1, <2>2, <2>3
    <2>5. (~runtime_stop_requested => Places /\ Acknowledged)'
      BY <2>1, <2>2, <2>3
    <2> QED
      BY <2>1, <2>2, <2>4, <2>5
  <1>6. CASE StreamWaitEvent
    <2>1. AwaitReply(StreamThread, "waitEvent", {"EVENT_PAUSED"}, "report")
      BY <1>6 DEF StreamWaitEvent
    <2>2. /\ UNCHANGED <<streamEvent, shared, locals, seen>>
          /\ found' \in [Threads -> SUBSET (Requests \cup Replies)]
          /\ found'[EventThread] = found[EventThread]
          /\ \/ /\ StreamPc = "waitEvent" /\ pc' = pc
                /\ replyEvent' = replyEvent
                /\ found'[StreamThread] = {"EVENT_PAUSED"} \cap replyEvent
             \/ /\ Goto(StreamThread, "waitEvent", "report")
                /\ found'[StreamThread] = {} /\ replyEvent' \subseteq replyEvent
                /\ \/ found[StreamThread] # {}
                   \/ {"EVENT_PAUSED"} \cap replyEvent # {}
      BY <2>1, WaitsFor DEF Replies, StreamPc, StreamThread, EventThread
    <2>3. CASE StreamPc = "waitEvent" /\ pc' = pc /\ replyEvent' = replyEvent
               /\ found'[StreamThread] = {"EVENT_PAUSED"} \cap replyEvent
      <3>1. UNCHANGED <<StreamPc, EventPc, AppPc>>
        BY <2>3 DEF StreamPc, EventPc, AppPc
      <3>2. StopsKnown'
        BY <2>2, <2>3 DEF StopsKnown
      <3> QED
        BY <2>2, <2>3, <3>1, <3>2
    <2>4. CASE /\ Goto(StreamThread, "waitEvent", "report")
               /\ found'[StreamThread] = {} /\ replyEvent' \subseteq replyEvent
               /\ \/ found[StreamThread] # {}
                  \/ {"EVENT_PAUSED"} \cap replyEvent # {}
      <3>1. /\ DOMAIN pc' = Threads /\ StreamPc = "waitEvent"
            /\ StreamPc' = "report" /\ AppPc' = AppPc /\ EventPc' = EventPc
            /\ \A a \in Applications : pc'[a] = pc[a] /\ StopsKnown'
        BY <1>0, <2>2, <2>4, StreamGoes DEF StoppingLabels
      <3>2. "EVENT_PAUSED" \in replyEvent \cup found[StreamThread]
        BY <2>4, <3>1
      <3>3. ErrorType' /\ FoundKept' /\ LifeKnown'
        BY <2>2, <2>4, <3>1
      <3>4. (~runtime_stop_requested => Places /\ Acknowledged)'
        BY <2>2, <2>4, <3>1, <3>2
      <3> QED
        BY <3>1, <3>3, <3>4
    <2> QED
      BY <2>1, <2>2, <2>3, <2>4
  <1>7. CASE StreamReport
    <2>1. PICK m \in {"stop", "afterReport"} : Goto(StreamThread, "report", m)
      BY <1>7 DEF StreamReport, Report
    <2>2. /\ DOMAIN pc' = Threads /\ StreamPc = "report"
          /\ StreamPc' = m /\ AppPc' = AppPc /\ EventPc' = EventPc
          /\ \A a \in Applications : pc'[a] = pc[a] /\ StopsKnown'
      BY <1>0, <1>7, <2>1, StreamGoes DEF StreamReport, Report, StoppingLabels
    <2>3. UNCHANGED <<flags, shared, locals, view, nb>>
      BY <1>7 DEF StreamReport, Report
    <2>4. ErrorType' /\ FoundKept' /\ LifeKnown'
      BY <2>1, <2>2, <2>3
    <2>5. (~runtime_stop_requested => Places /\ Acknowledged)'
      BY <2>1, <2>2, <2>3
    <2> QED
      BY <2>1, <2>2, <2>4, <2>5
  <1>8. CASE StreamAfterReport
    <2>1. /\ DOMAIN pc' = Threads /\ StreamPc = "afterReport"
          /\ StreamPc' = IF runtime_stop_requested THEN "exit" ELSE "ack"
          /\ AppPc' = AppPc /\ EventPc' = EventPc
          /\ \A a \in Applications : pc'[a] = pc[a] /\ StopsKnown'
      BY <1>0, <1>8, StreamGoes DEF StreamAfterReport, Jump, StoppingLabels
    <2>2. UNCHANGED <<flags, shared, locals, seen>>
      BY <1>8 DEF StreamAfterReport, Jump
    <2>3. ErrorType' /\ FoundKept' /\ LifeKnown'
      BY <2>1, <2>2
    <2>4. (~runtime_stop_requested => Places /\ Acknowledged)'
      BY <2>1, <2>2
    <2> QED
      BY <2>1, <2>3, <2>4
  <1>9. CASE StreamAck
    <2>1. /\ DOMAIN pc' = Threads /\ StreamPc = "ack"
          /\ StreamPc' = "waitResume" /\ AppPc' = AppPc /\ EventPc' = EventPc
          /\ \A a \in Applications : pc'[a] = pc[a] /\ StopsKnown'
      BY <1>0, <1>9, StreamGoes DEF StreamAck, PostReply, StoppingLabels
    <2>2. /\ replyEvent' = replyEvent \cup {"STREAM_PAUSED"}
          /\ UNCHANGED <<streamEvent, found, shared, locals, seen>>
      BY <1>9 DEF StreamAck, PostReply
    <2>3. ErrorType' /\ FoundKept' /\ LifeKnown'
      BY <2>1, <2>2 DEF Replies
    <2>4. (~runtime_stop_requested => Places /\ Acknowledged)'
      BY <2>1, <2>2 DEF Failures
    <2> QED
      BY <2>1, <2>3, <2>4
  <1>10. CASE StreamWaitResume
    <2>1. /\ Goto(StreamThread, "waitResume", "resume")
          /\ "STREAM_RESUME" \in streamEvent
          /\ streamEvent' \subseteq streamEvent
          /\ streamEvent \ streamEvent' \subseteq {"STREAM_RESUME"}
          /\ UNCHANGED <<replyEvent, shared, locals, seen>>
          /\ found' = found \/ found' = [found EXCEPT ![StreamThread] = {}]
      BY <1>10 DEF StreamWaitResume, AwaitRequest, Sees, EndsWait, Result, Jump
    <2>2. /\ DOMAIN pc' = Threads /\ StreamPc = "waitResume"
          /\ StreamPc' = "resume" /\ AppPc' = AppPc /\ EventPc' = EventPc
          /\ \A a \in Applications : pc'[a] = pc[a] /\ StopsKnown'
      BY <1>0, <2>1, StreamGoes DEF StoppingLabels
    <2>3. /\ found' \in [Threads -> SUBSET (Requests \cup Replies)]
          /\ found'[EventThread] = found[EventThread]
          /\ found'[StreamThread] \in {found[StreamThread], {}}
      BY <2>1 DEF StreamThread, EventThread
    <2>4. runtime_stop_requested
      BY <2>1
    <2>5. ErrorType' /\ FoundKept' /\ LifeKnown'
      BY <2>1, <2>2, <2>3
    <2> QED
      BY <2>1, <2>2, <2>4, <2>5
  <1>11. CASE StreamLooksAtStop
    <2>1. /\ DOMAIN pc' = Threads /\ StreamPc = "resume"
          /\ StreamPc' = IF runtime_stop_requested THEN "exit"
                                                   ELSE "resumeNodes"
          /\ AppPc' = AppPc /\ EventPc' = EventPc
          /\ \A a \in Applications : pc'[a] = pc[a] /\ StopsKnown'
      BY <1>0, <1>11, StreamGoes DEF StreamLooksAtStop, StoppingLabels
    <2>2. /\ why' = [why EXCEPT ![StreamThread] = "none"]
          /\ UNCHANGED <<flags, shared, ctx, use, seen>>
      BY <1>11 DEF StreamLooksAtStop
    <2>3. runtime_stop_requested
      BY <2>1
    <2>4. ErrorType' /\ FoundKept' /\ LifeKnown'
      BY <2>1, <2>2
    <2> QED
      BY <2>1, <2>2, <2>3, <2>4
  <1>12. CASE StreamResume
    <2>1. /\ DOMAIN pc' = Threads /\ StreamPc = "resumeNodes"
          /\ StreamPc' = "resumeAck" /\ AppPc' = AppPc /\ EventPc' = EventPc
          /\ \A a \in Applications : pc'[a] = pc[a] /\ StopsKnown'
      BY <1>0, <1>12, StreamGoes DEF StreamResume, StoppingLabels
    <2>2. /\ streamEvent' \in {streamEvent, streamEvent \ {"STREAM_RESUME"}}
          /\ UNCHANGED <<replyEvent, found, current_context, queue,
                         runtime_stop_requested, locals, seen>>
      BY <1>12 DEF StreamResume, ClearResume
    <2>3. runtime_stop_requested
      BY <2>1
    <2>4. ErrorType' /\ FoundKept' /\ LifeKnown'
      BY <2>1, <2>2
    <2> QED
      BY <2>1, <2>2, <2>3, <2>4
  <1>13. CASE StreamResumeAck
    <2>1. /\ DOMAIN pc' = Threads /\ StreamPc = "resumeAck"
          /\ StreamPc' = "afterResume" /\ AppPc' = AppPc /\ EventPc' = EventPc
          /\ \A a \in Applications : pc'[a] = pc[a] /\ StopsKnown'
      BY <1>0, <1>13, StreamGoes DEF StreamResumeAck, PostReply, StoppingLabels
    <2>2. /\ replyEvent' = replyEvent \cup {"STREAM_RESUMED"}
          /\ UNCHANGED <<streamEvent, found, shared, locals, seen>>
      BY <1>13 DEF StreamResumeAck, PostReply
    <2>3. runtime_stop_requested
      BY <2>1
    <2>4. ErrorType' /\ FoundKept' /\ LifeKnown'
      BY <2>1, <2>2 DEF Replies
    <2> QED
      BY <2>1, <2>2, <2>3, <2>4
  <1>14. CASE StreamAfterResume
    <2>1. /\ DOMAIN pc' = Threads /\ StreamPc = "afterResume"
          /\ StreamPc' = IF runtime_stop_requested THEN "exit" ELSE "load"
          /\ AppPc' = AppPc /\ EventPc' = EventPc
          /\ \A a \in Applications : pc'[a] = pc[a] /\ StopsKnown'
      BY <1>0, <1>14, StreamGoes DEF StreamAfterResume, Jump, StoppingLabels
    <2>2. UNCHANGED <<flags, shared, locals, seen>>
      BY <1>14 DEF StreamAfterResume, Jump
    <2>3. runtime_stop_requested
      BY <2>1
    <2>4. ErrorType' /\ FoundKept' /\ LifeKnown'
      BY <2>1, <2>2
    <2> QED
      BY <2>1, <2>2, <2>3, <2>4
  <1> QED
    BY <1>1, <1>2, <1>3, <1>4, <1>5, <1>6, <1>7, <1>8, <1>9, <1>10, <1>11,
       <1>12, <1>13, <1>14 DEF stream_thread_function

(* A node returns an error or stops the graph, or the schedule has run.     *)
LEMMA ErrorNodeReturns ==
  ASSUME Unpaused, ErrorInv, NEW f, StreamNodeReturns(f)
  PROVE  ErrorInv'
  <1> USE UnpausedFacts DEF ErrorInv, HasDataflow, Polled
  <1>0. use \in Uses /\ DOMAIN pc = Threads
    OBVIOUS
  <1>1. PICK m \in {"exit", "pauseQueue"} : Goto(StreamThread, "sched", m)
    BY DEF StreamNodeReturns, SchedulerReturns
  <1>2. /\ DOMAIN pc' = Threads /\ StreamPc = "sched" /\ StreamPc' = m
        /\ AppPc' = AppPc /\ EventPc' = EventPc
        /\ \A a \in Applications : pc'[a] = pc[a] /\ StopsKnown'
    BY <1>0, <1>1, StreamGoes
       DEF StreamNodeReturns, SchedulerReturns, StoppingLabels
  <1>3. /\ why' = [why EXCEPT ![StreamThread] = f]
        /\ streamEvent \cap {"STREAM_PAUSE", "STREAM_DONE"} = {}
        /\ UNCHANGED <<flags, shared, ctx, use, view, reported>>
    BY DEF StreamNodeReturns, SchedulerReturns
  <1>4. /\ nb' \in [fault : Nat, call : Nat, start : Nat]
        /\ nb'.start = nb.start
    BY DEF StreamNodeReturns, Fault
  <1>5. DOMAIN why' = Runtime /\ why'[EventThread] = why[EventThread]
    BY <1>3 DEF StreamThread, EventThread
  <1>6. ErrorType' /\ LifeKnown'
    BY <1>2, <1>3, <1>4, <1>5
  <1>7. FoundKept'
    BY <1>2, <1>3
  <1>8. (~runtime_stop_requested => Places /\ Acknowledged)'
    BY <1>1, <1>2, <1>3, <1>5
  <1> QED
    BY <1>2, <1>6, <1>7, <1>8

(* The event thread.                                                        *)
LEMMA ErrorEventStep ==
  ASSUME Unpaused, ErrorInv, event_thread_function
  PROVE  ErrorInv'
  <1> USE UnpausedFacts DEF ErrorInv, HasDataflow, Polled
  <1>0. use \in Uses /\ DOMAIN pc = Threads
    OBVIOUS
  <1>1. CASE EventLoad
    <2>1. /\ DOMAIN pc' = Threads /\ EventPc = "load"
          /\ EventPc' = "execute"
          /\ AppPc' = AppPc /\ StreamPc' = StreamPc
          /\ \A a \in Applications : pc'[a] = pc[a] /\ StopsKnown'
      BY <1>0, <1>1, EventGoes DEF EventLoad, LoadContext, StoppingLabels
    <2>2. /\ ctx' = [ctx EXCEPT ![EventThread] = current_context]
          /\ UNCHANGED <<flags, shared, why, use, seen>>
      BY <1>1 DEF EventLoad, LoadContext
    <2>3. ErrorType' /\ FoundKept' /\ LifeKnown'
      BY <2>1, <2>2
    <2>4. (~runtime_stop_requested => Places /\ Acknowledged)'
      BY <2>1, <2>2
    <2> QED
      BY <2>1, <2>3, <2>4
  <1>2. CASE EventExecuteReturns
    <2>1. /\ DOMAIN pc' = Threads /\ EventPc = "execute"
          /\ EventPc' = "returned"
          /\ AppPc' = AppPc /\ StreamPc' = StreamPc
          /\ \A a \in Applications : pc'[a] = pc[a] /\ StopsKnown'
      BY <1>0, <1>2, EventGoes DEF EventExecuteReturns, Jump, StoppingLabels
    <2>2. UNCHANGED <<flags, shared, locals, seen>>
      BY <1>2 DEF EventExecuteReturns, Jump
    <2>3. ErrorType' /\ FoundKept' /\ LifeKnown'
      BY <2>1, <2>2
    <2>4. (~runtime_stop_requested => Places /\ Acknowledged)'
      BY <2>1, <2>2
    <2> QED
      BY <2>1, <2>3, <2>4
  <1>3. CASE EventEnds
    <2>1. /\ DOMAIN pc' = Threads /\ EventPc = "returned"
          /\ EventPc' = "exit"
          /\ AppPc' = AppPc /\ StreamPc' = StreamPc
          /\ \A a \in Applications : pc'[a] = pc[a] /\ StopsKnown'
      BY <1>0, <1>3, EventGoes DEF EventEnds, Jump, StoppingLabels
    <2>2. /\ queue[ctx[EventThread]].mustEnd
          /\ UNCHANGED <<flags, shared, locals, seen>>
      BY <1>3 DEF EventEnds, Jump
    <2>3. ErrorType' /\ FoundKept' /\ LifeKnown'
      BY <2>1, <2>2
    <2>4. (~runtime_stop_requested => Places /\ Acknowledged)'
      BY <2>1, <2>2
    <2> QED
      BY <2>1, <2>3, <2>4
  <1>4. CASE EventConsumeError
    <2>1. PICK m \in {"pausePeer", "paused"} :
            /\ Goto(EventThread, "returned", m)
            /\ m = IF queue[ctx[EventThread]].error
                        /\ HasDataflow(ctx[EventThread])
                   THEN "pausePeer" ELSE "paused"
      BY <1>4 DEF EventConsumeError
    <2>2. /\ DOMAIN pc' = Threads /\ EventPc = "returned" /\ EventPc' = m
          /\ AppPc' = AppPc /\ StreamPc' = StreamPc
          /\ \A a \in Applications : pc'[a] = pc[a] /\ StopsKnown'
      BY <1>0, <1>4, <2>1, EventGoes DEF EventConsumeError, StoppingLabels
    <2>3. /\ UNCHANGED <<flags, current_context, runtime_stop_requested,
                         nodesPaused, ctx, use, seen>>
          /\ why' = [why EXCEPT ![EventThread] =
                       IF queue[ctx[EventThread]].error THEN "eventError"
                                                        ELSE "none"]
      BY <1>4 DEF EventConsumeError
    <2>4. /\ queue' \in [Graphs -> QueueType]
          /\ \A h \in Graphs : queue'[h].mustEnd = queue[h].mustEnd
      <3>1. PICK g :
              /\ g = ctx[EventThread]
              /\ SetQueue(g, [queue[g] EXCEPT !.error = FALSE])
        BY <1>4 DEF EventConsumeError
      <3> DEFINE q == [queue[g] EXCEPT !.error = FALSE]
      <3>2. g \in Graphs => q \in QueueType /\ q.mustEnd = queue[g].mustEnd
        BY QueueKeeps DEF ErrorInv
      <3>3. SetQueue(g, q)
        BY <3>1
      <3> HIDE DEF q
      <3> QED
        BY <3>2, <3>3, QueueStays DEF ErrorInv
    <2>5. /\ DOMAIN why' = Runtime
          /\ why'[EventThread] = IF queue[ctx[EventThread]].error
                                 THEN "eventError" ELSE "none"
      BY <2>3 DEF Runtime
    <2>6. ErrorType' /\ FoundKept' /\ LifeKnown'
      BY <2>1, <2>2, <2>3, <2>4, <2>5
    <2>7. (~runtime_stop_requested => Places /\ Acknowledged)'
      BY <2>1, <2>2, <2>3, <2>4, <2>5
    <2> QED
      BY <2>2, <2>6, <2>7
  <1>5. CASE EventPausePeer
    <2>1. /\ DOMAIN pc' = Threads /\ EventPc = "pausePeer"
          /\ EventPc' = "waitStream"
          /\ AppPc' = AppPc /\ StreamPc' = StreamPc
          /\ \A a \in Applications : pc'[a] = pc[a] /\ StopsKnown'
      BY <1>0, <1>5, EventGoes DEF EventPausePeer, PostRequest, StoppingLabels
    <2>2. /\ streamEvent' = streamEvent \cup {"STREAM_PAUSE"}
          /\ UNCHANGED <<replyEvent, found, shared, locals, seen>>
      BY <1>5 DEF EventPausePeer, PostRequest
    <2>3. ErrorType' /\ FoundKept' /\ LifeKnown'
      BY <2>1, <2>2 DEF Requests
    <2>4. (~runtime_stop_requested => Places /\ Acknowledged)'
      BY <2>1, <2>2
    <2> QED
      BY <2>1, <2>3, <2>4
  <1>6. CASE EventWaitStream
    <2>1. AwaitReply(EventThread, "waitStream", {"STREAM_PAUSED"}, "paused")
      BY <1>6 DEF EventWaitStream
    <2>2. /\ UNCHANGED <<streamEvent, shared, locals, seen>>
          /\ found' \in [Threads -> SUBSET (Requests \cup Replies)]
          /\ found'[StreamThread] = found[StreamThread]
          /\ \/ /\ EventPc = "waitStream" /\ pc' = pc
                /\ replyEvent' = replyEvent
                /\ found'[EventThread] = {"STREAM_PAUSED"} \cap replyEvent
             \/ /\ Goto(EventThread, "waitStream", "paused")
                /\ found'[EventThread] = {} /\ replyEvent' \subseteq replyEvent
                /\ \/ found[EventThread] # {}
                   \/ {"STREAM_PAUSED"} \cap replyEvent # {}
      BY <2>1, WaitsFor DEF Replies, EventPc, StreamThread, EventThread
    <2>3. CASE /\ EventPc = "waitStream" /\ pc' = pc
               /\ replyEvent' = replyEvent
               /\ found'[EventThread] = {"STREAM_PAUSED"} \cap replyEvent
      <3>1. UNCHANGED <<StreamPc, EventPc, AppPc>>
        BY <2>3 DEF StreamPc, EventPc, AppPc
      <3>2. StopsKnown'
        BY <2>2, <2>3 DEF StopsKnown
      <3> QED
        BY <2>2, <2>3, <3>1, <3>2
    <2>4. CASE /\ Goto(EventThread, "waitStream", "paused")
               /\ found'[EventThread] = {} /\ replyEvent' \subseteq replyEvent
               /\ \/ found[EventThread] # {}
                  \/ {"STREAM_PAUSED"} \cap replyEvent # {}
      <3>1. /\ DOMAIN pc' = Threads /\ EventPc = "waitStream"
            /\ EventPc' = "paused" /\ AppPc' = AppPc /\ StreamPc' = StreamPc
            /\ \A a \in Applications : pc'[a] = pc[a] /\ StopsKnown'
        BY <1>0, <2>2, <2>4, EventGoes DEF StoppingLabels
      <3>2. ~runtime_stop_requested =>
              "STREAM_PAUSED" \in replyEvent \cup found[EventThread]
        BY <2>4, <3>1
      <3>3. ErrorType' /\ FoundKept' /\ LifeKnown'
        BY <2>2, <2>4, <3>1
      <3>4. (~runtime_stop_requested => Places /\ Acknowledged)'
        BY <2>2, <2>4, <3>1, <3>2
      <3> QED
        BY <3>1, <3>3, <3>4
    <2> QED
      BY <2>2, <2>3, <2>4
  <1>7. CASE EventPauseNodes
    <2>1. PICK m \in {"report", "afterReport"} :
            /\ Goto(EventThread, "paused", m)
            /\ m = "report" <=> why[EventThread] = "eventError"
      BY <1>7 DEF EventPauseNodes, PauseNodes, Jump
    <2>2. UNCHANGED <<flags, current_context, runtime_stop_requested, queue,
                      locals, seen>>
      BY <1>7 DEF EventPauseNodes, PauseNodes, Jump
    <2>3. /\ DOMAIN pc' = Threads /\ EventPc = "paused" /\ EventPc' = m
          /\ AppPc' = AppPc /\ StreamPc' = StreamPc
          /\ \A a \in Applications : pc'[a] = pc[a] /\ StopsKnown'
      BY <1>0, <2>1, <2>2, EventGoes DEF StoppingLabels
    <2>4. ErrorType' /\ FoundKept' /\ LifeKnown'
      BY <2>1, <2>2, <2>3
    <2>5. (~runtime_stop_requested => Places /\ Acknowledged)'
      BY <2>1, <2>2, <2>3
    <2> QED
      BY <2>3, <2>4, <2>5
  <1>8. CASE EventReport
    <2>1. PICK m \in {"stop", "afterReport"} : Goto(EventThread, "report", m)
      BY <1>8 DEF EventReport, Report
    <2>2. UNCHANGED <<flags, shared, locals, view, nb>>
      BY <1>8 DEF EventReport, Report
    <2>3. /\ DOMAIN pc' = Threads /\ EventPc = "report" /\ EventPc' = m
          /\ AppPc' = AppPc /\ StreamPc' = StreamPc
          /\ \A a \in Applications : pc'[a] = pc[a] /\ StopsKnown'
      BY <1>0, <2>1, <2>2, EventGoes DEF StoppingLabels
    <2>4. ErrorType' /\ FoundKept' /\ LifeKnown'
      BY <2>1, <2>2, <2>3
    <2>5. (~runtime_stop_requested => Places /\ Acknowledged)'
      BY <2>1, <2>2, <2>3
    <2> QED
      BY <2>3, <2>4, <2>5
  <1>9. CASE EventAfterReport
    <2>1. /\ DOMAIN pc' = Threads /\ EventPc = "afterReport"
          /\ EventPc' = IF runtime_stop_requested THEN "exit" ELSE "ack"
          /\ AppPc' = AppPc /\ StreamPc' = StreamPc
          /\ \A a \in Applications : pc'[a] = pc[a] /\ StopsKnown'
      BY <1>0, <1>9, EventGoes DEF EventAfterReport, Jump, StoppingLabels
    <2>2. UNCHANGED <<flags, shared, locals, seen>>
      BY <1>9 DEF EventAfterReport, Jump
    <2>3. ErrorType' /\ FoundKept' /\ LifeKnown'
      BY <2>1, <2>2
    <2>4. (~runtime_stop_requested => Places /\ Acknowledged)'
      BY <2>1, <2>2
    <2> QED
      BY <2>1, <2>3, <2>4
  <1>10. CASE EventAck
    <2>1. /\ DOMAIN pc' = Threads /\ EventPc = "ack"
          /\ EventPc' = "waitResume"
          /\ AppPc' = AppPc /\ StreamPc' = StreamPc
          /\ \A a \in Applications : pc'[a] = pc[a] /\ StopsKnown'
      BY <1>0, <1>10, EventGoes DEF EventAck, PostReply, StoppingLabels
    <2>2. /\ replyEvent' = replyEvent \cup {"EVENT_PAUSED"}
          /\ UNCHANGED <<streamEvent, found, shared, locals, seen>>
      BY <1>10 DEF EventAck, PostReply
    <2>3. ErrorType' /\ FoundKept' /\ LifeKnown'
      BY <2>1, <2>2 DEF Replies
    <2>4. (~runtime_stop_requested => Places /\ Acknowledged)'
      BY <2>1, <2>2 DEF Failures
    <2> QED
      BY <2>1, <2>3, <2>4
  <1>11. CASE EventWaitResume
    <2>1. /\ UNCHANGED <<replyEvent, shared, locals, seen>>
          /\ streamEvent \ streamEvent' \subseteq {"EVENT_RESUME"}
          /\ streamEvent' \subseteq streamEvent
          /\ EventPc = "waitResume"
          /\ "EVENT_RESUME" \in streamEvent \/ found[EventThread] # {}
          /\ \/ /\ pc' = pc
                /\ found' = [found EXCEPT ![EventThread] = {"EVENT_RESUME"}]
             \/ /\ Goto(EventThread, "waitResume", "resumeAck")
                /\ found' = [found EXCEPT ![EventThread] = {}]
      BY <1>11 DEF EventWaitResume, AwaitRequest, Sees, EndsWait, Result, Goto,
         EventPc
    <2>2. runtime_stop_requested
      BY <2>1
    <2>3. /\ found' \in [Threads -> SUBSET (Requests \cup Replies)]
          /\ found'[StreamThread] = found[StreamThread]
          /\ pc' # pc => found'[EventThread] = {}
      BY <2>1 DEF Requests, StreamThread, EventThread
    <2>4. /\ DOMAIN pc' = Threads /\ EventPc' \in {"waitResume", "resumeAck"}
          /\ AppPc' = AppPc /\ StreamPc' = StreamPc
          /\ \A a \in Applications : pc'[a] = pc[a] /\ StopsKnown'
      <3>1. CASE pc' = pc
        BY <2>1, <3>1 DEF StopsKnown, AppPc, StreamPc, EventPc
      <3>2. CASE Goto(EventThread, "waitResume", "resumeAck")
        BY <1>0, <2>1, <3>2, EventGoes DEF StoppingLabels
      <3> QED
        BY <2>1, <3>1, <3>2
    <2>5. EventPc' = "waitResume" \/ found'[EventThread] = {}
      BY <2>1, <2>3 DEF EventPc
    <2>6. ErrorType' /\ FoundKept' /\ LifeKnown'
      BY <2>1, <2>3, <2>4, <2>5
    <2> QED
      BY <2>1, <2>2, <2>4, <2>6
  <1>12. CASE EventResumeAck
    <2>1. /\ DOMAIN pc' = Threads /\ EventPc = "resumeAck"
          /\ EventPc' = "load"
          /\ AppPc' = AppPc /\ StreamPc' = StreamPc
          /\ \A a \in Applications : pc'[a] = pc[a] /\ StopsKnown'
      BY <1>0, <1>12, EventGoes DEF EventResumeAck, PostReply, StoppingLabels
    <2>2. /\ replyEvent' = replyEvent \cup {"EVENT_RESUMED"}
          /\ UNCHANGED <<streamEvent, found, shared, locals, seen>>
      BY <1>12 DEF EventResumeAck, PostReply
    <2>3. ErrorType' /\ FoundKept' /\ LifeKnown'
      BY <2>1, <2>2 DEF Replies
    <2>4. (~runtime_stop_requested => Places /\ Acknowledged)'
      BY <2>1, <2>2
    <2> QED
      BY <2>1, <2>3, <2>4
  <1> QED
    BY <1>1, <1>2, <1>3, <1>4, <1>5, <1>6, <1>7, <1>8, <1>9, <1>10,
       <1>11, <1>12 DEF event_thread_function

(* An event handler fails.                                                  *)
LEMMA ErrorEventFails ==
  ASSUME Unpaused, ErrorInv, EventFails
  PROVE  ErrorInv'
  <1> USE UnpausedFacts DEF ErrorInv, HasDataflow, Polled
  <1>1. /\ queue' \in [Graphs -> QueueType]
        /\ \A h \in Graphs : queue'[h].mustEnd = queue[h].mustEnd
    <2>1. PICK g :
            /\ g = ctx[EventThread]
            /\ SetQueue(g, [queue[g] EXCEPT !.error = TRUE, !.mustPause = TRUE])
      BY DEF EventFails
    <2> DEFINE q == [queue[g] EXCEPT !.error = TRUE, !.mustPause = TRUE]
    <2>2. g \in Graphs => q \in QueueType /\ q.mustEnd = queue[g].mustEnd
      BY QueueKeeps DEF ErrorInv
    <2>3. SetQueue(g, q)
      BY <2>1
    <2> HIDE DEF q
    <2> QED
      BY <2>2, <2>3, QueueStays DEF ErrorInv
  <1>2. /\ nb' \in [fault : Nat, call : Nat, start : Nat]
        /\ nb'.start = nb.start
    BY DEF EventFails, Fault
  <1>3. UNCHANGED <<pc, flags, current_context, runtime_stop_requested,
                    nodesPaused, locals, view, reported>>
    BY DEF EventFails
  <1>4. UNCHANGED <<StreamPc, EventPc, AppPc>> /\ StopsKnown'
    BY <1>3 DEF StreamPc, EventPc, AppPc, StopsKnown
  <1> QED
    BY <1>1, <1>2, <1>3, <1>4

(* stream_start_threads().                                                  *)
LEMMA ErrorStartStep ==
  ASSUME Unpaused, ErrorInv, CallStart \/ stream_start_threads
  PROVE  ErrorInv'
  <1> USE UnpausedFacts DEF ErrorInv, HasDataflow, Polled
  <1>0. use \in Uses /\ DOMAIN pc = Threads
    OBVIOUS
  <1>1. CASE CallStart
    <2>1. /\ StreamPc = "exit" /\ EventPc = "exit"
          /\ \A a \in Applications : pc[a] = "idle"
          /\ pc' = [pc EXCEPT ![EventThread] = "load",
                              ![Starter] = "startStream"]
          /\ nb.start < use.maxStart
      BY <1>1 DEF CallStart, Runtime, StreamPc, EventPc
    <2>2. /\ runtime_stop_requested' = FALSE /\ current_context' = use.first
          /\ queue' = [g \in Graphs |-> FreshQueue]
          /\ why' = [t \in Runtime |-> "none"]
          /\ UNCHANGED <<ctx, use>>
      BY <1>1 DEF CallStart
    <2>3. /\ nb' \in [fault : Nat, call : Nat, start : Nat]
          /\ nb'.start = nb.start + 1
      BY <1>1 DEF CallStart
    <2>4. streamEvent' = {} /\ replyEvent' = {} /\ found' = found
      <3>1. CASE FlagsSurvive
        <4>1. UNCHANGED flags
          BY <1>1, <3>1 DEF CallStart
        <4>2. nb.start = 0
          BY <2>1, <3>1 DEF FlagsSurvive
        <4> QED
          BY <4>1, <4>2
      <3>2. CASE ~FlagsSurvive
        BY <1>1, <3>2 DEF CallStart
      <3> QED
        BY <3>1, <3>2
    <2>5. /\ DOMAIN pc' = Threads /\ StreamPc' = "exit" /\ EventPc' = "load"
          /\ AppPc' = "startStream"
          /\ \A a \in Applications : pc'[a] \in {"idle", "startStream"}
      BY <1>0, <2>1 DEF StreamPc, EventPc, AppPc, StreamThread, EventThread
    <2>6. StopsKnown'
      BY <2>1, <2>5 DEF StopsKnown, StoppingLabels, StreamPc, EventPc
    <2>7. FreshQueue \in QueueType /\ ~FreshQueue.mustEnd
      BY DEF FreshQueue, QueueType
    <2>8. ErrorType'
      BY <2>2, <2>3, <2>4, <2>5, <2>7
    <2>9. FoundKept' /\ LifeKnown'
      BY <2>1, <2>3, <2>4, <2>5
    <2>10. Places' /\ Acknowledged'
      BY <2>1, <2>2, <2>4, <2>5, <2>7
    <2> QED
      BY <2>6, <2>8, <2>9, <2>10
  <1>2. CASE StartStream
    <2>1. /\ AppPc = "startStream" /\ view' = "running"
          /\ pc' = [pc EXCEPT ![StreamThread] = "load", ![Starter] = "idle"]
          /\ UNCHANGED <<flags, shared, locals, reported, nb>>
      BY <1>2 DEF StartStream, AppPc
    <2>2. /\ DOMAIN pc' = Threads /\ StreamPc' = "load" /\ EventPc' = EventPc
          /\ AppPc' = "idle"
          /\ \A t \in Threads : pc'[t] \in {pc[t], "load", "idle"}
      BY <1>0, <2>1 DEF StreamPc, EventPc, AppPc, StreamThread, EventThread
    <2>3. StopsKnown'
      BY <2>1, <2>2 DEF StopsKnown, StoppingLabels
    <2>4. nb.start # 0
      BY <2>1 DEF AppPc, RestLabels
    <2>5. ErrorType' /\ FoundKept' /\ LifeKnown'
      BY <2>1, <2>2, <2>4
    <2>6. (~runtime_stop_requested => Places /\ Acknowledged)'
      BY <2>1, <2>2
    <2> QED
      BY <2>3, <2>5, <2>6
  <1>3. CASE StartFails
    <2>1. /\ AppPc = "startStream" /\ nb.start # 0
          /\ UNCHANGED <<streamEvent, replyEvent, current_context, view,
                         runtime_stop_requested, nodesPaused, locals, reported>>
      BY <1>3 DEF StartFails, AppPc, RestLabels
    <2>2. nb' \in [fault : Nat, call : Nat, start : Nat] /\ nb'.start = nb.start
      BY <1>3 DEF StartFails, Fault
    <2>3. CASE use.platform = "posix"
      <3>1. /\ pc' = [pc EXCEPT ![Starter] = "startJoin"]
            /\ SetQueue(use.first, [queue[use.first] EXCEPT !.mustEnd = TRUE])
            /\ UNCHANGED found
        BY <1>3, <2>3 DEF StartFails
      <3>2. /\ DOMAIN pc' = Threads /\ AppPc' = "startJoin"
            /\ StreamPc' = StreamPc /\ EventPc' = EventPc
            /\ \A t \in Threads : pc'[t] \in {pc[t], "startJoin"}
        BY <1>0, <3>1 DEF StreamPc, EventPc, AppPc
      <3>3. StopsKnown'
        BY <2>1, <3>2 DEF StopsKnown, StoppingLabels
      <3>4. queue' \in [Graphs -> QueueType]
        BY <3>1, QueueKeeps DEF SetQueue
      <3>5. ErrorType' /\ FoundKept' /\ LifeKnown'
        BY <2>1, <2>2, <3>1, <3>2, <3>4
      <3>6. (~runtime_stop_requested => Places /\ Acknowledged)'
        BY <2>1, <3>1, <3>2
      <3> QED
        BY <3>3, <3>5, <3>6
    <2>4. CASE use.platform # "posix"
      <3>1. /\ pc' = [pc EXCEPT ![Starter] = "startJoin",
                                ![EventThread] = "exit"]
            /\ found' = [found EXCEPT ![EventThread] = {}]
            /\ UNCHANGED queue
        BY <1>3, <2>4 DEF StartFails
      <3>2. /\ DOMAIN pc' = Threads /\ AppPc' = "startJoin"
            /\ StreamPc' = StreamPc /\ EventPc' = "exit"
            /\ \A t \in Threads : pc'[t] \in {pc[t], "startJoin", "exit"}
        BY <1>0, <3>1 DEF StreamPc, EventPc, AppPc, StreamThread, EventThread
      <3>3. StopsKnown'
        BY <2>1, <3>2 DEF StopsKnown, StoppingLabels
      <3>4. /\ found' \in [Threads -> SUBSET (Requests \cup Replies)]
            /\ found'[EventThread] = {}
            /\ found'[StreamThread] = found[StreamThread]
        BY <3>1 DEF StreamThread, EventThread
      <3>5. ErrorType' /\ FoundKept' /\ LifeKnown'
        BY <2>1, <2>2, <3>1, <3>2, <3>4
      <3>6. (~runtime_stop_requested => Places /\ Acknowledged)'
        BY <2>1, <3>1, <3>2, <3>4
      <3> QED
        BY <3>3, <3>5, <3>6
    <2> QED
      BY <2>3, <2>4
  <1>4. CASE StartJoin
    <2>1. /\ EventPc = "exit" /\ Goto(Starter, "startJoin", "idle")
          /\ current_context' = NoGraph /\ view' = "stopped"
          /\ UNCHANGED <<flags, runtime_stop_requested, queue, nodesPaused,
                         locals, reported, nb>>
      BY <1>4 DEF StartJoin, Forget, EventPc
    <2>2. /\ DOMAIN pc' = Threads /\ AppPc = "startJoin" /\ AppPc' = "idle"
          /\ EventPc' = EventPc /\ StreamPc' = StreamPc /\ StopsKnown'
      BY <1>0, <2>1, AppGoes DEF StoppingLabels, AppPc
    <2>3. nb.start # 0
      BY <2>2 DEF AppPc, RestLabels
    <2>4. ErrorType' /\ FoundKept' /\ LifeKnown'
      BY <2>1, <2>2, <2>3
    <2>5. (~runtime_stop_requested => Places /\ Acknowledged)'
      BY <2>1, <2>2
    <2> QED
      BY <2>2, <2>4, <2>5
  <1> QED
    BY <1>1, <1>2, <1>3, <1>4 DEF stream_start_threads

(* A step of a thread that is stopping the runtime: nothing is claimed any   *)
(* more until the next start.                                               *)
LEMMA StopsOn ==
  ASSUME Unpaused, ErrorInv, NEW t \in Threads,
         NEW l \in StoppingLabels \cup {"stop"},
         NEW m \in StoppingLabels \cup {"idle", "afterReport"}, Goto(t, l, m),
         runtime_stop_requested' = TRUE, UNCHANGED <<found, locals, nb>>,
         streamEvent \subseteq streamEvent', streamEvent' \subseteq Requests,
         replyEvent' \subseteq Replies, queue' \in [Graphs -> QueueType],
         current_context' \in Graphs \cup {NoGraph}
  PROVE  ErrorInv'
  <1> USE UnpausedFacts DEF ErrorInv, HasDataflow, Polled
  <1>1. /\ DOMAIN pc' = Threads /\ pc[t] = l
        /\ \A u \in Threads : pc'[u] = IF u = t THEN m ELSE pc[u]
    BY DEF Goto
  <1>2. nb.start # 0
    BY <1>1 DEF RestLabels, StoppingLabels, StreamPc, EventPc
  <1>3. StopsKnown' /\ ErrorType'
    BY <1>1 DEF StopsKnown
  <1>4. /\ StreamPc' = IF t = StreamThread THEN m ELSE StreamPc
        /\ EventPc' = IF t = EventThread THEN m ELSE EventPc
        /\ AppPc' = IF t = Starter THEN m ELSE AppPc
        /\ t = StreamThread => StreamPc = l
        /\ t = EventThread => EventPc = l
    BY <1>1 DEF StreamPc, EventPc, AppPc
  <1>5. FoundKept' /\ LifeKnown'
    BY <1>2, <1>4 DEF StoppingLabels
  <1> QED
    BY <1>3, <1>5

(* stream_stop_threads(), by an application or by a thread that reports.    *)
LEMMA ErrorStopStep ==
  ASSUME Unpaused, ErrorInv, NEW t \in Threads, stream_stop_threads(t)
  PROVE  ErrorInv'
  <1>0. /\ ErrorType /\ StopsKnown /\ queue \in [Graphs -> QueueType]
        /\ current_context \in Graphs \cup {NoGraph}
        /\ streamEvent \subseteq Requests /\ replyEvent \subseteq Replies
        /\ runtime_stop_requested \in BOOLEAN
    BY DEF ErrorInv
  <1>1. CASE StopRequest(t)
    <2>1. /\ Goto(t, "stop", "stopEnd") /\ runtime_stop_requested' = TRUE
          /\ UNCHANGED <<flags, current_context, queue, locals, seen>>
      BY <1>1 DEF StopRequest
    <2> QED
      BY <1>0, <2>1, StopsOn DEF StoppingLabels
  <1>2. ASSUME NEW l \in StoppingLabels, NEW m, Goto(t, l, m),
               UNCHANGED runtime_stop_requested
        PROVE  runtime_stop_requested' = TRUE
    BY <1>0, <1>2 DEF Goto, StopsKnown
  <1>3. CASE StopEnd(t)
    <2>1. /\ Goto(t, "stopEnd", "stopPost")
          /\ queue' = [g \in Graphs |-> [queue[g] EXCEPT !.mustEnd =
                                           @ \/ g = current_context]]
          /\ UNCHANGED <<flags, current_context, runtime_stop_requested,
                         locals, seen>>
      BY <1>3 DEF StopEnd
    <2>2. \A g \in Graphs :
            [queue[g] EXCEPT !.mustEnd = @ \/ g = current_context]
              \in QueueType
      BY <1>0 DEF QueueType
    <2>3. queue' \in [Graphs -> QueueType]
      BY <2>1, <2>2
    <2>4. runtime_stop_requested' = TRUE
      BY <1>2, <2>1 DEF StoppingLabels
    <2> QED
      BY <1>0, <2>1, <2>3, <2>4, StopsOn DEF StoppingLabels
  <1>4. CASE StopPost(t)
    <2>1. /\ Goto(t, "stopPost", "stopReply")
          /\ streamEvent' = streamEvent \cup
               {"STREAM_DONE", "STREAM_RESUME", "EVENT_RESUME"}
          /\ UNCHANGED <<replyEvent, found, shared, locals, seen>>
      BY <1>4 DEF StopPost, PostRequest
    <2>2. runtime_stop_requested' = TRUE
      BY <1>2, <2>1 DEF StoppingLabels
    <2>3. streamEvent \subseteq streamEvent' /\ streamEvent' \subseteq Requests
      BY <1>0, <2>1 DEF Requests
    <2> QED
      BY <1>0, <2>1, <2>2, <2>3, StopsOn DEF StoppingLabels
  <1>5. CASE StopReply(t)
    <2>1. /\ Goto(t, "stopReply", "joinEvent")
          /\ replyEvent' = replyEvent \cup Replies
          /\ UNCHANGED <<streamEvent, found, shared, locals, seen>>
      BY <1>5 DEF StopReply, PostReply
    <2>2. runtime_stop_requested' = TRUE
      BY <1>2, <2>1 DEF StoppingLabels
    <2> QED
      BY <1>0, <2>1, <2>2, StopsOn DEF StoppingLabels
  <1>6. CASE StopJoinEvent(t)
    <2>1. /\ Goto(t, "joinEvent", "joinStream")
          /\ UNCHANGED <<flags, shared, locals, seen>>
      BY <1>6 DEF StopJoinEvent, Jump
    <2>2. runtime_stop_requested' = TRUE
      BY <1>2, <2>1 DEF StoppingLabels
    <2> QED
      BY <1>0, <2>1, <2>2, StopsOn DEF StoppingLabels
  <1>7. CASE StopJoinStream(t)
    <2>1. PICK m \in {"idle", "afterReport"} : Goto(t, "joinStream", m)
      BY <1>7 DEF StopJoinStream, Forget
    <2>2. /\ current_context' = NoGraph
          /\ UNCHANGED <<flags, runtime_stop_requested, queue, locals, nb>>
      BY <1>7 DEF StopJoinStream, Forget
    <2>3. runtime_stop_requested' = TRUE
      BY <1>2, <2>1, <2>2 DEF StoppingLabels
    <2> QED
      BY <1>0, <2>1, <2>2, <2>3, StopsOn DEF StoppingLabels
  <1> QED
    BY <1>1, <1>3, <1>4, <1>5, <1>6, <1>7 DEF stream_stop_threads

(* The calls of an application that stop the runtime or wait for its end.   *)
LEMMA ErrorCallStep ==
  ASSUME Unpaused, ErrorInv, NEW a \in Applications,
         CallStop(a) \/ CallWait(a) \/ stream_wait_for_threads_end(a)
  PROVE  ErrorInv'
  <1> USE UnpausedFacts DEF ErrorInv, HasDataflow, Polled
  <1>0. use \in Uses /\ DOMAIN pc = Threads
    OBVIOUS
  <1>1. CASE CallStop(a)
    <2>1. Goto(a, "idle", "stop") /\ view # "stopped"
          /\ UNCHANGED <<flags, shared, locals, seen>>
      BY <1>1 DEF CallStop, Jump
    <2>2. /\ DOMAIN pc' = Threads /\ EventPc' = EventPc /\ StreamPc' = StreamPc
          /\ AppPc' \in {AppPc, "stop"} /\ StopsKnown'
      BY <1>0, <2>1, AppGoes DEF StoppingLabels
    <2>3. ErrorType' /\ FoundKept' /\ LifeKnown'
      BY <2>1, <2>2
    <2>4. (~runtime_stop_requested => Places /\ Acknowledged)'
      BY <2>1, <2>2
    <2> QED
      BY <2>2, <2>3, <2>4
  <1>2. CASE CallWait(a) \/ WaitJoinStream(a)
    <2>1. PICK l, m \in RestLabels :
            Goto(a, l, m) /\ UNCHANGED <<flags, shared, locals, seen>>
      BY <1>2 DEF CallWait, WaitJoinStream, Jump, RestLabels
    <2>2. /\ DOMAIN pc' = Threads /\ EventPc' = EventPc /\ StreamPc' = StreamPc
          /\ AppPc' \in {AppPc} \cup RestLabels /\ StopsKnown'
          /\ \A b \in Applications : pc'[b] \in {pc[b], m}
      BY <1>0, <2>1, AppGoes DEF StoppingLabels, RestLabels
    <2>3. ErrorType' /\ FoundKept'
      BY <2>1, <2>2
    <2>4. LifeKnown'
      BY <2>1, <2>2 DEF RestLabels
    <2>5. (~runtime_stop_requested => Places /\ Acknowledged)'
      BY <2>1, <2>2 DEF RestLabels
    <2> QED
      BY <2>2, <2>3, <2>4, <2>5
  <1>3. CASE WaitJoinEvent(a)
    <2>1. /\ Goto(a, "waitJoinEvent", "idle") /\ EventPc = "exit"
          /\ current_context' = NoGraph /\ view' = "stopped"
          /\ UNCHANGED <<flags, runtime_stop_requested, queue, locals, nb>>
      BY <1>3 DEF WaitJoinEvent, Forget, EventPc
    <2>2. /\ DOMAIN pc' = Threads /\ EventPc' = EventPc /\ StreamPc' = StreamPc
          /\ AppPc' \in {AppPc, "idle"} /\ StopsKnown'
          /\ \A b \in Applications : pc'[b] \in {pc[b], "idle"}
      BY <1>0, <2>1, AppGoes DEF StoppingLabels
    <2>3. ErrorType' /\ FoundKept'
      BY <2>1, <2>2
    <2>4. LifeKnown'
      BY <2>1, <2>2 DEF RestLabels
    <2>5. (~runtime_stop_requested => Places /\ Acknowledged)'
      BY <2>1, <2>2
    <2> QED
      BY <2>2, <2>3, <2>4, <2>5
  <1> QED
    BY <1>1, <1>2, <1>3 DEF stream_wait_for_threads_end

(* The runtime has not been started.                                        *)
LEMMA ErrorAtFirst ==
  ASSUME Unpaused, Init
  PROVE  ErrorInv
  <1> USE UnpausedFacts
  <1>1. use \in Uses
    BY DEF Init
  <1>2. /\ DOMAIN pc = Threads /\ StreamPc = "exit" /\ EventPc = "exit"
        /\ \A a \in Applications : pc[a] = "idle"
    BY <1>1 DEF Init, StreamPc, EventPc, Runtime
  <1>3. FreshQueue \in QueueType
    BY DEF FreshQueue, QueueType
  <1>4. ErrorType
    BY <1>1, <1>2, <1>3 DEF Init
  <1>5. \A t \in Threads : found[t] = {}
    BY DEF Init
  <1>6. StopsKnown
    BY <1>1, <1>2 DEF StopsKnown, StoppingLabels, StreamPc, EventPc
  <1>7. /\ AppPc = "idle" /\ view = "stopped"
        /\ streamEvent = {} /\ replyEvent = {}
    BY <1>1, <1>2 DEF Init, AppPc
  <1>8. FoundKept /\ LifeKnown
    BY <1>1, <1>2, <1>5, <1>7 DEF RestLabels
  <1>9. Places /\ Acknowledged
    BY <1>1, <1>2, <1>5, <1>7
  <1> QED
    BY <1>4, <1>6, <1>8, <1>9 DEF ErrorInv

(* Every step of a use that nobody pauses keeps the invariant.              *)
LEMMA ErrorStep ==
  ASSUME Unpaused, ErrorInv, [Next]_vars
  PROVE  ErrorInv'
  <1>1. /\ use.pausers = {} /\ use.stoppers \subseteq Applications
        /\ use.waiters \subseteq Applications /\ Runtime \subseteq Threads
        /\ Applications \subseteq Threads
    BY UnpausedFacts DEF ErrorInv, Runtime
  <1> HIDE DEF ErrorType, FoundKept, LifeKnown, Places, Acknowledged
  <1>2. CASE Next
    BY <1>1, <1>2, ErrorStreamStep, ErrorNodeReturns, ErrorEventStep,
       ErrorEventFails, ErrorStartStep, ErrorStopStep, ErrorCallStep DEF Next
  <1>3. CASE UNCHANGED vars
    BY <1>3 DEF vars, ErrorInv, ErrorType, FoundKept, StopsKnown, LifeKnown,
       Places, Acknowledged, StreamPc, EventPc, AppPc, HasDataflow, Polled
  <1> QED
    BY <1>2, <1>3

(* Property QuietReport: when the application's handler is told of an error, *)
(* the other runtime thread rests, whatever has failed before, however often *)
(* the runtime is started again, and on each platform, as long as nobody     *)
(* pauses (stream_runtime_init.cpp:112-220).                                *)
THEOREM ReportsAreQuiet == ASSUME Unpaused PROVE Spec => []QuietReport
  <1> HIDE DEF ErrorType, FoundKept, LifeKnown, Places, Acknowledged
  <1>1. Init => ErrorInv
    BY ErrorAtFirst
  <1>2. ErrorInv /\ [Next]_vars => ErrorInv'
    BY ErrorStep
  <1>3. ErrorInv => QuietReport
    BY DEF ErrorInv, Places, Acknowledged, QuietReport, StreamPc, EventPc
  <1> QED
    BY <1>1, <1>2, <1>3, PTL DEF Spec
=============================================================================

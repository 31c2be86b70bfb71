------------------------ MODULE ApplicationLifecycle ------------------------
(***************************************************************************)
(* Startup and release of an application: stream_configure_and_start() and  *)
(* stream_free_all() of the three platforms, the memory of the runtime, the *)
(* event queues, init_scheduler() and free_scheduler() as they are          *)
(* committed with six programs, and the mains around them.                  *)
(*                                                                         *)
(* Global pointers outlive the objects they point to: every object has the  *)
(* number of the start that has made it, a pointer the number of its object *)
(* or 0 for NULL.  What a thread still has to do is a sequence of steps.    *)
(***************************************************************************)
EXTENDS Integers, SequencesExt

CONSTANTS Uses,      \* ways to use the runtime: see Use in MCLifecycle
          MaxStarts  \* bound: starts of one application

ASSUME LifecycleAssumption == MaxStarts \in Nat \ {0}

VARIABLES use,
          todo,      \* the steps left of the main thread and of the handlers
          main,      \* where the main thread is
          starts,
          ptr, alive,\* where a pointer points, and which objects exist
          thread,    \* the runtime threads: "none", "running", "freeing", "ended"
          handle,    \* the runtime threads whose handle is not NULL
          ending,    \* the threads are asked to end
          twice,     \* deletions of what is already deleted
          dangling   \* uses of what does not exist

vars == <<use, todo, main, starts, ptr, alive, thread, handle, ending, twice, dangling>>

Threads == {"event", "stream"}
Actors  == {"main"} \cup Threads

(***************************************************************************)
(* Steps.                                                                   *)
(***************************************************************************)
\* The rings belong to the queue: its constructor makes them with no test, its
\* destructor deletes them.
Levels   == 0..2
Rings(k) == {<<"ring", k, p>> : p \in Levels}
Parts(x) == IF x[1] = "queue" THEN Rings(x[2]) ELSE {}

New(x, tested, over) == [do |-> "new", what |-> x, with |-> Parts(x),
                         fails |-> tested, over |-> over]
Touch(xs, tested)    == [do |-> "touch", fails |-> tested, over |-> xs]
Launch(t)            == [do |-> "launch", what |-> t, fails |-> TRUE, over |-> {}]
EndThreads           == [do |-> "end", fails |-> FALSE, over |-> {}]
Join(t)              == [do |-> "join", what |-> t, fails |-> FALSE, over |-> {}]
Delete(x, cleared)   == [do |-> "delete", what |-> x, cleared |-> cleared,
                         fails |-> FALSE, over |-> {}]

fifo(k)  == <<"fifo", k>>
node(n)  == <<"node", n>>
queue(k) == <<"queue", k>>
Each(Step(_), s) == [k \in DOMAIN s |-> Step(s[k])]
Upto(n) == [k \in 1..n |-> k - 1]

(***************************************************************************)
(* The programs: a node with the FIFOs its constructor is given, in the     *)
(* order of construction; the connections of events; and what is deleted.   *)
(***************************************************************************)
Example10Init ==
  [fifos |-> 12, subscribes |-> <<>>,
   nodes |-> << <<"debug", {4}>>, <<"debug0", {8}>>, <<"debug1", {9}>>,
     <<"debug2", {10}>>, <<"debug3", {11}>>, <<"dup0", {2, 3, 4}>>,
     <<"dup1", 5..11>>, <<"proc", {0, 1, 3}>>, <<"sinka", {6}>>, <<"sinkb", {7}>>,
     <<"sourceEven", {0}>>, <<"sourceOdd", {2}>> >>]
Example10Free ==
  [fifos |-> 12,
   nodes |-> <<"debug", "debug0", "debug1", "debug2", "debug3", "dup0", "dup1",
               "proc", "sinka", "sinkb", "sourceEven", "sourceOdd">>]

CallbackInit ==
  [fifos |-> 3, subscribes |-> <<>>,
   nodes |-> << <<"processing", {0, 1}>>, <<"sink", {2}>>, <<"source", {0}>> >>]
CallbackFree == [fifos |-> 3, nodes |-> <<"processing", "sink", "source">>]

EventsInit ==
  [fifos |-> 2, subscribes |-> << <<"source", "sink">>, <<"source", "evtsink">> >>,
   nodes |-> << <<"processing", {0, 1}>>, <<"sink", {1}>>, <<"source", {0}>>,
                <<"evtsink", {}>> >>]
EventsFree == [fifos |-> 2, nodes |-> <<"processing", "sink", "source", "evtsink">>]

HelloPosixInit ==
  [fifos |-> 2, subscribes |-> << <<"sink", "evtSink">> >>,
   nodes |-> << <<"process", {0, 1}>>, <<"sink", {1}>>, <<"src", {0}>>,
                <<"evtSink", {}>> >>]
HelloPosixFree == [fifos |-> 2, nodes |-> <<"process", "sink", "src", "evtSink">>]

HelloCMSISInit ==
  [fifos |-> 2, subscribes |-> << <<"sink", "evtSink">> >>,
   nodes |-> << <<"process", {0, 1}>>, <<"sink", {1}>>, <<"src", {0}>>,
                <<"evtSink", {}>> >>]
HelloCMSISFree == [fifos |-> 2, nodes |-> <<"process", "sink", "src", "evtSink">>]

HelloZephyrInit ==
  [fifos |-> 2, subscribes |-> << <<"sink", "evtSink">> >>,
   nodes |-> << <<"process", {0, 1}>>, <<"sink", {1}>>, <<"src", {0}>>,
                <<"evtSink", {}>> >>]
HelloZephyrFree == [fifos |-> 2, nodes |-> <<"process", "sink", "src", "evtSink">>]

Programs ==
  [Example10 |-> [init |-> Example10Init, free |-> Example10Free],
   Callback  |-> [init |-> CallbackInit, free |-> CallbackFree],
   Events    |-> [init |-> EventsInit, free |-> EventsFree],
   posix     |-> [init |-> HelloPosixInit, free |-> HelloPosixFree],
   CMSIS     |-> [init |-> HelloCMSISInit, free |-> HelloCMSISFree],
   Zephyr    |-> [init |-> HelloZephyrInit, free |-> HelloZephyrFree]]

\* A hello program runs on its platform, the events example with one queue on a
\* host.
ASSUME UsesAssumption ==
  \A u \in Uses :
    /\ u \in [program : DOMAIN Programs, platform : {"posix", "CMSIS", "Zephyr"},
             queues : Nat, waits : BOOLEAN, frees : BOOLEAN, restarts : BOOLEAN,
             handlers : SUBSET Threads, failing : SUBSET Nat]
    /\ u.program \in {"posix", "CMSIS", "Zephyr"} => u.platform = u.program
    /\ u.program = "Events" => u.platform = "posix" /\ u.queues = 1

\* What the properties ask of a use: an application whose error handler frees has
\* a main that does not, and only its first start may fail, since a release
\* leaves the pointers set
OrderlyUse(u) ==
  /\ u.handlers # {} => ~u.frees /\ ~u.waits
  /\ u.failing \subseteq {1}

\* init_scheduler(): FIFOs, nodes, subscriptions, init() of each node
init_scheduler(p) ==
  Each(LAMBDA k : New(fifo(k), TRUE, {}), Upto(p.fifos))
  \o Each(LAMBDA n : New(node(n[1]), TRUE, {fifo(k) : k \in n[2]}), p.nodes)
  \o Each(LAMBDA e : Touch({node(e[1]), node(e[2])}, FALSE), p.subscribes)
  \o Each(LAMBDA n : Touch({node(n[1])}, TRUE), p.nodes)

\* Mutant for AllReleased: the nodes are forgotten
free_scheduler_OfFIFOs(p) ==
  Each(LAMBDA k : Delete(fifo(k), FALSE), Upto(p.fifos))

\* free_scheduler(): the pointers keep their values
free_scheduler(p) ==
  Each(LAMBDA k : Delete(fifo(k), FALSE), Upto(p.fifos))
  \o Each(LAMBDA n : Delete(node(n), FALSE), p.nodes)

\* What the graph of a program is made of
Graph(p) == {fifo(k) : k \in 0..(p.init.fifos - 1)}
              \cup {node(n[1]) : n \in ToSet(p.init.nodes)}

(***************************************************************************)
(* The platforms.                                                           *)
(***************************************************************************)
\* The flags of a CMSIS-RTOS queue come with it and are not deleted
PosixEventQueue(k) == New(queue(k), TRUE, {})
CMSISEventQueue(k) ==
  [New(queue(k), TRUE, {}) EXCEPT !.with = @ \cup {<<"queue flags", k>>}]
MyQueue(k) == New(queue(k), TRUE, {})

stream_new_event_queue(k) ==
  CASE use.platform = "CMSIS"  -> CMSISEventQueue(k)
    [] use.platform = "Zephyr" -> MyQueue(k)
    [] use.platform = "posix"  -> PosixEventQueue(k)

\* Memory that the system keeps for the whole run of the application on posix
\* and Zephyr
Pools == {<<"pool", "event">>, <<"pool", "buf">>, <<"pool", "mutex">>}
PosixInitMemory == <<>>
CMSISInitMemory ==
  << New(<<"flags", "stream">>, FALSE, {}), New(<<"flags", "reply">>, FALSE, {}),
     New(<<"pool", "event">>, TRUE, {}), New(<<"pool", "buf">>, TRUE, {}),
     New(<<"pool", "mutex">>, TRUE, {}) >>
ZephyrInitMemory ==
  << Touch({}, TRUE), Touch({}, TRUE), Touch({}, TRUE) >>

CMSISFreeMemory ==
  << Delete(<<"pool", "event">>, FALSE), Delete(<<"pool", "buf">>, FALSE),
     Delete(<<"pool", "mutex">>, FALSE), Delete(<<"flags", "stream">>, FALSE),
     Delete(<<"flags", "reply">>, FALSE) >>

stream_init_memory == CASE use.platform = "CMSIS" -> CMSISInitMemory
                        [] use.platform = "Zephyr" -> ZephyrInitMemory
                        [] use.platform = "posix"  -> PosixInitMemory
\* pool.release() of posix: what is still held in it goes with it
PosixFreeMemory == << Delete(<<"pool", "event">>, FALSE) >>
ZephyrFreeMemory == <<>>
stream_free_memory == CASE use.platform = "CMSIS" -> CMSISFreeMemory
                        [] use.platform = "Zephyr" -> ZephyrFreeMemory
                        [] use.platform = "posix"  -> PosixFreeMemory

Program == Programs[use.program]
Queues  == Each(stream_new_event_queue, Upto(use.queues))
Resumed == << Touch({node(n[1]) : n \in ToSet(Program.init.nodes)}, FALSE) >>

PosixStart ==
  stream_init_memory \o Queues \o init_scheduler(Program.init) \o Resumed
  \o << Launch("event"), Launch("stream") >>
CMSISStart ==
  << New(<<"timer", 0>>, TRUE, {}) >> \o stream_init_memory \o Queues
  \o init_scheduler(Program.init) \o Resumed
  \o << Launch("event"), Launch("stream") >>
ZephyrStart ==
  stream_init_memory \o Queues \o init_scheduler(Program.init) \o Resumed
  \o << Launch("event"), Launch("stream") >>

\* events/main.cpp: the event thread runs before the nodes exist
EventsStart ==
  << New(queue(0), FALSE, {}), Launch("event") >> \o init_scheduler(Program.init)
  \o << Launch("stream") >>

stream_configure_and_start ==
  CASE use.program = "posix"  -> PosixStart
    [] use.program = "CMSIS"  -> CMSISStart
    [] use.program = "Zephyr" -> ZephyrStart
    [] use.program = "Events" -> EventsStart
    [] OTHER -> init_scheduler(Program.init) \o Resumed

stream_stop_threads == << EndThreads, Join("event"), Join("stream") >>

DeleteQueues(cleared) ==
  Each(LAMBDA k : Delete(queue(k), cleared), Upto(use.queues))

\* Mutant for ThreadsUseLive: the threads are stopped last
CMSISFreeAll_StopsLast == free_scheduler(Program.free) \o DeleteQueues(FALSE)
                            \o stream_stop_threads \o stream_free_memory

PosixFreeAll  == stream_stop_threads \o free_scheduler(Program.free)
                   \o DeleteQueues(TRUE) \o stream_free_memory
CMSISFreeAll  == stream_stop_threads \o free_scheduler(Program.free)
                   \o DeleteQueues(FALSE) \o stream_free_memory
ZephyrFreeAll == stream_stop_threads \o free_scheduler(Program.free)
                   \o DeleteQueues(TRUE) \o stream_free_memory
EventsFreeAll == << Join("stream"), EndThreads, Join("event") >>
                   \o free_scheduler(Program.free) \o DeleteQueues(FALSE)

stream_free_all ==
  CASE use.program = "posix"  -> PosixFreeAll
    [] use.program = "CMSIS"  -> CMSISFreeAll
    [] use.program = "Zephyr" -> ZephyrFreeAll
    [] use.program = "Events" -> EventsFreeAll
    [] OTHER -> free_scheduler(Program.free)

\* stream_wait_for_threads_end()
Wait == << Join("stream"), Join("event") >>

(***************************************************************************)
(* Behaviour.                                                               *)
(***************************************************************************)
\* No pointer has been set
Never == [x \in {} |-> 0]
PointsTo(x) == IF x \in DOMAIN ptr THEN ptr[x] ELSE 0
Objects(x)  == IF x \in DOMAIN alive THEN alive[x] ELSE {}
Lives(x)    == PointsTo(x) \in Objects(x)

\* The pointers xs are set, objects are made, and those of a pointer deleted
Set(xs, value) ==
  ptr' = [x \in DOMAIN ptr \cup xs |-> IF x \in xs THEN value ELSE ptr[x]]
Born(xs) ==
  alive' = [x \in DOMAIN alive \cup xs |->
              IF x \in xs THEN Objects(x) \cup {starts} ELSE alive[x]]
Dies(xs, object) ==
  alive' = [x \in DOMAIN alive \cup xs |->
              IF x \in xs THEN Objects(x) \ {object} ELSE alive[x]]

Init ==
  /\ use \in Uses
  /\ todo = [a \in Actors |-> <<>>] /\ main = "out" /\ starts = 0
  /\ ptr = Never /\ alive = Never
  /\ thread = [t \in Threads |-> "none"] /\ handle = {} /\ ending = FALSE
  /\ twice = {} /\ dangling = {}

Next1(a, kind) == todo[a] # <<>> /\ Head(todo[a]).do = kind /\ main # "exited"
Going(a) == todo' = [todo EXCEPT ![a] = Tail(@)]

\* The objects that a step reads
Reads(step) == dangling' = dangling \cup {x \in step.over : ~Lives(x)}

Start ==
  /\ main = "out" /\ starts < MaxStarts /\ (starts > 0 => use.restarts)
  /\ main' = "starting" /\ starts' = starts + 1
  /\ todo' = [todo EXCEPT !["main"] = stream_configure_and_start]
  /\ UNCHANGED <<use, ptr, alive, thread, handle, ending, twice, dangling>>

Make(a) ==
  LET step == Head(todo[a])
      made == {step.what} \cup step.with
  IN  /\ Next1(a, "new") /\ Going(a) /\ Reads(step)
      /\ Set(made, starts) /\ Born(made)
      /\ UNCHANGED <<use, main, starts, thread, handle, ending, twice>>

\* Mutant for NothingTwice: a start that fails frees the graph, and so does main
Fail_FreesGraph ==
  LET step == Head(todo["main"])
      ended == IF thread["event"] = "running" THEN <<EndThreads, Join("event")>> ELSE <<>>
  IN  /\ todo["main"] # <<>> /\ step.fails /\ starts \in use.failing
      /\ main = "starting"
      /\ main' = IF use.program = "Events" THEN "giving up" ELSE main
      /\ todo' = [todo EXCEPT !["main"] = ended \o free_scheduler(Program.free)]
      /\ Set(IF step.do = "new" THEN {step.what} ELSE {}, 0)
      /\ UNCHANGED <<use, starts, alive, thread, handle, ending, twice, dangling>>

\* What goes wrong and is tested ends the start.  An event thread that runs
\* already is ended: by stream_start_threads(), or by the main of the events.
Fail ==
  LET step == Head(todo["main"])
      ended == IF thread["event"] = "running" THEN <<EndThreads, Join("event")>> ELSE <<>>
  IN  /\ todo["main"] # <<>> /\ step.fails /\ starts \in use.failing
      /\ main = "starting"
      /\ main' = IF use.program = "Events" THEN "giving up" ELSE main
      /\ todo' = [todo EXCEPT !["main"] = ended]
      /\ Set(IF step.do = "new" THEN {step.what} ELSE {}, 0)
      /\ UNCHANGED <<use, starts, alive, thread, handle, ending, twice, dangling>>

Use(a) ==
  /\ Next1(a, "touch") /\ Going(a) /\ Reads(Head(todo[a]))
  /\ UNCHANGED <<use, main, starts, ptr, alive, thread, handle, ending, twice>>

LaunchThread(a) ==
  /\ Next1(a, "launch") /\ Going(a)
  /\ thread' = [thread EXCEPT ![Head(todo[a]).what] = "running"]
  /\ handle' = handle \cup {Head(todo[a]).what}
  /\ ending' = FALSE
  /\ UNCHANGED <<use, main, starts, ptr, alive, twice, dangling>>

AskToEnd(a) ==
  /\ Next1(a, "end") /\ Going(a)
  /\ ending' = TRUE
  /\ UNCHANGED <<use, main, starts, ptr, alive, thread, handle, twice, dangling>>

\* A thread that joins itself is detached instead and goes on; one whose handle
\* is NULL is not waited for
JoinThread(a) ==
  LET t == Head(todo[a]).what
  IN  /\ Next1(a, "join") /\ Going(a)
      /\ t = a \/ t \notin handle \/ thread[t] = "ended"
      /\ handle' = handle \ {t}
      /\ UNCHANGED <<use, main, starts, ptr, alive, thread, ending, twice, dangling>>

\* What holds blocks of the pools
Holders(x) ==
  IF x \notin Pools THEN {}
  ELSE {y \in DOMAIN alive : y[1] \in {"queue", "node", "fifo"} /\ alive[y] # {}}

Destroy(a) ==
  LET step == Head(todo[a])
      x == step.what
  IN  /\ Next1(a, "delete") /\ Going(a)
      /\ twice' = IF PointsTo(x) = 0 \/ Lives(x) THEN twice ELSE twice \cup {x}
      /\ Dies({x} \cup Parts(x), PointsTo(x))
      /\ Set(IF step.cleared THEN {x} ELSE {}, 0)
      /\ dangling' = dangling \cup Holders(x)
      /\ UNCHANGED <<use, main, starts, thread, handle, ending>>

\* The runtime threads end when they are asked to, the stream thread of the
\* events when its schedule ends
ThreadEnds(t) ==
  /\ thread[t] = "running" /\ main # "exited"
  /\ ending \/ (t = "stream" /\ use.program = "Events")
  /\ thread' = [thread EXCEPT ![t] = "ended"]
  /\ UNCHANGED <<use, todo, main, starts, ptr, alive, handle, ending, twice, dangling>>

\* handle_error() of the examples, while the other thread waits for a
\* resumption: it frees everything and leaves the process
HandleError(t) ==
  /\ main \in {"running", "waiting"} /\ t \in use.handlers /\ ~ending
  /\ \A u \in Threads : thread[u] = "running"
  /\ thread' = [thread EXCEPT ![t] = "freeing"]
  /\ todo' = [todo EXCEPT ![t] = stream_free_all]
  /\ UNCHANGED <<use, main, starts, ptr, alive, handle, ending, twice, dangling>>

Exit(t) ==
  /\ thread[t] = "freeing" /\ todo[t] = <<>> /\ main # "exited"
  /\ main' = "exited"
  /\ UNCHANGED <<use, todo, starts, ptr, alive, thread, handle, ending, twice, dangling>>

\* What the main thread does after the steps of a part of it
MainGoesOn ==
  /\ todo["main"] = <<>>
  /\ \/ /\ main = "starting" /\ main' = IF use.waits THEN "waiting" ELSE "running"
        /\ todo' = [todo EXCEPT !["main"] = IF use.waits THEN Wait ELSE <<>>]
     \/ /\ main = "giving up" /\ main' = "exited" /\ UNCHANGED todo
     \/ /\ main = "waiting" \/ (main = "running" /\ use.frees)
        /\ main' = "freeing"
        /\ todo' = [todo EXCEPT !["main"] = stream_free_all]
     \/ /\ main = "freeing" /\ main' = "out"
        /\ UNCHANGED todo
  /\ UNCHANGED <<use, starts, ptr, alive, thread, handle, ending, twice, dangling>>

Next ==
  \/ Start \/ Fail \/ MainGoesOn
  \/ \E a \in Actors :
       Make(a) \/ Use(a) \/ LaunchThread(a) \/ AskToEnd(a) \/ JoinThread(a) \/ Destroy(a)
  \/ \E t \in Threads : ThreadEnds(t) \/ HandleError(t) \/ Exit(t)

Spec == Init /\ [][Next]_vars

(***************************************************************************)
(* Properties.                                                              *)
(***************************************************************************)

\* Nothing is deleted twice, whoever frees and at whichever step the first start
\* has failed: free_scheduler() and stream_free_all() test pointers that keep
\* their values after a deletion.
NothingTwice == twice = {}

\* After stream_free_all() nothing is left of what the start has made, complete
\* or not, but for two kinds of objects that CMSIS-RTOS applications never
\* delete: the timers and the event flags of the queues.
Forgotten == {x \in DOMAIN alive : x[1] \in {"timer", "queue flags"}}
Freed == main = "out" \/ \E t \in Threads : thread[t] = "freeing" /\ todo[t] = <<>>
AllReleased == Freed => \A x \in DOMAIN alive \ Forgotten : alive[x] = {}

\* What a thread works with: its queues and the memory of the platform, and the
\* graph once it has been started
QueuesNeeded == {queue(k) : k \in 0..(use.queues - 1)}
RingsNeeded  == UNION {Rings(k) : k \in 0..(use.queues - 1)}
PoolsNeeded  == IF use.program = "CMSIS" THEN Pools ELSE {}
BaseNeeds    == QueuesNeeded \cup RingsNeeded \cup PoolsNeeded
Needs == BaseNeeds \cup (IF main \in {"starting", "giving up"} THEN {} ELSE Graph(Program))

\* No runtime thread works, and no constructor, subscription or destructor is
\* called, with a part of the graph, a queue or a pool that is not there yet or
\* no longer, the caller of the error handler excepted (stream_free_all()).
ThreadsUseLive ==
  /\ dangling = {}
  /\ \A t \in Threads : thread[t] = "running" => \A x \in Needs : Lives(x)
=============================================================================

# CMSIS-Stream: a TLA+ verification project

CMSIS-Stream runs graphs of processing nodes on embedded targets. A Python
package computes a static schedule of the dataflow part of a graph, gives memory
to its FIFOs and generates C++ for it. A small C++ runtime executes that
schedule on one thread, delivers the events that nodes exchange on a second one,
and lets the application pause, switch and stop the whole.

This directory models the parts whose correctness depends on the order of steps,
checks them with TLC on small instances, and proves part of the results with
TLAPS for all instances. `PROJECT.json` lists every definition with the source
lines it stands for, every run, every mutant that shows a property can fail, and
the hazards of the code with the properties that watch them.

## 1. The system

Paths are relative to `src/`; `PY` is `PythonPackage/cmsis_stream/cg/scheduler`.

| Component | State it keeps | Operations | What is hard |
|---|---|---|---|
| Event queue (`platform/EventQueue.hpp`, `*/stream_event_queue.cpp`) | a ring per priority, counters, `mustPause_`, `mustEnd_`, a pending error, a wake-up event | `push`, `execute`, `clear`, `pause`, `resume`, `end`, `setError`, `consumeError`, `clearError` | pushes of several threads against `execute` and `clear`; flags tested outside the lock; lost wake-ups; errors set while the thread leaves |
| Runtime control (`*/stream_runtime_init.cpp`) | two sets of event flags, the current context, the two threads, a stop request | start, pause, resume or switch, stop, wait; the functions of the two threads | acknowledgments that several waiters share, flags left over from an earlier call, errors on both threads at once, a stop from anywhere |
| Static scheduling (`PY/description.py`, `PY/node.py`) | graph, null vector, FIFO occupancy, position in each cycle | insert Duplicates, topology matrix, greedy choice, priority to the sinks | loops, cyclo-static rates, a second pass inside the lengths of the first |
| Memory of the FIFOs (`PY/description.py`) | lifetimes, interference graph, colours, imposed buffers, skipped copies | `initializeFIFODescriptions` | memory shared by FIFOs that are live together around a Duplicate |
| Stream FIFOs (`platform/GenericNodes.hpp`) | buffer, `readPos`, `writePos` | `getReadBuffer`, `getWriteBuffer`, `reset` | realignment; no check at run time |
| Generated scheduler (`PY/templates/*.cpp`) | position in the schedule, error, callback state | the loop, `reset_fifos`, the asynchronous tests, re-entry | left and entered again in the middle of a period |
| Event outputs (`platform/EventQueue.hpp`, `StreamNode.hpp`) | subscriber lists, the pool of blocks for lists of values | send to nodes and to the application, synchronously or queued; move, clone, apply, destroy | a queue that refuses the event of the second subscriber; a pool shared by both threads, which may wait for a block |
| Payloads (`platform/StreamNode.hpp`) | handles, objects, their mutexes | create, copy, move, assign, reset, drop, lock | who is alone; a mutex deleted while held; lock order of an assignment |
| Packed events (`platform/cg_pack.hpp`, `PY/../../events.py`) | none between calls | pack and unpack, in C++ and in Python | two programs that must agree on every tag |
| Host connection (`Examples/events/host_com.cpp`, `send_events.py`) | the served connection, its receiver, the messages for the host | accept, receive, take, send, clean, close | messages cut anywhere; a host that comes after another; a full kernel; a closed socket |
| Event display (`platform/EventDisplay.hpp`) | none | print | none |
| YAML descriptions (`PY/../yaml`, `PY/config.py`) | the graph and configuration of a script, the file, their copies; counters of node names that all graphs share | export, import, connect | reader and writer are two programs; keys that one omits and the other requires |
| Startup and release (`*/config/stream_init.cpp`, `init_` and `free_` of the generated code, the mains) | global pointers to FIFOs, nodes, queues, pools, threads | start, fail, wait, handle an error, free | a start that stops half-way; pointers that outlive their objects; a release from inside a runtime thread |
| Code generation (`PY/ccode.py`, templates) | none between calls | expansion of templates | none in reach of a model checker |

How they interact: the Python side runs first, and hands the generated program
only the schedule, the lengths of the FIFOs, the assignment of buffers and the
arguments of the nodes. In the program the stream thread runs the loop; before
each node it polls the flags of the control protocol. Nodes, and applications,
push events into the queue of the graph; the event thread executes them. An error
of a node or of an event makes its thread pause the other one, report to the
application and wait to be resumed. The application pauses both threads, clears
the queue, may replace the current graph, and resumes: the stream thread then
resets the FIFOs and starts the period again.

What makes each part correct:

- the queue is a bounded priority queue, first-in first-out within a priority;
  a pause lets at most one event through; no wake-up, and no error, is lost;
- after a pause both threads are at rest and stay so; after a switch both run
  the new graph, with its nodes resumed; every call returns; a stop ends both
  threads; the application learns of an error while the other thread is at rest;
- one period of the schedule brings every FIFO back to where it began; a graph
  is refused only when no order of executions exists;
- the FIFOs never leave their buffers; a node reads exactly the samples that were
  produced for it, whatever memory is shared and wherever the loop is left; a
  node that is resumed knows it;
- a block of the pool is held by exactly one event; a send reaches its
  subscribers in turn, once each, and settles;
- an owner that is told it is alone stays alone while it holds the mutex, and
  a mutex lives as long as somebody holds it;
- a graph and a host each hear what the other says, in order, and never what
  was meant for another, the host as long as no frame to it stops in the middle;
- what a script describes comes back from its file as it was, or the import says
  that it does not;
- whatever a start has made is released once, and nobody uses it afterwards.

## 2. Modules

| Module | Models | Uses |
|---|---|---|
| `PriorityQueue` | abstract: what the event queue promises | |
| `EventQueue` | the queue, one action per access to shared state | refines `PriorityQueue` |
| `RuntimeControl` | the control protocol and both threads, on three platforms | |
| `EventOutput` | sends, handlers and the pool of lists | |
| `StaticSchedule` | graph to schedule | |
| `FIFOAllocation` | scheduled graph to buffers and copies | extends `StaticSchedule` |
| `DataflowRun` | the generated program over those buffers | extends `FIFOAllocation` |
| `FIFOClasses` | the FIFO classes as operators on positions | |
| `StreamFIFO` | one FIFO with its memory | extends `FIFOClasses` |
| `CommittedPrograms` | data: the schedulers committed with the repository | |
| `GeneratedProgram` | the scheduler function, all modes | extends `FIFOClasses` |
| `ProtectedBuffer` | handles, objects and mutexes of event payloads | |
| `PackedEvents` | the format of packed events, both languages | |
| `HostLink` | nodes, network thread and hosts | extends `PackedEvents` |
| `ConfigurationFile` | the options of the generator and their file | |
| `GraphDescription` | scripts, graphs and their files, export and import | extends `ConfigurationFile` |
| `ApplicationLifecycle` | startup and release of six programs | |
| `EventQueueProofs`, `RuntimeControlProofs`, `HostLinkProofs` | theorems | the module each is named after |
| `EventOutputProofs` | theorems about `EventOutput` and `ProtectedBuffer` | extends the first, instantiates the second |
| `GeneratedProgramProofs` | theorems about `GeneratedProgram` and `StreamFIFO` | extends the first, instantiates the second |
| `LifecycleProofs` | theorems about `ApplicationLifecycle` | extends it |
| `GraphDescriptionProofs` | theorems about `GraphDescription` and `ConfigurationFile` | extends the first |
| `DataflowProofs` | theorems about `StaticSchedule`, `FIFOAllocation` and `DataflowRun` | extends `DataflowRun` |
| `MCEventQueue`, `MCRuntimeControl`, `MCDataflow`, `MCPrograms`, `MCEventOutput`, `MCHostLink`, `MCGraphDescription`, `MCLifecycle` | instances for TLC | |

### EventQueue

`queue`, `read`, `write` and `nb_elems` are the rings; `queue_mutex` is held
across several steps where `push` calls `setError` inside its critical section
(posix), elsewhere a critical section is one step. `pushPc`, `errPc`, `execPc`
and `ctlPc` say where each thread is. `push()` is `PushCheck` (the pause test, before
the lock), `PushStore`, `PushFullError` or `PushFullDrop`, `PushUnlock`,
`PushNotify`; `execute()` is the chain `ExecOuter` to `ExecTail`. The part of the
event thread and of the control functions that touches the queue is included, so
that `execute()` is called the way the runtime calls it. Three histories carry
what properties need: `late` counts events handed out since `mustPause_` was set,
`report` is the last error read, and the messages carry their origin, which the
code never reads.

The variable `platform` chooses the runtime once, in the initial state. On posix a
full ring calls `setError` (`OverflowIsError`), elsewhere the event is dropped; on
Zephyr the wait for the wake-up event and its clearing are two steps, elsewhere
one. The queue of CMSIS-RTOS drops and waits in one step: what it does is among
what Zephyr's does, and no run selects it.

The clock is abstract: an event with a time-to-live may be found expired at any
time. Handlers push, succeed or fail freely. `StreamProducers` are threads that a
pause parks; `ExternalProducers` are not parked.

### RuntimeControl

`streamEvent` and `replyEvent` are the two flag sets. `pc` has one label per
blocking point or store of each function. Of the scheduler only how it returns is
kept, of the queue only its three flags. `view` is what the application believes;
`reported` is what its handler was told.

A `use` says what the application makes of the runtime: the platform, the
graphs, who pauses, stops and waits, what may fail, and the bounds. It is chosen
once. The platform changes three things: the flags outlive a stop on posix
(`FlagsSurvive`); on Zephyr `k_event_wait()` leaves the flags for a later
`k_event_clear()`, so a wait is two steps and `found` keeps what the first has seen
(`AtomicWait` is false); and an event thread whose peer does not start is ended in
another way.

Simplifying assumptions: the error handler stops the runtime only when no
supervising thread does (`IsUse`), since two stops join the same thread object;
thread priorities and mutex failures are left out; `StreamResume` loads
the context, clears the request and resumes the nodes in one step.

### EventOutput

Each thread has a stack of calls: sends and handlers. A send walks `mNodes` of its
output, moves the event to a single subscriber or clones it for each of several,
and pushes or calls. An event
with a list holds one of the blocks counted by `free`; construction, clone, move,
`apply()` and destruction take and give them. On CMSIS-RTOS an allocation that
fails makes the event `kNoEvent`; on Zephyr it waits. The queue is the abstract
one, with one priority: `ImplementsPriorityQueue` is what allows it. A handler makes
at most one send; nesting is bounded by `MaxDepth`. `probe` follows one send
through the system, which stands for every send.

Assumptions: synchronous sends come from handlers only; a handler passes an event
on only when `apply()` has not consumed it; the queue is cleared when both
threads rest, or after its end.

### StaticSchedule, FIFOAllocation, DataflowRun

A graph is a set of edges with rates, delays and constraints on buffers. The
state of the Python package goes through phases: `insertDuplicates`,
`topologyMatrix` (matrix, null vector and initial state), `selectGreedy` for each
execution of the first pass, `selectSinks` for each of the second, then
`initializeFIFODescriptions`, or an exception at any of these. The order in which
nodes are sorted depends on names and is left open (`sorted`), so every tie is
broken in every way. The same is done for the colouring: `OptimalColourings` is the
set of all the colourings with the fewest colours.

`startScheduler` then drops what the generated program does not contain and
builds the memory: one array per class of FIFOs that share a buffer. A node
executes in two steps, `readInputs` (the pointers are taken) and `writeOutputs` (outputs
are realigned and filled), so that a property can look at the inputs while
the outputs are being written. A sample is named after the output that produced
it and its number. `errorHandling` leaves the loop before a node or inside it,
and `resume` is `reset_fifos(1)` followed by a new call of the scheduler.

With priority to the sinks, `StaticSchedule` yields exactly the committed
schedules of `Examples/example1` (17 executions), `Examples/cyclo` (26) and the
seventh test of `Examples/buffer/constraint_test.py` (27), with their FIFO
lengths.

External, and so assumptions of `DataflowRun`: a node asks for the
number of samples its description states, a cyclo-static node follows its cycle
from the start after a reset, and a FIFO with an imposed buffer has no delay (who
clears that buffer is the user's business). All samples have one type.

### FIFOClasses, StreamFIFO

`FIFOClasses` has one operator per method of the FIFO classes of
`GenericNodes.hpp`; the synchronous and the asynchronous FIFO are one code. In
`StreamFIFO` the memory is an array of numbered samples, and realignment is a
`memcpy()` that the C library may do upwards or downwards (`CopyOrders`), which differs
when the two ranges overlap. Going down loses samples; the properties about their
order assume a `memcpy()` that goes up.

### CommittedPrograms, GeneratedProgram

`CommittedPrograms` is transcribed from the 36 generated schedulers with a
`schedule[]` that the examples and tests contain: FIFOs with their lengths, classes
and buffers, nodes with their rates, the order of the cases, that of the tests before
them in the asynchronous mode, and the array. That both orders agree, and that no FIFOs of an
asynchronous program share a buffer, are assumptions of `GeneratedProgram`, which TLC
evaluates for all of them.
`GeneratedProgram` runs any such record the way the templates do:

- a call (`StartScheduler`) of a program on the stack makes fresh FIFOs and nodes, and
  does not clear the buffers; a program on the heap calls `reset_fifos(1)`, unless
  a callback has paused it;
- in the asynchronous mode `PrepareNode` makes the tests for underflow and
  overflow, and `SkipNode` goes on to the next entry;
- `RunNode` runs a node, which may fail or, in the callback mode, pause; the
  next call goes on at the saved place.

`config.debug` is the freedom to return after any iteration. What a buffer holds is
abstracted to who wrote it, with a parity, which tells a fresh block of samples
from the one before.

### ProtectedBuffer

`obj` and `mutex` are the two pointers of each handle; an object and its mutex have
one name. An operation is begun, takes the mutexes it needs (an assignment needs
two), acts, leaves them, and in an assignment re-binds the destination's mutex
outside both (`Rebind`). Threads keep the C++ rule for `const` and
non-`const` uses of one handle. `SharedReaders` and `SelfLock` are what the mutexes
of the three platforms do.

### PackedEvents, HostLink

A message is a sequence of units: a field of the format, or one element of a
value, whatever its width. There is one operator for each of the four functions:
pack and unpack, C++ and Python, tag by tag as written, with their differences. A
kind of value that one side reads otherwise than the other wrote is visible as
such; see "Met while reading".

In `HostLink` the header of a message is two units. The network thread is one
action per step: `NAccept`, `NEnd` and `NClean` around a connection; `NRecv...`,
`NHandle` and `NParsed` for what comes; `NTake`, `NSend...` and `NDrained` for what goes,
with the mutex of `process_queue()` held from its entry until the queue is
empty; `NKilled` (a write to a socket the host has reset ends the program by
SIGPIPE) and `NClose`. Hosts connect while another is being served, send, read and go
away at any time. The streams are cut at multiples of `Chunks`, at the end of what is
there, and at `Room`. When `send_all()` abandons a frame half-way, the frames behind it
are sent on the same stream, and the host completes the message with their bytes and
reads it, as in the code. Two histories say when that begins: `garbled`, the connections
it has happened to, and `whole`, the frames sent whole before. `Intact(c)` messages of
a host are those that `HostHearsGraph` speaks of: all while no frame was abandoned,
and after that the first `whole[c]`. The event queue behind takes everything.

### ConfigurationFile, GraphDescription

A script creates nodes and connects them; `connect` gives every edge its FIFO class,
delay, length and buffer, and raises when the ends do not fit. `ExportedGraph` is the
document that `export_graph()` makes of a graph: a list of node entries with only the
keys the exporter writes, a list of edges, a list of types. `ImportedGraph` reads such
a document as `import_graph()` does: types, constants, nodes by kind, then edges; a
key that is required and missing is a failure. `ExportedConfig` and `ImportedConfig`
do the same with the options. The behaviour: a script builds a graph (edge by edge),
exports it, imports the file in the same script or in a new one (`CountedBy`: the
number of a function is counted in a variable of the class, for all the graphs of a
script), and exports and imports the copy again. The text of YAML is external: a
document is a record, and a key that may be missing has a sequence of no or one value.

The order of nodes is that in which the edges meet them (`NodesMet`), the order of the types that in
which the nodes need them (`CustomTypes`): a dictionary keeps the first of each key, as `Firsts`
does. `NodeMade` says what the constructors of `node.py` can make of a node, whatever its
parts: IOs with different names, the event queue before the other arguments, alike IOs
where a class has lists of them. `SameGraph` compares a graph with its copy: the same edges in
the same order between the same ports of the same nodes, with names as C++ writes the types,
where the number of a function may change and a length or a delay of zero is none. `Portable` says what
a file can hold; what it excludes is listed in section 5.

### ApplicationLifecycle

`todo` is what a thread has still to do: a sequence of the steps new, touch, launch,
end, join, delete, which the operators named for the functions of the code build: `PosixStart`,
`CMSISStart`, `ZephyrStart` and `EventsStart` with `init_scheduler` inside, `PosixFreeAll` and
the others with `free_scheduler` inside. An object is identified by the start that has made it,
so a pointer (`ptr`) can outlive its object (`alive`). The rings of a queue, and its flags on
CMSIS-RTOS, are made and deleted in one step with it (`Parts`, `with`). `Fail` ends a start at any step
that the code tests. `HandleError` is the error handler of the examples, which frees
everything from inside a runtime thread and leaves the process. `Example10Init`,
`CallbackInit` and the others are the tables of six committed programs: each node with the FIFOs its
constructor is given, in order. `UsesAssumption` says which program runs on which platform.

## 3. Runs

| Run | Question | States |
|---|---|---|
| `queue` | Posix and Zephyr, two priorities of two slots, three pushes by the stream thread and one by handlers, a pause, clear, resumption and end, failing handlers: are the rings consistent, do they implement `PriorityQueue`, is no park silent, nothing left while paused; is a report whole; do events leave, pauses park, ends terminate? | 470,125 |
| `control` | Eleven uses over three platforms (below): are threads at rest after a pause, on the current graph after a switch, is no context null, does a resumption succeed, is the peer at rest while an error is reported; does every call return when no event fails, does a stop end both threads, is a single error always reported? | 54,940 |
| `dataflow` | About 720 small graphs in four configurations, from description to two iterations, one interruption anywhere and a restart: periodic schedules, justified refusals, FIFOs in bounds, inputs intact | |
| `programs` | The committed schedulers, and the callback example made asynchronous, run for ever with pauses, errors and new calls: bounds, shared buffers intact, a resumed node is told, no node starves | 25,891 |
| `stream_fifo` | One FIFO of length 7 with delay 3, amounts 1, 2 and 5, reset at any time: do the samples leave once and in order? | |
| `event_output` | The dataflow thread and two levels of handlers send through a queue of two slots: no block is lost, a send reaches a prefix of its subscribers, every send settles | 512,041 |
| `protected` | Two threads, three handles, two objects, three operations each: who is alone, which mutex, who can block whom | |
| `host_link` | Two hosts one behind the other: each side hears the other, in order and nothing else (the host up to the first frame abandoned in the middle), and what a host sends arrives | 1,064,750 |
| `yaml` | Graphs of two edges over nodes of every class, with all kinds of edges, and configurations of two options, exported, imported and once more: is the copy what the script described, as far as a file can hold it; is a copy of the copy the same; does the configuration survive? | 166,000 |
| `lifecycle` | Six programs with their mains and supervised ones of two graphs, on three platforms, started up to three times, the first start failing anywhere, freed by the main or an error handler: is nothing deleted twice, nothing left over, nothing used before or after its life? | 2,054 |
| `control_pause_on_error`, `dataflow_sink_buffers` | the findings, section 5 | violated |

Except in `event_output`, `programs` and `stream_fifo`, the configurations say
`CHECK_DEADLOCK FALSE`: every bound may be reached, a queue ended, a runtime
stopped, a graph refused, a connection closed, and nothing has to happen after
that.

### Bounds

- `queue`: two slots and three pushes fill a ring, overflow it and wrap its indices;
  two priorities and an event above the highest show ordering and clamping. One
  pause and one resumption let an error, a push and a late handler fall on each
  side of each.
- `control`: `Switch` (two dataflow graphs, up to five pauses and resumptions, two
  starts, threads that may not start), `EventOnly` (a graph of events), `Faulty` (two
  errors, a supervising thread that stops and waits), `Handler` (the error handler
  stops the runtime) and `Recovery` (one error, resumptions that may fail), on
  CMSIS-RTOS and on Zephyr, and `Switch` with one start on posix. Five calls make two
  complete switches of graph, enough for a flag left over from one to meet the
  next. Two faults make both threads fail together. Two starts show what survives a
  stop.
- `dataflow`: loops of two nodes, chains of three, an output with two readers,
  branches that meet again, joins, pipelines of four, and the graphs of
  `constraint_test.py`; rates 1, 2, 3 and the cycle 1, 2; delays 0 to 3. These
  contain inconsistent rates, loops that cannot start, FIFOs used as arrays and
  not, memory that is used again, and each exception that the two modules can
  raise. `MaxRepetition` bounds the entries of the null vector, `MaxPeriod` the
  cycles; a graph that needed more would be taken for unschedulable. `DebugLimit` is
  the code's own `config.debugLimit`; the second iteration is the one that starts
  from the state the first has left.
- `programs`: no bound. The positions and parities are finite and the run
  explores them all.
- `stream_fifo`: `MaxSamples` lets the positions go through every phase of a length
  of 7 more than once; the proofs have no bound.
- `event_output`: two slots of the queue fill with the two subscribers of one send; the
  nesting (a send, its handler, and the send of that handler) is what `MaxDepth` 3
  allows. The Zephyr pool has `Capacity + 2 + MaxDepth` = 7 blocks. This is exactly
  enough: with six both threads can wait for a block for ever.
- `protected`: a third handle lets an assignment and a copy meet on one object; three
  operations per thread suffice to create, share and then drop or assign.
- `host_link`: two connections show what one host leaves for the next; `MaxHostMsgs`
  2 and three messages overflow the queue; `Room` 20 is less than what a host can be
  sent, so a host that does not read makes a frame stop in the middle, and one that reads again
  is given the next frame behind the half one; pieces of 7 units cut headers and messages.
- `yaml`: two edges let every pair of node classes meet with every setting of an edge, and an
  edge with a default FIFO stand beside one that has its own; the second import in one
  script is where the shared counters show. Four scripts of four or five nodes.
- `lifecycle`: three starts let what the first has left meet two more. `failing` is
  {1}: only the first start of an application fails, see section 5.

### Fairness

Weak fairness is given to each thread for what it has begun: in `EventQueue` and
`RuntimeControl` the two runtime threads, a push, a call of the control API; in
`EventOutput` the steps of a thread inside a call, and `Execute` (the event thread, which
loops); in `ProtectedBuffer` the operation under way; in `HostLink` the network
thread only; in `GeneratedProgram` the loop and the caller that calls the scheduler
again. Threads are scheduled by an operating system and waits are untimed, so a
step that stays enabled is taken. Nobody has to push, pause, resume, stop, end or
fail; no host has to connect, send or read. The other modules need no fairness.

## 4. Proofs

From `ConstantsAssumption` of each module (`FIFOAssumption`, `ProgramsAssumption`,
`HostLinkAssumption`, `UsesAssumption`, and for the dataflow modules those named below), for every value of the
constants.

`EventQueueProofs`, for any number of threads, priorities, slots, kinds of events:

- `TypeCorrect`: `TypeOK` is not inductive: that a stored message is a
  message needs `PushHolds` (a thread about to store holds one), so `TypeInv` is
  their conjunction.
- `RingsStayConsistent`: every ring holds `nb_elems` messages of its level from
  its read index on and nothing elsewhere. The argument is about the distance of
  a slot from the read index, modulo the size of the ring: `LiveDistance` turns
  "one of the next `nb_elems` slots" into a comparison, `EnqueueDistance` and
  `DequeueDistance` say what one operation does to it.
- `PauseLetsOneThrough`: at most one event is handed out after a pause. The
  invariant `LateInv` adds where the event thread may be when `late` is 0 or 1.

By invariants over the event thread, the threads that push and the one that controls:

- `PausedQueueStaysEmpty` and `ParksAreTold`: `RestInv` says who is at rest while the
  controlling thread clears and resumes (`ParkInv`), that calls nest (`CallsNested`) and why
  a thread is parked (`ParkReason`). Both assume `ExternalProducers = {}`: a
  thread that the runtime does not park may have passed the test of `mustPause_` before
  the pause and store after the clear, and the run has only producers that are parked.
- `ReportsAreWhole` by `WholeInv`: where a full ring drops events only the event thread
  sets errors, and it reads them itself.

Its last section, for the same constants, is the refinement: `QueueImplementsPriorityQueue`. The
abstract sequence of a level is the `Window` of its ring: the next `nb_elems` slots from the
read index on. `WindowAppend` and `WindowTail` say what storing after the
window and advancing the read index do to it; `EnqueueIsPut`, `DequeueIsTake` and `ClearIsFlush`
map the accesses to abstract steps and `UnchangedStutters` the others to stutters;
`HandStep` keeps what relates the event that is being handled to the one taken.

`RuntimeControlProofs`, for any number of graphs, pauses, switches and starts, on each
platform: `PausesAreQuiet`, `SwitchMovesBoth`, `ContextIsThere` and `ResumptionsSucceed`,
under `Calm`: one application thread, no failing node and no failing event (the
second thread may fail to start), graphs that are all of dataflow nodes or all of
events, and one start on posix. Each condition is needed: with errors in flight an
acknowledgment can be taken by the wrong waiter, a graph without dataflow nodes leaves
its stream thread where a graph with some does not expect it, and the posix flags outlive
a stop (section 5). The inductive invariant `CalmInv` gives, for each place of the
application (`PhaseInv`), the states of the two handshakes (`StreamRuns`, `StreamPausing`,
`StreamRests`, `StreamResuming`, and the same for the event thread): where the thread may
be, and exactly which of its flags is set. The converses, `Whereabouts` and `FlagsTell`
(a place of a thread, or a flag, tells where the application is), carry the steps of
the runtime threads. `FoundInv` is about what `k_event_wait()` has returned and not yet
cleared on Zephyr, `LifeInv` about which threads exist, `StartInv` about the event
thread that runs before the stream thread does.

The last section of the same module is about errors: `ReportsAreQuiet`, under `Unpaused`: nobody
pauses, and posix is started once. Any number of threads may stop and wait, nodes,
events and starts may fail without a bound, the error handler may stop the runtime, and
CMSIS-RTOS and Zephyr may be started again as often as one likes. Here the phases of
`CalmInv` are of no use, as the two threads may fail at any moment, and together. What
carries the proof is `ErrorInv`: until somebody stops the runtime, the threads are in the
`Places` of a run that nobody pauses, and an acknowledgment that is posted, or found and
not yet cleared, means that the other thread waits to be resumed (`Acknowledged`); hence so
does a report, which follows an acknowledgment. `LifeKnown` says what a new start finds. Both conditions are
needed. With restarts on posix an acknowledgment outlives the threads
and the next graph's report takes it for its own. With pauses and two faults the one
acknowledgment serves the pause and the report, and the thread that was quiet for the one is
resumed before the other ends. TLC finds a counterexample of each when the
bounds of a use are raised; the run's `Recovery` has pauses and one fault, and there the
property holds.

`EventOutputProofs`, for every graph of subscriptions, pool, queue, nesting of handlers and
platform:

- `EveryBlockAccounted`. `Inv` adds to the property the shape of what it counts: what a
  call may hold at each of its stages (`FrameOK`), that only a send which has given
  its copy away has a call above it (`Waits`), that sends and handlers alternate
  (`StackOK`). The blocks of a thread are those of its events and of its copies (`Held`);
  `HeldGrown` and `HeldFront` say what one call more or less does to them, `QueuedGrown` and
  `QueuedTail` the same for the queue. There is one lemma per action.
- `SendsReachAPrefix`. `PInv` follows the chosen send: it has reached its first `n`
  subscribers and no other, where a message on its way and a call in progress count
  (`PrefixReached`); `n` is where its frame stands (`FrameFollowed`), and there is one such frame
  (`OneChosen`). A send that could not make its event returns true on CMSIS-RTOS and has
  reached nobody, so the property asks for a pool that is large enough. `BlockLeft`
  shows that it is: by `HeldBelow` and `HeldBound` each call holds at most one block, with one
  more at the top of a stack, and the depth of the stacks is bounded.

The last section of the same module is about `ProtectedBuffer`, instantiated as `Buffers`, for any number
of threads, handles and objects and every kind of mutex, under the assumption that module makes of
its constants (`Buffers!ConstantsAssumption`, evaluated by the run `protected`): `OwnersAreTold`
(who is told it is alone stays alone), `WritersAlone`, `MutexFollowsObject`,
`MutexOutlivesHolder`, and `HandlesTypeCorrect`. One inductive invariant, `HandlesInv`,
serves all: the shape of an operation and of what it holds at each point,
that a handle being changed is in nobody else's use, that mutexes exclude, and that
the pointers of a handle agree except while its own `Rebind` is pending. It has
one lemma per action.

`GeneratedProgramProofs`, for any set of programs:

- `ResumptionIsTold` by `ResumeInv`: the callback state, the place in the schedule and the mark of
  the node that paused agree, so its first call after a pause, and no other call,
  is told of a resumption.
- `AsyncBounds` by `BoundsInv`: in the asynchronous mode no FIFO leaves its length, since
  nothing moves between the test of a node and its execution. In the synchronous
  mode this depends on the schedule, and `programs` checks the committed ones.
- `AsyncReadsIntact` by `AsyncInv`: in the asynchronous mode a node reads samples of the
  producer of its FIFO or the delay, after errors, pauses and new calls too. The strengthening: a
  buffer holds nothing yet or the samples of its FIFO, and a FIFO without a delay whose
  buffer holds nothing yet has nothing to read. It uses `AsyncAssumption` (in this
  mode every FIFO has a buffer for itself, and no FIFO is an array), which TLC evaluates
  for the committed programs.

The last section of the same module is about `StreamFIFO`, for any length, delay and amounts:

- `PositionsStayInside` by `PosInv`: the distance of the positions is what has entered
  and not left.
- `SamplesStayInOrder` by `OrderInv`: the cells between the positions hold the next samples
  in order; hence `EveryReadInOrder`. Both assume `CopyOrders = {"ascending"}`.

`HostLinkProofs`, for any number of hosts, events, nodes and messages in the queue, any cuts
of the streams and any capacity of the sockets. The theorems about the connection
assume `Readable`: the events have at most `CG_MAX_VALUES` values, each of a kind
that both languages know (integers of Python up to 32 bits; no string and no tensor of
Python; no raw buffer of C++: see section 5). TLC checks both assumptions
in `MCHostLink`.

- `EventsReadByCpp` and `EventsReadByPy`: an event that one language packs, the other unpacks
  as the same event, strings, buffers and elements of tensors of any length included.
  What an unpacker has read after n values is shown for every n by induction; the
  library's induction has an operator as its parameter, so `Induction` is stated for the
  set of the numbers that have a property and proved from `WFMin`. `FlattenSeq`, the
  bytes of a list, is a recursive function; its lemmas come first.
- `NodesHearTheHost` by `UpInv`: what a host has sent is `done` followed by `rest`; the
  nodes have been told `done`, without the events for nodes that do not exist, and
  the buffer of the receiver followed by the stream is `rest` framed. A frame is found
  by its length, so the cuts do not matter.
- `HostsHearTheGraph` by `DownInv`: for each host there are events D it has read, A on their way and
  Q in the queue, which together are a subsequence (`Sub`) of those sent on its
  connection. The header it holds, what it has received, the stream and what is left of
  the frame in hand are A framed; the queue is Q packed. In a stream with an
  abandoned frame (`garbled`) A framed is followed by J, the half frame and whatever is
  sent after it, and the host reads something else than D only when A is empty; D and A
  together are at least the `whole[c]` frames sent before, so those are read first. A
  host that has closed has only D to answer for. `Served` says which
  socket each step of the network thread works on and that the queue is empty before the
  next host is accepted, without which one would hear what was meant for another; `Untouched`,
  that a host that is not accepted yet has been sent nothing.

The length of a message has its 32 bits, in two units of 16; `Readable` assumes that it
fits into them (`Fits`). The widths of the counts inside a message are not in the model: an
array with more elements than its count can hold is not distinguished.

`DataflowProofs`, for any set of graphs: any number of nodes, edges, rates, cycles of rates,
delays and loops, every configuration and every order of the nodes.
`GraphAssumption` says that a graph is finite and not empty, that each rate is
positive somewhere in its cycle, that nodes and outputs have names, that the connections of
one output agree on its rate and its constraint, and that an open output has none;
`PeriodAssumption` and `BoundsAssumption` that the bounds of the model are
numbers and leave every node a period, `NoBufferAssumption` that the absence of a constraint
is not a buffer. TLC evaluates all four in `MCDataflow`.

- `SchedulesArePeriodic` by `ScheduleInv`: while a schedule is made, the counters are what
  the executions so far account for (`Simulates`), and what each prefix leaves in each FIFO
  is not negative and not above the maximum (`Within`). The contents of a FIFO are those of
  `Occupancy`: its delay, plus what the executions of the writer have written, minus what those of
  the reader have read. The null vector balances the two over a period
  (`PeriodsBalance`, from `MovedInCycles`: m cycles of rates move m times the total of one).
- `DeadlocksAreReal`. Suppose some order completes a period and the counters have not reached
  it. At the first place where that order gets further with a node than the simulation, all
  other nodes have run at most as often there as here, so what the node reads is here
  too, and it can run (`NextCanRun`). Hence a deadlock of the greedy choice means that no order
  exists: `ReachableIs` says what the set `Reachable` of the model holds, and
  `NothingReachable` that it misses the period. In the second pass the
  order is the greedy schedule, kept as a witness (`Completes`), and `SinksGoOn` shows that the node also
  finds room: it has written as much there, the readers had read no more, and it fitted.
  `SinkLayersAre` and `LayersHoldNodes` say that the layers hold nodes of the graph.
- `LoopStaysInBounds` by `LoopInv` and `AllocInv`: at each step of a node the distance of the
  positions of a FIFO is the `Occupancy` of the schedule at that place, whichever iteration it is
  (`RunsIs`: the positions in the cycles come back with the schedule), and never more than the
  length. It supposes `ImposedApart`: when the user imposes a
  buffer, not a plain array, on an output of a Duplicate, no other buffer around that Duplicate is
  imposed. The second one would be left out of the copy (section 5) and read while
  empty. `SkippedAreArrays` shows that nothing else than an array is left out otherwise.
- `InputsStayIntact` by four invariants. `LiveInv`: the interval that is recorded for a FIFO
  with plain rates begins before its writer first runs and ends with the last run of its
  reader. `SharingInv`: two FIFOs in one buffer are `Apart`, that is, arrays of which one is
  written while the other holds samples only by the Duplicate that is reading that other
  (`ColoursDiffer`, `SharersAreApart`: two arrays of one colour do not interfere). `DataInv`: from its
  reading position on, each FIFO holds the next samples of its stream (`Holds`), the inputs of a node
  that is running are still where its pointers point (`Shown`), and the buffers are long
  enough (`Room`). `AllocInv`: what the allocation has decided stays.
  `Balance` turns the numbers of executions since the last reset into the contents of the FIFO, with the
  delay, for any number of iterations. The hard step is `WriteKeepsData`: a FIFO that is no
  array is moved to the beginning of its buffer and filled behind what was left (`FIFOHolds`); an
  array is filled by its node, or left out, and then the least output in its buffer is left out
  too, so that the buffer is that of the input, which holds these very samples (`ArrayHolds`);
  what shares memory with a FIFO that is not written was empty or is the Duplicate's own
  (`OthersHold`, `InputStays`). The invariants are proved inductive under `Supported`, which holds
  in every state of the `dataflow` run: buffers imposed around one Duplicate are one
  (`ImposedTogether`, section 5), and a FIFO in an imposed buffer has no delay
  (`NoImposedDelay`: the program does not clear a buffer that the user owns).

The recursive functions of these modules (`Moved`, `Removed`, `Reachable`) exist by `Recursion`, which is
`StepsExist` and `StepsAgree` for approximations up to each number; the induction of the
library has an operator as its parameter.

`LifecycleProofs`, for the six programs, any number of queues, any number of starts, and all
orderly uses of them (`OrderlyUse`, checked for those of the run in `MCLifecycle`): an application
whose error handler frees has a main that does not, and starts after the first succeed. Each
condition is needed (section 5).

- `NothingIsDeletedTwice`, `EverythingIsReleased` and `ThreadsWorkWithWhatLives` by one
  invariant, `Inv`, since none of the three is inductive: it says what the steps that are
  left say of the objects. While a start goes on (`StartGoesOn`) what is still to be made is
  not there, what has been made lives with all its parts, and the stream thread runs at the
  end only. When it has failed (`StartFailed`), each pointer that a release would test is NULL
  or points to an object; that is what the failing step leaves, as it clears its own pointer
  and, in a first start, no other was set. During a release (`Releasing`) this holds of what is
  still to be deleted, all that lives is still to be deleted, and a thread that runs has still
  to be joined. `ObjectInv` says that a pointer has at most one object, that of its last
  start, and that the rings of a queue live and die with it.
- The invariant is as good as the order of the steps. `Rank` numbers the kinds of steps, and
  `Ordered` says that a smaller rank comes first: memory and queues before FIFOs, FIFOs before
  nodes, nodes before connections and the stream thread; threads ended before the graph and the
  queues, pools last. `Once` says that no step is there twice. That each start and each
  release of the code is such a sequence is shown block by block, `BlocksFollow` joining two
  (`StartFacts`, `FreeFacts`): a release that forgot a node, a constructor moved before its
  FIFO, or a pool deleted before the nodes would make one of these lemmas false. `UseStays`
  and `HeadAndTail` carry the facts to what is left after a step.

`GraphDescriptionProofs`, for every set of programs of the nodes that the constructors make
(`GraphDescriptionAssumption`, evaluated by the run), every way to connect them, any number of edges, of
imports and of functions made meanwhile:

- `CopiesAreFaithful` and `CopiesOfCopiesAgree` by `Inv`: every graph has the shape that
  `connect()` and the constructors give (`GraphMade`), a file is the export of its graph, a copy can be held
  by a file and is the same as what it copies if that could be held, and an import raises only for
  a graph that cannot. The second theorem has no hypothesis on the first graph: what a file can
  hold is closed under the import, whatever the first one has lost.
- An import is followed from the bottom up, one group of lemmas each. A type that has an
  entry comes back with its name, an IO with its type, a node with its IOs and its arguments; the
  constructors lose nothing of such a node and make one that is portable again (`ImportedIsPortable`).
  The table of types holds what each node needs, and a `SharedType` comes after what it refers to:
  `Pick` enumerates positions upwards, so the first of each key comes before what was met later. Functions
  are numbered apart, so that two nodes of a file have two names and an edge finds the ports it
  joined (`EndComesBack`, `EdgeComesBack`). Nothing raises (`PortableIsRead`), the whole comes back
  (`PortableComesBack`).
- `OptionsSurvive` by `ConfigurationInv`: an option that has a key is looked up where it was written,
  and no key is read for two of them, for every set of options.

No recursion is involved: the lists that the code builds in loops are functions of their
positions in the model, and what is counted are finite sets of positions. What a `FlattenSeq` of any
number of parts contains is shown with `Induction`, as in `HostLinkProofs`.

`EventsReadByCpp`, `EventsReadByPy`, `TypeCorrect`, `HandlesTypeCorrect`, `PauseLetsOneThrough`, `WritersAlone`,
`MutexOutlivesHolder`, `PositionsStayInside` and `SamplesStayInOrder` are not repeated by a run. The
others state properties that the runs check on instances; three of them do so through an instance of
their module: `EveryReadInOrder` is `Stream!ReadsInOrder` (run `stream_fifo`), `OwnersAreTold` is
`Buffers!AloneIsTrusted` and `MutexFollowsObject` is `Buffers!OneMutexPerObject` (run `protected`).

Only model-checked: liveness and fairness, out of reach of the prover; `RuntimeControl` with
both pauses and errors, or with several application threads that pause; and `ReadsIntact` of the
synchronous programs, whose schedules and FIFOs are data of the model.

## 5. Findings

- `dataflow_sink_buffers`: to find the outputs of a Duplicate that share memory,
  `description.py:1193` compares an attribute that is None for every FIFO with an
  imposed buffer. Of two sinks that bring a buffer each, the second never gets a
  sample. The `dataflow` run contains no graph with two imposed buffers around one
  Duplicate, except those that the code refuses.
- `control_pause_on_error`: an application's pause and an event error both wait
  for a `STREAM_PAUSED` that is posted once; one of them never returns. On Zephyr,
  where a wait does not take the flag, both return on the one acknowledgment,
  and the pause may come back with `STREAM_PAUSE` still set: the next graph then pauses
  at its first node unasked.

The properties these runs violate hold in the other runs, under the conditions
named there.

### Met while reading

These have no run of their own; the ones a model shows are hazards in
`PROJECT.json`.

- With `Uses <- Restart`, `RuntimeControl` violates `StopGraphIsMeant`: on posix the flags
  outlive a stop, and a `STREAM_DONE` left in them stops the next graph. With `Uses <- MixedSwitch`
  it violates `CallsReturn`: after a pause of a graph without dataflow nodes the
  stream thread may load the next graph before it is resumed, and the resumption
  never returns.
- With `Uses <- WaitsAndHandles` (no orderly use), `ApplicationLifecycle` violates `NothingTwice`: the main of
  `hello_posix` waits for the threads and frees, while `handle_error()` frees in a runtime
  thread, although `posix_runtime/config/stream_init.cpp:69-72` says that it is safe there.
  With `Uses <- FailsAgain` it is violated too: a release leaves the pointers of the graph set
  (and on CMSIS-RTOS those of the queues), so after a start, a release and a start that fails, the next release
  deletes the old objects again; the comment at lines 73-75 advises to free and
  recreate. CMSIS-RTOS applications never delete their timer and the event flags of their
  queues (`Forgotten`), although `Documentation/Doxygen/src/01_files_copied.md:129`
  asks to free every resource, and ignore what `stream_start_threads()` returns.
- YAML. An exported constant cannot be imported: the importer reads `identified`
  (`importyaml.py:327`), the exporter does not write it (`exportyaml.py:224-227`) and
  `YAML.md` asks for `node` only; `Examples/simpledsp/graph.yml` has one. A constraint
  without a name raises `KeyError` (`importyaml.py:60`), a node with lists of inputs
  and no lists of outputs `TypeError`, a `SharedType` of a scalar `KeyError`. The name of a C
  function is overwritten by the last name of the loop over its lengths
  (`importyaml.py:250-263`). `Unary` and `Binary` nodes lose their port names and constraints; an edge
  with `StreamFIFO` in a graph of another default comes back with that default; a scale of 0 is
  lost; a `CCustomType` comes back as a `CStructType`; a port of a list whose name has the text `name` in it
  raises `TypeError` (`importyaml.py:114-125`, outside the model). Event ports, connections and selectors
  are not exported. Eleven options are outside the file (`OutsideTheFile`), and `YAML.md:667`
  puts `heap-allocation` in the section of C, the code in that of the schedule. The
  graphs of the run are those that `Portable` describes.
- `resume()` can erase an error that a push from a thread unknown to the runtime
  has just stored (`EventQueue.hpp:135`); on posix two `setError` at once tear the
  report; a pause by one application thread can take the reply that a stop by
  another has posted for the stream thread (`stream_runtime_init.cpp:421`).
- Two opposite assignments of `ProtectedBuffer` take the same two mutexes in opposite
  orders and stop each other, on every platform. `OnlyAssignmentsBlock` says that
  nothing else does.
- On CMSIS-RTOS a send whose allocation fails returns true, although
  `Documentation/Events.md:157` says false on overflow. Zephyr's default pools
  (20 blocks, 16 in the example's `prj.conf`) are smaller than what three queues of
  20 slots can hold.
- A node resumed in the asynchronous callback mode is told of a new execution.
  Heap programs do not reset the memory of nodes, and with `config.bufferAllocation`
  buffers are not cleared before the first run although `Documentation/Graph.md:39`
  says that the samples of a delay are zero.
- Packed events. The C++ `unpack_value` never reads `kInt64` and `kUInt64`. Python packs four
  dimensions of a tensor, C++ reads `CG_TENSOR_NB_DIMS` (3). Python packs a string without
  its terminating null, while both unpackers drop the last byte; its copy of a
  `kAny` buffer drops one too. The Python pack of a mapped array calls `_write_shared_buffer`
  with an argument too many. The C++ `unpack_tensor` of a shared buffer returns the raw
  buffer. The number of values of a list is not compared with `CG_MAX_VALUES`. A shared
  buffer acquired by `pack` is lost when the message is dropped. With these kinds of
  values `GraphHearsHost` and `HostHearsGraph` are violated; `MCHostLink` names them.
- `host_com.cpp`: `send_all` on a socket that does not block leaves a frame half-way
  when the host does not read (lines 112-118), and `process_queue` goes on with the next
  frames on that socket (129-156), so that `recv_messages` completes the message with
  their bytes and yields it (`send_events.py:124-128`). The run `host_link` reaches
  such messages; `HostHearsGraph` excepts them, and every message after them. The
  server socket may be closed twice; closing it does not wake `accept()` on Linux, though
  the comment at line 289 says so; `main` joins a thread that does not end while a host
  stays connected.
- The methods of `Descriptor` (`StreamNode.hpp:206-272`) test `mem_server != nullptr`
  where the opposite seems meant.

## 6. Not modelled

- `errorInfo_`; the 32-bit arithmetic of the time-to-live (any event may be found
  expired, so the properties hold whatever it answers); failures of a mutex; a join of one thread by
  two others.
- In the schedule: the asynchronous modes of the generator, weak edges, constants,
  `IncompatibleIO`; in the memory: several types of samples and the greedy colouring
  used when the exact one gives up.
- The straight-line form of the generated code (`code.cpp`), which runs the same order;
  the event recorder; `events/simple_scheduler.cpp` and the schedulers of
  `runtime_mode`, whose graph is loaded from a flatbuffer by an example-specific
  interpreter. No FIFO of a committed asynchronous program is ever full, so a skip
  for overflow is covered by `AsyncBounds` and not by a run.
- Buffers in shared memory (`MemServer`): only processes with a server of their own read
  them; they are packed and read as none. Messages shorter than their counts say.
  A pool that fails in `create_with()`, and a function given to `lock()` that uses the
  same buffer again.
- Allocations whose result the code does not test, the rings of a queue and
  `osEventFlagsNew()`: they never fail in `ApplicationLifecycle`. Starts after the first
  do not fail in the run, and posix handlers do not free while the main waits (section 5).
- The text of YAML; event ports, event connections and selectors in graphs.
- Display, drawing, templates as text: no state between calls. Signal processing
  inside nodes (`src/` of the core nodes, the example's processing): data only.
  Vendored code: flatbuffers.
- The widths of the counts of arrays, lists and strings in a message.

## 7. Plan

In order:

1. `ReadsIntact` of `GeneratedProgram` for every synchronous schedule that keeps to the lengths, along the
   proof of `InputsStayIntact`.
2. The asynchronous modes of the schedule generator.
3. `ApplicationLifecycle` with failures at every start, once releases clear the
   pointers.

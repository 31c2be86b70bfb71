---------------------------- MODULE DataflowRun ----------------------------
(***************************************************************************)
(* The generated C++ program: the loop over the schedule (codeSwitch.cpp,   *)
(* code.cpp), the FIFOs and the Duplicate node of GenericNodes.hpp, and     *)
(* reset_fifos() of commonc.cpp, which a graph that was paused goes through *)
(* before it runs again.  Composed with the scheduling and the allocation   *)
(* of memory that precede it, it shows whether they are right together.     *)
(*                                                                         *)
(* What a sample is worth is left out: a sample is named after the output   *)
(* that produced it and its number in the stream.                           *)
(***************************************************************************)
EXTENDS FIFOAllocation

CONSTANTS
  Silence,    (* a sample that is zero                                      *)
  Foreign,    (* what the memory of the user holds at first                 *)
  DebugLimit, (* config.debugLimit: iterations of the loop                  *)
  MaxPause    (* bound: how often the graph is resumed                      *)

VARIABLES
  mem,               (* the contents of each buffer                         *)
  readPos, writePos, (* of each FIFO; an array FIFO does not use them       *)
  held,              (* where the pointers to the inputs of the node point  *)
  step,              (* how far the node has come: before, reading, after   *)
  id, nbSchedule,    (* position in the schedule, and iterations            *)
  nbResume

runVars == <<mem, readPos, writePos, held, step, id, nbSchedule, nbResume>>

vars == <<schedVars, allocVars, runVars>>

InputsOf(x)  == {e \in graph.edges : e.dst = x}
OutputsOf(x) == {e \in graph.edges : e.src = x}

Node == schedule[id]

(* Executions before the current one, since the FIFOs were last reset.  A   *)
(* node with a cycle of rates is expected to follow it from its start.      *)
Runs(x) ==
  LET upTo(k) == Cardinality({i \in 1 .. k : schedule[i] = x})
  IN nbSchedule * upTo(Len(schedule)) + upTo(id - 1)

Size(buf) == Max({FifoLength(e) : e \in buf})

IsForeign(buf) == \E e \in buf : IsCustom(e)
-----------------------------------------------------------------------------
(* The FIFO classes.                                                        *)

(* getReadBuffer().                                                         *)
ReadPosAfter(x) ==
  [e \in graph.edges |->
     IF e.dst = x /\ ~IsArray(e) THEN readPos[e] + CycleValue(e.cons, Runs(x))
                                 ELSE readPos[e]]

(* getWriteBuffer(): the samples that are left are first moved to the       *)
(* beginning of the buffer.                                                 *)
Kept(e) == IF IsArray(e) THEN 0 ELSE writePos[e] - readPos[e]

Realigned(e, i) ==
  IF i < Kept(e) THEN mem[buffer[e]][i + readPos[e]] ELSE mem[buffer[e]][i]

(* What a node writes: new samples; Duplicate::run() copies its input.      *)
Produced(e, k) ==
  IF IsDuplicate(e.src)
  THEN LET i == InputOf(e.src) IN mem[buffer[i]][held[i] + k]
  ELSE <<e.src, e.out, Moved(e.prod, Runs(e.src)) + k>>

Written(e) ==
  [i \in DOMAIN mem[buffer[e]] |->
     LET k == i - Kept(e) IN
     IF k \in 0 .. CycleValue(e.prod, Runs(e.src)) - 1
     THEN Produced(e, k) ELSE Realigned(e, i)]
-----------------------------------------------------------------------------
(* The loop.                                                                *)

(* The generated program starts, and only what the templates print of the   *)
(* state of the package is left.                                            *)
startScheduler ==
  /\ phase = "allocated"
  /\ phase' = "running"
  /\ mem' = [buf \in Range(buffer) |->
               [i \in 0 .. Size(buf) - 1 |->
                  IF IsForeign(buf) THEN Foreign ELSE Silence]]
  /\ readPos' = [e \in graph.edges |-> 0]
  /\ writePos' = [e \in graph.edges |-> e.delay]
  /\ held' = <<>> /\ step' = "before"
  /\ id' = 1 /\ nbSchedule' = 0 /\ nbResume' = 0
  /\ sorted' = <<>> /\ initN' = <<>> /\ n' = <<>> /\ b' = <<>>
  /\ positionInCycle' = <<>> /\ layers' = <<>> /\ liveInterval' = <<>>
  /\ UNCHANGED <<config, graph, bMax, schedule, allocVars>>

readInputs ==
  /\ phase = "running" /\ step = "before"
  /\ held' = [e \in InputsOf(Node) |-> readPos[e]]
  /\ readPos' = ReadPosAfter(Node)
  /\ step' = "reading"
  /\ UNCHANGED <<schedVars, allocVars, mem, writePos, id, nbSchedule,
                 nbResume>>

(* A skipped output is not among the arguments of its Duplicate.  Of two    *)
(* outputs in the same memory the last one that is written stays.           *)
writeOutputs ==
  LET filled == OutputsOf(Node) \ skip IN
  /\ phase = "running" /\ step = "reading"
  /\ mem' = [buf \in DOMAIN mem |->
               LET here == {e \in filled : buffer[e] = buf} IN
               IF here = {} THEN mem[buf]
               ELSE Written(CHOOSE e \in here :
                              \A f \in here : f.out <= e.out)]
  /\ writePos' = [e \in graph.edges |->
                    IF e \in filled /\ ~IsArray(e)
                    THEN Kept(e) + CycleValue(e.prod, Runs(Node))
                    ELSE writePos[e]]
  /\ readPos' = [e \in graph.edges |->
                   IF e \in filled /\ ~IsArray(e) THEN 0 ELSE readPos[e]]
  /\ step' = "after"
  /\ UNCHANGED <<schedVars, allocVars, held, id, nbSchedule, nbResume>>

nextNode ==
  /\ phase = "running" /\ step = "after"
  /\ IF id < Len(schedule)
     THEN id' = id + 1 /\ UNCHANGED <<nbSchedule, phase>>
     ELSE /\ id' = 1 /\ nbSchedule' = nbSchedule + 1
          /\ phase' = IF nbSchedule + 1 = DebugLimit THEN "left" ELSE phase
  /\ step' = "before" /\ held' = <<>>
  /\ UNCHANGED <<config, graph, sorted, initN, n, b, bMax, positionInCycle,
                 layers, schedule, liveInterval, allocVars, mem, readPos,
                 writePos, nbResume>>

(* A pause, an error, or the end of the input, before the node runs or      *)
(* while it does.                                                           *)
errorHandling ==
  /\ phase = "running" /\ nbResume < MaxPause
  /\ phase' = "left"
  /\ held' = <<>> /\ step' = "before"
  /\ UNCHANGED <<config, graph, sorted, initN, n, b, bMax, positionInCycle,
                 layers, schedule, liveInterval, allocVars, mem, readPos,
                 writePos, id, nbSchedule, nbResume>>

ResetMemory ==
  [buf \in DOMAIN mem |->
     IF IsForeign(buf) THEN mem[buf] ELSE [i \in DOMAIN mem[buf] |-> Silence]]

(* reset_fifos(1), and the scheduler function is called again.              *)
resume ==
  /\ phase = "left" /\ nbResume < MaxPause
  /\ phase' = "running"
  /\ mem' = ResetMemory
  /\ readPos' = [e \in graph.edges |-> IF IsArray(e) THEN readPos[e] ELSE 0]
  /\ writePos' = [e \in graph.edges |-> IF IsArray(e) THEN writePos[e]
                                                      ELSE e.delay]
  /\ id' = 1 /\ nbSchedule' = 0 /\ nbResume' = nbResume + 1
  /\ UNCHANGED <<config, graph, sorted, initN, n, b, bMax, positionInCycle,
                 layers, schedule, liveInterval, allocVars, held, step>>

Init ==
  /\ SchedInit
  /\ buffer = <<>> /\ skip = {}
  /\ mem = <<>> /\ readPos = <<>> /\ writePos = <<>> /\ held = <<>>
  /\ step = "before" /\ id = 0 /\ nbSchedule = 0 /\ nbResume = 0

Next ==
  \/ computeSchedule /\ UNCHANGED <<allocVars, runVars>>
  \/ (initializeFIFODescriptions \/ refuseConstraints) /\ UNCHANGED runVars
  \/ startScheduler \/ readInputs \/ writeOutputs \/ nextNode
  \/ errorHandling \/ resume

Spec == Init /\ [][Next]_vars
-----------------------------------------------------------------------------
(* Properties.                                                              *)

(* The i-th sample that a FIFO delivers: its delay first, and then what     *)
(* the output it starts at, across a Duplicate, has produced.               *)
Expected(e, i) ==
  LET o == IF IsDuplicate(e.src) THEN InputOf(e.src) ELSE e IN
  IF i < e.delay THEN Silence ELSE <<o.src, o.out, i - e.delay>>

(* A node finds in its input buffers exactly the samples that its           *)
(* predecessors have produced for it, in order and none twice, also while   *)
(* it writes its outputs: no other FIFO that shares the memory, no copy     *)
(* that a Duplicate leaves out, no realignment and no reset has spoilt      *)
(* them.                                                                    *)
InputIntact ==
  phase = "running" /\ step # "before" =>
    \A e \in InputsOf(Node) :
      \A k \in 0 .. CycleValue(e.cons, Runs(Node)) - 1 :
        /\ held[e] + k \in DOMAIN mem[buffer[e]]
        /\ mem[buffer[e]][held[e] + k]
             = Expected(e, Moved(e.cons, Runs(Node)) + k)

(* A FIFO, which checks nothing at run time, is never read past what was    *)
(* written nor written past the length that the simulation has found.       *)
FIFOBounds ==
  phase \in {"running", "left"} =>
    \A e \in graph.edges :
      0 <= readPos[e] /\ readPos[e] <= writePos[e]
                      /\ writePos[e] <= FifoLength(e)
=============================================================================

--------------------------- MODULE StaticSchedule ---------------------------
(***************************************************************************)
(* How the Python package of CMSIS-Stream schedules a dataflow graph        *)
(* (description.py, node.py): it inserts Duplicate nodes, computes how      *)
(* often each node runs in one period, and then simulates one period with   *)
(* a greedy choice of the next node, which also gives the lengths of the    *)
(* FIFOs; optionally it simulates a second time, within those lengths,      *)
(* with priority to the nodes close to the sinks.                           *)
(*                                                                         *)
(* A graph is a record [edges, open].  Each edge joins the output out of    *)
(* the node src to the input inp of the node dst; prod and cons are the     *)
(* samples written and read by each execution, a sequence that is repeated  *)
(* in cyclo-static scheduling and has one element otherwise; outBuffer,     *)
(* inBuffer and buffer are the constraints of the output, of the input and  *)
(* of the connection on its buffer.  open is the set of the outputs that    *)
(* are connected to nothing.  A node is a sequence of numbers, of a single  *)
(* one when the user makes it, so that the Duplicate of an output can be    *)
(* named after it.                                                          *)
(***************************************************************************)
EXTENDS Integers, Sequences, FiniteSets, Functions, FiniteSetsExt

CONSTANTS
  InputGraphs,    (* the graphs that the user may describe                  *)
  Configs,        (* the configurations: records, see ConfigAssumption      *)
  NoBuffer,       (* no constraint on a buffer                              *)
  MaxRepetition,  (* bound: entries of the null vector                      *)
  MaxPeriod       (* bound: cycle period of a node                          *)

VARIABLES
  config, graph,
  phase,          (* what comes next, or the exception that was raised      *)
  sorted,         (* the rank of each node in _sortedNodes                  *)
  initN,          (* the null vector                                        *)
  n, b, bMax,     (* periods left, samples in each FIFO, and their maximum  *)
  positionInCycle,
  layers,         (* _topologicalSort: the layers, sinks first              *)
  schedule,
  liveInterval    (* first write and last read of each FIFO                 *)

schedVars == <<config, graph, phase, sorted, initN, n, b, bMax,
               positionInCycle, layers, schedule, liveInterval>>

ASSUME ConfigAssumption ==
  \A c \in Configs : /\ c.sinkPriority \in BOOLEAN
                     /\ c.memoryOptimization \in BOOLEAN
                     /\ c.disableDuplicateOptimization \in BOOLEAN

ASSUME BoundsAssumption == MaxRepetition \in Nat /\ MaxPeriod \in Nat

Nodes(g) == (UNION {{e.src, e.dst} : e \in g.edges}) \cup {o.src : o \in g.open}

(* Every rate is that of a node that does something: a cycle without a      *)
(* sample would leave an edge with no unit of measurement.                  *)
IsRates(s) == s \in Seq(Nat) /\ \E i \in DOMAIN s : s[i] > 0

(* The rates and the constraint of an output are the same for all the       *)
(* connections that it has.                                                 *)
ASSUME GraphAssumption ==
  \A g \in InputGraphs :
    /\ IsFiniteSet(g.edges) /\ IsFiniteSet(g.open) /\ Nodes(g) # {}
    /\ \A x \in Nodes(g) : x \in Seq(Nat) /\ Len(x) = 1
    /\ \A e \in g.edges :
         /\ DOMAIN e = {"src", "out", "prod", "outBuffer",
                        "dst", "inp", "cons", "inBuffer", "delay", "buffer"}
         /\ e.delay \in Nat /\ IsRates(e.prod) /\ IsRates(e.cons)
         /\ e.out \in Nat
    /\ \A e, f \in g.edges : e.src = f.src /\ e.out = f.out =>
         e.prod = f.prod /\ e.outBuffer = f.outBuffer
    /\ \A o \in g.open :
         /\ IsRates(o.prod) /\ o.out \in Nat
         /\ \A e \in g.edges \cup g.open : e.src = o.src /\ e.out = o.out => e = o

(* The constraint that connect() gives to the FIFO.                         *)
CustomBuffer(e) == CASE e.outBuffer # NoBuffer -> e.outBuffer
                     [] e.outBuffer = NoBuffer /\ e.inBuffer # NoBuffer
                          -> e.inBuffer
                     [] OTHER -> e.buffer

IsCustom(e) == CustomBuffer(e) # NoBuffer

(* BufferConstraint.compatibleWith(), for the two ends of a connection.     *)
CompatibleEnds(e) ==
  e.outBuffer # NoBuffer /\ e.inBuffer # NoBuffer =>
    /\ e.outBuffer.name = e.inBuffer.name
    /\ e.outBuffer.mustBeArray = e.inBuffer.mustBeArray
-----------------------------------------------------------------------------
(* insertDuplicates(): an output with another number of connections than    *)
(* one, none included, is connected to a Duplicate node instead, which has  *)
(* an output for each of the connections.                                   *)

Fan(g, e) == {f \in g.edges : f.src = e.src /\ f.out = e.out}

DuplicateOf(e) == Append(e.src, e.out)
IsDuplicate(x) == Len(x) > 1

ToDuplicate(o) ==
  [src |-> o.src, out |-> o.out, prod |-> o.prod, outBuffer |-> o.outBuffer,
   dst |-> DuplicateOf(o), inp |-> 1, cons |-> o.prod, inBuffer |-> NoBuffer,
   delay |-> 0, buffer |-> NoBuffer]

(* The connections of an output are numbered in some order.                 *)
FromDuplicate(e, k) ==
  [e EXCEPT !.src = DuplicateOf(e), !.out = k, !.outBuffer = NoBuffer,
            !.buffer = NoBuffer]

NumberInFan(g, e) ==
  Cardinality({f \in Fan(g, e) :
    f.dst[1] < e.dst[1] \/ (f.dst[1] = e.dst[1] /\ f.inp <= e.inp)})

InsertDuplicates(g) ==
  LET shared == {e \in g.edges : Fan(g, e) # {e}} IN
  [edges |-> (g.edges \ shared)
               \cup {ToDuplicate(e) : e \in shared \cup g.open}
               \cup {FromDuplicate(e, NumberInFan(g, e)) : e \in shared},
   open  |-> {}]

(* CantHaveBufferConstraintOnFIFOWhenDuplicateIsInserted.                   *)
ConstraintLost(g) ==
  \E e \in g.edges : /\ Fan(g, e) # {e} /\ IsCustom(e)
                     /\ e.outBuffer = NoBuffer /\ e.inBuffer = NoBuffer
-----------------------------------------------------------------------------
(* Rates.                                                                   *)

(* All inputs and outputs of a node advance in their cycles together, so    *)
(* the position of the node gives the position of each.                     *)
CycleValue(s, position) == s[(position % Len(s)) + 1]

(* The samples of the first executions, and of one cycle.                   *)
Moved(s, runs) ==
  LET sum[k \in Nat] == IF k = 0 THEN 0 ELSE sum[k - 1] + CycleValue(s, k - 1)
  IN sum[runs]

Total(s)   == Moved(s, Len(s))
Largest(s) == Max(Range(s))

IOLengths(g, x) == {Len(e.prod) : e \in {f \in g.edges : f.src = x}}
                     \cup {Len(e.cons) : e \in {f \in g.edges : f.dst = x}}

(* computeCyclePeriod(): the least common multiple.                         *)
CyclePeriod(g, x) ==
  Min({k \in 1 .. MaxPeriod : \A l \in IOLengths(g, x) : k % l = 0})

(* The bound on the periods lets every node have one.                       *)
ASSUME PeriodAssumption ==
  \A g \in InputGraphs : LET d == InsertDuplicates(g) IN
    \A x \in Nodes(d) : \E k \in 1 .. MaxPeriod :
      \A l \in IOLengths(d, x) : k % l = 0

(* Mutant of TopologyRow: the samples of one cycle of the output and of the *)
(* input, although the cycle of the node may be longer.                     *)
TopologyRowOfOneCycle(g, e) ==
  [x \in Nodes(g) |->
     CASE x = e.dst -> 0 - Total(e.cons)
       [] x = e.src /\ x # e.dst -> Total(e.prod)
       [] OTHER -> 0]

(* A row of topologyMatrix(): the entry of the reader overwrites that of    *)
(* the writer when they are the same node.                                  *)
TopologyRow(g, e) ==
  [x \in Nodes(g) |->
     CASE x = e.dst -> 0 - Total(e.cons) * (CyclePeriod(g, x) \div Len(e.cons))
       [] x = e.src /\ x # e.dst ->
            Total(e.prod) * (CyclePeriod(g, x) \div Len(e.prod))
       [] OTHER -> 0]

(* checkGraph(): no other set of nodes is left by no edge.                  *)
Connected(g) ==
  {S \in SUBSET Nodes(g) : \A e \in g.edges : (e.src \in S) = (e.dst \in S)}
    = {{}, Nodes(g)}

(* nullVector(): in a connected graph the null space has dimension one when *)
(* it holds a positive vector, and the smallest is taken.                   *)
NullVectors(g) ==
  LET row == [e \in g.edges |-> TopologyRow(g, e)] IN
  {v \in [Nodes(g) -> 1 .. MaxRepetition] :
     \A e \in g.edges : row[e][e.src] * v[e.src] +
                        (IF e.dst = e.src THEN 0 ELSE row[e][e.dst] * v[e.dst])
                          = 0}

(* The one whose entries have no common divisor.                            *)
Smallest(vectors) ==
  CHOOSE v \in vectors : \A k \in 2 .. MaxRepetition :
                           \E x \in DOMAIN v : v[x] % k # 0
-----------------------------------------------------------------------------
(* One execution of a node.                                                 *)

(* evolutionVectorForNode(), added to the contents of the FIFOs.            *)
NewB(x) ==
  [e \in graph.edges |->
     b[e] + CASE e.src = x -> CycleValue(e.prod, positionInCycle[x])
              [] e.dst = x /\ e.src # x ->
                   0 - CycleValue(e.cons, positionInCycle[x])
              [] OTHER -> 0]

NormV(e) == Max({Largest(e.prod), Largest(e.cons)})

(* The highest occupancy of x's execution is at most that of y's.           *)
NotFuller(x, y) ==
  \A e \in graph.edges : \E f \in graph.edges :
    NewB(x)[e] * NormV(f) <= NewB(y)[f] * NormV(e)

(* Mutant of Runnable: a FIFO may not be emptied.                           *)
RunnableLeavesOne(x) ==
  n[x] > 0 /\ \A e \in graph.edges : e.dst = x => NewB(x)[e] > 0

Runnable(x) == n[x] > 0 /\ \A e \in graph.edges : NewB(x)[e] >= 0

(* analyzeStep(): recordWrite() and recordRead() of the FIFOs that change.  *)
Recorded(x, time) ==
  [e \in graph.edges |->
     <<IF NewB(x)[e] > b[e] /\ liveInterval[e][1] = -1
         THEN time ELSE liveInterval[e][1],
       IF NewB(x)[e] < b[e] THEN time ELSE liveInterval[e][2]>>]

(* executeNode(): a period of the node is over when its cycle is.           *)
Execute(x) ==
  LET next == positionInCycle[x] + 1 IN
  /\ b' = NewB(x)
  /\ schedule' = Append(schedule, x)
  /\ IF next = CyclePeriod(graph, x)
     THEN /\ positionInCycle' = [positionInCycle EXCEPT ![x] = 0]
          /\ n' = [n EXCEPT ![x] = @ - 1]
     ELSE /\ positionInCycle' = [positionInCycle EXCEPT ![x] = next]
          /\ UNCHANGED n

Finished == \A x \in Nodes(graph) : n[x] = 0

Raise(exception) ==
  /\ phase' = exception
  /\ UNCHANGED <<config, graph, sorted, initN, n, b, bMax, positionInCycle,
                 layers, schedule, liveInterval>>
-----------------------------------------------------------------------------
(* computeSinkTopologicalSortOfNodes(): layer by layer, the nodes whose     *)
(* readers have all been removed are removed.  The nodes of a layer are in  *)
(* the sorted order.                                                        *)
Removed(g) ==
  LET removable(S) ==
        {x \in Nodes(g) : \A e \in g.edges : e.src = x => e.dst \in S}
      removed[k \in Nat] == IF k = 0 THEN {} ELSE removable(removed[k - 1])
  IN [k \in 0 .. Cardinality(Nodes(g)) |-> removed[k]]

InOrder(S, rank) ==
  [i \in 1 .. Cardinality(S) |->
     CHOOSE x \in S : Cardinality({y \in S : rank[y] <= rank[x]}) = i]

(* No layers at all when the graph has a loop.                              *)
SinkLayers(g) ==
  LET removed == Removed(g)
      last    == Min({k \in DOMAIN removed :
                        removed[k] = removed[Cardinality(Nodes(g))]})
  IN IF removed[last] # Nodes(g) THEN <<>>
     ELSE [k \in 1 .. last |-> removed[k] \ removed[k - 1]]
-----------------------------------------------------------------------------
(* The steps of computeSchedule().                                          *)

insertDuplicates ==
  /\ phase = "described"
  /\ ~ConstraintLost(graph)
  /\ graph' = InsertDuplicates(graph)
  /\ phase' = "expanded"
  /\ UNCHANGED <<config, sorted, initN, n, b, bMax, positionInCycle, layers,
                 schedule, liveInterval>>

(* The names of the nodes, which the user chooses, decide on their order.   *)
topologyMatrix ==
  /\ phase = "expanded" /\ Connected(graph)
  /\ LET vectors == NullVectors(graph)
         sets    == IF config.sinkPriority THEN SinkLayers(graph) ELSE <<>>
     IN
     IF vectors = {} THEN Raise("NotSchedulableError")
     ELSE /\ initN' = Smallest(vectors)
          /\ n' = initN'
          /\ sorted' \in Bijection(Nodes(graph), 1 .. Cardinality(Nodes(graph)))
          /\ b' = [e \in graph.edges |-> e.delay]
          /\ bMax' = [e \in graph.edges |-> e.delay]
          /\ positionInCycle' = [x \in Nodes(graph) |-> 0]
          /\ layers' = [k \in DOMAIN sets |-> InOrder(sets[k], sorted')]
          /\ liveInterval' = [e \in graph.edges |-> <<-1, -1>>]
          /\ phase' = "greedy"
          /\ UNCHANGED <<config, graph, schedule>>

Candidates == {x \in Nodes(graph) : Runnable(x)}

(* The lowest occupancy wins, and the last of several in the sorted order.  *)
Selected ==
  {x \in Candidates : \A y \in Candidates :
     NotFuller(x, y) /\ (sorted[y] > sorted[x] => ~NotFuller(y, x))}

selectGreedy ==
  /\ phase = "greedy" /\ ~Finished
  /\ \E x \in Selected :
       /\ Execute(x)
       /\ bMax' = [e \in graph.edges |-> Max({b'[e], bMax[e]})]
       /\ liveInterval' = IF layers = <<>> THEN Recorded(x, Len(schedule))
                                           ELSE liveInterval
  /\ UNCHANGED <<config, graph, phase, sorted, initN, layers>>

finishGreedy ==
  /\ phase = "greedy" /\ Finished
  /\ IF layers = <<>>
     THEN phase' = "scheduled" /\ UNCHANGED <<n, b, schedule>>
     ELSE /\ phase' = "sinks"
          /\ n' = initN
          /\ b' = [e \in graph.edges |-> e.delay]
          /\ schedule' = <<>>
  /\ UNCHANGED <<config, graph, sorted, initN, bMax, positionInCycle, layers,
                 liveInterval>>

(* Mutant of FitsIn: the lengths are not respected.                         *)
FitsInAnyLength(x) == Runnable(x)

(* computeTopologicalOrderSchedule(): the first node of the first layer     *)
(* that has one which can run within the lengths, put behind the others of  *)
(* its layer.                                                               *)
FitsIn(x) == Runnable(x) /\ \A e \in graph.edges : NewB(x)[e] <= bMax[e]

selectSinks ==
  /\ phase = "sinks" /\ ~Finished
  /\ \E k \in DOMAIN layers : \E i \in DOMAIN layers[k] :
       /\ FitsIn(layers[k][i])
       /\ \A j \in DOMAIN layers[k] : j < i => ~FitsIn(layers[k][j])
       /\ \A h \in DOMAIN layers : h < k =>
            \A j \in DOMAIN layers[h] : ~FitsIn(layers[h][j])
       /\ Execute(layers[k][i])
       /\ liveInterval' = Recorded(layers[k][i], Len(schedule))
       /\ layers' = [layers EXCEPT ![k] =
            [j \in DOMAIN @ |-> IF j < i THEN @[j]
                                ELSE IF j = Len(@) THEN @[i] ELSE @[j + 1]]]
  /\ UNCHANGED <<config, graph, phase, sorted, initN, bMax>>

finishSinks ==
  /\ phase = "sinks" /\ Finished
  /\ phase' = "scheduled"
  /\ UNCHANGED <<config, graph, sorted, initN, n, b, bMax, positionInCycle,
                 layers, schedule, liveInterval>>

raiseException ==
  \/ /\ phase = "described" /\ ConstraintLost(graph)
     /\ Raise("CantHaveBufferConstraintOnFIFOWhenDuplicateIsInserted")
  \/ /\ phase = "expanded" /\ ~Connected(graph)
     /\ Raise("GraphIsNotConnected")
  \/ /\ phase \in {"greedy", "sinks"} /\ ~Finished
     /\ {x \in Nodes(graph) : IF phase = "greedy" THEN Runnable(x)
                                                  ELSE FitsIn(x)} = {}
     /\ Raise("DeadlockError")

SchedInit ==
  /\ config \in Configs
  /\ graph \in {g \in InputGraphs : \A e \in g.edges : CompatibleEnds(e)}
  /\ phase = "described"
  /\ sorted = <<>> /\ initN = <<>> /\ n = <<>> /\ b = <<>> /\ bMax = <<>>
  /\ positionInCycle = <<>> /\ layers = <<>> /\ schedule = <<>>
  /\ liveInterval = <<>>

computeSchedule ==
  \/ insertDuplicates \/ topologyMatrix \/ selectGreedy \/ finishGreedy
  \/ selectSinks \/ finishSinks \/ raiseException

-----------------------------------------------------------------------------
(* Properties.                                                              *)

Executions(x) == Cardinality({i \in DOMAIN schedule : schedule[i] = x})

(* The executions of a period, as the null vector demands them.             *)
Period == [x \in Nodes(graph) |-> initN[x] * CyclePeriod(graph, x)]

(* One period of the schedule runs every node its number of periods and     *)
(* leaves every FIFO with the samples it began with, so that the generated  *)
(* loop can repeat it for ever, in whatever order the nodes were chosen.    *)
ScheduleIsPeriodic ==
  phase = "scheduled" =>
    /\ \A x \in Nodes(graph) :
         Executions(x) = Period[x] /\ positionInCycle[x] = 0
    /\ \A e \in graph.edges : b[e] = e.delay

(* What any choice of nodes can reach in k executions, as numbers of        *)
(* executions; the reference for the greedy choice.                         *)
Reachable(g, goal) ==
  LET steps == Cardinality({p \in Nodes(g) \X (1 .. MaxRepetition * MaxPeriod) :
                              p[2] <= goal[p[1]]})
      after(c, x) == [c EXCEPT ![x] = @ + 1]
      valid(c) == \A e \in g.edges :
                    e.delay + Moved(e.prod, c[e.src]) >= Moved(e.cons, c[e.dst])
      reach[k \in Nat] ==
        IF k = 0 THEN {[x \in Nodes(g) |-> 0]}
        ELSE UNION {{after(c, x) : x \in {y \in Nodes(g) :
                        c[y] < goal[y] /\ valid(after(c, y))}}
                     : c \in reach[k - 1]}
  IN reach[steps]

(* The scheduler gives up only when no order of executions completes a      *)
(* period; and once the greedy choice has completed one, giving priority to *)
(* the sinks within the lengths it has found completes one too.             *)
DeadlockIsReal ==
  phase = "DeadlockError" => Period \notin Reachable(graph, Period)
=============================================================================

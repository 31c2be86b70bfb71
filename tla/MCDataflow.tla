----------------------------- MODULE MCDataflow -----------------------------
(* Small graphs for the dataflow modules.                                   *)
EXTENDS DataflowRun

Edge(src, out, prod, dst, inp, cons, delay) ==
  [src |-> <<src>>, out |-> out, prod |-> prod, outBuffer |-> NoBuffer,
   dst |-> <<dst>>, inp |-> inp, cons |-> cons, inBuffer |-> NoBuffer,
   delay |-> delay, buffer |-> NoBuffer]

Graph(edges) == [edges |-> edges, open |-> {}]

Custom(name, mustBeArray, assignedByNode, canBeShared) ==
  [name |-> name, mustBeArray |-> mustBeArray,
   assignedByNode |-> assignedByNode, canBeShared |-> canBeShared]

Shareable == Custom("Test", TRUE, FALSE, TRUE)
Private   == Custom("Test", TRUE, FALSE, FALSE)
Internal  == Custom("Test", TRUE, TRUE, TRUE)
Unnamed   == Custom(NoBuffer, TRUE, TRUE, TRUE)
NotArray  == Custom("Test", FALSE, FALSE, TRUE)
Other     == Custom("Test2", TRUE, FALSE, TRUE)

Rates == {<<1>>, <<2>>, <<3>>, <<1, 2>>}

(* Two nodes in a loop: schedulable, inconsistent, or with too few samples  *)
(* of delay to start.                                                       *)
Rings ==
  {Graph({Edge(1, 1, p, 2, 1, c, 0), Edge(2, 1, q, 1, 1, r, d)}) :
     p \in {<<1>>, <<2>>}, c \in Rates, q \in Rates, r \in Rates, d \in 0 .. 3}

(* A pipeline, with a delay or without.                                     *)
Chains ==
  {Graph({Edge(1, 1, p, 2, 1, c, d), Edge(2, 1, q, 3, 1, r, 0)}) :
     p \in Rates, c \in Rates, q \in {<<1>>, <<3>>}, r \in {<<1>>, <<2>>},
     d \in {0, 2}}

(* An output with two readers.                                              *)
Fans ==
  {Graph({Edge(1, 1, p, 2, 1, c, 0), Edge(1, 1, p, 3, 1, q, d)}) :
     p \in {<<1>>, <<2>>}, c \in {<<1>>, <<2>>}, q \in Rates, d \in {0, 1}}

(* Two branches from one output that meet again, of which one is longer.    *)
Diamond(p, q, d) ==
  Graph({Edge(1, 1, p, 2, 1, p, 0), Edge(1, 1, p, 3, 1, q, d),
         Edge(2, 1, p, 4, 1, p, 0), Edge(3, 1, q, 4, 2, p, 0)})

Diamonds ==
  {Diamond(p, q, d) : p \in {<<1>>, <<2>>}, q \in {<<1>>, <<2>>}, d \in {0, 1}}

(* A sink with two sources, one of which is far from it: giving priority to *)
(* the near one would need a longer FIFO.                                   *)
Joins ==
  {Graph({Edge(1, 1, <<1>>, 3, 1, p, 0), Edge(3, 1, p, 4, 1, <<1>>, 0),
          Edge(2, 1, <<1>>, 4, 2, <<1>>, d)}) : p \in {<<1>>, <<2>>},
                                               d \in {0, 1}}

(* A pipeline in which buffers can be used again, and one with an output    *)
(* that has a second reader at its end.                                     *)
Pipelines ==
  {Graph({Edge(1, 1, <<1>>, 2, 1, <<1>>, 0), Edge(2, 1, p, 3, 1, p, 0),
          Edge(3, 1, <<1>>, 4, 1, q, 0)}) : p \in {<<1>>, <<2>>},
                                           q \in {<<1>>, <<2>>}}
    \cup
  {Graph({Edge(1, 1, <<1>>, 2, 1, <<1>>, 0), Edge(2, 1, <<1>>, 3, 1, <<1>>, 0),
          Edge(1, 1, <<1>>, 3, 2, <<1>>, 0)})}

(* The graphs of Examples/buffer/constraint_test.py: a constraint of an     *)
(* output, of an input, or of the connection, in front of a Duplicate or on *)
(* a plain connection.                                                      *)
Constrained(c) ==
  LET src == Edge(1, 1, <<2>>, 2, 1, <<2>>, 0)
      end == {Edge(2, 1, <<2>>, 3, 1, <<2>>, 0), Edge(2, 1, <<2>>, 4, 1, <<2>>, 0)}
      odd == Edge(1, 1, <<2>>, 2, 1, <<3>>, 0)
  IN {Graph({[src EXCEPT !.outBuffer = c]} \cup end),
      Graph({[src EXCEPT !.inBuffer = c]} \cup end),
      Graph({[src EXCEPT !.buffer = c]} \cup end),
      Graph({[odd EXCEPT !.outBuffer = c]} \cup end),
      Graph({src} \cup {[e EXCEPT !.outBuffer = c] : e \in end}),
      Graph({src} \cup {[e EXCEPT !.inBuffer = IF e.dst = <<3>> THEN c ELSE @]
                          : e \in end}),
      Graph({src} \cup {[e EXCEPT !.buffer = c] : e \in end})}

ConstrainedGraphs ==
  UNION {Constrained(c) : c \in {Shareable, Private, Internal, Unnamed, NotArray}}

(* An output connected to nothing, a node that feeds itself, two graphs in  *)
(* one, and a buffer that two FIFOs ask for.                                *)
OddGraphs ==
  {[edges |-> {Edge(1, 1, <<2>>, 2, 1, <<1>>, 0)},
    open  |-> {[src |-> <<2>>, out |-> 1, prod |-> <<1>>,
                outBuffer |-> NoBuffer]}],
   Graph({Edge(1, 1, <<1>>, 1, 1, <<1>>, 1)}),
   Graph({Edge(1, 1, <<1>>, 2, 1, <<1>>, 0), Edge(3, 1, <<1>>, 4, 1, <<1>>, 0)}),
   Graph({[Edge(1, 1, <<1>>, 2, 1, <<1>>, 0) EXCEPT !.outBuffer = Shareable],
          [Edge(2, 1, <<1>>, 3, 1, <<1>>, 0) EXCEPT !.inBuffer = Shareable]})}

AllGraphs == Rings \cup Chains \cup Fans \cup Diamonds \cup Joins
               \cup Pipelines \cup ConstrainedGraphs \cup OddGraphs

(* A source and its two sinks, each of which brings a buffer of its own.    *)
SinkBuffers ==
  {Graph({[Edge(1, 1, <<2>>, 2, 1, <<2>>, 0) EXCEPT !.inBuffer = Shareable],
          [Edge(1, 1, <<2>>, 3, 1, <<2>>, 0) EXCEPT !.inBuffer = Other]})}

(* All optimizations, and the configurations without one of them: without   *)
(* the sharing of memory, it is the default one.                            *)
Config(sinkPriority, memoryOptimization, disableDuplicateOptimization) ==
  [sinkPriority |-> sinkPriority, memoryOptimization |-> memoryOptimization,
   disableDuplicateOptimization |-> disableDuplicateOptimization]

AllConfigs == {Config(TRUE, TRUE, FALSE), Config(FALSE, TRUE, FALSE),
               Config(TRUE, FALSE, FALSE), Config(TRUE, TRUE, TRUE)}

Optimized == {Config(TRUE, TRUE, FALSE)}
=============================================================================

--------------------------- MODULE FIFOAllocation ---------------------------
(***************************************************************************)
(* How the FIFOs of a scheduled graph get their memory                      *)
(* (Graph.initializeFIFODescriptions in description.py).                    *)
(*                                                                         *)
(* A FIFO that is filled and emptied by one execution each is a plain       *)
(* array.  With the memory optimization, arrays that are never live at the  *)
(* same time share a buffer: the colours of an interference graph are the   *)
(* buffers.  The arrays around a Duplicate node may share one although they *)
(* are live together, since they hold the same samples; the node then does  *)
(* not copy.  A FIFO whose buffer the user imposes keeps it, and may lend   *)
(* it to others.                                                            *)
(***************************************************************************)
EXTENDS StaticSchedule

VARIABLES
  buffer,  (* for each FIFO, the FIFOs whose memory is the same as its own  *)
  skip     (* _skip_for_duplicate: FIFOs that their Duplicate does not fill *)

allocVars == <<buffer, skip>>

(* No constraint is distinguished from any buffer.                          *)
ASSUME NoBufferAssumption ==
  \A g \in InputGraphs :
    \A buf \in SUBSET InsertDuplicates(g).edges : buf # NoBuffer

(* The length is the largest number of samples that the simulation has met. *)
FifoLength(e) == bMax[e]

IsArray(e) == /\ e.prod = <<FifoLength(e)>> /\ e.cons = e.prod
              /\ e.delay = 0

Arrays == {e \in graph.edges : IsArray(e)}

InputOf(x) == CHOOSE e \in graph.edges : e.dst = x
-----------------------------------------------------------------------------
(* The interference graph.                                                  *)

(* Mutant of LiveTogether: a FIFO is dead as soon as it is read.            *)
LiveTogetherStrictly(e, f) ==
  /\ liveInterval[e][1] < liveInterval[f][2]
  /\ liveInterval[f][1] < liveInterval[e][2]

LiveTogether(e, f) ==
  /\ liveInterval[e][1] <= liveInterval[f][2]
  /\ liveInterval[f][1] <= liveInterval[e][2]

ReadBefore(e, f) == liveInterval[e][2] <= liveInterval[f][1]

(* no_exception_for_duplicate(), the other way round.                       *)
DuplicateException(e, f) ==
  /\ ~config.disableDuplicateOptimization
  /\ \/ /\ e.src = f.src /\ IsDuplicate(e.src)
        /\ IsArray(InputOf(e.src))
        /\ ReadBefore(InputOf(e.src), e) /\ ReadBefore(InputOf(e.src), f)
     \/ e.dst = f.src /\ IsDuplicate(e.dst) /\ ReadBefore(e, f)
     \/ f.dst = e.src /\ IsDuplicate(f.dst) /\ ReadBefore(f, e)

(* An imposed buffer is not shared when its node keeps it or the user       *)
(* forbids it, nor with a FIFO of another length or with its own buffer.    *)
ConstraintForbids(e, f) ==
  /\ IsCustom(e)
  /\ \/ CustomBuffer(e).assignedByNode \/ ~CustomBuffer(e).canBeShared
     \/ FifoLength(e) # FifoLength(f)
     \/ IsCustom(f)

Interfere(e, f) ==
  /\ e # f
  /\ \/ ConstraintForbids(e, f) \/ ConstraintForbids(f, e)
     \/ LiveTogether(e, f) /\ ~DuplicateException(e, f)

InterferenceEdges ==
  {{p[1], p[2]} : p \in {q \in Arrays \X Arrays : Interfere(q[1], q[2])}}

(* optimal_coloring(): the fewest colours, in any of the ways there are.    *)
Colourings(edges, k) ==
  {c \in [Arrays -> 1 .. k] : \A p \in edges : \E e, f \in p : c[e] # c[f]}

OptimalColourings ==
  LET edges == InterferenceEdges IN
  Colourings(edges, Min({k \in 0 .. Cardinality(Arrays) :
                           Colourings(edges, k) # {}}))

(* A FIFO that shares the colour of an imposed buffer is given that buffer. *)
BuffersOf(c) ==
  [e \in graph.edges |-> IF e \in Arrays THEN {f \in Arrays : c[f] = c[e]}
                                         ELSE {e}]
-----------------------------------------------------------------------------
(* Which outputs a Duplicate node copies to: not to the buffer of its       *)
(* input, and once to a buffer of several outputs.  The code compares the   *)
(* buffer attribute of the FIFOs, which is None for an imposed buffer.      *)

BufferAttribute(buf, e) ==
  IF \E f \in buf[e] : IsCustom(f) THEN NoBuffer ELSE buf[e]

SkippedBy(buf) ==
  {e \in graph.edges :
     /\ IsDuplicate(e.src) /\ ~config.disableDuplicateOptimization
     /\ \/ BufferAttribute(buf, e) = BufferAttribute(buf, InputOf(e.src))
        \/ \E f \in graph.edges :
             /\ f.src = e.src /\ f.out < e.out
             /\ BufferAttribute(buf, f) = BufferAttribute(buf, e)}

(* CannotReuseCustomBufferMoreThanOnce.  A buffer may have no name.         *)
BufferReused ==
  \E e, f \in graph.edges :
    /\ e # f /\ IsCustom(e) /\ IsCustom(f)
    /\ CustomBuffer(e).name = CustomBuffer(f).name
    /\ CustomBuffer(e).name # NoBuffer

(* FIFOWithCustomBufferMustBeUsedAsArray.                                   *)
MustBeArray ==
  \E e \in graph.edges : IsCustom(e) /\ CustomBuffer(e).mustBeArray
                                     /\ ~IsArray(e)

initializeFIFODescriptions ==
  /\ phase = "scheduled"
  /\ (~BufferReused /\ ~MustBeArray) = TRUE
  /\ IF config.memoryOptimization
     THEN \E c \in OptimalColourings : buffer' = BuffersOf(c)
     ELSE buffer' = [e \in graph.edges |-> {e}]
  /\ skip' = SkippedBy(buffer')
  /\ phase' = "allocated"
  /\ UNCHANGED <<config, graph, sorted, initN, n, b, bMax, positionInCycle,
                 layers, schedule, liveInterval>>

refuseConstraints ==
  /\ phase = "scheduled"
  /\ \/ BufferReused /\ Raise("CannotReuseCustomBufferMoreThanOnce")
     \/ /\ ~BufferReused /\ MustBeArray
        /\ Raise("FIFOWithCustomBufferMustBeUsedAsArray")
  /\ UNCHANGED allocVars
=============================================================================

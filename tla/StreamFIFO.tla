------------------------------ MODULE StreamFIFO ------------------------------
(***************************************************************************)
(* One FIFO of platform/GenericNodes.hpp with its memory: the synchronous    *)
(* and the asynchronous class, which share their code, for any length and    *)
(* delay.  Samples are numbered in the order in which they enter; those of    *)
(* the delay come first.  Nodes keep the contract of the classes: they look   *)
(* for an underflow and an overflow first, or the schedule does it for them.  *)
(***************************************************************************)
EXTENDS FIFOClasses, Sequences

CONSTANTS
  length, delay,
  Amounts,       (* how many samples an execution asks for                  *)
  CopyOrders,    (* how the memcpy of the build may go through the bytes    *)
  MaxSamples     (* bound: samples produced since the last reset            *)

VARIABLES
  mBuffer, pos,
  produced,      (* samples that have entered, those of the delay included  *)
  consumed,      (* samples that have left                                  *)
  got            (* what the last getReadBuffer() has shown                 *)

vars == <<mBuffer, pos, produced, consumed, got>>

ASSUME FIFOAssumption ==
  /\ length \in Nat \ {0}
  /\ delay \in 0 .. length
  /\ Amounts \subseteq Nat \ {0}
  /\ CopyOrders \subseteq {"ascending", "descending"} /\ CopyOrders # {}
  /\ MaxSamples \in Nat

Class == [length |-> length, array |-> FALSE, delay |-> delay]

Silence == 0

TypeOK ==
  /\ mBuffer \in [0 .. length - 1 -> Nat]
  /\ pos \in [read : 0 .. length, write : 0 .. length]
  /\ produced \in Nat /\ consumed \in Nat
  /\ got \in Seq(Nat)

Init ==
  /\ mBuffer = [i \in 0 .. length - 1 |-> IF i < delay THEN i + 1 ELSE Silence]
  /\ pos = Fresh(Class)
  /\ produced = delay /\ consumed = 0
  /\ got = << >>

(* Mutant: too few samples are moved.                                       *)
MovedShort(order, n, r) ==
  [i \in 0 .. length - 1 |->
     IF i >= n - 1 \/ r = 0 THEN mBuffer[i] ELSE mBuffer[i + r]]

(* memcpy() of n samples from position r to the start.  When the two ranges *)
(* overlap its effect is undefined: going up it moves them, going down each  *)
(* position gets the last sample that lies a multiple of r above it.        *)
Moved(order, n, r) ==
  [i \in 0 .. length - 1 |->
     IF i >= n \/ r = 0 THEN mBuffer[i]
     ELSE IF order = "ascending" \/ n <= r THEN mBuffer[i + r]
     ELSE mBuffer[i + r * ((n - 1 - i) \div r + 1)]]

(* A node asks for room and fills it.                                       *)
Write(nb) ==
  /\ ~willOverflowWith(Class, pos, nb)
  /\ produced + nb <= MaxSamples
  /\ LET n == nbSamplesInFIFO(Class, pos) IN
     /\ pos' = getWriteBuffer(Class, pos, nb)
     /\ \E order \in CopyOrders :
          mBuffer' = [i \in 0 .. length - 1 |->
                        IF i \in n .. n + nb - 1 THEN produced + 1 + (i - n)
                        ELSE Moved(order, n, pos.read)[i]]
  /\ produced' = produced + nb
  /\ UNCHANGED <<consumed, got>>

(* A node asks for samples and reads them.                                  *)
Read(nb) ==
  /\ ~willUnderflowWith(Class, pos, nb)
  /\ pos' = getReadBuffer(Class, pos, nb)
  /\ got' = [i \in 1 .. nb |-> mBuffer[pos.read + i - 1]]
  /\ consumed' = consumed + nb
  /\ UNCHANGED <<mBuffer, produced>>

(* reset(); the memory is cleared by reset_fifos(), and the samples of the  *)
(* delay are numbered again.                                                *)
Reset ==
  /\ pos' = Fresh(Class)
  /\ mBuffer' = [i \in 0 .. length - 1 |-> IF i < delay THEN i + 1 ELSE Silence]
  /\ produced' = delay /\ consumed' = 0 /\ got' = << >>

Next == \/ \E nb \in Amounts : Write(nb) \/ Read(nb)
        \/ Reset

Spec == Init /\ [][Next]_vars
-----------------------------------------------------------------------------
(* The positions stay inside the buffer, in order, and their distance is     *)
(* the number of samples that have entered and not left                      *)
(* (GenericNodes.hpp:149-178).                                               *)
PositionsInside ==
  /\ 0 <= pos.read /\ pos.read <= pos.write /\ pos.write <= length
  /\ pos.write - pos.read = produced - consumed

(* Whatever the mixture of amounts, the samples between the positions are    *)
(* the next ones, in order: the moves of getWriteBuffer() lose, repeat and   *)
(* reorder none (GenericNodes.hpp:153-165).                                  *)
HoldsTheNext ==
  \A i \in 0 .. length - 1 :
    i \in pos.read .. pos.write - 1 => mBuffer[i] = consumed + 1 + (i - pos.read)

(* What a node reads are the samples that come next in the stream, each      *)
(* once (GenericNodes.hpp:172-178).                                          *)
ReadsInOrder ==
  \A i \in DOMAIN got : got[i] = consumed - Len(got) + i
=============================================================================

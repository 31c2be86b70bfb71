------------------------------ MODULE FIFOClasses ------------------------------
(***************************************************************************)
(* The three FIFO classes of platform/GenericNodes.hpp, seen through their   *)
(* positions: a FIFO is described by [length, array, delay], and its state is *)
(* [read, write], readPos and writePos.  The synchronous and the             *)
(* asynchronous FIFO are the same code.  In an array there are no positions: *)
(* each access is at the start of the buffer.                                *)
(***************************************************************************)
EXTENDS Integers

(* The constructor and reset().                                             *)
Fresh(c) == [read |-> 0, write |-> IF c.array THEN 0 ELSE c.delay]

nbSamplesInFIFO(c, p) == p.write - p.read

nbOfFreeSamplesInFIFO(c, p) == IF c.array THEN 0 ELSE c.length - p.write + p.read

(* An array answers that all is well.                                       *)
willUnderflowWith(c, p, nb) == ~c.array /\ p.write - p.read - nb < 0

willOverflowWith(c, p, nb) == ~c.array /\ p.write - p.read + nb > c.length

(* The samples that are left are moved to the start of the buffer first.    *)
getWriteBuffer(c, p, nb) ==
  IF c.array THEN p ELSE [read |-> 0, write |-> p.write - p.read + nb]

getReadBuffer(c, p, nb) == IF c.array THEN p ELSE [p EXCEPT !.read = @ + nb]
=============================================================================

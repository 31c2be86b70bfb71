---------------------------- MODULE PackedEvents ----------------------------
(***************************************************************************)
(* Events as messages: what cg_pack.hpp writes and reads for the nodes of a *)
(* graph, and events.py for a host in Python.                               *)
(*                                                                         *)
(* A message is a sequence of units, each a number: a field of the format   *)
(* (a tag, a count, an identifier) or one element of a value, whatever its  *)
(* width.  The priority travels like the event's identifier and is left     *)
(* out.  Both sides pack for the network, with no MemServer.                *)
(***************************************************************************)
EXTENDS Integers, Sequences, SequencesExt

(* cg_value_type and cg_buffer_type, and their twins in events.py.          *)
Tag == [kNone |-> 0, kInt8 |-> 1, kInt16 |-> 2, kInt32 |-> 3, kInt64 |-> 4,
        kFloat |-> 5, kDouble |-> 6, kUInt8 |-> 7, kUInt16 |-> 8,
        kUInt32 |-> 9, kUInt64 |-> 10, kAny |-> 11, kStr |-> 12,
        kTensor |-> 13]

Integral == {Tag.kInt8, Tag.kInt16, Tag.kInt32, Tag.kInt64,
             Tag.kUInt8, Tag.kUInt16, Tag.kUInt32, Tag.kUInt64}
Scalars  == Integral \cup {Tag.kFloat, Tag.kDouble}

kCopyBuffer   == 0
kSharedBuffer == 1
CG_TENSOR_NB_DIMS == 3   (* the default of the three platforms *)
CG_MAX_VALUES     == 8   (* the values of a list, likewise *)
PyTensorDims      == 4   (* what events.py writes whatever the platform *)

(* A value of C++ has a kind, a value of Python a type; both have elements, *)
(* and a tensor has dimensions and a kind of elements.                      *)
CppValue(k, body) == [kind |-> k, of |-> Tag.kNone, dims |-> <<>>, body |-> body]
CppTensor(k, dims, body) ==
  [kind |-> Tag.kTensor, of |-> k, dims |-> dims, body |-> body]
SharedKind        == 15  (* a raw buffer in shared memory *)

PyValue(t, body) == [type |-> t, of |-> Tag.kNone, dims |-> <<>>, body |-> body]
PyTensor(k, dims, body) ==
  [type |-> "tensor", of |-> k, dims |-> dims, body |-> body]

CppNone == CppValue(Tag.kNone, <<>>)
PyNone  == PyValue("none", <<>>)

(* An array is preceded by its length.                                      *)
PackArray(s) == <<Len(s)>> \o s

PackTensor(v, dims) ==
  <<Tag.kTensor, Len(v.dims)>> \o PackArray(dims)
    \o <<v.of, kCopyBuffer>> \o PackArray(v.body)

Padded(dims, nb) == dims \o [i \in 1..nb - Len(dims) |-> 0]

(* Pack::pack() of one value.  A string goes with its terminating null; a   *)
(* buffer in shared memory, as its size and its identifier.                 *)
CppPackValue(v) ==
  IF v.kind \in Scalars THEN <<v.kind>> \o v.body
  ELSE CASE v.kind = Tag.kStr    -> <<Tag.kStr>> \o PackArray(v.body \o <<0>>)
         [] v.kind = Tag.kAny    -> <<Tag.kAny, kCopyBuffer>> \o PackArray(v.body)
         [] v.kind = SharedKind  -> <<Tag.kAny, kSharedBuffer>> \o v.body
         [] v.kind = Tag.kTensor -> PackTensor(v, Padded(v.dims, CG_TENSOR_NB_DIMS))
         [] v.kind = Tag.kNone   -> <<Tag.kNone>>

(* An integer of Python takes the narrowest signed kind that holds it.      *)
Signed(max) == (-max - 1)..max
Int32       == Signed(2147483647)

PyIntegerKind(x) ==
  IF x \in Signed(127) THEN Tag.kInt8
  ELSE IF x \in Signed(32767) THEN Tag.kInt16
  ELSE IF x \in Int32 THEN Tag.kInt32 ELSE Tag.kInt64

(* Pack._pack(): a string goes as it is, without an end.                    *)
PyPackValue(v) ==
  CASE v.type = "int"    -> <<PyIntegerKind(v.body[1])>> \o v.body
    [] v.type = "float"  -> <<Tag.kFloat>> \o v.body
    [] v.type = "str"    -> <<Tag.kStr>> \o PackArray(v.body)
    [] v.type = "bytes"  -> <<Tag.kAny, kCopyBuffer>> \o PackArray(v.body)
    [] v.type = "tensor" -> PackTensor(v, Padded(v.dims, PyTensorDims))
    [] v.type = "none"   -> <<Tag.kNone>>

(* Mutant of PackEvent: the list is announced one value short.              *)
PackEventShort(e, packed) ==
  <<e.node, e.id>> \o
  (CASE Len(packed) = 0 -> <<0, Tag.kNone>>
     [] Len(packed) = 1 -> <<0>> \o packed[1]
     [] OTHER           -> <<1, Len(packed) - 1>> \o FlattenSeq(packed))

(* The node and the event, then one value or the number of values and each. *)
PackEvent(e, packed) ==
  <<e.node, e.id>> \o
  (CASE Len(packed) = 0 -> <<0, Tag.kNone>>
     [] Len(packed) = 1 -> <<0>> \o packed[1]
     [] OTHER           -> <<1, Len(packed)>> \o FlattenSeq(packed))

CppPack(e) == PackEvent(e, [i \in DOMAIN e.data |-> CppPackValue(e.data[i])])
PyPack(e)  == PackEvent(e, [i \in DOMAIN e.data |-> PyPackValue(e.data[i])])
-----------------------------------------------------------------------------
(* Reading: the value that begins at unit p, and where the next one begins. *)
Read(v, next) == [val |-> v, next |-> next]

Elements(m, p, nb) == SubSeq(m, p, p + nb - 1)

(* Unpack::unpack_value().  A tag that it does not know is left where it is; *)
(* kInt64 and kUInt64 are among them.                                       *)
CppReads == Scalars \ {Tag.kInt64, Tag.kUInt64}

(* A tensor is read with CG_TENSOR_NB_DIMS dimensions, whatever the message *)
(* says of their number.                                                    *)
CppUnpackTensor(m, p) ==
  LET data == p + 3 + CG_TENSOR_NB_DIMS (* the kind of elements *)
      dims == Elements(m, p + 3, m[p + 1])
      nb   == m[data + 2] IN
  IF m[data] \notin Scalars THEN Read(CppNone, data)
  ELSE IF m[data + 1] = kCopyBuffer
  THEN Read(CppTensor(m[data], dims, Elements(m, data + 3, nb)), data + 3 + nb)
  ELSE Read(CppNone, data + 4)

CppUnpackValue(m, p) ==
  LET tag == m[p] IN
  IF tag \in CppReads
  THEN Read(CppValue(tag, <<m[p + 1]>>), p + 2)
  ELSE CASE tag = Tag.kNone -> Read(CppNone, p + 1)
         [] tag = Tag.kAny /\ m[p + 1] = kCopyBuffer ->
              Read(CppValue(tag, Elements(m, p + 3, m[p + 2])), p + 3 + m[p + 2])
         [] tag = Tag.kAny /\ m[p + 1] = kSharedBuffer -> Read(CppNone, p + 4)
         [] tag = Tag.kStr ->
              Read(CppValue(tag, Elements(m, p + 2, m[p + 1] - 1)),
                   p + 2 + m[p + 1])
         [] tag = Tag.kTensor -> CppUnpackTensor(m, p)
         [] OTHER -> Read(CppNone, p)

(* Unpack.unpack_value(): a buffer loses its last byte, as a string does.   *)
PyUnpackTensor(m, p) ==
  LET data == p + 3 + m[p + 2]
      dims == Elements(m, p + 3, m[p + 1])
      nb   == m[data + 2] IN
  IF m[data] \notin Scalars THEN Read(PyNone, data)
  ELSE IF m[data + 1] = kCopyBuffer
  THEN Read(PyTensor(m[data], dims, Elements(m, data + 3, nb)), data + 3 + nb)
  ELSE Read(PyNone, data + 4)

PyUnpackValue(m, p) ==
  LET tag == m[p] IN
  CASE tag \in Integral -> Read(PyValue("int", <<m[p + 1]>>), p + 2)
    [] tag \in {Tag.kFloat, Tag.kDouble} ->
         Read(PyValue("float", <<m[p + 1]>>), p + 2)
    [] tag = Tag.kNone -> Read(PyNone, p + 1)
    [] tag = Tag.kAny /\ m[p + 1] = kCopyBuffer ->
         Read(PyValue("bytes", Elements(m, p + 3, m[p + 2] - 1)), p + 3 + m[p + 2])
    [] tag = Tag.kAny /\ m[p + 1] = kSharedBuffer -> Read(PyNone, p + 4)
    [] tag = Tag.kStr ->
         Read(PyValue("str", Elements(m, p + 2, m[p + 1] - 1)), p + 2 + m[p + 1])
    [] tag = Tag.kTensor -> PyUnpackTensor(m, p)
    [] OTHER -> Read(PyNone, p)

(* One value begins at unit 4, those of a list at unit 5, each after the    *)
(* one before.                                                              *)
CppUnpack(m) ==
  LET nb == m[4]
      read[i \in 1..nb] ==
        CppUnpackValue(m, IF i = 1 THEN 5 ELSE read[i - 1].next) IN
  [node |-> m[1], id |-> m[2],
   data |-> IF m[3] = 0 THEN <<CppUnpackValue(m, 4).val>>
                        ELSE [i \in 1..nb |-> read[i].val]]

PyUnpack(m) ==
  LET nb == m[4]
      read[i \in 1..nb] ==
        PyUnpackValue(m, IF i = 1 THEN 5 ELSE read[i - 1].next) IN
  [node |-> m[1], id |-> m[2],
   data |-> IF m[3] = 0 THEN <<PyUnpackValue(m, 4).val>>
                        ELSE [i \in 1..nb |-> read[i].val]]
-----------------------------------------------------------------------------
(* What an event says, in the terms of Python: the widths of numbers are    *)
(* forgotten, shared memory is ignored on a network, and an event without   *)
(* values has the value none.                                               *)
TypeOf(k) == CASE k \in Integral -> "int"
               [] k \in {Tag.kFloat, Tag.kDouble} -> "float"
               [] k = Tag.kStr    -> "str"
               [] k = Tag.kAny    -> "bytes"
               [] k = Tag.kTensor -> "tensor"
               [] OTHER           -> "none"

SaidByCpp(v) ==
  IF TypeOf(v.kind) = "none" THEN PyNone
  ELSE [type |-> TypeOf(v.kind), of |-> v.of, dims |-> v.dims, body |-> v.body]

Said(e)     == [e EXCEPT !.data = IF @ = <<>> THEN <<PyNone>> ELSE @]
SaidCpp(e)  == Said([e EXCEPT !.data = [i \in DOMAIN @ |-> SaidByCpp(@[i])]])
=============================================================================

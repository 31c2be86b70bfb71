----------------------------- MODULE MCHostLink -----------------------------
(***************************************************************************)
(* Two hosts, and events of every kind that both sides can read: left out   *)
(* are the strings, wide integers and tensors of Python, which C++ does not *)
(* read, and the raw buffers of C++, of which Python loses the last byte.   *)
(***************************************************************************)
EXTENDS HostLink

FewNodes == {1}

MostHostEvents ==
  << << [node |-> 1, id |-> 2,
         data |-> <<PyNone, PyValue("int", <<300>>), PyValue("bytes", <<7>>)>>],
        [node |-> 9, id |-> 3, data |-> <<PyValue("float", <<5>>)>>] >>,
     << [node |-> 1, id |-> 1, data |-> <<>>] >> >>

MostGraphEvents ==
  << << [node |-> 1, id |-> 2,
         data |-> <<CppValue(Tag.kStr, <<7>>), CppValue(Tag.kUInt64, <<8>>)>>],
        [node |-> 1, id |-> 1,
         data |-> <<CppTensor(Tag.kFloat, <<2>>, <<5, 6>>)>>],
        [node |-> 1, id |-> 4, data |-> <<>>] >>,
     << [node |-> 1, id |-> 3, data |-> <<CppValue(Tag.kInt16, <<9>>)>>] >> >>

FewChunks == {7}

ASSUME OfKindsRead == Readable
=============================================================================

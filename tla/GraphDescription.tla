-------------------------- MODULE GraphDescription --------------------------
(***************************************************************************)
(* A graph, the YAML file that export_graph() writes of it, and the graph   *)
(* that import_graph() makes of the file (PythonPackage cg/yaml), with      *)
(* Graph.connect() (description.py) and the nodes (node.py) they rest on.   *)
(*                                                                         *)
(* A script makes nodes, connects them, sets options, exports and imports,  *)
(* imports what it has exported of the copy, and so on.  A document has the *)
(* keys of the YAML with _ for -; a key that may be missing has a sequence  *)
(* of no or one value.  A name that is put together, like that of a         *)
(* function with its number, is a tuple.                                    *)
(***************************************************************************)
EXTENDS ConfigurationFile, Integers, FiniteSets, SequencesExt

CONSTANTS Programs,     \* scripts: the nodes that one makes, in its order
          ConstantNames,\* the Constant objects
          Known,        \* the classes of FIFOs in str_to_class
          Settings,     \* the ways to connect: values for connect()'s arguments
          Defaults,     \* values for defaultFIFOClass
          MaxCalls,     \* bound: calls that build the graph or the configuration
          MaxCopies     \* bound: imports in a row

VARIABLES graphs,    \* the graph of the script and its copies
          files,     \* files[k] is what was exported of graphs[k]
          made,      \* GenericFunction.NODEID: functions made by name
          conf, confFile, confCopy, \* the same of the configuration
          calls,
          raised     \* the exception that has ended the script

vars == <<graphs, files, made, conf, confFile, confCopy, calls, raised>>

None     == "None"
StreamFIFO == "StreamFIFO"
NoNumber == -1                                   \* None among numbers
Only(written, value) == IF written THEN <<value>> ELSE <<>>
Has(key) == key # <<>>
Get(key, default) == IF Has(key) THEN key[1] ELSE default

\* The elements of s at the positions I, in their order
Pick(s, I) ==
  [k \in 1..Cardinality(I) |->
     s[CHOOSE i \in I : Cardinality({j \in I : j <= i}) = k]]

\* s, that a dictionary with these keys holds in the order of its first entries
Firsts(s, keys) ==
  Pick(s, {i \in DOMAIN s : \A j \in 1..(i - 1) : keys[j] # keys[i]})

(***************************************************************************)
(* Types.                                                                   *)
(***************************************************************************)
Scalars ==
  [float64_t |-> "F64", double |-> "F64", float32_t |-> "F32", float |-> "F32",
   float16_t |-> "F16", q31_t |-> "Q31", q15_t |-> "Q15", q7_t |-> "Q7",
   uint32_t |-> "UINT32", uint16_t |-> "UINT16", uint8_t |-> "UINT8",
   int32_t |-> "SINT32", int16_t |-> "SINT16", int8_t |-> "SINT8"]

CType(name) == [class |-> "CType", name |-> name]
CStructType(name, bytes) ==
  [class |-> "CStructType", name |-> name, bytes |-> bytes]
SharedType(refType, shared) ==
  [class |-> "SharedType", of |-> refType, shared |-> shared]

ctype(t) == IF t.class = "SharedType"
              THEN <<"Shared", t.of.name, IF t.shared THEN "true" ELSE "false">>
              ELSE <<t.name>>

SameType(s, t) ==
  /\ s.class = t.class
  /\ IF s.class = "CType" THEN Scalars[s.name] = Scalars[t.name]
                          ELSE s.name = t.name

compatible(s, t) ==
  IF s.class = "SharedType" /\ t.class = "SharedType"
    THEN SameType(s.of, t.of)
    ELSE s.class # "SharedType" /\ t.class # "SharedType" /\ SameType(s, t)

(***************************************************************************)
(* Nodes.  A node has the Python class it inherits from, the name of the    *)
(* C++ class or of the function, inputs and outputs; a function the mapping *)
(* of its arguments.  The constraint of an IO is a sequence of none or one. *)
(***************************************************************************)
setBufferConstraint(name, mustBeArray, assignedByNode, canBeShared) ==
  << [name |-> name, mustBeArray |-> mustBeArray,
      assignedByNode |-> assignedByNode, canBeShared |-> canBeShared] >>

IO(name, type, samples, constraint) ==
  [name |-> name, type |-> type, samples |-> samples, constraint |-> constraint]

Node(class, kind, name, identified, ins, outs, args) ==
  [class |-> class, kind |-> kind, id |-> <<name, 0>>, identified |-> identified,
   ins |-> ins, outs |-> outs, args |-> args, argsDesc |-> <<>>]

GenericFunction(class, name, argsDesc, ins, outs, args) ==
  [class |-> class, kind |-> name, id |-> <<name, 0>>, identified |-> FALSE,
   ins |-> ins, outs |-> outs, args |-> args, argsDesc |-> argsDesc]

Unary(name, type, n, args) ==
  GenericFunction("Unary", name, <<>>, <<IO("i", type, n, <<>>)>>,
                  <<IO("o", type, n, <<>>)>>, args)

Binary(name, type, n, inputs, args) ==
  GenericFunction("Binary", name, <<>>,
    [k \in 1..2 |-> IO(inputs[k], type, n, <<>>)],
    <<IO("o", type, n, <<>>)>>, args)

IsFunction(n) == n.class \in {"Unary", "Binary", "GenericFunction"}
ManyInputs(n)  == n.class \in {"GenericFromManyNode", "GenericManyToManyNode"}
ManyOutputs(n) == n.class \in {"GenericToManyNode", "GenericManyToManyNode"}

Count(count, f) == IF f \in DOMAIN count THEN count[f] ELSE 0

\* The nodes with the numbers that GenericFunction.__init__() gives
Numbered(nodes, count) ==
  [k \in DOMAIN nodes |->
     IF ~IsFunction(nodes[k]) THEN nodes[k]
     ELSE LET f == nodes[k].kind
              before == {j \in 1..(k - 1) : IsFunction(nodes[j]) /\ nodes[j].kind = f}
          IN  [nodes[k] EXCEPT !.id = <<f, Count(count, f) + Cardinality(before) + 1>>]]

CountedBy(nodes, count) ==
  LET names == {nodes[k].kind : k \in {j \in DOMAIN nodes : IsFunction(nodes[j])}}
  IN  [f \in DOMAIN count \cup names |-> Count(count, f)
         + Cardinality({k \in DOMAIN nodes : IsFunction(nodes[k]) /\ nodes[k].kind = f})]

HasPort(n, name) == \E io \in ToSet(n.ins \o n.outs) : io.name = name
Port(n, name) ==
  CHOOSE io \in ToSet(n.ins \o n.outs) : io.name = name   \* __getitem__()

(***************************************************************************)
(* Graphs: the node objects under the names the script has for them, the    *)
(* edges and the constants in the order they were connected.                *)
(***************************************************************************)
EmptyGraph(objects) ==
  [objects |-> objects, defaultFIFOClass |-> StreamFIFO,
   duplicateNodeClassName |-> "Duplicate", edges |-> <<>>, constants |-> <<>>]

PortOf(g, end) == Port(g.objects[end.node], end.port)

\* The exceptions of connect() and connectWithDelay()
ConnectRaises(g, src, dst) ==
  LET a == PortOf(g, src)
      b == PortOf(g, dst)
  IN  \/ ~compatible(a.type, b.type)
      \/ /\ a.constraint # <<>> /\ b.constraint # <<>>
         /\ \/ a.constraint[1].name # b.constraint[1].name
            \/ a.constraint[1].mustBeArray # b.constraint[1].mustBeArray

\* The constraint of an edge comes from its source, its destination or the call
CustomBuffer(a, b, s) ==
  IF a.constraint # <<>> THEN a.constraint
  ELSE IF b.constraint # <<>> THEN b.constraint
  ELSE IF s.buffer # None
         THEN setBufferConstraint(s.buffer, s.mustBeArray, FALSE, TRUE)
         ELSE <<>>

Edge(g, src, dst, s) ==
  [src |-> src, dst |-> dst,
   class |-> IF s.class = None THEN g.defaultFIFOClass ELSE s.class,
   scale |-> s.scale, length |-> s.length, weak |-> s.weak, delay |-> s.delay,
   buffer |-> CustomBuffer(PortOf(g, src), PortOf(g, dst), s)]

connect(g, src, dst, s) ==
  [g EXCEPT !.edges = Append(@, Edge(g, src, dst, s))]

connectConstant(g, name, dst) ==
  [g EXCEPT !.constants = Append(@, [src |-> name, dst |-> dst])]

(***************************************************************************)
(* export_graph().                                                          *)
(***************************************************************************)
MkBufferConstraint(c) ==
  [name |-> Only(c.name # None, c.name), must_be_array |-> c.mustBeArray,
   assigned_by_node |-> c.assignedByNode, can_be_shared |-> c.canBeShared]

\* The constraint, a sequence of none or one, under its key
BufferConstraint(constraint) ==
  Only(constraint # <<>>, MkBufferConstraint(constraint[1]))

CreateIO(io) ==
  [name |-> io.name, samples |-> <<io.samples>>, type |-> <<ctype(io.type)>>,
   buffer_constraint |-> BufferConstraint(io.constraint)]

CreateIOs(ios) == [samples |-> <<>>, type |-> <<>>,
                   ports |-> [k \in DOMAIN ios |-> CreateIO(ios[k])]]

\* IOs that are alike share their type and their number of samples
CreateListOfIOs(ios) ==
  [samples |-> <<ios[1].samples>>, type |-> <<ctype(ios[1].type)>>,
   ports |-> [k \in DOMAIN ios |->
                [CreateIO(ios[k]) EXCEPT !.samples = <<>>, !.type = <<>>]]]

YAMLNode(n) ==
  [node |-> n.id, identified |-> <<n.identified>>,
   unary |-> Only(n.class = "Unary", n.kind),
   binary |-> Only(n.class = "Binary", n.kind),
   c_function |-> Only(n.class = "GenericFunction",
                       [name |-> n.kind, args |-> n.argsDesc]),
   kind |-> Only(~IsFunction(n), n.kind),
   inputs |-> Only(n.ins # <<>>, IF ManyInputs(n) THEN CreateListOfIOs(n.ins)
                                                  ELSE CreateIOs(n.ins)),
   outputs |-> Only(n.outs # <<>>, IF ManyOutputs(n) THEN CreateListOfIOs(n.outs)
                                                     ELSE CreateIOs(n.outs)),
   args |-> Only(n.args # <<>>, n.args)]

YAMLConstantNode(name) ==
  [node |-> <<name, NoNumber>>, identified |-> <<>>, unary |-> <<>>,
   binary |-> <<>>, c_function |-> <<>>, kind |-> <<>>, inputs |-> <<>>,
   outputs |-> <<>>, args |-> <<>>]

YAMLEnd(g, end) == [node |-> g.objects[end.node].id, port |-> end.port]

YAMLEdge(g, e) ==
  [src |-> YAMLEnd(g, e.src), dst |-> YAMLEnd(g, e.dst),
   class |-> Only(e.class # StreamFIFO, e.class),
   scale |-> Only(e.scale \notin {0, 1}, e.scale),
   delay |-> Only(e.delay > 0, e.delay),
   async_length |-> Only(e.length > 0, e.length),
   weak_edge |-> Only(e.weak, TRUE),
   buffer_constraint |->
     IF /\ PortOf(g, e.src).constraint = <<>>
        /\ PortOf(g, e.dst).constraint = <<>>
       THEN BufferConstraint(e.buffer) ELSE <<>>]

YAMLConstantEdge(g, e) ==
  [src |-> [node |-> <<e.src, NoNumber>>], dst |-> YAMLEnd(g, e.dst),
   class |-> <<>>, scale |-> <<>>, delay |-> <<>>, async_length |-> <<>>,
   weak_edge |-> <<>>, buffer_constraint |-> <<>>]

StructEntry(t) == [key |-> ctype(t), cname |-> t.name, bytes |-> <<t.bytes>>,
                   internal |-> <<>>, shared |-> <<>>]
SharedEntry(t) == [key |-> ctype(t), cname |-> "Shared", bytes |-> <<>>,
                   internal |-> <<ctype(t.of)>>, shared |-> <<t.shared>>]

\* The entries of one type: that of the type a Shared refers to comes first
CreateType(t) ==
  CASE t.class = "CType"       -> <<>>
    [] t.class = "CStructType" -> <<StructEntry(t)>>
    [] t.class = "SharedType"  ->
         IF t.of.class = "CType" THEN <<SharedEntry(t)>>
                                 ELSE <<StructEntry(t.of), SharedEntry(t)>>

\* The nodes in the order in which the edges meet them, constants first
NodesMet(g) ==
  LET constants == [k \in DOMAIN g.constants |->
                      << <<g.constants[k].src, NoNumber>>, g.constants[k].dst.node >>]
      edges     == [k \in DOMAIN g.edges |->
                      << g.edges[k].src.node, g.edges[k].dst.node >>]
      met       == FlattenSeq(constants \o edges)
  IN  Firsts(met, met)

IsConstant(x) == x[2] = NoNumber

YAMLNodes(g) ==
  [k \in DOMAIN NodesMet(g) |->
     LET x == NodesMet(g)[k]
     IN  IF IsConstant(x) THEN YAMLConstantNode(x[1]) ELSE YAMLNode(g.objects[x])]

CustomTypes(g) ==
  LET met == NodesMet(g)
      ios == FlattenSeq([k \in DOMAIN met |->
               IF IsConstant(met[k]) THEN <<>>
               ELSE g.objects[met[k]].ins \o g.objects[met[k]].outs])
      entries == FlattenSeq([k \in DOMAIN ios |-> CreateType(ios[k].type)])
  IN  Firsts(entries, [k \in DOMAIN entries |-> entries[k].key])

ExportedGraph(g) ==
  [FIFO |-> Only(g.defaultFIFOClass # StreamFIFO, g.defaultFIFOClass),
   Duplicate |-> Only(g.duplicateNodeClassName # "Duplicate", g.duplicateNodeClassName),
   custom_types |-> CustomTypes(g),
   nodes |-> YAMLNodes(g),
   edges |-> [k \in DOMAIN g.constants |-> YAMLConstantEdge(g, g.constants[k])]
             \o [k \in DOMAIN g.edges |-> YAMLEdge(g, g.edges[k])]]

(***************************************************************************)
(* import_graph().  Its exceptions are those of any statement it reaches;   *)
(* none of them is caught.                                                  *)
(***************************************************************************)
\* get_class_name() raises CannotFindClass
ClassUnknown(class) == Has(class) /\ class[1] \notin Known \cup {StreamFIFO}

UnknownClass(doc) ==
  \/ ClassUnknown(doc.FIFO)
  \/ \E k \in DOMAIN doc.edges : ClassUnknown(doc.edges[k].class)

\* A SharedType needs its internal type, and that has been met
UnknownInternal(types) ==
  \E k \in DOMAIN types :
    /\ types[k].cname = "Shared"
    /\ \/ ~Has(types[k].internal)
       \/ \A j \in 1..(k - 1) : types[j].key # types[k].internal[1]

EntryOf(types, key) == types[CHOOSE k \in DOMAIN types : types[k].key = key]

\* cstruct[key]: what a SharedType refers to is a structure
ImportedType(types, key) ==
  LET c == EntryOf(types, key)
      Struct(e) == CStructType(e.cname, e.bytes[1])
  IN  IF c.cname = "Shared"
        THEN SharedType(Struct(EntryOf(types, c.internal[1])), c.shared[1])
        ELSE Struct(c)

dataType(name, types) ==
  IF Len(name) = 1 /\ name[1] \in DOMAIN Scalars THEN CType(name[1])
                                               ELSE ImportedType(types, name)

AddBufferConstraint(constraint) ==
  IF ~Has(constraint) THEN <<>>
  ELSE LET c == constraint[1]
       IN  setBufferConstraint(c.name[1], c.must_be_array, c.assigned_by_node,
                               c.can_be_shared)

\* constraint["name"] of a constraint without a name
NamelessConstraint(ios) ==
  \E k \in DOMAIN ios.ports :
    /\ Has(ios.ports[k].buffer_constraint)
    /\ ~Has(ios.ports[k].buffer_constraint[1].name)

IsList(ios) == Has(ios.samples)

\* _get_many_io_names() takes a name of a list that has the text name in it for
\* an entry with a constraint; no port is called so here
ProcessIOs(ios, types) ==
  [k \in DOMAIN ios.ports |->
     LET p == ios.ports[k]
         type    == IF IsList(ios) THEN ios.type ELSE p.type
         samples == IF IsList(ios) THEN ios.samples ELSE p.samples
     IN  IO(p.name, dataType(type[1], types), samples[1],
            AddBufferConstraint(p.buffer_constraint))]

IdentifyNodeKind(n) ==
  CASE ~Has(n.outputs) -> "GenericSink"
    [] ~Has(n.inputs)  -> "GenericSource"
    [] Has(n.inputs) /\ Has(n.outputs) ->
         IF IsList(n.inputs[1])
           THEN IF IsList(n.outputs[1]) THEN "GenericManyToManyNode"
                                        ELSE "GenericFromManyNode"
           ELSE IF IsList(n.outputs[1]) THEN "GenericToManyNode"
                                        ELSE "GenericNode"

\* The variable that holds the name is used again for those of the lengths
FunctionName(f) ==
  LET lengths == SelectSeq(f.args, LAMBDA a : a.sort = "io_length")
  IN  IF lengths = <<>> THEN f.name ELSE Last(lengths).name

EvtQueue == [variable |-> "evtQueue"]

\* Every argument at the first place, not the event queue alone
AddArgs_First(args) == Reverse(args)

\* The arguments in their order, but the event queue at the first place
AddArgs(args) ==
  LET queues == {k \in DOMAIN args : args[k] = EvtQueue}
  IN  Pick(args, queues) \o Pick(args, DOMAIN args \ queues)

ProcessArguments(n) == AddArgs(Get(n.args, <<>>))

\* What raises in the loop over the nodes: KeyError, or TypeError for a list
\* of IOs where a source or a sink is made
NodeRaises(n) ==
  \/ ~Has(n.identified)
  \/ ~(Has(n.inputs) /\ Has(n.outputs)) /\
        (\/ ~Has(n.kind)
         \/ Has(n.inputs) /\ IsList(n.inputs[1])
         \/ Has(n.outputs) /\ IsList(n.outputs[1]))
  \/ /\ ~Has(n.unary) /\ ~Has(n.binary)
     /\ \/ Has(n.inputs) /\ NamelessConstraint(n.inputs[1])
        \/ Has(n.outputs) /\ NamelessConstraint(n.outputs[1])

ImportedNode(n, types) ==
  LET IOs(side) == IF Has(side) THEN ProcessIOs(side[1], types) ELSE <<>>
      args == ProcessArguments(n)
  IN  CASE Has(n.unary) ->
             LET first == n.inputs[1].ports[1]
             IN  Unary(n.unary[1], dataType(first.type[1], types), first.samples[1],
                       args)
        [] Has(n.binary) ->
             LET first == n.inputs[1].ports[1]
             IN  Binary(n.binary[1], dataType(first.type[1], types), first.samples[1],
                        <<"ia", "ib">>, args)
        [] Has(n.c_function) ->
             GenericFunction("GenericFunction", FunctionName(n.c_function[1]),
                             n.c_function[1].args, IOs(n.inputs), IOs(n.outputs), args)
        [] OTHER ->
             [Node(IdentifyNodeKind(n), n.kind[1], "", n.identified[1],
                   IOs(n.inputs), IOs(n.outputs), args) EXCEPT !.id = n.node]

ImportedNodes(doc) ==
  [k \in DOMAIN doc.nodes |-> ImportedNode(doc.nodes[k], doc.custom_types)]

\* A buffer of the file that loses its kind
ImportedSetting_AnyArray(e) ==
  [class |-> Get(e.class, None), scale |-> Get(e.scale, 1),
   length |-> Get(e.async_length, NoNumber), weak |-> Get(e.weak_edge, FALSE),
   delay |-> Get(e.delay, NoNumber),
   buffer |-> IF Has(e.buffer_constraint) THEN e.buffer_constraint[1].name[1] ELSE None,
   mustBeArray |-> TRUE]

\* The values that the loop over the edges gives to connect()
ImportedSetting(e) ==
  [class |-> Get(e.class, None), scale |-> Get(e.scale, 1),
   length |-> Get(e.async_length, NoNumber), weak |-> Get(e.weak_edge, FALSE),
   delay |-> Get(e.delay, NoNumber),
   buffer |-> IF Has(e.buffer_constraint) THEN e.buffer_constraint[1].name[1] ELSE None,
   mustBeArray |-> IF Has(e.buffer_constraint)
                     THEN e.buffer_constraint[1].must_be_array ELSE TRUE]

\* The objects under the names of the file, and no edge yet
ImportedObjects(doc, count) ==
  LET nodes == Numbered(ImportedNodes(doc), count)
  IN  [EmptyGraph([key \in {doc.nodes[k].node : k \in DOMAIN doc.nodes} |->
                     nodes[CHOOSE k \in DOMAIN nodes : doc.nodes[k].node = key]])
       EXCEPT !.defaultFIFOClass = Get(doc.FIFO, StreamFIFO),
              !.duplicateNodeClassName = Get(doc.Duplicate, "Duplicate")]

\* The loop over the edges calls connect() for each
ImportedGraph(doc, count) ==
  LET g == ImportedObjects(doc, count)
  IN  [g EXCEPT !.edges = [k \in DOMAIN doc.edges |->
         Edge(g, doc.edges[k].src, doc.edges[k].dst, ImportedSetting(doc.edges[k]))]]

\* IndexError of src[o] or dst[i], or an exception of connect()
EdgeRaises(g, e) ==
  \/ ~HasPort(g.objects[e.src.node], e.src.port)
  \/ ~HasPort(g.objects[e.dst.node], e.dst.port)
  \/ ConnectRaises(g, e.src, e.dst)

ImportRaises(doc) ==
  \/ UnknownClass(doc)
  \/ UnknownInternal(doc.custom_types)
  \/ \E k \in DOMAIN doc.nodes : NodeRaises(doc.nodes[k])
  \/ \E k \in DOMAIN doc.edges : EdgeRaises(ImportedObjects(doc, <<>>), doc.edges[k])

(***************************************************************************)
(* What the constructors make of the nodes, and connect() is given.         *)
(***************************************************************************)
IsSequence(s) == Len(s) \in Nat /\ s = [k \in 1..Len(s) |-> s[k]]

BaseTypeMade(t) ==
  \/ t.class = "CType" /\ t = CType(t.name) /\ t.name \in DOMAIN Scalars
  \/ t.class = "CStructType" /\ t = CStructType(t.name, t.bytes)

TypeMade(t) ==
  IF t.class = "SharedType"
    THEN t = SharedType(t.of, t.shared) /\ t.shared \in BOOLEAN /\ BaseTypeMade(t.of)
    ELSE BaseTypeMade(t)

ConstraintMade(constraint) ==
  \/ constraint = <<>>
  \/ LET c == constraint[1]
     IN  constraint = setBufferConstraint(c.name, c.mustBeArray, c.assignedByNode,
                                          c.canBeShared)

IOMade(io) ==
  /\ io = IO(io.name, io.type, io.samples, io.constraint)
  /\ TypeMade(io.type) /\ ConstraintMade(io.constraint)

IOsMade(ios, alike) ==
  /\ IsSequence(ios)
  /\ \A k \in DOMAIN ios :
       /\ IOMade(ios[k])
       /\ alike => ios[k].type = ios[1].type /\ ios[k].samples = ios[1].samples
       /\ \A j \in DOMAIN ios : ios[j].name = ios[k].name => j = k

\* An input hides an output of the same name
NamesDiffer(n) ==
  \A j \in DOMAIN n.ins, k \in DOMAIN n.outs : n.ins[j].name # n.outs[k].name

QueuesFirst(args) ==
  \A k \in DOMAIN args : args[k] = EvtQueue => \A j \in 1..k : args[j] = EvtQueue

Classes == {"Unary", "Binary", "GenericFunction", "GenericSource", "GenericSink",
  "GenericNode", "GenericToManyNode", "GenericFromManyNode", "GenericManyToManyNode"}

\* The node that a constructor of the class makes of the parts of n
MadeFrom(n) ==
  CASE n.class = "Unary"  -> Unary(n.kind, n.ins[1].type, n.ins[1].samples, n.args)
    [] n.class = "Binary" ->
         Binary(n.kind, n.ins[1].type, n.ins[1].samples,
                <<n.ins[1].name, n.ins[2].name>>, n.args)
    [] n.class = "GenericFunction" ->
         GenericFunction(n.class, n.kind, n.argsDesc, n.ins, n.outs, n.args)
    [] OTHER ->
         Node(n.class, n.kind, "", n.identified, n.ins, n.outs, n.args)

NodeMade(n) ==
  /\ n.class \in Classes /\ n = [MadeFrom(n) EXCEPT !.id = n.id]
  /\ n.id = <<n.id[1], n.id[2]>> /\ n.id[2] \in IF IsFunction(n) THEN Nat ELSE {0}
  /\ IOsMade(n.ins, ManyInputs(n)) /\ IOsMade(n.outs, ManyOutputs(n)) /\ NamesDiffer(n)
  /\ n.class = "GenericSource" => n.ins = <<>>
  /\ n.class = "GenericSink" => n.outs = <<>>
  /\ n.ins # <<>> \/ n.outs # <<>>
  /\ IsSequence(n.args) /\ QueuesFirst(n.args)

SettingMade(s) ==
  /\ {s.length, s.delay} \subseteq Nat \cup {NoNumber}
  /\ s.weak \in BOOLEAN

ASSUME GraphDescriptionAssumption ==
  /\ MaxCalls \in Nat \ {0} /\ MaxCopies \in Nat
  /\ \A program \in Programs :
       IsSequence(program) /\ \A k \in DOMAIN program : NodeMade(program[k])
  /\ \A s \in Settings : SettingMade(s)
  /\ None \notin Known

(***************************************************************************)
(* The script.                                                              *)
(***************************************************************************)
NamedObjects(program) ==
  LET nodes == Numbered(program, <<>>)
  IN  [key \in {n.id : n \in ToSet(nodes)} |->
         CHOOSE n \in ToSet(nodes) : n.id = key]

Init ==
  /\ \E program \in Programs :
       graphs = <<EmptyGraph(NamedObjects(program))>> /\ made = CountedBy(program, <<>>)
  /\ files = <<>>
  /\ conf = {} /\ confFile = <<>> /\ confCopy = <<>>
  /\ calls = 0 /\ raised = None

\* A script of the model builds a graph or a configuration: they do not meet
Calls  == raised = None /\ files = <<>> /\ confFile = <<>> /\ calls < MaxCalls
Builds == Calls /\ conf = {}

Ends(n, side) == {[node |-> n.id, port |-> io.name] : io \in ToSet(n[side])}
AllEnds(side) ==
  LET objects == graphs[1].objects
  IN  UNION {Ends(objects[key], side) : key \in DOMAIN objects}

Free(end) ==
  \A e \in ToSet(graphs[1].edges \o graphs[1].constants) : e.dst # end

\* connect() and connectWithDelay(): an input is connected once
Connect ==
  \E src \in AllEnds("outs"), dst \in AllEnds("ins"), s \in Settings :
    /\ Builds /\ Free(dst)
    /\ IF ConnectRaises(graphs[1], src, dst)
         THEN raised' = "connect" /\ UNCHANGED graphs
         ELSE graphs' = <<connect(graphs[1], src, dst, s)>> /\ UNCHANGED raised
    /\ calls' = calls + 1
    /\ UNCHANGED <<files, made, conf, confFile, confCopy>>

ConnectConstant ==
  \E name \in ConstantNames, dst \in AllEnds("ins") :
    /\ Builds /\ Free(dst)
    /\ graphs' = <<connectConstant(graphs[1], name, dst)>>
    /\ calls' = calls + 1
    /\ UNCHANGED <<files, made, conf, confFile, confCopy, raised>>

SetDefaults ==
  \E c \in Defaults, d \in {"Duplicate", "MyDuplicate"} :
    /\ Builds
    /\ graphs' = <<[graphs[1] EXCEPT !.defaultFIFOClass = c,
                                    !.duplicateNodeClassName = d]>>
    /\ calls' = calls + 1
    /\ UNCHANGED <<files, made, conf, confFile, confCopy, raised>>

SetOption ==
  \E option \in Configuration \ conf :
    /\ Calls /\ graphs[1].edges = <<>> /\ graphs[1].constants = <<>>
    /\ conf' = conf \cup {option}
    /\ calls' = calls + 1
    /\ UNCHANGED <<graphs, files, made, confFile, confCopy, raised>>

Export ==
  /\ raised = None /\ Len(files) < Len(graphs) /\ graphs[1].edges # <<>>
  /\ confFile = <<>>
  /\ files' = Append(files, ExportedGraph(Last(graphs)))
  /\ UNCHANGED <<graphs, made, conf, confFile, confCopy, calls, raised>>

\* By the same script, or by a new one that has made no function yet
Import ==
  \E count \in {made, <<>>} :
    /\ raised = None /\ Len(files) = Len(graphs) /\ Len(graphs) <= MaxCopies
    /\ IF ImportRaises(Last(files))
         THEN raised' = "import" /\ UNCHANGED <<graphs, made>>
         ELSE /\ graphs' = Append(graphs, ImportedGraph(Last(files), count))
              /\ made' = CountedBy(ImportedNodes(Last(files)), count)
              /\ UNCHANGED raised
    /\ UNCHANGED <<files, conf, confFile, confCopy, calls>>

ExportConfig ==
  /\ raised = None /\ confFile = <<>> /\ conf # {} /\ files = <<>>
  /\ confFile' = <<ExportedConfig(conf)>>
  /\ UNCHANGED <<graphs, files, made, conf, confCopy, calls, raised>>

ImportConfig ==
  /\ raised = None /\ confFile # <<>> /\ confCopy = <<>>
  /\ confCopy' = <<ImportedConfig(confFile[1])>>
  /\ UNCHANGED <<graphs, files, made, conf, confFile, calls, raised>>

Next ==
  \/ Connect \/ ConnectConstant \/ SetDefaults \/ SetOption
  \/ Export \/ Import \/ ExportConfig \/ ImportConfig

Spec == Init /\ [][Next]_vars

(***************************************************************************)
(* Properties.                                                              *)
(***************************************************************************)

SameNode(n, m) ==
  LET Shapes(ios) == [k \in DOMAIN ios |-> [ios[k] EXCEPT !.type = ctype(@)]]
  IN  /\ \A field \in {"class", "kind", "identified", "args", "argsDesc"} :
            n[field] = m[field]
      /\ Shapes(n.ins) = Shapes(m.ins) /\ Shapes(n.outs) = Shapes(m.outs)

\* The same edges in the same order, between the same ports of the same nodes;
\* functions may be numbered anew, and no length or delay is one of zero
SameGraph(g, h) ==
  LET Amount(x) == IF x = NoNumber THEN 0 ELSE x
      SameEdge(e, f) ==
        /\ f.src = YAMLEnd(g, e.src) /\ f.dst = YAMLEnd(g, e.dst)
        /\ \A field \in {"class", "scale", "weak", "buffer"} : e[field] = f[field]
        /\ Amount(e.length) = Amount(f.length) /\ Amount(e.delay) = Amount(f.delay)
        /\ SameNode(g.objects[e.src.node], h.objects[f.src.node])
        /\ SameNode(g.objects[e.dst.node], h.objects[f.dst.node])
  IN  /\ g.defaultFIFOClass = h.defaultFIFOClass
      /\ g.duplicateNodeClassName = h.duplicateNodeClassName
      /\ g.constants = h.constants
      /\ DOMAIN g.edges = DOMAIN h.edges
      /\ \A k \in DOMAIN g.edges : SameEdge(g.edges[k], h.edges[k])

\* A Shared has a structure to refer to, and the word Shared is for it alone
PortableType(t) ==
  /\ t.class = "SharedType" => t.of.class # "CType" /\ t.of.name # "Shared"
  /\ t.class = "CStructType" => t.name # "Shared"

\* What a file can hold of a node: see README.md for what it cannot
PortableNode(n) ==
  LET ios == ToSet(n.ins \o n.outs)
      last == FunctionName([name |-> n.kind, args |-> n.argsDesc])
  IN  /\ \A io \in ios :
           /\ io.constraint # <<>> => io.constraint[1].name # None
           /\ PortableType(io.type)
      /\ n.class = "Unary"  => [k \in 1..1 |-> n.ins[k].name] = <<"i">>
      /\ n.class = "Binary" => [k \in 1..2 |-> n.ins[k].name] = <<"ia", "ib">>
      /\ n.class = "GenericFunction" => last = n.kind
      /\ n.ins = <<>> \/ n.outs = <<>> => n.class \in {"GenericSource", "GenericSink"}

Portable(g) ==
  /\ g.constants = <<>>
  /\ g.defaultFIFOClass \in Known \cup {StreamFIFO}
  /\ \A k \in DOMAIN g.edges :
       LET e == g.edges[k]
       IN  /\ e.class \in Known \cup {StreamFIFO}
           /\ e.class = StreamFIFO => g.defaultFIFOClass = StreamFIFO
           /\ e.scale # 0
           /\ PortableNode(g.objects[e.src.node])
           /\ PortableNode(g.objects[e.dst.node])

\* A graph that a file can hold is imported without an exception and comes back
\* as it was: every node with its class, its IOs, its types, its constraints and
\* its arguments, every edge with its FIFO, in the order that decides the
\* schedule, however the functions are numbered meanwhile (export_graph() and
\* import_graph() together).
CopyIsFaithful ==
  Portable(graphs[1]) =>
    /\ raised # "import"
    /\ Len(graphs) > 1 => SameGraph(graphs[1], graphs[2])

\* Whatever the first import has lost, a copy is exported, imported and the
\* same again: graph.yml and graph2.yml of the examples describe one graph.
CopiesAgree ==
  /\ Len(graphs) > 1 => raised # "import"
  /\ Len(graphs) = 3 => SameGraph(graphs[2], graphs[3])

\* Every option that has a key comes back, in whatever section and however many
\* others are set, and no option comes that was not set (import_config()).
ConfigurationSurvives ==
  confCopy # <<>> => confCopy[1] = conf \ OutsideTheFile
=============================================================================

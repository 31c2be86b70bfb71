-------------------------- MODULE MCGraphDescription --------------------------
(***************************************************************************)
(* Nodes of every class, after those of the examples: yaml/graph.py (lists  *)
(* of IOs, constraints, shared buffers), functionexample, simpledsp.        *)
(***************************************************************************)
EXTENDS GraphDescription

f32    == CType("float32_t")
buffer == CStructType("buffer", 4)
shared == SharedType(buffer, TRUE)

Port1(name, type) == <<IO(name, type, <<1>>, <<>>)>>
Literal(v)   == [literal |-> v]
Variable(v)  == [variable |-> v]
Length(io)   == [sort |-> "io_length", name |-> io, sample_unit |-> TRUE]
Argument(io) == [sort |-> "io", name |-> io]

MostNodes ==
  << Node("GenericSource", "Source", "source", TRUE, <<>>,
          <<IO("o", f32, <<3, 5>>, <<>>)>>, <<Literal("4"), Variable("var")>>),
     Node("GenericSource", "SharedSource", "sharedSource", FALSE, <<>>,
          Port1("o", shared), <<>>),
     Node("GenericManyToManyNode", "ProcessingNode", "processing", TRUE,
          << IO("ia", f32, <<7>>, <<>>),
             IO("ib", f32, <<7>>, setBufferConstraint("Testi", FALSE, FALSE, TRUE)) >>,
          << IO("oa", f32, <<5>>, setBufferConstraint("Testo", FALSE, TRUE, FALSE)),
             IO("ob", f32, <<5>>, <<>>) >>, <<Variable("evtQueue"), Literal("5")>>),
     Unary("compute", CType("float"), <<7>>, <<>>),
     Unary("compute", f32, <<5>>, <<>>),
     GenericFunction("GenericFunction", "myfunc",
          <<Argument("ia"), [sort |-> "args", k |-> 0], Argument("o")>>,
          Port1("ia", f32), Port1("o", f32), <<Literal("4")>>),
     Node("GenericSink", "SharedSink", "sharedSink", TRUE,
          <<IO("ia", f32, <<1>>, <<>>), IO("ib", shared, <<1>>, <<>>)>>, <<>>, <<>>) >>

HardNodes ==
  << Node("GenericSource", "Source", "source", TRUE, <<>>, Port1("o", f32), <<>>),
     Binary("offset", f32, <<7>>, <<"a", "b">>, <<>>),
     GenericFunction("GenericFunction", "myfunc",
          <<Argument("ia"), Length("ia"), Argument("o")>>,
          Port1("ia", f32), Port1("o", f32), <<>>),
     Node("GenericSource", "Owner", "owner", TRUE, <<>>,
          << IO("o", f32, <<5>>, setBufferConstraint(None, TRUE, TRUE, TRUE)) >>, <<>>),
     Node("GenericFromManyNode", "ToSink", "toSink", TRUE,
          <<IO("ia", f32, <<5>>, <<>>), IO("ib", f32, <<5>>, <<>>)>>, <<>>, <<>>),
     Node("GenericSink", "Sink", "sink", TRUE,
          <<IO("i", SharedType(f32, FALSE), <<1>>, <<>>)>>, <<>>, <<>>) >>

\* Scripts whose nodes fit together
Scripts ==
  { SubSeq(MostNodes, 1, 3) \o <<MostNodes[7]>>,
    <<MostNodes[1], MostNodes[4], MostNodes[5], MostNodes[6], HardNodes[2]>>,
    <<HardNodes[1], HardNodes[3], HardNodes[4], HardNodes[5], MostNodes[7]>>,
    <<MostNodes[3], MostNodes[6], HardNodes[4], HardNodes[6]>> }

Plain == [class |-> None, scale |-> 1, length |-> 0, weak |-> FALSE,
          delay |-> NoNumber, buffer |-> None, mustBeArray |-> TRUE]

MostSettings ==
  {Plain, [Plain EXCEPT !.class = "MyFIFO", !.delay = 5],
   [Plain EXCEPT !.class = "OtherFIFO"], [Plain EXCEPT !.class = StreamFIFO],
   [Plain EXCEPT !.scale = 3, !.delay = 0],
   [Plain EXCEPT !.length = 7, !.weak = TRUE],
   [Plain EXCEPT !.buffer = "Test", !.mustBeArray = FALSE]}

MyClasses  == {"MyFIFO"}
=============================================================================

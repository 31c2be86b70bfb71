------------------------- MODULE CommittedPrograms -------------------------
(***************************************************************************)
(* The schedulers that the code generator has written for the examples and   *)
(* the tests of the repository.  For each of them: its FIFOs, in the order   *)
(* of their numbers; its nodes, by the names of their objects, with what one  *)
(* execution takes from which FIFOs and gives to which; the nodes in the      *)
(* order of the cases of the switch, and in the asynchronous mode of the      *)
(* switch before it that tests them; and the array schedule[].  A function    *)
(* without an object is named after itself and its case.  Node parameters,    *)
(* types of samples and the text of the includes are left out.               *)
(***************************************************************************)
EXTENDS Integers, Sequences

(* A FIFO whose template argument isArray is 1, one with positions, and one  *)
(* that starts with samples in it.                                          *)
A(length, buf) == [length |-> length, array |-> TRUE, delay |-> 0, buf |-> buf]
F(length, buf) == [length |-> length, array |-> FALSE, delay |-> 0, buf |-> buf]
D(length, buf, delay) ==
  [length |-> length, array |-> FALSE, delay |-> delay, buf |-> buf]

(* A node with its reads and its writes, <<FIFO, amount>> each; a Duplicate;  *)
(* a source whose amount goes through a cycle; and the nodes of examples 10   *)
(* and 11: sources that write in every second iteration, and a node that      *)
(* takes whatever is there.                                                  *)
N(reads, writes) == [reads |-> reads, writes |-> writes, kind |-> "node",
                     cycle |-> <<1>>]
Dup(amount, in, outs) ==
  [N(<< <<in, amount>> >>, [k \in DOMAIN outs |-> <<outs[k], amount>>])
     EXCEPT !.kind = "duplicate"]
Cyclic(cycle, out) == [N(<<>>, << <<out, 1>> >>) EXCEPT !.cycle = cycle]
OddOnly(out) == [N(<<>>, << <<out, 1>> >>) EXCEPT !.kind = "odd"]
EvenOnly(out) == [N(<<>>, << <<out, 1>> >>) EXCEPT !.kind = "even"]
Whatever(reads, writes) == [N(reads, writes) EXCEPT !.kind = "whatever"]

(* The variants of the generated code.                                      *)
Static == [heap |-> FALSE, async |-> FALSE, pausing |-> {}]
Heap == [Static EXCEPT !.heap = TRUE]
Callback == [Heap EXCEPT !.pausing = {"sink"}]

(* Examples/CMSISStreamHelloZephyr/src/hello_graph/scheduler_hello.cpp       *)
HelloZephyrFIFOs == <<A(10, "stream_hello_buf0"), A(1, "stream_hello_buf1")>>
HelloZephyrNodes == [process |-> N(<< <<0, 10>> >>, << <<1, 1>> >>),
  sink |-> N(<< <<1, 1>> >>, <<>>), src |-> N(<<>>, << <<0, 10>> >>)]
HelloZephyrSwitch == <<"process", "sink", "src">>
HelloZephyrSchedule == <<2, 0, 1>>

(* Examples/buffer/cv_scheduler1.cpp                                         *)
Constraint1FIFOs == <<A(5, "Test"), A(5, "buf0"), A(5, "Test"), A(5, "Test")>>
Constraint1Nodes == [dup0 |-> Dup(5, 1, <<2>>),
  processing1 |-> N(<< <<0, 5>> >>, << <<1, 5>> >>),
  sink1 |-> N(<< <<2, 5>> >>, <<>>), sink2 |-> N(<< <<3, 5>> >>, <<>>),
  source |-> N(<<>>, << <<0, 5>> >>)]
Constraint1Switch == <<"dup0", "processing1", "sink1", "sink2", "source">>
Constraint1Schedule == <<4, 1, 0, 2, 3>>

(* Examples/buffer/cv_scheduler10.cpp                                        *)
Constraint10FIFOs == <<A(5, "Test"), A(5, "Test"), A(5, "Test")>>
Constraint10Nodes == [dup0 |-> Dup(5, 0, <<>>),
  sink1 |-> N(<< <<1, 5>> >>, <<>>), sink2 |-> N(<< <<2, 5>> >>, <<>>),
  source |-> N(<<>>, << <<0, 5>> >>)]
Constraint10Switch == <<"dup0", "sink1", "sink2", "source">>
Constraint10Schedule == <<3, 0, 1, 2>>

(* Examples/buffer/cv_scheduler11.cpp                                        *)
Constraint11FIFOs == <<A(5, "Test"), A(5, "buf0"), A(5, "buf0")>>
Constraint11Nodes == [dup0 |-> Dup(5, 0, <<1>>),
  sink1 |-> N(<< <<1, 5>> >>, <<>>), sink2 |-> N(<< <<2, 5>> >>, <<>>),
  source |-> N(<<>>, << <<0, 5>> >>)]
Constraint11Switch == <<"dup0", "sink1", "sink2", "source">>
Constraint11Schedule == <<3, 0, 1, 2>>

(* Examples/buffer/cv_scheduler12.cpp                                        *)
Constraint12FIFOs == <<A(5, "Test")>>
Constraint12Nodes == [sink |-> N(<< <<0, 5>> >>, <<>>),
  source |-> N(<<>>, << <<0, 5>> >>)]
Constraint12Switch == <<"sink", "source">>
Constraint12Schedule == <<1, 0>>

(* Examples/buffer/cv_scheduler2.cpp                                         *)
Constraint2FIFOs == <<A(5, "nullptr"), A(5, "buf0"), A(5, "buf0"),
  A(5, "buf0")>>
Constraint2Nodes == [dup0 |-> Dup(5, 1, <<>>),
  processing1 |-> N(<< <<0, 5>> >>, << <<1, 5>> >>),
  sink1 |-> N(<< <<2, 5>> >>, <<>>), sink2 |-> N(<< <<3, 5>> >>, <<>>),
  source |-> N(<<>>, << <<0, 5>> >>)]
Constraint2Switch == <<"dup0", "processing1", "sink1", "sink2", "source">>
Constraint2Schedule == <<4, 1, 0, 2, 3>>

(* Examples/buffer/cv_scheduler3.cpp                                         *)
Constraint3FIFOs == <<A(5, "Test"), A(5, "buf0"), A(5, "Test"), A(5, "Test")>>
Constraint3Nodes == [dup0 |-> Dup(5, 1, <<2>>),
  processing1 |-> N(<< <<0, 5>> >>, << <<1, 5>> >>),
  sink1 |-> N(<< <<2, 5>> >>, <<>>), sink2 |-> N(<< <<3, 5>> >>, <<>>),
  source |-> N(<<>>, << <<0, 5>> >>)]
Constraint3Switch == <<"dup0", "processing1", "sink1", "sink2", "source">>
Constraint3Schedule == <<4, 1, 0, 2, 3>>

(* Examples/buffer/cv_scheduler7.cpp                                         *)
Constraint7FIFOs == <<F(11, "Test"), A(5, "buf0"), A(5, "buf1"),
  A(5, "buf2")>>
Constraint7Nodes == [dup0 |-> Dup(5, 1, <<2, 3>>),
  processing1 |-> N(<< <<0, 7>> >>, << <<1, 5>> >>),
  sink1 |-> N(<< <<2, 5>> >>, <<>>), sink2 |-> N(<< <<3, 5>> >>, <<>>),
  source |-> N(<<>>, << <<0, 5>> >>)]
Constraint7Switch == <<"dup0", "processing1", "sink1", "sink2", "source">>
Constraint7Schedule == <<4, 4, 1, 0, 2, 3, 4, 1, 0, 2, 3, 4, 4, 1, 0, 2, 3, 4,
  1, 0, 2, 3, 4, 1, 0, 2, 3>>

(* Examples/buffer/cv_scheduler8.cpp                                         *)
Constraint8FIFOs == <<A(5, "Test2"), A(5, "Test")>>
Constraint8Nodes == [processing1 |-> N(<< <<0, 5>> >>, << <<1, 5>> >>),
  sink1 |-> N(<< <<1, 5>> >>, <<>>), source |-> N(<<>>, << <<0, 5>> >>)]
Constraint8Switch == <<"processing1", "sink1", "source">>
Constraint8Schedule == <<2, 0, 1>>

(* Examples/buffer/scheduler.cpp                                             *)
BufferFIFOs == <<A(5, "myBuffer"), A(5, "buf0"), A(5, "myBuffer"),
  A(5, "buf0"), A(5, "myBuffer"), A(5, "myBuffer")>>
BufferNodes == [dup0 |-> Dup(5, 3, <<4>>),
  processing1 |-> N(<< <<0, 5>> >>, << <<3, 5>> >>),
  processing2 |-> N(<< <<5, 5>> >>, << <<1, 5>> >>),
  processing3 |-> N(<< <<1, 5>> >>, << <<2, 5>> >>),
  sink1 |-> N(<< <<2, 5>> >>, <<>>), sink2 |-> N(<< <<4, 5>> >>, <<>>),
  source |-> N(<<>>, << <<0, 5>> >>)]
BufferSwitch == <<"dup0", "processing1", "processing2", "processing3",
  "sink1", "sink2", "source">>

(* Mutant: the schedule of another allocation of memory.                    *)
BufferScheduleLateSink == <<6, 1, 0, 2, 3, 5, 4>>

BufferSchedule == <<6, 1, 0, 5, 2, 3, 4>>

(* Examples/callback/scheduler.cpp                                           *)
CallbackFIFOs == <<F(11, "buf0"), A(7, "buf1"), F(11, "buf2")>>
CallbackNodes == [processing |-> N(<< <<0, 7>> >>, << <<1, 7>> >>),
  sink |-> N(<< <<2, 5>> >>, <<>>), source |-> N(<<>>, << <<0, 5>> >>)]
CallbackFunctions == [myfunc0 |-> N(<< <<1, 7>> >>, << <<2, 7>> >>)]
CallbackSwitch == <<"myfunc0", "processing", "sink", "source">>
CallbackSchedule == <<3, 3, 1, 0, 2, 3, 1, 0, 2, 3, 3, 1, 0, 2, 2, 3, 1, 0, 2,
  3, 1, 0, 2, 2>>

(* Examples/customfifo/scheduler.cpp                                         *)
CustomFifoFIFOs == <<F(11, "buf0"), F(11, "buf1")>>
CustomFifoNodes == [processing |-> N(<< <<0, 7>> >>, << <<1, 7>> >>),
  sink |-> N(<< <<1, 5>> >>, <<>>), source |-> N(<<>>, << <<0, 5>> >>)]
CustomFifoSwitch == <<"processing", "sink", "source">>
CustomFifoSchedule == <<2, 2, 0, 1, 2, 0, 1, 2, 2, 0, 1, 1, 2, 0, 1, 2, 0, 1,
  1>>

(* Examples/cyclo/generated/scheduler.cpp                                    *)
CycloFIFOs == <<F(11, "buf0"), F(11, "buf1")>>
CycloNodes == [processing |-> N(<< <<0, 7>> >>, << <<1, 7>> >>),
  sink |-> N(<< <<1, 5>> >>, <<>>), source |-> Cyclic(<<3, 2>>, 0)]
CycloSwitch == <<"processing", "sink", "source">>
CycloSchedule == <<2, 2, 2, 0, 1, 2, 2, 2, 0, 1, 2, 2, 2, 0, 1, 1, 2, 2, 0, 1,
  2, 2, 2, 0, 1, 1>>

(* Examples/events/scheduler.cpp                                             *)
EventsFIFOs == <<F(11, "buf0"), F(11, "buf1")>>
EventsNodes == [processing |-> N(<< <<0, 7>> >>, << <<1, 7>> >>),
  sink |-> N(<< <<1, 5>> >>, <<>>), source |-> N(<<>>, << <<0, 5>> >>)]
EventsSwitch == <<"processing", "sink", "source">>
EventsSchedule == <<2, 2, 0, 1, 2, 0, 1, 2, 2, 0, 1, 1, 2, 0, 1, 2, 0, 1, 1>>

(* Examples/example1/generated/scheduler.cpp                                 *)
Example1FIFOs == <<F(11, "buf0"), A(5, "buf1")>>
Example1Nodes == [processing |-> N(<< <<0, 7>> >>, << <<1, 5>> >>),
  sink |-> N(<< <<1, 5>> >>, <<>>), source |-> N(<<>>, << <<0, 5>> >>)]
Example1Switch == <<"processing", "sink", "source">>
Example1Schedule == <<2, 2, 0, 1, 2, 0, 1, 2, 2, 0, 1, 2, 0, 1, 2, 0, 1>>

(* Examples/example10/generated/scheduler.cpp                                *)
Example10FIFOs == <<F(2, "buf0"), F(2, "buf1"), F(3, "buf2"), F(2, "buf3"),
  F(3, "buf4"), F(2, "buf5"), F(2, "buf6"), F(2, "buf7"), F(2, "buf8"),
  F(2, "buf9"), F(2, "buf10"), F(2, "buf11")>>
Example10Nodes == [debug |-> N(<< <<4, 1>> >>, <<>>),
  debug0 |-> N(<< <<8, 1>> >>, <<>>), debug1 |-> N(<< <<9, 1>> >>, <<>>),
  debug2 |-> N(<< <<10, 1>> >>, <<>>), debug3 |-> N(<< <<11, 1>> >>, <<>>),
  dup0 |-> Dup(1, 2, <<3, 4>>), dup1 |-> Dup(1, 5, <<6, 7, 8, 9, 10, 11>>),
  proc |-> Whatever(<< <<3, 1>>, <<0, 1>> >>, << <<1, 1>> >>),
  sinka |-> N(<< <<6, 1>> >>, <<>>), sinkb |-> N(<< <<7, 1>> >>, <<>>),
  sourceEven |-> EvenOnly(0), sourceOdd |-> OddOnly(2)]
Example10Functions == [compute0 |-> N(<< <<1, 1>> >>, << <<5, 1>> >>)]
Example10Tests == <<"compute0", "debug", "debug0", "debug1", "debug2",
  "debug3", "dup0", "dup1", "proc", "sinka", "sinkb", "sourceEven",
  "sourceOdd">>
Example10Switch == <<"compute0", "debug", "debug0", "debug1", "debug2",
  "debug3", "dup0", "dup1", "proc", "sinka", "sinkb", "sourceEven",
  "sourceOdd">>
Example10Schedule == <<11, 12, 6, 1, 8, 0, 7, 2, 3, 4, 5, 9, 10>>

(* Examples/example11/generated/scheduler.cpp                                *)
Example11FIFOs == <<F(1, "buf0"), F(2, "buf1"), F(2, "buf2"), F(1, "buf3"),
  F(2, "buf4"), F(2, "buf5"), F(2, "buf6"), F(2, "buf7"), F(2, "buf8"),
  F(2, "buf9"), F(2, "buf10"), F(2, "buf11"), F(2, "buf12")>>
Example11Nodes == [debug |-> N(<< <<4, 1>> >>, <<>>),
  debug0 |-> N(<< <<9, 1>> >>, <<>>), debug1 |-> N(<< <<10, 1>> >>, <<>>),
  debug2 |-> N(<< <<11, 1>> >>, <<>>), debug3 |-> N(<< <<12, 1>> >>, <<>>),
  dup0 |-> Dup(1, 2, <<3, 4>>),
  dup1 |-> Dup(1, 5, <<6, 7, 8, 9, 10, 11, 12>>),
  proc |-> Whatever(<< <<3, 1>>, <<0, 1>>, <<6, 1>> >>, << <<1, 1>> >>),
  sinka |-> N(<< <<7, 1>> >>, <<>>), sinkb |-> N(<< <<8, 1>> >>, <<>>),
  sourceEven |-> EvenOnly(0), sourceOdd |-> OddOnly(2)]
Example11Functions == [compute0 |-> N(<< <<1, 1>> >>, << <<5, 1>> >>)]
Example11Tests == <<"compute0", "debug", "debug0", "debug1", "debug2",
  "debug3", "dup0", "dup1", "proc", "sinka", "sinkb", "sourceEven",
  "sourceOdd">>
Example11Switch == <<"compute0", "debug", "debug0", "debug1", "debug2",
  "debug3", "dup0", "dup1", "proc", "sinka", "sinkb", "sourceEven",
  "sourceOdd">>
Example11Schedule == <<11, 12, 6, 1, 8, 0, 7, 2, 3, 4, 5, 9, 10>>

(* Examples/example12/dynamic/dynamic_scheduler.cpp                          *)
Example12DynamicFIFOs == <<A(1, "dynamic_buf0"), A(1, "dynamic_buf1"),
  A(1, "dynamic_buf2"), A(1, "dynamic_buf3"), A(1, "dynamic_buf4"),
  A(1, "dynamic_buf5"), A(1, "dynamic_buf6")>>
Example12DynamicNodes == [buf1 |-> N(<<>>, << <<4, 1>> >>),
  buf2 |-> N(<<>>, << <<0, 1>> >>),
  bufCopy |-> N(<< <<6, 1>> >>, << <<1, 1>> >>), dup0 |-> Dup(1, 4, <<5, 6>>),
  inplace |-> N(<< <<1, 1>> >>, << <<3, 1>> >>),
  processing |-> N(<< <<0, 1>>, <<5, 1>> >>, << <<2, 1>> >>),
  sinkA |-> N(<< <<2, 1>> >>, <<>>), sinkB |-> N(<< <<3, 1>> >>, <<>>)]
Example12DynamicSwitch == <<"buf1", "buf2", "bufCopy", "dup0", "inplace",
  "processing", "sinkA", "sinkB">>
Example12DynamicSchedule == <<1, 0, 3, 5, 6, 2, 4, 7>>

(* Examples/example12/static/static_scheduler.cpp                            *)
Example12StaticFIFOs == <<A(1, "static_buf0"), A(1, "static_buf1"),
  A(1, "static_buf2"), A(1, "static_buf3"), A(1, "static_buf4"),
  A(1, "static_buf5"), A(1, "static_buf6")>>
Example12StaticNodes == [buf1 |-> N(<<>>, << <<4, 1>> >>),
  buf2 |-> N(<<>>, << <<0, 1>> >>),
  bufCopy |-> N(<< <<6, 1>> >>, << <<1, 1>> >>), dup0 |-> Dup(1, 4, <<5, 6>>),
  inplace |-> N(<< <<1, 1>> >>, << <<3, 1>> >>),
  processing |-> N(<< <<0, 1>>, <<5, 1>> >>, << <<2, 1>> >>),
  sinkA |-> N(<< <<2, 1>> >>, <<>>), sinkB |-> N(<< <<3, 1>> >>, <<>>)]
Example12StaticSwitch == <<"buf1", "buf2", "bufCopy", "dup0", "inplace",
  "processing", "sinkA", "sinkB">>
Example12StaticSchedule == <<1, 0, 3, 5, 6, 2, 4, 7>>

(* Examples/example2/generated/scheduler.cpp                                 *)
Example2FIFOs == <<D(330, "buf0", 10), A(160, "buf1"), A(160, "buf2"),
  A(160, "buf3"), A(160, "buf4"), F(320, "buf5"), A(640, "buf6"),
  F(250, "buf7"), A(500, "buf8")>>
Example2Nodes == [TFLite |-> N(<< <<8, 500>> >>, <<>>),
  audioWin |-> N(<< <<5, 320>> >>, << <<6, 640>> >>),
  mfcc |-> N(<< <<6, 640>> >>, << <<7, 10>> >>),
  mfccWind |-> N(<< <<7, 250>> >>, << <<8, 500>> >>),
  src |-> N(<<>>, << <<0, 320>> >>),
  toMono |-> N(<< <<0, 320>> >>, << <<1, 160>>, <<2, 160>> >>)]
Example2Functions == [
  arm_add_f321 |-> N(<< <<3, 160>>, <<4, 160>> >>, << <<5, 160>> >>),
  arm_scale_f322 |-> N(<< <<1, 160>> >>, << <<3, 160>> >>),
  arm_scale_f323 |-> N(<< <<2, 160>> >>, << <<4, 160>> >>)]
Example2Switch == <<"TFLite", "arm_add_f321", "arm_scale_f322",
  "arm_scale_f323", "audioWin", "mfcc", "mfccWind", "src", "toMono">>
Example2Schedule == <<7, 8, 2, 3, 1, 7, 8, 2, 3, 1, 4, 5, 7, 8, 2, 3, 1, 7, 8,
  2, 3, 1, 4, 5, 7, 8, 2, 3, 1, 7, 8, 2, 3, 1, 4, 5, 7, 8, 2, 3, 1, 7, 8, 2,
  3, 1, 4, 5, 7, 8, 2, 3, 1, 7, 8, 2, 3, 1, 4, 5, 7, 8, 2, 3, 1, 7, 8, 2, 3,
  1, 4, 5, 7, 8, 2, 3, 1, 7, 8, 2, 3, 1, 4, 5, 7, 8, 2, 3, 1, 7, 8, 2, 3, 1,
  4, 5, 7, 8, 2, 3, 1, 7, 8, 2, 3, 1, 4, 5, 7, 8, 2, 3, 1, 7, 8, 2, 3, 1, 4,
  5, 7, 8, 2, 3, 1, 7, 8, 2, 3, 1, 4, 5, 7, 8, 2, 3, 1, 7, 8, 2, 3, 1, 4, 5,
  7, 8, 2, 3, 1, 7, 8, 2, 3, 1, 4, 5, 7, 8, 2, 3, 1, 7, 8, 2, 3, 1, 4, 5, 7,
  8, 2, 3, 1, 7, 8, 2, 3, 1, 4, 5, 7, 8, 2, 3, 1, 7, 8, 2, 3, 1, 4, 5, 7, 8,
  2, 3, 1, 7, 8, 2, 3, 1, 4, 5, 7, 8, 2, 3, 1, 7, 8, 2, 3, 1, 4, 5, 7, 8, 2,
  3, 1, 7, 8, 2, 3, 1, 4, 5, 7, 8, 2, 3, 1, 7, 8, 2, 3, 1, 4, 5, 7, 8, 2, 3,
  1, 7, 8, 2, 3, 1, 4, 5, 7, 8, 2, 3, 1, 7, 8, 2, 3, 1, 4, 5, 7, 8, 2, 3, 1,
  7, 8, 2, 3, 1, 4, 5, 7, 8, 2, 3, 1, 7, 8, 2, 3, 1, 4, 5, 7, 8, 2, 3, 1, 7,
  8, 2, 3, 1, 4, 5, 6, 0>>

(* Examples/example3/generated/scheduler.cpp                                 *)
Example3FIFOs == <<F(256, "buf0"), A(256, "buf1"), A(256, "buf2"),
  A(512, "buf3"), A(512, "buf4"), A(512, "buf5"), A(256, "buf6"),
  F(256, "buf7")>>
Example3Nodes == [audioOverlap |-> N(<< <<6, 256>> >>, << <<7, 128>> >>),
  audioWin |-> N(<< <<0, 128>> >>, << <<1, 256>> >>),
  cfft |-> N(<< <<3, 512>> >>, << <<4, 512>> >>),
  icfft |-> N(<< <<4, 512>> >>, << <<5, 512>> >>),
  sink |-> N(<< <<7, 192>> >>, <<>>), src |-> N(<<>>, << <<0, 192>> >>),
  toCmplx |-> N(<< <<2, 256>> >>, << <<3, 512>> >>),
  toReal |-> N(<< <<5, 512>> >>, << <<6, 256>> >>)]
Example3Functions == [
  arm_mult_f320 |-> N(<< <<1, 256>> >>, << <<2, 256>> >>)]
Example3Switch == <<"arm_mult_f320", "audioOverlap", "audioWin", "cfft",
  "icfft", "sink", "src", "toCmplx", "toReal">>
Example3Schedule == <<6, 2, 0, 7, 3, 4, 8, 1, 6, 2, 0, 7, 3, 4, 8, 1, 5, 2, 0,
  7, 3, 4, 8, 1, 5>>

(* Examples/example6/generated/scheduler.cpp                                 *)
Example6FIFOs == <<F(256, "buf0"), A(256, "buf1"), A(13, "buf2"),
  F(26, "buf3")>>
Example6Nodes == [audioWin |-> N(<< <<0, 128>> >>, << <<1, 256>> >>),
  mfcc |-> N(<< <<1, 256>> >>, << <<2, 13>> >>),
  mfccWin |-> N(<< <<2, 13>> >>, << <<3, 26>> >>),
  sink |-> N(<< <<3, 13>> >>, <<>>), src |-> N(<<>>, << <<0, 192>> >>)]
Example6Switch == <<"audioWin", "mfcc", "mfccWin", "sink", "src">>
Example6Schedule == <<4, 0, 1, 2, 3, 3, 4, 0, 1, 2, 3, 3, 0, 1, 2, 3, 3>>

(* Examples/example8/generated/scheduler.cpp                                 *)
Example8FIFOs == <<A(5, "buf0"), A(5, "buf1"), A(5, "buf2"), A(5, "buf0"),
  A(5, "buf0"), A(5, "buf0")>>
Example8Nodes == [dup0 |-> Dup(5, 2, <<3>>),
  filter |-> N(<< <<0, 5>> >>, << <<2, 5>>, <<1, 5>> >>),
  sa |-> N(<< <<3, 5>> >>, <<>>), sb |-> N(<< <<4, 5>> >>, <<>>),
  sc |-> N(<< <<5, 5>> >>, <<>>), sd |-> N(<< <<1, 5>> >>, <<>>),
  source |-> N(<<>>, << <<0, 5>> >>)]
Example8Switch == <<"dup0", "filter", "sa", "sb", "sc", "sd", "source">>
Example8Schedule == <<6, 1, 5, 0, 2, 3, 4>>

(* Examples/example9/generated/scheduler.cpp                                 *)
Example9FIFOs == <<A(5, "buf0"), A(5, "buf1"), A(5, "buf2"), D(5, "buf3", 5)>>
Example9Nodes == [dup0 |-> Dup(5, 1, <<2, 3>>),
  filter |-> N(<< <<0, 5>>, <<3, 5>> >>, << <<1, 5>> >>),
  sink |-> N(<< <<2, 5>> >>, <<>>), source |-> N(<<>>, << <<0, 5>> >>)]
Example9Switch == <<"dup0", "filter", "sink", "source">>
Example9Schedule == <<3, 1, 0, 2>>

(* Examples/functionexample/scheduler.cpp                                    *)
FunctionExampleFIFOs == <<A(7, "buf0"), A(7, "buf1"), A(5, "buf2")>>
FunctionExampleNodes == [sink |-> N(<< <<2, 5>> >>, <<>>),
  sourceA |-> N(<<>>, << <<0, 7>> >>), sourceB |-> N(<<>>, << <<1, 7>> >>)]
FunctionExampleFunctions == [
  myfunc0 |-> N(<< <<0, 7>>, <<1, 7>> >>, << <<2, 5>> >>)]
FunctionExampleSwitch == <<"myfunc0", "sink", "sourceA", "sourceB">>
FunctionExampleSchedule == <<2, 3, 0, 1>>

(* Examples/hello_example/Hello/hello_graph/scheduler_hello.cpp              *)
HelloRtosFIFOs == <<A(10, "stream_hello_buf0"), A(1, "stream_hello_buf1")>>
HelloRtosNodes == [process |-> N(<< <<0, 10>> >>, << <<1, 1>> >>),
  sink |-> N(<< <<1, 1>> >>, <<>>), src |-> N(<<>>, << <<0, 10>> >>)]
HelloRtosSwitch == <<"process", "sink", "src">>
HelloRtosSchedule == <<2, 0, 1>>

(* Examples/hello_posix/hello_graph/scheduler_hello.cpp                      *)
HelloPosixFIFOs == <<A(10, "stream_hello_buf0"), A(1, "stream_hello_buf1")>>
HelloPosixNodes == [process |-> N(<< <<0, 10>> >>, << <<1, 1>> >>),
  sink |-> N(<< <<1, 1>> >>, <<>>), src |-> N(<<>>, << <<0, 10>> >>)]
HelloPosixSwitch == <<"process", "sink", "src">>
HelloPosixSchedule == <<2, 0, 1>>

(* Examples/memory/generated/scheduler.cpp                                   *)
MemoryFIFOs == <<A(100, "buf1"), A(100, "buf2"), A(100, "buf0"),
  A(100, "buf3"), A(100, "buf1"), A(100, "buf3"), A(100, "buf2"),
  A(100, "buf2"), A(100, "buf3"), A(100, "buf0"), A(100, "buf3"),
  A(100, "buf1"), A(100, "buf2"), A(100, "buf0")>>
MemoryNodes == [p0_0 |-> N(<< <<3, 100>> >>, << <<7, 100>> >>),
  p1_0 |-> N(<< <<4, 100>> >>, << <<8, 100>> >>),
  p2_0 |-> N(<< <<5, 100>> >>, << <<9, 100>> >>),
  p3_0 |-> N(<< <<6, 100>> >>, << <<10, 100>> >>),
  p_end_0 |-> N(<< <<7, 100>>, <<8, 100>> >>, << <<11, 100>> >>),
  p_end_1 |-> N(<< <<9, 100>>, <<10, 100>> >>, << <<12, 100>> >>),
  p_end_2 |-> N(<< <<11, 100>>, <<12, 100>> >>, << <<13, 100>> >>),
  p_start_0 |-> N(<< <<0, 100>> >>, << <<1, 100>>, <<2, 100>> >>),
  p_start_1 |-> N(<< <<1, 100>> >>, << <<3, 100>>, <<4, 100>> >>),
  p_start_2 |-> N(<< <<2, 100>> >>, << <<5, 100>>, <<6, 100>> >>),
  sink |-> N(<< <<13, 100>> >>, <<>>), source |-> N(<<>>, << <<0, 100>> >>)]
MemorySwitch == <<"p0_0", "p1_0", "p2_0", "p3_0", "p_end_0", "p_end_1",
  "p_end_2", "p_start_0", "p_start_1", "p_start_2", "sink", "source">>
MemorySchedule == <<11, 7, 8, 0, 1, 4, 9, 2, 3, 5, 6, 10>>

(* Examples/simple/scheduler.cpp                                             *)
SimpleFIFOs == <<F(11, "buf0"), F(11, "buf1")>>
SimpleNodes == [processing |-> N(<< <<0, 7>> >>, << <<1, 7>> >>),
  sink |-> N(<< <<1, 5>> >>, <<>>), source |-> N(<<>>, << <<0, 5>> >>)]
SimpleSwitch == <<"processing", "sink", "source">>
SimpleSchedule == <<2, 2, 0, 1, 2, 0, 1, 2, 2, 0, 1, 1, 2, 0, 1, 2, 0, 1, 1>>

(* Examples/simpledsp/generated/scheduler.cpp                                *)
SimpleDspFIFOs == <<F(11, "buf0"), F(11, "buf1")>>
SimpleDspNodes == [sink |-> N(<< <<1, 5>> >>, <<>>),
  source |-> N(<<>>, << <<0, 5>> >>)]
SimpleDspFunctions == [arm_offset_f320 |-> N(<< <<0, 7>> >>, << <<1, 7>> >>)]
SimpleDspSwitch == <<"arm_offset_f320", "sink", "source">>
SimpleDspSchedule == <<2, 2, 0, 1, 2, 0, 1, 2, 2, 0, 1, 1, 2, 0, 1, 2, 0, 1,
  1>>

(* Examples/yaml/scheduler.cpp                                               *)
YamlFIFOs == <<A(1, "buf0"), F(11, "buf1"), F(11, "Testi_processing"),
  F(11, "buf2"), F(11, "buf3"), F(11, "buf4"), A(5, "Testo_processing"),
  A(5, "buf5"), A(5, "buf6"), A(5, "buf7"), A(5, "buf8"), A(5, "buf9"),
  A(5, "buf10"), A(1, "buf11"), A(1, "buf12"), A(1, "buf13"), A(1, "buf14")>>
YamlNodes == [dup0 |-> Dup(1, 14, <<15, 16>>),
  fromSource |-> N(<< <<0, 1>> >>, << <<1, 5>>, <<2, 5>>, <<3, 5>>, <<4, 5>>, <<5, 5>> >>),
  processing |-> N(<< <<1, 7>>, <<2, 7>>, <<3, 7>>, <<4, 7>>, <<5, 7>> >>, << <<6, 5>>, <<7, 5>>, <<8, 5>>, <<9, 5>>, <<10, 5>>, <<11, 5>>, <<12, 5>> >>),
  sharedSink |-> N(<< <<16, 1>>, <<13, 1>> >>, <<>>),
  sharedSource |-> N(<<>>, << <<13, 1>> >>),
  sink |-> N(<< <<15, 1>> >>, <<>>), source |-> N(<<>>, << <<0, 1>> >>),
  toSink |-> N(<< <<6, 5>>, <<7, 5>>, <<8, 5>>, <<9, 5>>, <<10, 5>>, <<11, 5>>, <<12, 5>> >>, << <<14, 1>> >>)]
YamlSwitch == <<"dup0", "fromSource", "processing", "sharedSink",
  "sharedSource", "sink", "source", "toSink">>
YamlSchedule == <<4, 6, 1, 6, 1, 2, 7, 0, 3, 5, 4, 6, 1, 2, 7, 0, 3, 5, 4, 6,
  1, 6, 1, 2, 7, 0, 3, 5, 4, 6, 1, 2, 7, 0, 3, 5, 4, 6, 1, 2, 7, 0, 3, 5>>

(* Tests/async/scheduler.cpp                                                 *)
TestAsyncFIFOs == <<F(128, "buf0"), F(128, "buf1"), F(128, "buf2"),
  F(128, "buf3"), F(16, "buf4"), F(16, "buf5"), F(16, "buf6"), F(16, "buf7"),
  F(16, "buf8"), F(16, "buf9"), F(32, "buf10"), F(32, "buf11"),
  F(32, "buf12"), F(32, "buf13"), F(32, "buf14"), F(128, "buf15"),
  F(128, "buf16"), F(128, "buf17"), F(128, "buf18"), F(128, "buf19"),
  F(128, "buf20"), F(128, "buf21"), F(16, "buf22"), F(16, "buf23"),
  F(16, "buf24"), F(16, "buf25"), F(16, "buf26"), F(16, "buf27"),
  F(16, "buf28"), F(16, "buf29"), F(16, "buf30"), F(16, "buf31"),
  F(16, "buf32")>>
TestAsyncNodes == [dstaA |-> N(<< <<10, 32>> >>, <<>>),
  dstaB |-> N(<< <<12, 32>> >>, <<>>), dstaC |-> N(<< <<14, 32>> >>, <<>>),
  dstbA |-> N(<< <<11, 32>> >>, <<>>), dstbB |-> N(<< <<13, 32>> >>, <<>>),
  dup0 |-> Dup(128, 15, <<16, 17, 18>>), dup1 |-> Dup(128, 19, <<20, 21>>),
  dup2 |-> Dup(16, 22, <<23, 24, 25, 26>>), dup3 |-> Dup(16, 27, <<28, 29>>),
  dup4 |-> Dup(16, 30, <<31, 32>>),
  proc12 |-> N(<< <<17, 16>> >>, << <<22, 16>>, <<4, 16>> >>),
  proc13 |-> N(<< <<18, 16>> >>, << <<5, 16>>, <<6, 16>>, <<7, 16>> >>),
  proc21A |-> N(<< <<21, 16>>, <<23, 16>> >>, << <<8, 16>> >>),
  proc21B |-> N(<< <<4, 16>>, <<5, 16>> >>, << <<9, 16>> >>),
  procA |-> N(<< <<0, 128>> >>, << <<1, 128>> >>),
  procB |-> N(<< <<1, 128>> >>, << <<2, 128>> >>),
  procC |-> N(<< <<2, 128>> >>, << <<15, 128>> >>),
  procD |-> N(<< <<16, 128>> >>, << <<19, 128>> >>),
  procE |-> N(<< <<20, 128>> >>, << <<3, 128>> >>),
  proc_f_m |-> N(<< <<25, 16>>, <<29, 16>>, <<32, 16>> >>, << <<14, 32>> >>),
  proc_m_to_m |-> N(<< <<24, 16>>, <<28, 16>>, <<31, 16>> >>, << <<10, 32>>, <<11, 32>> >>),
  proc_to_m |-> N(<< <<26, 16>> >>, << <<12, 32>>, <<13, 32>> >>),
  sink |-> N(<< <<3, 16>> >>, <<>>), sinkB |-> N(<< <<6, 16>> >>, <<>>),
  sinkC |-> N(<< <<7, 16>> >>, <<>>), sinkD |-> N(<< <<8, 16>> >>, <<>>),
  sinkE |-> N(<< <<9, 16>> >>, <<>>), source |-> N(<<>>, << <<0, 128>> >>),
  src0 |-> N(<<>>, << <<27, 16>> >>), src1 |-> N(<<>>, << <<30, 16>> >>)]
TestAsyncTests == <<"dstaA", "dstaB", "dstaC", "dstbA", "dstbB", "dup0",
  "dup1", "dup2", "dup3", "dup4", "proc12", "proc13", "proc21A", "proc21B",
  "procA", "procB", "procC", "procD", "procE", "proc_f_m", "proc_m_to_m",
  "proc_to_m", "sink", "sinkB", "sinkC", "sinkD", "sinkE", "source", "src0",
  "src1">>
TestAsyncSwitch == <<"dstaA", "dstaB", "dstaC", "dstbA", "dstbB", "dup0",
  "dup1", "dup2", "dup3", "dup4", "proc12", "proc13", "proc21A", "proc21B",
  "procA", "procB", "procC", "procD", "procE", "proc_f_m", "proc_m_to_m",
  "proc_to_m", "sink", "sinkB", "sinkC", "sinkD", "sinkE", "source", "src0",
  "src1">>
TestAsyncSchedule == <<28, 8, 29, 9, 28, 29, 27, 14, 15, 16, 5, 11, 23, 24,
  10, 13, 26, 7, 19, 2, 20, 0, 3, 21, 1, 4, 8, 9, 11, 23, 24, 17, 6, 12, 25,
  18, 22, 22, 22, 22, 22, 22, 22, 22, 28, 29, 10, 13, 26, 7, 19, 2, 20, 0, 3,
  21, 1, 4, 12, 25, 8, 9, 11, 23, 24, 28, 29, 10, 13, 26, 7, 19, 2, 20, 0, 3,
  21, 1, 4, 12, 25, 8, 9, 11, 23, 24, 28, 29, 10, 13, 26, 7, 19, 2, 20, 0, 3,
  21, 1, 4, 12, 25, 8, 9, 11, 23, 24, 28, 29, 10, 13, 26, 7, 19, 2, 20, 0, 3,
  21, 1, 4, 12, 25, 8, 9, 11, 23, 24, 28, 29, 10, 13, 26, 7, 19, 2, 20, 0, 3,
  21, 1, 4, 12, 25, 8, 9, 11, 23, 24, 28, 29, 10, 13, 26, 7, 19, 2, 20, 0, 3,
  21, 1, 4, 12, 25, 8, 9, 11, 23, 24, 10, 13, 26, 7, 19, 2, 20, 0, 3, 21, 1,
  4, 12, 25>>

(* Tests/duplicate_sync/scheduler.cpp                                        *)
TestDuplicateSyncFIFOs == <<A(192, "buf0"), A(192, "buf1"), A(192, "buf2"),
  A(192, "buf3"), A(192, "buf4"), A(192, "buf5")>>
TestDuplicateSyncNodes == [dup0 |-> Dup(192, 0, <<1, 2, 3, 4, 5>>),
  sink0 |-> N(<< <<1, 192>> >>, <<>>), sink1 |-> N(<< <<2, 192>> >>, <<>>),
  sink2 |-> N(<< <<3, 192>> >>, <<>>), sink3 |-> N(<< <<4, 192>> >>, <<>>),
  sink4 |-> N(<< <<5, 192>> >>, <<>>), src |-> N(<<>>, << <<0, 192>> >>)]
TestDuplicateSyncSwitch == <<"dup0", "sink0", "sink1", "sink2", "sink3",
  "sink4", "src">>
TestDuplicateSyncSchedule == <<6, 0, 1, 2, 3, 4, 5>>

(* Tests/fifobench_async/scheduler.cpp                                       *)
TestFifobenchAsyncFIFOs == <<F(256, "buf0"), F(256, "buf1"), F(256, "buf2"),
  F(512, "buf3"), F(512, "buf4"), F(512, "buf5"), F(256, "buf6"),
  F(256, "buf7")>>
TestFifobenchAsyncNodes == [
  audioOverlap |-> N(<< <<6, 256>> >>, << <<7, 128>> >>),
  audioWin |-> N(<< <<0, 128>> >>, << <<1, 256>> >>),
  cfft |-> N(<< <<3, 512>> >>, << <<4, 512>> >>),
  icfft |-> N(<< <<4, 512>> >>, << <<5, 512>> >>),
  sink |-> N(<< <<7, 192>> >>, <<>>), src |-> N(<<>>, << <<0, 192>> >>),
  toCmplx |-> N(<< <<2, 256>> >>, << <<3, 512>> >>),
  toReal |-> N(<< <<5, 512>> >>, << <<6, 256>> >>)]
TestFifobenchAsyncFunctions == [
  arm_mult_f320 |-> N(<< <<1, 256>> >>, << <<2, 256>> >>)]
TestFifobenchAsyncTests == <<"arm_mult_f320", "audioOverlap", "audioWin",
  "cfft", "icfft", "sink", "src", "toCmplx", "toReal">>
TestFifobenchAsyncSwitch == <<"arm_mult_f320", "audioOverlap", "audioWin",
  "cfft", "icfft", "sink", "src", "toCmplx", "toReal">>
TestFifobenchAsyncSchedule == <<6, 2, 0, 7, 3, 4, 8, 1, 6, 2, 0, 7, 3, 4, 8,
  1, 5, 2, 0, 7, 3, 4, 8, 1, 5>>

(* Tests/fifobench_sync/scheduler.cpp                                        *)
TestFifobenchSyncFIFOs == <<F(256, "buf0"), A(256, "buf1"), A(256, "buf2"),
  A(512, "buf3"), A(512, "buf4"), A(512, "buf5"), A(256, "buf6"),
  F(256, "buf7")>>
TestFifobenchSyncNodes == [
  audioOverlap |-> N(<< <<6, 256>> >>, << <<7, 128>> >>),
  audioWin |-> N(<< <<0, 128>> >>, << <<1, 256>> >>),
  cfft |-> N(<< <<3, 512>> >>, << <<4, 512>> >>),
  icfft |-> N(<< <<4, 512>> >>, << <<5, 512>> >>),
  sink |-> N(<< <<7, 192>> >>, <<>>), src |-> N(<<>>, << <<0, 192>> >>),
  toCmplx |-> N(<< <<2, 256>> >>, << <<3, 512>> >>),
  toReal |-> N(<< <<5, 512>> >>, << <<6, 256>> >>)]
TestFifobenchSyncFunctions == [
  arm_mult_f320 |-> N(<< <<1, 256>> >>, << <<2, 256>> >>)]
TestFifobenchSyncSwitch == <<"arm_mult_f320", "audioOverlap", "audioWin",
  "cfft", "icfft", "sink", "src", "toCmplx", "toReal">>
TestFifobenchSyncSchedule == <<6, 2, 0, 7, 3, 4, 8, 1, 6, 2, 0, 7, 3, 4, 8, 1,
  5, 2, 0, 7, 3, 4, 8, 1, 5>>

(* Tests/sync/scheduler.cpp                                                  *)
TestSyncFIFOs == <<A(128, "buf0"), A(128, "buf1"), A(128, "buf2"),
  F(128, "buf3"), A(16, "buf4"), A(16, "buf5"), A(16, "buf6"), A(16, "buf7"),
  A(16, "buf8"), A(16, "buf9"), A(32, "buf10"), A(32, "buf11"),
  A(32, "buf12"), A(32, "buf13"), A(32, "buf14"), A(128, "buf15"),
  A(128, "buf16"), F(128, "buf17"), F(128, "buf18"), A(128, "buf19"),
  A(128, "buf20"), F(128, "buf21"), A(16, "buf22"), A(16, "buf23"),
  A(16, "buf24"), A(16, "buf25"), A(16, "buf26"), A(16, "buf27"),
  A(16, "buf28"), A(16, "buf29"), A(16, "buf30"), A(16, "buf31"),
  A(16, "buf32")>>
TestSyncNodes == [dstaA |-> N(<< <<10, 32>> >>, <<>>),
  dstaB |-> N(<< <<12, 32>> >>, <<>>), dstaC |-> N(<< <<14, 32>> >>, <<>>),
  dstbA |-> N(<< <<11, 32>> >>, <<>>), dstbB |-> N(<< <<13, 32>> >>, <<>>),
  dup0 |-> Dup(128, 15, <<16, 17, 18>>), dup1 |-> Dup(128, 19, <<20, 21>>),
  dup2 |-> Dup(16, 22, <<23, 24, 25, 26>>), dup3 |-> Dup(16, 27, <<28, 29>>),
  dup4 |-> Dup(16, 30, <<31, 32>>),
  proc12 |-> N(<< <<17, 16>> >>, << <<22, 16>>, <<4, 16>> >>),
  proc13 |-> N(<< <<18, 16>> >>, << <<5, 16>>, <<6, 16>>, <<7, 16>> >>),
  proc21A |-> N(<< <<21, 16>>, <<23, 16>> >>, << <<8, 16>> >>),
  proc21B |-> N(<< <<4, 16>>, <<5, 16>> >>, << <<9, 16>> >>),
  procA |-> N(<< <<0, 128>> >>, << <<1, 128>> >>),
  procB |-> N(<< <<1, 128>> >>, << <<2, 128>> >>),
  procC |-> N(<< <<2, 128>> >>, << <<15, 128>> >>),
  procD |-> N(<< <<16, 128>> >>, << <<19, 128>> >>),
  procE |-> N(<< <<20, 128>> >>, << <<3, 128>> >>),
  proc_f_m |-> N(<< <<25, 16>>, <<29, 16>>, <<32, 16>> >>, << <<14, 32>> >>),
  proc_m_to_m |-> N(<< <<24, 16>>, <<28, 16>>, <<31, 16>> >>, << <<10, 32>>, <<11, 32>> >>),
  proc_to_m |-> N(<< <<26, 16>> >>, << <<12, 32>>, <<13, 32>> >>),
  sink |-> N(<< <<3, 16>> >>, <<>>), sinkB |-> N(<< <<6, 16>> >>, <<>>),
  sinkC |-> N(<< <<7, 16>> >>, <<>>), sinkD |-> N(<< <<8, 16>> >>, <<>>),
  sinkE |-> N(<< <<9, 16>> >>, <<>>), source |-> N(<<>>, << <<0, 128>> >>),
  src0 |-> N(<<>>, << <<27, 16>> >>), src1 |-> N(<<>>, << <<30, 16>> >>)]
TestSyncSwitch == <<"dstaA", "dstaB", "dstaC", "dstbA", "dstbB", "dup0",
  "dup1", "dup2", "dup3", "dup4", "proc12", "proc13", "proc21A", "proc21B",
  "procA", "procB", "procC", "procD", "procE", "proc_f_m", "proc_m_to_m",
  "proc_to_m", "sink", "sinkB", "sinkC", "sinkD", "sinkE", "source", "src0",
  "src1">>
TestSyncSchedule == <<28, 8, 29, 9, 28, 29, 27, 14, 15, 16, 5, 11, 23, 24, 10,
  13, 26, 7, 19, 2, 20, 0, 3, 21, 1, 4, 8, 9, 11, 23, 24, 17, 6, 12, 25, 18,
  22, 22, 22, 22, 22, 22, 22, 22, 28, 29, 10, 13, 26, 7, 19, 2, 20, 0, 3, 21,
  1, 4, 12, 25, 8, 9, 11, 23, 24, 28, 29, 10, 13, 26, 7, 19, 2, 20, 0, 3, 21,
  1, 4, 12, 25, 8, 9, 11, 23, 24, 28, 29, 10, 13, 26, 7, 19, 2, 20, 0, 3, 21,
  1, 4, 12, 25, 8, 9, 11, 23, 24, 28, 29, 10, 13, 26, 7, 19, 2, 20, 0, 3, 21,
  1, 4, 12, 25, 8, 9, 11, 23, 24, 28, 29, 10, 13, 26, 7, 19, 2, 20, 0, 3, 21,
  1, 4, 12, 25, 8, 9, 11, 23, 24, 28, 29, 10, 13, 26, 7, 19, 2, 20, 0, 3, 21,
  1, 4, 12, 25, 8, 9, 11, 23, 24, 10, 13, 26, 7, 19, 2, 20, 0, 3, 21, 1, 4,
  12, 25>>

Both(objects, functions) ==
  [x \in DOMAIN objects \cup DOMAIN functions |->
     IF x \in DOMAIN objects THEN objects[x] ELSE functions[x]]

(* A synchronous program tests nothing: its switch stands in for the tests.   *)
Program(fifos, nodes, tests, switch, schedule, variant) ==
  [fifos |-> fifos, nodes |-> nodes, tests |-> tests, switch |-> switch,
   schedule |-> schedule,
   heap |-> variant.heap, async |-> variant.async, pausing |-> variant.pausing]

AllPrograms ==
  [   HelloZephyr |-> Program(HelloZephyrFIFOs, HelloZephyrNodes,
    HelloZephyrSwitch, HelloZephyrSwitch, HelloZephyrSchedule, Heap),
   Constraint1 |-> Program(Constraint1FIFOs, Constraint1Nodes,
    Constraint1Switch, Constraint1Switch, Constraint1Schedule, Static),
   Constraint10 |-> Program(Constraint10FIFOs, Constraint10Nodes,
    Constraint10Switch, Constraint10Switch, Constraint10Schedule, Static),
   Constraint11 |-> Program(Constraint11FIFOs, Constraint11Nodes,
    Constraint11Switch, Constraint11Switch, Constraint11Schedule, Static),
   Constraint12 |-> Program(Constraint12FIFOs, Constraint12Nodes,
    Constraint12Switch, Constraint12Switch, Constraint12Schedule, Static),
   Constraint2 |-> Program(Constraint2FIFOs, Constraint2Nodes,
    Constraint2Switch, Constraint2Switch, Constraint2Schedule, Static),
   Constraint3 |-> Program(Constraint3FIFOs, Constraint3Nodes,
    Constraint3Switch, Constraint3Switch, Constraint3Schedule, Static),
   Constraint7 |-> Program(Constraint7FIFOs, Constraint7Nodes,
    Constraint7Switch, Constraint7Switch, Constraint7Schedule, Static),
   Constraint8 |-> Program(Constraint8FIFOs, Constraint8Nodes,
    Constraint8Switch, Constraint8Switch, Constraint8Schedule, Static),
   Buffer |-> Program(BufferFIFOs, BufferNodes,
    BufferSwitch, BufferSwitch, BufferSchedule, Static),
   Callback |-> Program(CallbackFIFOs, Both(CallbackNodes, CallbackFunctions),
    CallbackSwitch, CallbackSwitch, CallbackSchedule, Callback),
   CustomFifo |-> Program(CustomFifoFIFOs, CustomFifoNodes,
    CustomFifoSwitch, CustomFifoSwitch, CustomFifoSchedule, Static),
   Cyclo |-> Program(CycloFIFOs, CycloNodes,
    CycloSwitch, CycloSwitch, CycloSchedule, Static),
   Events |-> Program(EventsFIFOs, EventsNodes,
    EventsSwitch, EventsSwitch, EventsSchedule, Heap),
   Example1 |-> Program(Example1FIFOs, Example1Nodes,
    Example1Switch, Example1Switch, Example1Schedule, Static),
   Example10 |-> Program(Example10FIFOs, Both(Example10Nodes, Example10Functions),
    Example10Tests, Example10Switch, Example10Schedule, [Heap EXCEPT !.async = TRUE]),
   Example11 |-> Program(Example11FIFOs, Both(Example11Nodes, Example11Functions),
    Example11Tests, Example11Switch, Example11Schedule, [Static EXCEPT !.async = TRUE]),
   Example12Dynamic |-> Program(Example12DynamicFIFOs, Example12DynamicNodes,
    Example12DynamicSwitch, Example12DynamicSwitch, Example12DynamicSchedule, Static),
   Example12Static |-> Program(Example12StaticFIFOs, Example12StaticNodes,
    Example12StaticSwitch, Example12StaticSwitch, Example12StaticSchedule, Static),
   Example2 |-> Program(Example2FIFOs, Both(Example2Nodes, Example2Functions),
    Example2Switch, Example2Switch, Example2Schedule, Static),
   Example3 |-> Program(Example3FIFOs, Both(Example3Nodes, Example3Functions),
    Example3Switch, Example3Switch, Example3Schedule, Static),
   Example6 |-> Program(Example6FIFOs, Example6Nodes,
    Example6Switch, Example6Switch, Example6Schedule, Static),
   Example8 |-> Program(Example8FIFOs, Example8Nodes,
    Example8Switch, Example8Switch, Example8Schedule, Static),
   Example9 |-> Program(Example9FIFOs, Example9Nodes,
    Example9Switch, Example9Switch, Example9Schedule, Static),
   FunctionExample |-> Program(FunctionExampleFIFOs, Both(FunctionExampleNodes, FunctionExampleFunctions),
    FunctionExampleSwitch, FunctionExampleSwitch, FunctionExampleSchedule, Static),
   HelloRtos |-> Program(HelloRtosFIFOs, HelloRtosNodes,
    HelloRtosSwitch, HelloRtosSwitch, HelloRtosSchedule, Heap),
   HelloPosix |-> Program(HelloPosixFIFOs, HelloPosixNodes,
    HelloPosixSwitch, HelloPosixSwitch, HelloPosixSchedule, Heap),
   Memory |-> Program(MemoryFIFOs, MemoryNodes,
    MemorySwitch, MemorySwitch, MemorySchedule, Static),
   Simple |-> Program(SimpleFIFOs, SimpleNodes,
    SimpleSwitch, SimpleSwitch, SimpleSchedule, Static),
   SimpleDsp |-> Program(SimpleDspFIFOs, Both(SimpleDspNodes, SimpleDspFunctions),
    SimpleDspSwitch, SimpleDspSwitch, SimpleDspSchedule, Static),
   Yaml |-> Program(YamlFIFOs, YamlNodes,
    YamlSwitch, YamlSwitch, YamlSchedule, Static),
   TestAsync |-> Program(TestAsyncFIFOs, TestAsyncNodes,
    TestAsyncTests, TestAsyncSwitch, TestAsyncSchedule, [Static EXCEPT !.async = TRUE]),
   TestDuplicateSync |-> Program(TestDuplicateSyncFIFOs, TestDuplicateSyncNodes,
    TestDuplicateSyncSwitch, TestDuplicateSyncSwitch, TestDuplicateSyncSchedule, Static),
   TestFifobenchAsync |-> Program(TestFifobenchAsyncFIFOs, Both(TestFifobenchAsyncNodes, TestFifobenchAsyncFunctions),
    TestFifobenchAsyncTests, TestFifobenchAsyncSwitch, TestFifobenchAsyncSchedule, [Static EXCEPT !.async = TRUE]),
   TestFifobenchSync |-> Program(TestFifobenchSyncFIFOs, Both(TestFifobenchSyncNodes, TestFifobenchSyncFunctions),
    TestFifobenchSyncSwitch, TestFifobenchSyncSwitch, TestFifobenchSyncSchedule, Static),
   TestSync |-> Program(TestSyncFIFOs, TestSyncNodes,
    TestSyncSwitch, TestSyncSwitch, TestSyncSchedule, Static)]
=============================================================================

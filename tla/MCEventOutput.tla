---------------------------- MODULE MCEventOutput ----------------------------
(***************************************************************************)
(* With few blocks and allocations that fail, as on CMSIS-RTOS, and with     *)
(* enough blocks and allocations that wait, as on Zephyr.  A node of the     *)
(* dataflow sends to a and b, the handler of a to b and c, the handler of b   *)
(* to the application.                                                      *)
(***************************************************************************)
EXTENDS EventOutput

SomePlatforms == { [lists |-> 2, waits |-> FALSE], [lists |-> 7, waits |-> TRUE] }

SomeSubscribers == [o1 |-> <<"a", "b">>, o2 |-> <<"b", "c">>, app |-> <<App>>]

SomeOutputs == [a |-> {"o2"}, b |-> {App}, c |-> {}, app |-> {}]

OutputsOfStream == {"o1"}

SomeListOutputs == {"o1", "o2"}
=============================================================================

------------------------------ MODULE MCPrograms ------------------------------
(***************************************************************************)
(* All the committed programs, and what the generator writes for the         *)
(* callback example in the asynchronous mode: no FIFO is an array then.      *)
(***************************************************************************)
EXTENDS GeneratedProgram, CommittedPrograms

AsyncCallback ==
  [AllPrograms["Callback"] EXCEPT
     !.async = TRUE, !.fifos = <<F(11, "buf0"), F(7, "buf1"), F(11, "buf2")>>]

AllAndAsyncCallback ==
  { AllPrograms[p] : p \in DOMAIN AllPrograms } \cup {AsyncCallback}
=============================================================================

----------------------- MODULE GeneratedProgramProofs -----------------------
(***************************************************************************)
(* Theorems about GeneratedProgram, for every set of programs: the mark that  *)
(* a node is resumed reaches the node that has paused and no other, and the  *)
(* tests of the asynchronous mode keep every FIFO within its length and let   *)
(* no node read what nobody wrote, whatever the lengths and the order of the  *)
(* schedule.  And about StreamFIFO, one of these FIFOs with its memory, for   *)
(* every length, delay and mixture of amounts: the positions stay inside the  *)
(* buffer whatever memcpy() does with overlapping ranges, and when it goes up *)
(* the samples come out in the order in which they went in.                  *)
(***************************************************************************)
EXTENDS GeneratedProgram, SequenceTheorems, TLAPS

(* The node of an index, the test of the node that is next and the test of   *)
(* the node that has paused.                                                *)
NodeAt(i) == program.switch[program.schedule[i] + 1]
CurrentSkips == Skips(Current)
SavedSkips == Skips(NodeAt(cb_state.id))

(* The test depends on the program, the positions and the cycles only.      *)
LEMMA SameCurrent ==
  ASSUME program' = program, id' = id, pos' = pos, period' = period
  PROVE  CurrentSkips' <=> CurrentSkips
  BY DEF CurrentSkips, Skips, Current, Writes, Reads, Accesses, Overflows,
         Underflows, willUnderflowWith, willOverflowWith, FIFO

LEMMA SameSaved ==
  ASSUME program' = program, cb_state'.id = cb_state.id, pos' = pos,
         period' = period
  PROVE  SavedSkips' <=> SavedSkips
  BY DEF SavedSkips, NodeAt, Skips, Writes, Reads, Accesses, Overflows,
         Underflows, willUnderflowWith, willOverflowWith, FIFO

LEMMA CurrentBecomesSaved ==
  ASSUME program' = program, cb_state'.id = id, pos' = pos, period' = period
  PROVE  SavedSkips' <=> CurrentSkips
  BY DEF CurrentSkips, Current, SavedSkips, NodeAt, Skips, Writes, Reads,
         Accesses, Overflows, Underflows, willUnderflowWith, willOverflowWith,
         FIFO

LEMMA SavedBecomesCurrent ==
  ASSUME program' = program, id' = cb_state.id, pos' = pos, period' = period
  PROVE  CurrentSkips' <=> SavedSkips
  BY DEF CurrentSkips, Current, SavedSkips, NodeAt, Skips, Writes, Reads,
         Accesses, Overflows, Underflows, willUnderflowWith, willOverflowWith,
         FIFO
-----------------------------------------------------------------------------
LEMMA TestedIsCurrent ==
  ASSUME program \in Programs PROVE Tested = Current
  BY ProgramsAssumption DEF Tested, Current

CallbackType ==
  /\ program \in Programs
  /\ pc \in {"outside", "prepare", "run"}
  /\ resuming \in {"no", "first", "second"}
  /\ id \in Nat
  /\ cb_state \in [status : {"not started", "running", "paused"}, id : Nat,
                   running : {"new", "resumed"}]

(* The function is paused between two calls only.  The mark is set from the   *)
(* pause until the first call of a node, which is the node that has paused:  *)
(* its test has passed, nothing has moved since, so it is not skipped.       *)
MarkInv ==
  /\ cb_state.status = "paused" => pc = "outside"
  /\ pc = "outside" => resuming = "no"
  /\ cb_state.running = "resumed"
       <=> (cb_state.status = "paused" \/ resuming = "first")
  /\ program.async /\ cb_state.status = "paused" => ~SavedSkips
  /\ program.async /\ pc = "run" => ~CurrentSkips
  /\ pc = "prepare" => program.async
  /\ pc = "prepare" /\ resuming = "first" => ~CurrentSkips

ResumeInv == CallbackType /\ MarkInv /\ ResumedIsTold

LEMMA ResumeInvInitially == Init => ResumeInv
<1> SUFFICES ASSUME Init PROVE ResumeInv
  OBVIOUS
<1>1. /\ program \in Programs
      /\ pc = "outside" /\ id = 1 /\ resuming = "no"
      /\ cb_state = [status |-> "not started", id |-> 1, running |-> "new"]
      /\ told = [status |-> "new", entry |-> "no"]
  BY DEF Init
<1>2. CallbackType
  BY <1>1 DEF CallbackType
<1>3. MarkInv
  BY <1>1 DEF MarkInv
<1>4. ResumedIsTold
  BY <1>1 DEF ResumedIsTold
<1>5. QED
  BY <1>2, <1>3, <1>4 DEF ResumeInv

(* Where NextNode and Enter lead.                                           *)
LEMMA NextNodeLeads ==
  ASSUME NextNode, id \in Nat
  PROVE  /\ id' \in Nat
         /\ pc' \in {"outside", "prepare", "run"}
         /\ pc' = "prepare" => program.async
         /\ pc' = "run" => ~program.async
  BY DEF NextNode, Enter

LEMMA ResumeInvInductive == ResumeInv /\ [Next]_vars => ResumeInv'
<1> SUFFICES ASSUME ResumeInv, [Next]_vars PROVE ResumeInv'
  OBVIOUS
<1> USE DEF ResumeInv, CallbackType, MarkInv, ResumedIsTold
<1>1. CASE StartScheduler
  <2> USE DEF StartScheduler
  <2>1. CASE cb_state.status = "paused"
    <3>1. id' = cb_state.id /\ program' = program /\ pos' = pos /\ period' = period
      BY <1>1, <2>1 DEF Enter, fifoVars
    <3>2. CurrentSkips' <=> SavedSkips
      BY <3>1, SavedBecomesCurrent
    <3>3. QED
      BY <1>1, <2>1, <3>2 DEF Enter
  <2>2. CASE cb_state.status # "paused"
    <3>1. /\ pc = "outside" /\ program' = program /\ id' = 1
          /\ cb_state' = cb_state /\ resuming' = resuming /\ told' = told
          /\ pc' = IF program.async THEN "prepare" ELSE "run"
      BY <1>1, <2>2 DEF Enter
    <3>2. resuming = "no" /\ cb_state.running # "resumed"
      BY <3>1, <2>2
    <3>3. CallbackType' /\ ResumedIsTold'
      BY <3>1
    <3>4. MarkInv'
      BY <3>1, <3>2, <2>2
    <3>5. QED
      BY <3>3, <3>4
  <2>3. QED
    BY <2>1, <2>2
<1>2. CASE SkipNode
  <2>1. resuming # "first"
    BY <1>2, TestedIsCurrent DEF SkipNode, CurrentSkips
  <2>2. cb_state.status # "paused" /\ cb_state.running # "resumed"
    BY <1>2, <2>1 DEF SkipNode
  <2>3. QED
    BY <1>2, <2>1, <2>2, NextNodeLeads DEF SkipNode, Tell
<1>3. CASE PrepareNode
  <2>1. CurrentSkips' <=> CurrentSkips
    BY <1>3, SameCurrent DEF PrepareNode, fifoVars
  <2>2. ~CurrentSkips
    BY <1>3, TestedIsCurrent DEF PrepareNode, CurrentSkips
  <2>3. QED
    BY <1>3, <2>1, <2>2 DEF PrepareNode, Tell
<1>4. CASE RunNode
  BY <1>4, NextNodeLeads DEF RunNode, Tell
<1>5. CASE PauseScheduler
  <2>1. cb_state'.id = id
    BY <1>5 DEF PauseScheduler, SavedState
  <2>2. SavedSkips' <=> CurrentSkips
    BY <1>5, <2>1, CurrentBecomesSaved DEF PauseScheduler, fifoVars
  <2>3. program.async => ~CurrentSkips
    BY <1>5, TestedIsCurrent DEF PauseScheduler, CurrentSkips
  <2>4. QED
    BY <1>5, <2>2, <2>3 DEF PauseScheduler, SavedState, Tell
<1>6. CASE errorHandling
  BY <1>6 DEF errorHandling, Tell
<1>7. CASE UNCHANGED vars
  <2>1. (CurrentSkips' <=> CurrentSkips) /\ (SavedSkips' <=> SavedSkips)
    BY <1>7, SameCurrent, SameSaved DEF vars, fifoVars
  <2>2. QED
    BY <1>7, <2>1 DEF vars
<1>8. QED
  BY <1>1, <1>2, <1>3, <1>4, <1>5, <1>6, <1>7 DEF Next

(* A node that has paused is told of its resumption by its first call, and   *)
(* no other call of any node is (codeSwitch.cpp:97-105, 148-156).           *)
THEOREM ResumptionIsTold == Spec => []ResumedIsTold
<1>1. ResumeInv => ResumedIsTold
  BY DEF ResumeInv
<1>2. QED
  BY ResumeInvInitially, ResumeInvInductive, <1>1, PTL DEF Spec
-----------------------------------------------------------------------------
(* What one node takes from a FIFO, or gives to it, is a count.             *)
LEMMA Product == \A a, b \in Nat : a * b \in Nat
  OBVIOUS

(* An index that goes round a cycle stays in it.                            *)
LEMMA GoesRound == \A i \in Nat, n \in Nat \ {0} : (i % n) + 1 \in 1 .. n
  OBVIOUS

Inside(c, p) ==
  ~c.array => 0 <= p.read /\ p.read <= p.write /\ p.write <= c.length

BoundsInv ==
  /\ program \in Programs
  /\ id \in DOMAIN program.schedule /\ cb_state.id \in DOMAIN program.schedule
  /\ pos \in [FIFONames -> [read : Int, write : Int]]
  /\ period \in [Nodes -> Nat]
  /\ \A n \in Nodes : period[n] \in DOMAIN program.nodes[n].cycle
  /\ program.async => FIFOBounds

Inv == ResumeInv /\ BoundsInv

LEMMA NodeTakesCounts ==
  ASSUME BoundsInv, NEW n \in Nodes
  PROVE  /\ \A r \in Reads(n) : r[2] \in Nat
         /\ \A w \in Writes(n) : w[2] \in Nat
<1>1. \A r \in Reads(n) : r[2] \in Nat
  BY ProgramsAssumption DEF BoundsInv, Reads, Nodes
<1>2. program.nodes[n].cycle[period[n]] \in Nat
  <2>1. program.nodes[n].cycle \in Seq(Nat)
    BY ProgramsAssumption DEF BoundsInv, Nodes
  <2>2. period[n] \in DOMAIN program.nodes[n].cycle
    BY DEF BoundsInv
  <2> HIDE DEF BoundsInv
  <2>3. QED
    BY <2>1, <2>2
<1>3. \A w \in Accesses(program.nodes[n].writes) : w[2] \in Nat
  BY ProgramsAssumption DEF BoundsInv, Nodes
<1>4. ASSUME NEW w \in Writes(n) PROVE w[2] \in Nat
  <2>1. PICK a \in Accesses(program.nodes[n].writes) :
          w = <<a[1], a[2] * program.nodes[n].cycle[period[n]]>>
    BY <1>4 DEF Writes
  <2>2. QED
    BY <2>1, <1>2, <1>3, Product
<1>5. QED
  BY <1>1, <1>4

(* A node that is not skipped leaves each FIFO inside its length.           *)
LEMMA AccessStaysInside ==
  ASSUME BoundsInv, NEW n \in Nodes, NEW k \in FIFONames
  PROVE  /\ Accessed(k, n) \in [read : Int, write : Int]
         /\ ~Skips(n) /\ Inside(program.fifos[k], pos[k])
              => Inside(program.fifos[k], Accessed(k, n))
<1> DEFINE reads == { r \in TakenBy(n) : r[1] = k - 1 }
           writes == { w \in GivenBy(n) : w[1] = k - 1 }
           c == program.fifos[k]
<1>0. /\ k \in Nat /\ c.length \in Nat
      /\ pos[k] \in [read : Int, write : Int]
  BY ProgramsAssumption DEF BoundsInv, FIFONames
<1>1. CASE reads # {}
  <2> DEFINE a == CHOOSE r \in reads : TRUE
  <2>1. a \in reads
    BY <1>1
  <2>2. a \in Reads(n) /\ a[1] = k - 1 /\ a[2] \in Nat
    BY <2>1, NodeTakesCounts DEF TakenBy
  <2>3. Accessed(k, n) = getReadBuffer(c, pos[k], a[2])
    BY <1>1 DEF Accessed
  <2>4. ~Skips(n) => ~Underflows(a)
    BY <2>1, <2>2 DEF Skips, TakenBy
  <2>5. Underflows(a) <=> willUnderflowWith(c, pos[k], a[2])
    <3>1. a[1] + 1 = k
      BY <2>2, <1>0
    <3>2. QED
      BY <3>1 DEF Underflows, FIFO
  <2> HIDE DEF a, c
  <2>6. QED
    BY <1>0, <2>2, <2>3, <2>4, <2>5 DEF getReadBuffer, willUnderflowWith, Inside, c
<1>2. CASE reads = {} /\ writes # {}
  <2> DEFINE a == CHOOSE w \in writes : TRUE
  <2>1. a \in writes
    BY <1>2
  <2>2. a \in Writes(n) /\ a[1] = k - 1 /\ a[2] \in Nat
    BY <2>1, NodeTakesCounts DEF GivenBy
  <2>3. Accessed(k, n) = getWriteBuffer(c, pos[k], a[2])
    BY <1>2 DEF Accessed
  <2>4. ~Skips(n) => ~Overflows(a)
    BY <2>2 DEF Skips
  <2>5. Overflows(a) <=> willOverflowWith(c, pos[k], a[2])
    <3>1. a[1] + 1 = k
      BY <2>2, <1>0
    <3>2. QED
      BY <3>1 DEF Overflows, FIFO
  <2> HIDE DEF a, c
  <2>6. QED
    BY <1>0, <2>2, <2>3, <2>4, <2>5 DEF getWriteBuffer, willOverflowWith, Inside, c
<1>3. CASE reads = {} /\ writes = {}
  <2>1. Accessed(k, n) = pos[k]
    BY <1>3 DEF Accessed
  <2>2. QED
    BY <1>0, <2>1
<1>4. QED
  BY <1>1, <1>2, <1>3

(* What Start and reset_fifos(1) leave.                                     *)
LEMMA FreshIsInside ==
  ASSUME NEW p \in Programs, NEW k \in DOMAIN p.fifos
  PROVE  /\ Fresh(p.fifos[k]) \in [read : Int, write : Int]
         /\ Inside(p.fifos[k], Fresh(p.fifos[k]))
  BY ProgramsAssumption DEF Fresh, Inside

LEMMA BoundsInside ==
  FIFOBounds <=> \A k \in FIFONames : Inside(program.fifos[k], pos[k])
  BY DEF FIFOBounds, Inside

LEMMA ScheduleIndices ==
  ASSUME BoundsInv
  PROVE  /\ 1 \in DOMAIN program.schedule /\ Len(program.schedule) \in Nat
         /\ DOMAIN program.schedule = 1 .. Len(program.schedule)
         /\ Current \in Nodes
  BY ProgramsAssumption DEF BoundsInv, Current, Nodes

LEMMA BoundsInvInitially == Init => BoundsInv
<1> SUFFICES ASSUME Init PROVE BoundsInv
  OBVIOUS
<1>1. program \in Programs /\ id = 1 /\ cb_state.id = 1
  BY DEF Init
<1>2. pos = [k \in FIFONames |-> Fresh(program.fifos[k])]
  BY DEF Init, Start, FIFONames
<1>3. period = [n \in Nodes |-> 1]
  BY DEF Init, Start, Nodes
<1>4. 1 \in DOMAIN program.schedule
  BY <1>1, ProgramsAssumption
<1>5. \A n \in Nodes : 1 \in DOMAIN program.nodes[n].cycle
  BY <1>1, ProgramsAssumption DEF Nodes
<1>6. /\ pos \in [FIFONames -> [read : Int, write : Int]]
      /\ \A k \in FIFONames : Inside(program.fifos[k], pos[k])
  BY <1>1, <1>2, FreshIsInside DEF FIFONames
<1>7. QED
  BY <1>1, <1>3, <1>4, <1>5, <1>6, BoundsInside DEF BoundsInv

(* Steps that move nothing keep the bounds.                                 *)
LEMMA BoundsUnmoved ==
  ASSUME BoundsInv, program' = program, pos' = pos, period' = period,
         id' \in DOMAIN program.schedule, cb_state'.id \in DOMAIN program.schedule
  PROVE  BoundsInv'
  BY DEF BoundsInv, FIFOBounds, FIFONames, Nodes

LEMMA NextNodeStays ==
  ASSUME BoundsInv, NextNode
  PROVE  id' \in DOMAIN program.schedule
  BY ScheduleIndices DEF BoundsInv, NextNode, Enter

LEMMA BoundsInvInductive == Inv /\ [Next]_vars => BoundsInv'
<1> SUFFICES ASSUME Inv, [Next]_vars PROVE BoundsInv'
  OBVIOUS
<1>0. ResumeInv /\ BoundsInv
  BY DEF Inv
<1>1. CASE StartScheduler
  <2>1. CASE cb_state.status = "paused"
    <3>1. /\ program' = program /\ pos' = pos /\ period' = period
          /\ id' = cb_state.id /\ cb_state' = [cb_state EXCEPT !.status = "running"]
      BY <1>1, <2>1 DEF StartScheduler, Enter, fifoVars
    <3>2. cb_state'.id = cb_state.id
      BY <3>1, <1>0 DEF ResumeInv, CallbackType
    <3>3. QED
      BY <1>0, <3>1, <3>2, BoundsUnmoved DEF BoundsInv
  <2>2. CASE cb_state.status # "paused"
    <3>1. /\ program' = program /\ id' = 1 /\ cb_state' = cb_state
          /\ pos' = [k \in FIFONames |-> Fresh(program.fifos[k])]
          /\ period' = IF program.heap THEN period ELSE [n \in Nodes |-> 1]
      BY <1>1, <2>2 DEF StartScheduler, Enter
    <3>2. \A n \in Nodes : 1 \in DOMAIN program.nodes[n].cycle
      BY <1>0, ProgramsAssumption DEF BoundsInv, Nodes
    <3>3. /\ period' \in [Nodes -> Nat]
          /\ \A n \in Nodes : period'[n] \in DOMAIN program.nodes[n].cycle
      BY <1>0, <3>1, <3>2 DEF BoundsInv
    <3>4. /\ pos' \in [FIFONames -> [read : Int, write : Int]]
          /\ \A k \in FIFONames : Inside(program.fifos[k], pos'[k])
      BY <1>0, <3>1, FreshIsInside DEF BoundsInv, FIFONames
    <3>5. FIFOBounds'
      BY <3>1, <3>4 DEF FIFOBounds, Inside, FIFONames
    <3>6. QED
      BY <1>0, <3>1, <3>3, <3>4, <3>5, ScheduleIndices DEF BoundsInv, FIFONames, Nodes
  <2>3. QED
    BY <2>1, <2>2
<1>2. CASE SkipNode
  <2>1. /\ program' = program /\ pos' = pos /\ period' = period
        /\ cb_state' = cb_state /\ NextNode
    BY <1>2 DEF SkipNode, fifoVars
  <2>2. QED
    BY <1>0, <2>1, NextNodeStays, BoundsUnmoved DEF BoundsInv
<1>3. CASE PrepareNode \/ errorHandling
  <2>1. /\ program' = program /\ pos' = pos /\ period' = period /\ id' = id
        /\ cb_state' = [cb_state EXCEPT !.running = "new"]
    BY <1>3 DEF PrepareNode, errorHandling, fifoVars
  <2>2. cb_state'.id = cb_state.id
    BY <2>1, <1>0 DEF ResumeInv, CallbackType
  <2>3. QED
    BY <1>0, <2>1, <2>2, BoundsUnmoved DEF BoundsInv
<1>4. CASE RunNode
  <2> DEFINE n == Current
  <2>1. /\ program' = program /\ NextNode /\ pc = "run"
        /\ cb_state' = [cb_state EXCEPT !.running = "new"]
        /\ pos' = [k \in FIFONames |-> Accessed(k, n)]
        /\ period' = [period EXCEPT ![n] = (@ % Len(program.nodes[n].cycle)) + 1]
    BY <1>4 DEF RunNode
  <2>2. n \in Nodes
    BY <1>0, ScheduleIndices
  <2>3. program.async => ~Skips(n)
    BY <1>0, <2>1 DEF ResumeInv, MarkInv, CurrentSkips
  <2> HIDE DEF n
  <2>4. cb_state'.id = cb_state.id /\ id' \in DOMAIN program.schedule
    BY <1>0, <2>1, NextNodeStays DEF ResumeInv, CallbackType
  <2>5. pos' \in [FIFONames -> [read : Int, write : Int]]
    BY <1>0, <2>1, <2>2, AccessStaysInside
  <2>6. program.async => FIFOBounds'
    <3> SUFFICES ASSUME program.async, NEW k \in FIFONames
                 PROVE  Inside(program.fifos[k], pos'[k])
      BY <2>1 DEF FIFOBounds, Inside, FIFONames
    <3>1. Inside(program.fifos[k], pos[k])
      BY <1>0, BoundsInside DEF BoundsInv
    <3>2. QED
      BY <1>0, <2>1, <2>2, <2>3, <3>1, AccessStaysInside
  <2>7. \A m \in Nodes :
          /\ Len(program.nodes[m].cycle) \in Nat \ {0}
          /\ DOMAIN program.nodes[m].cycle = 1 .. Len(program.nodes[m].cycle)
    BY <1>0, ProgramsAssumption DEF BoundsInv, Nodes
  <2>8. /\ period' \in [Nodes -> Nat]
        /\ \A m \in Nodes : period'[m] \in DOMAIN program.nodes[m].cycle
    <3>1. period \in [Nodes -> Nat]
      BY <1>0 DEF BoundsInv
    <3>2. ASSUME NEW m \in Nodes, m # n
          PROVE  period'[m] = period[m]
      BY <2>1, <3>1, <3>2
    <3>3. period'[n] \in 1 .. Len(program.nodes[n].cycle)
      <4>1. period'[n] = (period[n] % Len(program.nodes[n].cycle)) + 1
        BY <2>1, <2>2, <3>1
      <4>2. period[n] \in Nat /\ Len(program.nodes[n].cycle) \in Nat \ {0}
        BY <2>2, <2>7, <3>1
      <4>3. QED
        BY <4>1, <4>2, GoesRound
    <3>4. \A m \in Nodes : period'[m] \in DOMAIN program.nodes[m].cycle
      BY <1>0, <2>7, <3>2, <3>3 DEF BoundsInv
    <3>5. \A m \in Nodes : period'[m] \in Nat
      BY <2>7, <3>4
    <3>6. QED
      BY <2>1, <3>1, <3>4, <3>5
  <2>9. QED
    BY <1>0, <2>1, <2>4, <2>5, <2>6, <2>8 DEF BoundsInv, FIFONames, Nodes
<1>5. CASE PauseScheduler
  <2>1. /\ program' = program /\ pos' = pos /\ period' = period /\ id' = id
        /\ cb_state'.id = id
    BY <1>5 DEF PauseScheduler, SavedState, fifoVars
  <2>2. QED
    BY <1>0, <2>1, BoundsUnmoved DEF BoundsInv
<1>6. CASE UNCHANGED vars
  <2>1. program' = program /\ pos' = pos /\ period' = period /\ id' = id
        /\ cb_state' = cb_state
    BY <1>6 DEF vars, fifoVars
  <2>2. QED
    BY <1>0, <2>1, BoundsUnmoved DEF BoundsInv
<1>7. QED
  BY <1>1, <1>2, <1>3, <1>4, <1>5, <1>6 DEF Next

(* In the asynchronous mode no FIFO is read past what it holds or written    *)
(* past its length, whatever the lengths, the amounts and the order of the   *)
(* schedule: nothing moves between the test of a node and its execution, a   *)
(* pause and a resumption between the two included (codeSwitch.cpp:60-105).  *)
THEOREM AsyncBounds == Spec => [](program.async => FIFOBounds)
<1>1. Init => Inv
  BY ResumeInvInitially, BoundsInvInitially DEF Inv
<1>2. Inv /\ [Next]_vars => Inv'
  BY ResumeInvInductive, BoundsInvInductive DEF Inv
<1>3. Inv => (program.async => FIFOBounds)
  BY DEF Inv, BoundsInv
<1>4. QED
  BY <1>1, <1>2, <1>3, PTL DEF Spec
-----------------------------------------------------------------------------
(* In the asynchronous mode each FIFO has positions and a buffer of its own, *)
(* and an input takes samples.                                              *)
OwnBuffers ==
  /\ \A k \in FIFONames : ~program.fifos[k].array
  /\ \A j, k \in FIFONames : program.fifos[j].buf = program.fifos[k].buf => j = k
  /\ \A n \in Nodes : \A r \in Reads(n) : r[2] > 0

(* A buffer that has never been written lets nobody read.                   *)
SamplesAt(k) ==
  LET content == mem[program.fifos[k].buf] IN
  /\ content \in {Old, <<k - 1, 2>>}
  /\ content = Old /\ program.fifos[k].delay = 0 => pos[k].write <= pos[k].read

SamplesInv ==
  /\ DOMAIN mem = Buffers
  /\ \A k \in FIFONames : SamplesAt(k)
  /\ ReadsIntact

AsyncInv == Inv /\ (program.async => SamplesInv)

LEMMA BuffersAreOwn ==
  ASSUME program \in Programs, program.async PROVE OwnBuffers
  BY AsyncAssumption DEF OwnBuffers, FIFONames, Nodes, Reads

LEMMA AccessesAreOfFIFOs ==
  ASSUME BoundsInv, NEW n \in Nodes,
         NEW a \in Reads(n) \cup Writes(n)
  PROVE  a[1] \in Nat /\ a[1] + 1 \in FIFONames
<1>1. \A x \in Accesses(program.nodes[n].reads) \cup Accesses(program.nodes[n].writes) :
        x[1] \in Nat /\ x[1] + 1 \in FIFONames
  BY ProgramsAssumption DEF BoundsInv, Nodes, FIFONames
<1>2. CASE a \in Reads(n)
  BY <1>1, <1>2 DEF Reads
<1>3. CASE a \in Writes(n)
  <2>1. PICK x \in Accesses(program.nodes[n].writes) :
          a = <<x[1], x[2] * program.nodes[n].cycle[period[n]]>>
    BY <1>3 DEF Writes
  <2>2. a[1] = x[1]
    BY <2>1
  <2>3. QED
    BY <1>1, <2>2
<1>4. QED
  BY <1>2, <1>3

(* A node writes into the buffers of its own outputs.                       *)
LEMMA FilledIs ==
  ASSUME BoundsInv, OwnBuffers, NEW n \in Nodes, NEW k \in FIFONames
  PROVE  Filled(program.fifos[k].buf, n)
           = IF \E w \in GivenBy(n) : w[1] = k - 1 THEN <<k - 1, 2>>
             ELSE mem[program.fifos[k].buf]
<1> DEFINE buf == program.fifos[k].buf
           here == { w[1] : w \in { x \in GivenBy(n) : FIFO(x[1]).buf = buf } }
           last == CHOOSE g \in here : \A h \in here : h <= g
<1>1. k \in Nat /\ k - 1 \in Int /\ k - 1 + 1 = k
  BY ProgramsAssumption DEF BoundsInv, FIFONames
<1>2. ASSUME NEW w \in GivenBy(n)
      PROVE  FIFO(w[1]).buf = buf <=> w[1] = k - 1
  <2>1. w \in Writes(n)
    BY DEF GivenBy
  <2>2. w[1] \in Nat /\ w[1] + 1 \in FIFONames
    BY <2>1, AccessesAreOfFIFOs
  <2>3. FIFO(w[1]).buf = buf <=> w[1] + 1 = k
    BY <2>2 DEF FIFO, OwnBuffers
  <2>4. w[1] + 1 = k <=> w[1] = k - 1
    BY <1>1, <2>2
  <2>5. QED
    BY <2>3, <2>4
<1>3. CASE \E w \in GivenBy(n) : w[1] = k - 1
  <2>1. here = {k - 1}
    BY <1>2, <1>3
  <2>2. last = k - 1
    <3>1. \A h \in here : h <= k - 1
      BY <1>1, <2>1
    <3> HIDE DEF here
    <3>2. QED
      BY <2>1, <3>1
  <2>3. ~FIFO(k - 1).array
    BY <1>1 DEF FIFO, OwnBuffers
  <2>4. Origin(k - 1) = k - 1
    BY <2>3 DEF Origin
  <2>5. Token(k - 1) = <<k - 1, 2>>
    BY <2>3 DEF Token
  <2>6. Filled(buf, n) = IF here = {} THEN mem[buf]
                         ELSE IF Origin(last) # last
                              THEN mem[FIFO(Origin(last)).buf] ELSE Token(last)
    BY DEF Filled
  <2> HIDE DEF here, last
  <2>7. QED
    BY <1>3, <2>1, <2>2, <2>4, <2>5, <2>6
<1>4. CASE ~\E w \in GivenBy(n) : w[1] = k - 1
  <2>1. here = {}
    BY <1>2, <1>4
  <2>2. QED
    BY <1>4, <2>1 DEF Filled
<1>5. QED
  BY <1>3, <1>4

(* One execution.                                                           *)
LEMMA RunNodeKeepsSamples ==
  ASSUME Inv, program.async, OwnBuffers, SamplesInv, RunNode
  PROVE  SamplesInv'
<1> DEFINE n == Current
<1>1. /\ program' = program /\ pc = "run"
      /\ pos' = [k \in FIFONames |-> Accessed(k, n)]
      /\ mem' = [b \in Buffers |-> Filled(b, n)]
      /\ shown' = Seen(n, mem')
  BY DEF RunNode
<1>2. ResumeInv /\ BoundsInv
  BY DEF Inv
<1>3. n \in Nodes /\ ~Skips(n)
  BY <1>1, <1>2, ScheduleIndices DEF ResumeInv, MarkInv, CurrentSkips
<1> HIDE DEF n
<1>4. FIFONames' = FIFONames /\ Buffers' = Buffers /\ DOMAIN mem' = Buffers
  BY <1>1 DEF FIFONames, Buffers
<1>5. ASSUME NEW k \in FIFONames
      PROVE  /\ SamplesAt(k)'
             /\ mem'[program.fifos[k].buf] = Old => mem[program.fifos[k].buf] = Old
             /\ mem'[program.fifos[k].buf] \in {Old, <<k - 1, 2>>}
  <2> DEFINE buf == program.fifos[k].buf
             reads == { r \in TakenBy(n) : r[1] = k - 1 }
             writes == { w \in GivenBy(n) : w[1] = k - 1 }
  <2>1. /\ mem[buf] \in {Old, <<k - 1, 2>>}
        /\ mem[buf] = Old /\ program.fifos[k].delay = 0 => pos[k].write <= pos[k].read
    BY DEF SamplesInv, SamplesAt
  <2>2. mem'[buf] = IF writes # {} THEN <<k - 1, 2>> ELSE mem[buf]
    <3>1. buf \in Buffers
      BY DEF Buffers
    <3>2. QED
      BY <1>1, <1>2, <1>3, <3>1, FilledIs
  <2>3. Old # <<k - 1, 2>>
    BY DEF Old
  <2>4. ASSUME mem'[buf] = Old, program.fifos[k].delay = 0
        PROVE  pos'[k].write <= pos'[k].read
    <3>1. writes = {} /\ mem[buf] = Old
      BY <2>2, <2>3, <2>4
    <3>2. pos'[k] = Accessed(k, n) /\ pos[k] \in [read : Int, write : Int]
      BY <1>1, <1>2 DEF BoundsInv
    <3>3. CASE reads # {}
      <4> DEFINE a == CHOOSE r \in reads : TRUE
      <4>1. a \in reads
        BY <3>3
      <4>2. a[2] \in Nat
        BY <1>2, <1>3, <4>1, NodeTakesCounts DEF TakenBy
      <4>3. Accessed(k, n) = getReadBuffer(program.fifos[k], pos[k], a[2])
        BY <3>3 DEF Accessed
      <4>4. Accessed(k, n) = [pos[k] EXCEPT !.read = @ + a[2]]
        BY <4>3 DEF getReadBuffer, OwnBuffers
      <4> HIDE DEF a
      <4>5. pos'[k].read = pos[k].read + a[2] /\ pos'[k].write = pos[k].write
        BY <3>2, <4>4
      <4>6. QED
        BY <2>1, <2>4, <3>1, <3>2, <4>2, <4>5
    <3>4. CASE reads = {}
      <4>1. Accessed(k, n) = pos[k]
        BY <3>1, <3>4 DEF Accessed
      <4>2. QED
        BY <2>1, <2>4, <3>1, <3>2, <4>1
    <3>5. QED
      BY <3>3, <3>4
  <2>5. mem'[buf] \in {Old, <<k - 1, 2>>}
    BY <2>1, <2>2
  <2>6. QED
    BY <1>1, <2>2, <2>3, <2>4, <2>5 DEF SamplesAt
<1>6. ASSUME NEW r \in TakenBy(n)
      PROVE  /\ mem[FIFO(r[1]).buf] \in Expected(r[1])
             /\ mem'[FIFO(r[1]).buf] \in Expected(r[1])
  <2> DEFINE k == r[1] + 1
             c == program.fifos[k]
  <2>1. r \in Reads(n) /\ ~Underflows(r)
    BY <1>3 DEF TakenBy, Skips
  <2>2. r[1] \in Nat /\ k \in FIFONames /\ k - 1 = r[1]
    BY <1>2, <1>3, <2>1, AccessesAreOfFIFOs
  <2>3. r[2] \in Nat /\ r[2] > 0
    BY <1>2, <1>3, <2>1, NodeTakesCounts DEF OwnBuffers
  <2>4. FIFO(r[1]) = c /\ ~c.array
    BY <2>2 DEF FIFO, OwnBuffers
  <2>5. pos[k] \in [read : Int, write : Int] /\ c.delay \in Nat
    BY <1>2, <2>2, ProgramsAssumption DEF BoundsInv, FIFONames
  <2>6. ~(pos[k].write <= pos[k].read)
    <3>1. ~(pos[k].write - pos[k].read - r[2] < 0)
      BY <2>1, <2>4 DEF Underflows, willUnderflowWith
    <3> HIDE DEF k
    <3>2. pos[k].write \in Int /\ pos[k].read \in Int
      BY <2>5
    <3>3. QED
      BY <2>3, <3>1, <3>2
  <2>7. /\ mem[c.buf] \in {Old, <<r[1], 2>>}
        /\ mem[c.buf] = Old => c.delay > 0
    <3>1. SamplesAt(k)
      BY <2>2 DEF SamplesInv
    <3>2. mem[c.buf] \in {Old, <<r[1], 2>>}
      BY <2>2, <3>1 DEF SamplesAt
    <3>3. mem[c.buf] = Old => c.delay # 0
      BY <2>6, <3>1 DEF SamplesAt
    <3>4. QED
      BY <2>5, <3>2, <3>3
  <2>8. /\ mem'[c.buf] \in {Old, <<r[1], 2>>}
        /\ mem'[c.buf] = Old => c.delay > 0
    BY <1>5, <2>2, <2>7
  <2>9. Expected(r[1]) = {<<r[1], 2>>} \cup (IF c.delay > 0 THEN {Old} ELSE {})
    BY <2>4 DEF Expected
  <2> HIDE DEF c
  <2>10. QED
    BY <2>4, <2>7, <2>8, <2>9
<1>7. ReadsIntact'
  <2>1. \A s \in Seen(n, mem') : s.got \in s.want
    BY <1>6 DEF Seen
  <2>2. QED
    BY <1>1, <2>1 DEF ReadsIntact
<1>8. QED
  BY <1>4, <1>5, <1>7 DEF SamplesInv

(* What StartScheduler and Start leave.                                     *)
LEMMA FreshSamples ==
  ASSUME NEW p \in Programs, NEW k \in DOMAIN p.fifos
  PROVE  p.fifos[k].delay = 0 =>
           Fresh(p.fifos[k]).write <= Fresh(p.fifos[k]).read
BY DEF Fresh

LEMMA AsyncInvInductive == AsyncInv /\ [Next]_vars => AsyncInv'
<1> SUFFICES ASSUME AsyncInv, [Next]_vars PROVE AsyncInv'
  OBVIOUS
<1>1. Inv /\ Inv' /\ program \in Programs
  BY ResumeInvInductive, BoundsInvInductive DEF AsyncInv, Inv, BoundsInv
<1>2. program' = program
  BY DEF Next, StartScheduler, SkipNode, PrepareNode, RunNode, PauseScheduler,
         errorHandling, vars
<1>3. program.async => OwnBuffers
  BY <1>1, BuffersAreOwn
<1>4. SUFFICES ASSUME program.async, OwnBuffers, SamplesInv PROVE SamplesInv'
  BY <1>1, <1>2, <1>3 DEF AsyncInv
<1>5. FIFONames' = FIFONames /\ Buffers' = Buffers
  BY <1>2 DEF FIFONames, Buffers
<1>6. ASSUME mem' = mem, pos' = pos, shown' = {} \/ shown' = shown
      PROVE  SamplesInv'
  <2>1. ReadsIntact'
    BY <1>4, <1>6 DEF SamplesInv, ReadsIntact
  <2>2. QED
    BY <1>2, <1>4, <1>5, <1>6, <2>1 DEF SamplesInv, SamplesAt
<1>7. CASE StartScheduler /\ cb_state.status # "paused"
  <2>1. /\ pos' = [k \in FIFONames |-> Fresh(program.fifos[k])]
        /\ mem' = [b \in Buffers |-> Old] /\ shown' = {}
    BY <1>7 DEF StartScheduler
  <2>2. ASSUME NEW k \in FIFONames PROVE SamplesAt(k)'
    <3>1. program.fifos[k].buf \in Buffers
      BY DEF Buffers
    <3>2. mem'[program.fifos[k].buf] = Old /\ pos'[k] = Fresh(program.fifos[k])
      BY <2>1, <3>1
    <3>3. QED
      BY <1>1, <1>2, <3>2, FreshSamples DEF SamplesAt, FIFONames
  <2>3. QED
    BY <1>5, <2>1, <2>2 DEF SamplesInv, ReadsIntact
<1>8. CASE RunNode
  BY <1>1, <1>4, <1>8, RunNodeKeepsSamples
<1>9. CASE \/ StartScheduler /\ cb_state.status = "paused"
           \/ SkipNode \/ PrepareNode \/ PauseScheduler \/ errorHandling
           \/ UNCHANGED vars
  <2>1. mem' = mem /\ pos' = pos /\ (shown' = {} \/ shown' = shown)
    BY <1>9 DEF StartScheduler, SkipNode, PrepareNode, PauseScheduler,
                errorHandling, vars, fifoVars
  <2>2. QED
    BY <1>6, <2>1
<1>10. QED
  BY <1>7, <1>8, <1>9 DEF Next

(* In the asynchronous mode, where every FIFO has a buffer for itself        *)
(* (description.py:925, 949), an execution of a node reads nothing but what   *)
(* the producer of the FIFO has written, or the delay it starts with: the    *)
(* test that precedes it (codeSwitch.cpp:60-81) never lets a node look at a   *)
(* FIFO that nobody has written since the function began, also after errors, *)
(* pauses and new calls.                                                    *)
THEOREM AsyncReadsIntact == Spec => [](program.async => ReadsIntact)
<1>1. Init => AsyncInv
  <2> SUFFICES ASSUME Init PROVE AsyncInv
    OBVIOUS
  <2>1. /\ program \in Programs /\ shown = {}
        /\ pos = [k \in FIFONames |-> Fresh(program.fifos[k])]
        /\ mem = [b \in Buffers |-> Old]
    BY DEF Init, Start, FIFONames, Buffers
  <2>2. ASSUME NEW k \in FIFONames PROVE SamplesAt(k)
    <3>1. program.fifos[k].buf \in Buffers
      BY DEF Buffers
    <3>2. mem[program.fifos[k].buf] = Old /\ pos[k] = Fresh(program.fifos[k])
      BY <2>1, <3>1
    <3>3. QED
      BY <2>1, <3>2, FreshSamples DEF SamplesAt, FIFONames
  <2>3. SamplesInv
    BY <2>1, <2>2 DEF SamplesInv, ReadsIntact
  <2>4. QED
    BY <2>3, ResumeInvInitially, BoundsInvInitially DEF AsyncInv, Inv
<1>2. AsyncInv /\ [Next]_vars => AsyncInv'
  BY AsyncInvInductive
<1>3. AsyncInv => (program.async => ReadsIntact)
  BY DEF AsyncInv, SamplesInv
<1>4. QED
  BY <1>1, <1>2, <1>3, PTL DEF Spec
-----------------------------------------------------------------------------
(* One FIFO with its memory: StreamFIFO, with the constants it assumes       *)
(* (FIFOAssumption).                                                        *)
CONSTANTS length, delay, Amounts, CopyOrders, MaxSamples
VARIABLES mBuffer, place, produced, consumed, got

Stream == INSTANCE StreamFIFO WITH pos <- place

USE DEF Stream!FIFOAssumption

(* The part of the invariant that does not depend on memcpy().              *)
PosInv ==
  /\ place \in [read : Int, write : Int]
  /\ produced \in Nat /\ consumed \in Nat
  /\ Stream!PositionsInside

(* The positions, the fields of their record and the counters change as     *)
(* numbers do, whichever step is taken.                                     *)
LEMMA PosInvInductive ==
  ASSUME Stream!FIFOAssumption
  PROVE  PosInv /\ [Stream!Next]_(Stream!vars) => PosInv'
<1> SUFFICES ASSUME PosInv, [Stream!Next]_(Stream!vars) PROVE PosInv'
  OBVIOUS
<1> USE DEF PosInv, Stream!PositionsInside, Stream!Class
<1>1. ASSUME NEW nb \in Amounts, Stream!Write(nb) PROVE PosInv'
  BY <1>1 DEF Stream!Write, Stream!getWriteBuffer, Stream!willOverflowWith
<1>2. ASSUME NEW nb \in Amounts, Stream!Read(nb) PROVE PosInv'
  <2>1. nb \in Nat /\ place.read \in Int /\ place.write \in Int
    BY <1>2
  <2>2. place.read + nb <= place.write
    BY <1>2, <2>1 DEF Stream!Read, Stream!willUnderflowWith
  <2>3. place' = [read |-> place.read + nb, write |-> place.write]
    BY <1>2, <2>1 DEF Stream!Read, Stream!getReadBuffer
  <2>4. produced' = produced /\ consumed' = consumed + nb
    BY <1>2 DEF Stream!Read
  <2>5. QED
    BY <2>1, <2>2, <2>3, <2>4
<1>3. CASE Stream!Reset
  BY <1>3 DEF Stream!Reset, Stream!Fresh
<1>4. CASE UNCHANGED Stream!vars
  BY <1>4 DEF Stream!vars
<1>5. QED
  BY <1>1, <1>2, <1>3, <1>4 DEF Stream!Next

LEMMA PosInvInitially == ASSUME Stream!FIFOAssumption PROVE Stream!Init => PosInv
  BY DEF Stream!Init, PosInv, Stream!PositionsInside, Stream!Fresh, Stream!Class

(* The positions of a FIFO never leave its buffer, and their distance is    *)
(* what has entered and not left: willOverflowWith() and willUnderflowWith() *)
(* are enough (GenericNodes.hpp:131-178).                                   *)
THEOREM PositionsStayInside ==
  ASSUME Stream!FIFOAssumption PROVE Stream!Spec => []Stream!PositionsInside
<1>1. PosInv => Stream!PositionsInside
  BY DEF PosInv
<1>2. QED
  BY PosInvInitially, PosInvInductive, <1>1, PTL DEF Stream!Spec
-----------------------------------------------------------------------------
(* A copy that goes up moves every sample that is left, overlap or not.     *)
LEMMA MovedUp ==
  ASSUME Stream!FIFOAssumption, NEW n \in Nat, NEW r \in Nat
  PROVE  \A i, j \in 0 .. length - 1 :
           /\ i < n /\ j = i + r => Stream!Moved("ascending", n, r)[i] = mBuffer[j]
           /\ i >= n => Stream!Moved("ascending", n, r)[i] = mBuffer[i]
<1> SUFFICES ASSUME NEW i \in 0 .. length - 1, NEW j \in 0 .. length - 1
             PROVE  /\ i < n /\ j = i + r => Stream!Moved("ascending", n, r)[i] = mBuffer[j]
                    /\ i >= n => Stream!Moved("ascending", n, r)[i] = mBuffer[i]
  OBVIOUS
<1>1. Stream!Moved("ascending", n, r)[i] =
        IF i >= n \/ r = 0 THEN mBuffer[i] ELSE mBuffer[i + r]
  BY DEF Stream!Moved
<1>2. CASE r = 0
  BY <1>1, <1>2
<1>3. CASE r # 0
  BY <1>1, <1>3
<1>4. QED
  BY <1>2, <1>3

OrderInv ==
  /\ PosInv
  /\ mBuffer \in [0 .. length - 1 -> Nat]
  /\ got \in Seq(Nat)
  /\ Stream!HoldsTheNext
  /\ Stream!ReadsInOrder

LEMMA OrderInvInitially == ASSUME Stream!FIFOAssumption PROVE Stream!Init => OrderInv
<1> SUFFICES ASSUME Stream!Init PROVE OrderInv
  OBVIOUS
<1>1. PosInv
  BY PosInvInitially
<1>2. got \in Seq(Nat) /\ Stream!ReadsInOrder
  BY DEF Stream!Init, Stream!ReadsInOrder
<1>3. mBuffer \in [0 .. length - 1 -> Nat] /\ Stream!HoldsTheNext
  BY DEF Stream!Init, Stream!HoldsTheNext, Stream!Fresh, Stream!Class, Stream!Silence
<1>4. QED
  BY <1>1, <1>2, <1>3 DEF OrderInv

LEMMA WriteKeepsOrder ==
  ASSUME Stream!FIFOAssumption, OrderInv, CopyOrders = {"ascending"},
         NEW nb \in Amounts, Stream!Write(nb)
  PROVE  OrderInv'
<1> SUFFICES ASSUME NEW n, n = Stream!nbSamplesInFIFO(Stream!Class, place) PROVE OrderInv'
  OBVIOUS
<1>n. /\ nb \in Nat /\ nb > 0
      /\ n \in Nat /\ n = produced - consumed
      /\ place.read \in Nat /\ place.write \in Nat
      /\ place.write = n + place.read /\ place.write <= length
  BY DEF OrderInv, PosInv, Stream!PositionsInside, Stream!nbSamplesInFIFO
<1>1. PosInv'
  BY PosInvInductive DEF OrderInv, Stream!Next
<1>2. got' = got /\ consumed' = consumed /\ produced' = produced + nb
  BY DEF Stream!Write
<1>3. /\ DOMAIN mBuffer' = 0 .. length - 1
      /\ \A i \in 0 .. length - 1 :
           mBuffer'[i] = IF i \in n .. n + nb - 1 THEN produced + 1 + (i - n)
                         ELSE Stream!Moved("ascending", n, place.read)[i]
  BY DEF Stream!Write
<1>m. \A i, j \in 0 .. length - 1 :
        /\ i < n /\ j = i + place.read =>
             Stream!Moved("ascending", n, place.read)[i] = mBuffer[j]
        /\ i >= n => Stream!Moved("ascending", n, place.read)[i] = mBuffer[i]
  BY <1>n, MovedUp
<1>4. place'.read = 0 /\ place'.write = n + nb
  <2>1. place' = Stream!getWriteBuffer(Stream!Class, place, nb)
    BY DEF Stream!Write
  <2>2. QED
    BY <2>1 DEF Stream!getWriteBuffer, Stream!Class, Stream!nbSamplesInFIFO
<1>5. mBuffer' \in [0 .. length - 1 -> Nat]
  <2>1. ASSUME NEW i \in 0 .. length - 1 PROVE mBuffer'[i] \in Nat
    <3>1. CASE i \in n .. n + nb - 1
      BY <1>3, <1>n, <3>1 DEF OrderInv, PosInv
    <3>2. CASE i < n
      <4>1. PICK j \in 0 .. length - 1 : j = i + place.read
        BY <1>n, <3>2
      <4>2. mBuffer'[i] = mBuffer[j]
        BY <1>m, <1>3, <1>n, <3>2, <4>1
      <4>3. QED
        BY <4>2 DEF OrderInv
    <3>3. CASE i >= n + nb
      <4>1. Stream!Moved("ascending", n, place.read)[i] = mBuffer[i]
        BY <1>m, <1>n, <3>3
      <4>2. mBuffer'[i] = mBuffer[i]
        BY <1>3, <1>n, <3>3, <4>1
      <4>3. QED
        BY <4>2 DEF OrderInv
    <3>4. QED
      BY <3>1, <3>2, <3>3, <1>n
  <2>2. mBuffer' = [i \in 0 .. length - 1 |-> mBuffer'[i]]
    BY DEF Stream!Write
  <2>3. QED
    BY <2>1, <2>2
<1>6. Stream!HoldsTheNext'
  <2>1. ASSUME NEW i \in 0 .. length - 1, i < n + nb
        PROVE  mBuffer'[i] = consumed + 1 + i
    <3>1. CASE i < n
      <4>1. PICK j \in 0 .. length - 1 : j = i + place.read
        BY <1>n, <3>1
      <4>2. j \in place.read .. place.write - 1 /\ j - place.read = i
        BY <4>1, <1>n, <3>1
      <4>3. mBuffer[j] = consumed + 1 + (j - place.read)
        BY <4>2 DEF OrderInv, Stream!HoldsTheNext
      <4>4. mBuffer'[i] = mBuffer[j]
        BY <1>m, <1>3, <1>n, <3>1, <4>1
      <4>5. QED
        BY <4>2, <4>3, <4>4
    <3>2. CASE i >= n
      <4>1. mBuffer'[i] = produced + 1 + (i - n)
        BY <1>3, <1>n, <3>2, <2>1
      <4>2. QED
        BY <4>1, <1>n DEF OrderInv, PosInv
    <3>3. QED
      BY <3>1, <3>2, <1>n
  <2>2. QED
    BY <2>1, <1>2, <1>4, <1>n DEF Stream!HoldsTheNext, OrderInv, PosInv
<1>7. Stream!ReadsInOrder' /\ got' \in Seq(Nat)
  BY <1>2 DEF OrderInv, Stream!ReadsInOrder
<1>8. QED
  BY <1>1, <1>5, <1>6, <1>7 DEF OrderInv

LEMMA ReadKeepsOrder ==
  ASSUME Stream!FIFOAssumption, OrderInv, NEW nb \in Amounts, Stream!Read(nb)
  PROVE  OrderInv'
<1>n. /\ nb \in Nat /\ nb > 0
      /\ place.read \in Nat /\ place.write \in Nat
      /\ place.write <= length
      /\ place.read + nb <= place.write
      /\ consumed \in Nat
  BY DEF OrderInv, PosInv, Stream!PositionsInside, Stream!Read,
         Stream!willUnderflowWith, Stream!Class
<1>1. PosInv'
  BY PosInvInductive DEF OrderInv, Stream!Next
<1>2. mBuffer' = mBuffer /\ consumed' = consumed + nb
  BY DEF Stream!Read
<1>3. place'.read = place.read + nb /\ place'.write = place.write
  BY DEF Stream!Read, Stream!getReadBuffer, Stream!Class, OrderInv, PosInv
<1>4. ASSUME NEW i \in 1 .. nb
      PROVE  mBuffer[place.read + i - 1] = consumed + i
  <2>1. /\ place.read + i - 1 \in 0 .. length - 1
        /\ place.read + i - 1 \in place.read .. place.write - 1
    BY <1>n
  <2>2. mBuffer[place.read + i - 1] = consumed + 1 + ((place.read + i - 1) - place.read)
    BY <2>1 DEF OrderInv, Stream!HoldsTheNext
  <2>3. QED
    BY <2>2, <1>n
<1>5. got' = [i \in 1 .. nb |-> mBuffer[place.read + i - 1]]
  BY DEF Stream!Read
<1>6. /\ \A i \in 1 .. nb : mBuffer[place.read + i - 1] \in Nat
      /\ got' \in Seq(Nat) /\ Len(got') = nb /\ DOMAIN got' = 1 .. nb
  <2>1. ASSUME NEW i \in 1 .. nb
        PROVE  mBuffer[place.read + i - 1] \in Nat
    <3>1. mBuffer[place.read + i - 1] = consumed + i
      BY <1>4
    <3>2. consumed + i \in Nat
      BY <1>n
    <3>3. QED
      BY <3>1, <3>2
  <2>2. got' \in [1 .. nb -> Nat]
    BY <1>5, <2>1
  <2>3. QED
    BY <1>n, <2>1, <2>2, SeqDef, LenProperties
<1>7. Stream!ReadsInOrder'
  <2>1. ASSUME NEW i \in 1 .. nb PROVE got'[i] = consumed' - nb + i
    BY <2>1, <1>2, <1>4, <1>5, <1>n
  <2>2. QED
    BY <2>1, <1>6 DEF Stream!ReadsInOrder
<1>8. Stream!HoldsTheNext'
  <2>1. ASSUME NEW i \in 0 .. length - 1, i \in place.read + nb .. place.write - 1
        PROVE  mBuffer[i] = consumed + nb + 1 + (i - (place.read + nb))
    <3>1. i \in place.read .. place.write - 1
      BY <2>1, <1>n
    <3>2. Stream!HoldsTheNext
      BY DEF OrderInv
    <3>3. mBuffer[i] = consumed + 1 + (i - place.read)
      BY <3>1, <3>2 DEF Stream!HoldsTheNext
    <3>4. QED
      BY <3>3, <1>n
  <2>2. QED
    BY <2>1, <1>2, <1>3, <1>n DEF Stream!HoldsTheNext
<1>9. QED
  BY <1>1, <1>2, <1>6, <1>7, <1>8 DEF OrderInv

LEMMA ResetKeepsOrder ==
  ASSUME Stream!FIFOAssumption, OrderInv, Stream!Reset PROVE OrderInv'
<1>1. PosInv'
  BY PosInvInductive DEF OrderInv, Stream!Next
<1>2. got' \in Seq(Nat) /\ Stream!ReadsInOrder'
  BY DEF Stream!Reset, Stream!ReadsInOrder
<1>3. mBuffer' \in [0 .. length - 1 -> Nat] /\ Stream!HoldsTheNext'
  BY DEF Stream!Reset, Stream!HoldsTheNext, Stream!Fresh, Stream!Class, Stream!Silence
<1>4. QED
  BY <1>1, <1>2, <1>3 DEF OrderInv

LEMMA OrderInvInductive ==
  ASSUME Stream!FIFOAssumption, CopyOrders = {"ascending"}
  PROVE  OrderInv /\ [Stream!Next]_(Stream!vars) => OrderInv'
<1> SUFFICES ASSUME OrderInv, [Stream!Next]_(Stream!vars) PROVE OrderInv'
  OBVIOUS
<1>1. CASE UNCHANGED Stream!vars
  BY <1>1 DEF Stream!vars, OrderInv, PosInv, Stream!PositionsInside,
              Stream!HoldsTheNext, Stream!ReadsInOrder
<1>2. QED
  BY <1>1, WriteKeepsOrder, ReadKeepsOrder, ResetKeepsOrder DEF Stream!Next

(* When memcpy() goes up, the samples between the positions are always the   *)
(* next ones, in order, whatever amounts are mixed and although every write  *)
(* moves them (GenericNodes.hpp:149-165).                                   *)
THEOREM SamplesStayInOrder ==
  ASSUME Stream!FIFOAssumption, CopyOrders = {"ascending"}
  PROVE  Stream!Spec => []Stream!HoldsTheNext
<1>1. OrderInv => Stream!HoldsTheNext
  BY DEF OrderInv
<1>2. OrderInv /\ [Stream!Next]_(Stream!vars) => OrderInv'
  BY OrderInvInductive
<1>3. QED
  BY OrderInvInitially, <1>1, <1>2, PTL DEF Stream!Spec

(* When memcpy() goes up, each read shows the samples that come next, none   *)
(* lost, repeated or out of order (GenericNodes.hpp:172-178).               *)
THEOREM EveryReadInOrder ==
  ASSUME Stream!FIFOAssumption, CopyOrders = {"ascending"}
  PROVE  Stream!Spec => []Stream!ReadsInOrder
<1>1. OrderInv => Stream!ReadsInOrder
  BY DEF OrderInv
<1>2. OrderInv /\ [Stream!Next]_(Stream!vars) => OrderInv'
  BY OrderInvInductive
<1>3. QED
  BY OrderInvInitially, <1>1, <1>2, PTL DEF Stream!Spec
=============================================================================

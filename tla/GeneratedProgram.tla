--------------------------- MODULE GeneratedProgram ---------------------------
(***************************************************************************)
(* The scheduler function that the templates codeSwitch.cpp and commonc.cpp  *)
(* write, run on the FIFOs, nodes and schedules of any set of programs: the   *)
(* loop over schedule[], the tests of the asynchronous mode, the skipping of  *)
(* nodes, the state machine of the callback mode, errors, and new calls of    *)
(* the function.  One step is one test or one execution of a node.           *)
(*                                                                         *)
(* nbSchedule is left out, and config.debug is the choice to return after     *)
(* any iteration.                                                            *)
(***************************************************************************)
EXTENDS FIFOClasses, Sequences

CONSTANT Programs          (* records as CommittedPrograms defines them      *)

Accesses(s) == { s[k] : k \in DOMAIN s }

(* What the templates need: a schedule of nodes, tests and executions in the *)
(* same cases of the two switches, and counts of samples of its FIFOs.       *)
ASSUME ProgramsAssumption ==
  \A p \in Programs :
    /\ p.async \in BOOLEAN
    /\ \A k \in DOMAIN p.fifos :
         /\ k \in Nat /\ p.fifos[k].length \in Nat
         /\ p.fifos[k].delay \in 0 .. p.fifos[k].length
    /\ p.schedule \in Seq(Nat) /\ p.schedule # <<>>
    /\ \A i \in DOMAIN p.schedule :
         p.switch[p.schedule[i] + 1] \in DOMAIN p.nodes
    /\ p.tests = p.switch
    /\ \A n \in DOMAIN p.nodes :
         /\ p.nodes[n].cycle \in Seq(Nat) /\ p.nodes[n].cycle # <<>>
         /\ \A a \in Accesses(p.nodes[n].reads) \cup Accesses(p.nodes[n].writes) :
              a[1] \in Nat /\ a[1] + 1 \in DOMAIN p.fifos /\ a[2] \in Nat

(* In the asynchronous mode the generator makes no FIFO an array and lets    *)
(* none share a buffer (description.py:925, 949); an input reads something.  *)
ASSUME AsyncAssumption ==
  \A p \in Programs : p.async =>
    /\ \A k \in DOMAIN p.fifos : ~p.fifos[k].array
    /\ \A j, k \in DOMAIN p.fifos : p.fifos[j].buf = p.fifos[k].buf => j = k
    /\ \A n \in DOMAIN p.nodes : \A r \in Accesses(p.nodes[n].reads) : r[2] > 0

VARIABLES
  program,   (* the record of the program that runs                        *)
  pc,        (* outside | prepare | run                                     *)
  id,        (* index in schedule[], from 1                                 *)
  pos,       (* the positions of every FIFO                                 *)
  period,    (* how far each node is in the cycle of its amounts            *)
  odd,       (* the parity of the count of iterations in examples 10, 11    *)
  mem,       (* what each buffer holds: who wrote it, with a parity         *)
  given,     (* parity of the writes to a FIFO that is an array             *)
  taken,     (* parity of the reads                                         *)
  shown,     (* what the last execution found, and what it should have      *)
  cb_state,  (* the callback mode                                           *)
  resuming,  (* for the properties: no | first | second call of the node    *)
             (* that has paused                                             *)
  told,      (* what the last node called was told, and what it is          *)
  waiting    (* nodes that have not run since all the others have           *)

fifoVars == <<pos, period, mem, given, taken>>
vars == <<program, pc, id, fifoVars, odd, shown, cb_state, resuming, told,
          waiting>>

FIFONames == DOMAIN program.fifos
FIFO(k) == program.fifos[k + 1]
Nodes == DOMAIN program.nodes
Current == program.switch[program.schedule[id] + 1]
Tested == program.tests[program.schedule[id] + 1]
Reads(n) == Accesses(program.nodes[n].reads)

Writes(n) ==
  { <<w[1], w[2] * program.nodes[n].cycle[period[n]]>> :
      w \in Accesses(program.nodes[n].writes) }

Buffers == { program.fifos[k].buf : k \in FIFONames }

(* The copies that share memory with the input of a Duplicate or with        *)
(* another copy are not among its arguments.                                *)
Duplicates(p) == { n \in DOMAIN p.nodes : p.nodes[n].kind = "duplicate" }
InputOf(p, d) == p.nodes[d].reads[1][1]
Copies(p, d) == { w[1] : w \in Accesses(p.nodes[d].writes) }
WrittenFIFOs(p) == UNION { Copies(p, n) : n \in DOMAIN p.nodes }
SilentCopies(p, d) ==
  { f \in 0 .. Len(p.fifos) - 1 \ WrittenFIFOs(p) :
      \E g \in Copies(p, d) \cup {InputOf(p, d)} :
        p.fifos[g + 1].buf = p.fifos[f + 1].buf }

(* Where the samples of a FIFO come from: across a Duplicate between arrays  *)
(* they keep their origin.                                                  *)
Origin(f) ==
  LET from == { d \in Duplicates(program) :
                  /\ f \in Copies(program, d) \cup SilentCopies(program, d)
                  /\ FIFO(InputOf(program, d)).array /\ FIFO(f).array }
  IN IF from = {} THEN f ELSE InputOf(program, CHOOSE d \in from : TRUE)

Old == <<-1, 0>>
Token(f) == <<f, IF FIFO(f).array THEN given[f] ELSE 2>>
Expected(f) ==
  IF FIFO(f).array THEN { <<Origin(f), taken[f]>> }
  ELSE { <<f, 2>> } \cup (IF FIFO(f).delay > 0 THEN {Old} ELSE {})
-----------------------------------------------------------------------------
Underflows(r) == willUnderflowWith(FIFO(r[1]), pos[r[1] + 1], r[2])
Overflows(w) == willOverflowWith(FIFO(w[1]), pos[w[1] + 1], w[2])

(* Mutant: nobody counts the samples.                                       *)
SkipsIfOverflow(n) == \E w \in Writes(n) : Overflows(w)

(* prepareForRunning() of the nodes, and the test that is generated for a    *)
(* function: no execution without all the samples and all the room.          *)
Skips(n) ==
  \/ \E w \in Writes(n) : Overflows(w)
  \/ program.nodes[n].kind # "whatever" /\ \E r \in Reads(n) : Underflows(r)

TakenBy(n) ==
  { r \in Reads(n) : program.nodes[n].kind # "whatever" \/ ~Underflows(r) }

GivenBy(n) ==
  { w \in Writes(n) : /\ program.nodes[n].kind = "odd" => odd
                      /\ program.nodes[n].kind = "even" => ~odd }

Accessed(k, n) ==
  LET reads == { r \in TakenBy(n) : r[1] = k - 1 }
      writes == { w \in GivenBy(n) : w[1] = k - 1 }
      nb(accesses) == (CHOOSE a \in accesses : TRUE)[2]
  IN CASE reads # {} -> getReadBuffer(program.fifos[k], pos[k], nb(reads))
       [] reads = {} /\ writes # {} ->
            getWriteBuffer(program.fifos[k], pos[k], nb(writes))
       [] OTHER -> pos[k]

(* A Duplicate copies what its input holds.                                 *)
Filled(buf, n) ==
  LET here == { w[1] : w \in { x \in GivenBy(n) : FIFO(x[1]).buf = buf } }
      f == CHOOSE g \in here : \A h \in here : h <= g
  IN IF here = {} THEN mem[buf]
     ELSE IF Origin(f) # f THEN mem[FIFO(Origin(f)).buf]
     ELSE Token(f)

Flip(parities, accesses) ==
  [f \in DOMAIN parities |->
     IF \E a \in accesses : a[1] = f THEN 1 - parities[f] ELSE parities[f]]

(* The inputs of a node must last while it writes; a Duplicate reads first.  *)
Seen(n, after) ==
  { [want |-> Expected(r[1]),
     got |-> IF program.nodes[n].kind = "duplicate" THEN mem[FIFO(r[1]).buf]
             ELSE after[FIFO(r[1]).buf]] : r \in TakenBy(n) }
-----------------------------------------------------------------------------
Start(p) ==
  /\ pos = [k \in DOMAIN p.fifos |-> Fresh(p.fifos[k])]
  /\ period = [n \in DOMAIN p.nodes |-> 1]
  /\ mem = [b \in { p.fifos[k].buf : k \in DOMAIN p.fifos } |-> Old]
  /\ given = [f \in 0 .. Len(p.fifos) - 1 |-> 0]
  /\ taken = [f \in 0 .. Len(p.fifos) - 1 |-> 0]

Init ==
  /\ program \in Programs
  /\ pc = "outside" /\ id = 1 /\ odd = FALSE
  /\ Start(program)
  /\ shown = {}
  /\ cb_state = [status |-> "not started", id |-> 1, running |-> "new"]
  /\ resuming = "no" /\ told = [status |-> "new", entry |-> "no"]
  /\ waiting = DOMAIN program.nodes

Enter(i) == id' = i /\ pc' = IF program.async THEN "prepare" ELSE "run"

(* The scheduler function is called.  Without heap allocation it builds its  *)
(* FIFOs and nodes anew; with it the FIFOs are reset first, unless the       *)
(* function was paused, and the nodes live on.                              *)
StartScheduler ==
  /\ pc = "outside"
  /\ shown' = {}
  /\ IF cb_state.status = "paused"
     THEN /\ Enter(cb_state.id)
          /\ cb_state' = [cb_state EXCEPT !.status = "running"]
          /\ resuming' = "first"
          /\ UNCHANGED fifoVars
     ELSE /\ Enter(1)
          /\ pos' = [k \in FIFONames |-> Fresh(program.fifos[k])]
          /\ period' = IF program.heap THEN period ELSE [n \in Nodes |-> 1]
          /\ mem' = [b \in Buffers |-> Old]
          /\ given' = [f \in DOMAIN given |-> 0]
          /\ taken' = [f \in DOMAIN taken |-> 0]
          /\ UNCHANGED <<cb_state, resuming>>
  /\ UNCHANGED <<program, odd, told, waiting>>

(* setExecutionStatus().                                                    *)
Tell == told' = [status |-> cb_state.running, entry |-> resuming]

(* The next index, or the next iteration; with config.debug the function     *)
(* may return instead.                                                       *)
NextNode ==
  IF id < Len(program.schedule) THEN Enter(id + 1) /\ odd' = odd
  ELSE /\ odd' = IF \E n \in Nodes : program.nodes[n].kind \in {"odd", "even"}
                 THEN ~odd ELSE odd
       /\ \/ Enter(1)
          \/ id' = 1 /\ pc' = "outside"

(* Mutant: a node that cannot run ends the iteration.                       *)
SkipNodeEndsIteration ==
  /\ pc = "prepare" /\ Skips(Tested)
  /\ Tell /\ Enter(1) /\ odd' = odd
  /\ resuming' = "no" /\ shown' = {}
  /\ UNCHANGED <<program, fifoVars, cb_state, waiting>>

(* CG_SKIP_EXECUTION: the node is passed over.  cb_state.running stays.      *)
SkipNode ==
  /\ pc = "prepare" /\ Skips(Tested)
  /\ Tell /\ NextNode
  /\ resuming' = "no" /\ shown' = {}
  /\ UNCHANGED <<program, fifoVars, cb_state, waiting>>

PrepareNode ==
  /\ pc = "prepare" /\ ~Skips(Tested)
  /\ Tell
  /\ pc' = "run"
  /\ cb_state' = [cb_state EXCEPT !.running = "new"]
  /\ resuming' = IF resuming = "first" THEN "second" ELSE "no"
  /\ shown' = {}
  /\ UNCHANGED <<program, id, fifoVars, odd, waiting>>

RunNode ==
  LET n == Current IN
  /\ pc = "run"
  /\ Tell /\ NextNode
  /\ cb_state' = [cb_state EXCEPT !.running = "new"]
  /\ resuming' = "no"
  /\ pos' = [k \in FIFONames |-> Accessed(k, n)]
  /\ mem' = [b \in Buffers |-> Filled(b, n)]
  /\ shown' = Seen(n, mem')
  /\ given' = Flip(given, GivenBy(n))
  /\ taken' = Flip(taken, TakenBy(n))
  /\ period' = [period EXCEPT ![n] = (@ % Len(program.nodes[n].cycle)) + 1]
  /\ waiting' = (IF waiting = {} THEN Nodes ELSE waiting) \ {n}
  /\ UNCHANGED program

(* Mutant: the mark for the next call is not set.                           *)
SavedStateUnmarked == [status |-> "paused", id |-> id, running |-> "new"]

SavedState == [status |-> "paused", id |-> id, running |-> "resumed"]

(* A node returns CG_PAUSED_SCHEDULER, from run() or prepareForRunning(),    *)
(* before it touches its FIFOs, as the Sink of the example does.            *)
PauseScheduler ==
  /\ pc \in {"prepare", "run"} /\ Current \in program.pausing
  /\ pc = "prepare" => ~Skips(Tested)
  /\ Tell
  /\ cb_state' = SavedState
  /\ pc' = "outside"
  /\ resuming' = "no" /\ shown' = {}
  /\ UNCHANGED <<program, id, fifoVars, odd, waiting>>

(* Any other error leaves the function.  What the node has done to its FIFOs *)
(* is undone when the function is called again.                             *)
errorHandling ==
  /\ pc \in {"prepare", "run"}
  /\ Tell
  /\ cb_state' = [cb_state EXCEPT !.running = "new"]
  /\ pc' = "outside"
  /\ resuming' = "no" /\ shown' = {}
  /\ UNCHANGED <<program, id, fifoVars, odd, waiting>>

Next == \/ StartScheduler \/ SkipNode \/ PrepareNode \/ RunNode
        \/ PauseScheduler \/ errorHandling

Spec == Init /\ [][Next]_vars

(* The thread goes on; nothing forces an error or a pause.                  *)
FairSpec ==
  Spec /\ WF_vars(StartScheduler \/ SkipNode \/ PrepareNode \/ RunNode)
-----------------------------------------------------------------------------
(* No FIFO of a generated program is read past what was written or written  *)
(* past its length, by the schedule alone in the synchronous mode and by the *)
(* tests of the nodes in the asynchronous one (GenericNodes.hpp:149-178,     *)
(* which test nothing).                                                      *)
FIFOBounds ==
  \A k \in FIFONames :
    ~program.fifos[k].array =>
      0 <= pos[k].read /\ pos[k].read <= pos[k].write
                       /\ pos[k].write <= program.fifos[k].length

(* Every read finds what the producer of the FIFO has written last: buffers  *)
(* that several FIFOs share, and copies that a Duplicate leaves out, are     *)
(* never overwritten too early (the buffer arguments of the constructors).  *)
ReadsIntact == \A s \in shown : s.got \in s.want

(* The node that has paused is told of it when it is called again, and no    *)
(* other execution of any node is taken for a resumed one, although the      *)
(* mark is a single variable of the loop (codeSwitch.cpp:97-105, 148-156).   *)
ResumedIsTold ==
  /\ told.entry = "first" => told.status = "resumed"
  /\ told.entry = "no" => told.status = "new"

(* While no error and no pause ends the function, every node runs again and   *)
(* again: in the asynchronous mode no skipped node starves for good, whatever *)
(* the lengths of the FIFOs and the order of the schedule                    *)
(* (codeSwitch.cpp:76-81).                                                   *)
EveryNodeRuns == <>[](pc # "outside") => []<>(waiting = {})
=============================================================================

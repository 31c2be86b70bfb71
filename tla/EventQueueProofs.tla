-------------------------- MODULE EventQueueProofs --------------------------
(***************************************************************************)
(* Proofs about module EventQueue: what TLC checks of the rings for two     *)
(* priorities and two slots holds for every number of threads, priorities,  *)
(* slots and kinds of events; what is at rest while the controlling thread  *)
(* clears and resumes, that the queue stays empty, that no park is silent,  *)
(* that a report is the error of one setError(), and that the queue         *)
(* implements the abstract priority queue.                                  *)
(***************************************************************************)
EXTENDS EventQueue, SequenceTheorems, TLAPS

(* A thread that is about to store its message holds one.                   *)
PushHolds == \A t \in Threads : pushPc[t] = "lock" => pushed[t] \in Message

TypeInv == TypeOK /\ PushHolds

(* The level of a message is one of the levels of the queue: push() clamps. *)
LEMMA LevelOfType == ASSUME NEW m \in Message PROVE LevelOf(m) \in Levels
  BY ConstantsAssumption DEF Message, LevelOf, Levels

(* Both index computations stay inside the ring.                            *)
LEMMA WrappedType == ASSUME NEW i \in Slots PROVE Wrapped(i + 1) \in Slots
  BY ConstantsAssumption DEF Wrapped, Slots

(* Also after n increments.                                                 *)
LEMMA AdvancedType ==
  ASSUME NEW i \in Slots, NEW n \in 0 .. QueueMax
  PROVE  Advanced(i, n) \in Slots
  BY ConstantsAssumption DEF Advanced, Slots

(* The queue starts with every variable in its type.                        *)
LEMMA TypeInit == Init => TypeInv
  <1> SUFFICES ASSUME Init PROVE TypeInv
    OBVIOUS
  <1> USE ConstantsAssumption
  <1>1. RingType
    BY DEF Init, RingType, Slots
  <1>2. FlagType
    BY DEF Init, FlagType
  <1>3. ErrorType
    BY DEF Init, ErrorType, CleanError
  <1>4. PushType /\ PushHolds
    BY DEF Init, PushType, PushHolds
  <1>5. ExecType
    BY DEF Init, ExecType, NoReport, ErrorRecord
  <1>6. CtlType
    BY DEF Init, CtlType
  <1> QED
    BY <1>1, <1>2, <1>3, <1>4, <1>5, <1>6 DEF TypeInv, TypeOK

(* The groups of variables, and the parts of the type invariant.           *)
USE DEF ringVars, flagVars, errVars, pushVars, execVars, ctlVars, notExec,
        notCtl, TypeInv, TypeOK

(* push() and setError() preserve the types.                                *)
LEMMA TypePush ==
  ASSUME TypeInv, NEW t \in Threads,
         \/ setError(t) \/ push(t)
         \/ \E k \in Kinds : PushCheck(t, k)
  PROVE  TypeInv'
  <1> USE ConstantsAssumption
  <1>1. CASE StoreErrorField(t)
    <2>1. errArg[t].status \in {"CG_EVENT_QUEUE_FULL", "nodeStatus"}
      BY DEF ErrorType, OverflowError, HandlerError
    <2>2. errArg[t].node \in {"none", "src", "dst"}
      BY DEF ErrorType, OverflowError, HandlerError
    <2>3. /\ errPc' \in [Threads -> {"none", "status", "node", "pending",
                                     "pause", "notify"}]
          /\ errArg' = errArg
      BY <1>1 DEF StoreErrorField, ErrorType
    <2>4. error' \in [pending : BOOLEAN, status : {"CG_SUCCESS",
                        "CG_EVENT_QUEUE_FULL", "nodeStatus"},
                      node : {"none", "src", "dst"}]
      BY <1>1, <2>1, <2>2 DEF StoreErrorField, ErrorType
    <2>5. ErrorType'
      BY <2>3, <2>4 DEF ErrorType
    <2> QED
      BY <1>1, <2>5 DEF StoreErrorField, RingType, FlagType, PushType,
         PushHolds, ExecType, CtlType
  <1>2. CASE ErrorPause(t)
    BY <1>2 DEF ErrorPause, RingType, FlagType, PushType, PushHolds, ExecType,
       CtlType, ErrorType
  <1>3. CASE ErrorNotify(t)
    BY <1>3 DEF ErrorNotify, RingType, FlagType, PushType, PushHolds, ExecType,
       CtlType, ErrorType
  <1>4. CASE PushStore(t)
    <2>1. pushed[t] \in Message /\ LevelOf(pushed[t]) \in Levels
      BY <1>4, LevelOfType DEF PushStore, PushHolds
    <2>2. Wrapped(write[LevelOf(pushed[t])] + 1) \in Slots
      BY <2>1, WrappedType DEF RingType
    <2>3. RingType'
      BY <1>4, <2>1, <2>2 DEF PushStore, Enqueue, RingType
    <2> QED
      BY <1>4, <2>3 DEF PushStore, FlagType, PushType, PushHolds, ExecType,
         CtlType, ErrorType
  <1>5. CASE PushFullError(t)
    BY <1>5 DEF PushFullError, StartError, RingType, FlagType, PushType,
       PushHolds, ExecType, CtlType, ErrorType
  <1>6. CASE PushUnlock(t)
    BY <1>6 DEF PushUnlock, RingType, FlagType, PushType, PushHolds, ExecType,
       CtlType, ErrorType
  <1>7. CASE PushFullDrop(t)
    BY <1>7 DEF PushFullDrop, RingType, FlagType, PushType, PushHolds,
       ExecType, CtlType, ErrorType
  <1>8. CASE PushNotify(t)
    BY <1>8 DEF PushNotify, RingType, FlagType, PushType, PushHolds, ExecType,
       CtlType, ErrorType
  <1>9. CASE \E k \in Kinds : PushCheck(t, k)
    <2>1. PICK k \in Kinds : PushCheck(t, k)
      BY <1>9
    <2>2. nbPush[t] + 1 \in 1 .. MaxPush + MaxHandlerPush
      BY <2>1 DEF PushCheck, MayPush, PushBound, PushType
    <2>3. [src |-> t, seq |-> nbPush[t] + 1, kind |-> k] \in Message
      BY <2>2 DEF Message
    <2>4. nbPush' \in [Threads -> 0 .. MaxPush + MaxHandlerPush]
      BY <2>1, <2>2 DEF PushCheck, PushType
    <2>5. /\ pushPc' \in [Threads -> {"idle", "lock", "unlock", "notify"}]
          /\ pushed' \in [Threads -> Message \cup {NoMessage}]
      BY <2>1, <2>3 DEF PushCheck, PushType
    <2>6. PushHolds'
      BY <2>1, <2>3 DEF PushCheck, PushType, PushHolds
    <2> QED
      BY <2>1, <2>4, <2>5, <2>6 DEF PushCheck, RingType, FlagType, PushType,
         ExecType, CtlType, ErrorType
  <1> QED
    BY <1>1, <1>2, <1>3, <1>4, <1>5, <1>6, <1>7, <1>8, <1>9 DEF setError, push

(* execute() preserves the types.                                           *)
LEMMA TypeExecute ==
  ASSUME TypeInv, execute
  PROVE  TypeInv'
  <1> USE ConstantsAssumption
  <1>1. CASE ExecOuter
    BY <1>1 DEF ExecOuter, LeaveExec, RingType, FlagType, PushType,
       PushHolds, ExecType, CtlType, ErrorType
  <1>2. CASE ExecFlags
    BY <1>2 DEF ExecFlags, LeaveExec, RingType, FlagType, PushType,
       PushHolds, ExecType, CtlType, ErrorType
  <1>3. CASE ExecIsEmpty
    BY <1>3 DEF ExecIsEmpty, RingType, FlagType, PushType,
       PushHolds, ExecType, CtlType, ErrorType
  <1>4. CASE ExecExpired
    BY <1>4 DEF ExecExpired, RingType, FlagType, PushType,
       PushHolds, ExecType, CtlType, ErrorType
  <1>5. CASE ExecDispatch
    BY <1>5 DEF ExecDispatch, RingType, FlagType, PushType,
       PushHolds, ExecType, CtlType, ErrorType
  <1>6. CASE ExecSucceeds
    BY <1>6 DEF ExecSucceeds, HandlerReturns, RingType, FlagType, PushType,
       PushHolds, ExecType, CtlType, ErrorType
  <1>7. CASE ExecTail
    BY <1>7 DEF ExecTail, LeaveExec, RingType, FlagType, PushType,
       PushHolds, ExecType, CtlType, ErrorType
  <1>8. CASE ExecWait
    <2>1. FlagType'
      BY <1>8 DEF ExecWait, FlagType
    <2> QED
      BY <1>8, <2>1 DEF ExecWait, RingType, PushType, PushHolds, ExecType,
         CtlType, ErrorType
  <1>9. CASE ExecWaitZephyr
    BY <1>9 DEF ExecWaitZephyr, RingType, FlagType, PushType,
       PushHolds, ExecType, CtlType, ErrorType
  <1>10. CASE ExecClearZephyr
    <2>1. FlagType'
      BY <1>10 DEF ExecClearZephyr, FlagType
    <2> QED
      BY <1>10, <2>1 DEF ExecClearZephyr, RingType, PushType, PushHolds, ExecType,
         CtlType, ErrorType
  <1>11. CASE ExecPop
    <2>1. CASE isEmpty /\ execPc' = "flags" /\ UNCHANGED <<ringVars, msg>>
      BY <1>11, <2>1 DEF ExecPop, RingType, FlagType, PushType, PushHolds,
         ExecType, CtlType, ErrorType
    <2>2. ASSUME NEW p \in Levels, TopLevel(p), msg' = queue[p][read[p]],
                 Dequeue(p), execPc' = "dispatch"
          PROVE  TypeInv'
      <3>1. Wrapped(read[p] + 1) \in Slots
        BY WrappedType DEF RingType
      <3>2. queue' \in [Levels -> [Slots -> Message \cup {NoMessage}]]
        BY <2>2 DEF Dequeue, RingType
      <3>3. nb_elems[p] - 1 \in 0 .. QueueMax
        <4>1. nb_elems[p] \in 0 .. QueueMax
          BY DEF RingType
        <4>2. nb_elems[p] # 0
          BY <2>2 DEF TopLevel
        <4> QED
          BY <4>1, <4>2
      <3>4. RingType'
        BY <2>2, <3>1, <3>2, <3>3 DEF Dequeue, RingType
      <3>5. msg' \in Message \cup {NoMessage}
        BY <2>2 DEF RingType
      <3> QED
        BY <1>11, <2>2, <3>4, <3>5 DEF ExecPop, FlagType, PushType, PushHolds,
           ExecType, CtlType, ErrorType
    <2> QED
      BY <1>11, <2>1, <2>2 DEF ExecPop
  <1>12. CASE ExecFails
    <2>1. HandlerError(msg.kind.dest) \in {HandlerError("local"),
                                          HandlerError("distant")}
      BY DEF HandlerError
    <2>2. ErrorType'
      BY <1>12, <2>1 DEF ExecFails, StartError, ErrorType
    <2> QED
      BY <1>12, <2>2 DEF ExecFails, HandlerReturns, RingType, FlagType,
         PushType, PushHolds, ExecType, CtlType
  <1> QED
    BY <1>1, <1>2, <1>3, <1>4, <1>5, <1>6,
       <1>7, <1>8, <1>9, <1>10, <1>11, <1>12 DEF execute

(* So do the steps that the event thread takes outside execute().           *)
LEMMA TypeEventThread ==
  ASSUME TypeInv, event_thread_function
  PROVE  TypeInv'
  <1> USE ConstantsAssumption
  <1>1. CASE EvtPausePeer
    BY <1>1 DEF EvtPausePeer, RingType, FlagType, PushType,
       PushHolds, ExecType, CtlType, ErrorType
  <1>2. CASE EvtResume
    <2>1. FlagType'
      BY <1>2 DEF EvtResume, FlagType
    <2> QED
      BY <1>2, <2>1 DEF EvtResume, RingType, PushType, PushHolds, ExecType,
         CtlType, ErrorType
  <1>3. CASE EvtReturned
    <2>1. ErrorType'
      BY <1>3 DEF EvtReturned, ErrorType
    <2> QED
      BY <1>3, <2>1 DEF EvtReturned, RingType, FlagType, PushType, PushHolds,
         ExecType, CtlType
  <1>4. CASE EvtReadStatus \/ EvtReadNode
    <2>1. report' \in ErrorRecord
      BY <1>4 DEF EvtReadStatus, EvtReadNode, ErrorType, ExecType, ErrorRecord
    <2> QED
      BY <1>4, <2>1 DEF EvtReadStatus, EvtReadNode, RingType, FlagType,
         PushType, PushHolds, ExecType, CtlType, ErrorType
  <1> QED
    BY <1>1, <1>2, <1>3, <1>4 DEF event_thread_function

(* And the controlling thread.                                              *)
LEMMA TypeControl ==
  ASSUME TypeInv, CtlPause \/ CtlResume \/ CtlEnd \/ CtlContinue
  PROVE  TypeInv'
  <1> USE ConstantsAssumption
  <1>1. CASE CtlPause
    BY <1>1 DEF CtlPause, RingType, FlagType, PushType,
       PushHolds, ExecType, CtlType, ErrorType
  <1>2. CASE CtlResume
    <2>1. FlagType'
      BY <1>2 DEF CtlResume, FlagType
    <2> QED
      BY <1>2, <2>1 DEF CtlResume, RingType, PushType, PushHolds, ExecType,
         CtlType, ErrorType
  <1>3. CASE CtlEnd
    BY <1>3 DEF CtlEnd, RingType, FlagType, PushType,
       PushHolds, ExecType, CtlType, ErrorType
  <1>4. CASE CtlPauseNotify
    BY <1>4 DEF CtlPauseNotify, RingType, FlagType, PushType,
       PushHolds, ExecType, CtlType, ErrorType
  <1>5. CASE CtlPaused
    BY <1>5 DEF CtlPaused, RingType, FlagType, PushType,
       PushHolds, ExecType, CtlType, ErrorType
  <1>6. CASE CtlEndNotify
    BY <1>6 DEF CtlEndNotify, RingType, FlagType, PushType,
       PushHolds, ExecType, CtlType, ErrorType
  <1>7. CASE CtlClear
    <2>1. read' \in [Levels -> Slots]
      BY <1>7, AdvancedType DEF CtlClear, RingType
    <2>2. RingType'
      BY <1>7, <2>1 DEF CtlClear, RingType
    <2> QED
      BY <1>7, <2>2 DEF CtlClear, FlagType, PushType, PushHolds, ExecType,
         CtlType, ErrorType
  <1>8. CASE CtlClearPending
    <2>1. ErrorType'
      BY <1>8 DEF CtlClearPending, ErrorType
    <2> QED
      BY <1>8, <2>1 DEF CtlClearPending, RingType, FlagType, PushType,
         PushHolds, ExecType, CtlType
  <1>9. CASE CtlClearFields
    <2>1. ErrorType'
      BY <1>9 DEF CtlClearFields, ErrorType, CleanError
    <2>2. ExecType'
      BY <1>9 DEF CtlClearFields, ExecType, NoReport, ErrorRecord
    <2> QED
      BY <1>9, <2>1, <2>2 DEF CtlClearFields, RingType, FlagType, PushType,
         PushHolds, CtlType
  <1> QED
    BY <1>1, <1>2, <1>3, <1>4, <1>5, <1>6, <1>7, <1>8, <1>9 DEF CtlContinue

(* The type invariant is inductive.                                         *)
LEMMA TypeStep == TypeInv /\ [Next]_vars => TypeInv'
  <1> SUFFICES ASSUME TypeInv, [Next]_vars PROVE TypeInv'
    OBVIOUS
  <1>1. CASE UNCHANGED vars
    BY <1>1 DEF vars, RingType, FlagType, PushType, PushHolds, ExecType,
       CtlType, ErrorType
  <1>2. CASE Next
    BY <1>2, TypePush, TypeExecute, TypeEventThread, TypeControl DEF Next
  <1> QED
    BY <1>1, <1>2

(* Every variable of the event queue keeps its type: indices stay inside    *)
(* their rings and counters between 0 and the queue's size.                 *)
THEOREM TypeCorrect == Spec => []TypeOK
  <1>1. TypeInv => TypeOK
    OBVIOUS
  <1> QED
    BY TypeInit, TypeStep, <1>1, PTL DEF Spec
-----------------------------------------------------------------------------
(* The rings.                                                              *)

(* How far slot i is after slot r, going round.                             *)
Distance(r, i) == IF i >= r THEN i - r ELSE i - r + QueueMax

(* A slot is live when its distance from the read index is below the count. *)
LEMMA LiveIff ==
  ASSUME NEW r \in Slots, NEW i \in Slots, NEW n \in 0 .. QueueMax
  PROVE  (\E k \in 0 .. n - 1 : i = Advanced(r, k)) <=> Distance(r, i) < n
  <1> USE ConstantsAssumption
  <1>1. ASSUME NEW k \in 0 .. n - 1, i = Advanced(r, k)
        PROVE  Distance(r, i) < n
    BY <1>1 DEF Advanced, Distance, Slots
  <1>2. ASSUME Distance(r, i) < n
        PROVE  /\ Distance(r, i) \in 0 .. n - 1
               /\ i = Advanced(r, Distance(r, i))
    BY <1>2 DEF Advanced, Distance, Slots
  <1> QED
    BY <1>1, <1>2

(* Storing at the write index makes that slot live and no other.            *)
LEMMA EnqueueDistance ==
  ASSUME NEW r \in Slots, NEW i \in Slots, NEW n \in 0 .. QueueMax - 1
  PROVE  /\ Wrapped(Advanced(r, n) + 1) = Advanced(r, n + 1)
         /\ Distance(r, i) < n + 1 <=> (Distance(r, i) < n \/ i = Advanced(r, n))
         /\ ~(Distance(r, Advanced(r, n)) < n)
  BY ConstantsAssumption DEF Wrapped, Advanced, Distance, Slots

(* Taking the message at the read index makes that slot dead and no other.  *)
LEMMA DequeueDistance ==
  ASSUME NEW r \in Slots, NEW i \in Slots, NEW n \in 1 .. QueueMax
  PROVE  /\ Advanced(r, n) = Advanced(Wrapped(r + 1), n - 1)
         /\ Distance(Wrapped(r + 1), i) < n - 1
              <=> (Distance(r, i) < n /\ i # r)
         /\ Distance(r, r) < n
  BY ConstantsAssumption DEF Wrapped, Advanced, Distance, Slots

(* Live() in terms of the distance.                                         *)
LEMMA LiveDistance ==
  ASSUME RingType, NEW p \in Levels, NEW i \in Slots
  PROVE  Live(p, i) <=> Distance(read[p], i) < nb_elems[p]
  BY LiveIff DEF Live, RingType

(* push() keeps the rings consistent when it has found room.                *)
LEMMA EnqueueKeepsRings ==
  ASSUME RingType, RingType', RingConsistent, NEW m \in Message,
         nb_elems[LevelOf(m)] < QueueMax, Enqueue(m)
  PROVE  RingConsistent'
  <1> DEFINE p == LevelOf(m)
  <1>1. p \in Levels
    BY LevelOfType
  <1> HIDE DEF p
  <1>2. ASSUME NEW q \in Levels, q # p PROVE RingAt(q)'
    <2>1. /\ write'[q] = write[q] /\ read'[q] = read[q]
          /\ nb_elems'[q] = nb_elems[q] /\ queue'[q] = queue[q]
      BY <1>1, <1>2 DEF Enqueue, RingType, p
    <2> QED
      BY <2>1 DEF RingConsistent, RingAt, Live
  <1>3. RingAt(p)'
    <2> DEFINE r == read[p]
               n == nb_elems[p]
               w == Advanced(r, n)
    <2>1. r \in Slots /\ n \in 0 .. QueueMax - 1
      BY <1>1, ConstantsAssumption DEF RingType, p
    <2>2. w = write[p] /\ w \in Slots
      BY <1>1 DEF RingConsistent, RingAt, RingType
    <2>3. /\ read'[p] = r /\ nb_elems'[p] = n + 1
          /\ write'[p] = Wrapped(w + 1)
          /\ \A i \in Slots : queue'[p][i] = IF i = w THEN m ELSE queue[p][i]
      BY <1>1, <2>2 DEF Enqueue, RingType, p
    <2> HIDE DEF r, n, w
    <2>4. write'[p] = Advanced(read'[p], nb_elems'[p])
      BY <2>1, <2>3, EnqueueDistance DEF w
    <2>5. ASSUME NEW i \in Slots
          PROVE  IF Live(p, i)' THEN /\ queue'[p][i] \in Message
                                     /\ LevelOf(queue'[p][i]) = p
                                ELSE queue'[p][i] = NoMessage
      <3>1. Live(p, i) <=> Distance(r, i) < n
        BY <1>1, LiveDistance DEF r, n
      <3>2. Live(p, i)' <=> Distance(r, i) < n + 1
        <4>1. Live(p, i)' <=> Distance(read'[p], i) < nb_elems'[p]
          BY <1>1, LiveIff DEF Live, RingType
        <4> QED
          BY <4>1, <2>3
      <3>3. Live(p, i)' <=> (Live(p, i) \/ i = w)
        BY <2>1, <3>1, <3>2, EnqueueDistance DEF w
      <3>4. CASE i = w
        BY <2>3, <3>3, <3>4 DEF p
      <3>5. CASE i # w
        BY <1>1, <2>3, <3>3, <3>5 DEF RingConsistent, RingAt
      <3> QED
        BY <3>4, <3>5
    <2> QED
      BY <2>4, <2>5 DEF RingAt
  <1> QED
    BY <1>2, <1>3 DEF RingConsistent

(* execute() keeps them consistent when it takes a message out.             *)
LEMMA DequeueKeepsRings ==
  ASSUME RingType, RingType', RingConsistent, NEW p \in Levels,
         nb_elems[p] # 0, Dequeue(p)
  PROVE  RingConsistent'
  <1>2. ASSUME NEW q \in Levels, q # p PROVE RingAt(q)'
    <2>1. /\ write'[q] = write[q] /\ read'[q] = read[q]
          /\ nb_elems'[q] = nb_elems[q] /\ queue'[q] = queue[q]
      BY <1>2 DEF Dequeue, RingType
    <2> QED
      BY <2>1 DEF RingConsistent, RingAt, Live
  <1>3. RingAt(p)'
    <2> DEFINE r == read[p]
               n == nb_elems[p]
    <2>1. r \in Slots /\ n \in 1 .. QueueMax
      BY ConstantsAssumption DEF RingType
    <2>2. write[p] = Advanced(r, n)
      BY DEF RingConsistent, RingAt
    <2>3. /\ read'[p] = Wrapped(r + 1) /\ nb_elems'[p] = n - 1
          /\ write'[p] = write[p]
          /\ \A i \in Slots : queue'[p][i] = IF i = r THEN NoMessage
                                                     ELSE queue[p][i]
      BY DEF Dequeue, RingType
    <2> HIDE DEF r, n
    <2>4. write'[p] = Advanced(read'[p], nb_elems'[p])
      BY <2>1, <2>2, <2>3, DequeueDistance
    <2>5. ASSUME NEW i \in Slots
          PROVE  IF Live(p, i)' THEN /\ queue'[p][i] \in Message
                                     /\ LevelOf(queue'[p][i]) = p
                                ELSE queue'[p][i] = NoMessage
      <3>1. Live(p, i) <=> Distance(r, i) < n
        BY LiveDistance DEF r, n
      <3>2. Live(p, i)' <=> Distance(Wrapped(r + 1), i) < n - 1
        <4>1. Live(p, i)' <=> Distance(read'[p], i) < nb_elems'[p]
          BY LiveIff DEF Live, RingType
        <4> QED
          BY <4>1, <2>3
      <3>3. Live(p, i)' <=> (Live(p, i) /\ i # r)
        BY <2>1, <3>1, <3>2, DequeueDistance
      <3> QED
        BY <2>3, <3>3 DEF RingConsistent, RingAt
    <2> QED
      BY <2>4, <2>5 DEF RingAt
  <1> QED
    BY <1>2, <1>3 DEF RingConsistent

(* clear() brings the read index to the write index: it relies on the rings *)
(* being consistent before.                                                 *)
LEMMA ClearKeepsRings ==
  ASSUME RingType, RingConsistent, CtlClear
  PROVE  RingConsistent'
  <1> SUFFICES ASSUME NEW p \in Levels PROVE RingAt(p)'
    BY DEF RingConsistent
  <1>1. /\ nb_elems'[p] = 0
        /\ read'[p] = Advanced(read[p], nb_elems[p])
        /\ write'[p] = write[p]
        /\ \A i \in Slots : queue'[p][i] = NoMessage
    BY DEF CtlClear
  <1>2. read'[p] = write[p] /\ write[p] \in Slots
    BY <1>1 DEF RingConsistent, RingAt, RingType
  <1>3. write'[p] = Advanced(read'[p], nb_elems'[p])
    BY <1>1, <1>2, ConstantsAssumption DEF Advanced, Slots
  <1>4. ASSUME NEW i \in Slots PROVE ~ Live(p, i)'
    BY <1>1 DEF Live
  <1> QED
    BY <1>1, <1>3, <1>4 DEF RingAt

(* A step that leaves the four ring variables alone leaves the rings as     *)
(* they are.                                                                *)
LEMMA UnchangedKeepsRings ==
  ASSUME RingConsistent, UNCHANGED ringVars
  PROVE  RingConsistent'
  BY DEF RingConsistent, RingAt, Live

(* The empty rings are consistent.                                          *)
LEMMA RingInit == Init => RingConsistent
  <1> SUFFICES ASSUME Init, NEW p \in Levels PROVE RingAt(p)
    BY DEF RingConsistent
  <1>1. /\ nb_elems[p] = 0 /\ read[p] = 0 /\ write[p] = 0
        /\ \A i \in Slots : queue[p][i] = NoMessage
    BY DEF Init
  <1>2. write[p] = Advanced(read[p], nb_elems[p])
    BY <1>1, ConstantsAssumption DEF Advanced
  <1>3. ASSUME NEW i \in Slots PROVE ~ Live(p, i)
    BY <1>1 DEF Live
  <1> QED
    BY <1>1, <1>2, <1>3 DEF RingAt

(* Every step keeps the rings consistent.  Three actions touch them; each   *)
(* of the others leaves them alone.                                         *)
LEMMA RingStep == TypeInv /\ RingConsistent /\ [Next]_vars => RingConsistent'
  <1> SUFFICES ASSUME TypeInv, RingConsistent, [Next]_vars
               PROVE  RingConsistent'
    OBVIOUS
  <1>0. TypeInv'
    BY TypeStep
  <1>1. CASE UNCHANGED vars
    BY <1>1, UnchangedKeepsRings DEF vars
  <1>2. ASSUME NEW t \in Threads, setError(t) PROVE RingConsistent'
    BY <1>2, UnchangedKeepsRings
       DEF setError, StoreErrorField, ErrorPause, ErrorNotify
  <1>3. ASSUME NEW t \in Threads, push(t) PROVE RingConsistent'
    <2>1. CASE PushStore(t)
      <3>1. pushed[t] \in Message
        BY <2>1 DEF PushStore, PushHolds
      <3> QED
        BY <1>0, <2>1, <3>1, EnqueueKeepsRings DEF PushStore
    <2>2. CASE ~ PushStore(t)
      BY <1>3, <2>2, UnchangedKeepsRings
         DEF push, PushFullError, PushUnlock, PushFullDrop, PushNotify
    <2> QED
      BY <2>1, <2>2
  <1>4. ASSUME NEW t \in Threads, NEW k \in Kinds, PushCheck(t, k)
        PROVE  RingConsistent'
    BY <1>4, UnchangedKeepsRings DEF PushCheck
  <1>5. CASE ExecPop
    <2>1. CASE UNCHANGED ringVars
      BY <2>1, UnchangedKeepsRings
    <2>2. ASSUME NEW p \in Levels, TopLevel(p), Dequeue(p)
          PROVE  RingConsistent'
      BY <1>0, <2>2, DequeueKeepsRings DEF TopLevel
    <2> QED
      BY <1>5, <2>1, <2>2 DEF ExecPop
  <1>6. CASE execute /\ ~ ExecPop
    BY <1>6, UnchangedKeepsRings
       DEF execute, ExecOuter, ExecFlags, ExecIsEmpty, ExecExpired,
           ExecDispatch, ExecSucceeds, ExecFails, ExecTail, ExecWait,
           ExecWaitZephyr, ExecClearZephyr
  <1>7. CASE event_thread_function
    BY <1>7, UnchangedKeepsRings
       DEF event_thread_function, EvtReturned, EvtReadStatus, EvtReadNode,
           EvtPausePeer, EvtResume
  <1>8. CASE CtlPause \/ CtlResume \/ CtlEnd
    BY <1>8, UnchangedKeepsRings DEF CtlPause, CtlResume, CtlEnd
  <1>9. CASE CtlClear
    BY <1>9, ClearKeepsRings
  <1>10. CASE CtlContinue /\ ~ CtlClear
    BY <1>10, UnchangedKeepsRings
       DEF CtlContinue, CtlPauseNotify, CtlPaused, CtlClearPending,
           CtlClearFields, CtlEndNotify
  <1> QED
    BY <1>1, <1>2, <1>3, <1>4, <1>5, <1>6, <1>7, <1>8, <1>9, <1>10 DEF Next

(* Whatever interleaving of push(), execute() and clear() has run, and      *)
(* however large the queue is, each ring holds exactly nb_elems messages,   *)
(* of its own level, from its read index up to its write index: no slot is  *)
(* overwritten, taken twice or left behind.                                 *)
THEOREM RingsStayConsistent == Spec => []RingConsistent
  BY TypeInit, TypeStep, RingInit, RingStep, PTL DEF Spec
-----------------------------------------------------------------------------
(* A pause lets at most one event through.                                  *)

(* The inductive form: once an event has been handed out late, the pause is *)
(* still asked for and execute() is past the points from which it could     *)
(* hand out another.                                                        *)
LateInv ==
  /\ late \in {0, 1}
  /\ late = 1 => mustPause_ /\ execPc \notin {"isEmpty", "pop", "dispatch"}

(* LateInv is inductive: execute() tests mustPause_ before it takes the     *)
(* next event, and only a resumption resets mustPause_, and late with it.   *)
LEMMA LateStep == TypeInv /\ LateInv /\ [Next]_vars => LateInv'
  <1> SUFFICES ASSUME TypeInv, LateInv, [Next]_vars
               PROVE  LateInv'
    OBVIOUS
  <1> USE DEF LateInv
  <1>1. CASE UNCHANGED vars
    BY <1>1 DEF vars
  <1>2. ASSUME NEW t \in Threads, setError(t) PROVE LateInv'
    BY <1>2 DEF setError, StoreErrorField, ErrorPause, ErrorNotify
  <1>3. ASSUME NEW t \in Threads, push(t) PROVE LateInv'
    BY <1>3 DEF push, PushStore, PushFullError, PushUnlock, PushFullDrop,
       PushNotify
  <1>4. ASSUME NEW t \in Threads, NEW k \in Kinds, PushCheck(t, k)
        PROVE  LateInv'
    BY <1>4 DEF PushCheck
  <1>5. CASE execute
    <2>1. CASE ExecOuter
      BY <2>1 DEF ExecOuter, LeaveExec
    <2>2. CASE ExecFlags
      BY <2>2 DEF ExecFlags, LeaveExec
    <2>3. CASE ExecIsEmpty
      BY <2>3 DEF ExecIsEmpty, AtExec
    <2>4. CASE ExecPop
      BY <2>4 DEF ExecPop, AtExec
    <2>5. CASE ExecExpired
      BY <2>5 DEF ExecExpired
    <2>6. CASE ExecDispatch
      BY <2>6 DEF ExecDispatch, AtExec
    <2>7. CASE ExecSucceeds
      BY <2>7 DEF ExecSucceeds, HandlerReturns
    <2>8. CASE ExecFails
      BY <2>8 DEF ExecFails, HandlerReturns
    <2>9. CASE ExecTail
      BY <2>9 DEF ExecTail, LeaveExec
    <2>10. CASE ExecWait \/ ExecWaitZephyr \/ ExecClearZephyr
      BY <2>10 DEF ExecWait, ExecWaitZephyr, ExecClearZephyr
    <2> QED
      BY <1>5, <2>1, <2>2, <2>3, <2>4, <2>5, <2>6, <2>7, <2>8, <2>9, <2>10
         DEF execute
  <1>6. CASE event_thread_function
    BY <1>6 DEF event_thread_function, EvtReturned, EvtReadStatus,
       EvtReadNode, EvtPausePeer, EvtResume
  <1>7. CASE CtlPause \/ CtlResume \/ CtlEnd
    BY <1>7 DEF CtlPause, CtlResume, CtlEnd
  <1>8. CASE CtlContinue
    BY <1>8 DEF CtlContinue, CtlPauseNotify, CtlPaused, CtlClear,
       CtlClearPending, CtlClearFields, CtlEndNotify
  <1> QED
    BY <1>1, <1>2, <1>3, <1>4, <1>5, <1>6, <1>7, <1>8 DEF Next

(* Once mustPause_ is set, by the application or by setError() of any       *)
(* thread, execute() hands out at most the event it had already chosen.     *)
THEOREM PauseLetsOneThrough == Spec => []AtMostOneLate
  <1>1. Init => LateInv
    BY DEF Init, LateInv
  <1>2. LateInv => AtMostOneLate
    BY DEF LateInv, AtMostOneLate
  <1> QED
    BY TypeInit, TypeStep, LateStep, <1>1, <1>2, PTL DEF Spec

HIDE DEF TypeInv, TypeOK
-----------------------------------------------------------------------------
(* The event thread is at rest while the controlling thread works.          *)

(* The controlling thread has received the acknowledgments, and has not yet *)
(* let the threads go again.                                                *)
Stopped == ctlPc \in {"clear", "paused", "clearPending", "clearFields"}

(* The controlling thread only stops a parked event thread, it ends last,   *)
(* and the stream thread is parked before a report can be acted upon.       *)
ParkInv ==
  /\ Stopped => execPc = "parked" /\ ~go /\ parked
  /\ mustEnd_ => ctlPc \in {"endNotify", "ended"}
  /\ report # NoReport => \/ execPc \in {"readNode", "pausePeer"}
                          \/ parked
                          \/ mustEnd_

LEMMA ParkStep == TypeInv /\ ParkInv /\ [Next]_vars => ParkInv'
  <1> SUFFICES ASSUME TypeInv, ParkInv, [Next]_vars PROVE ParkInv'
    OBVIOUS
  <1> USE DEF ParkInv, Stopped
  <1>1. CASE UNCHANGED vars
    BY <1>1 DEF vars
  <1>2. ASSUME NEW t \in Threads, setError(t) PROVE ParkInv'
    BY <1>2 DEF setError, StoreErrorField, ErrorPause, ErrorNotify
  <1>3. ASSUME NEW t \in Threads, push(t) PROVE ParkInv'
    BY <1>3 DEF push, PushStore, PushFullError, PushUnlock, PushFullDrop,
       PushNotify
  <1>4. ASSUME NEW t \in Threads, NEW k \in Kinds, PushCheck(t, k)
        PROVE  ParkInv'
    BY <1>4 DEF PushCheck
  <1>5. CASE execute
    <2>1. AtExec(execPc) /\ execPc \notin {"parked", "readNode", "pausePeer"}
      BY <1>5 DEF execute, ExecOuter, ExecFlags, ExecIsEmpty, ExecPop,
         ExecExpired, ExecDispatch, ExecSucceeds, ExecFails, HandlerReturns,
         ExecTail, ExecWait, ExecWaitZephyr, ExecClearZephyr, AtExec
    <2>2. UNCHANGED <<ctlPc, go, parked, mustEnd_, report>>
      BY <1>5 DEF execute, ExecOuter, ExecFlags, ExecIsEmpty, ExecPop,
         ExecExpired, ExecDispatch, ExecSucceeds, ExecFails, HandlerReturns,
         ExecTail, ExecWait, ExecWaitZephyr, ExecClearZephyr
    <2> QED
      BY <2>1, <2>2
  <1>6. CASE event_thread_function
    <2>1. CASE EvtReturned
      BY <2>1 DEF EvtReturned, AtExec
    <2>2. CASE EvtReadStatus \/ EvtReadNode
      BY <2>2 DEF EvtReadStatus, EvtReadNode, AtExec
    <2>3. CASE EvtPausePeer \/ EvtResume
      BY <2>3 DEF EvtPausePeer, EvtResume, AtExec
    <2> QED
      BY <1>6, <2>1, <2>2, <2>3 DEF event_thread_function
  <1>7. CASE CtlPause \/ CtlResume \/ CtlEnd
    BY <1>7 DEF CtlPause, CtlResume, CtlEnd
  <1>8. CASE CtlContinue
    BY <1>8 DEF CtlContinue, CtlPauseNotify, CtlPaused, CtlClear,
       CtlClearPending, CtlClearFields, CtlEndNotify
  <1> QED
    BY <1>1, <1>2, <1>3, <1>4, <1>5, <1>6, <1>7, <1>8 DEF Next
-----------------------------------------------------------------------------
(* An empty queue while paused, and no silent park.                         *)

(* An error is on its way to the application.                               *)
Told == \/ error.pending
        \/ execPc \in {"readStatus", "readNode", "pausePeer"}
        \/ report # NoReport

(* setError() runs inside push(), or on the event thread between two        *)
(* events; the handlers of events push while they run; a parked stream      *)
(* thread does not push.                                                    *)
CallsNested ==
  /\ \A t \in Producers : errPc[t] # "none" => pushPc[t] = "unlock"
  /\ errPc[EventThread] # "none" =>
       pushPc[EventThread] = "unlock" \/ execPc = "flags"
  /\ pushPc[EventThread] # "idle" => execPc = "running"
  /\ parked => \A t \in StreamProducers : pushPc[t] = "idle"

(* Why execute() returns: mustPause_ is set by the controlling thread, which *)
(* is then not idle, or by an error of which the application will be told.  *)
ParkReason ==
  /\ execPc = "returned" => mustPause_ \/ mustEnd_
  /\ mustPause_ /\ ctlPc = "idle" => Told
  /\ \A t \in Threads : errPc[t] = "pause" => Told
  /\ ctlPc \in {"clearPending", "clearFields"} => ~mustPause_
  /\ execPc \in {"readNode", "pausePeer"} => report # NoReport

RestInv == /\ ParkInv /\ CallsNested /\ ParkReason
           /\ NoSilentPark /\ EmptyWhilePaused

(* While the controlling thread clears and resumes, nobody pushes and       *)
(* nobody is in setError(), if the runtime knows every pushing thread.      *)
LEMMA StoppedIsQuiet ==
  ASSUME ExternalProducers = {}, ParkInv, CallsNested, Stopped,
         NEW t \in Threads
  PROVE  pushPc[t] = "idle" /\ errPc[t] = "none"
  BY DEF ParkInv, CallsNested, Threads, Producers

LEMMA NestedStep ==
  ASSUME TypeInv, CallsNested, [Next]_vars
  PROVE  CallsNested'
  <1> USE ConstantsAssumption DEF CallsNested, Threads, Producers
  <1>0. /\ pushPc \in [Threads -> {"idle", "lock", "unlock", "notify"}]
        /\ errPc \in [Threads -> {"none", "status", "node", "pending",
                                  "pause", "notify"}]
    BY DEF TypeInv, TypeOK, PushType, ErrorType
  <1>1. CASE UNCHANGED vars
    BY <1>1 DEF vars
  <1>2. ASSUME NEW t \in Threads, setError(t) PROVE CallsNested'
    BY <1>0, <1>2 DEF setError, StoreErrorField, ErrorPause, ErrorNotify
  <1>3. ASSUME NEW t \in Threads, push(t) PROVE CallsNested'
    <2>1. CASE PushStore(t)
      BY <1>0, <2>1 DEF PushStore
    <2>2. CASE PushFullError(t)
      BY <1>0, <2>2 DEF PushFullError, StartError
    <2>3. CASE PushUnlock(t)
      BY <1>0, <2>3 DEF PushUnlock
    <2>4. CASE PushFullDrop(t)
      BY <1>0, <2>4 DEF PushFullDrop
    <2>5. CASE PushNotify(t)
      BY <1>0, <2>5 DEF PushNotify
    <2> QED
      BY <1>3, <2>1, <2>2, <2>3, <2>4, <2>5 DEF push
  <1>4. ASSUME NEW t \in Threads, NEW k \in Kinds, PushCheck(t, k)
        PROVE  CallsNested'
    BY <1>0, <1>4 DEF PushCheck, MayPush
  <1>5. CASE ExecFails
    BY <1>0, <1>5 DEF ExecFails, HandlerReturns, StartError, AtExec
  <1>6. CASE execute /\ ~ ExecFails
    <2>1. /\ UNCHANGED <<pushPc, errPc, parked>>
          /\ errPc[EventThread] = "none"
      BY <1>6 DEF execute, ExecOuter, ExecFlags, ExecIsEmpty, ExecPop,
         ExecExpired, ExecDispatch, ExecSucceeds, HandlerReturns,
         ExecTail, ExecWait, ExecWaitZephyr, ExecClearZephyr, AtExec
    <2>2. pushPc[EventThread] = "idle" \/ execPc' = "running"
      BY <1>6 DEF execute, ExecOuter, ExecFlags, ExecIsEmpty, ExecPop,
         ExecExpired, ExecDispatch, ExecSucceeds, HandlerReturns,
         ExecTail, ExecWait, ExecWaitZephyr, ExecClearZephyr, AtExec
    <2> QED
      BY <2>1, <2>2
  <1>7. CASE event_thread_function
    BY <1>0, <1>7 DEF event_thread_function, EvtReturned, EvtReadStatus,
       EvtReadNode, EvtPausePeer, EvtResume, AtExec
  <1>8. CASE CtlPause \/ CtlResume \/ CtlEnd
    BY <1>8 DEF CtlPause, CtlResume, CtlEnd
  <1>9. CASE CtlContinue
    BY <1>9 DEF CtlContinue, CtlPauseNotify, CtlPaused, CtlClear,
       CtlClearPending, CtlClearFields, CtlEndNotify
  <1> QED
    BY <1>1, <1>2, <1>3, <1>4, <1>5, <1>6, <1>7, <1>8, <1>9 DEF Next

(* Whatever stops the event thread has a reason the application knows.      *)
LEMMA ReasonStep ==
  ASSUME ExternalProducers = {}, TypeInv, ParkInv, CallsNested, ParkReason,
         NoSilentPark, [Next]_vars
  PROVE  ParkReason' /\ NoSilentPark'
  <1> USE DEF ParkReason, NoSilentPark, Told
  <1>0. /\ error \in [pending : BOOLEAN, status : {"CG_SUCCESS",
                        "CG_EVENT_QUEUE_FULL", "nodeStatus"},
                       node : {"none", "src", "dst"}]
        /\ errPc \in [Threads -> {"none", "status", "node", "pending",
                                  "pause", "notify"}]
        /\ report \in ErrorRecord
    BY DEF TypeInv, TypeOK, ErrorType, ExecType
  <1>1. CASE UNCHANGED vars
    BY <1>1 DEF vars
  <1>2. ASSUME NEW t \in Threads, setError(t)
        PROVE  ParkReason' /\ NoSilentPark'
    <2>1. errPc[t] # "none" /\ ~ Stopped
      BY <1>2, StoppedIsQuiet
         DEF setError, StoreErrorField, ErrorPause, ErrorNotify
    <2>2. CASE StoreErrorField(t)
      BY <1>0, <2>2 DEF StoreErrorField
    <2>3. CASE ErrorPause(t)
      BY <1>0, <2>1, <2>3 DEF ErrorPause, Stopped
    <2>4. CASE ErrorNotify(t)
      BY <1>0, <2>4 DEF ErrorNotify
    <2> QED
      BY <1>2, <2>2, <2>3, <2>4 DEF setError
  <1>3. ASSUME NEW t \in Threads, push(t)
        PROVE  ParkReason' /\ NoSilentPark'
    BY <1>0, <1>3 DEF push, PushStore, PushFullError, PushUnlock,
       PushFullDrop, PushNotify, StartError
  <1>4. ASSUME NEW t \in Threads, NEW k \in Kinds, PushCheck(t, k)
        PROVE  ParkReason' /\ NoSilentPark'
    BY <1>4 DEF PushCheck
  <1>5. CASE execute
    <2>1. CASE ExecOuter \/ ExecFlags \/ ExecTail
      BY <2>1 DEF ExecOuter, ExecFlags, ExecTail, LeaveExec, AtExec
    <2>2. CASE ExecIsEmpty \/ ExecDispatch
      BY <2>2 DEF ExecIsEmpty, ExecDispatch, AtExec
    <2>3. CASE ExecPop
      BY <2>3 DEF ExecPop, AtExec
    <2>4. CASE ExecExpired \/ ExecSucceeds
      BY <2>4 DEF ExecExpired, ExecSucceeds, HandlerReturns, AtExec
    <2>5. CASE ExecFails
      BY <1>0, <2>5 DEF ExecFails, HandlerReturns, StartError, AtExec
    <2>6. CASE ExecWait \/ ExecWaitZephyr \/ ExecClearZephyr
      BY <2>6 DEF ExecWait, ExecWaitZephyr, ExecClearZephyr, AtExec
    <2> QED
      BY <1>5, <2>1, <2>2, <2>3, <2>4, <2>5, <2>6 DEF execute
  <1>6. CASE event_thread_function
    <2>1. CASE EvtReturned
      BY <1>0, <2>1 DEF EvtReturned, AtExec, ParkInv
    <2>2. CASE EvtReadStatus
      <3>1. report'.status # "noReport"
        BY <1>0, <2>2 DEF EvtReadStatus, ErrorRecord
      <3>2. report' # NoReport
        BY <3>1 DEF NoReport
      <3> QED
        BY <2>2, <3>2 DEF EvtReadStatus, AtExec
    <2>3. CASE EvtReadNode
      <3>1. report'.node # "noReport"
        BY <1>0, <2>3 DEF EvtReadNode, ErrorRecord
      <3>2. report' # NoReport
        BY <3>1 DEF NoReport
      <3> QED
        BY <2>3, <3>2 DEF EvtReadNode, AtExec
    <2>4. CASE EvtPausePeer \/ EvtResume
      BY <2>4 DEF EvtPausePeer, EvtResume, AtExec
    <2> QED
      BY <1>6, <2>1, <2>2, <2>3, <2>4 DEF event_thread_function
  <1>7. CASE CtlPause \/ CtlResume \/ CtlEnd
    BY <1>7 DEF CtlPause, CtlResume, CtlEnd, ParkInv, Stopped
  <1>8. CASE CtlContinue
    <2>1. CASE CtlClearPending \/ CtlClearFields
      <3>1. Stopped /\ execPc = "parked"
        BY <2>1 DEF CtlClearPending, CtlClearFields, Stopped, ParkInv
      <3>2. \A t \in Threads : errPc[t] = "none"
        BY <3>1, StoppedIsQuiet
      <3> QED
        BY <1>0, <2>1, <3>1, <3>2 DEF CtlClearPending, CtlClearFields
    <2>2. CASE CtlPauseNotify \/ CtlPaused \/ CtlClear \/ CtlEndNotify
      BY <2>2 DEF CtlPauseNotify, CtlPaused, CtlClear, CtlEndNotify
    <2> QED
      BY <1>8, <2>1, <2>2 DEF CtlContinue
  <1> QED
    BY <1>1, <1>2, <1>3, <1>4, <1>5, <1>6, <1>7, <1>8 DEF Next

(* Nobody stores between clear() and the resumption.                        *)
LEMMA EmptyStep ==
  ASSUME ExternalProducers = {}, TypeInv, ParkInv, CallsNested,
         EmptyWhilePaused, [Next]_vars
  PROVE  EmptyWhilePaused'
  <1> USE DEF EmptyWhilePaused, isEmpty
  <1>1. CASE UNCHANGED vars
    BY <1>1 DEF vars
  <1>2. ASSUME NEW t \in Threads, setError(t) PROVE EmptyWhilePaused'
    BY <1>2 DEF setError, StoreErrorField, ErrorPause, ErrorNotify
  <1>3. ASSUME NEW t \in Threads, push(t) PROVE EmptyWhilePaused'
    <2>1. pushPc[t] # "idle" /\ UNCHANGED ctlPc
      BY <1>3 DEF push, PushStore, PushFullError, PushUnlock, PushFullDrop,
         PushNotify
    <2> QED
      BY <2>1, StoppedIsQuiet DEF Stopped
  <1>4. ASSUME NEW t \in Threads, NEW k \in Kinds, PushCheck(t, k)
        PROVE  EmptyWhilePaused'
    BY <1>4 DEF PushCheck
  <1>5. CASE execute
    <2>1. execPc # "parked" /\ UNCHANGED ctlPc
      BY <1>5 DEF execute, ExecOuter, ExecFlags, ExecIsEmpty, ExecPop,
         ExecExpired, ExecDispatch, ExecSucceeds, ExecFails, HandlerReturns,
         ExecTail, ExecWait, ExecWaitZephyr, ExecClearZephyr, AtExec
    <2> QED
      BY <2>1 DEF ParkInv, Stopped
  <1>6. CASE event_thread_function
    BY <1>6 DEF event_thread_function, EvtReturned, EvtReadStatus,
       EvtReadNode, EvtPausePeer, EvtResume
  <1>7. CASE CtlPause \/ CtlResume \/ CtlEnd
    BY <1>7 DEF CtlPause, CtlResume, CtlEnd
  <1>8. CASE CtlContinue
    BY <1>8 DEF CtlContinue, CtlPauseNotify, CtlPaused, CtlClear,
       CtlClearPending, CtlClearFields, CtlEndNotify
  <1> QED
    BY <1>1, <1>2, <1>3, <1>4, <1>5, <1>6, <1>7, <1>8 DEF Next

LEMMA RestInit == Init => RestInv
  BY ConstantsAssumption
     DEF Init, RestInv, ParkInv, Stopped, CallsNested, ParkReason, Told,
         NoSilentPark, EmptyWhilePaused, isEmpty, Threads, Producers

LEMMA RestStep ==
  ASSUME ExternalProducers = {}
  PROVE  TypeInv /\ RestInv /\ [Next]_vars => RestInv'
  BY ParkStep, NestedStep, ReasonStep, EmptyStep DEF RestInv

(* When the runtime knows every thread that pushes, the queue is empty from *)
(* the end of stream_pause_current_scheduler() until the graph is resumed:  *)
(* the acknowledgments leave nobody between the test of mustPause_ in       *)
(* push() and the store.                                                    *)
THEOREM PausedQueueStaysEmpty ==
  ASSUME ExternalProducers = {} PROVE Spec => []EmptyWhilePaused
  <1>1. RestInv => EmptyWhilePaused
    BY DEF RestInv
  <1>2. TypeInv /\ RestInv /\ [Next]_vars => RestInv'
    BY RestStep
  <1> QED
    BY TypeInit, TypeStep, RestInit, <1>1, <1>2, PTL DEF Spec

(* Under the same condition the event thread never parks behind the         *)
(* application's back: a parked event thread has been paused, ended, or has *)
(* reported an error, although setError() of several threads, consumeError() *)
(* and the clearing of a resumption interleave.                             *)
THEOREM ParksAreTold ==
  ASSUME ExternalProducers = {} PROVE Spec => []NoSilentPark
  <1>1. RestInv => NoSilentPark
    BY DEF RestInv
  <1>2. TypeInv /\ RestInv /\ [Next]_vars => RestInv'
    BY RestStep
  <1> QED
    BY TypeInit, TypeStep, RestInit, <1>1, <1>2, PTL DEF Spec
-----------------------------------------------------------------------------
(* A report is the error of one setError().                                 *)

HandlerErrors == {HandlerError("local"), HandlerError("distant")}

(* The fields of the error are those of one call.                           *)
Whole == \E e \in HandlerErrors : error.status = e.status /\ error.node = e.node

(* Where overflows are dropped only the event thread reports errors, one    *)
(* after the other, and it reads them itself.                               *)
OneReporter ==
  /\ \A t \in Threads : pushPc[t] # "unlock"
  /\ \A t \in Threads : errPc[t] # "none" =>
       t = EventThread /\ execPc = "flags" /\ errArg[t] \in HandlerErrors

(* setError() stores the fields before it sets errorPending_, clearError()  *)
(* resets errorPending_ first.                                              *)
FieldsStored ==
  LET t == EventThread IN
  /\ errPc[t] \in {"node", "pending", "pause", "notify"} =>
       error.status = errArg[t].status
  /\ errPc[t] \in {"pending", "pause", "notify"} =>
       error.node = errArg[t].node
  /\ errPc[t] = "none" /\ error.pending => Whole
  /\ ctlPc = "clearFields" => ~ error.pending

(* consumeError() reads them while nobody writes.                           *)
ReportFollows ==
  /\ execPc \in {"readStatus", "readNode"} => Whole
  /\ execPc = "readNode" => report.status = error.status
  /\ execPc # "readNode" => report \in HandlerErrors \cup {NoReport}

WholeInv == OneReporter /\ FieldsStored /\ ReportFollows

LEMMA OneReporterStep ==
  ASSUME TypeInv, OneReporter, ~ OverflowIsError, [Next]_vars
  PROVE  OneReporter'
  <1> USE ConstantsAssumption DEF OneReporter
  <1>0. /\ pushPc \in [Threads -> {"idle", "lock", "unlock", "notify"}]
        /\ errPc \in [Threads -> {"none", "status", "node", "pending",
                                  "pause", "notify"}]
        /\ errArg \in [Threads -> {OverflowError, HandlerError("local"),
                                   HandlerError("distant")}]
        /\ EventThread \in Threads
    BY DEF TypeInv, TypeOK, PushType, ErrorType, Threads
  <1>1. CASE UNCHANGED vars
    BY <1>1 DEF vars
  <1>2. ASSUME NEW t \in Threads, setError(t) PROVE OneReporter'
    BY <1>0, <1>2 DEF setError, StoreErrorField, ErrorPause, ErrorNotify
  <1>3. ASSUME NEW t \in Threads, push(t) PROVE OneReporter'
    BY <1>0, <1>3 DEF push, PushStore, PushFullError, PushUnlock,
       PushFullDrop, PushNotify
  <1>4. ASSUME NEW t \in Threads, NEW k \in Kinds, PushCheck(t, k)
        PROVE  OneReporter'
    BY <1>0, <1>4 DEF PushCheck
  <1>5. CASE ExecFails
    <2>1. HandlerError(msg.kind.dest) \in HandlerErrors
      BY DEF HandlerError, HandlerErrors
    <2> QED
      BY <1>0, <1>5, <2>1 DEF ExecFails, HandlerReturns, StartError, AtExec
  <1>6. CASE execute /\ ~ ExecFails
    <2>1. UNCHANGED <<pushPc, errPc, errArg>> /\ errPc[EventThread] = "none"
      BY <1>6 DEF execute, ExecOuter, ExecFlags, ExecIsEmpty, ExecPop,
         ExecExpired, ExecDispatch, ExecSucceeds, HandlerReturns,
         ExecTail, ExecWait, ExecWaitZephyr, ExecClearZephyr, AtExec
    <2> QED
      BY <2>1
  <1>7. CASE event_thread_function
    <2>1. UNCHANGED <<pushPc, errPc, errArg>> /\ errPc[EventThread] = "none"
      BY <1>7 DEF event_thread_function, EvtReturned, EvtReadStatus,
         EvtReadNode, EvtPausePeer, EvtResume, AtExec
    <2> QED
      BY <2>1
  <1>8. CASE CtlPause \/ CtlResume \/ CtlEnd
    BY <1>8 DEF CtlPause, CtlResume, CtlEnd
  <1>9. CASE CtlContinue
    BY <1>9 DEF CtlContinue, CtlPauseNotify, CtlPaused, CtlClear,
       CtlClearPending, CtlClearFields, CtlEndNotify
  <1> QED
    BY <1>1, <1>2, <1>3, <1>4, <1>5, <1>6, <1>7, <1>8, <1>9 DEF Next

LEMMA ReportStep ==
  ASSUME TypeInv, ParkInv, WholeInv, ~ OverflowIsError, [Next]_vars
  PROVE  FieldsStored' /\ ReportFollows'
  <1> USE ConstantsAssumption
      DEF WholeInv, OneReporter, FieldsStored, ReportFollows, Whole
  <1>0. /\ errPc \in [Threads -> {"none", "status", "node", "pending",
                                  "pause", "notify"}]
        /\ error \in [pending : BOOLEAN, status : {"CG_SUCCESS",
                        "CG_EVENT_QUEUE_FULL", "nodeStatus"},
                       node : {"none", "src", "dst"}]
        /\ errArg \in [Threads -> {OverflowError, HandlerError("local"),
                                   HandlerError("distant")}]
        /\ report \in ErrorRecord
        /\ EventThread \in Threads
    BY DEF TypeInv, TypeOK, ErrorType, ExecType, Threads
  <1>1. CASE UNCHANGED vars
    BY <1>1 DEF vars
  <1>2. ASSUME NEW t \in Threads, setError(t)
        PROVE  FieldsStored' /\ ReportFollows'
    <2>1. /\ t = EventThread /\ execPc = "flags"
          /\ errArg[t] \in HandlerErrors /\ errPc[t] # "none"
      BY <1>2 DEF setError, StoreErrorField, ErrorPause, ErrorNotify
    <2>2. CASE StoreErrorField(t)
      BY <1>0, <2>1, <2>2 DEF StoreErrorField, ParkInv, Stopped
    <2>3. CASE ErrorPause(t)
      BY <1>0, <2>1, <2>3 DEF ErrorPause
    <2>4. CASE ErrorNotify(t)
      BY <1>0, <2>1, <2>4 DEF ErrorNotify
    <2> QED
      BY <1>2, <2>2, <2>3, <2>4 DEF setError
  <1>3. ASSUME NEW t \in Threads, push(t)
        PROVE  FieldsStored' /\ ReportFollows'
    BY <1>3 DEF push, PushStore, PushFullError, PushUnlock,
       PushFullDrop, PushNotify
  <1>4. ASSUME NEW t \in Threads, NEW k \in Kinds, PushCheck(t, k)
        PROVE  FieldsStored' /\ ReportFollows'
    BY <1>4 DEF PushCheck
  <1>5. CASE ExecFails
    BY <1>0, <1>5 DEF ExecFails, HandlerReturns, StartError, AtExec
  <1>6. CASE execute /\ ~ ExecFails
    <2>1. /\ UNCHANGED <<error, errPc, errArg, report, ctlPc>>
          /\ execPc \notin {"readStatus", "readNode"}
          /\ execPc' \notin {"readStatus", "readNode"}
      BY <1>6 DEF execute, ExecOuter, ExecFlags, ExecIsEmpty, ExecPop,
         ExecExpired, ExecDispatch, ExecSucceeds, HandlerReturns, LeaveExec,
         ExecTail, ExecWait, ExecWaitZephyr, ExecClearZephyr, AtExec
    <2> QED
      BY <2>1
  <1>7. CASE event_thread_function
    <2>1. CASE EvtReturned
      BY <1>0, <2>1 DEF EvtReturned, AtExec
    <2>2. CASE EvtReadStatus
      BY <1>0, <2>2 DEF EvtReadStatus, AtExec, ErrorRecord
    <2>3. CASE EvtReadNode
      <3>1. PICK e \in HandlerErrors : /\ error.status = e.status
                                      /\ error.node = e.node
        BY <2>3 DEF EvtReadNode, AtExec
      <3>2. /\ report' = [report EXCEPT !.node = error.node]
            /\ report.status = error.status
        BY <2>3 DEF EvtReadNode, AtExec
      <3>3. report' = [status |-> e.status, node |-> e.node]
        BY <1>0, <3>1, <3>2 DEF ErrorRecord
      <3>4. report' = e
        BY <3>3 DEF HandlerErrors, HandlerError
      <3> QED
        BY <2>3, <3>4 DEF EvtReadNode, AtExec
    <2>4. CASE EvtPausePeer \/ EvtResume
      BY <2>4 DEF EvtPausePeer, EvtResume, AtExec
    <2> QED
      BY <1>7, <2>1, <2>2, <2>3, <2>4 DEF event_thread_function
  <1>8. CASE CtlPause \/ CtlResume \/ CtlEnd
    BY <1>8 DEF CtlPause, CtlResume, CtlEnd
  <1>9. CASE CtlContinue
    <2>1. CASE CtlClearPending \/ CtlClearFields
      <3>1. execPc = "parked"
        BY <2>1 DEF CtlClearPending, CtlClearFields, Stopped, ParkInv
      <3>2. errPc[EventThread] = "none"
        BY <1>0, <3>1
      <3> QED
        BY <1>0, <2>1, <3>1, <3>2 DEF CtlClearPending, CtlClearFields
    <2>2. CASE CtlPauseNotify \/ CtlPaused \/ CtlClear \/ CtlEndNotify
      BY <2>2 DEF CtlPauseNotify, CtlPaused, CtlClear, CtlEndNotify
    <2> QED
      BY <1>9, <2>1, <2>2 DEF CtlContinue
  <1> QED
    BY <1>1, <1>2, <1>3, <1>4, <1>5, <1>6, <1>7, <1>8, <1>9 DEF Next

(* The platform never changes.                                              *)
LEMMA PlatformStays == [Next]_vars => UNCHANGED platform
  <1> SUFFICES ASSUME Next PROVE UNCHANGED platform
    BY DEF vars
  <1>1. ASSUME NEW t \in Threads, setError(t) \/ push(t)
        PROVE  UNCHANGED platform
    BY <1>1 DEF setError, StoreErrorField, ErrorPause, ErrorNotify, push,
       PushStore, PushFullError, PushUnlock, PushFullDrop, PushNotify
  <1>2. ASSUME NEW t \in Threads, NEW k \in Kinds, PushCheck(t, k)
        PROVE  UNCHANGED platform
    BY <1>2 DEF PushCheck
  <1>3. CASE execute
    BY <1>3 DEF execute, ExecOuter, ExecFlags, ExecIsEmpty, ExecPop,
       ExecExpired, ExecDispatch, ExecSucceeds, ExecFails, HandlerReturns,
       ExecTail, ExecWait, ExecWaitZephyr, ExecClearZephyr
  <1>4. CASE event_thread_function
    BY <1>4 DEF event_thread_function, EvtReturned, EvtReadStatus,
       EvtReadNode, EvtPausePeer, EvtResume
  <1>5. CASE CtlPause \/ CtlResume \/ CtlEnd \/ CtlContinue
    BY <1>5 DEF CtlPause, CtlResume, CtlEnd, CtlContinue, CtlPauseNotify,
       CtlPaused, CtlClear, CtlClearPending, CtlClearFields, CtlEndNotify
  <1> QED
    BY <1>1, <1>2, <1>3, <1>4, <1>5 DEF Next

(* What consumeError() returns on CMSIS-RTOS and Zephyr is the error of one  *)
(* setError(), for any number of threads that push, fail and are resumed:   *)
(* its status and its node belong together.                                 *)
THEOREM ReportsAreWhole == Spec => []ReportIsWhole
  <1> DEFINE Dropped == ~ OverflowIsError => WholeInv
  <1>1. Init => ParkInv /\ Dropped
    BY DEF Init, ParkInv, Stopped, WholeInv, OneReporter, FieldsStored,
       ReportFollows, CleanError, Threads
  <1>2. TypeInv /\ ParkInv /\ Dropped /\ [Next]_vars => ParkInv' /\ Dropped'
    BY ParkStep, PlatformStays, OneReporterStep, ReportStep
       DEF WholeInv, OverflowIsError
  <1>3. Dropped => ReportIsWhole
    BY DEF WholeInv, ReportFollows, ReportIsWhole, HandlerErrors
  <1> HIDE DEF Dropped
  <1> QED
    BY TypeInit, TypeStep, <1>1, <1>2, <1>3, PTL DEF Spec
-----------------------------------------------------------------------------
(* The refinement: the rings, read from their read index on, are bounded    *)
(* first-in first-out sequences, and execute() takes the oldest event of    *)
(* the highest level.                                                       *)

(* The n slots of a ring q from its index r on.                             *)
Window(q, r, n) == [i \in 1 .. n |-> q[Advanced(r, i - 1)]]

LEMMA ContentsIsWindow ==
  ASSUME NEW p \in Levels
  PROVE  Contents(p) = Window(queue[p], read[p], nb_elems[p])
  BY DEF Contents, Window

(* A window is a sequence.                                                  *)
LEMMA WindowType ==
  ASSUME NEW S, NEW q \in [Slots -> S], NEW r \in Slots,
         NEW n \in 0 .. QueueMax
  PROVE  /\ Window(q, r, n) \in Seq(S)
         /\ Len(Window(q, r, n)) = n
         /\ \A i \in 1 .. n : Window(q, r, n)[i] = q[Advanced(r, i - 1)]
  <1> USE ConstantsAssumption
  <1>1. \A i \in 1 .. n : i - 1 \in 0 .. QueueMax
    OBVIOUS
  <1>2. \A i \in 1 .. n : Advanced(r, i - 1) \in Slots
    BY <1>1, AdvancedType
  <1>3. n \in Nat
    OBVIOUS
  <1>4. Window(q, r, n) \in [1 .. n -> S]
    BY <1>2 DEF Window
  <1>5. Window(q, r, n) \in Seq(S)
    BY <1>3, <1>4, SeqDef
  <1>6. Len(Window(q, r, n)) = n
    BY <1>3, <1>4, <1>5, LenProperties
  <1> QED
    BY <1>5, <1>6 DEF Window

(* The indices of a window are distinct.                                    *)
LEMMA AdvancedDistinct ==
  ASSUME NEW r \in Slots, NEW i \in 0 .. QueueMax - 1,
         NEW j \in 0 .. QueueMax - 1, i # j
  PROVE  Advanced(r, i) # Advanced(r, j)
  BY ConstantsAssumption DEF Advanced, Slots

(* Storing after the last slot of the window appends to it.                 *)
LEMMA WindowAppend ==
  ASSUME NEW S, NEW q \in [Slots -> S], NEW r \in Slots,
         NEW n \in 0 .. QueueMax - 1, NEW m \in S
  PROVE  Window([q EXCEPT ![Advanced(r, n)] = m], r, n + 1)
           = Append(Window(q, r, n), m)
  <1> USE ConstantsAssumption
  <1> DEFINE w  == Advanced(r, n)
             q2 == [q EXCEPT ![w] = m]
             s  == Window(q, r, n)
             s2 == Window(q2, r, n + 1)
  <1>1. w \in Slots /\ n \in 0 .. QueueMax /\ n + 1 \in 0 .. QueueMax
    BY AdvancedType
  <1>2. q2 \in [Slots -> S]
    BY <1>1
  <1> HIDE ConstantsAssumption DEF q2, w
  <1>3. /\ s \in Seq(S) /\ Len(s) = n
        /\ \A i \in 1 .. n : s[i] = q[Advanced(r, i - 1)]
    BY <1>1, WindowType, ZenonT(60)
  <1>4. /\ s2 \in Seq(S) /\ Len(s2) = n + 1
        /\ \A i \in 1 .. n + 1 : s2[i] = q2[Advanced(r, i - 1)]
    BY <1>1, <1>2, WindowType, ZenonT(60)
  <1> HIDE DEF s, s2
  <1>5. /\ Append(s, m) \in Seq(S) /\ Len(Append(s, m)) = n + 1
        /\ \A i \in 1 .. n : Append(s, m)[i] = s[i]
        /\ Append(s, m)[n + 1] = m
    BY <1>3, AppendProperties
  <1>6. ASSUME NEW i \in 1 .. n + 1 PROVE s2[i] = Append(s, m)[i]
    <2>1. CASE i = n + 1
      <3>1. s2[i] = q2[w]
        BY <1>4, <2>1 DEF w
      <3> QED
        BY <1>1, <1>5, <2>1, <3>1 DEF q2
    <2>2. CASE i # n + 1
      <3>1. i - 1 \in 0 .. QueueMax - 1 /\ i - 1 # n /\ i \in 1 .. n
        BY <2>2, ConstantsAssumption
      <3>2. Advanced(r, i - 1) # w
        BY <3>1, ConstantsAssumption, AdvancedDistinct DEF w
      <3>3. Advanced(r, i - 1) \in Slots
        BY <3>1, AdvancedType, ConstantsAssumption
      <3>4. q2[Advanced(r, i - 1)] = q[Advanced(r, i - 1)]
        BY <3>2, <3>3 DEF q2
      <3> QED
        BY <1>3, <1>4, <1>5, <3>1, <3>4
    <2> QED
      BY <2>1, <2>2
  <1>7. s2 = Append(s, m)
    BY <1>4, <1>5, <1>6, SeqEqual
  <1> QED
    BY <1>7 DEF s2, s, q2, w

(* Emptying the first slot and moving the read index drops the first.       *)
LEMMA WindowTail ==
  ASSUME NEW S, NEW q \in [Slots -> S], NEW r \in Slots,
         NEW n \in 1 .. QueueMax, NEW e \in S
  PROVE  /\ Window(q, r, n) # <<>>
         /\ Head(Window(q, r, n)) = q[r]
         /\ Window([q EXCEPT ![r] = e], Wrapped(r + 1), n - 1)
              = Tail(Window(q, r, n))
  <1> USE ConstantsAssumption
  <1> DEFINE q2 == [q EXCEPT ![r] = e]
             r2 == Wrapped(r + 1)
             s  == Window(q, r, n)
             s2 == Window(q2, r2, n - 1)
  <1>1. r2 \in Slots /\ n \in 0 .. QueueMax /\ n - 1 \in 0 .. QueueMax
    BY WrappedType
  <1>2. q2 \in [Slots -> S]
    OBVIOUS
  <1> HIDE ConstantsAssumption DEF q2, r2
  <1>3. /\ s \in Seq(S) /\ Len(s) = n
        /\ \A i \in 1 .. n : s[i] = q[Advanced(r, i - 1)]
    BY <1>1, WindowType, ZenonT(60)
  <1>4. /\ s2 \in Seq(S) /\ Len(s2) = n - 1
        /\ \A i \in 1 .. n - 1 : s2[i] = q2[Advanced(r2, i - 1)]
    BY <1>1, <1>2, WindowType, ZenonT(60)
  <1> HIDE DEF s, s2
  <1> USE ConstantsAssumption
  <1>5. s # <<>>
    <2>1. Len(s) # 0
      BY <1>3
    <2> QED
      BY <2>1, EmptySeq
  <1>6. Head(s) = q[r]
    <2>1. s[1] = q[Advanced(r, 0)]
      BY <1>3
    <2>2. Advanced(r, 0) = r
      BY DEF Advanced, Slots
    <2>3. Head(s) = s[1]
      BY <1>3, <1>5
    <2> QED
      BY <2>1, <2>2, <2>3
  <1>7. /\ Tail(s) \in Seq(S) /\ Len(Tail(s)) = n - 1
        /\ \A i \in 1 .. n - 1 : Tail(s)[i] = s[i + 1]
    BY <1>3, <1>5, HeadTailProperties
  <1>8. ASSUME NEW i \in 1 .. n - 1 PROVE s2[i] = Tail(s)[i]
    <2>1. Advanced(r2, i - 1) = Advanced(r, i) /\ Advanced(r, i) # r
      BY DEF r2, Advanced, Wrapped, Slots
    <2>2. Advanced(r, i) \in Slots
      BY AdvancedType
    <2>3. s2[i] = q[Advanced(r, i)]
      BY <1>4, <2>1, <2>2 DEF q2
    <2>4. i + 1 \in 1 .. n /\ (i + 1) - 1 = i
      OBVIOUS
    <2>5. Tail(s)[i] = q[Advanced(r, i)]
      BY <1>3, <1>7, <2>4
    <2> QED
      BY <2>3, <2>5
  <1>9. s2 = Tail(s)
    BY <1>4, <1>7, <1>8, SeqEqual
  <1> QED
    BY <1>5, <1>6, <1>9 DEF s2, s, q2, r2

(* An empty window is the empty sequence, and only an empty one.            *)
LEMMA WindowEmpty ==
  ASSUME NEW S, NEW q \in [Slots -> S], NEW r \in Slots,
         NEW n \in 0 .. QueueMax
  PROVE  Window(q, r, n) = <<>> <=> n = 0
  <1>1. Window(q, r, n) \in Seq(S) /\ Len(Window(q, r, n)) = n
    BY WindowType
  <1>2. <<>> \in Seq(S) /\ Len(<<>>) = 0
    BY EmptySeq
  <1> QED
    BY <1>1, <1>2, SeqEqual
-----------------------------------------------------------------------------
(* The steps of the queue, seen through the mapping.                        *)

(* The event thread holds a message from the moment it takes one out of a   *)
(* ring until its handler has returned.                                     *)
HandInv == msg # NoMessage <=> execPc \in {"dispatch", "running"}

RefineInv == TypeInv /\ RingConsistent /\ HandInv

(* A ring no step has touched shows the same sequence.                      *)
LEMMA SameContents ==
  ASSUME NEW p \in Levels, queue'[p] = queue[p], read'[p] = read[p],
         nb_elems'[p] = nb_elems[p]
  PROVE  Contents(p)' = Contents(p)
  BY DEF Contents

LEMMA ContentsType ==
  ASSUME RingType, NEW p \in Levels
  PROVE  /\ Len(Contents(p)) = nb_elems[p]
         /\ Contents(p) = <<>> <=> nb_elems[p] = 0
  <1> DEFINE M == Message \cup {NoMessage}
             c == queue[p]
             r == read[p]
             n == nb_elems[p]
  <1>1. c \in [Slots -> M] /\ r \in Slots /\ n \in 0 .. QueueMax
    BY DEF RingType
  <1>2. Contents(p) = Window(c, r, n)
    BY ContentsIsWindow
  <1> HIDE DEF M, c, r, n
  <1>3. /\ Window(c, r, n) \in Seq(M) /\ Len(Window(c, r, n)) = n
        /\ \A i \in 1 .. n : Window(c, r, n)[i] = c[Advanced(r, i - 1)]
    BY <1>1, WindowType, ZenonT(60)
  <1>4. Window(c, r, n) = <<>> <=> n = 0
    BY <1>1, WindowEmpty, Zenon
  <1> QED
    BY <1>2, <1>3, <1>4 DEF n

(* A store of push() puts the message at the end of its level's sequence.   *)
LEMMA EnqueueIsPut ==
  ASSUME RingType, RingConsistent, NEW m \in Message,
         nb_elems[LevelOf(m)] < QueueMax, Enqueue(m), UNCHANGED msg
  PROVE  PQ!Put(m)
  <1> DEFINE p == LevelOf(m)
             M == Message \cup {NoMessage}
  <1>1. p \in Levels
    BY LevelOfType
  <1> HIDE DEF p, M
  <1>2. ASSUME NEW q \in Levels, q # p PROVE Contents(q)' = Contents(q)
    BY <1>1, <1>2, SameContents DEF Enqueue, RingType, p
  <1>3. Contents(p)' = Append(Contents(p), m)
    <2> DEFINE r == read[p]
               n == nb_elems[p]
               c == queue[p]
    <2>1. /\ r \in Slots /\ n \in 0 .. QueueMax - 1
          /\ c \in [Slots -> M] /\ m \in M
      BY <1>1, ConstantsAssumption DEF RingType, p, M
    <2>2. write[p] = Advanced(r, n)
      BY <1>1 DEF RingConsistent, RingAt
    <2>3. /\ read'[p] = r /\ nb_elems'[p] = n + 1
          /\ queue'[p] = [c EXCEPT ![Advanced(r, n)] = m]
      BY <1>1, <2>2 DEF Enqueue, RingType, p
    <2>4. Contents(p)' = Window([c EXCEPT ![Advanced(r, n)] = m], r, n + 1)
      BY <2>3 DEF Contents, Window
    <2>5. Contents(p) = Window(c, r, n)
      BY <1>1, ContentsIsWindow
    <2> HIDE DEF r, n, c
    <2>6. Window([c EXCEPT ![Advanced(r, n)] = m], r, n + 1)
            = Append(Window(c, r, n), m)
      BY <2>1, WindowAppend, Zenon
    <2> QED
      BY <2>4, <2>5, <2>6
  <1>4. Len(Contents(p)) < QueueMax
    BY <1>1, ContentsType DEF p
  <1>5. [q \in Levels |-> Contents(q)']
          = [[q \in Levels |-> Contents(q)] EXCEPT ![p] = Append(@, m)]
    BY <1>1, <1>2, <1>3
  <1> QED
    BY <1>1, <1>4, <1>5 DEF PQ!Put, p

(* What execute() takes out is the head of the highest non-empty sequence.  *)
LEMMA DequeueIsTake ==
  ASSUME RingType, NEW p \in Levels, TopLevel(p), Dequeue(p),
         msg = NoMessage, msg' = queue[p][read[p]]
  PROVE  PQ!Take(p)
  <1> DEFINE M == Message \cup {NoMessage}
             r == read[p]
             n == nb_elems[p]
             c == queue[p]
  <1>1. /\ r \in Slots /\ n \in 1 .. QueueMax
        /\ c \in [Slots -> M] /\ NoMessage \in M
    BY ConstantsAssumption DEF RingType, TopLevel
  <1>2. ASSUME NEW q \in Levels, q # p PROVE Contents(q)' = Contents(q)
    BY <1>2, SameContents DEF Dequeue, RingType
  <1>3. /\ read'[p] = Wrapped(r + 1) /\ nb_elems'[p] = n - 1
        /\ queue'[p] = [c EXCEPT ![r] = NoMessage]
    BY DEF Dequeue, RingType
  <1>4. /\ Contents(p) = Window(c, r, n)
        /\ Contents(p)' = Window([c EXCEPT ![r] = NoMessage],
                                 Wrapped(r + 1), n - 1)
    BY <1>3 DEF Contents, Window
  <1>5. msg' = c[r]
    OBVIOUS
  <1> HIDE DEF M, r, n, c
  <1>6. /\ Contents(p) # <<>>
        /\ msg' = Head(Contents(p))
        /\ Contents(p)' = Tail(Contents(p))
    <2>1. /\ Window(c, r, n) # <<>>
          /\ Head(Window(c, r, n)) = c[r]
          /\ Window([c EXCEPT ![r] = NoMessage], Wrapped(r + 1), n - 1)
               = Tail(Window(c, r, n))
      BY <1>1, WindowTail, Zenon
    <2> QED
      BY <1>4, <1>5, <2>1
  <1>7. \A q \in Levels : q > p => Contents(q) = <<>>
    BY ContentsType DEF TopLevel
  <1>8. [q \in Levels |-> Contents(q)']
          = [[q \in Levels |-> Contents(q)] EXCEPT ![p] = Tail(@)]
    BY <1>2, <1>6
  <1> QED
    BY <1>6, <1>7, <1>8 DEF PQ!Take, PQ!Levels, Levels

(* clear() empties every sequence.                                          *)
LEMMA ClearIsFlush ==
  ASSUME RingType', CtlClear
  PROVE  PQ!Flush
  <1>1. ASSUME NEW p \in Levels PROVE Contents(p)' = <<>>
    <2>1. nb_elems'[p] = 0
      BY DEF CtlClear
    <2> QED
      BY <2>1 DEF Contents
  <1>2. [p \in Levels |-> Contents(p)'] = [p \in Levels |-> <<>>]
    BY <1>1
  <1> QED
    BY <1>2 DEF PQ!Flush, PQ!Levels, Levels, CtlClear, execVars

(* A step that leaves the rings and the message alone stutters.             *)
LEMMA UnchangedStutters ==
  ASSUME UNCHANGED <<ringVars, msg>>
  PROVE  UNCHANGED PQ!pqVars
  BY DEF PQ!pqVars, Contents, ringVars

(* The hand is empty at the start and between two events.                   *)
LEMMA HandStep ==
  TypeInv /\ RingConsistent /\ HandInv /\ [Next]_vars => HandInv'
  <1> SUFFICES ASSUME TypeInv, RingConsistent, HandInv, [Next]_vars
               PROVE  HandInv'
    OBVIOUS
  <1> USE DEF HandInv, ringVars, flagVars, errVars, pushVars, execVars,
              ctlVars, notExec, notCtl
  <1>1. CASE UNCHANGED vars
    BY <1>1 DEF vars
  <1>2. ASSUME NEW t \in Threads, setError(t) PROVE HandInv'
    BY <1>2 DEF setError, StoreErrorField, ErrorPause, ErrorNotify
  <1>3. ASSUME NEW t \in Threads, push(t) PROVE HandInv'
    BY <1>3 DEF push, PushStore, PushFullError, PushUnlock, PushFullDrop,
       PushNotify
  <1>4. ASSUME NEW t \in Threads, NEW k \in Kinds, PushCheck(t, k)
        PROVE  HandInv'
    BY <1>4 DEF PushCheck
  <1>5. CASE execute
    <2>1. CASE ExecOuter
      BY <2>1 DEF ExecOuter, LeaveExec, AtExec
    <2>2. CASE ExecFlags
      BY <2>2 DEF ExecFlags, LeaveExec, AtExec
    <2>3. CASE ExecIsEmpty
      BY <2>3 DEF ExecIsEmpty, AtExec
    <2>4. CASE ExecPop
      <3>1. CASE execPc' = "flags" /\ UNCHANGED <<ringVars, msg>>
        BY <2>4, <3>1 DEF ExecPop, AtExec
      <3>2. ASSUME NEW p \in Levels, TopLevel(p), msg' = queue[p][read[p]],
                   execPc' = "dispatch"
            PROVE  HandInv'
        <4>1. /\ nb_elems[p] \in 1 .. QueueMax /\ read[p] \in Slots
              /\ Advanced(read[p], 0) = read[p]
          BY <3>2, ConstantsAssumption
             DEF TypeInv, TypeOK, RingType, TopLevel, Advanced, Slots
        <4>2. Live(p, read[p])
          BY <4>1, ConstantsAssumption DEF Live
        <4>3. msg' \in Message
          BY <3>2, <4>1, <4>2 DEF RingConsistent, RingAt
        <4> QED
          BY <3>2, <4>3, ConstantsAssumption
      <3> QED
        BY <2>4, <3>1, <3>2 DEF ExecPop
    <2>5. CASE ExecExpired
      BY <2>5 DEF ExecExpired
    <2>6. CASE ExecDispatch
      BY <2>6 DEF ExecDispatch, AtExec
    <2>7. CASE ExecSucceeds
      BY <2>7 DEF ExecSucceeds, HandlerReturns
    <2>8. CASE ExecFails
      BY <2>8 DEF ExecFails, HandlerReturns
    <2>9. CASE ExecTail
      BY <2>9 DEF ExecTail, LeaveExec, AtExec
    <2>10. CASE ExecWait \/ ExecWaitZephyr \/ ExecClearZephyr
      BY <2>10 DEF ExecWait, ExecWaitZephyr, ExecClearZephyr, AtExec
    <2> QED
      BY <1>5, <2>1, <2>2, <2>3, <2>4, <2>5, <2>6, <2>7, <2>8, <2>9, <2>10
         DEF execute
  <1>6. CASE event_thread_function
    BY <1>6 DEF event_thread_function, EvtReturned, EvtReadStatus,
       EvtReadNode, EvtPausePeer, EvtResume, AtExec
  <1>7. CASE CtlPause \/ CtlResume \/ CtlEnd
    BY <1>7 DEF CtlPause, CtlResume, CtlEnd
  <1>8. CASE CtlContinue
    BY <1>8 DEF CtlContinue, CtlPauseNotify, CtlPaused, CtlClear,
       CtlClearPending, CtlClearFields, CtlEndNotify
  <1> QED
    BY <1>1, <1>2, <1>3, <1>4, <1>5, <1>6, <1>7, <1>8 DEF Next

(* Every step of the queue is a step of the abstract one, or none: a store  *)
(* is a Put, a removal a Take, the end of a handler or an expiry a Finish,  *)
(* and clear() a Flush.                                                     *)
LEMMA RefinementStep ==
  TypeInv /\ TypeInv' /\ RingConsistent /\ HandInv /\ [Next]_vars
    => [PQ!Next]_(PQ!pqVars)
  <1> SUFFICES ASSUME TypeInv, TypeInv', RingConsistent, HandInv, [Next]_vars
               PROVE  PQ!Next \/ UNCHANGED PQ!pqVars
    OBVIOUS
  <1> USE DEF ringVars, flagVars, errVars, pushVars, execVars, ctlVars,
              notExec, notCtl
  <1>1. RingType /\ RingType'
    BY DEF TypeInv, TypeOK
  <1>2. CASE UNCHANGED <<ringVars, msg>>
    BY <1>2, UnchangedStutters
  <1>3. ASSUME NEW t \in Threads, PushStore(t) PROVE PQ!Next
    <2>1. pushed[t] \in Message
      BY <1>3 DEF PushStore, TypeInv, PushHolds
    <2>2. PQ!Put(pushed[t])
      BY <1>1, <1>3, <2>1, EnqueueIsPut DEF PushStore
    <2> QED
      BY <2>1, <2>2 DEF PQ!Next
  <1>4. CASE ExecPop
    <2>1. ASSUME NEW p \in Levels, TopLevel(p), Dequeue(p),
                 msg' = queue[p][read[p]]
          PROVE  PQ!Next
      <3>1. msg = NoMessage
        BY <1>4 DEF ExecPop, AtExec, HandInv
      <3>2. PQ!Take(p)
        BY <1>1, <2>1, <3>1, DequeueIsTake
      <3> QED
        BY <3>2 DEF PQ!Next, PQ!Levels, Levels
    <2> QED
      BY <1>2, <1>4, <2>1 DEF ExecPop
  <1>5. CASE ExecExpired \/ ExecSucceeds \/ ExecFails
    <2>1. UNCHANGED ringVars /\ msg' = NoMessage
      BY <1>5 DEF ExecExpired, ExecSucceeds, ExecFails, HandlerReturns
    <2>2. msg # NoMessage
      BY <1>5 DEF ExecExpired, ExecSucceeds, ExecFails, HandlerReturns,
         AtExec, HandInv
    <2>3. PQ!Finish
      BY <2>1, <2>2 DEF PQ!Finish, Contents
    <2> QED
      BY <2>3 DEF PQ!Next
  <1>6. CASE CtlClear
    BY <1>1, <1>6, ClearIsFlush DEF PQ!Next
  <1>7. CASE UNCHANGED vars
    BY <1>2, <1>7 DEF vars
  <1>8. ASSUME NEW t \in Threads, setError(t) \/ (push(t) /\ ~ PushStore(t))
        PROVE  UNCHANGED <<ringVars, msg>>
    BY <1>8 DEF setError, StoreErrorField, ErrorPause, ErrorNotify, push,
       PushFullError, PushUnlock, PushFullDrop, PushNotify
  <1>9. ASSUME NEW t \in Threads, NEW k \in Kinds, PushCheck(t, k)
        PROVE  UNCHANGED <<ringVars, msg>>
    BY <1>9 DEF PushCheck
  <1>10. ASSUME execute, ~ ExecPop,
                ~ (ExecExpired \/ ExecSucceeds \/ ExecFails)
         PROVE  UNCHANGED <<ringVars, msg>>
    BY <1>10 DEF execute, ExecOuter, ExecFlags, ExecIsEmpty, ExecDispatch,
       ExecTail, ExecWait, ExecWaitZephyr, ExecClearZephyr
  <1>11. ASSUME event_thread_function PROVE UNCHANGED <<ringVars, msg>>
    BY <1>11 DEF event_thread_function, EvtReturned, EvtReadStatus,
       EvtReadNode, EvtPausePeer, EvtResume
  <1>12. ASSUME CtlPause \/ CtlResume \/ CtlEnd
         PROVE  UNCHANGED <<ringVars, msg>>
    BY <1>12 DEF CtlPause, CtlResume, CtlEnd
  <1>13. ASSUME CtlContinue, ~ CtlClear PROVE UNCHANGED <<ringVars, msg>>
    BY <1>13 DEF CtlContinue, CtlPauseNotify, CtlPaused, CtlClearPending,
       CtlClearFields, CtlEndNotify
  <1> QED
    BY <1>2, <1>3, <1>4, <1>5, <1>6, <1>7, <1>8, <1>9, <1>10, <1>11, <1>12,
       <1>13 DEF Next, push

(* The empty rings are the empty sequences, and the hand is empty.          *)
LEMMA RefinementInit == Init => PQ!Init /\ HandInv
  <1> SUFFICES ASSUME Init PROVE PQ!Init /\ HandInv
    OBVIOUS
  <1>1. ASSUME NEW p \in Levels PROVE Contents(p) = <<>>
    BY DEF Init, Contents
  <1>2. [p \in Levels |-> Contents(p)] = [p \in Levels |-> <<>>]
    BY <1>1
  <1> QED
    BY <1>2 DEF Init, HandInv, PQ!Init, PQ!Levels, Levels

(* The event queue implements the abstract priority queue, whatever the     *)
(* interleaving of push(), execute(), clear() and setError() and however    *)
(* many threads, priorities and slots there are: no event is lost,          *)
(* duplicated or reordered within its level, none overtakes one of a higher *)
(* level, and the event thread has one event in hand at a time.             *)
THEOREM QueueImplementsPriorityQueue == Spec => ImplementsPriorityQueue
  <1>1. RefineInv /\ [Next]_vars => RefineInv'
    BY TypeStep, RingStep, HandStep DEF RefineInv
  <1>2. Init => RefineInv /\ PQ!Init
    BY TypeInit, RingInit, RefinementInit DEF RefineInv
  <1>3. RefineInv /\ RefineInv' /\ [Next]_vars => [PQ!Next]_(PQ!pqVars)
    BY RefinementStep DEF RefineInv
  <1> QED
    BY <1>1, <1>2, <1>3, PTL DEF Spec, ImplementsPriorityQueue, PQ!Spec
=============================================================================

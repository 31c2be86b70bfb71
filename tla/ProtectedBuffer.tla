--------------------------- MODULE ProtectedBuffer ---------------------------
(***************************************************************************)
(* arm_cmsis_stream::ProtectedBuffer (platform/StreamNode.hpp): a handle   *)
(* is a shared pointer to an object and a shared pointer to the mutex the  *)
(* object was created with.  Handles are copied, moved, reset and dropped  *)
(* by several threads while other threads look at the object under the     *)
(* mutex and ask whether they are its only owner.                          *)
(*                                                                         *)
(* An object and its mutex come from one create_with and share one name.   *)
(* What a thread may do with one and the same handle follows the C++ rule  *)
(* for const and non-const uses: any number of threads may look through a  *)
(* handle (lock, lock_shared, the source of a copy), only one may change   *)
(* it, and then nobody else uses it.                                       *)
(***************************************************************************)
EXTENDS Naturals

CONSTANTS
    Threads, Handles,
    Objects,        \* what create_with can return; a freed one is reused
    None,           \* a null shared_ptr
    SelfLock,       \* a thread that locks a mutex it holds: "blocks"
                    \* (std::shared_mutex), "error" (osMutexNew(NULL)) or
                    \* "nests" (k_mutex)
    SharedReaders,  \* TRUE when the read section is a std::shared_lock,
                    \* FALSE when it takes the mutex like a writer
    AssignOver,     \* TRUE when programs also assign to handles in use
    MaxOps          \* bound: operations one thread starts

ASSUME ConstantsAssumption ==
    /\ None \notin Objects
    /\ SelfLock \in {"blocks", "error", "nests"}
    /\ SharedReaders \in BOOLEAN /\ AssignOver \in BOOLEAN
    /\ MaxOps \in Nat

VARIABLES
    obj, mutex,  \* the two pointers of every handle
    op,          \* per thread, the operation under way, None when idle
    pc,          \* per thread, how far it is
    writing,     \* per thread, the mutexes it holds exclusively
    reading,     \* per thread, the mutexes it holds shared
    told,        \* per thread, the isShared argument of its lock
    started      \* per thread, operations started

vars == <<obj, mutex, op, pc, writing, reading, told, started>>

Kinds == {"lock", "lock_shared", "copy", "move", "reset"}
Ops == [kind : Kinds, dst : Handles, src : Handles]

TypeOK ==
    /\ obj \in [Handles -> Objects \cup {None}]
    /\ mutex \in [Handles -> Objects \cup {None}]
    /\ op \in [Threads -> Ops \cup {None}]
    /\ pc \in [Threads -> {"idle", "first", "second", "inside", "rebind"}]
    /\ writing \in [Threads -> SUBSET Objects]
    /\ reading \in [Threads -> SUBSET Objects]
    /\ told \in [Threads -> BOOLEAN]
    /\ started \in [Threads -> 0..MaxOps]

Busy(t) == pc[t] # "idle"

\* use_count() > 1
IsShared(h) == \E g \in Handles \ {h} : obj[g] = obj[h]

\* The handles the operation of thread t looks through, and changes.
Uses(t) == IF Busy(t) THEN {op[t].src, op[t].dst} ELSE {}
Changes(t) == {h \in Uses(t) : \/ op[t].kind \in {"move", "reset"}
                               \/ op[t].kind = "copy" /\ h = op[t].dst}

MayUse(t, h) == \A u \in Threads \ {t} : h \notin Changes(u)
MayChange(t, h) == \A u \in Threads \ {t} : h \notin Uses(u)

-----------------------------------------------------------------------------
(* Starting an operation: the tests made before any mutex is taken.        *)

Begin(t, kind, d, s, where) ==
    /\ op' = [op EXCEPT ![t] = [kind |-> kind, dst |-> d, src |-> s]]
    /\ pc' = [pc EXCEPT ![t] = where]
    /\ UNCHANGED <<writing, reading, told>>

Count(t) ==
    /\ ~Busy(t) /\ started[t] < MaxOps
    /\ started' = [started EXCEPT ![t] = @ + 1]

\* create_with: a new object and its mutex; the result is a temporary that
\* is moved into a handle.
CreateWith(t, d) ==
    /\ Count(t) /\ MayChange(t, d)
    /\ mutex[d] = None
    /\ \E o \in Objects :
          /\ \A h \in Handles : obj[h] # o /\ mutex[h] # o
          /\ obj' = [obj EXCEPT ![d] = o]
          /\ mutex' = [mutex EXCEPT ![d] = o]
    /\ UNCHANGED <<op, pc, writing, reading, told>>

\* lock and lock_shared: nothing to do without a mutex.
StartLock(t, kind, h) ==
    /\ Count(t) /\ MayUse(t, h)
    /\ mutex[h] # None
    /\ Begin(t, kind, h, h, "first")
    /\ UNCHANGED <<obj, mutex>>

StartReset(t, h) ==
    /\ Count(t) /\ MayChange(t, h)
    /\ mutex[h] # None
    /\ Begin(t, "reset", h, h, "first")
    /\ UNCHANGED <<obj, mutex>>

\* The copy and move constructors (the destination has no mutex) and
\* assignments.  With no mutex on either side the destination is cleared;
\* with one on the destination only, the destination is reset.
StartTransfer(t, kind, d, s) ==
    /\ Count(t) /\ d # s /\ MayChange(t, d)
    /\ IF kind = "move" THEN MayChange(t, s) ELSE MayUse(t, s)
    /\ mutex[d] # None => AssignOver
    /\ \/ /\ mutex[s] # None
          /\ Begin(t, kind, d, s, "first")
          /\ UNCHANGED <<obj, mutex>>
       \/ /\ mutex[s] = None /\ mutex[d] # None
          /\ Begin(t, "reset", d, d, "first")
          /\ UNCHANGED <<obj, mutex>>
       \/ /\ mutex[s] = None /\ mutex[d] = None
          /\ obj' = [obj EXCEPT ![d] = None]
          /\ UNCHANGED <<mutex, op, pc, writing, reading, told>>

\* The destructor gives up both pointers without taking the mutex.
Destroy(t, h) ==
    /\ Count(t) /\ MayChange(t, h)
    /\ mutex[h] # None
    /\ obj' = [obj EXCEPT ![h] = None]
    /\ mutex' = [mutex EXCEPT ![h] = None]
    /\ UNCHANGED <<op, pc, writing, reading, told>>

-----------------------------------------------------------------------------
(* The critical sections.                                                  *)

FreeToWrite(t, m) ==
    \A u \in Threads \ {t} : m \notin writing[u] \cup reading[u]
FreeToRead(t, m) == \A u \in Threads \ {t} : m \notin writing[u]

NeedsSecond(t) ==
    /\ op[t].kind \in {"copy", "move"}
    /\ mutex[op[t].dst] # None

\* mutant: the copy constructor copies the pointer without the mutex
EnterFirstUnlessCopy(t) ==
    LET m == mutex[op[t].src] IN
    /\ pc[t] = "first"
    /\ IF op[t].kind = "copy" THEN UNCHANGED writing
       ELSE FreeToWrite(t, m) /\ writing' = [writing EXCEPT ![t] = {m}]
    /\ told' = IF op[t].kind = "lock"
               THEN [told EXCEPT ![t] = IsShared(op[t].src)]
               ELSE told
    /\ pc' = [pc EXCEPT ![t] = IF NeedsSecond(t) THEN "second" ELSE "inside"]
    /\ UNCHANGED <<obj, mutex, op, reading, started>>

\* CG_ENTER_CRITICAL_SECTION on the mutex of the source (or only) handle.
\* lock reads the use count as soon as it holds the mutex.
EnterFirst(t) ==
    LET m == mutex[op[t].src] IN
    /\ pc[t] = "first"
    /\ \/ /\ op[t].kind = "lock_shared" /\ SharedReaders
          /\ FreeToRead(t, m)
          /\ reading' = [reading EXCEPT ![t] = {m}]
          /\ UNCHANGED writing
       \/ /\ ~(op[t].kind = "lock_shared" /\ SharedReaders)
          /\ FreeToWrite(t, m)
          /\ writing' = [writing EXCEPT ![t] = {m}]
          /\ UNCHANGED reading
    /\ told' = IF op[t].kind = "lock"
               THEN [told EXCEPT ![t] = IsShared(op[t].src)]
               ELSE told
    /\ pc' = [pc EXCEPT ![t] = IF NeedsSecond(t) THEN "second" ELSE "inside"]
    /\ UNCHANGED <<obj, mutex, op, started>>

\* The assignment operators also take the mutex of the destination.
EnterSecond(t) ==
    LET m == mutex[op[t].dst] IN
    /\ pc[t] = "second"
    /\ m \in writing[t] => SelfLock = "nests"
    /\ FreeToWrite(t, m)
    /\ writing' = [writing EXCEPT ![t] = @ \cup {m}]
    /\ pc' = [pc EXCEPT ![t] = "inside"]
    /\ UNCHANGED <<obj, mutex, op, reading, told, started>>

Finish(t) ==
    /\ pc' = [pc EXCEPT ![t] = "idle"]
    /\ op' = [op EXCEPT ![t] = None]

\* ... and gives up, the destination unchanged, when that lock is refused.
EnterSecondRefused(t) ==
    /\ pc[t] = "second"
    /\ mutex[op[t].dst] \in writing[t] /\ SelfLock = "error"
    /\ writing' = [writing EXCEPT ![t] = {}]
    /\ Finish(t)
    /\ UNCHANGED <<obj, mutex, reading, told, started>>

\* What is done with the mutex, or the mutexes, held.
Moved(o) ==
    CASE o.kind = "copy"  -> [obj EXCEPT ![o.dst] = obj[o.src]]
      [] o.kind = "move"  -> [obj EXCEPT ![o.dst] = obj[o.src],
                                         ![o.src] = None]
      [] o.kind = "reset" -> [obj EXCEPT ![o.dst] = None]
      [] OTHER            -> obj

\* mutant: an early return leaves a reset without unlocking
LeaveResetLocked(t) ==
    /\ pc[t] = "inside"
    /\ obj' = Moved(op[t])
    /\ writing' = IF op[t].kind = "reset" THEN writing
                  ELSE [writing EXCEPT ![t] = {}]
    /\ reading' = [reading EXCEPT ![t] = {}]
    /\ told' = [told EXCEPT ![t] = FALSE]
    /\ IF op[t].kind \in {"lock", "lock_shared"}
       THEN Finish(t)
       ELSE pc' = [pc EXCEPT ![t] = "rebind"] /\ UNCHANGED op
    /\ UNCHANGED <<mutex, started>>

Leave(t) ==
    /\ pc[t] = "inside"
    /\ obj' = Moved(op[t])
    /\ writing' = [writing EXCEPT ![t] = {}]
    /\ reading' = [reading EXCEPT ![t] = {}]
    /\ told' = [told EXCEPT ![t] = FALSE]
    /\ IF op[t].kind \in {"lock", "lock_shared"}
       THEN Finish(t)
       ELSE pc' = [pc EXCEPT ![t] = "rebind"] /\ UNCHANGED op
    /\ UNCHANGED <<mutex, started>>

\* mutant: a copy into a handle in use keeps the old mutex
ReboundUnlessInUse(o) ==
    CASE o.kind = "copy" /\ mutex[o.dst] = None
                         -> [mutex EXCEPT ![o.dst] = mutex[o.src]]
      [] o.kind = "copy" -> mutex
      [] o.kind = "move"  -> [mutex EXCEPT ![o.dst] = mutex[o.src],
                                           ![o.src] = None]
      [] o.kind = "reset" -> [mutex EXCEPT ![o.dst] = None]

\* The mutex pointer changes after the section is left.
Rebound(o) ==
    CASE o.kind = "copy"  -> [mutex EXCEPT ![o.dst] = mutex[o.src]]
      [] o.kind = "move"  -> [mutex EXCEPT ![o.dst] = mutex[o.src],
                                           ![o.src] = None]
      [] o.kind = "reset" -> [mutex EXCEPT ![o.dst] = None]

Rebind(t) ==
    /\ pc[t] = "rebind"
    /\ mutex' = Rebound(op[t])
    /\ Finish(t)
    /\ UNCHANGED <<obj, writing, reading, told, started>>

-----------------------------------------------------------------------------

Init ==
    /\ obj = [h \in Handles |-> None]
    /\ mutex = [h \in Handles |-> None]
    /\ op = [t \in Threads |-> None]
    /\ pc = [t \in Threads |-> "idle"]
    /\ writing = [t \in Threads |-> {}]
    /\ reading = [t \in Threads |-> {}]
    /\ told = [t \in Threads |-> FALSE]
    /\ started = [t \in Threads |-> 0]

Start(t) ==
    \/ \E d \in Handles : CreateWith(t, d) \/ StartReset(t, d) \/ Destroy(t, d)
    \/ \E h \in Handles, kind \in {"lock", "lock_shared"} :
          StartLock(t, kind, h)
    \/ \E d, s \in Handles, kind \in {"copy", "move"} :
          StartTransfer(t, kind, d, s)

Step(t) ==
    \/ EnterFirst(t) \/ EnterSecond(t) \/ EnterSecondRefused(t)
    \/ Leave(t) \/ Rebind(t)

Next == \E t \in Threads : Start(t) \/ Step(t)

Spec == Init /\ [][Next]_vars

\* A thread that can take its next step takes it: the scheduler runs every
\* thread, a free mutex is given out, and what runs under a mutex returns.
FairSpec == Spec /\ \A t \in Threads : WF_vars(Step(t))

-----------------------------------------------------------------------------
(* What programs rely on.                                                  *)

Locking(t) == pc[t] = "inside" /\ op[t].kind = "lock"
Inside(t) == pc[t] = "inside" /\ op[t].kind \in {"lock", "lock_shared"}

\* A thread that lock() told the object is not shared stays its only owner
\* until it leaves, so that it may change the data in place: no handle
\* anywhere comes to refer to the object in the meantime.
AloneIsTrusted ==
    \A t \in Threads :
        Locking(t) /\ ~told[t] => ~IsShared(op[t].src)

\* While lock() runs its function on an object nobody else is inside a lock
\* or lock_shared on the same object, through whatever handle.
WriterIsAlone ==
    \A t, u \in Threads :
        /\ t # u /\ Locking(t) /\ Inside(u)
        => obj[op[t].src] # obj[op[u].src]

\* A handle no thread is changing has the mutex its object was created
\* with: after any chain of copies and moves all owners of an object are
\* protected by one mutex.
OneMutexPerObject ==
    \A h \in Handles :
        (\A t \in Threads : h \notin Changes(t)) => mutex[h] = obj[h]

\* A mutex somebody holds, or is about to take, is still owned by a handle:
\* it is not deleted under the thread.
HeldMutexIsAlive ==
    \A t \in Threads :
        \A m \in writing[t] \cup reading[t] : \E h \in Handles : mutex[h] = m

\* Every operation ends, but for those that meet an assignment over a buffer
\* in use, which holds one mutex and wants another.
OnlyAssignmentsBlock ==
    \A t \in Threads :
        Busy(t) ~> (~Busy(t) \/ \E u \in Threads : pc[u] = "second")
=============================================================================

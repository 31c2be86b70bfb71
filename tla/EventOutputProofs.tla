-------------------------- MODULE EventOutputProofs --------------------------
(***************************************************************************)
(* Proofs about module EventOutput: what TLC checks for three nodes and a    *)
(* queue of two slots holds for every graph of subscriptions, every pool,    *)
(* every queue and every nesting of handlers.  And about ProtectedBuffer,    *)
(* that holds the payload of an event, for any number of threads, handles    *)
(* and objects.                                                             *)
(***************************************************************************)
EXTENDS EventOutput, FiniteSetTheorems, SequenceTheorems, TLAPS

EventSet == [id : Ids \cup {kNoEvent}, list : BOOLEAN]

SendFrames ==
  [kind : {"send"}, out : Outputs, mode : {"sync", "async"},
   evt : EventSet, copy : EventSet, next : Nat \ {0},
   at : {"create", "test", "fail", "each", "give"}, probe : BOOLEAN]

HandlerFrames ==
  [kind : {"handler"}, node : Nodes, evt : EventSet, sent : BOOLEAN,
   applied : BOOLEAN]

Frames == SendFrames \cup HandlerFrames
Messages == [dst : Nodes, evt : EventSet, nth : Nat]

(* What a call in progress may be at each of its stages: the event of a     *)
(* send is made before its list, and its copy exists while it is given.     *)
FrameOK(f) ==
  f.kind = "send" =>
    /\ f.at = "create" => ~f.evt.list
    /\ f.at = "give" => f.next <= Len(Subscribers[f.out])
    /\ f.at # "give" => ~f.copy.list

(* A send that has called a subscriber has given its copy away.             *)
Waits(f) == f.kind = "send" => f.at = "give" /\ ~f.copy.list

(* How the calls of a thread are nested.                                    *)
StackOK(s) ==
  \A d \in 1 .. Len(s) :
    /\ FrameOK(s[d])
    /\ d < Len(s) => Waits(s[d])
    /\ d > 1 => s[d].kind # s[d - 1].kind
    /\ s[d].kind = "send" => d <= MaxDepth

(* The thread of the dataflow has no handler: its nodes send through the    *)
(* queue only.                                                              *)
OneSend(s) ==
  \A d \in 1 .. Len(s) : d = 1 /\ s[d].kind = "send" /\ s[d].mode = "async"

StackInv ==
  /\ stack \in [Threads -> Seq(Frames)]
  /\ \A t \in Threads : StackOK(stack[t])
  /\ OneSend(stack[Stream])

(* The chosen send, and how often it has reached each of its subscribers.   *)
ProbeOK ==
  probe \in [state : {"unused", "sending", "accepted", "refused", "cleared"},
             out : Outputs, got : Seq(Nat)]

TypeOK ==
  /\ platform \in Platforms /\ free \in Nat
  /\ queue \in Seq(Messages) /\ Len(queue) <= Capacity
  /\ mustPause \in BOOLEAN /\ mustEnd \in BOOLEAN
  /\ ProbeOK
-----------------------------------------------------------------------------
(* The sizes of the queue and of the stacks are positive.                    *)
LEMMA Bounds == Capacity \in Nat \ {0} /\ MaxDepth \in Nat \ {0}
  BY EventOutputAssumption

(* The last element of a sequence, and what is before it.                   *)
LEMMA TopOf ==
  ASSUME NEW S, NEW s \in Seq(S), s # << >>
  PROVE  /\ Len(s) \in Nat \ {0}
         /\ Last(s) = s[Len(s)] /\ Last(s) \in S
         /\ Front(s) \in Seq(S) /\ Len(Front(s)) = Len(s) - 1
         /\ \A d \in 1 .. Len(s) - 1 : Front(s)[d] = s[d]
<1>1. Len(s) \in Nat \ {0} /\ DOMAIN s = 1 .. Len(s)
  BY EmptySeq, LenProperties
<1>2. Last(s) = s[Len(s)] /\ Last(s) \in S
  BY <1>1, ElementOfSeq DEF Last
<1>3. /\ Front(s) \in Seq(S) /\ Len(Front(s)) = Len(s) - 1
      /\ \A d \in 1 .. Len(s) - 1 : Front(s)[d] = s[d]
  <2>1. \A k \in 1 .. Len(s) - 1 : s[k] \in S
    BY <1>1, ElementOfSeq
  <2>2. Front(s) = [k \in 1 .. Len(s) - 1 |-> s[k]]
    BY <1>1 DEF Front
  <2>3. QED
    BY <1>1, <2>1, <2>2
<1>4. QED
  BY <1>1, <1>2, <1>3

(* A sequence that grows by an element.                                     *)
LEMMA Grown ==
  ASSUME NEW S, NEW s \in Seq(S), NEW f \in S
  PROVE  /\ Append(s, f) \in Seq(S) /\ Append(s, f) # << >>
         /\ Len(s) \in Nat /\ Len(Append(s, f)) = Len(s) + 1
         /\ Append(s, f)[Len(s) + 1] = f
         /\ \A d \in 1 .. Len(s) : Append(s, f)[d] = s[d]
  BY AppendProperties

(* Nesting survives a return.                                               *)
LEMMA FrontOK ==
  ASSUME NEW s \in Seq(Frames), s # << >>, StackOK(s)
  PROVE  /\ StackOK(Front(s)) /\ FrameOK(Last(s))
         /\ Front(s) # << >> =>
              /\ Waits(Last(Front(s)))
              /\ Last(s).kind # Last(Front(s)).kind
         /\ Last(s).kind = "send" => Len(s) <= MaxDepth
<1> DEFINE r == Front(s)
<1>1. /\ Len(s) \in Nat \ {0} /\ Last(s) = s[Len(s)]
      /\ r \in Seq(Frames) /\ Len(r) = Len(s) - 1
      /\ \A d \in 1 .. Len(s) - 1 : r[d] = s[d]
  BY TopOf
<1> HIDE DEF r, FrameOK, Waits
<1>2. r # << >> => Last(r) = s[Len(s) - 1] /\ Len(s) > 1
  <2>1. SUFFICES ASSUME r # << >> PROVE Last(r) = s[Len(s) - 1] /\ Len(s) > 1
    OBVIOUS
  <2>2. Len(r) \in Nat \ {0} /\ Last(r) = r[Len(r)]
    BY <1>1, <2>1, TopOf
  <2>3. QED
    BY <1>1, <2>2
<1>3. StackOK(r)
  BY <1>1 DEF StackOK
<1>4. QED
  BY <1>1, <1>2, <1>3 DEF StackOK, r

(* Nesting survives a call.                                                 *)
LEMMA GrownOK ==
  ASSUME NEW s \in Seq(Frames), StackOK(s), NEW f \in Frames, FrameOK(f),
         f.kind = "send" => Len(s) < MaxDepth,
         s # << >> => /\ Waits(Last(s))
                      /\ f.kind # Last(s).kind
  PROVE  StackOK(Append(s, f))
<1> DEFINE r == Append(s, f)
<1>1. /\ Len(s) \in Nat /\ Len(r) = Len(s) + 1 /\ r[Len(s) + 1] = f
      /\ \A d \in 1 .. Len(s) : r[d] = s[d]
  BY Grown
<1>2. Len(s) > 0 => s # << >> /\ Last(s) = s[Len(s)]
  BY DEF Last
<1> HIDE DEF r, FrameOK, Waits
<1>3. ASSUME NEW d \in 1 .. Len(r)
      PROVE  /\ FrameOK(r[d])
             /\ d < Len(r) => Waits(r[d])
             /\ d > 1 => r[d].kind # r[d - 1].kind
             /\ r[d].kind = "send" => d <= MaxDepth
  <2>1. CASE d \in 1 .. Len(s) - 1
    BY <1>1, <2>1 DEF StackOK
  <2>2. CASE d = Len(s)
    BY <1>1, <1>2, <2>2 DEF StackOK
  <2>3. CASE d = Len(s) + 1
    BY <1>1, <1>2, <2>3, Bounds
  <2>4. QED
    BY <1>1, <2>1, <2>2, <2>3
<1>4. QED
  BY <1>3 DEF StackOK, r
-----------------------------------------------------------------------------
Bit(b) == IF b THEN 1 ELSE 0

(* Counting what is true of a sequence that grows at its end,               *)
LEMMA OneMore ==
  ASSUME NEW n \in Nat, NEW A \in SUBSET (1 .. n),
         NEW B \in SUBSET (1 .. n + 1),
         \A d \in 1 .. n : d \in A <=> d \in B
  PROVE  /\ IsFiniteSet(A) /\ Cardinality(A) \in Nat
         /\ IsFiniteSet(B)
         /\ Cardinality(B) = Cardinality(A) + Bit(n + 1 \in B)
<1>1. IsFiniteSet(1 .. n) /\ IsFiniteSet(1 .. n + 1)
  BY FS_Interval
<1>2. IsFiniteSet(A) /\ IsFiniteSet(B) /\ Cardinality(A) \in Nat
  BY <1>1, FS_Subset, FS_CardinalityType
<1>3. CASE n + 1 \in B
  <2>1. B = A \cup {n + 1} /\ n + 1 \notin A
    <3>1. ASSUME NEW d \in 1 .. n + 1 PROVE d \in B <=> d \in A \cup {n + 1}
      BY <1>3
    <3>2. A \cup {n + 1} \subseteq 1 .. n + 1 /\ n + 1 \notin A
      OBVIOUS
    <3>3. QED
      BY <3>1, <3>2
  <2>2. Cardinality(A \cup {n + 1}) = Cardinality(A) + 1
    BY <1>2, <2>1, FS_AddElement
  <2>3. QED
    BY <1>2, <1>3, <2>1, <2>2 DEF Bit
<1>4. CASE n + 1 \notin B
  <2>1. A = B
    <3>1. ASSUME NEW d \in 1 .. n + 1 PROVE d \in B <=> d \in A
      BY <1>4
    <3>2. QED
      BY <3>1
  <2>2. QED
    BY <1>2, <1>4, <2>1 DEF Bit
<1>5. QED
  BY <1>3, <1>4

(* and of one that loses its first element.                                 *)
LEMMA OneLess ==
  ASSUME NEW n \in Nat, NEW A \in SUBSET (1 .. n),
         NEW B \in SUBSET (1 .. n + 1),
         \A d \in 1 .. n : d \in A <=> d + 1 \in B
  PROVE  /\ Cardinality(A) \in Nat
         /\ Cardinality(B) = Cardinality(A) + Bit(1 \in B)
<1> DEFINE C == B \ {1}
           f == [d \in A |-> d + 1]
<1>1. IsFiniteSet(A) /\ Cardinality(A) \in Nat
  <2>1. IsFiniteSet(1 .. n)
    BY FS_Interval
  <2>2. QED
    BY <2>1, FS_Subset, FS_CardinalityType
<1>2. f \in Bijection(A, C)
  <2>1. f \in [A -> C]
    OBVIOUS
  <2>2. \A a, b \in A : f[a] = f[b] => a = b
    OBVIOUS
  <2>3. \A c \in C : \E a \in A : f[a] = c
    <3>1. SUFFICES ASSUME NEW c \in C PROVE c - 1 \in A /\ (c - 1) + 1 = c
      BY DEF C
    <3>2. c - 1 \in 1 .. n /\ (c - 1) + 1 = c /\ c \in B
      OBVIOUS
    <3>3. QED
      BY <3>2
  <2>4. QED
    BY <2>1, <2>2, <2>3 DEF Bijection, Injection, Surjection, IsInjective
<1> HIDE DEF C, f
<1>3. IsFiniteSet(C) /\ Cardinality(C) = Cardinality(A)
  BY <1>1, <1>2, FS_Bijection DEF ExistsBijection
<1> USE DEF C
<1>4. CASE 1 \in B
  <2>1. B = C \cup {1} /\ 1 \notin C
    BY <1>4
  <2>2. Cardinality(C \cup {1}) = Cardinality(C) + 1
    BY <1>3, FS_AddElement
  <2>3. QED
    BY <1>1, <1>3, <1>4, <2>1, <2>2 DEF Bit
<1>5. CASE 1 \notin B
  <2>1. B = C
    BY <1>5
  <2>2. Cardinality(B) = Cardinality(A)
    BY <1>3, <2>1 
  <2>3. QED
    BY <1>1, <1>5, <2>2 DEF Bit
<1>6. QED
  BY <1>4, <1>5

(* The lists that a stack, one of its frames and a queue hold.              *)
Originals(s) == {d \in 1 .. Len(s) : s[d].evt.list}
Given(s) == {d \in 1 .. Len(s) : s[d].kind = "send" /\ s[d].copy.list}
Held(s) == Cardinality(Originals(s)) + Cardinality(Given(s))

Weight(f) == Bit(f.evt.list) + Bit(f.kind = "send" /\ f.copy.list)

Queued(q) == Cardinality({k \in 1 .. Len(q) : q[k].evt.list})

(* A call in progress holds a number of blocks, ...                          *)
LEMMA WeightType == \A f : Weight(f) \in Nat
  BY DEF Weight, Bit

(* A call adds the lists of its frame to those of its thread.               *)
LEMMA HeldGrown ==
  ASSUME NEW s \in Seq(Frames), NEW f \in Frames
  PROVE  Held(s) \in Nat /\ Held(Append(s, f)) = Held(s) + Weight(f)
<1> DEFINE r == Append(s, f)
           n == Len(s)
<1>1. /\ n \in Nat /\ Len(r) = n + 1 /\ r[n + 1] = f
      /\ \A d \in 1 .. n : r[d] = s[d]
  BY Grown
<1> HIDE DEF r
<1>2. /\ Cardinality(Originals(s)) \in Nat
      /\ Cardinality(Originals(r)) = Cardinality(Originals(s)) + Bit(f.evt.list)
  <2>1. /\ Originals(s) \in SUBSET (1 .. n) /\ Originals(r) \in SUBSET (1 .. n + 1)
        /\ \A d \in 1 .. n : d \in Originals(s) <=> d \in Originals(r)
        /\ n + 1 \in Originals(r) <=> f.evt.list
    BY <1>1 DEF Originals
  <2>2. QED
    BY <1>1, <2>1, OneMore DEF Bit
<1>3. /\ Cardinality(Given(s)) \in Nat
      /\ Cardinality(Given(r)) =
           Cardinality(Given(s)) + Bit(f.kind = "send" /\ f.copy.list)
  <2>1. /\ Given(s) \in SUBSET (1 .. n) /\ Given(r) \in SUBSET (1 .. n + 1)
        /\ \A d \in 1 .. n : d \in Given(s) <=> d \in Given(r)
        /\ n + 1 \in Given(r) <=> f.kind = "send" /\ f.copy.list
    BY <1>1 DEF Given
  <2>2. QED
    BY <1>1, <2>1, OneMore DEF Bit
<1>4. QED
  BY <1>2, <1>3 DEF Held, Weight, Bit, r

(* A return takes the lists of the top frame away.                          *)
LEMMA HeldFront ==
  ASSUME NEW s \in Seq(Frames), s # << >>
  PROVE  /\ Held(Front(s)) \in Nat
         /\ Held(s) = Held(Front(s)) + Weight(Last(s))
<1> DEFINE r == Front(s)
<1>1. /\ Len(s) \in Nat \ {0} /\ Last(s) = s[Len(s)] /\ Last(s) \in Frames
      /\ r \in Seq(Frames) /\ Len(r) = Len(s) - 1
      /\ \A d \in 1 .. Len(s) - 1 : r[d] = s[d]
  BY TopOf
<1> HIDE DEF r
<1>2. Append(r, Last(s)) = s
  BY <1>1, Grown, SeqEqual
<1>3. QED
  BY <1>1, <1>2, HeldGrown DEF r

(* push() and execute() on the lists of the queue.                          *)
LEMMA QueuedGrown ==
  ASSUME NEW q \in Seq(Messages), NEW m \in Messages
  PROVE  /\ Queued(q) \in Nat
         /\ Queued(Append(q, m)) = Queued(q) + Bit(m.evt.list)
<1> DEFINE A == {k \in 1 .. Len(q) : q[k].evt.list}
           r == Append(q, m)
           B == {k \in 1 .. Len(r) : r[k].evt.list}
<1>1. /\ Len(q) \in Nat /\ Len(r) = Len(q) + 1 /\ r[Len(q) + 1] = m
      /\ \A d \in 1 .. Len(q) : r[d] = q[d]
  BY Grown
<1> HIDE DEF r
<1>2. /\ A \in SUBSET (1 .. Len(q)) /\ B \in SUBSET (1 .. Len(q) + 1)
      /\ \A d \in 1 .. Len(q) : d \in A <=> d \in B
      /\ Len(q) + 1 \in B <=> m.evt.list
  BY <1>1
<1> HIDE DEF A, B
<1>3. /\ Cardinality(A) \in Nat
      /\ Cardinality(B) = Cardinality(A) + Bit(m.evt.list)
  <2>1. /\ Cardinality(A) \in Nat
        /\ Cardinality(B) = Cardinality(A) + Bit(Len(q) + 1 \in B)
    BY <1>1, <1>2, OneMore
  <2>2. QED
    BY <1>2, <2>1 DEF Bit
<1>4. QED
  BY <1>3 DEF A, B, r, Queued

(* The queue holds a number of blocks, ...                                   *)
LEMMA QueuedType == ASSUME NEW q \in Seq(Messages) PROVE Queued(q) \in Nat
<1> DEFINE A == {k \in 1 .. Len(q) : q[k].evt.list}
<1>1. Len(q) \in Nat
  BY LenProperties
<1>2. A \in SUBSET (1 .. Len(q)) /\ IsFiniteSet(1 .. Len(q))
  BY <1>1, FS_Interval
<1> HIDE DEF A
<1>3. Cardinality(A) \in Nat
  BY <1>2, FS_Subset, FS_CardinalityType
<1>4. QED
  BY <1>3 DEF Queued, A

(* and gives up those of the message that leaves it.                         *)
LEMMA QueuedTail ==
  ASSUME NEW q \in Seq(Messages), q # << >>
  PROVE  /\ Head(q) \in Messages /\ Tail(q) \in Seq(Messages)
         /\ Queued(Tail(q)) \in Nat
         /\ Queued(q) = Queued(Tail(q)) + Bit(Head(q).evt.list)
<1> DEFINE r == Tail(q)
           A == {k \in 1 .. Len(r) : r[k].evt.list}
           B == {k \in 1 .. Len(q) : q[k].evt.list}
<1>1. /\ Head(q) \in Messages /\ r \in Seq(Messages) /\ Head(q) = q[1]
      /\ Len(r) \in Nat /\ Len(q) = Len(r) + 1
      /\ \A d \in 1 .. Len(r) : r[d] = q[d + 1]
  BY HeadTailProperties, LenProperties, EmptySeq
<1> HIDE DEF r
<1>2. /\ A \in SUBSET (1 .. Len(r)) /\ B \in SUBSET (1 .. Len(r) + 1)
      /\ \A d \in 1 .. Len(r) : d \in A <=> d + 1 \in B
      /\ 1 \in B <=> Head(q).evt.list
  BY <1>1
<1> HIDE DEF A, B
<1>3. /\ Cardinality(A) \in Nat
      /\ Cardinality(B) = Cardinality(A) + Bit(Head(q).evt.list)
  <2>1. SUFFICES ASSUME NEW n \in Nat, n = Len(r)
                 PROVE  /\ Cardinality(A) \in Nat
                        /\ Cardinality(B) = Cardinality(A) + Bit(1 \in B)
    BY <1>1, <1>2 DEF Bit
  <2>2. /\ A \in SUBSET (1 .. n) /\ B \in SUBSET (1 .. n + 1)
        /\ \A d \in 1 .. n : d \in A <=> d + 1 \in B
    BY <1>2, <2>1
  <2>3. QED
    BY <2>2, OneLess
<1>4. QED
  BY <1>1, <1>3 DEF A, B, r, Queued
-----------------------------------------------------------------------------
(* What is left where an event was.                                         *)
LEMMA NothingThere ==
  Nothing \in EventSet /\ ~Nothing.list /\ Nothing.id = kNoEvent
  BY DEF Nothing, EventSet

(* A frame that differs from f in its events, its stage and its subscriber. *)
Moved(f, g, evt, copy, at, next) ==
  /\ g \in SendFrames
  /\ g.out = f.out /\ g.mode = f.mode /\ g.probe = f.probe
  /\ g.evt = evt /\ g.copy = copy /\ g.at = at /\ g.next = next

(* The changes that the actions make to the frame of a send,                *)
LEMMA SendUpdates ==
  ASSUME NEW f \in SendFrames, NEW e \in EventSet
  PROVE  /\ Moved(f, [f EXCEPT !.evt = e, !.at = "test"],
                  e, f.copy, "test", f.next)
         /\ Moved(f, [f EXCEPT !.at = "each"], f.evt, f.copy, "each", f.next)
         /\ Moved(f, [f EXCEPT !.copy = e, !.at = "give"],
                  f.evt, e, "give", f.next)
         /\ Moved(f, [f EXCEPT !.copy = Nothing, !.at = "each", !.next = @ + 1],
                  f.evt, Nothing, "each", f.next + 1)
         /\ Moved(f, [f EXCEPT !.copy = Nothing], f.evt, Nothing, f.at, f.next)
         /\ Moved(f, [f EXCEPT !.at = "each", !.next = @ + 1],
                  f.evt, f.copy, "each", f.next + 1)
         /\ Moved(f, [f EXCEPT !.evt = Nothing], Nothing, f.copy, f.at, f.next)
<1> HIDE DEF Nothing
<1> USE NothingThere
<1>1. Moved(f, [f EXCEPT !.evt = e, !.at = "test"], e, f.copy, "test", f.next)
  BY DEF Moved, SendFrames
<1>2. Moved(f, [f EXCEPT !.at = "each"], f.evt, f.copy, "each", f.next)
  BY DEF Moved, SendFrames
<1>3. Moved(f, [f EXCEPT !.copy = e, !.at = "give"], f.evt, e, "give", f.next)
  BY DEF Moved, SendFrames
<1>4. Moved(f, [f EXCEPT !.copy = Nothing, !.at = "each", !.next = @ + 1],
            f.evt, Nothing, "each", f.next + 1)
  <2> DEFINE n == f.next + 1
  <2>1. n \in Nat \ {0}
    BY DEF SendFrames
  <2>2. [f EXCEPT !.copy = Nothing, !.at = "each", !.next = @ + 1] =
          [f EXCEPT !.copy = Nothing, !.at = "each", !.next = n]
    OBVIOUS
  <2> HIDE DEF n
  <2>3. Moved(f, [f EXCEPT !.copy = Nothing, !.at = "each", !.next = n],
              f.evt, Nothing, "each", n)
    BY <2>1 DEF Moved, SendFrames
  <2>4. QED
    BY <2>2, <2>3 DEF n
<1>5. Moved(f, [f EXCEPT !.copy = Nothing], f.evt, Nothing, f.at, f.next)
  BY DEF Moved, SendFrames
<1>6. Moved(f, [f EXCEPT !.at = "each", !.next = @ + 1],
            f.evt, f.copy, "each", f.next + 1)
  <2> DEFINE n == f.next + 1
  <2>1. n \in Nat \ {0}
    BY DEF SendFrames
  <2>2. [f EXCEPT !.at = "each", !.next = @ + 1] =
          [f EXCEPT !.at = "each", !.next = n]
    OBVIOUS
  <2> HIDE DEF n
  <2>3. Moved(f, [f EXCEPT !.at = "each", !.next = n],
              f.evt, f.copy, "each", n)
    BY <2>1 DEF Moved, SendFrames
  <2>4. QED
    BY <2>2, <2>3 DEF n
<1>7. Moved(f, [f EXCEPT !.evt = Nothing], Nothing, f.copy, f.at, f.next)
  BY DEF Moved, SendFrames
<1>8. QED
  BY <1>1, <1>2, <1>3, <1>4, <1>5, <1>6, <1>7

(* and to the frame of a handler.                                           *)
LEMMA HandlerUpdates ==
  ASSUME NEW f \in HandlerFrames
  PROVE  /\ LET g == [f EXCEPT !.sent = TRUE]
            IN g \in HandlerFrames /\ g.evt = f.evt
         /\ LET g == [f EXCEPT !.sent = TRUE, !.evt = Nothing]
            IN g \in HandlerFrames /\ g.evt = Nothing
         /\ LET g == [f EXCEPT !.evt.list = FALSE, !.applied = TRUE]
            IN g \in HandlerFrames /\ ~g.evt.list
<1>1. LET g == [f EXCEPT !.sent = TRUE]
      IN g \in HandlerFrames /\ g.evt = f.evt
  BY DEF HandlerFrames
<1>2. LET g == [f EXCEPT !.sent = TRUE, !.evt = Nothing]
      IN g \in HandlerFrames /\ g.evt = Nothing
  BY NothingThere DEF HandlerFrames
<1>3. LET g == [f EXCEPT !.evt.list = FALSE, !.applied = TRUE]
      IN g \in HandlerFrames /\ ~g.evt.list
  BY DEF HandlerFrames, EventSet
<1>4. QED
  BY <1>1, <1>2, <1>3

(* The frames that calls begin with.                                        *)
LEMMA NewSend ==
  ASSUME NEW out \in Outputs, NEW mode \in {"sync", "async"},
         NEW e \in EventSet,
         NEW at \in {"create", "test", "fail"}, NEW chosen \in BOOLEAN
  PROVE  LET g == SendFrame(out, mode, e, at, chosen)
         IN /\ g \in SendFrames /\ g.out = out /\ g.probe = chosen
            /\ g.mode = mode /\ g.evt = e /\ g.copy = Nothing
            /\ g.at = at /\ g.next = 1
  BY NothingThere DEF SendFrame, SendFrames

(* The call of a handler, as it begins.                                      *)
LEMMA NewHandler ==
  ASSUME NEW node \in Nodes, NEW e \in EventSet
  PROVE  LET g == HandlerFrame(node, e)
         IN g \in HandlerFrames /\ g.evt = e
  BY DEF HandlerFrame, HandlerFrames
-----------------------------------------------------------------------------
(* a stack holds a number of blocks.                                         *)
LEMMA HeldType ==
  ASSUME NEW s \in Seq(Frames)
  PROVE  Held(s) \in Nat
<1>1. CASE s = << >>
  <2>1. Originals(s) = {} /\ Given(s) = {}
    BY <1>1 DEF Originals, Given
  <2>2. QED
    BY <2>1, FS_EmptySet DEF Held
<1>2. CASE s # << >>
  <2>1. /\ Held(Front(s)) \in Nat /\ Weight(Last(s)) \in Nat
        /\ Held(s) = Held(Front(s)) + Weight(Last(s))
    BY <1>2, HeldFront, WeightType
  <2>2. QED
    BY <2>1
<1>3. QED
  BY <1>1, <1>2

InCalls == Held(stack[Stream]) + Held(stack[Events])

(* What a thread does to its own calls leaves those of the other alone.     *)
LEMMA StackStep ==
  ASSUME StackInv, NEW t \in Threads, NEW s \in Seq(Frames),
         stack' = [stack EXCEPT ![t] = s],
         StackOK(s), t = Stream => OneSend(s)
  PROVE  /\ StackInv'
         /\ InCalls \in Nat /\ InCalls' \in Nat
         /\ Held(stack[t]) \in Nat /\ Held(s) \in Nat
         /\ InCalls' + Held(stack[t]) = InCalls + Held(s)
<1>1. \A u \in Threads : stack'[u] = IF u = t THEN s ELSE stack[u]
  BY DEF StackInv
<1>2. StackInv'
  <2>1. stack' \in [Threads -> Seq(Frames)]
    BY DEF StackInv
  <2>2. \A u \in Threads : StackOK(stack'[u])
    BY <1>1 DEF StackInv
  <2>3. OneSend(stack'[Stream])
    <3>1. Stream \in Threads
      BY DEF Threads
    <3>2. QED
      BY <1>1, <3>1 DEF StackInv
  <2>4. QED
    BY <2>1, <2>2, <2>3 DEF StackInv
<1>3. Held(s) \in Nat /\ \A u \in Threads : Held(stack[u]) \in Nat
  <2>1. \A u \in Threads : stack[u] \in Seq(Frames)
    BY DEF StackInv
  <2>2. QED
    BY <2>1, HeldType
<1>4. CASE t = Stream
  <2>1. stack'[Stream] = s /\ stack'[Events] = stack[Events]
    BY <1>1, <1>4 DEF Threads, Stream, Events
  <2>2. QED
    BY <1>2, <1>3, <1>4, <2>1 DEF InCalls, Threads
<1>5. CASE t = Events
  <2>1. stack'[Events] = s /\ stack'[Stream] = stack[Stream]
    BY <1>1, <1>5 DEF Threads, Stream, Events
  <2>2. QED
    BY <1>2, <1>3, <1>5, <2>1 DEF InCalls, Threads
<1>6. QED
  BY <1>4, <1>5 DEF Threads

(* The top frame of a thread.                                               *)
LEMMA TopFrame ==
  ASSUME StackInv, NEW t \in Threads, stack[t] # << >>
  PROVE  /\ stack[t] \in Seq(Frames) /\ Top(t) \in Frames /\ FrameOK(Top(t))
         /\ Top(t).kind = "send" => /\ Top(t) \in SendFrames
                                    /\ Len(stack[t]) <= MaxDepth
         /\ Top(t).kind = "handler" => Top(t) \in HandlerFrames /\ t = Events
<1>1. stack[t] \in Seq(Frames) /\ StackOK(stack[t])
  BY DEF StackInv
<1>2. Top(t) \in Frames /\ Top(t) = stack[t][Len(stack[t])]
      /\ Len(stack[t]) \in Nat \ {0}
  BY <1>1, TopOf DEF Top
<1>3. FrameOK(Top(t)) /\ (Top(t).kind = "send" => Len(stack[t]) <= MaxDepth)
  BY <1>1, FrontOK DEF Top
<1>4. Top(t).kind = "handler" => t = Events
  BY <1>2 DEF StackInv, OneSend, Threads
<1>5. QED
  BY <1>1, <1>2, <1>3, <1>4 DEF Frames, SendFrames, HandlerFrames

(* A frame changes, ...                                                     *)
LEMMA Replaced ==
  ASSUME StackInv, NEW t \in Threads, stack[t] # << >>,
         NEW f \in Frames, FrameOK(f), f.kind = Top(t).kind,
         f.kind = "send" => f.mode = Top(t).mode, Replace(t, f)
  PROVE  /\ StackInv' /\ InCalls \in Nat /\ InCalls' \in Nat
         /\ InCalls' + Weight(Top(t)) = InCalls + Weight(f)
<1> DEFINE s == stack[t]
           r == Append(Front(s), f)
<1>1. s \in Seq(Frames) /\ StackOK(s)
  BY DEF StackInv
<1>2. /\ Front(s) \in Seq(Frames) /\ Len(Front(s)) = Len(s) - 1
      /\ Len(s) \in Nat \ {0} /\ Top(t) \in Frames
  BY <1>1, TopOf DEF Top
<1>3. /\ StackOK(Front(s))
      /\ Front(s) # << >> =>
           /\ Waits(Last(Front(s)))
           /\ f.kind # Last(Front(s)).kind
      /\ f.kind = "send" => Len(Front(s)) < MaxDepth
  BY <1>1, <1>2, FrontOK, Bounds DEF Top
<1>4. r \in Seq(Frames) /\ StackOK(r) /\ Len(r) = Len(s) /\ r[Len(s)] = f
  <2>1. r \in Seq(Frames) /\ Len(r) = Len(s) /\ r[Len(s)] = f
    BY <1>2, Grown
  <2>2. StackOK(r)
    BY <1>2, <1>3, GrownOK
  <2>3. QED
    BY <2>1, <2>2
<1>5. t = Stream => OneSend(r)
  BY <1>1, <1>2, <1>4 DEF StackInv, OneSend, Top, Last
<1>6. stack' = [stack EXCEPT ![t] = r]
  BY DEF Replace
<1>7. /\ Held(r) = Held(Front(s)) + Weight(f)
      /\ Held(s) = Held(Front(s)) + Weight(Top(t)) /\ Held(Front(s)) \in Nat
  BY <1>1, <1>2, HeldGrown, HeldFront DEF Top
<1> HIDE DEF r
<1>8. /\ StackInv' /\ InCalls \in Nat /\ InCalls' \in Nat
      /\ Held(s) \in Nat /\ Held(r) \in Nat
      /\ InCalls' + Held(s) = InCalls + Held(r)
  BY <1>4, <1>5, <1>6, StackStep
<1>9. Weight(f) \in Nat /\ Weight(Top(t)) \in Nat
  BY WeightType
<1>10. QED
  <2>1. InCalls' + (Held(Front(s)) + Weight(Top(t))) =
          InCalls + (Held(Front(s)) + Weight(f))
    BY <1>7, <1>8, Zenon
  <2>2. /\ InCalls \in Nat /\ InCalls' \in Nat /\ Held(Front(s)) \in Nat
        /\ Weight(f) \in Nat /\ Weight(Top(t)) \in Nat
    BY <1>7, <1>8, <1>9, Zenon
  <2> DEFINE after == InCalls'
             h == Held(Front(s))
  <2>3. after + (h + Weight(Top(t))) = InCalls + (h + Weight(f))
    BY <2>1
  <2>4. after \in Nat /\ h \in Nat
    BY <2>2
  <2> HIDE DEF after, h
  <2>5. after + Weight(Top(t)) = InCalls + Weight(f)
    BY <2>2, <2>3, <2>4
  <2>6. QED
    BY <1>8, <2>5, Zenon DEF after

(* a call returns,                                                          *)
LEMMA Returned ==
  ASSUME StackInv, NEW t \in Threads, stack[t] # << >>,
         stack' = [stack EXCEPT ![t] = Front(@)]
  PROVE  /\ StackInv' /\ InCalls \in Nat /\ InCalls' \in Nat
         /\ InCalls' + Weight(Top(t)) = InCalls
<1> DEFINE s == stack[t]
           r == Front(s)
<1>1. s \in Seq(Frames) /\ StackOK(s)
  BY DEF StackInv
<1>2. /\ r \in Seq(Frames) /\ Len(r) = Len(s) - 1
      /\ \A d \in 1 .. Len(s) - 1 : r[d] = s[d]
      /\ Len(s) \in Nat \ {0}
  BY <1>1, TopOf
<1>3. StackOK(r)
  BY <1>1, FrontOK
<1>4. /\ Held(s) = Held(r) + Weight(Top(t)) /\ Held(r) \in Nat
  BY <1>1, HeldFront DEF Top
<1> HIDE DEF r
<1>5. t = Stream => OneSend(r)
  BY <1>1, <1>2 DEF StackInv, OneSend
<1>6. stack' = [stack EXCEPT ![t] = r]
  BY DEF r
<1>7. /\ StackInv' /\ InCalls \in Nat /\ InCalls' \in Nat
      /\ Held(s) \in Nat /\ Held(r) \in Nat
      /\ InCalls' + Held(s) = InCalls + Held(r)
  BY <1>2, <1>3, <1>5, <1>6, StackStep
<1>8. Weight(Top(t)) \in Nat
  BY WeightType
<1>9. InCalls' + Weight(Top(t)) = InCalls
  <2> DEFINE after == InCalls'
             h == Held(r)
  <2>1. /\ after + (h + Weight(Top(t))) = InCalls + h
        /\ after \in Nat /\ h \in Nat /\ InCalls \in Nat
    BY <1>4, <1>7
  <2> HIDE DEF after, h
  <2>2. after + Weight(Top(t)) = InCalls
    BY <1>8, <2>1
  <2>3. QED
    BY <2>2 DEF after
<1>10. QED
  BY <1>7, <1>9, Zenon

(* a thread that is in no call begins one,                                  *)
LEMMA Called ==
  ASSUME StackInv, NEW t \in Threads, stack[t] = << >>,
         NEW f \in Frames, FrameOK(f), Call(t, f),
         t = Stream => f.kind = "send" /\ f.mode = "async"
  PROVE  /\ StackInv' /\ InCalls \in Nat /\ InCalls' \in Nat
         /\ InCalls' = InCalls + Weight(f)
<1> DEFINE s == stack[t]
           r == Append(s, f)
<1>1. s \in Seq(Frames) /\ StackOK(s)
  BY DEF StackInv
<1>2. r \in Seq(Frames) /\ Len(r) = 1 /\ r[1] = f
  BY <1>1, Grown
<1>3. StackOK(r)
  <2>1. Len(s) = 0 /\ 0 < MaxDepth
    BY Bounds
  <2>2. QED
    BY <1>1, <2>1, GrownOK
<1>4. Held(r) = Held(s) + Weight(f)
  BY <1>1, HeldGrown
<1> HIDE DEF r
<1>5. t = Stream => OneSend(r)
  BY <1>2 DEF OneSend
<1>6. stack' = [stack EXCEPT ![t] = r]
  BY DEF Call, r
<1>7. /\ StackInv' /\ InCalls \in Nat /\ InCalls' \in Nat
      /\ Held(s) \in Nat /\ InCalls' + Held(s) = InCalls + Held(r)
  BY <1>2, <1>3, <1>5, <1>6, StackStep
<1>8. Weight(f) \in Nat
  BY WeightType
<1>9. QED
  BY <1>4, <1>7, <1>8

(* and a frame that has changed calls.                                      *)
LEMMA CalledFrom ==
  ASSUME StackInv, stack[Events] # << >>,
         NEW c \in Frames, FrameOK(c), Waits(c), c.kind = Top(Events).kind,
         NEW f \in Frames, FrameOK(f),
         f.kind = "send" => Len(stack[Events]) < MaxDepth,
         f.kind # c.kind,
         CallFrom(Events, c, f)
  PROVE  /\ StackInv' /\ InCalls \in Nat /\ InCalls' \in Nat
         /\ InCalls' + Weight(Top(Events)) = InCalls + Weight(c) + Weight(f)
<1> DEFINE s == stack[Events]
           m == Append(Front(s), c)
           r == Append(m, f)
<1>1. s \in Seq(Frames) /\ StackOK(s) /\ Events \in Threads
  BY DEF StackInv, Threads
<1>2. /\ Front(s) \in Seq(Frames) /\ Len(Front(s)) = Len(s) - 1
      /\ Len(s) \in Nat \ {0} /\ Top(Events) \in Frames
  BY <1>1, TopOf DEF Top
<1>3. /\ StackOK(Front(s))
      /\ Front(s) # << >> =>
           /\ Waits(Last(Front(s)))
           /\ c.kind # Last(Front(s)).kind
      /\ c.kind = "send" => Len(Front(s)) < MaxDepth
  BY <1>1, <1>2, FrontOK, Bounds DEF Top
<1>4. m \in Seq(Frames) /\ StackOK(m) /\ Len(m) = Len(s) /\ Last(m) = c
  BY <1>2, <1>3, Grown, GrownOK DEF Last
<1>5. /\ Held(m) = Held(Front(s)) + Weight(c)
      /\ Held(s) = Held(Front(s)) + Weight(Top(Events)) /\ Held(Front(s)) \in Nat
  BY <1>1, <1>2, HeldGrown, HeldFront DEF Top
<1>6. stack' = [stack EXCEPT ![Events] = r]
  BY DEF CallFrom
<1> HIDE DEF m
<1>7. r \in Seq(Frames) /\ StackOK(r)
  BY <1>4, Grown, GrownOK
<1>8. Held(r) = Held(m) + Weight(f)
  BY <1>4, HeldGrown
<1> HIDE DEF r
<1>9. /\ StackInv' /\ InCalls \in Nat /\ InCalls' \in Nat
      /\ Held(s) \in Nat /\ Held(r) \in Nat
      /\ InCalls' + Held(s) = InCalls + Held(r)
  BY <1>1, <1>6, <1>7, StackStep DEF Stream, Events
<1>10. Weight(f) \in Nat /\ Weight(c) \in Nat /\ Weight(Top(Events)) \in Nat
  BY WeightType
<1>11. InCalls' + Weight(Top(Events)) = InCalls + Weight(c) + Weight(f)
  <2> DEFINE after == InCalls'
             before == InCalls
             h == Held(Front(s))
             w == Weight(Top(Events))
             x == Weight(c)
             y == Weight(f)
  <2>1. /\ after + (h + w) = before + ((h + x) + y)
        /\ after \in Nat /\ before \in Nat /\ h \in Nat
        /\ w \in Nat /\ x \in Nat /\ y \in Nat
    BY <1>5, <1>8, <1>9, <1>10
  <2> HIDE DEF after, before, h, w, x, y
  <2>2. after + w = before + x + y
    BY <2>1
  <2>3. QED
    BY <2>2 DEF after, before, w, x, y
<1>12. QED
  BY <1>9, <1>11, Zenon

(* A handler is called by a send that waits for it, or by the event thread.  *)
LEMMA Caller ==
  ASSUME StackInv, stack[Events] # << >>, Top(Events).kind = "handler",
         NEW below, below = Front(stack[Events]), below # << >>
  PROVE  /\ below \in Seq(Frames)
         /\ Last(below) \in SendFrames /\ FrameOK(Last(below))
         /\ Last(below).at = "give" /\ ~Last(below).copy.list
<1> DEFINE s == stack[Events]
<1>1. s \in Seq(Frames) /\ StackOK(s)
  BY DEF StackInv, Threads
<1>2. below \in Seq(Frames) /\ StackOK(below)
  BY <1>1, TopOf, FrontOK
<1>3. Last(below) \in Frames /\ FrameOK(Last(below))
  BY <1>2, TopOf, FrontOK
<1>4. Waits(Last(below)) /\ Last(below).kind = "send"
  BY <1>1, <1>3, FrontOK DEF Top, Frames, SendFrames, HandlerFrames
<1>5. QED
  BY <1>2, <1>3, <1>4 DEF Waits, Frames, HandlerFrames

(* A handler returns and its caller returns too, ...                        *)
LEMMA ReturnedTwice ==
  ASSUME StackInv, stack[Events] # << >>, Top(Events).kind = "handler",
         NEW below, below = Front(stack[Events]), below # << >>,
         stack' = [stack EXCEPT ![Events] = Front(below)]
  PROVE  /\ StackInv' /\ InCalls \in Nat /\ InCalls' \in Nat
         /\ InCalls' + (Weight(Last(below)) + Weight(Top(Events))) = InCalls
<1> DEFINE s == stack[Events]
           r == Front(below)
<1>1. s \in Seq(Frames) /\ StackOK(s) /\ Events \in Threads
  BY DEF StackInv, Threads
<1>2. below \in Seq(Frames) /\ StackOK(below)
  BY <1>1, TopOf, FrontOK
<1>3. r \in Seq(Frames) /\ StackOK(r)
  BY <1>2, TopOf, FrontOK
<1>4. /\ Held(s) = Held(below) + Weight(Top(Events))
      /\ Held(below) = Held(r) + Weight(Last(below)) /\ Held(r) \in Nat
  BY <1>1, <1>2, HeldFront DEF Top
<1> HIDE DEF r
<1>5. stack' = [stack EXCEPT ![Events] = r]
  BY DEF r
<1>6. /\ StackInv' /\ InCalls \in Nat /\ InCalls' \in Nat
      /\ InCalls' + Held(s) = InCalls + Held(r)
  BY <1>1, <1>3, <1>5, StackStep DEF Stream, Events
<1>7. InCalls' + ((Held(r) + Weight(Last(below))) + Weight(Top(Events))) =
        InCalls + Held(r)
  BY <1>4, <1>6, Zenon
<1>8. Weight(Last(below)) \in Nat /\ Weight(Top(Events)) \in Nat
  BY WeightType
<1>9. InCalls' + (Weight(Last(below)) + Weight(Top(Events))) = InCalls
  <2>1. InCalls \in Nat /\ InCalls' \in Nat /\ Held(r) \in Nat
    BY <1>4, <1>6, Zenon
  <2>2. QED
    BY <1>7, <1>8, <2>1
<1>10. QED
  BY <1>6, <1>9, Zenon

(* or its caller goes on.                                                   *)
LEMMA ReturnedTo ==
  ASSUME StackInv, stack[Events] # << >>, Top(Events).kind = "handler",
         NEW below, below = Front(stack[Events]), below # << >>,
         NEW f \in SendFrames, FrameOK(f),
         stack' = [stack EXCEPT ![Events] = Append(Front(below), f)]
  PROVE  /\ StackInv' /\ InCalls \in Nat /\ InCalls' \in Nat
         /\ InCalls' + (Weight(Last(below)) + Weight(Top(Events))) =
              InCalls + Weight(f)
<1> DEFINE s == stack[Events]
           b == Front(below)
           r == Append(b, f)
<1>1. s \in Seq(Frames) /\ StackOK(s) /\ Events \in Threads
  BY DEF StackInv, Threads
<1>2. below \in Seq(Frames) /\ StackOK(below)
  BY <1>1, TopOf, FrontOK
<1>3. b \in Seq(Frames) /\ StackOK(b) /\ Len(b) = Len(below) - 1
  BY <1>2, TopOf, FrontOK
<1>4. Last(below).kind = "send" /\ Len(below) <= MaxDepth /\ Len(below) \in Nat
  <2>1. Last(below).kind = "send"
    BY Caller DEF SendFrames
  <2>2. QED
    BY <1>2, <2>1, TopOf, FrontOK
<1>5. b # << >> => Waits(Last(b)) /\ Last(b).kind # "send"
  BY <1>2, <1>4, FrontOK
<1>6. /\ Held(s) = Held(below) + Weight(Top(Events))
      /\ Held(below) = Held(b) + Weight(Last(below)) /\ Held(b) \in Nat
  BY <1>1, <1>2, HeldFront DEF Top
<1>7. f \in Frames /\ f.kind = "send"
  BY DEF Frames, SendFrames
<1> HIDE DEF b
<1>8. r \in Seq(Frames) /\ StackOK(r) /\ Held(r) = Held(b) + Weight(f)
  <2>1. Len(b) < MaxDepth
    BY <1>3, <1>4, Bounds
  <2>2. QED
    BY <1>3, <1>5, <1>7, <2>1, Grown, GrownOK, HeldGrown
<1>9. stack' = [stack EXCEPT ![Events] = r]
  BY DEF b
<1> HIDE DEF r
<1>10. /\ StackInv' /\ InCalls \in Nat /\ InCalls' \in Nat
       /\ InCalls' + Held(s) = InCalls + Held(r)
  BY <1>1, <1>8, <1>9, StackStep DEF Stream, Events
<1>11. InCalls' + ((Held(b) + Weight(Last(below))) + Weight(Top(Events))) =
        InCalls + (Held(b) + Weight(f))
  BY <1>6, <1>8, <1>10, Zenon
<1>12. /\ Weight(Last(below)) \in Nat /\ Weight(Top(Events)) \in Nat
       /\ Weight(f) \in Nat
  BY WeightType
<1>13. InCalls' + (Weight(Last(below)) + Weight(Top(Events))) =
         InCalls + Weight(f)
  BY <1>6, <1>10, <1>11, <1>12
<1>14. QED
  BY <1>10, <1>13, Zenon
-----------------------------------------------------------------------------
(* The size of a set of indices, from what is in it.                        *)
LEMMA SizeUpToThree ==
  ASSUME NEW E \in SUBSET (1 .. 3)
  PROVE  Cardinality(E) = Bit(1 \in E) + Bit(2 \in E) + Bit(3 \in E)
<1> DEFINE A == E \cap (1 .. 1)
           B == E \cap (1 .. 2)
<1>1. /\ A \in SUBSET (1 .. 0 + 1) /\ B \in SUBSET (1 .. 1 + 1)
      /\ E \in SUBSET (1 .. 2 + 1)
      /\ A \in SUBSET (1 .. 1) /\ B \in SUBSET (1 .. 2)
      /\ {} \in SUBSET (1 .. 0)
      /\ \A d \in 1 .. 0 : d \in {} <=> d \in A
      /\ \A d \in 1 .. 1 : d \in A <=> d \in B
      /\ \A d \in 1 .. 2 : d \in B <=> d \in E
      /\ 0 + 1 \in A <=> 1 \in E
      /\ 1 + 1 \in B <=> 2 \in E
      /\ 2 + 1 \in E <=> 3 \in E
  OBVIOUS
<1> HIDE DEF A, B
<1>2. /\ Cardinality(A) = Cardinality({}) + Bit(0 + 1 \in A)
      /\ Cardinality({}) = 0
  BY <1>1, OneMore, FS_EmptySet
<1>3. Cardinality(B) = Cardinality(A) + Bit(1 + 1 \in B)
  BY <1>1, OneMore
<1>4. Cardinality(E) = Cardinality(B) + Bit(2 + 1 \in E)
  BY <1>1, OneMore
<1>5. QED
  BY <1>1, <1>2, <1>3, <1>4 DEF Bit

(* What destroyed events give back.                                         *)
LEMMA ListsOfOne == ASSUME NEW a PROVE Lists(<<a>>) = Bit(a.list)
<1> DEFINE E == {k \in DOMAIN <<a>> : <<a>>[k].list}
<1>1. /\ E \in SUBSET (1 .. 3)
      /\ 1 \in E <=> a.list
      /\ 2 \notin E /\ 3 \notin E
  OBVIOUS
<1> HIDE DEF E
<1>2. Cardinality(E) = Bit(a.list)
  BY <1>1, SizeUpToThree DEF Bit
<1>3. QED
  BY <1>2 DEF Lists, E

(* How many of two, or of three, events have a block of the pool.            *)
LEMMA ListsOfTwo ==
  ASSUME NEW a, NEW b PROVE Lists(<<a, b>>) = Bit(a.list) + Bit(b.list)
<1> DEFINE E == {k \in DOMAIN <<a, b>> : <<a, b>>[k].list}
<1>1. /\ E \in SUBSET (1 .. 3)
      /\ 1 \in E <=> a.list
      /\ 2 \in E <=> b.list
      /\ 3 \notin E
  OBVIOUS
<1> HIDE DEF E
<1>2. Cardinality(E) = Bit(a.list) + Bit(b.list)
  BY <1>1, SizeUpToThree DEF Bit
<1>3. QED
  BY <1>2 DEF Lists, E

LEMMA ListsOfThree ==
  ASSUME NEW a, NEW b, NEW c
  PROVE  Lists(<<a, b, c>>) = Bit(a.list) + Bit(b.list) + Bit(c.list)
<1> DEFINE E == {k \in DOMAIN <<a, b, c>> : <<a, b, c>>[k].list}
<1>1. /\ E \in SUBSET (1 .. 3)
      /\ 1 \in E <=> a.list
      /\ 2 \in E <=> b.list
      /\ 3 \in E <=> c.list
  OBVIOUS
<1> HIDE DEF E
<1>2. Cardinality(E) = Bit(a.list) + Bit(b.list) + Bit(c.list)
  BY <1>1, SizeUpToThree DEF Bit
<1>3. QED
  BY <1>2 DEF Lists, E

(* A new list takes a block of those that are free.                         *)
LEMMA ObtainedType ==
  ASSUME free \in Nat, NEW id \in Ids \cup {kNoEvent}, NEW o \in Obtained(id)
  PROVE  /\ o.evt \in EventSet /\ o.left \in Nat
         /\ o.left + Bit(o.evt.list) = free
         /\ free > 0 => o.evt.id = id
<1>1. CASE free > 0
  <2>1. o = [evt |-> [id |-> id, list |-> TRUE], left |-> free - 1]
    BY <1>1 DEF Obtained
  <2>2. QED
    BY <1>1, <2>1 DEF EventSet, Bit
<1>2. CASE ~(free > 0)
  <2>1. o = [evt |-> Nothing, left |-> 0]
    BY <1>2 DEF Obtained
  <2>2. QED
    BY <1>2, <2>1, NothingThere DEF Bit
<1>3. QED
  BY <1>1, <1>2

(* The report of the chosen send keeps its shape.                           *)
LEMMA ToldOK ==
  ASSUME ProbeOK, NEW f, NEW ok \in BOOLEAN, probe' = Told(f, ok)
  PROVE  ProbeOK'
  BY DEF ProbeOK, Told

(* Counting a handler reached keeps the shape of the probe.                  *)
LEMMA ReachesOK ==
  ASSUME ProbeOK, NEW n \in Nat, probe' = Reaches(n)
  PROVE  /\ ProbeOK'
         /\ probe'.state = probe.state /\ probe'.out = probe.out
         /\ Len(probe'.got) = Len(probe.got)
         /\ \A i \in 1 .. Len(probe.got) :
              probe'.got[i] = probe.got[i] + (IF i = n THEN 1 ELSE 0)
<1> DEFINE got == probe.got
<1>1. got \in Seq(Nat) /\ Len(got) \in Nat /\ DOMAIN got = 1 .. Len(got)
      /\ \A i \in 1 .. Len(got) : got[i] \in Nat
  BY LenProperties, ElementOfSeq DEF ProbeOK
<1>2. CASE n \notin 1 .. Len(got)
  <2>1. [probe EXCEPT !.got[n] = @ + 1] = probe
    BY <1>1, <1>2 DEF ProbeOK
  <2>2. probe' = probe
    BY <2>1 DEF Reaches
  <2>3. QED
    BY <1>1, <1>2, <2>2 DEF ProbeOK
<1>3. CASE n \in 1 .. Len(got)
  <2> DEFINE new == [got EXCEPT ![n] = got[n] + 1]
  <2>1. probe' = [probe EXCEPT !.got = new]
    BY <1>3 DEF Reaches
  <2>2. got[n] + 1 \in Nat
    BY <1>1, <1>3
  <2>3. /\ new \in Seq(Nat) /\ Len(new) = Len(got)
        /\ \A i \in 1 .. Len(got) : new[i] = IF i = n THEN got[n] + 1 ELSE got[i]
    BY <1>1, <1>3, <2>2, ExceptSeq
  <2> HIDE DEF new, got
  <2>4. /\ probe'.state = probe.state /\ probe'.out = probe.out
        /\ probe'.got = new
    BY <2>1 DEF ProbeOK
  <2>5. ProbeOK'
    BY <2>1, <2>3 DEF ProbeOK
  <2>6. QED
    BY <1>1, <2>3, <2>4, <2>5 DEF got
<1>4. QED
  BY <1>2, <1>3
-----------------------------------------------------------------------------
(* Every block is free, in the queue or in a call.                          *)
Balanced == free + Queued(queue) + InCalls = platform.lists

Inv == TypeOK /\ StackInv /\ Balanced

(* One for an event that has a block, none for one that has not.             *)
LEMMA BitType == \A b : Bit(b) \in Nat
  BY DEF Bit

(* The blocks of each kind of call in progress.                              *)
LEMMA WeightOf ==
  /\ \A f \in SendFrames : Weight(f) = Bit(f.evt.list) + Bit(f.copy.list)
  /\ \A f \in HandlerFrames : Weight(f) = Bit(f.evt.list)
  BY DEF Weight, SendFrames, HandlerFrames, Bit

(* The outputs a thread may send on are outputs of the graph.                *)
LEMMA SendersType ==
  ASSUME StackInv, NEW t \in Threads, NEW out \in Senders(t)
  PROVE  /\ out \in Outputs
         /\ \/ t = Stream /\ stack[t] = << >>
            \/ /\ t = Events /\ t # Stream /\ stack[Events] # << >>
               /\ Top(Events) \in HandlerFrames /\ Top(Events).kind = "handler"
               /\ Len(stack[Events]) < MaxDepth
<1>1. CASE t = Stream
  BY <1>1, EventOutputAssumption DEF Senders
<1>2. CASE t # Stream
  <2>1. t = Events
    BY <1>2 DEF Threads
  <2>2. Handling(t) /\ Len(stack[t]) < MaxDepth /\ out \in OutputsOf[Top(t).node]
    BY <1>2 DEF Senders
  <2>3. Top(t) \in HandlerFrames
    BY <2>2, TopFrame DEF Handling
  <2>4. Top(t).node \in Nodes
    BY <2>3 DEF HandlerFrames
  <2>5. out \in Outputs
    BY <2>2, <2>4, EventOutputAssumption
  <2>6. QED
    BY <1>2, <2>1, <2>2, <2>3, <2>5 DEF Handling
<1>3. QED
  BY <1>1, <1>2

(* A send begins with an event that has no list yet.                        *)
LEMMA SendStep ==
  ASSUME Inv, NEW t \in Threads, Send(t)
  PROVE  Inv'
<1>1. PICK out \in Senders(t), mode \in {"sync", "async"}, id \in Ids :
        /\ t = Stream => mode = "async"
        /\ id = "probe" => Settled
        /\ probe' = CASE id = "probe" -> Probed(out)
                      [] id # "probe" /\ Settled -> NoProbe
                      [] OTHER -> probe
        /\ Begin(t, SendFrame(out, mode, [id |-> id, list |-> FALSE],
                          IF out = App /\ mode = "async" /\ mustEnd THEN "fail"
                          ELSE IF out \in ListOutputs THEN "create" ELSE "test",
                          id = "probe"))
        /\ UNCHANGED <<platform, free, queue, mustPause, mustEnd>>
  BY DEF Send
<1> DEFINE at == IF out = App /\ mode = "async" /\ mustEnd THEN "fail"
                 ELSE IF out \in ListOutputs THEN "create" ELSE "test"
           e == [id |-> id, list |-> FALSE]
           chosen == id = "probe"
           f == SendFrame(out, mode, e, at, chosen)
           c == [Top(Events) EXCEPT !.sent = TRUE]
<1>2. /\ out \in Outputs
      /\ \/ t = Stream /\ stack[t] = << >>
         \/ /\ t = Events /\ t # Stream /\ stack[Events] # << >>
            /\ Top(Events) \in HandlerFrames /\ Top(Events).kind = "handler"
            /\ Len(stack[Events]) < MaxDepth
  BY SendersType DEF Inv
<1>3. /\ f \in SendFrames /\ f.evt = e /\ f.copy = Nothing /\ f.at = at
      /\ f.mode = mode
      /\ at \in {"create", "test", "fail"} /\ ~e.list
  <2>1. /\ e \in EventSet /\ ~e.list
        /\ at \in {"create", "test", "fail"} /\ chosen \in BOOLEAN
    BY DEF EventSet
  <2> HIDE DEF at, e, chosen
  <2>2. QED
    BY <1>2, <2>1, NewSend
<1>4. Begin(t, f)
  BY <1>1
<1> HIDE DEF at, e, chosen, f
<1>5. f \in Frames /\ FrameOK(f) /\ f.kind = "send" /\ Weight(f) = 0
  BY <1>3, NothingThere, WeightOf DEF Frames, FrameOK, SendFrames, Bit
<1>6. StackInv' /\ InCalls' = InCalls /\ InCalls \in Nat
  <2>1. CASE t = Stream /\ stack[t] = << >>
    BY <1>1, <1>3, <1>4, <1>5, <2>1, Called DEF Begin, Inv
  <2>2. CASE /\ t = Events /\ t # Stream /\ stack[Events] # << >>
             /\ Top(Events) \in HandlerFrames /\ Top(Events).kind = "handler"
             /\ Len(stack[Events]) < MaxDepth
    <3>1. /\ c \in HandlerFrames /\ c.evt = Top(Events).evt
          /\ CallFrom(Events, c, f)
      BY <1>4, <2>2, HandlerUpdates DEF Begin
    <3> HIDE DEF c
    <3>2. /\ c \in Frames /\ c.kind = "handler" /\ FrameOK(c) /\ Waits(c)
          /\ Weight(c) = Weight(Top(Events))
      BY <2>2, <3>1, WeightOf DEF Frames, HandlerFrames, FrameOK, Waits
    <3>3. /\ StackInv' /\ InCalls \in Nat /\ InCalls' \in Nat
          /\ InCalls' + Weight(Top(Events)) = InCalls + Weight(c) + Weight(f)
      BY <1>5, <2>2, <3>1, <3>2, CalledFrom DEF Inv
    <3>4. QED
      BY <1>5, <3>2, <3>3, WeightType
  <2>3. QED
    BY <1>2, <2>1, <2>2
<1>7. ProbeOK'
  <2>1. Probed(out).got \in Seq(Nat)
    <3>1. Subscribers[out] \in Seq(Nodes)
      BY <1>2, EventOutputAssumption
    <3>2. QED
      BY <3>1 DEF Probed
  <2>2. Probed(out) \in [state : {"sending"}, out : Outputs, got : Seq(Nat)]
    BY <1>2, <2>1 DEF Probed
  <2>3. NoProbe \in [state : {"unused"}, out : Outputs, got : Seq(Nat)]
    BY EventOutputAssumption DEF NoProbe, App
  <2>4. probe' \in {Probed(out), NoProbe, probe}
    BY <1>1
  <2> HIDE DEF Settled
  <2>5. QED
    BY <2>2, <2>3, <2>4 DEF ProbeOK, Inv, TypeOK
<1>8. TypeOK' /\ Balanced'
  BY <1>1, <1>6, <1>7 DEF TypeOK, Inv, Balanced
<1>9. QED
  BY <1>6, <1>8 DEF Inv

(* The frame of a send at one of its stages.                                *)
LEMMA SendingTop ==
  ASSUME StackInv, NEW t \in Threads, NEW at, Sending(t, at)
  PROVE  /\ stack[t] # << >> /\ Top(t).kind = "send" /\ Top(t).at = at
         /\ Top(t) \in SendFrames /\ Top(t) \in Frames
         /\ Top(t).evt \in EventSet /\ Top(t).copy \in EventSet
         /\ at = "create" => ~Top(t).evt.list
         /\ at # "give" => ~Top(t).copy.list
         /\ at = "give" => Top(t).next <= Len(Subs(t))
         /\ Weight(Top(t)) = Bit(Top(t).evt.list) + Bit(Top(t).copy.list)
<1>1. stack[t] # << >> /\ Top(t).kind = "send" /\ Top(t).at = at
  BY DEF Sending
<1>2. Top(t) \in SendFrames /\ FrameOK(Top(t))
  BY <1>1, TopFrame
<1>3. QED
  BY <1>1, <1>2, WeightOf DEF FrameOK, Frames, SendFrames, Subs

(* A send that returns gives back the lists it holds.                       *)
LEMMA ReturnStep ==
  ASSUME Inv, NEW t \in Threads, NEW at, Sending(t, at), NEW ok \in BOOLEAN,
         Return(t, ok)
  PROVE  /\ StackInv' /\ ProbeOK' /\ InCalls \in Nat /\ InCalls' \in Nat
         /\ free \in Nat /\ free' \in Nat
         /\ free' + InCalls' = free + InCalls
<1>1. StackInv /\ ProbeOK /\ free \in Nat
  BY DEF Inv, TypeOK
<1>2. /\ stack[t] # << >>
      /\ Weight(Top(t)) = Bit(Top(t).evt.list) + Bit(Top(t).copy.list)
  BY <1>1, SendingTop
<1>3. /\ stack' = [stack EXCEPT ![t] = Front(@)]
      /\ free' = free + Lists(<<Top(t).evt, Top(t).copy>>)
      /\ probe' = Told(Top(t), ok)
  BY DEF Return, Destroy
<1>4. ProbeOK'
  BY <1>1, <1>3, ToldOK
<1>5. free' = free + Weight(Top(t)) /\ Weight(Top(t)) \in Nat
  BY <1>2, <1>3, ListsOfTwo, WeightType
<1>6. /\ StackInv' /\ InCalls \in Nat /\ InCalls' \in Nat
      /\ InCalls' + Weight(Top(t)) = InCalls
  BY <1>1, <1>2, <1>3, Returned
<1>7. free' \in Nat /\ free' + InCalls' = free + InCalls
  BY <1>1, <1>5, <1>6
<1>8. QED
  BY <1>1, <1>4, <1>6, <1>7

(* The account of a step that does not touch the queue.                     *)
LEMMA Unqueued ==
  ASSUME Inv, StackInv', ProbeOK', InCalls \in Nat, InCalls' \in Nat,
         free' \in Nat, free' + InCalls' = free + InCalls,
         UNCHANGED <<platform, queue>>, mustPause' \in BOOLEAN, mustEnd' \in BOOLEAN
  PROVE  Inv'
<1>1. TypeOK'
  BY DEF Inv, TypeOK
<1>2. free + Queued(queue) + InCalls = platform.lists /\ free \in Nat
  BY DEF Inv, Balanced, TypeOK
<1>3. Queued(queue) \in Nat
  BY QueuedType DEF Inv, TypeOK
<1>4. free' + Queued(queue) + InCalls' = platform.lists
  <2>1. free + Queued(queue) + InCalls = (free + InCalls) + Queued(queue)
    BY <1>2, <1>3
  <2>2. free' + Queued(queue) + InCalls' = (free' + InCalls') + Queued(queue)
    BY <1>3
  <2>3. QED
    BY <1>2, <2>1, <2>2, Zenon
<1>5. Balanced'
  BY <1>4 DEF Balanced
<1>6. QED
  BY <1>1, <1>5 DEF Inv

(* An event that is sent on leaves the frame of its handler.                *)
LEMMA ForwardStep ==
  ASSUME Inv, NEW t \in Threads, Forward(t)
  PROVE  Inv'
<1>1. PICK out \in Senders(t) \ {App} :
        CallFrom(t, [Top(t) EXCEPT !.sent = TRUE, !.evt = Nothing],
                 SendFrame(out, "async", Top(t).evt, "test", FALSE))
  BY DEF Forward
<1> DEFINE e == Top(t).evt
           f == SendFrame(out, "async", e, "test", FALSE)
           c == [Top(t) EXCEPT !.sent = TRUE, !.evt = Nothing]
<1>2. /\ out \in Outputs /\ t = Events /\ stack[Events] # << >>
      /\ Top(Events) \in HandlerFrames /\ Top(Events).kind = "handler"
      /\ Len(stack[Events]) < MaxDepth
  BY SendersType DEF Inv, Forward, Handling
<1>3. c \in HandlerFrames /\ c.evt = Nothing
  BY <1>2, HandlerUpdates
<1>4. /\ f \in SendFrames /\ f.evt = e /\ f.copy = Nothing /\ f.at = "test"
  <2>1. e \in EventSet
    BY <1>2 DEF HandlerFrames
  <2> HIDE DEF e
  <2>2. ASSUME NEW mode \in {"sync", "async"}, NEW chosen \in BOOLEAN,
               NEW at \in {"create", "test", "fail"}
        PROVE  LET g == SendFrame(out, mode, e, at, chosen)
               IN /\ g \in SendFrames /\ g.evt = e /\ g.copy = Nothing
                  /\ g.at = at
    BY <1>2, <2>1, NewSend
  <2>3. QED
    BY <2>2
<1>5. CallFrom(t, c, f)
  BY <1>1
<1> HIDE DEF c, f
<1>6. /\ f \in Frames /\ FrameOK(f) /\ f.kind = "send" /\ Weight(f) = Weight(Top(t))
      /\ c \in Frames /\ c.kind = "handler" /\ FrameOK(c) /\ Waits(c)
      /\ Weight(c) = 0
  <2>1. Weight(f) = Bit(e.list) /\ Weight(c) = 0 /\ Weight(Top(t)) = Bit(e.list)
    BY <1>2, <1>3, <1>4, NothingThere, WeightOf DEF Bit
  <2>2. QED
    BY <1>3, <1>4, <2>1, NothingThere
       DEF Frames, SendFrames, HandlerFrames, FrameOK, Waits
<1>7. StackInv' /\ InCalls' = InCalls /\ InCalls \in Nat
  <2>1. /\ StackInv' /\ InCalls \in Nat /\ InCalls' \in Nat
        /\ InCalls' + Weight(Top(Events)) = InCalls + Weight(c) + Weight(f)
    BY <1>2, <1>5, <1>6, CalledFrom DEF Inv
  <2>2. QED
    BY <1>2, <1>6, <2>1, WeightType
<1>8. QED
  BY <1>7, Unqueued DEF Forward, Inv, TypeOK, ProbeOK

(* A list is made.                                                          *)
LEMMA CreateStep ==
  ASSUME Inv, NEW t \in Threads, Create(t)
  PROVE  Inv'
<1>1. PICK o \in Obtained(Top(t).evt.id) :
        /\ Replace(t, [Top(t) EXCEPT !.evt = o.evt, !.at = "test"])
        /\ free' = o.left
  BY DEF Create
<1> DEFINE f == [Top(t) EXCEPT !.evt = o.evt, !.at = "test"]
<1>2. /\ stack[t] # << >> /\ Top(t) \in SendFrames /\ Top(t).kind = "send"
      /\ Top(t).evt \in EventSet /\ ~Top(t).evt.list /\ ~Top(t).copy.list
      /\ Weight(Top(t)) = 0
  BY SendingTop DEF Inv, Create, Bit
<1>3. /\ o.evt \in EventSet /\ o.left \in Nat /\ o.left + Bit(o.evt.list) = free
  BY <1>2, ObtainedType DEF Inv, TypeOK, EventSet
<1>4. Moved(Top(t), f, o.evt, Top(t).copy, "test", Top(t).next)
  BY <1>2, <1>3, SendUpdates
<1>5. Replace(t, f)
  BY <1>1
<1> HIDE DEF f
<1>6. /\ f \in Frames /\ FrameOK(f) /\ f.kind = "send"
      /\ f.mode = Top(t).mode /\ Weight(f) = Bit(o.evt.list)
  BY <1>2, <1>4, WeightOf DEF Moved, Frames, SendFrames, FrameOK, Bit
<1>7. /\ StackInv' /\ InCalls \in Nat /\ InCalls' \in Nat
      /\ InCalls' + Weight(Top(t)) = InCalls + Weight(f)
  BY <1>2, <1>5, <1>6, Replaced DEF Inv
<1>8. free' \in Nat /\ free' + InCalls' = free + InCalls
  BY <1>1, <1>2, <1>3, <1>6, <1>7 DEF Bit
<1>9. QED
  BY <1>7, <1>8, Unqueued DEF Create, Inv, TypeOK, ProbeOK

(* The queue may end a send before it gives the event to anyone.            *)
LEMMA TestStep ==
  ASSUME Inv, NEW t \in Threads, Test(t)
  PROVE  Inv'
<1>1. PICK at \in {"test", "fail"} : Sending(t, at)
  BY DEF Test
<1>2. UNCHANGED <<platform, queue, mustPause, mustEnd>>
  BY DEF Test
<1>3. ASSUME NEW ok \in BOOLEAN, Return(t, ok)
      PROVE  Inv'
  BY <1>1, <1>2, <1>3, ReturnStep, Unqueued DEF Inv, TypeOK
<1>4. CASE /\ Replace(t, [Top(t) EXCEPT !.at = "each"])
           /\ UNCHANGED <<free, probe>>
  <2> DEFINE f == [Top(t) EXCEPT !.at = "each"]
  <2>1. /\ stack[t] # << >> /\ Top(t) \in SendFrames /\ Top(t).kind = "send"
        /\ Top(t).evt \in EventSet /\ ~Top(t).copy.list
    BY <1>1, SendingTop DEF Inv
  <2>2. Moved(Top(t), f, Top(t).evt, Top(t).copy, "each", Top(t).next)
    BY <2>1, SendUpdates
  <2>3. Replace(t, f)
    BY <1>4
  <2> HIDE DEF f
  <2>4. /\ f \in Frames /\ FrameOK(f) /\ f.kind = "send"
        /\ f.mode = Top(t).mode /\ Weight(f) = Weight(Top(t))
    BY <2>1, <2>2, WeightOf DEF Moved, Frames, SendFrames, FrameOK
  <2>5. /\ StackInv' /\ InCalls \in Nat /\ InCalls' \in Nat
        /\ InCalls' + Weight(Top(t)) = InCalls + Weight(f)
    BY <2>1, <2>3, <2>4, Replaced DEF Inv
  <2>6. InCalls' = InCalls
    BY <2>4, <2>5, WeightType
  <2>7. QED
    BY <1>2, <1>4, <2>5, <2>6, Unqueued DEF Inv, TypeOK, ProbeOK
<1>5. \/ Return(t, FALSE) \/ Return(t, TRUE)
      \/ /\ Replace(t, [Top(t) EXCEPT !.at = "each"])
         /\ UNCHANGED <<free, probe>>
  BY DEF Test
<1>6. QED
  BY <1>3, <1>4, <1>5

(* The send returns true when it has served its subscribers.                 *)
LEMMA AllServedStep ==
  ASSUME Inv, NEW t \in Threads, AllServed(t)
  PROVE  Inv'
  BY ReturnStep, Unqueued DEF AllServed, Inv, TypeOK

(* An event is moved, or its copy takes a block of its own.                 *)
LEMMA CloneStep ==
  ASSUME Inv, NEW t \in Threads, Clone(t)
  PROVE  Inv'
<1> DEFINE s == Top(t)
           given(e) == [s EXCEPT !.copy = e, !.at = "give"]
<1>1. /\ stack[t] # << >> /\ s \in SendFrames /\ s.kind = "send"
      /\ s.evt \in EventSet /\ ~s.copy.list /\ s.copy \in EventSet
      /\ Weight(s) = Bit(s.evt.list)
      /\ s.next <= Len(Subscribers[s.out])
  <2>1. Sending(t, "each") /\ s.next <= Len(Subs(t))
    BY DEF Clone
  <2>2. QED
    BY <2>1, SendingTop DEF Inv, Bit, Subs
<1>2. UNCHANGED <<platform, queue, mustPause, mustEnd, probe>>
  BY DEF Clone
<1>3. ASSUME NEW f \in SendFrames, NEW left \in Nat, Replace(t, f), free' = left,
             f.out = s.out, f.next = s.next, f.at = "give", f.mode = s.mode,
             left + Weight(f) = free + Weight(s)
      PROVE  Inv'
  <2>1. f \in Frames /\ FrameOK(f) /\ f.kind = "send" /\ f.mode = s.mode
    BY <1>1, <1>3 DEF Frames, SendFrames, FrameOK
  <2>2. /\ StackInv' /\ InCalls \in Nat /\ InCalls' \in Nat
        /\ InCalls' + Weight(s) = InCalls + Weight(f)
    BY <1>1, <1>3, <2>1, Replaced DEF Inv
  <2>3. free \in Nat /\ Weight(s) \in Nat /\ Weight(f) \in Nat
    BY WeightType DEF Inv, TypeOK
  <2>4. free' + InCalls' = free + InCalls
    <3> DEFINE after == InCalls'
    <3>1. /\ after \in Nat /\ after + Weight(s) = InCalls + Weight(f)
          /\ InCalls \in Nat /\ left + Weight(f) = free + Weight(s)
      BY <1>3, <2>2, Zenon
    <3> HIDE DEF after
    <3>2. left + after = free + InCalls
      BY <2>3, <3>1
    <3>3. QED
      BY <1>3, <3>2 DEF after
  <2>5. QED
    BY <1>2, <1>3, <2>2, <2>4, Unqueued DEF Inv, TypeOK, ProbeOK
<1>4. ASSUME NEW e \in EventSet
      PROVE  /\ Moved(s, given(e), s.evt, e, "give", s.next)
             /\ Weight(given(e)) = Bit(s.evt.list) + Bit(e.list)
             /\ Moved(s, [given(e) EXCEPT !.evt = Nothing],
                      Nothing, e, "give", s.next)
             /\ Weight([given(e) EXCEPT !.evt = Nothing]) = Bit(e.list)
  <2> DEFINE g == given(e)
             h == [g EXCEPT !.evt = Nothing]
  <2>1. Moved(s, g, s.evt, e, "give", s.next)
    BY <1>1, SendUpdates
  <2> HIDE DEF g
  <2>2. Moved(s, h, Nothing, e, "give", s.next)
    <3>1. g \in SendFrames
      BY <2>1 DEF Moved
    <3>2. Moved(g, h, Nothing, g.copy, g.at, g.next)
      BY <3>1, NothingThere, SendUpdates
    <3> HIDE DEF h
    <3>3. QED
      BY <2>1, <3>2 DEF Moved
  <2> HIDE DEF h
  <2>3. Weight(g) = Bit(s.evt.list) + Bit(e.list) /\ Weight(h) = Bit(e.list)
    BY <2>1, <2>2, WeightOf, NothingThere DEF Moved, Bit
  <2>4. QED
    BY <2>1, <2>2, <2>3 DEF g, h
<1>5. /\ free \in Nat
      /\ s.evt.id \in Ids \cup {kNoEvent}
  BY <1>1 DEF Inv, TypeOK, EventSet
<1>6. CASE /\ Replace(t, [given(s.evt) EXCEPT !.evt = Nothing])
           /\ UNCHANGED free
  <2> DEFINE f == [given(s.evt) EXCEPT !.evt = Nothing]
  <2>1. Moved(s, f, Nothing, s.evt, "give", s.next) /\ Weight(f) = Weight(s)
    BY <1>1, <1>4
  <2> HIDE DEF f
  <2>2. QED
    BY <1>3, <1>5, <1>6, <2>1 DEF Moved, f
<1>7. CASE /\ ~s.evt.list
           /\ Replace(t, given(s.evt)) /\ UNCHANGED free
  <2> DEFINE f == given(s.evt)
  <2>1. /\ Moved(s, f, s.evt, s.evt, "give", s.next)
        /\ Weight(f) = Bit(s.evt.list) + Bit(s.evt.list)
    BY <1>1, <1>4
  <2>2. Weight(f) = Weight(s)
    BY <1>1, <1>7, <2>1 DEF Bit
  <2> HIDE DEF f
  <2>3. QED
    BY <1>3, <1>5, <1>7, <2>1, <2>2 DEF Moved, f
<1>8. CASE \E o \in Obtained(s.evt.id) :
             /\ s.evt.list /\ Replace(t, given(o.evt)) /\ free' = o.left
  <2>1. PICK o \in Obtained(s.evt.id) :
          s.evt.list /\ Replace(t, given(o.evt)) /\ free' = o.left
    BY <1>8
  <2>2. /\ o.evt \in EventSet /\ o.left \in Nat
        /\ o.left + Bit(o.evt.list) = free
    BY <1>5, ObtainedType
  <2> DEFINE f == given(o.evt)
  <2>3. /\ Moved(s, f, s.evt, o.evt, "give", s.next)
        /\ Weight(f) = Bit(s.evt.list) + Bit(o.evt.list)
    BY <1>4, <2>2
  <2> HIDE DEF f
  <2>4. o.left + Weight(f) = free + Weight(s)
    BY <1>1, <1>5, <2>2, <2>3 DEF Bit
  <2>5. Replace(t, f)
    BY <2>1 DEF f
  <2>6. QED
    BY <1>3, <2>1, <2>2, <2>3, <2>4, <2>5 DEF Moved
<1>9. QED
  <2>1. \/ /\ Replace(t, [given(s.evt) EXCEPT !.evt = Nothing])
           /\ UNCHANGED free
        \/ ~s.evt.list /\ Replace(t, given(s.evt)) /\ UNCHANGED free
        \/ \E o \in Obtained(s.evt.id) :
             /\ s.evt.list /\ Replace(t, given(o.evt)) /\ free' = o.left
    BY DEF Clone
  <2> HIDE DEF given, s
  <2>2. QED
    BY <1>6, <1>7, <1>8, <2>1

(* push() moves a list from the call to the queue, or destroys it.          *)
LEMMA PushStep ==
  ASSUME Inv, NEW t \in Threads, Push(t)
  PROVE  Inv'
<1> DEFINE s == Top(t)
           f == [s EXCEPT !.copy = Nothing, !.at = "each", !.next = @ + 1]
           m == Message(t)
<1>1. /\ stack[t] # << >> /\ s \in SendFrames /\ s.kind = "send"
      /\ s.evt \in EventSet /\ s.copy \in EventSet
      /\ Weight(s) = Bit(s.evt.list) + Bit(s.copy.list)
      /\ s.next <= Len(Subs(t)) /\ Sending(t, "give")
  BY SendingTop DEF Push, Inv
<1>2. UNCHANGED <<platform, mustPause, mustEnd>>
  BY DEF Push
<1>3. CASE Refuses
  BY <1>1, <1>2, <1>3, ReturnStep, Unqueued DEF Push, Inv, TypeOK
<1>4. CASE ~Refuses
  <2>1. /\ queue' = Append(queue, m) /\ Replace(t, f)
        /\ UNCHANGED <<free, probe>>
    BY <1>4 DEF Push
  <2>2. m \in Messages /\ m.evt = s.copy
    <3>1. s.out \in Outputs /\ s.next \in Nat \ {0} /\ s.probe \in BOOLEAN
      BY <1>1 DEF SendFrames
    <3>2. Subs(t) \in Seq(Nodes)
      BY <3>1, EventOutputAssumption DEF Subs
    <3>3. Subs(t)[s.next] \in Nodes
      BY <1>1, <3>1, <3>2
    <3>4. QED
      BY <1>1, <3>1, <3>3 DEF Message, Messages
  <2>3. Moved(s, f, s.evt, Nothing, "each", s.next + 1)
    BY <1>1, SendUpdates
  <2> HIDE DEF f, m
  <2>4. /\ f \in Frames /\ FrameOK(f) /\ f.kind = "send"
        /\ f.mode = Top(t).mode /\ Weight(f) = Bit(s.evt.list)
    BY <2>3, WeightOf, NothingThere
       DEF Moved, Frames, SendFrames, FrameOK, Bit
  <2>5. /\ StackInv' /\ InCalls \in Nat /\ InCalls' \in Nat
        /\ InCalls' + Weight(s) = InCalls + Weight(f)
    BY <1>1, <2>1, <2>4, Replaced DEF Inv
  <2>6. queue \in Seq(Messages) /\ free \in Nat /\ Len(queue) <= Capacity
        /\ Len(queue) # Capacity
    BY <1>4 DEF Inv, TypeOK, Refuses, Full
  <2>7. /\ queue' \in Seq(Messages) /\ Len(queue') = Len(queue) + 1
        /\ Len(queue) \in Nat
        /\ Queued(queue') = Queued(queue) + Bit(s.copy.list)
        /\ Queued(queue) \in Nat
    BY <2>1, <2>2, <2>6, Grown, QueuedGrown
  <2>8. TypeOK'
    BY <1>2, <2>1, <2>6, <2>7, Bounds DEF Inv, TypeOK, ProbeOK
  <2>9. free' + Queued(queue') + InCalls' = platform'.lists
    <3> DEFINE after == InCalls'
               q == Queued(queue)
               e == Bit(s.evt.list)
               c == Bit(s.copy.list)
    <3>1. /\ after \in Nat /\ after + (e + c) = InCalls + e
          /\ InCalls \in Nat /\ q \in Nat /\ free \in Nat
      BY <1>1, <2>4, <2>5, <2>6, <2>7
    <3>2. Queued(queue') = q + c /\ free' = free /\ platform' = platform
      BY <1>2, <2>1, <2>7
    <3>3. e \in Nat /\ c \in Nat
      BY BitType
    <3>4. free + q + InCalls = platform.lists
      BY DEF Inv, Balanced
    <3> HIDE DEF after, q, e, c
    <3>5. free + (q + c) + after = free + q + InCalls
      BY <3>1, <3>3
    <3>6. QED
      BY <3>2, <3>4, <3>5, Zenon DEF after
  <2>10. Balanced'
    BY <2>9 DEF Balanced
  <2>11. QED
    BY <2>5, <2>8, <2>10 DEF Inv
<1>5. QED
  BY <1>3, <1>4

(* A subscriber is called with the copy of the event.                       *)
LEMMA CallSubscriberStep ==
  ASSUME Inv, NEW t \in Threads, CallSubscriber(t)
  PROVE  Inv'
<1> DEFINE s == Top(t)
           c == [s EXCEPT !.copy = Nothing]
           f == HandlerFrame(Message(t).dst, Message(t).evt)
<1>1. /\ stack[t] # << >> /\ s \in SendFrames /\ s.kind = "send" /\ s.at = "give"
      /\ s.evt \in EventSet /\ s.copy \in EventSet
      /\ Weight(s) = Bit(s.evt.list) + Bit(s.copy.list)
      /\ s.next <= Len(Subs(t))
  BY SendingTop DEF CallSubscriber, Inv
<1>2. /\ CallFrom(t, c, f) /\ s.mode = "sync"
      /\ probe' = Reaches(Message(t).nth)
      /\ UNCHANGED <<platform, free, queue, mustPause, mustEnd>>
  BY DEF CallSubscriber
<1>3. t = Events
  <2>1. CASE t = Stream
    <3>1. Len(stack[t]) \in 1 .. Len(stack[t]) /\ s = stack[t][Len(stack[t])]
      <4>1. stack[t] \in Seq(Frames)
        BY DEF Inv, StackInv
      <4>2. Len(stack[t]) \in Nat \ {0} /\ Last(stack[t]) = stack[t][Len(stack[t])]
        BY <1>1, <4>1, TopOf
      <4>3. QED
        BY <4>2 DEF Top
    <3>2. s.mode = "async"
      BY <2>1, <3>1 DEF Inv, StackInv, OneSend
    <3>3. QED
      BY <1>2, <3>2
  <2>2. QED
    BY <2>1 DEF Threads
<1>4. /\ Message(t).dst \in Nodes /\ Message(t).evt = s.copy
      /\ Message(t).nth \in Nat
  <2>1. s.out \in Outputs /\ s.next \in Nat \ {0} /\ s.probe \in BOOLEAN
    BY <1>1 DEF SendFrames
  <2>2. Subs(t) \in Seq(Nodes)
    BY <2>1, EventOutputAssumption DEF Subs
  <2>3. Subs(t)[s.next] \in Nodes
    BY <1>1, <2>1, <2>2
  <2>4. QED
    BY <2>1, <2>3 DEF Message
<1>5. Moved(s, c, s.evt, Nothing, s.at, s.next)
  BY <1>1, SendUpdates
<1>6. f \in HandlerFrames /\ f.evt = s.copy
  BY <1>1, <1>4, NewHandler
<1> HIDE DEF c, f
<1>7. /\ c \in Frames /\ c.kind = "send" /\ FrameOK(c) /\ Waits(c)
      /\ f \in Frames /\ f.kind = "handler" /\ FrameOK(f)
      /\ Weight(c) = Bit(s.evt.list) /\ Weight(f) = Bit(s.copy.list)
  <2>1. Weight(c) = Bit(s.evt.list) /\ Weight(f) = Bit(s.copy.list)
    BY <1>5, <1>6, WeightOf, NothingThere DEF Moved, Bit
  <2>2. FrameOK(c)
    BY <1>1, <1>5, NothingThere DEF FrameOK, Moved, Subs
  <2>3. QED
    BY <1>1, <1>5, <1>6, <2>1, <2>2, NothingThere
       DEF Moved, Frames, SendFrames, HandlerFrames, FrameOK, Waits
<1>8. /\ StackInv' /\ InCalls \in Nat /\ InCalls' \in Nat
      /\ InCalls' + Weight(Top(Events)) = InCalls + Weight(c) + Weight(f)
  BY <1>1, <1>2, <1>3, <1>7, CalledFrom DEF Inv
<1>9. InCalls' = InCalls
  <2> DEFINE after == InCalls'
             a == Bit(s.evt.list)
             b == Bit(s.copy.list)
  <2>1. /\ after + (a + b) = InCalls + a + b
        /\ after \in Nat /\ InCalls \in Nat
    BY <1>1, <1>3, <1>7, <1>8
  <2>2. a \in Nat /\ b \in Nat
    BY BitType
  <2> HIDE DEF after, a, b
  <2>3. after = InCalls
    BY <2>1, <2>2
  <2>4. QED
    BY <2>3 DEF after
<1>10. ProbeOK'
  BY <1>2, <1>4, ReachesOK DEF Inv, TypeOK
<1>11. QED
  BY <1>2, <1>8, <1>9, <1>10, Unqueued DEF Inv, TypeOK

(* The event thread takes a message and calls its subscriber.               *)
LEMMA ExecuteStep ==
  ASSUME Inv, Execute
  PROVE  Inv'
<1> DEFINE m == Head(queue)
           f == HandlerFrame(m.dst, m.evt)
<1>1. /\ stack[Events] = << >> /\ queue # << >> /\ Call(Events, f)
      /\ queue' = Tail(queue) /\ probe' = Reaches(m.nth)
      /\ UNCHANGED <<platform, free, mustPause, mustEnd>>
  BY DEF Execute
<1>2. /\ queue \in Seq(Messages) /\ Len(queue) <= Capacity /\ free \in Nat
  BY DEF Inv, TypeOK
<1>3. /\ m \in Messages /\ queue' \in Seq(Messages)
      /\ Queued(queue') \in Nat
      /\ Queued(queue) = Queued(queue') + Bit(m.evt.list)
  BY <1>1, <1>2, QueuedTail
<1>4. Len(queue') <= Capacity
  <2>1. Len(queue') = Len(queue) - 1 /\ Len(queue) \in Nat \ {0}
    BY <1>1, <1>2, HeadTailProperties, EmptySeq
  <2>2. QED
    BY <1>2, <2>1, Bounds
<1>5. /\ m.dst \in Nodes /\ m.evt \in EventSet /\ m.nth \in Nat
  BY <1>3 DEF Messages
<1>6. f \in HandlerFrames /\ f.evt = m.evt
  BY <1>5, NewHandler
<1> HIDE DEF f, m
<1>7. f \in Frames /\ FrameOK(f) /\ Weight(f) = Bit(m.evt.list)
  BY <1>6, WeightOf DEF Frames, FrameOK, HandlerFrames
<1>8. /\ StackInv' /\ InCalls \in Nat /\ InCalls' \in Nat
      /\ InCalls' = InCalls + Weight(f)
  BY <1>1, <1>7, Called DEF Inv, Threads, Stream, Events
<1>9. TypeOK'
  <2>1. ProbeOK'
    BY <1>1, <1>5, ReachesOK DEF Inv, TypeOK
  <2>2. QED
    BY <1>1, <1>2, <1>3, <1>4, <2>1 DEF Inv, TypeOK
<1>10. free' + Queued(queue') + InCalls' = platform'.lists
  <2> DEFINE after == InCalls'
             q == Queued(queue')
             b == Bit(m.evt.list)
  <2>1. /\ after = InCalls + b /\ InCalls \in Nat /\ q \in Nat /\ free \in Nat
        /\ free + (q + b) + InCalls = platform.lists
        /\ free' = free /\ platform' = platform
    BY <1>1, <1>2, <1>3, <1>7, <1>8 DEF Inv, Balanced
  <2>2. b \in Nat
    BY BitType
  <2> HIDE DEF after, q, b
  <2>3. free + q + after = free + (q + b) + InCalls
    BY <2>1, <2>2
  <2>4. QED
    BY <2>1, <2>3, Zenon DEF after, q
<1>11. Balanced'
  BY <1>10 DEF Balanced
<1>12. QED
  BY <1>8, <1>9, <1>11 DEF Inv

(* apply() takes the list out of an event and destroys it.                  *)
LEMMA ApplyStep ==
  ASSUME Inv, NEW t \in Threads, Apply(t)
  PROVE  Inv'
<1> DEFINE s == Top(t)
           f == [s EXCEPT !.evt.list = FALSE, !.applied = TRUE]
<1>1. /\ stack[t] # << >> /\ s \in HandlerFrames /\ s.kind = "handler"
      /\ s.evt.list /\ Weight(s) = 1
  <2>1. stack[t] # << >> /\ s.kind = "handler" /\ s.evt.list
    BY DEF Apply, Handling
  <2>2. s \in HandlerFrames
    BY <2>1, TopFrame DEF Inv
  <2>3. QED
    BY <2>1, <2>2, WeightOf DEF Bit
<1>2. /\ Replace(t, f) /\ free' = free + Lists(<<s.evt>>)
      /\ UNCHANGED <<platform, queue, mustPause, mustEnd, probe>>
  BY DEF Apply, Destroy
<1>3. f \in HandlerFrames /\ ~f.evt.list
  BY <1>1, HandlerUpdates
<1> HIDE DEF f
<1>4. /\ f \in Frames /\ f.kind = "handler" /\ FrameOK(f) /\ Weight(f) = 0
  BY <1>3, WeightOf DEF Frames, HandlerFrames, FrameOK, Bit
<1>5. /\ StackInv' /\ InCalls \in Nat /\ InCalls' \in Nat
      /\ InCalls' + Weight(s) = InCalls + Weight(f)
  BY <1>1, <1>2, <1>4, Replaced DEF Inv
<1>6. free' = free + 1 /\ free \in Nat
  BY <1>1, <1>2, ListsOfOne DEF Bit, Inv, TypeOK
<1>7. free' + InCalls' = free + InCalls
  <2> DEFINE after == InCalls'
  <2>1. after + 1 = InCalls + 0 /\ after \in Nat /\ InCalls \in Nat
    BY <1>1, <1>4, <1>5
  <2> HIDE DEF after
  <2>2. (free + 1) + after = free + InCalls
    BY <1>6, <2>1
  <2>3. QED
    BY <1>6, <2>2, Zenon DEF after
<1>8. QED
  BY <1>2, <1>5, <1>6, <1>7, Unqueued DEF Inv, TypeOK, ProbeOK

(* A handler returns to the event thread, to its caller, or, when it fails,  *)
(* makes its caller return.                                                 *)
LEMMA HandlerReturnsStep ==
  ASSUME Inv, NEW t \in Threads, HandlerReturns(t)
  PROVE  Inv'
<1> DEFINE s == Top(t)
           below == Front(stack[t])
           sender == Last(below)
<1>1. /\ stack[t] # << >> /\ s \in HandlerFrames /\ s.kind = "handler"
      /\ t = Events /\ Weight(s) = Bit(s.evt.list)
  <2>1. stack[t] # << >> /\ s.kind = "handler"
    BY DEF HandlerReturns, Handling
  <2>2. s \in HandlerFrames /\ t = Events
    BY <2>1, TopFrame DEF Inv
  <2>3. QED
    BY <2>1, <2>2, WeightOf
<1>2. UNCHANGED <<platform, queue, mustEnd>>
  BY DEF HandlerReturns
<1>3. free \in Nat /\ mustPause \in BOOLEAN /\ ProbeOK /\ StackInv /\ mustEnd \in BOOLEAN
  BY DEF Inv, TypeOK
<1>4. CASE below = << >>
  <2>1. PICK ok \in BOOLEAN :
          /\ stack' = [stack EXCEPT ![t] = << >>]
          /\ free' = free + Lists(<<s.evt>>)
          /\ mustPause' = (mustPause \/ ~ok) /\ UNCHANGED probe
    BY <1>4 DEF HandlerReturns, Destroy
  <2>2. stack' = [stack EXCEPT ![t] = Front(@)]
    BY <1>4, <2>1
  <2>3. /\ StackInv' /\ InCalls \in Nat /\ InCalls' \in Nat
        /\ InCalls' + Weight(s) = InCalls
    BY <1>1, <1>3, <2>2, Returned
  <2>4. free' = free + Weight(s) /\ Weight(s) \in Nat
    BY <1>1, <2>1, ListsOfOne, WeightType
  <2>5. free' \in Nat /\ free' + InCalls' = free + InCalls
    <3> DEFINE after == InCalls'
               w == Weight(s)
    <3>1. /\ after + w = InCalls /\ after \in Nat /\ w \in Nat
          /\ free' = free + w
      BY <2>3, <2>4
    <3> HIDE DEF after, w
    <3>2. free' \in Nat /\ free' + after = free + InCalls
      BY <1>3, <3>1
    <3>3. QED
      BY <3>2 DEF after
  <2>6. QED
    BY <1>2, <1>3, <2>1, <2>3, <2>5, Unqueued DEF ProbeOK
<1>5. CASE below # << >>
  <2>1. /\ sender \in SendFrames /\ FrameOK(sender) /\ sender.at = "give"
        /\ ~sender.copy.list /\ sender.evt \in EventSet
        /\ Weight(sender) = Bit(sender.evt.list) + Bit(sender.copy.list)
    <3>1. /\ sender \in SendFrames /\ FrameOK(sender) /\ sender.at = "give"
          /\ ~sender.copy.list
      BY <1>1, <1>3, <1>5, Caller
    <3>2. QED
      BY <3>1, WeightOf DEF SendFrames
  <2> DEFINE f == [sender EXCEPT !.at = "each", !.next = @ + 1]
  <2>2. /\ mustPause' = mustPause
        /\ \/ /\ stack' = [stack EXCEPT ![t] = Append(Front(below), f)]
              /\ free' = free + Lists(<<s.evt>>)
              /\ UNCHANGED probe
           \/ /\ stack' = [stack EXCEPT ![t] = Front(below)]
              /\ free' = free + Lists(<<s.evt, sender.evt, sender.copy>>)
              /\ probe' = Told(sender, FALSE)
    BY <1>5 DEF HandlerReturns, Destroy
  <2>3. CASE /\ stack' = [stack EXCEPT ![t] = Append(Front(below), f)]
             /\ free' = free + Lists(<<s.evt>>)
             /\ UNCHANGED probe
    <3>1. Moved(sender, f, sender.evt, sender.copy, "each", sender.next + 1)
      BY <2>1, SendUpdates
    <3> HIDE DEF f
    <3>2. f \in SendFrames /\ FrameOK(f) /\ Weight(f) = Weight(sender)
      BY <2>1, <3>1, WeightOf DEF Moved, FrameOK
    <3>3. /\ StackInv' /\ InCalls \in Nat /\ InCalls' \in Nat
          /\ InCalls' + (Weight(sender) + Weight(s)) = InCalls + Weight(f)
      BY <1>1, <1>3, <1>5, <2>3, <3>2, ReturnedTo
    <3>4. free' \in Nat /\ free' + InCalls' = free + InCalls
      <4> DEFINE after == InCalls'
                 w == Weight(s)
                 v == Weight(sender)
      <4>1. /\ after + (v + w) = InCalls + v /\ after \in Nat /\ InCalls \in Nat
            /\ w \in Nat /\ v \in Nat
            /\ free' = free + w
        BY <1>1, <2>3, <3>2, <3>3, ListsOfOne, WeightType
      <4> HIDE DEF after, w, v
      <4>2. free' \in Nat /\ free' + after = free + InCalls
        BY <1>3, <4>1
      <4>3. QED
        BY <4>2 DEF after
    <3>5. QED
      BY <1>2, <1>3, <2>2, <2>3, <3>3, <3>4, Unqueued DEF ProbeOK
  <2>4. CASE /\ stack' = [stack EXCEPT ![t] = Front(below)]
             /\ free' = free + Lists(<<s.evt, sender.evt, sender.copy>>)
             /\ probe' = Told(sender, FALSE)
    <3>1. /\ StackInv' /\ InCalls \in Nat /\ InCalls' \in Nat
          /\ InCalls' + (Weight(sender) + Weight(s)) = InCalls
      BY <1>1, <1>3, <1>5, <2>4, ReturnedTwice
    <3>2. ProbeOK'
      BY <1>3, <2>4, ToldOK
    <3>3. free' \in Nat /\ free' + InCalls' = free + InCalls
      <4> DEFINE after == InCalls'
                 w == Bit(s.evt.list)
                 v == Bit(sender.evt.list)
                 u == Bit(sender.copy.list)
      <4>1. /\ after + ((v + u) + w) = InCalls /\ after \in Nat
            /\ w \in Nat /\ v \in Nat /\ u \in Nat
        BY <1>1, <2>1, <3>1, BitType
      <4>2. free' = free + (w + v + u)
        <5>1. Lists(<<s.evt, sender.evt, sender.copy>>) = w + v + u
          BY ListsOfThree
        <5>2. free' = free + Lists(<<s.evt, sender.evt, sender.copy>>)
          BY <2>4
        <5>3. QED
          BY <5>1, <5>2, Zenon
      <4> HIDE DEF after, w, v, u
      <4>3. free' \in Nat /\ free' + after = free + InCalls
        BY <1>3, <4>1, <4>2
      <4>4. QED
        BY <4>3 DEF after
    <3>4. QED
      BY <1>2, <1>3, <2>2, <3>1, <3>2, <3>3, Unqueued
  <2>5. QED
    BY <2>2, <2>3, <2>4
<1>6. QED
  BY <1>4, <1>5

(* The queue is paused, resumed, ended and cleared.                         *)
LEMMA ControlStep ==
  ASSUME Inv, pause \/ resume \/ end
  PROVE  Inv'
<1>1. /\ UNCHANGED <<platform, free, queue, stack, probe>>
      /\ mustPause' \in BOOLEAN /\ mustEnd' \in BOOLEAN
  BY DEF pause, resume, end, Inv, TypeOK
<1>2. StackInv' /\ ProbeOK' /\ InCalls' = InCalls
  BY <1>1 DEF StackInv, ProbeOK, InCalls, Inv, TypeOK
<1>3. TypeOK' /\ Balanced'
  BY <1>1, <1>2 DEF Inv, TypeOK, Balanced
<1>4. QED
  BY <1>2, <1>3 DEF Inv

(* What the model counts is what the lemmas count.                          *)
LEMMA Counted ==
  ASSUME queue \in Seq(Messages), StackInv
  PROVE  /\ HeldInQueue = Queued(queue)
         /\ HeldInCalls(Stream) \in Nat /\ HeldInCalls(Events) \in Nat
         /\ HeldInCalls(Stream) + HeldInCalls(Events) = InCalls
<1>1. HeldInQueue = Queued(queue)
  <2>1. DOMAIN queue = 1 .. Len(queue)
    BY LenProperties
  <2>2. {k \in DOMAIN [i \in DOMAIN queue |-> queue[i].evt] :
           [i \in DOMAIN queue |-> queue[i].evt][k].list} =
          {k \in 1 .. Len(queue) : queue[k].evt.list}
    BY <2>1
  <2>3. QED
    BY <2>2 DEF HeldInQueue, Queued, Lists
<1>2. ASSUME NEW t \in Threads
      PROVE  HeldInCalls(t) = Held(stack[t]) /\ Held(stack[t]) \in Nat
  <2>0. Held(stack[t]) \in Nat
    BY HeldType DEF StackInv
  <2>1. DOMAIN stack[t] = 1 .. Len(stack[t])
    BY LenProperties DEF StackInv
  <2> DEFINE s == stack[t]
             sends == {d \in DOMAIN s : s[d].kind = "send"}
  <2>2. {k \in DOMAIN [d \in DOMAIN s |-> s[d].evt] :
           [d \in DOMAIN s |-> s[d].evt][k].list} = Originals(s)
    BY <2>1 DEF Originals
  <2>3. {k \in DOMAIN [d \in sends |-> s[d].copy] :
           [d \in sends |-> s[d].copy][k].list} = Given(s)
    BY <2>1 DEF Given
  <2>4. QED
    BY <2>0, <2>2, <2>3 DEF HeldInCalls, Held, Lists
<1>3. QED
  BY <1>1, <1>2 DEF InCalls, Threads

(* The blocks of a queue that is cleared are free.                          *)
LEMMA ClearStep ==
  ASSUME Inv, clear
  PROVE  Inv'
<1>1. /\ free' = free + HeldInQueue /\ queue' = << >>
      /\ UNCHANGED <<platform, mustPause, mustEnd, stack>>
      /\ probe' = IF Settled THEN probe ELSE [probe EXCEPT !.state = "cleared"]
  BY DEF clear, Destroy, HeldInQueue
<1>2. /\ queue \in Seq(Messages) /\ Queued(queue) \in Nat /\ free \in Nat
      /\ HeldInQueue = Queued(queue)
  BY QueuedType, Counted DEF Inv, TypeOK
<1>3. StackInv' /\ InCalls' = InCalls
  BY <1>1 DEF StackInv, InCalls, Inv
<1>4. Queued(queue') = 0 /\ queue' \in Seq(Messages) /\ Len(queue') <= Capacity
  <2>1. {k \in 1 .. Len(queue') : queue'[k].evt.list} = {}
    BY <1>1
  <2>2. QED
    BY <1>1, <2>1, FS_EmptySet, Bounds DEF Queued
<1>5. TypeOK'
  <2>1. ProbeOK'
    <3> HIDE DEF Settled
    <3>1. QED
      BY <1>1 DEF ProbeOK, Inv, TypeOK
  <2>2. QED
    BY <1>1, <1>2, <1>4, <2>1 DEF Inv, TypeOK
<1>6. free' + Queued(queue') + InCalls' = platform'.lists
  <2> DEFINE q == Queued(queue)
             c == InCalls
  <2>1. /\ free' = free + q /\ q \in Nat /\ InCalls' = c
        /\ platform' = platform /\ free + q + c = platform.lists
    BY <1>1, <1>2, <1>3 DEF Inv, Balanced
  <2> HIDE DEF q, c
  <2>2. free + q + 0 + c = free + q + c
    BY <1>2, <2>1
  <2>3. QED
    BY <1>4, <2>1, <2>2
<1>7. QED
  BY <1>3, <1>5, <1>6 DEF Inv, Balanced
-----------------------------------------------------------------------------
(* The program starts with every block in the pool.                          *)
LEMMA InvInitially == Init => Inv
<1> SUFFICES ASSUME Init PROVE Inv
  OBVIOUS
<1>1. \A t \in Threads : stack[t] = << >> /\ stack[t] \in Seq(Frames)
  BY DEF Init
<1>2. StackInv
  BY <1>1 DEF Init, StackInv, StackOK, OneSend, Threads
<1>3. ProbeOK
  BY EventOutputAssumption DEF Init, ProbeOK, NoProbe, App
<1>4. platform.lists \in Nat
  BY EventOutputAssumption DEF Init
<1>5. TypeOK
  <2>1. queue \in Seq(Messages) /\ Len(queue) = 0
    BY DEF Init
  <2>2. /\ platform \in Platforms /\ free \in Nat
        /\ mustPause \in BOOLEAN /\ mustEnd \in BOOLEAN
    BY <1>4 DEF Init
  <2>3. QED
    BY <1>3, <2>1, <2>2, Bounds DEF TypeOK
<1>6. Queued(queue) = 0
  <2>1. {k \in 1 .. Len(queue) : queue[k].evt.list} = {}
    BY DEF Init
  <2>2. QED
    BY <2>1, FS_EmptySet DEF Queued
<1>7. InCalls = 0
  <2>1. ASSUME NEW t \in Threads PROVE Held(stack[t]) = 0
    <3>1. Originals(stack[t]) = {} /\ Given(stack[t]) = {}
      BY <1>1 DEF Originals, Given
    <3>2. QED
      BY <3>1, FS_EmptySet DEF Held
  <2>2. QED
    BY <2>1 DEF InCalls, Threads
<1>8. Balanced
  BY <1>4, <1>6, <1>7 DEF Init, Balanced
<1>9. QED
  BY <1>2, <1>5, <1>8 DEF Inv

(* Every step keeps the blocks accounted for.                                *)
LEMMA InvInductive == Inv /\ [Next]_vars => Inv'
<1> SUFFICES ASSUME Inv, [Next]_vars PROVE Inv'
  OBVIOUS
<1>1. ASSUME NEW t \in Threads, Send(t) \/ Forward(t) \/ Apply(t)
      PROVE  Inv'
  BY <1>1, SendStep, ForwardStep, ApplyStep
<1>2. ASSUME NEW t \in Threads, Steps(t) PROVE Inv'
  BY <1>2, CreateStep, TestStep, CloneStep, AllServedStep, PushStep,
     CallSubscriberStep, HandlerReturnsStep DEF Steps
<1>3. CASE Execute \/ pause \/ clear \/ resume \/ end
  BY <1>3, ExecuteStep, ControlStep, ClearStep
<1>4. CASE UNCHANGED vars
  BY <1>4 DEF vars, Inv, TypeOK, ProbeOK, StackInv, Balanced, InCalls
<1>5. QED
  BY <1>1, <1>2, <1>3, <1>4 DEF Next

(* No path of an event loses a block of the pool, gives one back twice or    *)
(* leaves one to two events: for every graph, platform, queue and depth      *)
(* (StreamNode.hpp:1523-1561, EventQueue.hpp:229-345).                      *)
THEOREM EveryBlockAccounted == Spec => []BlocksAccounted
<1>1. Inv => BlocksAccounted
  <2>1. SUFFICES ASSUME Inv PROVE BlocksAccounted
    OBVIOUS
  <2>2. /\ queue \in Seq(Messages) /\ StackInv /\ free \in Nat
        /\ free + Queued(queue) + InCalls = platform.lists
    BY <2>1 DEF Inv, TypeOK, Balanced
  <2>3. /\ HeldInQueue = Queued(queue)
        /\ HeldInCalls(Stream) \in Nat /\ HeldInCalls(Events) \in Nat
        /\ HeldInCalls(Stream) + HeldInCalls(Events) = InCalls
        /\ Queued(queue) \in Nat
    BY <2>2, Counted, QueuedType
  <2>4. QED
    BY <2>2, <2>3 DEF BlocksAccounted
<1> HIDE DEF Inv
<1>2. QED
  BY InvInitially, InvInductive, <1>1, PTL DEF Spec
-----------------------------------------------------------------------------
(* The chosen send, which the variable probe follows: its frame, and how     *)
(* many subscribers it has served.  A send that waits for a subscriber has    *)
(* reached it.                                                              *)
Chosen(f) == f.kind = "send" /\ f.probe

Served(s, d) == IF d = Len(s) THEN s[d].next - 1 ELSE s[d].next

OnItsWay(q, i) == Cardinality({k \in 1 .. Len(q) : q[k].nth = i})

Targets == 1 .. Len(Subscribers[probe.out])
Reached(n) == \A i \in Targets : Copies(i) = IF i <= n THEN 1 ELSE 0

Running == probe.state \notin {"unused", "cleared"}

Lengths == Running => Len(probe.got) = Len(Subscribers[probe.out])

PrefixReached == Running => \E n \in Nat : Reached(n)

AllWhenAccepted ==
  Enough /\ probe.state = "accepted" => \A i \in Targets : Copies(i) = 1

Follows(s, d) ==
  /\ probe.state = "sending" /\ s[d].out = probe.out
  /\ Reached(Served(s, d))
  /\ Enough /\ s[d].at \in {"create", "test"} => s[d].evt.id # kNoEvent

FrameFollowed ==
  \A t \in Threads : \A d \in 1 .. Len(stack[t]) :
    Chosen(stack[t][d]) => Follows(stack[t], d)

OneChosen ==
  \A t, u \in Threads :
    \A d \in 1 .. Len(stack[t]), e \in 1 .. Len(stack[u]) :
      Chosen(stack[t][d]) /\ Chosen(stack[u][e]) => t = u /\ d = e

PInv ==
  /\ Lengths /\ PrefixReached /\ AllWhenAccepted /\ FrameFollowed /\ OneChosen

(* How a step may change the calls of a thread without touching the chosen   *)
(* send: it is not at the top, before or after.                             *)
SameChosen(s, r) ==
  \A d \in 1 .. Len(r) :
    Chosen(r[d]) => d < Len(r) /\ d < Len(s) /\ r[d] = s[d]

(* A call at the top is replaced by one that is not chosen, ...              *)
LEMMA SameReplaced ==
  ASSUME NEW s \in Seq(Frames), s # << >>, NEW f \in Frames, ~Chosen(f)
  PROVE  SameChosen(s, Append(Front(s), f))
<1> DEFINE r == Append(Front(s), f)
<1>1. /\ Len(s) \in Nat \ {0} /\ Len(r) = Len(s) /\ r[Len(s)] = f
      /\ \A d \in 1 .. Len(s) - 1 : r[d] = s[d]
  BY TopOf, Grown
<1> HIDE DEF r, Chosen
<1>2. QED
  BY <1>1 DEF SameChosen, r

(* a call of a send returns to a handler, ...                                *)
LEMMA SameReturned ==
  ASSUME NEW s \in Seq(Frames), s # << >>, StackOK(s), Last(s).kind = "send"
  PROVE  SameChosen(s, Front(s))
<1> DEFINE r == Front(s)
<1>1. /\ Len(s) \in Nat \ {0} /\ r \in Seq(Frames) /\ Len(r) = Len(s) - 1
      /\ \A d \in 1 .. Len(s) - 1 : r[d] = s[d]
  BY TopOf
<1>2. r # << >> => Last(r).kind # "send"
  BY FrontOK
<1> HIDE DEF r
<1>3. ASSUME NEW d \in 1 .. Len(r), Chosen(r[d]) PROVE d # Len(r)
  <2>1. SUFFICES ASSUME d = Len(r) PROVE FALSE
    OBVIOUS
  <2>2. r # << >>
    BY <1>1, EmptySeq
  <2>3. Last(r) = r[Len(r)]
    BY <1>1, <2>2, TopOf
  <2>4. QED
    BY <1>2, <1>3, <2>1, <2>2, <2>3 DEF Chosen
<1>4. QED
  BY <1>1, <1>3 DEF SameChosen, r

(* a handler calls a send that is not chosen, ...                            *)
LEMMA SameCalledFrom ==
  ASSUME NEW s \in Seq(Frames), s # << >>,
         NEW c \in Frames, ~Chosen(c), NEW f \in Frames, ~Chosen(f)
  PROVE  SameChosen(s, Append(Append(Front(s), c), f))
<1> DEFINE m == Append(Front(s), c)
           r == Append(m, f)
<1>1. /\ Len(s) \in Nat \ {0} /\ m \in Seq(Frames) /\ Len(m) = Len(s)
      /\ m[Len(s)] = c /\ \A d \in 1 .. Len(s) - 1 : m[d] = s[d]
  BY TopOf, Grown
<1> HIDE DEF m
<1>2. /\ Len(r) = Len(s) + 1 /\ r[Len(s) + 1] = f
      /\ \A d \in 1 .. Len(s) : r[d] = m[d]
  BY <1>1, Grown
<1> HIDE DEF r, Chosen
<1>3. QED
  BY <1>1, <1>2 DEF SameChosen, r, m

(* or the stream thread begins one.                                          *)
LEMMA SameCalled ==
  ASSUME NEW f \in Frames, ~Chosen(f)
  PROVE  SameChosen(<< >>, Append(<< >>, f))
  BY DEF SameChosen

(* A step that leaves the chosen send alone keeps what is known of it.      *)
LEMMA LeftAlone ==
  ASSUME PInv, StackInv, NEW t \in Threads, NEW s \in Seq(Frames),
         stack' = [stack EXCEPT ![t] = s], SameChosen(stack[t], s),
         UNCHANGED platform,
         probe'.state = probe.state, probe'.out = probe.out,
         Running => /\ Len(probe'.got) = Len(probe.got)
                    /\ \A i \in Targets : Copies(i)' = Copies(i)
  PROVE  PInv'
<1>1. /\ Targets' = Targets /\ Running' = Running /\ Enough' = Enough
      /\ Running => \A n : Reached(n)' = Reached(n)
  BY DEF Targets, Running, Reached, Enough
<1>2. Lengths' /\ PrefixReached' /\ AllWhenAccepted'
  <2>1. Lengths'
    BY <1>1 DEF PInv, Lengths
  <2>2. PrefixReached'
    BY <1>1 DEF PInv, PrefixReached
  <2>3. AllWhenAccepted'
    BY <1>1 DEF PInv, AllWhenAccepted, Running
  <2>4. QED
    BY <2>1, <2>2, <2>3
<1>3. \A u \in Threads : stack'[u] = IF u = t THEN s ELSE stack[u]
  BY DEF StackInv
<1>4. ASSUME NEW u \in Threads, NEW d \in 1 .. Len(stack'[u]),
             Chosen(stack'[u][d])
      PROVE  /\ d \in 1 .. Len(stack[u]) /\ stack'[u][d] = stack[u][d]
             /\ Served(stack'[u], d) = Served(stack[u], d)
             /\ Chosen(stack[u][d])
  <2>1. CASE u # t
    BY <1>3, <1>4, <2>1 DEF Served
  <2>2. CASE u = t
    <3>1. stack'[u] = s
      BY <1>3, <2>2
    <3>2. d < Len(s) /\ d < Len(stack[t]) /\ s[d] = stack[t][d]
      BY <1>4, <3>1 DEF SameChosen
    <3>3. Len(s) \in Nat /\ Len(stack[t]) \in Nat
      BY LenProperties DEF StackInv
    <3>4. QED
      BY <1>4, <2>2, <3>1, <3>2, <3>3 DEF Served
  <2>3. QED
    BY <2>1, <2>2
<1>5. FrameFollowed'
  <2>1. SUFFICES ASSUME NEW u \in Threads, NEW d \in 1 .. Len(stack'[u]),
                        Chosen(stack'[u][d])
                 PROVE  Follows(stack[u], d)'
    BY DEF FrameFollowed, Chosen
  <2>2. /\ d \in 1 .. Len(stack[u]) /\ stack'[u][d] = stack[u][d]
        /\ Served(stack[u], d)' = Served(stack[u], d)
        /\ Chosen(stack[u][d])
    BY <1>4, <2>1 DEF Served
  <2>3. Follows(stack[u], d)
    BY <2>2 DEF PInv, FrameFollowed
  <2>4. Running
    BY <2>3 DEF Follows, Running
  <2>5. Reached(Served(stack[u], d))'
    <3>1. SUFFICES ASSUME NEW i \in Targets'
                   PROVE  Copies(i)' = IF i <= Served(stack[u], d)' THEN 1 ELSE 0
      BY DEF Reached
    <3>2. i \in Targets /\ Copies(i)' = Copies(i)
      BY <1>1, <2>4
    <3>3. Copies(i) = IF i <= Served(stack[u], d) THEN 1 ELSE 0
      BY <2>3, <3>2 DEF Follows, Reached
    <3>4. QED
      BY <2>2, <3>2, <3>3
  <2>6. QED
    BY <1>1, <2>2, <2>3, <2>5 DEF Follows
<1>6. OneChosen'
  BY <1>4 DEF PInv, OneChosen, Chosen
<1>7. QED
  BY <1>2, <1>5, <1>6 DEF PInv

(* A step of the chosen send, or of the thread that chooses one: no other    *)
(* frame is followed.                                                       *)
NoneElsewhere(t) ==
  \A u \in Threads \ {t} : \A d \in 1 .. Len(stack[u]) : ~Chosen(stack[u][d])

(* One call of one thread is the only one that may be chosen.                *)
LEMMA ThisOneFollowed ==
  ASSUME StackInv, NEW t \in Threads, NEW s \in Seq(Frames),
         stack' = [stack EXCEPT ![t] = s], NoneElsewhere(t), NEW p,
         \A d \in 1 .. Len(s) : Chosen(s[d]) => d = p /\ Follows(s, d)',
         Lengths', PrefixReached', AllWhenAccepted'
  PROVE  PInv'
<1>1. \A u \in Threads : stack'[u] = IF u = t THEN s ELSE stack[u]
  BY DEF StackInv
<1>2. ASSUME NEW u \in Threads, NEW d \in 1 .. Len(stack'[u]),
             Chosen(stack'[u][d])
      PROVE  u = t /\ stack'[u] = s /\ d = p /\ Follows(s, d)'
  <2>1. u = t
    BY <1>1, <1>2 DEF NoneElsewhere
  <2>2. stack'[u] = s
    BY <1>1, <2>1
  <2>3. QED
    BY <1>2, <2>1, <2>2
<1>3. FrameFollowed'
  <2>1. SUFFICES ASSUME NEW u \in Threads, NEW d \in 1 .. Len(stack'[u]),
                        Chosen(stack'[u][d])
                 PROVE  Follows(stack[u], d)'
    BY DEF FrameFollowed, Chosen
  <2>2. stack'[u] = s /\ Follows(s, d)'
    BY <1>2, <2>1
  <2>3. QED
    BY <2>2 DEF Follows, Served
<1>4. OneChosen'
  BY <1>2 DEF OneChosen, Chosen
<1>5. QED
  BY <1>3, <1>4 DEF PInv

(* The chosen send is the only one.                                         *)
LEMMA OnlyThisOne ==
  ASSUME OneChosen, FrameFollowed, NEW t \in Threads,
         NEW p \in 1 .. Len(stack[t]), Chosen(stack[t][p])
  PROVE  /\ NoneElsewhere(t)
         /\ \A d \in 1 .. Len(stack[t]) : Chosen(stack[t][d]) => d = p
         /\ Follows(stack[t], p)
<1>1. NoneElsewhere(t)
  BY DEF OneChosen, NoneElsewhere
<1>2. \A d \in 1 .. Len(stack[t]) : Chosen(stack[t][d]) => d = p
  BY DEF OneChosen
<1>3. QED
  BY <1>1, <1>2 DEF FrameFollowed

(* Its frame changes, ...                                                   *)
LEMMA ChosenReplaced ==
  ASSUME PInv, StackInv, NEW t \in Threads, stack[t] # << >>, Chosen(Top(t)),
         NEW f \in SendFrames, Replace(t, f),
         probe'.state = "sending", f.out = probe'.out,
         Reached(f.next - 1)',
         Enough' /\ f.at \in {"create", "test"} => f.evt.id # kNoEvent,
         Lengths', AllWhenAccepted', f.next - 1 \in Nat
  PROVE  PInv'
<1> SUFFICES ASSUME NEW s, s = stack[t], NEW p, p = Len(s),
                    NEW r, r = Append(Front(s), f)
             PROVE  PInv'
  OBVIOUS
<1>1. s \in Seq(Frames) /\ f \in Frames
  BY DEF StackInv, Frames
<1>2. /\ p \in Nat \ {0} /\ Top(t) = s[p] /\ Front(s) \in Seq(Frames)
      /\ Len(Front(s)) = p - 1
      /\ \A d \in 1 .. p - 1 : Front(s)[d] = s[d]
  BY <1>1, TopOf DEF Top
<1>3. /\ r \in Seq(Frames) /\ Len(r) = p /\ r[p] = f
      /\ \A d \in 1 .. p - 1 : r[d] = s[d]
  BY <1>1, <1>2, Grown, SMTT(20)
<1>4. /\ NoneElsewhere(t)
      /\ \A d \in 1 .. p : Chosen(s[d]) => d = p
  BY <1>2, OnlyThisOne DEF PInv
<1>5. stack' = [stack EXCEPT ![t] = r]
  BY DEF Replace
<1> HIDE DEF Chosen
<1>6. ASSUME NEW d \in 1 .. Len(r), Chosen(r[d])
      PROVE  d = p /\ Follows(r, d)'
  <2>1. d = p
    BY <1>2, <1>3, <1>4, <1>6
  <2>2. Served(r, p) = f.next - 1
    BY <1>3 DEF Served
  <2>3. Follows(r, p)'
    BY <1>3, <2>2 DEF Follows, Served
  <2>4. QED
    BY <2>1, <2>3
<1>7. PrefixReached'
  BY DEF PrefixReached, Reached
<1>8. \A d \in 1 .. Len(r) : Chosen(r[d]) => d = p /\ Follows(r, d)'
  BY <1>6
<1>9. r \in Seq(Frames) /\ NoneElsewhere(t) /\ Lengths' /\ AllWhenAccepted'
  BY <1>3, <1>4
<1> HIDE DEF Lengths, AllWhenAccepted, PrefixReached, Follows, NoneElsewhere
<1>10. QED
  BY <1>5, <1>7, <1>8, <1>9, ThisOneFollowed

(* it returns, ...                                                          *)
LEMMA ChosenReturns ==
  ASSUME PInv, StackInv, NEW t \in Threads, stack[t] # << >>, Chosen(Top(t)),
         stack' = [stack EXCEPT ![t] = Front(@)],
         Lengths', PrefixReached', AllWhenAccepted'
  PROVE  PInv'
<1> SUFFICES ASSUME NEW s, s = stack[t], NEW p, p = Len(s),
                    NEW r, r = Front(s)
             PROVE  PInv'
  OBVIOUS
<1>1. s \in Seq(Frames)
  BY DEF StackInv
<1>2. /\ p \in Nat \ {0} /\ Top(t) = s[p] /\ r \in Seq(Frames)
      /\ Len(r) = p - 1
      /\ \A d \in 1 .. p - 1 : r[d] = s[d]
  BY <1>1, TopOf DEF Top
<1>3. /\ NoneElsewhere(t)
      /\ \A d \in 1 .. p : Chosen(s[d]) => d = p
  BY <1>2, OnlyThisOne DEF PInv
<1>4. stack' = [stack EXCEPT ![t] = r]
  OBVIOUS
<1> HIDE DEF Chosen, Lengths, AllWhenAccepted, PrefixReached, Follows,
             NoneElsewhere
<1>5. \A d \in 1 .. Len(r) : Chosen(r[d]) => d = p /\ Follows(r, d)'
  BY <1>2, <1>3
<1>6. /\ r \in Seq(Frames) /\ NoneElsewhere(t)
      /\ Lengths' /\ PrefixReached' /\ AllWhenAccepted'
  BY <1>2, <1>3
<1>7. QED
  BY <1>4, <1>5, <1>6, ThisOneFollowed

(* it calls a subscriber,                                                   *)
LEMMA ChosenCalls ==
  ASSUME PInv, StackInv, NEW t \in Threads, stack[t] # << >>, Chosen(Top(t)),
         NEW c \in SendFrames, NEW f \in HandlerFrames, CallFrom(t, c, f),
         c.at = "give",
         probe'.state = "sending", c.out = probe'.out, Reached(c.next)',
         Lengths', AllWhenAccepted', c.next \in Nat
  PROVE  PInv'
<1> SUFFICES ASSUME NEW s, s = stack[t], NEW p, p = Len(s),
                    NEW m, m = Append(Front(s), c), NEW r, r = Append(m, f)
             PROVE  PInv'
  OBVIOUS
<1>1. s \in Seq(Frames) /\ c \in Frames /\ f \in Frames /\ ~Chosen(f)
  BY DEF StackInv, Frames, Chosen, HandlerFrames
<1>2. /\ p \in Nat \ {0} /\ Top(t) = s[p] /\ Front(s) \in Seq(Frames)
      /\ Len(Front(s)) = p - 1
      /\ \A d \in 1 .. p - 1 : Front(s)[d] = s[d]
  BY <1>1, TopOf DEF Top
<1>3. /\ m \in Seq(Frames) /\ Len(m) = p /\ m[p] = c
      /\ \A d \in 1 .. p - 1 : m[d] = s[d]
  BY <1>1, <1>2, Grown
<1>4. /\ r \in Seq(Frames) /\ Len(r) = p + 1 /\ r[p + 1] = f
      /\ \A d \in 1 .. p : r[d] = m[d]
  BY <1>1, <1>3, Grown
<1>5. /\ NoneElsewhere(t)
      /\ \A d \in 1 .. p : Chosen(s[d]) => d = p
  BY <1>2, OnlyThisOne DEF PInv
<1>6. stack' = [stack EXCEPT ![t] = r]
  BY DEF CallFrom
<1> HIDE DEF Chosen
<1>7. ASSUME NEW d \in 1 .. Len(r), Chosen(r[d])
      PROVE  d = p /\ Follows(r, d)'
  <2>1. d = p
    <3>1. d # p + 1
      BY <1>1, <1>4, <1>7
    <3>2. d \in 1 .. p - 1 => r[d] = s[d]
      BY <1>2, <1>3, <1>4
    <3>3. QED
      BY <1>2, <1>4, <1>5, <1>7, <3>1, <3>2
  <2>2. Served(r, p) = c.next /\ r[p] = c
    BY <1>2, <1>3, <1>4 DEF Served
  <2>3. Follows(r, p)'
    BY <2>2 DEF Follows, Served
  <2>4. QED
    BY <2>1, <2>3
<1>8. PrefixReached'
  BY DEF PrefixReached, Reached
<1>9. \A d \in 1 .. Len(r) : Chosen(r[d]) => d = p /\ Follows(r, d)'
  BY <1>7
<1>10. /\ r \in Seq(Frames) /\ NoneElsewhere(t) /\ StackInv
       /\ Lengths' /\ AllWhenAccepted'
  BY <1>4, <1>5
<1> HIDE DEF Lengths, AllWhenAccepted, PrefixReached, Follows, NoneElsewhere
<1>11. QED
  BY <1>6, <1>8, <1>9, <1>10, ThisOneFollowed, ZenonT(60)

(* it goes on after its subscriber has returned,                            *)
LEMMA ChosenGoesOn ==
  ASSUME PInv, StackInv, NEW t \in Threads, stack[t] # << >>,
         NEW below, below = Front(stack[t]), below # << >>,
         Chosen(Last(below)), ~Chosen(Top(t)),
         NEW f \in SendFrames,
         stack' = [stack EXCEPT ![t] = Append(Front(below), f)],
         f.at = "each", f.next = Last(below).next + 1, f.out = Last(below).out,
         UNCHANGED <<platform, queue, probe>>
  PROVE  PInv'
<1> SUFFICES ASSUME NEW s, s = stack[t], NEW p, p = Len(s) - 1,
                    NEW r, r = Append(Front(below), f)
             PROVE  PInv'
  OBVIOUS
<1>1. s \in Seq(Frames) /\ f \in Frames
  BY DEF StackInv, Frames
<1>2. /\ Len(s) = p + 1 /\ p \in Nat /\ Top(t) = s[p + 1]
      /\ below \in Seq(Frames) /\ Len(below) = p
      /\ \A d \in 1 .. p : below[d] = s[d]
  <2>1. /\ Len(s) \in Nat \ {0} /\ Last(s) = s[Len(s)] /\ below \in Seq(Frames)
        /\ Len(below) = Len(s) - 1
        /\ \A d \in 1 .. Len(s) - 1 : below[d] = s[d]
    BY <1>1, TopOf
  <2>2. QED
    BY <2>1 DEF Top
<1>3. /\ p \in Nat \ {0} /\ Last(below) = s[p] /\ Front(below) \in Seq(Frames)
      /\ Len(Front(below)) = p - 1
      /\ \A d \in 1 .. p - 1 : Front(below)[d] = s[d]
  <2>1. /\ Len(below) \in Nat \ {0} /\ Last(below) = below[Len(below)]
        /\ Front(below) \in Seq(Frames)
        /\ Len(Front(below)) = Len(below) - 1
        /\ \A d \in 1 .. Len(below) - 1 : Front(below)[d] = below[d]
    BY <1>2, TopOf
  <2>2. p \in Nat \ {0} /\ Last(below) = s[p]
    BY <1>2, <2>1
  <2>3. \A d \in 1 .. p - 1 : Front(below)[d] = s[d]
    BY <1>2, <2>1
  <2>4. QED
    BY <1>2, <2>1, <2>2, <2>3
<1>4. /\ r \in Seq(Frames) /\ Len(r) = p /\ r[p] = f
      /\ \A d \in 1 .. p - 1 : r[d] = s[d]
  BY <1>1, <1>3, Grown
<1>5. /\ NoneElsewhere(t) /\ Follows(s, p)
      /\ \A d \in 1 .. p : Chosen(s[d]) => d = p
  BY <1>2, <1>3, OnlyThisOne DEF PInv
<1>6. Lengths' /\ PrefixReached' /\ AllWhenAccepted'
  BY DEF PInv, Lengths, PrefixReached, AllWhenAccepted, Reached, Targets,
         Copies, Enough, Running
<1>7. Served(r, p) = Served(s, p)
  <2>1. Served(s, p) = s[p].next
    BY <1>2 DEF Served
  <2>2. Served(r, p) = (s[p].next + 1) - 1
    BY <1>3, <1>4 DEF Served
  <2>3. f.next \in Nat /\ s[p].next \in Nat
    <3>1. s[p] \in Frames /\ s[p].kind = "send"
      BY <1>1, <1>2, <1>3 DEF Chosen
    <3>2. QED
      BY <3>1 DEF Frames, SendFrames, HandlerFrames
  <2>4. QED
    BY <2>1, <2>2, <2>3
<1>8. Follows(r, p)'
  <2>1. Reached(Served(r, p))'
    BY <1>5, <1>7 DEF Follows, Reached, Served, Targets, Copies
  <2>2. QED
    BY <1>3, <1>4, <1>5, <2>1 DEF Follows
<1> HIDE DEF Chosen
<1>9. \A d \in 1 .. Len(r) : Chosen(r[d]) => d = p /\ Follows(r, d)'
  <2>1. SUFFICES ASSUME NEW d \in 1 .. Len(r), Chosen(r[d])
                 PROVE  d = p
    BY <1>8
  <2>2. d \in 1 .. p - 1 => r[d] = s[d]
    BY <1>4
  <2>3. QED
    BY <1>3, <1>4, <1>5, <2>1, <2>2
<1>10. stack' = [stack EXCEPT ![t] = r] /\ r \in Seq(Frames) /\ NoneElsewhere(t)
  BY <1>4, <1>5
<1> HIDE DEF Lengths, AllWhenAccepted, PrefixReached, Follows, NoneElsewhere
<1>11. QED
  BY <1>6, <1>9, <1>10, ThisOneFollowed

(* or it returns because its subscriber has failed.                         *)
LEMMA ChosenFails ==
  ASSUME PInv, StackInv, NEW t \in Threads, stack[t] # << >>,
         NEW below, below = Front(stack[t]), below # << >>,
         Chosen(Last(below)),
         stack' = [stack EXCEPT ![t] = Front(below)],
         Lengths', PrefixReached', AllWhenAccepted'
  PROVE  PInv'
<1> SUFFICES ASSUME NEW s, s = stack[t], NEW p, p = Len(s) - 1,
                    NEW r, r = Front(below)
             PROVE  PInv'
  OBVIOUS
<1>1. s \in Seq(Frames)
  BY DEF StackInv
<1>2. /\ Len(s) = p + 1 /\ p \in Nat
      /\ below \in Seq(Frames) /\ Len(below) = p
      /\ \A d \in 1 .. p : below[d] = s[d]
  <2>1. /\ Len(s) \in Nat \ {0} /\ below \in Seq(Frames)
        /\ Len(below) = Len(s) - 1
        /\ \A d \in 1 .. Len(s) - 1 : below[d] = s[d]
    BY <1>1, TopOf
  <2>2. QED
    BY <2>1
<1>3. /\ p \in Nat \ {0} /\ Last(below) = s[p] /\ r \in Seq(Frames)
      /\ Len(r) = p - 1
      /\ \A d \in 1 .. p - 1 : r[d] = s[d]
  <2>1. /\ Len(below) \in Nat \ {0} /\ Last(below) = below[Len(below)]
        /\ Front(below) \in Seq(Frames)
        /\ Len(Front(below)) = Len(below) - 1
        /\ \A d \in 1 .. Len(below) - 1 : Front(below)[d] = below[d]
    BY <1>2, TopOf
  <2>2. QED
    BY <1>2, <2>1
<1>4. /\ NoneElsewhere(t)
      /\ \A d \in 1 .. p : Chosen(s[d]) => d = p
  BY <1>2, <1>3, OnlyThisOne DEF PInv
<1> HIDE DEF Chosen, Lengths, AllWhenAccepted, PrefixReached, Follows,
             NoneElsewhere
<1>5. \A d \in 1 .. Len(r) : Chosen(r[d]) => d = p /\ Follows(r, d)'
  BY <1>3, <1>4
<1>6. /\ r \in Seq(Frames) /\ NoneElsewhere(t)
      /\ Lengths' /\ PrefixReached' /\ AllWhenAccepted'
  BY <1>3, <1>4
<1>7. stack' = [stack EXCEPT ![t] = r]
  OBVIOUS
<1>8. QED
  BY <1>5, <1>6, <1>7, ThisOneFollowed
-----------------------------------------------------------------------------
(* The copies that a subscriber has received or that are queued for it.     *)
LEMMA CopiesAre ==
  ASSUME queue \in Seq(Messages), NEW i
  PROVE  Copies(i) = probe.got[i] + OnItsWay(queue, i)
<1>1. DOMAIN queue = 1 .. Len(queue)
  BY LenProperties
<1>2. QED
  BY <1>1 DEF Copies, OnItsWay

(* push() adds a message,                                                   *)
LEMMA WayGrown ==
  ASSUME NEW q \in Seq(Messages), NEW m \in Messages, NEW i
  PROVE  /\ OnItsWay(q, i) \in Nat
         /\ OnItsWay(Append(q, m), i) = OnItsWay(q, i) + Bit(m.nth = i)
<1> DEFINE A == {k \in 1 .. Len(q) : q[k].nth = i}
           r == Append(q, m)
           B == {k \in 1 .. Len(r) : r[k].nth = i}
<1>1. /\ Len(q) \in Nat /\ Len(r) = Len(q) + 1 /\ r[Len(q) + 1] = m
      /\ \A d \in 1 .. Len(q) : r[d] = q[d]
  BY Grown
<1> HIDE DEF r
<1>2. /\ A \in SUBSET (1 .. Len(q)) /\ B \in SUBSET (1 .. Len(q) + 1)
      /\ \A d \in 1 .. Len(q) : d \in A <=> d \in B
      /\ Len(q) + 1 \in B <=> m.nth = i
  BY <1>1
<1> HIDE DEF A, B
<1>3. /\ Cardinality(A) \in Nat
      /\ Cardinality(B) = Cardinality(A) + Bit(m.nth = i)
  <2>1. /\ Cardinality(A) \in Nat
        /\ Cardinality(B) = Cardinality(A) + Bit(Len(q) + 1 \in B)
    BY <1>1, <1>2, OneMore
  <2>2. QED
    BY <1>2, <2>1 DEF Bit
<1>4. QED
  BY <1>3 DEF A, B, r, OnItsWay

(* and execute() takes one.                                                 *)
LEMMA WayTail ==
  ASSUME NEW q \in Seq(Messages), q # << >>, NEW i
  PROVE  /\ OnItsWay(Tail(q), i) \in Nat
         /\ OnItsWay(q, i) = OnItsWay(Tail(q), i) + Bit(Head(q).nth = i)
<1> DEFINE r == Tail(q)
           A == {k \in 1 .. Len(r) : r[k].nth = i}
           B == {k \in 1 .. Len(q) : q[k].nth = i}
<1>1. /\ Head(q) = q[1] /\ Len(r) \in Nat /\ Len(q) = Len(r) + 1
      /\ \A d \in 1 .. Len(r) : r[d] = q[d + 1]
  BY HeadTailProperties, LenProperties, EmptySeq
<1> HIDE DEF r
<1>2. /\ A \in SUBSET (1 .. Len(r)) /\ B \in SUBSET (1 .. Len(r) + 1)
      /\ \A d \in 1 .. Len(r) : d \in A <=> d + 1 \in B
      /\ 1 \in B <=> Head(q).nth = i
  BY <1>1
<1> HIDE DEF A, B
<1>3. /\ Cardinality(A) \in Nat
      /\ Cardinality(B) = Cardinality(A) + Bit(Head(q).nth = i)
  <2>1. SUFFICES ASSUME NEW n \in Nat, n = Len(r)
                 PROVE  /\ Cardinality(A) \in Nat
                        /\ Cardinality(B) = Cardinality(A) + Bit(1 \in B)
    BY <1>1, <1>2 DEF Bit
  <2>2. /\ A \in SUBSET (1 .. n) /\ B \in SUBSET (1 .. n + 1)
        /\ \A d \in 1 .. n : d \in A <=> d + 1 \in B
    BY <1>2, <2>1
  <2>3. QED
    BY <2>2, OneLess
<1>4. QED
  BY <1>1, <1>3 DEF A, B, r, OnItsWay

(* How often a subscriber has been reached is a number.                     *)
LEMMA GotType ==
  ASSUME Inv, Lengths, Running, NEW i \in Targets
  PROVE  /\ i \in 1 .. Len(probe.got) /\ probe.got[i] \in Nat
         /\ OnItsWay(queue, i) \in Nat
         /\ Copies(i) = probe.got[i] + OnItsWay(queue, i)
<1>1. queue \in Seq(Messages) /\ probe.got \in Seq(Nat)
  BY DEF Inv, TypeOK, ProbeOK
<1>2. i \in 1 .. Len(probe.got) /\ probe.got[i] \in Nat
  BY <1>1, ElementOfSeq DEF Lengths, Targets
<1>3. Copies(i) = probe.got[i] + OnItsWay(queue, i)
  BY <1>1, CopiesAre
<1>4. OnItsWay(queue, i) \in Nat
  <2>1. {k \in 1 .. Len(queue) : queue[k].nth = i} \in SUBSET (1 .. Len(queue))
    OBVIOUS
  <2>2. IsFiniteSet(1 .. Len(queue))
    BY <1>1, FS_Interval, LenProperties
  <2>3. QED
    BY <2>1, <2>2, FS_Subset, FS_CardinalityType DEF OnItsWay
<1>5. QED
  BY <1>2, <1>3, <1>4

(* A message that is taken from the queue reaches its subscriber.           *)
LEMMA CopiesTaken ==
  ASSUME Inv, Lengths, Running, queue # << >>, queue' = Tail(queue),
         probe' = Reaches(Head(queue).nth), NEW i \in Targets
  PROVE  Copies(i)' = Copies(i)
<1> DEFINE n == Head(queue).nth
<1>1. /\ queue \in Seq(Messages) /\ Tail(queue) \in Seq(Messages)
      /\ n \in Nat /\ ProbeOK
  <2>1. queue \in Seq(Messages) /\ ProbeOK
    BY DEF Inv, TypeOK
  <2>2. Tail(queue) \in Seq(Messages) /\ Head(queue) \in Messages
    BY <2>1, HeadTailProperties, EmptySeq
  <2>3. QED
    BY <2>1, <2>2 DEF Messages
<1>2. /\ i \in 1 .. Len(probe.got) /\ probe.got[i] \in Nat
      /\ Copies(i) = probe.got[i] + OnItsWay(queue, i)
  BY GotType
<1>3. probe'.got[i] = probe.got[i] + (IF i = n THEN 1 ELSE 0)
  BY <1>1, <1>2, ReachesOK
<1>4. Copies(i)' = probe'.got[i] + OnItsWay(queue', i)
  <2>1. DOMAIN queue' = 1 .. Len(queue')
    BY <1>1, LenProperties
  <2>2. QED
    BY <2>1 DEF Copies, OnItsWay
<1>5. /\ OnItsWay(Tail(queue), i) \in Nat
      /\ OnItsWay(queue, i) = OnItsWay(Tail(queue), i) + Bit(n = i)
  BY <1>1, WayTail
<1>6. QED
  <2> DEFINE a == OnItsWay(Tail(queue), i)
             g == probe.got[i]
  <2>1. /\ Copies(i)' = (g + (IF i = n THEN 1 ELSE 0)) + a
        /\ Copies(i) = g + (a + (IF n = i THEN 1 ELSE 0))
        /\ g \in Nat /\ a \in Nat
    BY <1>2, <1>3, <1>4, <1>5 DEF Bit
  <2> HIDE DEF a, g
  <2>2. QED
    BY <2>1

(* A subscriber that is called is reached, and no other.                    *)
LEMMA CopiesCalled ==
  ASSUME Inv, Lengths, Running, UNCHANGED queue, NEW n \in Nat,
         probe' = Reaches(n), NEW i \in Targets
  PROVE  /\ Copies(i) \in Nat
         /\ Copies(i)' = Copies(i) + (IF i = n THEN 1 ELSE 0)
<1>1. ProbeOK /\ queue \in Seq(Messages)
  BY DEF Inv, TypeOK
<1>2. /\ i \in 1 .. Len(probe.got) /\ probe.got[i] \in Nat
      /\ OnItsWay(queue, i) \in Nat
      /\ Copies(i) = probe.got[i] + OnItsWay(queue, i)
  BY GotType
<1>3. probe'.got[i] = probe.got[i] + (IF i = n THEN 1 ELSE 0)
  BY <1>1, <1>2, ReachesOK
<1>4. Copies(i)' = probe'.got[i] + OnItsWay(queue, i)
  <2>1. DOMAIN queue' = 1 .. Len(queue')
    BY <1>1, LenProperties
  <2>2. QED
    BY <2>1 DEF Copies, OnItsWay
<1>5. QED
  BY <1>2, <1>3, <1>4

(* A message that is pushed is on its way to its subscriber, and to no       *)
(* other.                                                                   *)
LEMMA CopiesPushed ==
  ASSUME Inv, Lengths, Running, UNCHANGED probe, NEW m \in Messages,
         queue' = Append(queue, m), NEW i \in Targets
  PROVE  /\ Copies(i) \in Nat
         /\ Copies(i)' = Copies(i) + (IF m.nth = i THEN 1 ELSE 0)
<1>1. queue \in Seq(Messages) /\ queue' \in Seq(Messages)
  BY AppendProperties DEF Inv, TypeOK
<1>2. /\ probe.got[i] \in Nat
      /\ OnItsWay(queue, i) \in Nat
      /\ Copies(i) = probe.got[i] + OnItsWay(queue, i)
  BY GotType
<1>3. OnItsWay(queue', i) = OnItsWay(queue, i) + Bit(m.nth = i)
  BY <1>1, WayGrown
<1>4. Copies(i)' = probe.got[i] + OnItsWay(queue', i)
  <2>1. DOMAIN queue' = 1 .. Len(queue')
    BY <1>1, LenProperties
  <2>2. QED
    BY <2>1 DEF Copies, OnItsWay
<1>5. QED
  <2> DEFINE a == OnItsWay(queue, i)
             g == probe.got[i]
  <2>1. /\ Copies(i)' = g + (a + (IF m.nth = i THEN 1 ELSE 0))
        /\ Copies(i) = g + a /\ g \in Nat /\ a \in Nat
    BY <1>2, <1>3, <1>4 DEF Bit
  <2> HIDE DEF a, g
  <2>2. QED
    BY <2>1

(* What a step that touches neither the queue nor the report of the chosen   *)
(* send leaves as it was.                                                   *)
LEMMA ReportKept ==
  ASSUME PInv, UNCHANGED <<platform, queue, probe>>
  PROVE  /\ Lengths' /\ PrefixReached' /\ AllWhenAccepted'
         /\ \A i : Copies(i)' = Copies(i)
         /\ \A n : Reached(n) => Reached(n)'
<1>1. /\ Lengths' /\ \A i : Copies(i)' = Copies(i)
      /\ Targets' = Targets /\ Running' = Running /\ Enough' = Enough
  BY DEF PInv, Lengths, Running, Targets, Copies, Enough
<1>2. \A n : Reached(n) => Reached(n)'
  BY <1>1 DEF Reached
<1>3. PrefixReached'
  BY <1>1, <1>2 DEF PInv, PrefixReached
<1>4. AllWhenAccepted'
  BY <1>1 DEF PInv, AllWhenAccepted
<1>5. QED
  BY <1>1, <1>2, <1>3, <1>4
-----------------------------------------------------------------------------
(* A frame that is not chosen changes, ...                                  *)
LEMMA OtherReplaced ==
  ASSUME PInv, StackInv, NEW t \in Threads, stack[t] # << >>,
         NEW f \in Frames, ~Chosen(f), Replace(t, f),
         UNCHANGED platform,
         probe'.state = probe.state, probe'.out = probe.out,
         Running => /\ Len(probe'.got) = Len(probe.got)
                    /\ \A i \in Targets : Copies(i)' = Copies(i)
  PROVE  PInv'
<1> SUFFICES ASSUME NEW s, s = stack[t], NEW r, r = Append(Front(s), f)
             PROVE  PInv'
  OBVIOUS
<1>1. s \in Seq(Frames) /\ s # << >>
  BY DEF StackInv
<1>2. SameChosen(s, r)
  BY <1>1, SameReplaced
<1>3. r \in Seq(Frames)
  BY <1>1, TopOf, Grown
<1>4. stack' = [stack EXCEPT ![t] = r]
  BY DEF Replace
<1>5. QED
  BY <1>2, <1>3, <1>4, LeftAlone

(* returns,                                                                 *)
LEMMA OtherReturns ==
  ASSUME PInv, StackInv, NEW t \in Threads, NEW at, Sending(t, at),
         NEW ok \in BOOLEAN, ~Top(t).probe,
         Return(t, ok), UNCHANGED <<platform, queue>>
  PROVE  PInv'
<1> SUFFICES ASSUME NEW s, s = stack[t], NEW r, r = Front(s)
             PROVE  PInv'
  OBVIOUS
<1>1. s \in Seq(Frames) /\ s # << >> /\ StackOK(s) /\ Last(s).kind = "send"
  BY DEF StackInv, Sending, Top
<1>2. SameChosen(s, r)
  BY <1>1, SameReturned
<1>3. r \in Seq(Frames)
  BY <1>1, TopOf
<1>4. stack' = [stack EXCEPT ![t] = r] /\ probe' = probe
  BY DEF Return, Told
<1>5. \A i : Copies(i)' = Copies(i)
  BY <1>4, ReportKept
<1>6. QED
  BY <1>2, <1>3, <1>4, <1>5, LeftAlone

(* or calls.                                                                *)
LEMMA OtherCalls ==
  ASSUME PInv, StackInv, NEW t \in Threads, stack[t] # << >>,
         NEW c \in Frames, ~Chosen(c), NEW f \in Frames, ~Chosen(f),
         CallFrom(t, c, f), UNCHANGED <<platform, queue, probe>>
  PROVE  PInv'
<1> SUFFICES ASSUME NEW s, s = stack[t], NEW m, m = Append(Front(s), c),
                    NEW r, r = Append(m, f)
             PROVE  PInv'
  OBVIOUS
<1>1. s \in Seq(Frames) /\ s # << >>
  BY DEF StackInv
<1>2. SameChosen(s, r)
  BY <1>1, SameCalledFrom
<1>3. r \in Seq(Frames)
  BY <1>1, TopOf, Grown
<1>4. stack' = [stack EXCEPT ![t] = r]
  BY DEF CallFrom
<1>5. \A i : Copies(i)' = Copies(i)
  BY ReportKept
<1>6. QED
  BY <1>2, <1>3, <1>4, <1>5, LeftAlone
-----------------------------------------------------------------------------
(* How many blocks the calls of a thread may hold: one for each frame and    *)
(* one for a copy.                                                          *)
LEMMA HeldBelow ==
  ASSUME NEW s \in Seq(Frames), s # << >>, StackOK(s)
  PROVE  Held(Front(s)) \in Nat /\ Held(Front(s)) <= Len(s) - 1
<1> DEFINE r == Front(s)
           n == Len(s) - 1
<1>1. /\ n \in Nat /\ r \in Seq(Frames) /\ Len(r) = n
      /\ \A d \in 1 .. n : r[d] = s[d] /\ Waits(s[d])
  <2>1. /\ Len(s) \in Nat \ {0} /\ r \in Seq(Frames) /\ Len(r) = n
        /\ \A d \in 1 .. n : r[d] = s[d]
    BY TopOf
  <2>2. QED
    BY <2>1 DEF StackOK
<1> HIDE DEF r, n
<1>2. Given(r) = {}
  BY <1>1 DEF Given, Waits
<1>3. Originals(r) \in SUBSET (1 .. n) /\ IsFiniteSet(1 .. n)
      /\ Cardinality(1 .. n) = n
  BY <1>1, FS_Interval DEF Originals
<1>4. Cardinality(Originals(r)) \in Nat /\ Cardinality(Originals(r)) <= n
  BY <1>1, <1>3, FS_Subset, FS_CardinalityType
<1>5. Cardinality(Given(r)) = 0
  BY <1>2, FS_EmptySet
<1>6. QED
  BY <1>4, <1>5 DEF Held, r, n

(* A stack holds a block for each of its calls and one more.                 *)
LEMMA HeldBound ==
  ASSUME StackInv
  PROVE  /\ Held(stack[Stream]) \in Nat /\ Held(stack[Stream]) <= 2
         /\ Held(stack[Events]) \in Nat /\ Held(stack[Events]) <= MaxDepth + 1
<1>1. ASSUME NEW t \in Threads
      PROVE  /\ Held(stack[t]) \in Nat /\ Held(stack[t]) <= MaxDepth + 1
             /\ t = Stream => Held(stack[t]) <= 2
  <2> DEFINE s == stack[t]
  <2>1. s \in Seq(Frames) /\ StackOK(s) /\ (t = Stream => OneSend(s))
    BY DEF StackInv
  <2>2. CASE s = << >>
    <3>1. Originals(s) = {} /\ Given(s) = {}
      BY <2>2 DEF Originals, Given
    <3>2. Held(s) = 0
      BY <3>1, FS_EmptySet DEF Held
    <3>3. QED
      BY <3>2, Bounds
  <2>3. CASE s # << >>
    <3>1. /\ Held(Front(s)) \in Nat /\ Held(Front(s)) <= Len(s) - 1
          /\ Held(s) = Held(Front(s)) + Weight(Last(s))
      BY <2>1, <2>3, HeldBelow, HeldFront
    <3>2. /\ Len(s) \in Nat \ {0} /\ Last(s) \in Frames /\ Last(s) = s[Len(s)]
          /\ Front(s) \in Seq(Frames) /\ Len(Front(s)) = Len(s) - 1
      BY <2>1, <2>3, TopOf
    <3>3. t = Stream => Len(s) = 1
      <4>1. Len(s) \in 1 .. Len(s)
        BY <3>2
      <4>2. QED
        BY <2>1, <4>1 DEF OneSend
    <3>4. CASE Last(s).kind = "send"
      <4>1. Len(s) <= MaxDepth
        BY <2>1, <2>3, <3>4, FrontOK
      <4>2. Weight(Last(s)) \in 0 .. 2
        BY DEF Weight, Bit
      <4>3. QED
        BY <3>1, <3>2, <3>3, <4>1, <4>2, Bounds
    <3>5. CASE Last(s).kind # "send"
      <4>1. Weight(Last(s)) \in 0 .. 1
        BY <3>5 DEF Weight, Bit
      <4>2. Len(s) <= MaxDepth + 1
        <5>1. CASE Front(s) = << >>
          BY <3>2, <5>1, Bounds
        <5>2. CASE Front(s) # << >>
          <6> DEFINE r == Front(s)
          <6>1. /\ r \in Seq(Frames) /\ StackOK(r)
                /\ Last(s).kind # Last(r).kind /\ Last(r) \in Frames
            BY <2>1, <2>3, <3>2, <5>2, FrontOK, TopOf
          <6>2. Last(r).kind = "send"
            BY <3>2, <3>5, <6>1 DEF Frames, SendFrames, HandlerFrames
          <6>3. Len(r) <= MaxDepth
            BY <5>2, <6>1, <6>2, FrontOK
          <6>4. QED
            BY <3>2, <6>3, Bounds
        <5>3. QED
          BY <5>1, <5>2
      <4>3. QED
        BY <3>1, <3>2, <3>3, <4>1, <4>2, Bounds
    <3>6. QED
      BY <3>4, <3>5
  <2>4. QED
    BY <2>2, <2>3
<1>2. QED
  BY <1>1 DEF Threads

(* A pool with enough blocks has one for a send that makes its list.        *)
LEMMA BlockLeft ==
  ASSUME Inv, Enough, NEW t \in Threads, Sending(t, "create")
  PROVE  free > 0
<1>1. StackInv /\ platform \in Platforms /\ free \in Nat
      /\ queue \in Seq(Messages) /\ Len(queue) <= Capacity
      /\ free + Queued(queue) + InCalls = platform.lists
  BY DEF Inv, TypeOK, Balanced
<1>2. Queued(queue) \in Nat /\ Queued(queue) <= Capacity
  <2> DEFINE A == {k \in 1 .. Len(queue) : queue[k].evt.list}
  <2>1. /\ Len(queue) \in Nat /\ A \in SUBSET (1 .. Len(queue))
        /\ IsFiniteSet(1 .. Len(queue))
        /\ Cardinality(1 .. Len(queue)) = Len(queue)
    <3>1. Len(queue) \in Nat
      BY <1>1, LenProperties
    <3>2. /\ IsFiniteSet(1 .. Len(queue))
          /\ Cardinality(1 .. Len(queue)) = Len(queue)
      <4>1. SUFFICES ASSUME NEW n \in Nat
                     PROVE  IsFiniteSet(1 .. n) /\ Cardinality(1 .. n) = n
        BY <3>1
      <4>2. IsFiniteSet(1 .. n)
        BY FS_Interval
      <4>3. Cardinality(1 .. n) = n
        BY FS_Interval
      <4>4. QED
        BY <4>2, <4>3
    <3>3. QED
      BY <3>1, <3>2
  <2> HIDE DEF A
  <2>2. Cardinality(A) \in Nat /\ Cardinality(A) <= Len(queue)
    BY <2>1, FS_Subset, FS_CardinalityType
  <2>3. QED
    BY <1>1, <2>1, <2>2, Bounds DEF Queued, A
<1>3. /\ stack[t] # << >> /\ Weight(Top(t)) = 0 /\ Len(stack[t]) <= MaxDepth
  <2>1. /\ stack[t] # << >> /\ Weight(Top(t)) = 0 /\ Top(t).kind = "send"
    BY <1>1, SendingTop DEF Bit
  <2>2. QED
    BY <1>1, <2>1, TopFrame
<1>4. /\ Held(stack[t]) \in Nat /\ Held(stack[t]) <= Len(stack[t]) - 1
  <2>1. stack[t] \in Seq(Frames) /\ StackOK(stack[t])
    BY <1>1 DEF StackInv
  <2>2. /\ Held(Front(stack[t])) \in Nat
        /\ Held(Front(stack[t])) <= Len(stack[t]) - 1
        /\ Held(stack[t]) = Held(Front(stack[t])) + Weight(Top(t))
    BY <1>3, <2>1, HeldBelow, HeldFront DEF Top
  <2>3. QED
    BY <1>3, <2>2
<1>5. /\ Held(stack[Stream]) \in Nat /\ Held(stack[Stream]) <= 2
      /\ Held(stack[Events]) \in Nat /\ Held(stack[Events]) <= MaxDepth + 1
  BY <1>1, HeldBound
<1>6. InCalls <= MaxDepth + 1 /\ InCalls \in Nat
  <2>1. CASE t = Stream
    <3>1. Len(stack[t]) = 1
      <4>1. stack[t] \in Seq(Frames) /\ OneSend(stack[t])
        BY <1>1, <2>1 DEF StackInv
      <4>2. Len(stack[t]) \in Nat \ {0}
        BY <1>3, <4>1, TopOf
      <4>3. Len(stack[t]) \in 1 .. Len(stack[t])
        BY <4>2
      <4>4. QED
        BY <4>1, <4>3 DEF OneSend
    <3>2. QED
      BY <1>4, <1>5, <2>1, <3>1, Bounds DEF InCalls
  <2>2. CASE t = Events
    <3>1. Len(stack[t]) \in Nat
      BY <1>1, LenProperties DEF StackInv
    <3>2. QED
      BY <1>3, <1>4, <1>5, <2>2, <3>1, Bounds DEF InCalls
  <2>3. QED
    BY <2>1, <2>2 DEF Threads
<1>7. platform.lists \in Nat /\ platform.lists >= Capacity + 2 + MaxDepth
  BY <1>1, EventOutputAssumption DEF Enough
<1>8. QED
  BY <1>1, <1>2, <1>6, <1>7, Bounds
-----------------------------------------------------------------------------
(* What is known of the chosen send at the top of a thread.                 *)
LEMMA ChosenTop ==
  ASSUME Inv, PInv, NEW t \in Threads, NEW at, Sending(t, at), Top(t).probe
  PROVE  /\ stack[t] # << >> /\ Chosen(Top(t)) /\ Top(t) \in SendFrames
         /\ probe.state = "sending" /\ Top(t).out = probe.out /\ Running
         /\ Top(t).next \in Nat \ {0} /\ Reached(Top(t).next - 1)
         /\ Targets = 1 .. Len(Subs(t)) /\ Len(Subs(t)) \in Nat
         /\ Enough /\ at \in {"create", "test"} => Top(t).evt.id # kNoEvent
<1>1. /\ stack[t] # << >> /\ Top(t).kind = "send" /\ Top(t) \in SendFrames
      /\ Top(t).at = at
  BY SendingTop DEF Inv
<1>2. Chosen(Top(t))
  BY <1>1 DEF Chosen
<1>3. /\ stack[t] \in Seq(Frames) /\ Len(stack[t]) \in 1 .. Len(stack[t])
      /\ Top(t) = stack[t][Len(stack[t])]
  <2>1. stack[t] \in Seq(Frames)
    BY DEF Inv, StackInv
  <2>2. Len(stack[t]) \in Nat \ {0} /\ Top(t) = stack[t][Len(stack[t])]
    BY <1>1, <2>1, TopOf DEF Top
  <2>3. QED
    BY <2>1, <2>2
<1>4. Follows(stack[t], Len(stack[t]))
  BY <1>2, <1>3 DEF PInv, FrameFollowed
<1>5. /\ probe.state = "sending" /\ Top(t).out = probe.out
      /\ Reached(Top(t).next - 1)
      /\ Enough /\ at \in {"create", "test"} => Top(t).evt.id # kNoEvent
  BY <1>1, <1>3, <1>4 DEF Follows, Served
<1>6. Top(t).next \in Nat \ {0} /\ Len(Subs(t)) \in Nat
  <2>1. Top(t).next \in Nat \ {0} /\ Top(t).out \in Outputs
    BY <1>1 DEF SendFrames
  <2>2. Subs(t) \in Seq(Nodes)
    BY <2>1, EventOutputAssumption DEF Subs
  <2>3. QED
    BY <2>1, <2>2, LenProperties
<1>7. QED
  BY <1>1, <1>2, <1>5, <1>6 DEF Running, Targets, Subs

(* A send returns.                                                          *)
LEMMA ReturnTracks ==
  ASSUME Inv, PInv, NEW t \in Threads, NEW at, Sending(t, at),
         NEW ok \in BOOLEAN, Return(t, ok), UNCHANGED <<platform, queue>>,
         Top(t).probe /\ ok /\ Enough => \A i \in Targets : Copies(i) = 1
  PROVE  PInv'
<1>1. CASE ~Top(t).probe
  BY <1>1, OtherReturns DEF Inv
<1>2. CASE Top(t).probe
  <2>1. /\ stack[t] # << >> /\ Chosen(Top(t)) /\ Running
        /\ Reached(Top(t).next - 1) /\ Top(t).next - 1 \in Nat
    <3>1. Top(t).next \in Nat \ {0} => Top(t).next - 1 \in Nat
      OBVIOUS
    <3>2. QED
      BY <1>2, <3>1, ChosenTop
  <2>2. /\ probe' = [probe EXCEPT !.state = IF ok THEN "accepted" ELSE "refused"]
        /\ stack' = [stack EXCEPT ![t] = Front(@)]
    BY <1>2 DEF Return, Told
  <2>3. /\ probe'.out = probe.out /\ probe'.got = probe.got
        /\ probe'.state = IF ok THEN "accepted" ELSE "refused"
    BY <2>2 DEF Inv, TypeOK, ProbeOK
  <2>4. /\ Targets' = Targets /\ Enough' = Enough
        /\ \A i : Copies(i)' = Copies(i)
    BY <2>3 DEF Targets, Enough, Copies
  <2>5. Lengths'
    BY <2>1, <2>3 DEF PInv, Lengths
  <2>6. PrefixReached'
    <3>1. Reached(Top(t).next - 1)
      BY <2>1
    <3>2. SUFFICES ASSUME NEW n \in Nat, Reached(n) PROVE Reached(n)'
      BY <2>1, <3>1 DEF PrefixReached
    <3>3. QED
      BY <2>4, <3>2 DEF Reached
  <2>7. AllWhenAccepted'
    BY <1>2, <2>3, <2>4 DEF AllWhenAccepted
  <2>8. QED
    BY <2>1, <2>2, <2>5, <2>6, <2>7, ChosenReturns DEF Inv
<1>3. QED
  BY <1>1, <1>2

(* A frame of a send changes, and its event and its copies stay.            *)
LEMMA FrameTracks ==
  ASSUME Inv, PInv, NEW t \in Threads, NEW at, Sending(t, at),
         NEW f \in SendFrames, Replace(t, f), f.out = Top(t).out,
         f.probe = Top(t).probe, f.next = Top(t).next,
         Top(t).probe /\ Enough /\ f.at \in {"create", "test"} =>
           f.evt.id # kNoEvent,
         UNCHANGED <<platform, queue, probe>>
  PROVE  PInv'
<1>1. /\ Lengths' /\ AllWhenAccepted' /\ \A i : Copies(i)' = Copies(i)
      /\ \A n : Reached(n) => Reached(n)'
  BY ReportKept
<1>2. stack[t] # << >> /\ Top(t).kind = "send" /\ StackInv /\ f \in Frames
  BY SendingTop DEF Inv, Frames
<1>3. CASE ~Top(t).probe
  <2>1. ~Chosen(f)
    BY <1>3 DEF Chosen
  <2>2. QED
    BY <1>1, <1>2, <2>1, OtherReplaced
<1>4. CASE Top(t).probe
  <2>1. /\ Chosen(Top(t)) /\ probe.state = "sending" /\ Top(t).out = probe.out
        /\ Top(t).next \in Nat \ {0} /\ Reached(Top(t).next - 1)
    BY <1>4, ChosenTop
  <2>2. f.next - 1 \in Nat
    BY <2>1
  <2>3. Reached(f.next - 1)'
    BY <1>1, <2>1 DEF Reached
  <2>4. Enough' = Enough
    BY DEF Enough
  <2>5. QED
    BY <1>1, <1>2, <1>4, <2>1, <2>2, <2>3, <2>4, ChosenReplaced
<1>5. QED
  BY <1>3, <1>4
-----------------------------------------------------------------------------
(* A pool with enough blocks makes the event of the chosen send.            *)
LEMMA CreateTracks ==
  ASSUME Inv, PInv, NEW t \in Threads, Create(t)
  PROVE  PInv'
<1>1. PICK o \in Obtained(Top(t).evt.id) :
        /\ Replace(t, [Top(t) EXCEPT !.evt = o.evt, !.at = "test"])
        /\ free' = o.left
  BY DEF Create
<1> DEFINE f == [Top(t) EXCEPT !.evt = o.evt, !.at = "test"]
<1>2. /\ Sending(t, "create") /\ Top(t) \in SendFrames
      /\ Top(t).evt \in EventSet
  BY SendingTop DEF Inv, Create
<1>3. o.evt \in EventSet /\ (free > 0 => o.evt.id = Top(t).evt.id)
  BY <1>2, ObtainedType DEF Inv, TypeOK, EventSet
<1>4. Moved(Top(t), f, o.evt, Top(t).copy, "test", Top(t).next)
  BY <1>2, <1>3, SendUpdates
<1>5. Replace(t, f)
  BY <1>1
<1> HIDE DEF f
<1>6. Top(t).probe /\ Enough => f.evt.id # kNoEvent
  <2>1. SUFFICES ASSUME Top(t).probe, Enough PROVE f.evt.id # kNoEvent
    OBVIOUS
  <2>2. Top(t).evt.id # kNoEvent
    BY <1>2, <2>1, ChosenTop
  <2>3. free > 0
    BY <1>2, <2>1, BlockLeft
  <2>4. QED
    BY <1>3, <1>4, <2>2, <2>3 DEF Moved
<1>7. UNCHANGED <<platform, queue, probe>>
  BY DEF Create
<1>8. QED
  BY <1>2, <1>4, <1>5, <1>6, <1>7, FrameTracks DEF Moved

(* A send that is accepted before it has served anyone has no event.        *)
LEMMA TestTracks ==
  ASSUME Inv, PInv, NEW t \in Threads, Test(t)
  PROVE  PInv'
<1>1. UNCHANGED <<platform, queue>>
  BY DEF Test
<1>2. PICK at \in {"test", "fail"} : Sending(t, at)
  BY DEF Test
<1>3. /\ Top(t).at = at /\ Top(t) \in SendFrames /\ Top(t).evt \in EventSet
  BY <1>2, SendingTop DEF Inv
<1>4. CASE Return(t, FALSE)
  BY <1>1, <1>2, <1>4, ReturnTracks
<1>5. CASE Return(t, TRUE) /\ Top(t).at # "fail" /\ Top(t).evt.id = kNoEvent
  <2>1. at = "test"
    BY <1>3, <1>5
  <2>2. Top(t).probe /\ Enough => FALSE
    BY <1>2, <1>5, <2>1, ChosenTop
  <2>3. QED
    BY <1>1, <1>2, <1>5, <2>2, ReturnTracks
<1>6. CASE /\ Replace(t, [Top(t) EXCEPT !.at = "each"])
           /\ UNCHANGED <<free, probe>>
  <2> DEFINE f == [Top(t) EXCEPT !.at = "each"]
  <2>1. Moved(Top(t), f, Top(t).evt, Top(t).copy, "each", Top(t).next)
    BY <1>3, SendUpdates
  <2>2. Replace(t, f)
    BY <1>6
  <2> HIDE DEF f
  <2>3. QED
    BY <1>1, <1>2, <1>6, <2>1, <2>2, FrameTracks DEF Moved
<1>7. \/ Return(t, FALSE)
      \/ Return(t, TRUE) /\ Top(t).at # "fail" /\ Top(t).evt.id = kNoEvent
      \/ /\ Replace(t, [Top(t) EXCEPT !.at = "each"])
         /\ UNCHANGED <<free, probe>>
  BY DEF Test
<1>8. QED
  BY <1>4, <1>5, <1>6, <1>7

(* A copy, whole or not, does not change whom the send has reached.         *)
LEMMA CloneTracks ==
  ASSUME Inv, PInv, NEW t \in Threads, Clone(t)
  PROVE  PInv'
<1> DEFINE s == Top(t)
           given(e) == [s EXCEPT !.copy = e, !.at = "give"]
<1>1. Sending(t, "each") /\ s \in SendFrames /\ s.evt \in EventSet
  BY SendingTop DEF Inv, Clone
<1>2. UNCHANGED <<platform, queue, probe>>
  BY DEF Clone
<1>3. ASSUME NEW f \in SendFrames, Replace(t, f), f.out = s.out,
             f.probe = s.probe, f.next = s.next, f.at = "give"
      PROVE  PInv'
  BY <1>1, <1>2, <1>3, FrameTracks
<1>4. ASSUME NEW e \in EventSet
      PROVE  /\ Moved(s, given(e), s.evt, e, "give", s.next)
             /\ Moved(s, [given(e) EXCEPT !.evt = Nothing],
                      Nothing, e, "give", s.next)
  <2> DEFINE g == given(e)
             h == [g EXCEPT !.evt = Nothing]
  <2>1. Moved(s, g, s.evt, e, "give", s.next)
    BY <1>1, SendUpdates
  <2> HIDE DEF g
  <2>2. Moved(g, h, Nothing, g.copy, g.at, g.next)
    BY <2>1, NothingThere, SendUpdates DEF Moved
  <2> HIDE DEF h
  <2>3. Moved(s, h, Nothing, e, "give", s.next)
    BY <2>1, <2>2 DEF Moved
  <2>4. QED
    BY <2>1, <2>3 DEF g, h
<1>5. CASE Replace(t, [given(s.evt) EXCEPT !.evt = Nothing])
  <2> DEFINE f == [given(s.evt) EXCEPT !.evt = Nothing]
  <2>1. Moved(s, f, Nothing, s.evt, "give", s.next) /\ Replace(t, f)
    BY <1>1, <1>4, <1>5
  <2> HIDE DEF f
  <2>2. QED
    BY <1>3, <2>1 DEF Moved
<1>6. ASSUME NEW e \in EventSet, Replace(t, given(e)) PROVE PInv'
  <2> DEFINE f == given(e)
  <2>1. Moved(s, f, s.evt, e, "give", s.next) /\ Replace(t, f)
    BY <1>4, <1>6
  <2> HIDE DEF f
  <2>2. QED
    BY <1>3, <2>1 DEF Moved
<1>7. ASSUME NEW o \in Obtained(s.evt.id) PROVE o.evt \in EventSet
  BY <1>1, ObtainedType DEF Inv, TypeOK, EventSet
<1>8. \/ Replace(t, [given(s.evt) EXCEPT !.evt = Nothing])
      \/ Replace(t, given(s.evt))
      \/ \E o \in Obtained(s.evt.id) : Replace(t, given(o.evt))
  BY DEF Clone
<1> HIDE DEF given, s
<1>9. QED
  BY <1>1, <1>5, <1>6, <1>7, <1>8

(* A send that is accepted at its end has served everyone.                  *)
LEMMA AllServedTracks ==
  ASSUME Inv, PInv, NEW t \in Threads, AllServed(t)
  PROVE  PInv'
<1>1. /\ Sending(t, "each") /\ Top(t).next > Len(Subs(t)) /\ Return(t, TRUE)
      /\ UNCHANGED <<platform, queue>>
  BY DEF AllServed
<1>2. Top(t).probe => \A i \in Targets : Copies(i) = 1
  <2>1. SUFFICES ASSUME Top(t).probe, NEW i \in Targets PROVE Copies(i) = 1
    OBVIOUS
  <2>2. /\ Top(t).next \in Nat \ {0} /\ Reached(Top(t).next - 1)
        /\ Targets = 1 .. Len(Subs(t)) /\ Len(Subs(t)) \in Nat
    BY <1>1, <2>1, ChosenTop
  <2>3. i <= Top(t).next - 1
    BY <1>1, <2>1, <2>2
  <2>4. QED
    BY <2>1, <2>2, <2>3 DEF Reached
<1>3. QED
  BY <1>1, <1>2, ReturnTracks

(* One subscriber more has been reached.                                    *)
LEMMA OneFurther ==
  ASSUME NEW n \in Nat \ {0}, Reached(n - 1), Targets' = Targets,
         Targets \subseteq Nat,
         \A i \in Targets :
           /\ Copies(i) \in Nat
           /\ Copies(i)' = Copies(i) + (IF i = n THEN 1 ELSE 0)
  PROVE  Reached(n)'
<1>1. SUFFICES ASSUME NEW i \in Targets PROVE Copies(i)' = IF i <= n THEN 1 ELSE 0
  BY DEF Reached
<1>2. /\ Copies(i) = (IF i <= n - 1 THEN 1 ELSE 0) /\ i \in Nat
      /\ Copies(i)' = Copies(i) + (IF i = n THEN 1 ELSE 0)
  BY <1>1 DEF Reached
<1>3. QED
  BY <1>2

(* The message of a send, and for which subscriber of the chosen send it is. *)
LEMMA MessageOf ==
  ASSUME StackInv, NEW t \in Threads, Sending(t, "give")
  PROVE  /\ Message(t) \in Messages
         /\ Message(t).dst \in Nodes /\ Message(t).evt \in EventSet
         /\ Message(t).nth \in Nat
         /\ Message(t).nth = IF Top(t).probe THEN Top(t).next ELSE 0
<1> DEFINE s == Top(t)
<1>1. /\ s \in SendFrames /\ s.next <= Len(Subs(t)) /\ s.copy \in EventSet
  BY SendingTop
<1>2. s.out \in Outputs /\ s.next \in Nat \ {0} /\ s.probe \in BOOLEAN
  BY <1>1 DEF SendFrames
<1>3. Subs(t) \in Seq(Nodes)
  BY <1>2, EventOutputAssumption DEF Subs
<1>4. Subs(t)[s.next] \in Nodes
  BY <1>1, <1>2, <1>3
<1>5. QED
  BY <1>1, <1>2, <1>4 DEF Message, Messages

(* push() puts a copy on its way to the next subscriber.                    *)
LEMMA PushTracks ==
  ASSUME Inv, PInv, NEW t \in Threads, Push(t)
  PROVE  PInv'
<1> SUFFICES ASSUME NEW s, s = Top(t), NEW n, n = s.next,
                    NEW f, f = [s EXCEPT !.copy = Nothing, !.at = "each",
                                         !.next = @ + 1],
                    NEW m, m = Message(t)
             PROVE  PInv'
  OBVIOUS
<1>1. /\ Sending(t, "give") /\ stack[t] # << >> /\ s \in SendFrames
      /\ s.kind = "send" /\ UNCHANGED platform /\ StackInv
      /\ s.evt \in EventSet
  BY SendingTop DEF Push, Inv
<1>2. CASE Refuses
  <2>1. Return(t, FALSE) /\ UNCHANGED queue
    BY <1>2 DEF Push
  <2>2. QED
    BY <1>1, <2>1, ReturnTracks
<1>3. CASE ~Refuses
  <2>1. /\ queue' = Append(queue, m) /\ Replace(t, f) /\ UNCHANGED probe
    BY <1>3 DEF Push
  <2>2. m \in Messages /\ m.nth = IF s.probe THEN s.next ELSE 0
    BY <1>1, MessageOf
  <2>3. Moved(s, f, s.evt, Nothing, "each", s.next + 1)
    BY <1>1, SendUpdates
  <2>4. /\ Targets' = Targets /\ Running' = Running /\ Enough' = Enough
        /\ Lengths'
    BY <1>1, <2>1 DEF Targets, Running, Enough, PInv, Lengths
  <2>5. ASSUME Running, NEW i \in Targets
        PROVE  /\ Copies(i) \in Nat
               /\ Copies(i)' = Copies(i) + (IF m.nth = i THEN 1 ELSE 0)
    BY <2>1, <2>2, <2>5, CopiesPushed DEF PInv
  <2>6. Targets \subseteq Nat \ {0}
    BY DEF Targets
  <2>7. CASE ~s.probe
    <3>1. ~Chosen(f) /\ f \in Frames
      BY <2>3, <2>7 DEF Moved, Chosen, Frames
    <3>2. ASSUME Running, NEW i \in Targets PROVE Copies(i)' = Copies(i)
      BY <2>2, <2>5, <2>6, <2>7, <3>2
    <3>3. QED
      BY <1>1, <2>1, <3>1, <3>2, OtherReplaced
  <2>8. CASE s.probe
    <3>1. /\ Chosen(s) /\ probe.state = "sending" /\ s.out = probe.out
          /\ Running /\ s.next \in Nat \ {0} /\ Reached(s.next - 1)
      BY <1>1, <2>8, ChosenTop
    <3>2. Reached(n)'
      <4>1. \A i \in Targets : /\ Copies(i) \in Nat
                               /\ Copies(i)' = Copies(i) +
                                    (IF i = s.next THEN 1 ELSE 0)
        BY <2>2, <2>5, <2>8, <3>1
      <4>2. n \in Nat \ {0} /\ Reached(n - 1)
        BY <3>1
      <4>3. QED
        BY <2>4, <2>6, <4>1, <4>2, OneFurther
    <3>3. f.next - 1 = n /\ f.next - 1 \in Nat
      BY <2>3, <3>1 DEF Moved
    <3>4. Reached(f.next - 1)'
      BY <3>2, <3>3 DEF Reached
    <3>5. AllWhenAccepted'
      BY <2>1, <3>1 DEF AllWhenAccepted
    <3>6. QED
      BY <1>1, <2>1, <2>3, <2>4, <3>1, <3>3, <3>4, <3>5, ChosenReplaced
         DEF Moved
  <2>9. QED
    BY <2>7, <2>8
<1>4. QED
  BY <1>2, <1>3

(* A send that calls a subscriber has reached it.                           *)
LEMMA CallSubscriberTracks ==
  ASSUME Inv, PInv, NEW t \in Threads, CallSubscriber(t)
  PROVE  PInv'
<1> SUFFICES ASSUME NEW s, s = Top(t), NEW n, n = s.next,
                    NEW c, c = [s EXCEPT !.copy = Nothing],
                    NEW m, m = Message(t),
                    NEW f, f = HandlerFrame(m.dst, m.evt)
             PROVE  PInv'
  OBVIOUS
<1>1. /\ Sending(t, "give") /\ stack[t] # << >> /\ s \in SendFrames
      /\ s.kind = "send" /\ StackInv /\ s.evt \in EventSet /\ s.at = "give"
      /\ ProbeOK
  BY SendingTop DEF CallSubscriber, Inv, TypeOK
<1>2. /\ CallFrom(t, c, f) /\ probe' = Reaches(m.nth)
      /\ UNCHANGED <<platform, queue>>
  BY DEF CallSubscriber
<1>3. /\ m.dst \in Nodes /\ m.evt \in EventSet /\ m.nth \in Nat
      /\ m.nth = IF s.probe THEN n ELSE 0
  BY <1>1, MessageOf
<1>4. Moved(s, c, s.evt, Nothing, s.at, s.next)
  BY <1>1, SendUpdates
<1>5. f \in HandlerFrames /\ f \in Frames /\ c \in SendFrames /\ c \in Frames
  BY <1>3, <1>4, NewHandler DEF Frames, Moved
<1>6. CASE ~s.probe
  <2>1. ~Chosen(c) /\ ~Chosen(f)
    BY <1>4, <1>5, <1>6 DEF Chosen, Moved, HandlerFrames
  <2>2. probe' = probe
    BY <1>2, <1>3, <1>6 DEF Reaches
  <2>3. QED
    BY <1>1, <1>2, <1>5, <2>1, <2>2, OtherCalls
<1>7. CASE s.probe
  <2>1. /\ Chosen(s) /\ probe.state = "sending" /\ s.out = probe.out
        /\ Running /\ n \in Nat \ {0} /\ Reached(n - 1)
    BY <1>1, <1>7, ChosenTop
  <2>2. /\ probe'.state = probe.state /\ probe'.out = probe.out
        /\ Len(probe'.got) = Len(probe.got)
    BY <1>1, <1>2, <1>3, ReachesOK
  <2>3. Targets' = Targets /\ Lengths' /\ AllWhenAccepted'
    BY <2>1, <2>2 DEF Targets, PInv, Lengths, AllWhenAccepted
  <2>4. \A i \in Targets : /\ Copies(i) \in Nat
                           /\ Copies(i)' = Copies(i) + (IF i = n THEN 1 ELSE 0)
    BY <1>2, <1>3, <1>7, <2>1, CopiesCalled DEF PInv
  <2>5. Reached(n)'
    <3>1. Targets \subseteq Nat
      BY DEF Targets
    <3>2. QED
      BY <2>1, <2>3, <2>4, <3>1, OneFurther
  <2>6. c.next = n /\ c.out = s.out /\ c.at = "give"
    BY <1>1, <1>4 DEF Moved
  <2>7. Reached(c.next)'
    BY <2>5, <2>6
  <2>8. QED
    BY <1>1, <1>2, <1>5, <2>1, <2>2, <2>3, <2>6, <2>7, ChosenCalls
<1>8. QED
  BY <1>6, <1>7

(* The event thread hands a copy that was on its way to its subscriber.     *)
LEMMA ExecuteTracks ==
  ASSUME Inv, PInv, Execute
  PROVE  PInv'
<1> SUFFICES ASSUME NEW m, m = Head(queue),
                    NEW f, f = HandlerFrame(m.dst, m.evt),
                    NEW r, r = Append(<< >>, f)
             PROVE  PInv'
  OBVIOUS
<1>1. /\ stack[Events] = << >> /\ queue # << >> /\ Call(Events, f)
      /\ queue' = Tail(queue) /\ probe' = Reaches(m.nth)
      /\ UNCHANGED platform
  BY DEF Execute
<1>2. queue \in Seq(Messages) /\ ProbeOK /\ StackInv
  BY DEF Inv, TypeOK
<1>3. m \in Messages
  BY <1>1, <1>2, HeadTailProperties, EmptySeq
<1>4. /\ m.dst \in Nodes /\ m.evt \in EventSet /\ m.nth \in Nat
  BY <1>3 DEF Messages
<1>5. f \in HandlerFrames /\ f \in Frames /\ ~Chosen(f)
  BY <1>4, NewHandler DEF Frames, Chosen, HandlerFrames
<1>6. SameChosen(stack[Events], r) /\ r \in Seq(Frames)
  BY <1>1, <1>5, SameCalled
<1>7. stack' = [stack EXCEPT ![Events] = r]
  BY <1>1 DEF Call
<1>8. /\ probe'.state = probe.state /\ probe'.out = probe.out
      /\ Len(probe'.got) = Len(probe.got)
  BY <1>1, <1>2, <1>4, ReachesOK
<1>9. ASSUME Running, NEW i \in Targets PROVE Copies(i)' = Copies(i)
  BY <1>1, <1>9, CopiesTaken DEF PInv
<1>10. Events \in Threads
  BY DEF Threads
<1>11. QED
  BY <1>1, <1>2, <1>6, <1>7, <1>8, <1>9, <1>10, LeftAlone

(* apply() takes the list out of the event of a handler.                    *)
LEMMA ApplyTracks ==
  ASSUME Inv, PInv, NEW t \in Threads, Apply(t)
  PROVE  PInv'
<1> SUFFICES ASSUME NEW s, s = Top(t),
                    NEW f, f = [s EXCEPT !.evt.list = FALSE, !.applied = TRUE]
             PROVE  PInv'
  OBVIOUS
<1>1. stack[t] # << >> /\ s.kind = "handler" /\ StackInv
  BY DEF Apply, Handling, Inv
<1>2. s \in HandlerFrames
  BY <1>1, TopFrame
<1>3. /\ Replace(t, f) /\ UNCHANGED <<platform, queue, probe>>
  BY DEF Apply
<1>4. f \in HandlerFrames
  BY <1>2, HandlerUpdates
<1>5. f \in Frames /\ ~Chosen(f)
  BY <1>4 DEF Frames, Chosen, HandlerFrames
<1>6. \A i : Copies(i)' = Copies(i)
  BY <1>3, ReportKept
<1>7. QED
  BY <1>1, <1>3, <1>5, <1>6, OtherReplaced

(* A handler sends its event on: that send is not the chosen one.           *)
LEMMA ForwardTracks ==
  ASSUME Inv, PInv, NEW t \in Threads, Forward(t)
  PROVE  PInv'
<1>1. PICK out \in Senders(t) \ {App} :
        CallFrom(t, [Top(t) EXCEPT !.sent = TRUE, !.evt = Nothing],
                 SendFrame(out, "async", Top(t).evt, "test", FALSE))
  BY DEF Forward
<1> SUFFICES ASSUME NEW e, e = Top(t).evt,
                    NEW f, f = SendFrame(out, "async", e, "test", FALSE),
                    NEW c, c = [Top(t) EXCEPT !.sent = TRUE, !.evt = Nothing]
             PROVE  PInv'
  OBVIOUS
<1>2. /\ out \in Outputs /\ stack[t] # << >> /\ StackInv
      /\ Top(t) \in HandlerFrames
  BY SendersType DEF Inv, Forward, Handling
<1>3. c \in HandlerFrames
  BY <1>2, HandlerUpdates
<1>4. f \in SendFrames /\ ~f.probe
  <2>1. e \in EventSet
    BY <1>2 DEF HandlerFrames
  <2>2. ASSUME NEW mode \in {"sync", "async"}, NEW chosen \in BOOLEAN,
               NEW at \in {"create", "test", "fail"}
        PROVE  LET g == SendFrame(out, mode, e, at, chosen)
               IN g \in SendFrames /\ g.probe = chosen
    BY <1>2, <2>1, NewSend
  <2>3. QED
    BY <2>2
<1>5. /\ f \in Frames /\ ~Chosen(f) /\ c \in Frames /\ ~Chosen(c)
  BY <1>3, <1>4 DEF Frames, Chosen, HandlerFrames
<1>6. CallFrom(t, c, f) /\ UNCHANGED <<platform, queue, probe>>
  BY <1>1 DEF Forward
<1>7. QED
  BY <1>2, <1>5, <1>6, OtherCalls

(* A return to a send that is not chosen, and one that ends it too.         *)
LEMMA SameReturnedTo ==
  ASSUME NEW s \in Seq(Frames), s # << >>, NEW below, below = Front(s),
         below # << >>, NEW f \in Frames, ~Chosen(f)
  PROVE  /\ SameChosen(s, Append(Front(below), f))
         /\ Append(Front(below), f) \in Seq(Frames)
<1> DEFINE r == Append(Front(below), f)
           p == Len(below)
<1>1. /\ Len(s) \in Nat /\ below \in Seq(Frames) /\ p = Len(s) - 1
      /\ \A d \in 1 .. p : below[d] = s[d]
  <2>1. /\ Len(s) \in Nat \ {0} /\ below \in Seq(Frames)
        /\ Len(below) = Len(s) - 1
        /\ \A d \in 1 .. Len(s) - 1 : below[d] = s[d]
    BY TopOf
  <2>2. QED
    BY <2>1
<1>2. /\ p \in Nat \ {0} /\ Front(below) \in Seq(Frames)
      /\ Len(Front(below)) = p - 1
      /\ \A d \in 1 .. p - 1 : Front(below)[d] = s[d]
  <2>1. /\ p \in Nat \ {0} /\ Front(below) \in Seq(Frames)
        /\ Len(Front(below)) = p - 1
        /\ \A d \in 1 .. p - 1 : Front(below)[d] = below[d]
    BY <1>1, TopOf
  <2>2. QED
    BY <1>1, <2>1
<1>3. /\ r \in Seq(Frames) /\ Len(r) = p /\ r[p] = f
      /\ \A d \in 1 .. p - 1 : r[d] = s[d]
  BY <1>2, Grown
<1> HIDE DEF r, p, Chosen
<1>4. SameChosen(s, r)
  BY <1>1, <1>2, <1>3 DEF SameChosen
<1>5. QED
  BY <1>3, <1>4 DEF r

(* A handler returns, and the send that called it with it.                   *)
LEMMA SameReturnedTwice ==
  ASSUME NEW s \in Seq(Frames), s # << >>, StackOK(s),
         NEW below, below = Front(s), below # << >>, Last(below).kind = "send"
  PROVE  SameChosen(s, Front(below)) /\ Front(below) \in Seq(Frames)
<1> DEFINE r == Front(below)
<1>1. /\ Len(s) \in Nat /\ below \in Seq(Frames) /\ Len(below) = Len(s) - 1
      /\ \A d \in 1 .. Len(below) : below[d] = s[d]
  <2>1. /\ Len(s) \in Nat \ {0} /\ below \in Seq(Frames)
        /\ Len(below) = Len(s) - 1
        /\ \A d \in 1 .. Len(s) - 1 : below[d] = s[d]
    BY TopOf
  <2>2. QED
    BY <2>1
<1>2. StackOK(below)
  BY FrontOK
<1>3. SameChosen(below, r) /\ r \in Seq(Frames)
  BY <1>1, <1>2, SameReturned, TopOf
<1>4. Len(r) \in Nat /\ Len(below) \in Nat
  BY <1>1, <1>3, LenProperties
<1> HIDE DEF r, Chosen
<1>5. SameChosen(s, r)
  <2>1. SUFFICES ASSUME NEW d \in 1 .. Len(r), Chosen(r[d])
                 PROVE  d < Len(r) /\ d < Len(s) /\ r[d] = s[d]
    BY DEF SameChosen
  <2>2. d < Len(r) /\ d < Len(below) /\ r[d] = below[d]
    BY <1>3, <2>1 DEF SameChosen
  <2>3. QED
    BY <1>1, <1>4, <2>1, <2>2
<1>6. QED
  BY <1>3, <1>5 DEF r

(* A handler returns to the chosen send, which goes on or returns too, or to *)
(* another.                                                                 *)
LEMMA HandlerReturnsTracks ==
  ASSUME Inv, PInv, NEW t \in Threads, HandlerReturns(t)
  PROVE  PInv'
<1> SUFFICES ASSUME NEW s, s = stack[t], NEW below, below = Front(s),
                    NEW sender, sender = Last(below),
                    NEW f, f = [sender EXCEPT !.at = "each", !.next = @ + 1]
             PROVE  PInv'
  OBVIOUS
<1>1. /\ s # << >> /\ Top(t).kind = "handler" /\ t = Events /\ StackInv
      /\ s \in Seq(Frames) /\ StackOK(s) /\ ~Chosen(Top(t))
  <2>1. s # << >> /\ Top(t).kind = "handler" /\ StackInv
    BY DEF HandlerReturns, Handling, Inv
  <2>2. t = Events
    BY <2>1, TopFrame
  <2>3. QED
    BY <2>1, <2>2 DEF StackInv, Chosen
<1>2. UNCHANGED <<platform, queue>>
  BY DEF HandlerReturns
<1>3. CASE below = << >>
  <2>1. stack' = [stack EXCEPT ![t] = << >>] /\ UNCHANGED probe
    BY <1>3 DEF HandlerReturns
  <2>2. SameChosen(s, << >>) /\ << >> \in Seq(Frames)
    BY DEF SameChosen
  <2>3. \A i : Copies(i)' = Copies(i)
    BY <1>2, <2>1, ReportKept
  <2>4. QED
    BY <1>1, <1>2, <2>1, <2>2, <2>3, LeftAlone
<1>4. CASE below # << >>
  <2>1. /\ sender \in SendFrames /\ sender.kind = "send" /\ sender.evt \in EventSet
    <3>1. sender \in SendFrames
      BY <1>1, <1>4, Caller
    <3>2. QED
      BY <3>1 DEF SendFrames
  <2>2. \/ /\ stack' = [stack EXCEPT ![t] = Append(Front(below), f)]
           /\ UNCHANGED probe
        \/ /\ stack' = [stack EXCEPT ![t] = Front(below)]
           /\ probe' = Told(sender, FALSE)
    BY <1>4 DEF HandlerReturns
  <2>3. CASE /\ stack' = [stack EXCEPT ![t] = Append(Front(below), f)]
             /\ UNCHANGED probe
    <3>1. Moved(sender, f, sender.evt, sender.copy, "each", sender.next + 1)
      BY <2>1, SendUpdates
    <3>2. CASE sender.probe
      <4>1. Chosen(sender)
        BY <2>1, <3>2 DEF Chosen
      <4>2. QED
        <5>1. /\ f \in SendFrames /\ f.at = "each"
              /\ f.next = Last(below).next + 1 /\ f.out = Last(below).out
              /\ Chosen(Last(below)) /\ below = Front(stack[t])
              /\ stack[t] # << >> /\ UNCHANGED <<platform, queue, probe>>
              /\ stack' = [stack EXCEPT ![t] = Append(Front(below), f)]
          BY <1>1, <1>2, <2>3, <3>1, <4>1 DEF Moved
        <5>2. QED
          BY <1>1, <1>4, <5>1, ChosenGoesOn
    <3>3. CASE ~sender.probe
      <4>1. ~Chosen(f) /\ f \in Frames
        BY <3>1, <3>3 DEF Moved, Chosen, Frames
      <4>2. /\ SameChosen(s, Append(Front(below), f))
            /\ Append(Front(below), f) \in Seq(Frames)
        BY <1>1, <1>4, <4>1, SameReturnedTo
      <4>3. \A i : Copies(i)' = Copies(i)
        BY <1>2, <2>3, ReportKept
      <4>4. QED
        BY <1>1, <1>2, <2>3, <4>2, <4>3, LeftAlone
    <3>4. QED
      BY <3>2, <3>3
  <2>4. CASE /\ stack' = [stack EXCEPT ![t] = Front(below)]
             /\ probe' = Told(sender, FALSE)
    <3>1. CASE sender.probe
      <4>1. Chosen(sender)
        BY <2>1, <3>1 DEF Chosen
      <4>2. probe' = [probe EXCEPT !.state = "refused"]
        BY <2>4, <3>1 DEF Told
      <4>3. /\ probe'.state = "refused" /\ probe'.out = probe.out
            /\ probe'.got = probe.got
        BY <4>2 DEF Inv, TypeOK, ProbeOK
      <4>4. Targets' = Targets /\ \A i : Copies(i)' = Copies(i)
        BY <1>2, <4>3 DEF Targets, Copies
      <4>5. probe.state = "sending"
        <5>1. /\ Len(below) \in 1 .. Len(s)
              /\ s[Len(below)] = sender
          <6>1. /\ Len(s) \in Nat \ {0} /\ below \in Seq(Frames)
                /\ Len(below) = Len(s) - 1
                /\ \A d \in 1 .. Len(s) - 1 : below[d] = s[d]
            BY <1>1, TopOf
          <6>2. Len(below) \in Nat \ {0} /\ sender = below[Len(below)]
            BY <1>4, <6>1, TopOf
          <6>3. Len(below) \in 1 .. Len(s) - 1
            <7> DEFINE k == Len(below)
                       n == Len(s)
            <7>1. k \in Nat \ {0} /\ n \in Nat /\ k = n - 1
              BY <6>1, <6>2
            <7> HIDE DEF k, n
            <7>2. k \in 1 .. n - 1
              BY <7>1
            <7>3. QED
              BY <7>2 DEF k, n
          <6>4. QED
            BY <6>1, <6>2, <6>3
        <5>2. QED
          BY <1>1, <4>1, <5>1 DEF PInv, FrameFollowed, Follows
      <4>6. Lengths' /\ AllWhenAccepted'
        BY <4>3, <4>5 DEF PInv, Lengths, AllWhenAccepted, Running
      <4>7. PrefixReached'
        BY <4>3, <4>4, <4>5 DEF PInv, PrefixReached, Running, Reached
      <4>8. QED
        BY <1>1, <1>4, <2>4, <4>1, <4>6, <4>7, ChosenFails
    <3>2. CASE ~sender.probe
      <4>1. probe' = probe
        BY <2>4, <3>2 DEF Told
      <4>2. SameChosen(s, Front(below)) /\ Front(below) \in Seq(Frames)
        BY <1>1, <1>4, <2>1, SameReturnedTwice
      <4>3. \A i : Copies(i)' = Copies(i)
        BY <1>2, <4>1, ReportKept
      <4>4. QED
        BY <1>1, <1>2, <2>4, <4>1, <4>2, <4>3, LeftAlone
    <3>3. QED
      BY <3>1, <3>2
  <2>5. QED
    BY <2>2, <2>3, <2>4
<1>5. QED
  BY <1>3, <1>4

(* No send has been followed since the last one that was.                   *)
LEMMA NoneFollowed ==
  ASSUME PInv, probe.state # "sending"
  PROVE  \A t \in Threads : \A d \in 1 .. Len(stack[t]) : ~Chosen(stack[t][d])
  BY DEF PInv, FrameFollowed, Follows

(* A send that is chosen has reached no one, and no copy of another chosen   *)
(* send is left.                                                            *)
LEMMA NoneReached ==
  ASSUME Inv, Settled, NEW out \in Outputs, probe' = Probed(out),
         UNCHANGED queue
  PROVE  Reached(0)' /\ Lengths' /\ AllWhenAccepted'
<1>1. /\ probe'.state = "sending" /\ probe'.out = out
      /\ probe'.got = [i \in DOMAIN Subscribers[out] |-> 0]
  BY DEF Probed
<1>2. DOMAIN Subscribers[out] = 1 .. Len(Subscribers[out])
      /\ Len(Subscribers[out]) \in Nat
  <2>1. Subscribers[out] \in Seq(Nodes)
    BY EventOutputAssumption
  <2>2. QED
    BY <2>1, LenProperties
<1>3. Lengths' /\ AllWhenAccepted'
  BY <1>1, <1>2 DEF Lengths, AllWhenAccepted
<1>4. SUFFICES ASSUME NEW i \in 1 .. Len(Subscribers[out])
               PROVE  Copies(i)' = 0
  BY <1>1, <1>2, <1>3 DEF Reached, Targets
<1>5. probe'.got[i] = 0
  BY <1>1, <1>2
<1>6. Cardinality({k \in DOMAIN queue : queue[k].nth = i}) = 0
  <2>1. {k \in DOMAIN queue : queue[k].nth = i} = {}
    BY DEF Settled
  <2>2. QED
    BY <2>1, FS_EmptySet
<1>7. QED
  BY <1>5, <1>6 DEF Copies

(* The calls of a thread before and after a send has begun: below the new   *)
(* one, a call that is not chosen, or one that waited already.              *)
Below(s, r) ==
  \A d \in 1 .. Len(r) - 1 :
    ~Chosen(r[d]) \/ (d \in 1 .. Len(s) /\ d < Len(s) /\ r[d] = s[d])

Begun(s, r, f) ==
  r \in Seq(Frames) /\ Len(r) \in Nat \ {0} /\ r[Len(r)] = f /\ Below(s, r)

(* A send is the only call of its thread, ...                                *)
LEMMA BegunFirst ==
  ASSUME NEW f \in Frames
  PROVE  Begun(<< >>, Append(<< >>, f), f)
<1> DEFINE r == Append(<< >>, f)
<1>1. r \in Seq(Frames) /\ Len(r) = 1 /\ r[1] = f
  OBVIOUS
<1> HIDE DEF r, Chosen
<1>2. Begun(<< >>, r, f)
  BY <1>1 DEF Begun, Below
<1>3. QED
  BY <1>2 DEF r

(* or it is called by a handler.                                             *)
LEMMA BegunWithin ==
  ASSUME NEW s \in Seq(Frames), s # << >>, NEW f \in Frames,
         NEW c \in Frames, ~Chosen(c)
  PROVE  Begun(s, Append(Append(Front(s), c), f), f)
<1> DEFINE m == Append(Front(s), c)
           r == Append(m, f)
<1>1. /\ Front(s) \in Seq(Frames) /\ Len(Front(s)) = Len(s) - 1
      /\ Len(s) \in Nat \ {0}
      /\ \A d \in 1 .. Len(s) - 1 : Front(s)[d] = s[d]
  BY TopOf
<1>2. /\ m \in Seq(Frames) /\ Len(m) = Len(s) /\ m[Len(s)] = c
      /\ \A d \in 1 .. Len(s) - 1 : m[d] = s[d]
  BY <1>1, Grown
<1> HIDE DEF m
<1>3. /\ r \in Seq(Frames) /\ Len(r) = Len(s) + 1 /\ r[Len(s) + 1] = f
      /\ \A d \in 1 .. Len(s) : r[d] = m[d]
  BY <1>1, <1>2, Grown
<1> HIDE DEF r, Chosen
<1>4. ASSUME NEW d \in 1 .. Len(s)
      PROVE  ~Chosen(r[d]) \/ (d < Len(s) /\ r[d] = s[d])
  BY <1>1, <1>2, <1>3
<1>5. Len(r) \in Nat \ {0} /\ r[Len(r)] = f
  BY <1>1, <1>3
<1>6. Below(s, r)
  BY <1>1, <1>3, <1>4 DEF Below
<1>7. Begun(s, r, f)
  BY <1>3, <1>5, <1>6 DEF Begun
<1>8. QED
  BY <1>7 DEF r, m

(* The chosen send begins, ...                                              *)
LEMMA ChosenBegins ==
  ASSUME Inv, PInv, NEW t \in Threads, NEW r \in Seq(Frames),
         stack' = [stack EXCEPT ![t] = r],
         NEW n \in Nat \ {0}, n = Len(r), NEW out \in Outputs,
         r[n].out = out, r[n].next = 1, r[n].evt.id # kNoEvent,
         Below(stack[t], r), Settled, probe' = Probed(out), UNCHANGED queue
  PROVE  PInv'
<1>1. \A u \in Threads : \A d \in 1 .. Len(stack[u]) : ~Chosen(stack[u][d])
  BY NoneFollowed DEF Settled
<1>2. NoneElsewhere(t)
  BY <1>1 DEF NoneElsewhere
<1>3. Reached(0)' /\ Lengths' /\ AllWhenAccepted'
  BY NoneReached
<1>4. PrefixReached'
  BY <1>3 DEF PrefixReached, Reached
<1>5. Follows(r, n)'
  <2>1. probe'.state = "sending" /\ probe'.out = out
    BY DEF Probed
  <2>2. Served(r, n) = 0
    BY DEF Served
  <2>3. Reached(Served(r, n))'
    BY <1>3, <2>2 DEF Reached, Served
  <2>4. QED
    BY <2>1, <2>3 DEF Follows
<1> HIDE DEF Lengths, AllWhenAccepted, PrefixReached, Follows, NoneElsewhere,
             Chosen
<1>6. \A d \in 1 .. Len(r) : Chosen(r[d]) => d = n /\ Follows(r, d)'
  <2>1. ASSUME NEW d \in 1 .. n - 1 PROVE ~Chosen(r[d])
    BY <1>1 DEF Below
  <2>2. QED
    BY <1>5, <2>1
<1>7. StackInv /\ Lengths' /\ AllWhenAccepted'
  BY <1>3 DEF Inv
<1>8. QED
  BY <1>2, <1>4, <1>6, <1>7, ThisOneFollowed

(* or another one does, which may give up following the last.               *)
LEMMA OtherBegins ==
  ASSUME Inv, PInv, NEW t \in Threads, NEW r \in Seq(Frames),
         stack' = [stack EXCEPT ![t] = r],
         NEW n \in Nat \ {0}, n = Len(r), ~Chosen(r[n]), Below(stack[t], r),
         \/ Settled /\ probe' = NoProbe
         \/ UNCHANGED <<platform, queue, probe>>
  PROVE  PInv'
<1>0. StackInv
  BY DEF Inv
<1>1. CASE Settled /\ probe' = NoProbe
  <2>1. \A u \in Threads : \A d \in 1 .. Len(stack[u]) : ~Chosen(stack[u][d])
    BY <1>1, NoneFollowed DEF Settled
  <2>2. NoneElsewhere(t)
    BY <2>1 DEF NoneElsewhere
  <2>3. Lengths' /\ PrefixReached' /\ AllWhenAccepted'
    BY <1>1 DEF Lengths, PrefixReached, AllWhenAccepted, NoProbe, Running
  <2> HIDE DEF Lengths, AllWhenAccepted, PrefixReached, Follows, NoneElsewhere,
               Chosen
  <2>4. \A d \in 1 .. Len(r) : Chosen(r[d]) => d = n /\ Follows(r, d)'
    <3>1. ASSUME NEW d \in 1 .. n - 1 PROVE ~Chosen(r[d])
      BY <2>1 DEF Below
    <3>2. QED
      BY <3>1
  <2>5. QED
    BY <1>0, <2>2, <2>3, <2>4, ThisOneFollowed
<1>2. CASE UNCHANGED <<platform, queue, probe>>
  <2>1. SameChosen(stack[t], r)
    <3> HIDE DEF Chosen
    <3>1. SUFFICES ASSUME NEW d \in 1 .. Len(r), Chosen(r[d])
                   PROVE  d < Len(r) /\ d < Len(stack[t]) /\ r[d] = stack[t][d]
      BY DEF SameChosen
    <3>2. d \in 1 .. n - 1
      BY <3>1
    <3>3. QED
      BY <3>1, <3>2 DEF Below
  <2>2. \A i : Copies(i)' = Copies(i)
    BY <1>2, ReportKept
  <2>3. QED
    BY <1>0, <1>2, <2>1, <2>2, LeftAlone
<1>3. QED
  BY <1>1, <1>2

(* A send begins; it may be the one to follow.                              *)
LEMMA SendTracks ==
  ASSUME Inv, PInv, NEW t \in Threads, Send(t)
  PROVE  PInv'
<1>1. PICK out \in Senders(t), mode \in {"sync", "async"}, id \in Ids :
        /\ t = Stream => mode = "async"
        /\ id = "probe" => Settled
        /\ probe' = CASE id = "probe" -> Probed(out)
                      [] id # "probe" /\ Settled -> NoProbe
                      [] OTHER -> probe
        /\ Begin(t, SendFrame(out, mode, [id |-> id, list |-> FALSE],
                          IF out = App /\ mode = "async" /\ mustEnd THEN "fail"
                          ELSE IF out \in ListOutputs THEN "create" ELSE "test",
                          id = "probe"))
        /\ UNCHANGED <<platform, free, queue, mustPause, mustEnd>>
  BY DEF Send
<1>2. /\ out \in Outputs /\ StackInv /\ stack[t] \in Seq(Frames)
      /\ \/ t = Stream /\ stack[t] = << >>
         \/ /\ t = Events /\ t # Stream /\ stack[t] # << >>
            /\ Top(t) \in HandlerFrames
  BY SendersType DEF Inv, StackInv
<1>3. PICK f \in SendFrames :
        /\ f.out = out /\ f.next = 1 /\ f.evt.id = id
        /\ f.probe = (id = "probe") /\ Begin(t, f)
  <2> DEFINE at == IF out = App /\ mode = "async" /\ mustEnd THEN "fail"
                   ELSE IF out \in ListOutputs THEN "create" ELSE "test"
             e == [id |-> id, list |-> FALSE]
             chosen == id = "probe"
             f == SendFrame(out, mode, e, at, chosen)
  <2>1. Begin(t, f)
    BY <1>1
  <2>2. /\ e \in EventSet /\ e.id = id /\ at \in {"create", "test", "fail"}
        /\ chosen \in BOOLEAN
    BY DEF EventSet
  <2> HIDE DEF at, e, chosen
  <2>3. /\ f \in SendFrames /\ f.evt = e /\ f.out = out /\ f.probe = chosen
        /\ f.next = 1
    BY <1>2, <2>2, NewSend
  <2> HIDE DEF f
  <2>4. f.evt.id = id /\ f.probe = (id = "probe")
    BY <2>2, <2>3 DEF chosen
  <2>5. QED
    BY <2>1, <2>3, <2>4
<1>4. PICK c \in Frames :
               /\ stack[t] # << >> => ~Chosen(c)
               /\ stack' = [stack EXCEPT ![t] =
                    IF stack[t] = << >> THEN Append(stack[t], f)
                    ELSE Append(Append(Front(stack[t]), c), f)]
  <2> DEFINE c == [Top(t) EXCEPT !.sent = TRUE]
  <2>1. stack[t] # << >> => c \in HandlerFrames
    BY <1>2, HandlerUpdates
  <2>2. stack[t] # << >> => c \in Frames /\ ~Chosen(c)
    BY <2>1 DEF Frames, Chosen, HandlerFrames
  <2>3. stack' = [stack EXCEPT ![t] =
                    IF stack[t] = << >> THEN Append(stack[t], f)
                    ELSE Append(Append(Front(stack[t]), c), f)]
    BY <1>2, <1>3 DEF Begin, Call, CallFrom
  <2> HIDE DEF c, Chosen
  <2>4. CASE stack[t] # << >>
    BY <2>2, <2>3, <2>4
  <2>5. CASE stack[t] = << >>
    <3>1. stack' = [stack EXCEPT ![t] =
                      IF stack[t] = << >> THEN Append(stack[t], f)
                      ELSE Append(Append(Front(stack[t]), f), f)]
      BY <2>3, <2>5
    <3>2. f \in Frames
      BY DEF Frames
    <3>3. QED
      BY <2>5, <3>1, <3>2
  <2>6. QED
    BY <2>4, <2>5
<1>5. PICK r : r = IF stack[t] = << >> THEN Append(stack[t], f)
                   ELSE Append(Append(Front(stack[t]), c), f)
  OBVIOUS
<1>6. f \in Frames
  BY DEF Frames
<1>7. Begun(stack[t], r, f)
  <2>1. SUFFICES ASSUME NEW s, s = stack[t] PROVE Begun(s, r, f)
    OBVIOUS
  <2> HIDE DEF Chosen
  <2>2. CASE s = << >>
    <3>1. r = Append(<< >>, f)
      BY <1>5, <2>1, <2>2
    <3>2. QED
      BY <1>6, <2>2, <3>1, BegunFirst
  <2>3. CASE s # << >>
    <3>1. s \in Seq(Frames) /\ ~Chosen(c)
      BY <1>2, <1>4, <2>1, <2>3
    <3>2. r = Append(Append(Front(s), c), f)
      BY <1>5, <2>1, <2>3
    <3>3. QED
      BY <1>6, <2>3, <3>1, <3>2, BegunWithin
  <2>4. QED
    BY <2>2, <2>3
<1>8. stack' = [stack EXCEPT ![t] = r]
  BY <1>4, <1>5
<1>9. PICK n \in Nat \ {0} : n = Len(r)
  BY <1>7 DEF Begun
<1>10. r \in Seq(Frames) /\ r[n] = f /\ Below(stack[t], r)
  BY <1>7, <1>9 DEF Begun
<1>11. CASE id = "probe"
  <2>1. Settled /\ probe' = Probed(out) /\ UNCHANGED queue
    BY <1>1, <1>11
  <2>2. r[n].out = out /\ r[n].next = 1 /\ r[n].evt.id # kNoEvent
    BY <1>3, <1>10, <1>11 DEF kNoEvent
  <2> HIDE DEF Settled, Chosen, Below
  <2>3. QED
    BY <1>2, <1>8, <1>9, <1>10, <2>1, <2>2, ChosenBegins
<1>12. CASE id # "probe"
  <2>1. \/ Settled /\ probe' = NoProbe
        \/ UNCHANGED <<platform, queue, probe>>
    <3> HIDE DEF Settled
    <3>1. QED
      BY <1>1, <1>12
  <2>2. ~Chosen(r[n])
    BY <1>3, <1>10, <1>12 DEF Chosen
  <2> HIDE DEF Settled, Chosen, Below
  <2>3. QED
    BY <1>8, <1>9, <1>10, <2>1, <2>2, OtherBegins
<1>13. QED
  BY <1>11, <1>12

(* The chosen send and its copies when the queue is paused, resumed, ended   *)
(* and cleared.                                                             *)
LEMMA ControlTracks ==
  ASSUME Inv, PInv, pause \/ resume \/ end \/ UNCHANGED vars
  PROVE  PInv'
<1>1. UNCHANGED <<platform, queue, stack, probe>>
  BY DEF pause, resume, end, vars
<1>2. /\ Lengths' /\ PrefixReached' /\ AllWhenAccepted'
      /\ \A n : Reached(n) => Reached(n)'
  BY <1>1, ReportKept
<1>3. FrameFollowed'
  <2>1. SUFFICES ASSUME NEW t \in Threads, NEW d \in 1 .. Len(stack[t]),
                        Chosen(stack[t][d])
                 PROVE  Follows(stack[t], d)'
    BY <1>1 DEF FrameFollowed, Chosen
  <2>2. Follows(stack[t], d)
    BY <2>1 DEF PInv, FrameFollowed
  <2>3. Reached(Served(stack[t], d))'
    BY <1>1, <2>2 DEF Follows, Reached, Served, Targets, Copies
  <2>4. Enough' = Enough
    BY <1>1 DEF Enough
  <2>5. QED
    BY <1>1, <2>2, <2>3, <2>4 DEF Follows
<1>4. OneChosen'
  BY <1>1 DEF PInv, OneChosen, Chosen
<1>5. QED
  BY <1>2, <1>3, <1>4 DEF PInv

(* clear() gives up the copies in the queue, and what follows them.          *)
LEMMA ClearTracks ==
  ASSUME Inv, PInv, clear
  PROVE  PInv'
<1>1. /\ stack[Stream] = << >> /\ stack[Events] = << >>
      /\ queue' = << >> /\ UNCHANGED <<platform, stack>>
      /\ probe' = IF Settled THEN probe ELSE [probe EXCEPT !.state = "cleared"]
  BY DEF clear, AtRest
<1>2. \A t \in Threads : stack'[t] = << >>
  BY <1>1 DEF Threads
<1>3. FrameFollowed' /\ OneChosen'
  BY <1>2 DEF FrameFollowed, OneChosen
<1>4. CASE Settled
  <2>1. probe' = probe
    BY <1>1, <1>4
  <2>2. ASSUME NEW i \in Targets PROVE Copies(i)' = Copies(i)
    <3>1. i # 0
      BY DEF Targets
    <3>2. {k \in DOMAIN queue : queue[k].nth = i} = {}
      BY <1>4, <3>1 DEF Settled
    <3>3. {k \in DOMAIN queue' : queue'[k].nth = i} = {}
      BY <1>1
    <3>4. Cardinality({k \in DOMAIN queue : queue[k].nth = i}) =
            Cardinality({k \in DOMAIN queue' : queue'[k].nth = i})
      BY <3>2, <3>3
    <3>5. QED
      BY <2>1, <3>4 DEF Copies
  <2>3. /\ Targets' = Targets /\ Running' = Running /\ Enough' = Enough
        /\ Lengths'
    BY <1>1, <2>1 DEF Targets, Running, Enough, PInv, Lengths
  <2>4. PrefixReached'
    BY <2>2, <2>3 DEF PInv, PrefixReached, Reached
  <2>5. AllWhenAccepted'
    BY <2>1, <2>2, <2>3 DEF PInv, AllWhenAccepted
  <2>6. QED
    BY <1>3, <2>3, <2>4, <2>5 DEF PInv
<1>5. CASE ~Settled
  <2>1. probe' = [probe EXCEPT !.state = "cleared"]
    BY <1>1, <1>5
  <2>2. probe'.state = "cleared"
    BY <2>1 DEF Inv, TypeOK, ProbeOK
  <2>3. Lengths' /\ PrefixReached' /\ AllWhenAccepted'
    BY <2>2 DEF Lengths, PrefixReached, AllWhenAccepted, Running
  <2>4. QED
    BY <1>3, <2>3 DEF PInv
<1>6. QED
  BY <1>4, <1>5

(* Nothing is followed at the beginning.                                    *)
LEMMA TracksInitially == Init => PInv
<1> SUFFICES ASSUME Init PROVE PInv
  OBVIOUS
<1>1. probe.state = "unused" /\ \A t \in Threads : stack[t] = << >>
  BY DEF Init, NoProbe
<1>2. QED
  BY <1>1 DEF PInv, Lengths, PrefixReached, AllWhenAccepted, Running,
              FrameFollowed, OneChosen

(* Every step keeps what is known of the chosen send.                       *)
LEMMA TracksInductive == Inv /\ PInv /\ [Next]_vars => PInv'
<1> SUFFICES ASSUME Inv, PInv, [Next]_vars PROVE PInv'
  OBVIOUS
<1>1. ASSUME NEW t \in Threads, Send(t) \/ Forward(t) \/ Apply(t)
      PROVE  PInv'
  BY <1>1, SendTracks, ForwardTracks, ApplyTracks
<1>2. ASSUME NEW t \in Threads, Steps(t) PROVE PInv'
  BY <1>2, CreateTracks, TestTracks, CloneTracks, AllServedTracks, PushTracks,
     CallSubscriberTracks, HandlerReturnsTracks DEF Steps
<1>3. CASE Execute \/ pause \/ clear \/ resume \/ end
  BY <1>3, ExecuteTracks, ControlTracks, ClearTracks
<1>4. CASE UNCHANGED vars
  BY <1>4, ControlTracks
<1>5. QED
  BY <1>1, <1>2, <1>3, <1>4 DEF Next

(* An event that is sent reaches the subscribers of its output in their      *)
(* order, each once, up to where the queue or a handler has refused it, and  *)
(* all of them when the send returns true, for every graph of subscriptions  *)
(* whose pool has enough blocks (EventQueue.hpp:264-283).                   *)
THEOREM SendsReachAPrefix == Spec => []ReachesAPrefix
<1>1. Inv /\ PInv => ReachesAPrefix
  <2>1. SUFFICES ASSUME Inv, PInv, Enough, Running PROVE ReachesAPrefix
    BY DEF ReachesAPrefix, Running
  <2>2. PICK n \in Nat : Reached(n)
    BY <2>1 DEF PInv, PrefixReached
  <2>3. DOMAIN Subscribers[probe.out] = Targets /\ Targets \subseteq Nat
    <3>1. Subscribers[probe.out] \in Seq(Nodes)
      BY <2>1, EventOutputAssumption DEF Inv, TypeOK, ProbeOK
    <3>2. QED
      BY <3>1, LenProperties DEF Targets
  <2>4. \A i \in Targets : Copies(i) = IF i <= n THEN 1 ELSE 0
    BY <2>2 DEF Reached
  <2>5. \A i \in Targets : Copies(i) <= 1
    BY <2>4
  <2>6. \A i, j \in Targets : i < j /\ Copies(j) = 1 => Copies(i) = 1
    <3>1. SUFFICES ASSUME NEW i \in Targets, NEW j \in Targets,
                          i < j, Copies(j) = 1
                   PROVE  Copies(i) = 1
      OBVIOUS
    <3>2. j <= n /\ i \in Nat /\ j \in Nat
      BY <2>3, <2>4, <3>1
    <3>3. QED
      BY <2>4, <3>1, <3>2
  <2>7. probe.state = "accepted" => \A i \in Targets : Copies(i) = 1
    BY <2>1 DEF PInv, AllWhenAccepted
  <2>8. QED
    BY <2>3, <2>5, <2>6, <2>7 DEF ReachesAPrefix
<1> HIDE DEF Inv, PInv
<1>2. QED
  BY InvInitially, InvInductive, TracksInitially, TracksInductive, <1>1, PTL
     DEF Spec
-----------------------------------------------------------------------------
(* The payloads of the events: ProtectedBuffer, with the constants it        *)
(* assumes (ConstantsAssumption), for any number of threads, handles and     *)
(* objects. What lock() tells the only owner of an object stays true while   *)
(* it works on the object, nobody else is inside, every owner has the        *)
(* object's own mutex, and a mutex that is held is owned.                    *)
(*                                                                           *)
(* The invariant that carries the proof says where an operation stands:      *)
(* which handles it has to itself, which mutexes it holds, and how the two   *)
(* pointers of the handles it changes differ until it is done.               *)
CONSTANTS Owners, Handles, Objects, None, SelfLock, SharedReaders, AssignOver,
          MaxOps
VARIABLES obj, mutex, op, pc, writing, reading, told, started

Buffers == INSTANCE ProtectedBuffer WITH Threads <- Owners

Transfers == {"copy", "move"}
Locks == {"lock", "lock_shared"}

\* How far an operation is and what it may be.
OpShape ==
    \A t \in Owners :
        IF Buffers!Busy(t)
        THEN /\ op[t] \in Buffers!Ops
             /\ mutex[op[t].src] # None
             /\ op[t].kind \in Transfers <=> op[t].dst # op[t].src
             /\ pc[t] = "second" => /\ op[t].kind \in Transfers
                                    /\ mutex[op[t].dst] # None
             /\ pc[t] = "rebind" => op[t].kind \notin Locks
        ELSE op[t] = None

\* The mutexes held at each point.
HeldBy(t) ==
    LET m == mutex[op[t].src]
        shared == op[t].kind = "lock_shared" /\ SharedReaders
    IN /\ pc[t] \in {"idle", "first", "rebind"}
             => writing[t] = {} /\ reading[t] = {}
       /\ pc[t] = "second" => writing[t] = {m} /\ reading[t] = {}
       /\ pc[t] = "inside" /\ shared => writing[t] = {} /\ reading[t] = {m}
       /\ pc[t] = "inside" /\ ~shared
             => /\ m \in writing[t] /\ reading[t] = {}
                /\ writing[t] \subseteq {m, mutex[op[t].dst]}
HeldShape == \A t \in Owners : HeldBy(t)

\* A handle being changed is used by nobody else.
ChangesAlone ==
    \A t, u \in Owners : t # u => Buffers!Changes(t) \cap Buffers!Uses(u) = {}

\* A mutex held for writing is held by nobody else.
MutexesExclude ==
    \A t, u \in Owners :
        t # u => writing[t] \cap (writing[u] \cup reading[u]) = {}

\* The two pointers agree except in the handles an operation that has left
\* its section is about to rebind.
Rebinding(h) == \E t \in Owners : pc[t] = "rebind" /\ h \in Buffers!Changes(t)
RestAgrees == \A h \in Handles : ~Rebinding(h) => mutex[h] = obj[h]
Pending(t) ==
    /\ op[t].kind = "copy"  => obj[op[t].dst] = mutex[op[t].src]
    /\ op[t].kind = "move"  => /\ obj[op[t].dst] = mutex[op[t].src]
                               /\ obj[op[t].src] = None
    /\ op[t].kind = "reset" => obj[op[t].dst] = None
RebindPending == \A t \in Owners : pc[t] = "rebind" => Pending(t)
PointersAgree == RestAgrees /\ RebindPending

HandlesInv ==
    /\ Buffers!TypeOK /\ OpShape /\ HeldShape /\ ChangesAlone
    /\ MutexesExclude /\ PointersAgree /\ Buffers!AloneIsTrusted

USE DEF Buffers!ConstantsAssumption, Buffers!Busy, Buffers!Ops, Buffers!Kinds,
   Transfers, Locks

\* A thread at work on an object: the handle it came through has that
\* object's mutex, and the thread holds it.
LEMMA InsideHolds ==
  ASSUME Buffers!ConstantsAssumption,
         HandlesInv, NEW t \in Owners, Buffers!Inside(t)
  PROVE  /\ mutex[op[t].src] = obj[op[t].src]
         /\ obj[op[t].src] \in Objects
         /\ obj[op[t].src] \in writing[t] \cup reading[t]
         /\ op[t].kind = "lock" => obj[op[t].src] \in writing[t]
         /\ op[t].src \in Handles /\ op[t].src \in Buffers!Uses(t)
  <1> USE DEF HandlesInv, Buffers!Inside
  <1>1. op[t].src \in Handles /\ op[t].src \in Buffers!Uses(t) /\ Buffers!Changes(t) = {}
    BY DEF OpShape, Buffers!Uses, Buffers!Changes
  <1>2. ~Rebinding(op[t].src)
    BY <1>1 DEF Rebinding, ChangesAlone
  <1>3. mutex[op[t].src] = obj[op[t].src] /\ mutex[op[t].src] \in Objects
    BY <1>1, <1>2 DEF PointersAgree, RestAgrees, OpShape, Buffers!TypeOK
  <1> QED
    BY <1>1, <1>3 DEF HeldShape, HeldBy

\* What a thread looks through and changes depends on its own operation.
LEMMA UsesFollowOp ==
  ASSUME Buffers!ConstantsAssumption,
         NEW u \in Owners, op'[u] = op[u], pc'[u] = pc[u]
  PROVE  Buffers!Uses(u)' = Buffers!Uses(u) /\ Buffers!Changes(u)' = Buffers!Changes(u)
  <1>1. Buffers!Uses(u)' = Buffers!Uses(u)
    BY DEF Buffers!Uses
  <1> QED
    BY <1>1 DEF Buffers!Changes

LEMMA CreateWithKeeps ==
  ASSUME Buffers!ConstantsAssumption,
         HandlesInv, NEW t \in Owners, NEW d \in Handles, Buffers!CreateWith(t,
         d)
  PROVE  HandlesInv'
  <1> USE DEF HandlesInv, Buffers!CreateWith, Buffers!Count, Buffers!MayChange
  <1>1. Buffers!TypeOK'
    BY DEF Buffers!TypeOK, OpShape
  <1>2. OpShape'
    BY DEF Buffers!TypeOK, OpShape, ChangesAlone, Buffers!Uses, Buffers!Changes
  <1>3. HeldShape'
    BY DEF Buffers!TypeOK, OpShape, HeldShape, HeldBy, ChangesAlone,
       Buffers!Uses, Buffers!Changes
  <1>4. ChangesAlone'
    <2>1. \A u \in Owners : /\ Buffers!Uses(u)' \subseteq Buffers!Uses(u)
                             /\ Buffers!Changes(u)' \subseteq Buffers!Changes(u)
      BY DEF Buffers!TypeOK, OpShape, Buffers!Uses, Buffers!Changes
    <2> QED
      BY <2>1 DEF ChangesAlone
  <1>5. MutexesExclude'
    BY DEF Buffers!TypeOK, MutexesExclude, HeldShape, HeldBy
  <1>6. PointersAgree'
    BY DEF Buffers!TypeOK, OpShape, ChangesAlone, PointersAgree, RestAgrees,
       RebindPending, Pending, Rebinding, Buffers!Uses, Buffers!Changes
  <1>7. Buffers!AloneIsTrusted'
    BY DEF Buffers!TypeOK, OpShape, HeldShape, HeldBy, ChangesAlone,
       MutexesExclude,
       PointersAgree, RestAgrees, RebindPending, Pending, Rebinding,
       Buffers!AloneIsTrusted, Buffers!Locking, Buffers!IsShared, Buffers!Uses,
       Buffers!Changes
  <1> QED
    BY <1>1, <1>2, <1>3, <1>4, <1>5, <1>6, <1>7

LEMMA StartLockKeeps ==
  ASSUME Buffers!ConstantsAssumption,
         HandlesInv, NEW t \in Owners, NEW h \in Handles, NEW kind \in Locks,
         Buffers!StartLock(t, kind, h)
  PROVE  HandlesInv'
  <1> USE DEF HandlesInv, Buffers!StartLock, Buffers!Count, Buffers!Begin,
         Buffers!MayUse
  <1>1. Buffers!TypeOK'
    BY DEF Buffers!TypeOK, OpShape
  <1>2. OpShape'
    BY DEF Buffers!TypeOK, OpShape, ChangesAlone, Buffers!Uses, Buffers!Changes
  <1>3. HeldShape'
    BY DEF Buffers!TypeOK, OpShape, HeldShape, HeldBy, ChangesAlone,
       Buffers!Uses, Buffers!Changes
  <1>4. ChangesAlone'
    <2>0. \A u \in Owners \ {t} : op'[u] = op[u] /\ pc'[u] = pc[u]
      BY DEF Buffers!TypeOK
    <2>1. \A u \in Owners \ {t} : /\ Buffers!Uses(u)' = Buffers!Uses(u)
                                  /\ Buffers!Changes(u)' = Buffers!Changes(u)
      BY <2>0, UsesFollowOp
    <2>2. \A u \in Owners \ {t} : /\ Buffers!Changes(t)' \cap Buffers!Uses(u) = {}
                                  /\ Buffers!Changes(u) \cap Buffers!Uses(t)' = {}
      BY DEF Buffers!TypeOK, Buffers!Uses, Buffers!Changes, Buffers!MayUse,
         Buffers!MayChange
    <2> QED
      BY <2>1, <2>2 DEF ChangesAlone
  <1>5. MutexesExclude'
    BY DEF Buffers!TypeOK, MutexesExclude, HeldShape, HeldBy
  <1>6. PointersAgree'
    BY DEF Buffers!TypeOK, OpShape, ChangesAlone, PointersAgree, RestAgrees,
       RebindPending, Pending, Rebinding, Buffers!Uses, Buffers!Changes
  <1>7. Buffers!AloneIsTrusted'
    BY DEF Buffers!TypeOK, OpShape, HeldShape, HeldBy, ChangesAlone,
       MutexesExclude,
       PointersAgree, RestAgrees, RebindPending, Pending, Rebinding,
       Buffers!AloneIsTrusted, Buffers!Locking, Buffers!IsShared, Buffers!Uses,
       Buffers!Changes
  <1> QED
    BY <1>1, <1>2, <1>3, <1>4, <1>5, <1>6, <1>7

LEMMA StartResetKeeps ==
  ASSUME Buffers!ConstantsAssumption,
         HandlesInv, NEW t \in Owners, NEW h \in Handles, Buffers!StartReset(t,
         h)
  PROVE  HandlesInv'
  <1> USE DEF HandlesInv, Buffers!StartReset, Buffers!Count, Buffers!Begin,
         Buffers!MayChange
  <1>1. Buffers!TypeOK'
    BY DEF Buffers!TypeOK, OpShape
  <1>2. OpShape'
    BY DEF Buffers!TypeOK, OpShape, ChangesAlone, Buffers!Uses, Buffers!Changes
  <1>3. HeldShape'
    BY DEF Buffers!TypeOK, OpShape, HeldShape, HeldBy, ChangesAlone,
       Buffers!Uses, Buffers!Changes
  <1>4. ChangesAlone'
    <2>0. \A u \in Owners \ {t} : op'[u] = op[u] /\ pc'[u] = pc[u]
      BY DEF Buffers!TypeOK
    <2>1. \A u \in Owners \ {t} : /\ Buffers!Uses(u)' = Buffers!Uses(u)
                                  /\ Buffers!Changes(u)' = Buffers!Changes(u)
      BY <2>0, UsesFollowOp
    <2>2. \A u \in Owners \ {t} : /\ Buffers!Changes(t)' \cap Buffers!Uses(u) = {}
                                  /\ Buffers!Changes(u) \cap Buffers!Uses(t)' = {}
      BY DEF Buffers!TypeOK, Buffers!Uses, Buffers!Changes, Buffers!MayUse,
         Buffers!MayChange
    <2> QED
      BY <2>1, <2>2 DEF ChangesAlone
  <1>5. MutexesExclude'
    BY DEF Buffers!TypeOK, MutexesExclude, HeldShape, HeldBy
  <1>6. PointersAgree'
    BY DEF Buffers!TypeOK, OpShape, ChangesAlone, PointersAgree, RestAgrees,
       RebindPending, Pending, Rebinding, Buffers!Uses, Buffers!Changes
  <1>7. Buffers!AloneIsTrusted'
    BY DEF Buffers!TypeOK, OpShape, HeldShape, HeldBy, ChangesAlone,
       MutexesExclude,
       PointersAgree, RestAgrees, RebindPending, Pending, Rebinding,
       Buffers!AloneIsTrusted, Buffers!Locking, Buffers!IsShared, Buffers!Uses,
       Buffers!Changes
  <1> QED
    BY <1>1, <1>2, <1>3, <1>4, <1>5, <1>6, <1>7

LEMMA StartTransferKeeps ==
  ASSUME Buffers!ConstantsAssumption,
         HandlesInv, NEW t \in Owners, NEW d \in Handles, NEW s \in Handles,
         NEW kind \in Transfers, Buffers!StartTransfer(t, kind, d, s)
  PROVE  HandlesInv'
  <1> USE DEF HandlesInv, Buffers!StartTransfer, Buffers!Count, Buffers!Begin,
         Buffers!MayChange, Buffers!MayUse
  <1>1. Buffers!TypeOK'
    BY DEF Buffers!TypeOK, OpShape
  <1>2. OpShape'
    BY DEF Buffers!TypeOK, OpShape, ChangesAlone, Buffers!Uses, Buffers!Changes
  <1>3. HeldShape'
    BY DEF Buffers!TypeOK, OpShape, HeldShape, HeldBy, ChangesAlone,
       Buffers!Uses, Buffers!Changes
  <1>4. ChangesAlone'
    <2>0. \A u \in Owners \ {t} : op'[u] = op[u] /\ pc'[u] = pc[u]
      BY DEF Buffers!TypeOK
    <2>1. \A u \in Owners \ {t} : /\ Buffers!Uses(u)' = Buffers!Uses(u)
                                  /\ Buffers!Changes(u)' = Buffers!Changes(u)
      BY <2>0, UsesFollowOp
    <2>2. \A u \in Owners \ {t} : /\ Buffers!Changes(t)' \cap Buffers!Uses(u) = {}
                                  /\ Buffers!Changes(u) \cap Buffers!Uses(t)' = {}
      BY DEF Buffers!TypeOK, Buffers!Uses, Buffers!Changes, Buffers!MayUse,
         Buffers!MayChange
    <2> QED
      BY <2>1, <2>2 DEF ChangesAlone
  <1>5. MutexesExclude'
    BY DEF Buffers!TypeOK, MutexesExclude, HeldShape, HeldBy
  <1>6. PointersAgree'
    <2>1. CASE mutex[s] = None /\ mutex[d] = None
      <3>1. obj[d] = None
        BY <2>1 DEF PointersAgree, RestAgrees, Rebinding, Buffers!Uses,
           Buffers!Changes, Buffers!TypeOK
      <3>2. obj' = obj
        BY <2>1, <3>1 DEF Buffers!TypeOK
      <3> QED
        BY <2>1, <3>2 DEF PointersAgree, RestAgrees, RebindPending, Pending,
           Rebinding, Buffers!Uses, Buffers!Changes
    <2>2. CASE ~(mutex[s] = None /\ mutex[d] = None)
      BY <2>2 DEF Buffers!TypeOK, PointersAgree, RestAgrees, RebindPending,
         Pending,
         Rebinding, Buffers!Uses, Buffers!Changes
    <2> QED
      BY <2>1, <2>2
  <1>7. Buffers!AloneIsTrusted'
    BY DEF Buffers!TypeOK, OpShape, HeldShape, HeldBy, ChangesAlone,
       MutexesExclude,
       PointersAgree, RestAgrees, RebindPending, Pending, Rebinding,
       Buffers!AloneIsTrusted, Buffers!Locking, Buffers!IsShared, Buffers!Uses,
       Buffers!Changes
  <1> QED
    BY <1>1, <1>2, <1>3, <1>4, <1>5, <1>6, <1>7

LEMMA DestroyKeeps ==
  ASSUME Buffers!ConstantsAssumption,
         HandlesInv, NEW t \in Owners, NEW h \in Handles, Buffers!Destroy(t, h)
  PROVE  HandlesInv'
  <1> USE DEF HandlesInv, Buffers!Destroy, Buffers!Count, Buffers!MayChange
  <1>1. Buffers!TypeOK'
    BY DEF Buffers!TypeOK, OpShape
  <1>2. OpShape'
    BY DEF Buffers!TypeOK, OpShape, ChangesAlone, Buffers!Uses, Buffers!Changes
  <1>3. HeldShape'
    BY DEF Buffers!TypeOK, OpShape, HeldShape, HeldBy, ChangesAlone,
       Buffers!Uses, Buffers!Changes
  <1>4. ChangesAlone'
    <2>1. \A u \in Owners : /\ Buffers!Uses(u)' \subseteq Buffers!Uses(u)
                             /\ Buffers!Changes(u)' \subseteq Buffers!Changes(u)
      BY DEF Buffers!TypeOK, OpShape, Buffers!Uses, Buffers!Changes
    <2> QED
      BY <2>1 DEF ChangesAlone
  <1>5. MutexesExclude'
    BY DEF Buffers!TypeOK, MutexesExclude, HeldShape, HeldBy
  <1>6. PointersAgree'
    BY DEF Buffers!TypeOK, OpShape, ChangesAlone, PointersAgree, RestAgrees,
       RebindPending, Pending, Rebinding, Buffers!Uses, Buffers!Changes
  <1>7. Buffers!AloneIsTrusted'
    <2> SUFFICES ASSUME NEW u \in Owners, Buffers!Locking(u), ~told[u]
                 PROVE  ~Buffers!IsShared(op[u].src)'
      BY DEF Buffers!AloneIsTrusted, Buffers!Locking
    <2>1. /\ obj[op[u].src] # None /\ op[u].src \in Handles
          /\ u # t /\ op[u].src \in Buffers!Uses(u)
      BY InsideHolds DEF Buffers!Locking, Buffers!Inside
    <2>2. op[u].src # h
      BY <2>1
    <2> QED
      BY <2>1, <2>2 DEF Buffers!AloneIsTrusted, Buffers!IsShared, Buffers!TypeOK
  <1> QED
    BY <1>1, <1>2, <1>3, <1>4, <1>5, <1>6, <1>7

LEMMA EnterFirstKeeps ==
  ASSUME Buffers!ConstantsAssumption,
         HandlesInv, NEW t \in Owners, Buffers!EnterFirst(t)
  PROVE  HandlesInv'
  <1> USE DEF HandlesInv, Buffers!EnterFirst, Buffers!FreeToRead,
         Buffers!FreeToWrite, Buffers!NeedsSecond
  <1>1. Buffers!TypeOK'
    <2>1. mutex[op[t].src] \in Objects
      BY DEF Buffers!TypeOK, OpShape
    <2>2. told' \in [Owners -> BOOLEAN]
      BY DEF Buffers!TypeOK, Buffers!IsShared
    <2>3. /\ writing' \in [Owners -> SUBSET Objects]
          /\ reading' \in [Owners -> SUBSET Objects]
      BY <2>1 DEF Buffers!TypeOK
    <2> QED
      BY <2>2, <2>3 DEF Buffers!TypeOK
  <1>2. OpShape'
    BY DEF Buffers!TypeOK, OpShape, ChangesAlone, Buffers!Uses, Buffers!Changes
  <1>3. HeldShape'
    BY DEF Buffers!TypeOK, OpShape, HeldShape, HeldBy, ChangesAlone,
       Buffers!Uses, Buffers!Changes
  <1>4. ChangesAlone'
    <2>1. \A u \in Owners : /\ Buffers!Uses(u)' \subseteq Buffers!Uses(u)
                             /\ Buffers!Changes(u)' \subseteq Buffers!Changes(u)
      BY DEF Buffers!TypeOK, OpShape, Buffers!Uses, Buffers!Changes
    <2> QED
      BY <2>1 DEF ChangesAlone
  <1>5. MutexesExclude'
    BY DEF Buffers!TypeOK, MutexesExclude, HeldShape, HeldBy
  <1>6. PointersAgree'
    BY DEF Buffers!TypeOK, OpShape, ChangesAlone, PointersAgree, RestAgrees,
       RebindPending, Pending, Rebinding, Buffers!Uses, Buffers!Changes
  <1>7. Buffers!AloneIsTrusted'
    BY DEF Buffers!TypeOK, OpShape, HeldShape, HeldBy, ChangesAlone,
       MutexesExclude,
       PointersAgree, RestAgrees, RebindPending, Pending, Rebinding,
       Buffers!AloneIsTrusted, Buffers!Locking, Buffers!IsShared, Buffers!Uses,
       Buffers!Changes
  <1> QED
    BY <1>1, <1>2, <1>3, <1>4, <1>5, <1>6, <1>7

LEMMA EnterSecondKeeps ==
  ASSUME Buffers!ConstantsAssumption,
         HandlesInv, NEW t \in Owners, Buffers!EnterSecond(t)
  PROVE  HandlesInv'
  <1> USE DEF HandlesInv, Buffers!EnterSecond, Buffers!FreeToWrite
  <1>1. Buffers!TypeOK'
    BY DEF Buffers!TypeOK, OpShape
  <1>2. OpShape'
    BY DEF Buffers!TypeOK, OpShape, ChangesAlone, Buffers!Uses, Buffers!Changes
  <1>3. HeldShape'
    BY DEF Buffers!TypeOK, OpShape, HeldShape, HeldBy, ChangesAlone,
       Buffers!Uses, Buffers!Changes
  <1>4. ChangesAlone'
    <2>1. \A u \in Owners : /\ Buffers!Uses(u)' \subseteq Buffers!Uses(u)
                             /\ Buffers!Changes(u)' \subseteq Buffers!Changes(u)
      BY DEF Buffers!TypeOK, OpShape, Buffers!Uses, Buffers!Changes
    <2> QED
      BY <2>1 DEF ChangesAlone
  <1>5. MutexesExclude'
    BY DEF Buffers!TypeOK, MutexesExclude, HeldShape, HeldBy
  <1>6. PointersAgree'
    BY DEF Buffers!TypeOK, OpShape, ChangesAlone, PointersAgree, RestAgrees,
       RebindPending, Pending, Rebinding, Buffers!Uses, Buffers!Changes
  <1>7. Buffers!AloneIsTrusted'
    BY DEF Buffers!TypeOK, OpShape, HeldShape, HeldBy, ChangesAlone,
       MutexesExclude,
       PointersAgree, RestAgrees, RebindPending, Pending, Rebinding,
       Buffers!AloneIsTrusted, Buffers!Locking, Buffers!IsShared, Buffers!Uses,
       Buffers!Changes
  <1> QED
    BY <1>1, <1>2, <1>3, <1>4, <1>5, <1>6, <1>7

LEMMA EnterSecondRefusedKeeps ==
  ASSUME Buffers!ConstantsAssumption,
         HandlesInv, NEW t \in Owners, Buffers!EnterSecondRefused(t)
  PROVE  HandlesInv'
  <1> USE DEF HandlesInv, Buffers!EnterSecondRefused, Buffers!Finish
  <1>1. Buffers!TypeOK'
    BY DEF Buffers!TypeOK, OpShape
  <1>2. OpShape'
    BY DEF Buffers!TypeOK, OpShape, ChangesAlone, Buffers!Uses, Buffers!Changes
  <1>3. HeldShape'
    BY DEF Buffers!TypeOK, OpShape, HeldShape, HeldBy, ChangesAlone,
       Buffers!Uses, Buffers!Changes
  <1>4. ChangesAlone'
    <2>1. \A u \in Owners : /\ Buffers!Uses(u)' \subseteq Buffers!Uses(u)
                             /\ Buffers!Changes(u)' \subseteq Buffers!Changes(u)
      BY DEF Buffers!TypeOK, OpShape, Buffers!Uses, Buffers!Changes
    <2> QED
      BY <2>1 DEF ChangesAlone
  <1>5. MutexesExclude'
    BY DEF Buffers!TypeOK, MutexesExclude, HeldShape, HeldBy
  <1>6. PointersAgree'
    BY DEF Buffers!TypeOK, OpShape, ChangesAlone, PointersAgree, RestAgrees,
       RebindPending, Pending, Rebinding, Buffers!Uses, Buffers!Changes
  <1>7. Buffers!AloneIsTrusted'
    BY DEF Buffers!TypeOK, OpShape, HeldShape, HeldBy, ChangesAlone,
       MutexesExclude,
       PointersAgree, RestAgrees, RebindPending, Pending, Rebinding,
       Buffers!AloneIsTrusted, Buffers!Locking, Buffers!IsShared, Buffers!Uses,
       Buffers!Changes
  <1> QED
    BY <1>1, <1>2, <1>3, <1>4, <1>5, <1>6, <1>7

LEMMA LeaveKeeps ==
  ASSUME Buffers!ConstantsAssumption,
         HandlesInv, NEW t \in Owners, Buffers!Leave(t)
  PROVE  HandlesInv'
  <1> USE DEF HandlesInv, Buffers!Leave, Buffers!Moved, Buffers!Finish
  <1>1. Buffers!TypeOK'
    BY DEF Buffers!TypeOK, OpShape
  <1>2. OpShape'
    BY DEF Buffers!TypeOK, OpShape, ChangesAlone, Buffers!Uses, Buffers!Changes
  <1>3. HeldShape'
    BY DEF Buffers!TypeOK, OpShape, HeldShape, HeldBy, ChangesAlone,
       Buffers!Uses, Buffers!Changes
  <1>4. ChangesAlone'
    <2>1. \A u \in Owners : /\ Buffers!Uses(u)' \subseteq Buffers!Uses(u)
                             /\ Buffers!Changes(u)' \subseteq Buffers!Changes(u)
      BY DEF Buffers!TypeOK, OpShape, Buffers!Uses, Buffers!Changes
    <2> QED
      BY <2>1 DEF ChangesAlone
  <1>5. MutexesExclude'
    BY DEF Buffers!TypeOK, MutexesExclude, HeldShape, HeldBy
  <1>6. PointersAgree'
    <2>1. CASE op[t].kind \in Locks
      <3>1. obj' = obj /\ mutex' = mutex
        BY <2>1
      <3>2. \A u \in Owners : pc'[u] = "rebind" <=> pc[u] = "rebind"
        BY <2>1 DEF Buffers!TypeOK
      <3>3. \A u \in Owners : pc[u] = "rebind" =>
                 op'[u] = op[u] /\ Buffers!Changes(u)' = Buffers!Changes(u)
        BY <2>1 DEF Buffers!TypeOK, Buffers!Changes, Buffers!Uses
      <3>4. \A g \in Handles : Rebinding(g)' <=> Rebinding(g)
        BY <3>2, <3>3 DEF Rebinding
      <3>5. RestAgrees'
        BY <3>1, <3>4 DEF PointersAgree, RestAgrees
      <3>6. RebindPending'
        BY <3>1, <3>2, <3>3 DEF PointersAgree, RebindPending, Pending
      <3> QED
        BY <3>5, <3>6 DEF PointersAgree
    <2>2. CASE op[t].kind \notin Locks
      <3>1. /\ op' = op /\ mutex' = mutex
            /\ pc' = [pc EXCEPT ![t] = "rebind"]
        BY <2>2
      <3>2. \A u \in Owners : Buffers!Changes(u)' = Buffers!Changes(u)
        BY <3>1 DEF Buffers!TypeOK, Buffers!Changes, Buffers!Uses
      <3>3. \A g \in Handles :
               Rebinding(g)' <=> Rebinding(g) \/ g \in Buffers!Changes(t)
        BY <3>1, <3>2 DEF Rebinding, Buffers!TypeOK
      <3>4. \A g \in Handles \ Buffers!Changes(t) : obj'[g] = obj[g]
        BY <2>2 DEF OpShape, Buffers!TypeOK, Buffers!Changes, Buffers!Uses
      <3>5. \A u \in Owners \ {t} :
               pc[u] = "rebind"
               => {op[u].src, op[u].dst} \subseteq Handles \ Buffers!Changes(t)
        BY DEF OpShape, ChangesAlone, Buffers!Uses
      <3>6. mutex[op[t].src] = obj[op[t].src]
        BY DEF PointersAgree, RestAgrees, RebindPending, Pending, Rebinding,
           ChangesAlone, Buffers!Uses, Buffers!Changes, OpShape
      <3>7. /\ op[t].kind = "copy"  => obj'[op[t].dst] = mutex[op[t].src]
            /\ op[t].kind = "move"  => /\ obj'[op[t].dst] = mutex[op[t].src]
                                       /\ obj'[op[t].src] = None
            /\ op[t].kind = "reset" => obj'[op[t].dst] = None
        BY <3>6 DEF OpShape, Buffers!TypeOK
      <3>8. RestAgrees'
        BY <3>1, <3>3, <3>4 DEF PointersAgree, RestAgrees
      <3>9. RebindPending'
        <4>1. Pending(t)'
          BY <3>1, <3>7 DEF Pending
        <4>2. ASSUME NEW u \in Owners \ {t}, pc[u] = "rebind"
              PROVE  Pending(u)'
          <5>1. /\ op'[u] = op[u] /\ obj'[op[u].src] = obj[op[u].src]
                /\ obj'[op[u].dst] = obj[op[u].dst]
            BY <4>2, <3>1, <3>4, <3>5
          <5> QED
            BY <4>2, <5>1, <3>1 DEF PointersAgree, RebindPending, Pending
        <4>3. \A u \in Owners \ {t} : pc'[u] = pc[u]
          BY <3>1 DEF Buffers!TypeOK
        <4> QED
          BY <4>1, <4>2, <4>3 DEF RebindPending
      <3> QED
        BY <3>8, <3>9 DEF PointersAgree
    <2> QED
      BY <2>1, <2>2
  <1>7. Buffers!AloneIsTrusted'
    <2> SUFFICES ASSUME NEW u \in Owners, Buffers!Locking(u)', ~told'[u],
                        NEW g \in Handles \ {op'[u].src}
                 PROVE  obj'[g] # obj'[op'[u].src]
      BY DEF Buffers!AloneIsTrusted, Buffers!IsShared
    <2>1. u # t /\ Buffers!Locking(u) /\ ~told[u] /\ op'[u] = op[u]
      BY DEF Buffers!Locking, Buffers!TypeOK
    <2> DEFINE h == op[u].src
    <2>2. /\ h \in Handles /\ h \notin Buffers!Changes(t) /\ mutex[h] = obj[h]
          /\ obj[h] \in writing[u] /\ obj[h] # None
      BY <2>1, InsideHolds DEF Buffers!Locking, Buffers!Inside, ChangesAlone
    <2>3. \A k \in Handles \ {h} : obj[k] # obj[h]
      BY <2>1 DEF Buffers!AloneIsTrusted, Buffers!IsShared
    <2>4. obj'[h] = obj[h]
      BY <2>2 DEF Buffers!Changes, Buffers!Uses, OpShape, Buffers!TypeOK
    <2>5. op[t].kind \in Transfers => op[t].src # h
      <3>1. op[t].kind \in Transfers => mutex[op[t].src] \in writing[t]
        BY DEF HeldShape, HeldBy
      <3> QED
        BY <3>1, <2>1, <2>2 DEF MutexesExclude
    <2>6. \/ obj'[g] \in {obj[g], None}
          \/ op[t].kind \in Transfers /\ obj'[g] = obj[op[t].src]
      BY DEF OpShape, Buffers!TypeOK
    <2> QED
      BY <2>1, <2>2, <2>3, <2>4, <2>5, <2>6 DEF OpShape
  <1> QED
    BY <1>1, <1>2, <1>3, <1>4, <1>5, <1>6, <1>7

LEMMA RebindKeeps ==
  ASSUME Buffers!ConstantsAssumption,
         HandlesInv, NEW t \in Owners, Buffers!Rebind(t)
  PROVE  HandlesInv'
  <1> USE DEF HandlesInv, Buffers!Rebind, Buffers!Rebound, Buffers!Finish
  <1>1. Buffers!TypeOK'
    BY DEF Buffers!TypeOK, OpShape
  <1>0. /\ pc'[t] = "idle" /\ op'[t] = None
        /\ \A u \in Owners \ {t} : op'[u] = op[u] /\ pc'[u] = pc[u]
    BY DEF Buffers!TypeOK
  <1>own. op[t] \in Buffers!Ops /\ Buffers!Changes(t) \subseteq Handles
    BY DEF OpShape, Buffers!Changes, Buffers!Uses
  <1>rest. \A g \in Handles \ Buffers!Changes(t) : mutex'[g] = mutex[g]
    BY <1>own DEF OpShape, Buffers!TypeOK, Buffers!Changes, Buffers!Uses
  <1>others. ASSUME NEW u \in Owners \ {t}, Buffers!Busy(u)
        PROVE  /\ op[u] \in Buffers!Ops
               /\ {op[u].src, op[u].dst} \subseteq Handles \ Buffers!Changes(t)
               /\ mutex'[op[u].src] = mutex[op[u].src]
               /\ mutex'[op[u].dst] = mutex[op[u].dst]
    <2>1. op[u] \in Buffers!Ops
      BY <1>others DEF OpShape
    <2>2. {op[u].src, op[u].dst} \subseteq Handles \ Buffers!Changes(t)
      BY <1>others, <2>1 DEF ChangesAlone, Buffers!Uses
    <2> QED
      BY <2>1, <2>2, <1>rest
  <1>2. OpShape'
    <2>1. ASSUME NEW u \in Owners \ {t}, Buffers!Busy(u)
          PROVE  /\ op[u] \in Buffers!Ops
                 /\ mutex'[op[u].src] # None
                 /\ op[u].kind \in Transfers <=> op[u].dst # op[u].src
                 /\ pc[u] = "second" => /\ op[u].kind \in Transfers
                                        /\ mutex'[op[u].dst] # None
                 /\ pc[u] = "rebind" => op[u].kind \notin Locks
      BY <2>1, <1>others DEF OpShape
    <2>2. \A u \in Owners \ {t} : ~Buffers!Busy(u) => op[u] = None
      BY DEF OpShape
    <2> HIDE DEF Buffers!Rebind, Buffers!Rebound, Buffers!Finish, HandlesInv
    <2> QED
      BY <1>0, <2>1, <2>2 DEF OpShape
  <1>3. HeldShape'
    <2>1. writing' = writing /\ reading' = reading
      OBVIOUS
    <2>2. \A u \in Owners \ {t} :
             /\ op'[u] = op[u] /\ pc'[u] = pc[u]
             /\ Buffers!Busy(u) => /\ mutex'[op[u].src] = mutex[op[u].src]
                           /\ mutex'[op[u].dst] = mutex[op[u].dst]
      BY <1>0, <1>others
    <2>3. pc'[t] = "idle" /\ writing[t] = {} /\ reading[t] = {}
      BY DEF Buffers!TypeOK, HeldShape, HeldBy
    <2>4. HeldBy(t)'
      BY <2>1, <2>3 DEF HeldBy
    <2>5. ASSUME NEW u \in Owners \ {t} PROVE HeldBy(u)'
      <3>1. CASE Buffers!Busy(u)
        <4>1. /\ op'[u] = op[u] /\ pc'[u] = pc[u]
              /\ mutex'[op[u].src] = mutex[op[u].src]
              /\ mutex'[op[u].dst] = mutex[op[u].dst]
          BY <2>2, <3>1
        <4>2. writing'[u] = writing[u] /\ reading'[u] = reading[u] /\ HeldBy(u)
          BY <2>1 DEF HeldShape
        <4> QED
          BY <4>1, <4>2 DEF HeldBy
      <3>2. CASE ~Buffers!Busy(u)
        BY <2>1, <2>2, <3>2 DEF HeldShape, HeldBy
      <3> QED
        BY <3>1, <3>2
    <2> QED
      BY <2>4, <2>5 DEF HeldShape
  <1>4. ChangesAlone'
    <2>1. \A u \in Owners : /\ Buffers!Uses(u)' \subseteq Buffers!Uses(u)
                             /\ Buffers!Changes(u)' \subseteq Buffers!Changes(u)
      BY DEF Buffers!TypeOK, OpShape, Buffers!Uses, Buffers!Changes
    <2> QED
      BY <2>1 DEF ChangesAlone
  <1>5. MutexesExclude'
    BY DEF Buffers!TypeOK, MutexesExclude, HeldShape, HeldBy
  <1>6. PointersAgree'
    <2>1. /\ obj' = obj
          /\ \A u \in Owners \ {t} : /\ op'[u] = op[u] /\ pc'[u] = pc[u]
                                     /\ Buffers!Changes(u)' = Buffers!Changes(u)
      BY <1>0, UsesFollowOp
    <2>2. pc'[t] = "idle" /\ Buffers!Changes(t)' = {}
      BY <1>0 DEF Buffers!Changes, Buffers!Uses
    <2>3. \A g \in Handles : Rebinding(g) /\ ~Rebinding(g)' => g \in Buffers!Changes(t)
      BY <2>1 DEF Rebinding
    <2>6. \A g \in Buffers!Changes(t) : mutex'[g] = obj[g]
      BY DEF PointersAgree, RebindPending, Pending, OpShape, Buffers!TypeOK,
         Buffers!Changes,
         Buffers!Uses
    <2>8. \A g \in Handles : ~Rebinding(g)' => mutex'[g] = obj[g]
      BY <2>3, <1>rest, <2>6 DEF PointersAgree, RestAgrees
    <2>9. RestAgrees'
      BY <2>1, <2>8 DEF RestAgrees
    <2>10. RebindPending'
      <3>1. ASSUME NEW u \in Owners \ {t}, pc[u] = "rebind"
            PROVE  Pending(u)'
        <4>1. mutex'[op[u].src] = mutex[op[u].src]
          BY <3>1, <1>others
        <4>2. Pending(u)
          BY <3>1 DEF PointersAgree, RebindPending
        <4>3. op'[u] = op[u] /\ obj' = obj
          BY <2>1
        <4> HIDE DEF HandlesInv, Buffers!Rebind, Buffers!Rebound, Buffers!Finish
        <4> QED
          BY <4>1, <4>2, <4>3 DEF Pending
      <3> QED
        BY <3>1, <2>1, <2>2 DEF RebindPending
    <2> QED
      BY <2>9, <2>10 DEF PointersAgree
  <1>7. Buffers!AloneIsTrusted'
    BY DEF Buffers!TypeOK, OpShape, HeldShape, HeldBy, ChangesAlone,
       MutexesExclude,
       PointersAgree, RestAgrees, RebindPending, Pending, Rebinding,
       Buffers!AloneIsTrusted, Buffers!Locking, Buffers!IsShared, Buffers!Uses,
       Buffers!Changes
  <1> QED
    BY <1>1, <1>2, <1>3, <1>4, <1>5, <1>6, <1>7

LEMMA HandlesInvInitially ==
  ASSUME Buffers!ConstantsAssumption
  PROVE  Buffers!Init => HandlesInv
  BY DEF Buffers!Init, HandlesInv, Buffers!TypeOK, OpShape, HeldShape, HeldBy,
     ChangesAlone,
     MutexesExclude,
         PointersAgree, RestAgrees, RebindPending, Pending, Rebinding,
         Buffers!AloneIsTrusted,
         Buffers!Locking, Buffers!Uses, Buffers!Changes

LEMMA HandlesInvStutters ==
  ASSUME Buffers!ConstantsAssumption
  PROVE  HandlesInv /\ UNCHANGED Buffers!vars => HandlesInv'
  <1> SUFFICES ASSUME HandlesInv, UNCHANGED Buffers!vars PROVE HandlesInv'
    OBVIOUS
  <1> USE DEF Buffers!vars, HandlesInv
  <1>1. Buffers!TypeOK' /\ OpShape' /\ MutexesExclude'
    BY DEF Buffers!TypeOK, OpShape, MutexesExclude
  <1>2. HeldShape'
    BY DEF HeldShape, HeldBy
  <1>3. ChangesAlone' /\ PointersAgree'
    BY DEF ChangesAlone, PointersAgree, RestAgrees, RebindPending, Pending,
       Rebinding,
           Buffers!Uses, Buffers!Changes
  <1>4. Buffers!AloneIsTrusted'
    BY DEF Buffers!AloneIsTrusted, Buffers!Locking, Buffers!IsShared
  <1> QED
    BY <1>1, <1>2, <1>3, <1>4

\* The invariant is inductive.
LEMMA HandlesInvInductive ==
  ASSUME Buffers!ConstantsAssumption
  PROVE  HandlesInv /\ [Buffers!Next]_(Buffers!vars) => HandlesInv'
  <1>1. ASSUME HandlesInv, NEW t \in Owners, Buffers!Start(t) PROVE HandlesInv'
    BY <1>1, CreateWithKeeps, StartResetKeeps, DestroyKeeps, StartLockKeeps,
       StartTransferKeeps DEF Buffers!Start
  <1>2. ASSUME HandlesInv, NEW t \in Owners, Buffers!Step(t) PROVE HandlesInv'
    BY <1>2, EnterFirstKeeps, EnterSecondKeeps, EnterSecondRefusedKeeps,
       LeaveKeeps, RebindKeeps DEF Buffers!Step
  <1> QED
    BY <1>1, <1>2, HandlesInvStutters DEF Buffers!Next

\* The types of the handles, operations and mutexes (ProtectedBuffer).
THEOREM HandlesTypeCorrect ==
  ASSUME Buffers!ConstantsAssumption
  PROVE  Buffers!Spec => []Buffers!TypeOK
  BY HandlesInvInitially, HandlesInvInductive, PTL DEF Buffers!Spec, HandlesInv

\* For any number of threads and handles, a thread that lock() told it is
\* the only owner of the object is its only owner until its function ends
\* (ProtectedBuffer::lock, the copies and moves of the handles).
THEOREM OwnersAreTold ==
  ASSUME Buffers!ConstantsAssumption
  PROVE  Buffers!Spec => []Buffers!AloneIsTrusted
  BY HandlesInvInitially, HandlesInvInductive, PTL DEF Buffers!Spec, HandlesInv

\* For any number of threads and handles, nobody is inside lock() or
\* lock_shared() on the object lock() is working on, whatever handle the
\* other came through.
THEOREM WritersAlone ==
  ASSUME Buffers!ConstantsAssumption
  PROVE  Buffers!Spec => []Buffers!WriterIsAlone
  <1>1. HandlesInv => Buffers!WriterIsAlone
    <2> SUFFICES ASSUME HandlesInv, NEW t \in Owners, NEW u \in Owners, t # u,
                        Buffers!Locking(t), Buffers!Inside(u)
                 PROVE  obj[op[t].src] # obj[op[u].src]
      BY DEF Buffers!WriterIsAlone
    <2>1. obj[op[t].src] \in writing[t]
      BY InsideHolds DEF Buffers!Locking, Buffers!Inside
    <2>2. obj[op[u].src] \in writing[u] \cup reading[u]
      BY InsideHolds
    <2> QED
      BY <2>1, <2>2 DEF HandlesInv, MutexesExclude
  <1> QED
    BY <1>1, HandlesInvInitially, HandlesInvInductive, PTL DEF Buffers!Spec

\* For any number of threads and handles, every handle at rest has the mutex
\* its object was created with.
THEOREM MutexFollowsObject ==
  ASSUME Buffers!ConstantsAssumption
  PROVE  Buffers!Spec => []Buffers!OneMutexPerObject
  <1>1. HandlesInv => Buffers!OneMutexPerObject
    BY DEF HandlesInv, PointersAgree, RestAgrees, RebindPending, Pending,
       Rebinding,
       Buffers!OneMutexPerObject
  <1> QED
    BY <1>1, HandlesInvInitially, HandlesInvInductive, PTL DEF Buffers!Spec

\* For any number of threads and handles, a mutex is not deleted while it is
\* held.
THEOREM MutexOutlivesHolder ==
  ASSUME Buffers!ConstantsAssumption
  PROVE  Buffers!Spec => []Buffers!HeldMutexIsAlive
  <1>1. HandlesInv => Buffers!HeldMutexIsAlive
    <2> SUFFICES ASSUME HandlesInv, NEW t \in Owners,
                        NEW m \in writing[t] \cup reading[t]
                 PROVE  \E h \in Handles : mutex[h] = m
      BY DEF Buffers!HeldMutexIsAlive
    <2>1. Buffers!Busy(t) /\ op[t].src \in Handles /\ op[t].dst \in Handles
      BY DEF HandlesInv, Buffers!TypeOK, HeldShape, HeldBy, OpShape
    <2>2. m \in {mutex[op[t].src], mutex[op[t].dst]}
      BY DEF HandlesInv, Buffers!TypeOK, HeldShape, HeldBy
    <2> QED
      BY <2>1, <2>2
  <1> QED
    BY <1>1, HandlesInvInitially, HandlesInvInductive, PTL DEF Buffers!Spec
=============================================================================

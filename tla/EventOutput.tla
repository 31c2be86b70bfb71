----------------------------- MODULE EventOutput -----------------------------
(***************************************************************************)
(* The event outputs of EventQueue.hpp and the events of StreamNode.hpp that *)
(* go through them: from the thread of the dataflow and from the handlers of  *)
(* the event thread, to one subscriber, to several or to the application,    *)
(* synchronously or through the queue, with the blocks of the pool that lists  *)
(* of values live in.                                                        *)
(*                                                                         *)
(* The queue is the abstract one that EventQueue implements: push() and the  *)
(* taking of an event are one step each.  Its priorities and the time to live  *)
(* are left to EventQueue.                                                  *)
(***************************************************************************)
EXTENDS Naturals, FiniteSets, SequencesExt

CONSTANTS
  Platforms,     (* records [lists, waits]: how many blocks the pool has, and  *)
                 (* whether an allocation waits for one                      *)
  Subscribers,   (* mNodes of each output                                    *)
  OutputsOf,     (* the outputs of the nodes that are subscribed             *)
  StreamOutputs, (* the outputs of the nodes that run in the dataflow         *)
  ListOutputs,   (* the outputs whose events carry several values            *)
  Capacity,      (* the slots of the queue                                   *)
  MaxDepth       (* bound on the nesting of handlers and sends               *)

Outputs == DOMAIN Subscribers
Nodes == DOMAIN OutputsOf

ASSUME EventOutputAssumption ==
  /\ \A p \in Platforms : p.lists \in Nat /\ p.waits \in BOOLEAN
  /\ Subscribers \in [Outputs -> Seq(Nodes)]
  /\ OutputsOf \in [Nodes -> SUBSET Outputs]
  /\ StreamOutputs \subseteq Outputs /\ "app" \in Outputs
  /\ Capacity \in Nat \ {0} /\ MaxDepth \in Nat \ {0}

VARIABLES
  platform,
  free,       (* how many blocks of the pool hold no list                   *)
  queue,      (* messages: destination, event, and, for the properties, for   *)
              (* which subscriber of the chosen send it is, or 0             *)
  mustPause, mustEnd,
  stack,      (* the calls in progress of each thread: sends and handlers   *)
  probe       (* for the properties: what became of one chosen send         *)

vars == <<platform, free, queue, mustPause, mustEnd, stack, probe>>

Stream == "stream"
Events == "events"
Threads == {Stream, Events}
App == "app"

(* An event has an id, and may have a list of values in a block.  kNoEvent is  *)
(* the id of an event that has been moved away or could not be made.        *)
kNoEvent == "kNoEvent"
Ids == {"probe", "other"}
Nothing == [id |-> kNoEvent, list |-> FALSE]

Probed(out) == [state |-> "sending", out |-> out,
                got |-> [i \in DOMAIN Subscribers[out] |-> 0]]

NoProbe == [state |-> "unused", out |-> App, got |-> << >>]

Init ==
  /\ platform \in Platforms
  /\ free = platform.lists
  /\ queue = << >> /\ mustPause = FALSE /\ mustEnd = FALSE
  /\ stack = [t \in Threads |-> << >>]
  /\ probe = NoProbe

Top(t) == Last(stack[t])
Sending(t, at) == /\ stack[t] # << >>
                  /\ Top(t).kind = "send" /\ Top(t).at = at
Handling(t) == stack[t] # << >> /\ Top(t).kind = "handler"
Replace(t, frame) == stack' = [stack EXCEPT ![t] = Append(Front(@), frame)]
Call(t, frame) == stack' = [stack EXCEPT ![t] = Append(@, frame)]
CallFrom(t, caller, frame) ==
  stack' = [stack EXCEPT ![t] = Append(Append(Front(@), caller), frame)]
Subs(t) == Subscribers[Top(t).out]
Single(t) == Len(Subs(t)) = 1
-----------------------------------------------------------------------------
(* make_new_list_value(): a block, or none when the pool is empty and the    *)
(* platform does not wait.  The event that may be made, and the blocks left.  *)
Obtained(id) ==
  IF free > 0 THEN { [evt |-> [id |-> id, list |-> TRUE], left |-> free - 1] }
  ELSE IF platform.waits THEN {}
  ELSE { [evt |-> Nothing, left |-> 0] }

Lists(events) == Cardinality({ k \in DOMAIN events : events[k].list })

(* ~Event(): list_value_deleter() gives the block back.                     *)
Destroy(events) == free' = free + Lists(events)

(* The chosen send is over: what its caller is told.                        *)
Told(frame, ok) ==
  IF frame.probe THEN [probe EXCEPT !.state = IF ok THEN "accepted" ELSE "refused"]
  ELSE probe

(* A send returns, and its event is destroyed.                               *)
Return(t, ok) ==
  /\ stack' = [stack EXCEPT ![t] = Front(@)]
  /\ Destroy(<<Top(t).evt, Top(t).copy>>)
  /\ probe' = Told(Top(t), ok)
-----------------------------------------------------------------------------
(* No copy of the chosen event is on its way: another send may be chosen.   *)
Copies(i) ==
  probe.got[i] +
    Cardinality({ k \in DOMAIN queue : queue[k].nth = i })
Settled ==
  /\ probe.state # "sending"
  /\ \A k \in DOMAIN queue : queue[k].nth = 0

Senders(t) ==
  IF t = Stream
  THEN IF stack[t] = << >> THEN StreamOutputs ELSE {}
  ELSE IF Handling(t) /\ ~Top(t).sent /\ Len(stack[t]) < MaxDepth
       THEN OutputsOf[Top(t).node]
       ELSE {}

SendFrame(out, mode, evt, at, chosen) ==
  [kind |-> "send", out |-> out, mode |-> mode, evt |-> evt, copy |-> Nothing,
   next |-> 1, at |-> at, probe |-> chosen]

Begin(t, frame) ==
  IF t = Stream THEN Call(t, frame)
  ELSE CallFrom(t, [Top(t) EXCEPT !.sent = TRUE], frame)

(* sendSync(), sendAsync(), sendSyncToApp() and sendAsyncToApp() with one    *)
(* value or several.  A node sends synchronously from its handler only.  The  *)
(* last one looks at mustEnd before it makes the event.                      *)
Send(t) ==
  \E out \in Senders(t), mode \in {"sync", "async"}, id \in Ids :
    /\ t = Stream => mode = "async"
    /\ id = "probe" => Settled
    /\ probe' = CASE id = "probe" -> Probed(out)
                  [] id # "probe" /\ Settled -> NoProbe
                  [] OTHER -> probe
    /\ Begin(t, SendFrame(out, mode, [id |-> id, list |-> FALSE],
                          IF out = App /\ mode = "async" /\ mustEnd THEN "fail"
                          ELSE IF out \in ListOutputs THEN "create" ELSE "test",
                          id = "probe"))
    /\ UNCHANGED <<platform, free, queue, mustPause, mustEnd>>

(* sendAsync(Event &&): a handler sends on the event it was given, as long   *)
(* as apply() has not taken the values out of it.                            *)
Forward(t) ==
  /\ Handling(t) /\ Top(t).evt.id # kNoEvent /\ ~Top(t).applied
  /\ \E out \in Senders(t) \ {App} :
       CallFrom(t, [Top(t) EXCEPT !.sent = TRUE, !.evt = Nothing],
                SendFrame(out, "async", Top(t).evt, "test", FALSE))
  /\ UNCHANGED <<platform, free, queue, mustPause, mustEnd, probe>>

(* Event(selector, priority, args...) with more than one value.             *)
Create(t) ==
  /\ Sending(t, "create")
  /\ \E o \in Obtained(Top(t).evt.id) :
       Replace(t, [Top(t) EXCEPT !.evt = o.evt, !.at = "test"]) /\ free' = o.left
  /\ UNCHANGED <<platform, queue, mustPause, mustEnd, probe>>

(* Nothing goes out when the queue ends; nothing needs to without an event.  *)
(* sendAsyncToApp() and sendSyncToApp() do not make these tests.             *)
Test(t) ==
  /\ \/ Sending(t, "test")
     \/ Sending(t, "fail")
  /\ LET f == Top(t) IN
     IF \/ f.at = "fail"
        \/ f.out # App /\ f.mode = "async" /\ mustEnd
     THEN Return(t, FALSE)
     ELSE IF f.out # App /\ f.evt.id = kNoEvent
     THEN Return(t, TRUE)
     ELSE /\ Replace(t, [f EXCEPT !.at = "each"])
          /\ UNCHANGED <<free, probe>>
  /\ UNCHANGED <<platform, queue, mustPause, mustEnd>>

(* Mutant: the copy has the list of the original.                           *)
CloneShares(t) ==
  /\ Sending(t, "each") /\ Top(t).next <= Len(Subs(t))
  /\ Replace(t, [Top(t) EXCEPT !.copy = Top(t).evt, !.at = "give"])
  /\ UNCHANGED <<platform, free, queue, mustPause, mustEnd, probe>>

(* The event is moved to a single subscriber and cloned for each of several:  *)
(* copyFrom() makes a new list, or an event kNoEvent.                        *)
Clone(t) ==
  /\ Sending(t, "each") /\ Top(t).next <= Len(Subs(t))
  /\ LET f == Top(t)
         given(e) == [f EXCEPT !.copy = e, !.at = "give"]
     IN IF Single(t)
        THEN /\ Replace(t, [given(f.evt) EXCEPT !.evt = Nothing])
             /\ UNCHANGED free
        ELSE IF ~f.evt.list
        THEN Replace(t, given(f.evt)) /\ UNCHANGED free
        ELSE \E o \in Obtained(f.evt.id) :
               Replace(t, given(o.evt)) /\ free' = o.left
  /\ UNCHANGED <<platform, queue, mustPause, mustEnd, probe>>

AllServed(t) ==
  /\ Sending(t, "each") /\ Top(t).next > Len(Subs(t))
  /\ Return(t, TRUE)
  /\ UNCHANGED <<platform, queue, mustPause, mustEnd>>

Full == Len(queue) = Capacity
Refuses == mustPause \/ mustEnd \/ Full
Message(t) == [dst |-> Subs(t)[Top(t).next], evt |-> Top(t).copy,
               nth |-> IF Top(t).probe THEN Top(t).next ELSE 0]

(* Mutant: a refusal is for one subscriber, the others are still served.    *)
PushGoesOn(t) ==
  /\ Sending(t, "give") /\ Top(t).mode = "async"
  /\ Replace(t, [Top(t) EXCEPT !.copy = Nothing, !.at = "each", !.next = @ + 1])
  /\ IF Refuses
     THEN Destroy(<<Top(t).copy>>) /\ UNCHANGED queue
     ELSE queue' = Append(queue, Message(t)) /\ UNCHANGED free
  /\ UNCHANGED <<platform, mustPause, mustEnd, probe>>

(* push() moves the event into a message, and a refused message dies with    *)
(* it.  The first refusal ends the send.  On posix an overflow pauses the    *)
(* queue as well, which pause below may do at any time.                     *)
Push(t) ==
  /\ Sending(t, "give") /\ Top(t).mode = "async"
  /\ IF Refuses
     THEN Return(t, FALSE) /\ UNCHANGED queue
     ELSE /\ queue' = Append(queue, Message(t))
          /\ Replace(t, [Top(t) EXCEPT !.copy = Nothing, !.at = "each",
                                       !.next = @ + 1])
          /\ UNCHANGED <<free, probe>>
  /\ UNCHANGED <<platform, mustPause, mustEnd>>
-----------------------------------------------------------------------------
HandlerFrame(node, evt) ==
  [kind |-> "handler", node |-> node, evt |-> evt, sent |-> FALSE,
   applied |-> FALSE]

Reaches(nth) ==
  IF nth = 0 THEN probe ELSE [probe EXCEPT !.got[nth] = @ + 1]

(* processEvent() of the subscriber, or the handler of the application, is  *)
(* called by the sender itself.                                             *)
CallSubscriber(t) ==
  /\ Sending(t, "give") /\ Top(t).mode = "sync"
  /\ CallFrom(t, [Top(t) EXCEPT !.copy = Nothing],
              HandlerFrame(Message(t).dst, Message(t).evt))
  /\ probe' = Reaches(Message(t).nth)
  /\ UNCHANGED <<platform, free, queue, mustPause, mustEnd>>

(* execute(): the event thread takes a message.  callAsyncHandler() refuses   *)
(* it when the queue ends.                                                  *)
Execute ==
  /\ stack[Events] = << >> /\ queue # << >> /\ ~mustPause /\ ~mustEnd
  /\ Call(Events, HandlerFrame(Head(queue).dst, Head(queue).evt))
  /\ queue' = Tail(queue)
  /\ probe' = Reaches(Head(queue).nth)
  /\ UNCHANGED <<platform, free, mustPause, mustEnd>>

(* apply() moves the list out of the event and destroys it at its end.      *)
Apply(t) ==
  /\ Handling(t) /\ Top(t).evt.list
  /\ Destroy(<<Top(t).evt>>)
  /\ Replace(t, [Top(t) EXCEPT !.evt.list = FALSE, !.applied = TRUE])
  /\ UNCHANGED <<platform, queue, mustPause, mustEnd, probe>>

(* Mutant: the list is forgotten.                                           *)
HandlerReturnsLeaking(t) ==
  /\ Handling(t)
  /\ stack' = [stack EXCEPT ![t] =
                 IF Len(@) = 1 THEN << >>
                 ELSE LET below == Front(@)
                      IN Append(Front(below),
                                [Last(below) EXCEPT !.at = "each", !.next = @ + 1])]
  /\ UNCHANGED <<platform, free, queue, mustPause, mustEnd, probe>>

(* The handler returns.  An error pauses the queue when the event came from  *)
(* it, and fails the send when the event came from a sender.                *)
HandlerReturns(t) ==
  /\ Handling(t)
  /\ \E ok \in BOOLEAN :
       LET below == Front(stack[t])
           sender == Last(below)
       IN IF below = << >>
          THEN /\ stack' = [stack EXCEPT ![t] = << >>]
               /\ Destroy(<<Top(t).evt>>)
               /\ mustPause' = (mustPause \/ ~ok)
               /\ UNCHANGED probe
          ELSE /\ UNCHANGED mustPause
               /\ IF ok
                  THEN /\ stack' = [stack EXCEPT ![t] =
                              Append(Front(below),
                                     [sender EXCEPT !.at = "each", !.next = @ + 1])]
                       /\ Destroy(<<Top(t).evt>>)
                       /\ UNCHANGED probe
                  ELSE /\ stack' = [stack EXCEPT ![t] = Front(below)]
                       /\ Destroy(<<Top(t).evt, sender.evt, sender.copy>>)
                       /\ probe' = Told(sender, FALSE)
  /\ UNCHANGED <<platform, queue, mustEnd>>
-----------------------------------------------------------------------------
AtRest == stack[Stream] = << >> /\ stack[Events] = << >>

pause == mustPause' = TRUE /\ UNCHANGED <<platform, free, queue, mustEnd, stack, probe>>

(* The queue is cleared by a pause when both threads are parked              *)
(* (RuntimeControl.PauseQuiesces), and destroyed after both have ended.     *)
clear ==
  /\ AtRest /\ (mustPause \/ mustEnd)
  /\ queue # << >>
  /\ Destroy([k \in DOMAIN queue |-> queue[k].evt])
  /\ queue' = << >>
  /\ probe' = IF Settled THEN probe ELSE [probe EXCEPT !.state = "cleared"]
  /\ UNCHANGED <<platform, mustPause, mustEnd, stack>>

resume ==
  /\ AtRest /\ mustPause /\ mustPause' = FALSE
  /\ UNCHANGED <<platform, free, queue, mustEnd, stack, probe>>

end ==
  /\ ~mustEnd /\ mustEnd' = TRUE
  /\ UNCHANGED <<platform, free, queue, mustPause, stack, probe>>

Steps(t) ==
  \/ Create(t) \/ Test(t) \/ Clone(t) \/ AllServed(t) \/ Push(t)
  \/ CallSubscriber(t) \/ HandlerReturns(t)

Next ==
  \/ \E t \in Threads : Send(t) \/ Forward(t) \/ Apply(t) \/ Steps(t)
  \/ Execute
  \/ pause \/ clear \/ resume \/ end

Spec == Init /\ [][Next]_vars

(* A thread that is in a call goes on; the event thread takes what is queued.  *)
FairSpec ==
  /\ Spec
  /\ WF_vars(Steps(Stream))
  /\ WF_vars(Steps(Events) \/ Execute)
-----------------------------------------------------------------------------
(* The events that exist: in the queue, in a send, its copy for the next     *)
(* subscriber, in a handler.                                                *)
HeldInQueue == Lists([k \in DOMAIN queue |-> queue[k].evt])
HeldInCalls(t) ==
  Lists([d \in DOMAIN stack[t] |-> stack[t][d].evt])
  + Lists([d \in { d \in DOMAIN stack[t] : stack[t][d].kind = "send" } |->
             stack[t][d].copy])

(* Every block of the pool is free or holds the list of one event: moves,    *)
(* clones, refused messages, handlers and clear() neither lose a block nor   *)
(* give one back twice nor leave it to two events (StreamNode.hpp:1523-1561). *)
BlocksAccounted ==
  free + HeldInQueue + HeldInCalls(Stream) + HeldInCalls(Events) = platform.lists

(* As many blocks as the queue, the dataflow thread and the event thread can  *)
(* hold: two in a send, and one in each frame of the event thread's stack.   *)
Enough == platform.lists >= Capacity + 2 + MaxDepth

(* When the pool has enough blocks, a send has reached a prefix of the        *)
(* subscribers, each once: all of them when it returns true, and not all when  *)
(* the queue has refused (EventQueue.hpp:264-283).                           *)
ReachesAPrefix ==
  (Enough /\ probe.state \notin {"unused", "cleared"}) =>
    LET subs == DOMAIN Subscribers[probe.out] IN
    /\ \A i \in subs : Copies(i) <= 1
    /\ \A i, j \in subs : i < j /\ Copies(j) = 1 => Copies(i) = 1
    /\ probe.state = "accepted" => \A i \in subs : Copies(i) = 1

(* When the pool has enough blocks, every send returns and every event it has  *)
(* queued is handled, unless the queue is paused, cleared or ended: no thread  *)
(* waits for ever for a block, although handlers hold their event while they  *)
(* make others (stream_zephyr_allocator.hpp:37).                             *)
SendsSettle ==
  (Enough /\ ~Settled) ~> (Settled \/ mustPause \/ mustEnd)
=============================================================================

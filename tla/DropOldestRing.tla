--------------------------- MODULE DropOldestRing ---------------------------
(***************************************************************************)
(* DropOldestRing<T> (domain/buffer/services/drop-oldest-ring.hpp): a deque *)
(* of bounded size under one mutex, with a condition variable for blocked  *)
(* consumers.  The pusher and the closer notify AFTER they have released   *)
(* the mutex, so the notification is an action of its own.  A value is     *)
(* named by the number of the accepted push that brought it.               *)
(***************************************************************************)
EXTENDS Naturals, Sequences

CONSTANTS
  Capacity,    \* capacity_; the constructor refuses 0
  Producers,   \* the threads that push
  Consumers,   \* the threads that pop
  MaxPushes    \* bound of the model: the number of calls of Push

ASSUME RingAssumption == Capacity \in Nat \ {0} /\ MaxPushes \in Nat

VARIABLES
  queue,       \* queue_, oldest value first
  closed,      \* closed_
  pushed,      \* pushed_
  popped,      \* popped_
  dropped,     \* dropped_: evictions and refusals after Close
  notifying,   \* the producers between releasing the mutex and notify_one
  closing,     \* the closer is between releasing the mutex and notify_all
  popper,      \* what each consumer is doing
  rejected,    \* history: the pushes refused after Close
  delivered    \* history: the last value handed to a consumer, 0 at first

counters == <<pushed, popped, dropped>>
vars == <<queue, closed, pushed, popped, dropped, notifying, closing, popper,
          rejected, delivered>>

Waiting == {c \in Consumers : popper[c] = "waiting"}
Woken   == {c \in Consumers : popper[c] = "woken"}

TypeOK == /\ queue \in Seq(1..MaxPushes)
          /\ closed \in BOOLEAN
          /\ pushed \in 0..MaxPushes
          /\ popped \in 0..MaxPushes
          /\ dropped \in 0..MaxPushes
          /\ notifying \subseteq Producers
          /\ closing \in BOOLEAN
          /\ popper \in [Consumers -> {"out", "waiting", "woken"}]
          /\ rejected \in 0..MaxPushes
          /\ delivered \in 0..MaxPushes

Init == /\ queue = <<>> /\ closed = FALSE
        /\ pushed = 0 /\ popped = 0 /\ dropped = 0
        /\ notifying = {} /\ closing = FALSE
        /\ popper = [c \in Consumers |-> "out"]
        /\ rejected = 0 /\ delivered = 0

-----------------------------------------------------------------------------
\* Producers.

\* One more call of Push, from a thread that is not inside one.
Calls(p) == p \notin notifying /\ pushed + rejected < MaxPushes

Refuse(p) ==
  /\ Calls(p)
  /\ closed
  /\ dropped' = dropped + 1
  /\ rejected' = rejected + 1
  /\ UNCHANGED <<queue, closed, pushed, popped, notifying, closing, popper, delivered>>

\* Mutant: a dropped value is not counted.
EvictUncounted(p) ==
  /\ Calls(p)
  /\ ~closed
  /\ queue' = Append(IF Len(queue) >= Capacity THEN Tail(queue) ELSE queue, pushed + 1)
  /\ pushed' = pushed + 1
  /\ notifying' = notifying \cup {p}
  /\ UNCHANGED <<closed, popped, dropped, closing, popper, rejected, delivered>>

\* Mutant: only the value that ends the emptiness is announced.
NotifyWhenItWasEmpty(p) ==
  /\ Calls(p)
  /\ ~closed
  /\ IF Len(queue) >= Capacity
       THEN queue' = Append(Tail(queue), pushed + 1) /\ dropped' = dropped + 1
       ELSE queue' = Append(queue, pushed + 1) /\ UNCHANGED dropped
  /\ pushed' = pushed + 1
  /\ notifying' = IF queue = <<>> THEN notifying \cup {p} ELSE notifying
  /\ UNCHANGED <<closed, popped, closing, popper, rejected, delivered>>

Accept(p) ==
  /\ Calls(p)
  /\ ~closed
  /\ IF Len(queue) >= Capacity
       THEN queue' = Append(Tail(queue), pushed + 1) /\ dropped' = dropped + 1
       ELSE queue' = Append(queue, pushed + 1) /\ UNCHANGED dropped
  /\ pushed' = pushed + 1
  /\ notifying' = notifying \cup {p}
  /\ UNCHANGED <<closed, popped, closing, popper, rejected, delivered>>

NotifyOne(p) ==
  /\ p \in notifying
  /\ notifying' = notifying \ {p}
  /\ \/ \E c \in Waiting : popper' = [popper EXCEPT ![c] = "woken"]
     \/ Waiting = {} /\ UNCHANGED popper
  /\ UNCHANGED <<queue, closed, counters, closing, rejected, delivered>>

-----------------------------------------------------------------------------
\* Consumers.

\* Take, under the mutex: the oldest value, or nothing.
Take == \/ /\ queue # <<>>
           /\ delivered' = Head(queue)
           /\ queue' = Tail(queue)
           /\ popped' = popped + 1
        \/ /\ queue = <<>>
           /\ UNCHANGED <<queue, popped, delivered>>

Return(c) == /\ Take
             /\ popper' = [popper EXCEPT ![c] = "out"]

Wait(c) == /\ popper' = [popper EXCEPT ![c] = "waiting"]
           /\ UNCHANGED <<queue, popped, delivered>>

ConsumerStep(c, states) ==
  /\ popper[c] \in states
  /\ UNCHANGED <<closed, pushed, dropped, notifying, closing, rejected>>

\* The wait's predicate, tested on entry and after every wake-up.
Satisfied == queue # <<>> \/ closed

Pop(c) == /\ ConsumerStep(c, {"out"})
          /\ IF Satisfied THEN Return(c) ELSE Wait(c)

WakeUp(c) == /\ ConsumerStep(c, {"woken"})
             /\ IF Satisfied THEN Return(c) ELSE Wait(c)

\* The timeout of wait_for: the predicate decides, and Take finds nothing when
\* it is false.
TimeOut(c) == /\ ConsumerStep(c, {"waiting", "woken"})
              /\ Return(c)

SpuriousWakeUp(c) == /\ ConsumerStep(c, {"waiting"})
                     /\ popper' = [popper EXCEPT ![c] = "woken"]
                     /\ UNCHANGED <<queue, popped, delivered>>

TryPop(c) == /\ ConsumerStep(c, {"out"})
             /\ Return(c)

-----------------------------------------------------------------------------
\* The thread that closes the buffer, once or more often.

\* Mutant: closing empties the ring.
CloseForgetsQueue == /\ ~closing
                     /\ closed' = TRUE
                     /\ closing' = TRUE
                     /\ queue' = <<>>
                     /\ UNCHANGED <<counters, notifying, popper, rejected, delivered>>

Close == /\ ~closing
         /\ closed' = TRUE
         /\ closing' = TRUE
         /\ UNCHANGED <<queue, counters, notifying, popper, rejected, delivered>>

NotifyAll ==
  /\ closing
  /\ closing' = FALSE
  /\ popper' = [c \in Consumers |-> IF c \in Waiting THEN "woken" ELSE popper[c]]
  /\ UNCHANGED <<queue, closed, counters, notifying, rejected, delivered>>

Next == \/ \E p \in Producers : Refuse(p) \/ Accept(p) \/ NotifyOne(p)
        \/ \E c \in Consumers : \/ Pop(c) \/ WakeUp(c) \/ TimeOut(c)
                                \/ SpuriousWakeUp(c) \/ TryPop(c)
        \/ Close \/ NotifyAll

Spec == Init /\ [][Next]_vars

\* A thread that is to notify does so, and a woken one gets the mutex.  Nobody
\* has to call, to close, or to time out.
FairSpec == /\ Spec
            /\ \A p \in Producers : WF_vars(NotifyOne(p))
            /\ \A c \in Consumers : WF_vars(WakeUp(c))
            /\ WF_vars(NotifyAll)

-----------------------------------------------------------------------------
\* Properties.

\* The statistics add up at every moment, not only when the buffer is at rest:
\* a value offered is delivered, dropped, or still there.
Accounting == pushed + rejected = popped + dropped + Len(queue)

\* The buffer holds the newest values, without a gap, oldest first; so a
\* consumer that falls behind loses the oldest frames and no others.
HoldsNewest == /\ Len(queue) <= Capacity
               /\ \A i \in 1..Len(queue) : queue[i] = pushed - Len(queue) + i

\* Whoever takes a value, consumers never see frames go backwards, and none
\* that has been overtaken by Capacity newer ones.
DeliveredInOrder ==
  [][delivered' # delivered => /\ delivered' > delivered
                               /\ delivered' + Capacity > pushed]_vars

\* The statistics are telemetry that only ever grows, and the contents shrink
\* once the buffer is closed.
OnlyDrainsAfterClose == [][closed => closed' /\ Len(queue') <= Len(queue)]_vars

\* No wake-up is lost between the predicate and the wait, or between releasing
\* the mutex and notify_one: as long as there is a value and a sleeping
\* consumer, some other thread is on its way to the value or to the sleeper.
NoLostWakeup ==
  queue # <<>> /\ Waiting # {} => notifying # {} \/ Woken # {} \/ closing

\* The ring is an IFrameBuffer.
Buffer == INSTANCE FrameBuffer WITH stored <- queue, newest <- pushed
ImplementsBuffer == Buffer!Contract

\* "Wakes any blocked consumers" (frame-buffer.hpp), without help from a
\* timeout.
CloseWakes == \A c \in Consumers : closed /\ c \in Waiting ~> c \notin Waiting

\* A value that is in the ring while a consumer sleeps reaches somebody.
SleepersAreServed == queue # <<>> /\ Waiting # {} ~> queue = <<>> \/ Waiting = {}
=============================================================================

--------------------------- MODULE LatestOnlySlot ---------------------------
(***************************************************************************)
(* LatestOnlySlot<T> (domain/buffer/services/latest-only-slot.hpp): an     *)
(* optional value under one mutex, overwritten by every push.  It is shown *)
(* to be a DropOldestRing of capacity one, so what holds of that ring      *)
(* holds of the slot.  Threads and notifications are as in DropOldestRing. *)
(***************************************************************************)
EXTENDS Naturals, Sequences

CONSTANTS Producers, Consumers,
          MaxPushes    \* bound of the model: the number of calls of Push

VARIABLES
  slot,        \* slot_: the number of the push that filled it, 0 when empty
  closed, pushed, popped, dropped,
  notifying, closing, popper,
  rejected, delivered

counters == <<pushed, popped, dropped>>
vars == <<slot, closed, pushed, popped, dropped, notifying, closing, popper,
          rejected, delivered>>

Waiting == {c \in Consumers : popper[c] = "waiting"}

SlotTypeOK == /\ slot \in 0..MaxPushes
              /\ closed \in BOOLEAN
              /\ pushed \in 0..MaxPushes
              /\ popped \in 0..MaxPushes
              /\ dropped \in 0..MaxPushes
              /\ notifying \subseteq Producers
              /\ closing \in BOOLEAN
              /\ popper \in [Consumers -> {"out", "waiting", "woken"}]
              /\ rejected \in 0..MaxPushes
              /\ delivered \in 0..MaxPushes

Init == /\ slot = 0 /\ closed = FALSE
        /\ pushed = 0 /\ popped = 0 /\ dropped = 0
        /\ notifying = {} /\ closing = FALSE
        /\ popper = [c \in Consumers |-> "out"]
        /\ rejected = 0 /\ delivered = 0

-----------------------------------------------------------------------------
Calls(p) == p \notin notifying /\ pushed + rejected < MaxPushes

Refuse(p) ==
  /\ Calls(p)
  /\ closed
  /\ dropped' = dropped + 1
  /\ rejected' = rejected + 1
  /\ UNCHANGED <<slot, closed, pushed, popped, notifying, closing, popper, delivered>>

Overwrite(p) ==
  /\ Calls(p)
  /\ ~closed
  /\ dropped' = IF slot # 0 THEN dropped + 1 ELSE dropped
  /\ slot' = pushed + 1
  /\ pushed' = pushed + 1
  /\ notifying' = notifying \cup {p}
  /\ UNCHANGED <<closed, popped, closing, popper, rejected, delivered>>

NotifyOne(p) ==
  /\ p \in notifying
  /\ notifying' = notifying \ {p}
  /\ \/ \E c \in Waiting : popper' = [popper EXCEPT ![c] = "woken"]
     \/ Waiting = {} /\ UNCHANGED popper
  /\ UNCHANGED <<slot, closed, counters, closing, rejected, delivered>>

-----------------------------------------------------------------------------
Take == \/ /\ slot # 0
           /\ delivered' = slot
           /\ slot' = 0
           /\ popped' = popped + 1
        \/ /\ slot = 0
           /\ UNCHANGED <<slot, popped, delivered>>

Return(c) == Take /\ popper' = [popper EXCEPT ![c] = "out"]

Wait(c) == /\ popper' = [popper EXCEPT ![c] = "waiting"]
           /\ UNCHANGED <<slot, popped, delivered>>

ConsumerStep(c, states) ==
  /\ popper[c] \in states
  /\ UNCHANGED <<closed, pushed, dropped, notifying, closing, rejected>>

Satisfied == slot # 0 \/ closed

Pop(c) == ConsumerStep(c, {"out"}) /\ IF Satisfied THEN Return(c) ELSE Wait(c)

WakeUp(c) == ConsumerStep(c, {"woken"}) /\ IF Satisfied THEN Return(c) ELSE Wait(c)

TimeOut(c) == ConsumerStep(c, {"waiting", "woken"}) /\ Return(c)

SpuriousWakeUp(c) == /\ ConsumerStep(c, {"waiting"})
                     /\ popper' = [popper EXCEPT ![c] = "woken"]
                     /\ UNCHANGED <<slot, popped, delivered>>

TryPop(c) == ConsumerStep(c, {"out"}) /\ Return(c)

-----------------------------------------------------------------------------
Close == /\ ~closing
         /\ closed' = TRUE
         /\ closing' = TRUE
         /\ UNCHANGED <<slot, counters, notifying, popper, rejected, delivered>>

NotifyAll ==
  /\ closing
  /\ closing' = FALSE
  /\ popper' = [c \in Consumers |-> IF c \in Waiting THEN "woken" ELSE popper[c]]
  /\ UNCHANGED <<slot, closed, counters, notifying, rejected, delivered>>

Next == \/ \E p \in Producers : Refuse(p) \/ Overwrite(p) \/ NotifyOne(p)
        \/ \E c \in Consumers : \/ Pop(c) \/ WakeUp(c) \/ TimeOut(c)
                                \/ SpuriousWakeUp(c) \/ TryPop(c)
        \/ Close \/ NotifyAll

Spec == Init /\ [][Next]_vars

-----------------------------------------------------------------------------
\* The slot is a ring of capacity one.
Ring == INSTANCE DropOldestRing
          WITH Capacity <- 1, queue <- IF slot = 0 THEN <<>> ELSE <<slot>>
IsRingOfOne == Ring!Spec
=============================================================================

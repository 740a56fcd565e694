----------------------------- MODULE FrameProofs -----------------------------
(***************************************************************************)
(* What the ring guarantees for every capacity and every set of producers  *)
(* and consumers.  Everything rests on one fact about the contents: they   *)
(* are the numbers pushed - Len(queue) + 1 .. pushed, in order; an eviction *)
(* and a delivery both shorten that interval at its lower end.             *)
(*                                                                         *)
(* Then the slot, as a ring of one; the bytes of one frame on its way to   *)
(* OpenCV; and the overlay drawn over it.                                  *)
(***************************************************************************)
EXTENDS DropOldestRing, FramePath, OverlayDrawing, FiniteSets, FiniteSetTheorems,
        SequenceTheorems, TLAPS

RingTypes == /\ queue \in Seq(Nat)
             /\ pushed \in Nat
             /\ popped \in Nat
             /\ dropped \in Nat
             /\ rejected \in Nat
             /\ delivered \in Nat

\* The bounds that follow from the model's bound on the calls of Push.
CallsBounded == pushed + rejected <= MaxPushes

\* A consumer has seen nothing that is still in the ring.
SeenIsGone == delivered + Len(queue) <= pushed

RingInv == RingTypes /\ CallsBounded /\ Accounting /\ HoldsNewest /\ SeenIsGone

\* The window of numbers after a push, with and without an eviction.
LEMMA WindowAfterAppend ==
  ASSUME NEW s \in Seq(Nat), NEW n \in Nat, Len(s) <= n,
         \A i \in 1..Len(s) : s[i] = n - Len(s) + i
  PROVE  /\ Append(s, n + 1) \in Seq(Nat)
         /\ Len(Append(s, n + 1)) = Len(s) + 1
         /\ \A i \in 1..(Len(s) + 1) :
              Append(s, n + 1)[i] = (n + 1) - (Len(s) + 1) + i
  OBVIOUS

LEMMA WindowAfterTail ==
  ASSUME NEW s \in Seq(Nat), NEW n \in Nat, s # <<>>, Len(s) <= n,
         \A i \in 1..Len(s) : s[i] = n - Len(s) + i
  PROVE  /\ Tail(s) \in Seq(Nat)
         /\ Len(Tail(s)) = Len(s) - 1
         /\ \A i \in 1..(Len(s) - 1) : Tail(s)[i] = n - (Len(s) - 1) + i
         /\ Head(s) = n - Len(s) + 1
         /\ Len(s) > 0
  OBVIOUS

LEMMA RingInitInv == Init => RingInv
  BY RingAssumption
  DEF Init, RingInv, RingTypes, CallsBounded, Accounting, HoldsNewest, SeenIsGone

LEMMA AcceptKeepsInv ==
  ASSUME RingInv, NEW p \in Producers, Accept(p)
  PROVE  RingInv'
<1> USE RingAssumption DEF RingInv, RingTypes, CallsBounded, SeenIsGone
<1> DEFINE kept == IF Len(queue) >= Capacity THEN Tail(queue) ELSE queue
<1>0. /\ Len(queue) >= Capacity => kept = Tail(queue)
      /\ ~(Len(queue) >= Capacity) => kept = queue
  OBVIOUS
<1> HIDE DEF kept
<1>1. Len(queue) <= pushed /\ Len(queue) \in Nat
  BY DEF SeenIsGone
<1>2. /\ kept \in Seq(Nat)
      /\ Len(kept) < Capacity
      /\ Len(kept) <= Len(queue)
      /\ \A i \in 1..Len(kept) : kept[i] = pushed - Len(kept) + i
  <2>1. CASE Len(queue) >= Capacity
    <3>1. queue # <<>>
      BY <2>1
    <3>2. kept = Tail(queue)
      BY <1>0, <2>1
    <3>3. \A i \in 1..Len(queue) : queue[i] = pushed - Len(queue) + i
      BY DEF HoldsNewest
    <3>4. /\ Tail(queue) \in Seq(Nat)
          /\ Len(Tail(queue)) = Len(queue) - 1
          /\ \A i \in 1..(Len(queue) - 1) :
               Tail(queue)[i] = pushed - (Len(queue) - 1) + i
      BY <1>1, <3>1, <3>3, WindowAfterTail
    <3>5. Len(queue) <= Capacity
      BY DEF HoldsNewest
    <3>6. QED
      BY <1>1, <3>2, <3>4, <3>5
  <2>2. CASE ~(Len(queue) >= Capacity)
    BY <1>0, <2>2 DEF HoldsNewest
  <2>3. QED
    BY <2>1, <2>2
<1>3. /\ queue' = Append(kept, pushed + 1)
      /\ pushed' = pushed + 1
      /\ UNCHANGED <<popped, rejected, delivered>>
  BY <1>0 DEF Accept
<1>4. dropped' = dropped + (Len(queue) - Len(kept))
  <2>1. CASE Len(queue) >= Capacity
    <3>1. queue # <<>>
      BY <2>1
    <3>2. Len(kept) = Len(queue) - 1
      BY <1>0, <2>1, <3>1
    <3>3. dropped' = dropped + 1
      BY <2>1 DEF Accept
    <3>4. QED
      BY <1>1, <3>2, <3>3
  <2>2. CASE ~(Len(queue) >= Capacity)
    BY <1>0, <1>1, <2>2 DEF Accept
  <2>3. QED
    BY <2>1, <2>2
<1>5. /\ queue' \in Seq(Nat)
      /\ Len(queue') = Len(kept) + 1
      /\ \A i \in 1..Len(queue') : queue'[i] = pushed' - Len(queue') + i
  <2>1. Len(kept) <= pushed
    BY <1>1, <1>2
  <2>2. /\ Append(kept, pushed + 1) \in Seq(Nat)
        /\ Len(Append(kept, pushed + 1)) = Len(kept) + 1
        /\ \A i \in 1..(Len(kept) + 1) :
             Append(kept, pushed + 1)[i] = (pushed + 1) - (Len(kept) + 1) + i
    BY <1>2, <2>1, WindowAfterAppend
  <2>3. QED
    BY <1>3, <2>2
<1>6. RingTypes'
  BY <1>2, <1>3, <1>4, <1>5
<1>7. CallsBounded' /\ Accounting' /\ SeenIsGone'
  <2>1. pushed + rejected < MaxPushes
    BY DEF Accept, Calls
  <2>2. Len(kept) \in Nat
    BY <1>2
  <2>3. pushed + rejected = popped + dropped + Len(queue)
    BY DEF Accounting
  <2>4. Accounting'
    <3>1. Len(queue') = Len(kept) + 1
      BY <1>5
    <3>2. pushed \in Nat /\ rejected \in Nat /\ popped \in Nat /\ dropped \in Nat
      OBVIOUS
    <3>3. QED
      BY ONLY <1>1, <1>3, <1>4, <2>2, <2>3, <3>1, <3>2 DEF Accounting
  <2>5. CallsBounded' /\ SeenIsGone'
    BY <1>1, <1>2, <1>3, <1>5, <2>1, <2>2
  <2>6. QED
    BY <2>4, <2>5
<1>8. HoldsNewest'
  BY <1>2, <1>5 DEF HoldsNewest
<1>9. QED
  BY <1>6, <1>7, <1>8

LEMMA TakeKeepsInv ==
  ASSUME RingInv, Take, UNCHANGED <<pushed, dropped, rejected>>
  PROVE  RingInv'
<1> USE RingAssumption DEF RingInv, RingTypes, CallsBounded, SeenIsGone
<1>1. CASE queue = <<>>
  BY <1>1 DEF Take, Accounting, HoldsNewest
<1>2. CASE queue # <<>>
  <2>1. /\ queue' = Tail(queue)
        /\ delivered' = Head(queue)
        /\ popped' = popped + 1
    BY <1>2 DEF Take
  <2>2. /\ queue' \in Seq(Nat)
        /\ Len(queue') = Len(queue) - 1
        /\ \A i \in 1..Len(queue') : queue'[i] = pushed' - Len(queue') + i
        /\ delivered' = pushed - Len(queue) + 1
        /\ Len(queue) > 0
    <3>1. Len(queue) <= pushed /\ \A i \in 1..Len(queue) : queue[i] = pushed - Len(queue) + i
      BY DEF HoldsNewest
    <3>2. /\ Tail(queue) \in Seq(Nat)
          /\ Len(Tail(queue)) = Len(queue) - 1
          /\ \A i \in 1..(Len(queue) - 1) :
               Tail(queue)[i] = pushed - (Len(queue) - 1) + i
          /\ Head(queue) = pushed - Len(queue) + 1
          /\ Len(queue) > 0
      BY <1>2, <3>1, WindowAfterTail
    <3>3. QED
      BY <2>1, <3>2
  <2>3. RingTypes'
    BY <2>1, <2>2
  <2>4. CallsBounded' /\ SeenIsGone'
    BY <2>2
  <2>5. Accounting'
    BY <2>1, <2>2 DEF Accounting
  <2>6. HoldsNewest'
    BY <2>2 DEF HoldsNewest
  <2>7. QED
    BY <2>3, <2>4, <2>5, <2>6
<1>3. QED
  BY <1>1, <1>2

\* A step of a consumer takes a value or leaves the buffer alone.
LEMMA ConsumerTakesOrNot ==
  ASSUME NEW c \in Consumers,
         Pop(c) \/ WakeUp(c) \/ TimeOut(c) \/ SpuriousWakeUp(c) \/ TryPop(c)
  PROVE  /\ UNCHANGED <<closed, pushed, dropped, rejected>>
         /\ Take \/ UNCHANGED <<queue, popped, delivered>>
  BY DEF Pop, WakeUp, TimeOut, SpuriousWakeUp, TryPop, ConsumerStep, Return, Wait

LEMMA RingStepInv == RingInv /\ [Next]_vars => RingInv'
<1> SUFFICES ASSUME RingInv, [Next]_vars PROVE RingInv'
  OBVIOUS
<1> USE DEF RingInv, RingTypes, CallsBounded, Accounting, HoldsNewest, SeenIsGone,
            counters
<1>1. ASSUME NEW p \in Producers, Refuse(p) PROVE RingInv'
  BY <1>1, RingAssumption DEF Refuse, Calls
<1>2. ASSUME NEW p \in Producers, Accept(p) PROVE RingInv'
  BY <1>2, AcceptKeepsInv
<1>3. ASSUME NEW p \in Producers, NotifyOne(p) PROVE RingInv'
  BY <1>3 DEF NotifyOne
<1>4. ASSUME NEW c \in Consumers,
             Pop(c) \/ WakeUp(c) \/ TimeOut(c) \/ SpuriousWakeUp(c) \/ TryPop(c)
      PROVE  RingInv'
  <2>1. CASE Take
    BY <1>4, <2>1, ConsumerTakesOrNot, TakeKeepsInv
  <2>2. CASE UNCHANGED <<queue, popped, delivered>>
    BY <1>4, <2>2, ConsumerTakesOrNot
  <2>3. QED
    BY <1>4, <2>1, <2>2, ConsumerTakesOrNot
<1>5. CASE Close \/ NotifyAll
  BY <1>5 DEF Close, NotifyAll
<1>6. CASE UNCHANGED vars
  BY <1>6 DEF vars
<1>7. QED
  BY ONLY [Next]_vars, <1>1, <1>2, <1>3, <1>4, <1>5, <1>6 DEF Next

-----------------------------------------------------------------------------
\* The four statistics account for every value ever offered.
THEOREM RingAccounts == Spec => []Accounting
<1>1. RingInv => Accounting
  BY DEF RingInv
<1>2. QED
  BY <1>1, RingInitInv, RingStepInv, PTL DEF Spec

\* The ring holds an unbroken run of the newest values and never more than its
\* capacity.
THEOREM RingHoldsNewest == Spec => []HoldsNewest
<1>1. RingInv => HoldsNewest
  BY DEF RingInv
<1>2. QED
  BY <1>1, RingInitInv, RingStepInv, PTL DEF Spec

\* Consumers together see the frames in order, and none that Capacity newer
\* frames have overtaken.
THEOREM RingDeliversInOrder == Spec => DeliveredInOrder
<1>1. RingInv /\ [Next]_vars =>
        [delivered' # delivered => /\ delivered' > delivered
                                   /\ delivered' + Capacity > pushed]_vars
  <2> SUFFICES ASSUME RingInv, Next, delivered' # delivered
               PROVE  delivered' > delivered /\ delivered' + Capacity > pushed
    OBVIOUS
  <2>1. Take
    BY ConsumerTakesOrNot
    DEF Next, Refuse, Accept, NotifyOne, Close, NotifyAll
  <2>2. queue # <<>> /\ delivered' = Head(queue)
    BY <2>1 DEF Take
  <2>3. delivered' = pushed - Len(queue) + 1
    BY <2>2, WindowAfterTail DEF RingInv, RingTypes, HoldsNewest, SeenIsGone
  <2>4. QED
    BY <2>3, RingAssumption DEF RingInv, RingTypes, HoldsNewest, SeenIsGone
<1>2. QED
  BY <1>1, RingInitInv, RingStepInv, PTL DEF Spec, DeliveredInOrder

-----------------------------------------------------------------------------
\* Keeping all values, or all but the oldest, are two of the ways in which the
\* contract lets a push make room.
LEMMA KeepsSuffix ==
  ASSUME NEW s \in Seq(Nat)
  PROVE  /\ SubSeq(s, Len(s) - Len(s) + 1, Len(s)) = s
         /\ s # <<>> => SubSeq(s, Len(s) - (Len(s) - 1) + 1, Len(s)) = Tail(s)
  OBVIOUS

LEMMA RingStepIsBufferStep ==
  RingInv /\ [Next]_vars => [Buffer!BufferNext]_Buffer!bufferVars
<1> SUFFICES ASSUME RingInv, [Next]_vars
             PROVE  Buffer!BufferNext \/ UNCHANGED Buffer!bufferVars
  OBVIOUS
<1> USE DEF Buffer!BufferNext, Buffer!bufferVars
<1>1. ASSUME NEW p \in Producers, Accept(p) PROVE Buffer!Store
  <2> USE DEF RingInv, RingTypes
  <2>1. CASE Len(queue) >= Capacity
    <3>1. queue # <<>>
      BY <2>1, RingAssumption
    <3>2. Len(queue) - 1 \in 0..Len(queue)
      BY <3>1
    <3>3. SubSeq(queue, Len(queue) - (Len(queue) - 1) + 1, Len(queue)) = Tail(queue)
      BY <3>1, KeepsSuffix
    <3>4. queue' = Append(Tail(queue), pushed') /\ pushed' = pushed + 1
      BY <1>1, <2>1 DEF Accept
    <3>5. QED
      BY <1>1, <3>2, <3>3, <3>4 DEF Accept, Buffer!Store
  <2>2. CASE ~(Len(queue) >= Capacity)
    <3>1. /\ Len(queue) \in 0..Len(queue)
          /\ queue' = Append(SubSeq(queue, Len(queue) - Len(queue) + 1, Len(queue)),
                             pushed')
      BY <1>1, <2>2, KeepsSuffix DEF Accept
    <3>2. QED
      BY <1>1, <3>1 DEF Accept, Buffer!Store
  <2>3. QED
    BY <2>1, <2>2
<1>2. ASSUME NEW c \in Consumers,
             Pop(c) \/ WakeUp(c) \/ TimeOut(c) \/ SpuriousWakeUp(c) \/ TryPop(c)
      PROVE  Buffer!Deliver \/ UNCHANGED Buffer!bufferVars
  BY <1>2, ConsumerTakesOrNot DEF Take, Buffer!Deliver
<1>3. CASE Close
  BY <1>3 DEF Close, Buffer!Shut, counters
<1>4. ASSUME NEW p \in Producers, Refuse(p) \/ NotifyOne(p)
      PROVE  UNCHANGED Buffer!bufferVars
  BY <1>4 DEF Refuse, NotifyOne, counters
<1>5. CASE NotifyAll \/ UNCHANGED vars
  BY <1>5 DEF NotifyAll, counters, vars
<1>6. QED
  BY ONLY [Next]_vars, <1>1, <1>2, <1>3, <1>4, <1>5
  DEF Next, Buffer!BufferNext

\* The ring keeps the contract of IFrameBuffer.
THEOREM RingImplementsBuffer == Spec => ImplementsBuffer
<1>1. Init => Buffer!BufferInit
  BY DEF Init, Buffer!BufferInit
<1>2. QED
  BY <1>1, RingInitInv, RingStepInv, RingStepIsBufferStep, PTL
  DEF Spec, ImplementsBuffer, Buffer!Contract
-----------------------------------------------------------------------------
(***************************************************************************)
(* Wake-ups.  NoLostWakeup is not inductive: a woken consumer takes one    *)
(* value and may leave others behind, with a consumer asleep.  What is     *)
(* preserved is a count: while somebody sleeps, there are at least as many *)
(* notifications and woken consumers as values.  Threads are finitely many *)
(* because each of them got where it is by a step of its own.              *)
(***************************************************************************)
PopperTypes == popper \in [Consumers -> {"out", "waiting", "woken"}]

ThreadsFinite ==
  IsFiniteSet(notifying) /\ IsFiniteSet(Waiting) /\ IsFiniteSet(Woken)

WakeupsSuffice ==
  Waiting # {} /\ ~closing => Len(queue) <= Cardinality(notifying) + Cardinality(Woken)

WakeupInv == PopperTypes /\ ThreadsFinite /\ WakeupsSuffice

\* One thread moves to state s.
LEMMA PopperMoves ==
  ASSUME PopperTypes, ThreadsFinite, NEW c \in Consumers,
         NEW s \in {"out", "waiting", "woken"}, popper' = [popper EXCEPT ![c] = s]
  PROVE  /\ PopperTypes'
         /\ IsFiniteSet(Waiting') /\ IsFiniteSet(Woken')
         /\ Waiting' = IF s = "waiting" THEN Waiting \cup {c} ELSE Waiting \ {c}
         /\ Woken' = IF s = "woken" THEN Woken \cup {c} ELSE Woken \ {c}
<1>1. PopperTypes'
  BY DEF PopperTypes
<1>2. Waiting' = IF s = "waiting" THEN Waiting \cup {c} ELSE Waiting \ {c}
  BY DEF PopperTypes, Waiting
<1>3. Woken' = IF s = "woken" THEN Woken \cup {c} ELSE Woken \ {c}
  BY DEF PopperTypes, Woken
<1>4. IsFiniteSet(Waiting') /\ IsFiniteSet(Woken')
  <2>1. /\ IsFiniteSet(Waiting \cup {c}) /\ IsFiniteSet(Waiting \ {c})
        /\ IsFiniteSet(Woken \cup {c}) /\ IsFiniteSet(Woken \ {c})
    BY FS_AddElement, FS_RemoveElement DEF ThreadsFinite
  <2>2. QED
    BY <1>2, <1>3, <2>1
<1>5. QED
  BY <1>1, <1>2, <1>3, <1>4

\* A push brings one value and one notification.
LEMMA AcceptKeepsWakeups ==
  ASSUME RingInv, WakeupInv, NEW p \in Producers, Accept(p)
  PROVE  WakeupInv'
<1> USE DEF WakeupInv
<1>1. /\ UNCHANGED <<popper, closing, Waiting, Woken>>
      /\ notifying' = notifying \cup {p} /\ p \notin notifying
  BY DEF Accept, Calls, Waiting, Woken
<1>2. IsFiniteSet(notifying') /\ Cardinality(notifying') = Cardinality(notifying) + 1
  BY <1>1, FS_AddElement DEF ThreadsFinite
<1>3. Cardinality(notifying) \in Nat /\ Cardinality(Woken) \in Nat
  BY FS_CardinalityType DEF ThreadsFinite
<1>4. Len(queue') <= Len(queue) + 1 /\ Len(queue) \in Nat /\ Len(queue') \in Nat
  <2>1. CASE Len(queue) >= Capacity
    <3>1. queue \in Seq(Nat) /\ queue # <<>> /\ pushed \in Nat
      BY <2>1, RingAssumption DEF RingInv, RingTypes
    <3>2. queue' = Append(Tail(queue), pushed + 1)
      BY <2>1 DEF Accept
    <3>3. QED
      BY <3>1, <3>2
  <2>2. CASE ~(Len(queue) >= Capacity)
    BY <2>2 DEF Accept, RingInv, RingTypes
  <2>3. QED
    BY <2>1, <2>2
<1>5. WakeupsSuffice'
  BY <1>1, <1>2, <1>3, <1>4 DEF WakeupsSuffice
<1>6. QED
  BY <1>1, <1>2, <1>5 DEF PopperTypes, ThreadsFinite

\* A notification becomes a woken consumer, or there was nobody to wake.
LEMMA NotifyKeepsWakeups ==
  ASSUME RingInv, WakeupInv, NEW p \in Producers, NotifyOne(p)
  PROVE  WakeupInv'
<1> USE DEF WakeupInv
<1>1. /\ p \in notifying /\ notifying' = notifying \ {p}
      /\ UNCHANGED <<queue, closing>>
  BY DEF NotifyOne
<1>2. IsFiniteSet(notifying') /\ Cardinality(notifying') = Cardinality(notifying) - 1
  BY <1>1, FS_RemoveElement DEF ThreadsFinite
<1>3. Cardinality(notifying) \in Nat /\ Cardinality(Woken) \in Nat /\ Len(queue) \in Nat
  BY FS_CardinalityType DEF ThreadsFinite, RingInv, RingTypes
<1>4. CASE Waiting = {} /\ UNCHANGED popper
  <2>1. UNCHANGED <<Waiting, Woken>>
    BY <1>4 DEF Waiting, Woken
  <2>2. QED
    BY <1>1, <1>2, <1>4, <2>1 DEF PopperTypes, ThreadsFinite, WakeupsSuffice
<1>5. ASSUME NEW c \in Waiting, popper' = [popper EXCEPT ![c] = "woken"]
      PROVE  WakeupInv'
  <2>1. c \in Consumers /\ c \notin Woken
    BY DEF Waiting, Woken
  <2>2. /\ PopperTypes' /\ IsFiniteSet(Waiting') /\ IsFiniteSet(Woken')
        /\ Woken' = Woken \cup {c}
    BY <1>5, <2>1, PopperMoves
  <2>3. Cardinality(Woken') = Cardinality(Woken) + 1
    BY <2>1, <2>2, FS_AddElement DEF ThreadsFinite
  <2>4. WakeupsSuffice'
    BY <1>1, <1>2, <1>3, <1>5, <2>3 DEF WakeupsSuffice
  <2>5. QED
    BY <1>2, <2>2, <2>4 DEF ThreadsFinite
<1>6. QED
  BY <1>4, <1>5 DEF NotifyOne

\* A consumer that is woken leaves with a value, finds none, or goes back to
\* sleep because there is none.
LEMMA ConsumerKeepsWakeups ==
  ASSUME RingInv, WakeupInv, NEW c \in Consumers,
         Pop(c) \/ WakeUp(c) \/ TimeOut(c) \/ SpuriousWakeUp(c) \/ TryPop(c)
  PROVE  WakeupInv'
<1> USE DEF WakeupInv
<1>1. UNCHANGED <<notifying, closing>>
  BY DEF Pop, WakeUp, TimeOut, SpuriousWakeUp, TryPop, ConsumerStep
<1>2. Cardinality(notifying) \in Nat /\ Cardinality(Woken) \in Nat /\ Len(queue) \in Nat
  BY FS_CardinalityType DEF ThreadsFinite, RingInv, RingTypes
<1>3. CASE Return(c)
  <2>1. /\ PopperTypes' /\ IsFiniteSet(Waiting') /\ IsFiniteSet(Woken')
        /\ Waiting' = Waiting \ {c} /\ Woken' = Woken \ {c}
    BY <1>3, PopperMoves DEF Return
  <2>2. Cardinality(Woken') \in Nat /\ Cardinality(Woken') >= Cardinality(Woken) - 1
    <3>1. Cardinality(Woken') \in Nat
      BY <2>1, FS_CardinalityType
    <3>2. Cardinality(Woken \ {c}) =
            IF c \in Woken THEN Cardinality(Woken) - 1 ELSE Cardinality(Woken)
      BY FS_RemoveElement DEF ThreadsFinite
    <3>3. QED
      BY <1>2, <2>1, <3>1, <3>2
  <2>3. Len(queue') = 0 \/ Len(queue') = Len(queue) - 1
    <3>1. queue \in Seq(Nat)
      BY DEF RingInv, RingTypes
    <3>2. QED
      BY <1>3, <3>1 DEF Return, Take
  <2>4. WakeupsSuffice'
    BY <1>1, <1>2, <2>1, <2>2, <2>3 DEF WakeupsSuffice
  <2>5. QED
    BY <1>1, <2>1, <2>4 DEF ThreadsFinite
<1>4. CASE Wait(c) /\ ~Satisfied
  <2>1. PopperTypes' /\ IsFiniteSet(Waiting') /\ IsFiniteSet(Woken')
    BY <1>4, PopperMoves DEF Wait
  <2>2. Cardinality(Woken') \in Nat /\ Len(queue') = 0
    BY <1>4, <2>1, FS_CardinalityType DEF Wait, Satisfied
  <2>3. QED
    BY <1>1, <1>2, <2>1, <2>2 DEF ThreadsFinite, WakeupsSuffice
<1>5. CASE SpuriousWakeUp(c)
  <2>1. c \in Waiting /\ c \notin Woken /\ UNCHANGED queue
    BY <1>5 DEF SpuriousWakeUp, ConsumerStep, Waiting, Woken
  <2>2. /\ PopperTypes' /\ IsFiniteSet(Waiting') /\ IsFiniteSet(Woken')
        /\ Woken' = Woken \cup {c}
    BY <1>5, PopperMoves DEF SpuriousWakeUp
  <2>3. Cardinality(Woken') = Cardinality(Woken) + 1
    BY <2>1, <2>2, FS_AddElement DEF ThreadsFinite
  <2>4. QED
    BY <1>1, <1>2, <2>1, <2>2, <2>3 DEF ThreadsFinite, WakeupsSuffice
<1>6. QED
  BY <1>3, <1>4, <1>5 DEF Pop, WakeUp, TimeOut, TryPop

\* After notify_all nobody sleeps.
LEMMA NotifyAllKeepsWakeups ==
  ASSUME RingInv, WakeupInv, NotifyAll
  PROVE  WakeupInv'
<1> USE DEF WakeupInv
<1>1. popper' = [c \in Consumers |-> IF c \in Waiting THEN "woken" ELSE popper[c]]
  BY DEF NotifyAll
<1>2. PopperTypes'
  BY <1>1 DEF PopperTypes
<1>3. Waiting' = {} /\ Woken' = Waiting \cup Woken
  BY <1>1 DEF PopperTypes, Waiting, Woken
<1>4. IsFiniteSet(Waiting') /\ IsFiniteSet(Woken')
  BY <1>3, FS_EmptySet, FS_Union DEF ThreadsFinite
<1>5. QED
  BY <1>2, <1>3, <1>4 DEF NotifyAll, ThreadsFinite, WakeupsSuffice

LEMMA WakeupInitInv == Init => WakeupInv
<1> SUFFICES ASSUME Init PROVE WakeupInv
  OBVIOUS
<1>1. notifying = {} /\ Waiting = {} /\ Woken = {}
  BY DEF Init, Waiting, Woken
<1>2. QED
  BY <1>1, FS_EmptySet
  DEF Init, WakeupInv, PopperTypes, ThreadsFinite, WakeupsSuffice

LEMMA WakeupStepInv == RingInv /\ WakeupInv /\ [Next]_vars => WakeupInv'
<1> SUFFICES ASSUME RingInv, WakeupInv, [Next]_vars PROVE WakeupInv'
  OBVIOUS
<1>1. ASSUME NEW p \in Producers, Accept(p) PROVE WakeupInv'
  BY <1>1, AcceptKeepsWakeups
<1>2. ASSUME NEW p \in Producers, NotifyOne(p) PROVE WakeupInv'
  BY <1>2, NotifyKeepsWakeups
<1>3. ASSUME NEW c \in Consumers,
             Pop(c) \/ WakeUp(c) \/ TimeOut(c) \/ SpuriousWakeUp(c) \/ TryPop(c)
      PROVE  WakeupInv'
  BY <1>3, ConsumerKeepsWakeups
<1>4. CASE NotifyAll
  BY <1>4, NotifyAllKeepsWakeups
<1>5. ASSUME UNCHANGED <<queue, notifying, popper>>, closing => closing'
      PROVE  WakeupInv'
  <2>1. UNCHANGED <<Waiting, Woken>>
    BY <1>5 DEF Waiting, Woken
  <2>2. QED
    BY <1>5, <2>1 DEF WakeupInv, PopperTypes, ThreadsFinite, WakeupsSuffice
<1>6. ASSUME NEW p \in Producers, Refuse(p) PROVE WakeupInv'
  BY <1>5, <1>6 DEF Refuse
<1>7. CASE Close \/ UNCHANGED vars
  BY <1>5, <1>7 DEF Close, vars
<1>8. QED
  BY ONLY [Next]_vars, <1>1, <1>2, <1>3, <1>4, <1>6, <1>7 DEF Next

\* A value in the ring and a consumer asleep: a producer is about to notify, a
\* consumer is on its way to the value, or everybody is about to be woken.
THEOREM RingLosesNoWakeup == Spec => []NoLostWakeup
<1>1. RingInv /\ WakeupInv => NoLostWakeup
  <2> SUFFICES ASSUME RingInv, WakeupInv, queue # <<>>, Waiting # {},
                      notifying = {}, Woken = {}, ~closing
               PROVE  FALSE
    BY DEF NoLostWakeup
  <2>1. Cardinality(notifying) = 0 /\ Cardinality(Woken) = 0
    BY FS_EmptySet
  <2>2. Len(queue) > 0
    BY DEF RingInv, RingTypes
  <2>3. QED
    BY <2>1, <2>2 DEF WakeupInv, WakeupsSuffice, RingInv, RingTypes
<1>2. QED
  BY <1>1, RingInitInv, RingStepInv, WakeupInitInv, WakeupStepInv, PTL DEF Spec
-----------------------------------------------------------------------------
(***************************************************************************)
(* LatestOnlySlot refines the ring of capacity one: action by action, with *)
(* the one-element sequence in the place of the optional value.  Threads,  *)
(* counters and flags of the two buffers are the same variables.           *)
(***************************************************************************)
VARIABLE slot  \* slot_ of the LatestOnlySlot

Slot == INSTANCE LatestOnlySlot

\* A push number is never 0, so a full slot cannot be taken for an empty one.
SlotInv == slot \in Nat /\ pushed \in Nat

\* The contents as the ring sees them.
asQueue == IF slot = 0 THEN <<>> ELSE <<slot>>

LEMMA SlotInitInv == Slot!Init => SlotInv
  BY DEF Slot!Init, SlotInv

LEMMA SlotStepInv == SlotInv /\ [Slot!Next]_(Slot!vars) => SlotInv'
  BY DEF SlotInv, Slot!Next, Slot!vars, Slot!Refuse, Slot!Overwrite,
      Slot!NotifyOne, Slot!Pop, Slot!WakeUp, Slot!TimeOut, Slot!SpuriousWakeUp,
      Slot!TryPop, Slot!ConsumerStep, Slot!Return, Slot!Wait, Slot!Take, Slot!Close,
      Slot!NotifyAll, Slot!counters

\* What the operators of the ring do to a queue of at most one value.
LEMMA QueueOfOne ==
  ASSUME SlotInv
  PROVE  /\ asQueue = <<>> <=> slot = 0
         /\ slot # 0 => /\ Len(asQueue) = 1
                        /\ Head(asQueue) = slot
                        /\ Tail(asQueue) = <<>>
         /\ slot = 0 => Len(asQueue) = 0
         /\ Append(<<>>, pushed + 1) = <<pushed + 1>>
  BY DEF asQueue, SlotInv

LEMMA TakeIsRingTake ==
  ASSUME SlotInv, Slot!Take
  PROVE  Slot!Ring!Take
<1>1. CASE slot = 0
  BY <1>1, QueueOfOne DEF Slot!Take, Slot!Ring!Take, asQueue
<1>2. CASE slot # 0
  <2>1. asQueue' = <<>>
    BY <1>2 DEF Slot!Take, asQueue
  <2>2. QED
    BY <1>2, <2>1, QueueOfOne DEF Slot!Take, Slot!Ring!Take, asQueue
<1>3. QED
  BY <1>1, <1>2

LEMMA OverwriteIsRingAccept ==
  ASSUME SlotInv, NEW p \in Producers, Slot!Overwrite(p)
  PROVE  Slot!Ring!Accept(p)
<1>1. asQueue' = <<pushed + 1>>
  BY DEF Slot!Overwrite, asQueue, SlotInv
<1>2. CASE slot = 0
  BY <1>1, <1>2, QueueOfOne
  DEF Slot!Overwrite, Slot!Calls, Slot!Ring!Accept, Slot!Ring!Calls, asQueue
<1>3. CASE slot # 0
  <2>1. Append(Tail(asQueue), pushed + 1) = <<pushed + 1>>
    BY <1>3, QueueOfOne
  <2>2. QED
    BY <1>1, <1>3, <2>1, QueueOfOne
    DEF Slot!Overwrite, Slot!Calls, Slot!Ring!Accept, Slot!Ring!Calls, asQueue
<1>4. QED
  BY <1>2, <1>3

\* The threads' states and the notifications are the same in both modules.
LEMMA StepIsRingStep ==
  SlotInv /\ [Slot!Next]_(Slot!vars) => [Slot!Ring!Next]_(Slot!Ring!vars)
<1> SUFFICES ASSUME SlotInv, [Slot!Next]_(Slot!vars)
    PROVE  Slot!Ring!Next \/ UNCHANGED (Slot!Ring!vars)
  OBVIOUS
<1> USE DEF Slot!counters, Slot!Ring!counters, Slot!Waiting, Slot!Ring!Waiting
<1>1. ASSUME NEW p \in Producers, Slot!Refuse(p) PROVE Slot!Ring!Refuse(p)
  BY <1>1 DEF Slot!Refuse, Slot!Calls, Slot!Ring!Refuse, Slot!Ring!Calls
<1>2. ASSUME NEW p \in Producers, Slot!Overwrite(p) PROVE Slot!Ring!Accept(p)
  BY <1>2, OverwriteIsRingAccept
<1>3. ASSUME NEW p \in Producers, Slot!NotifyOne(p) PROVE Slot!Ring!NotifyOne(p)
  BY <1>3 DEF Slot!NotifyOne, Slot!Ring!NotifyOne
<1>4. Slot!Satisfied <=> Slot!Ring!Satisfied
  BY QueueOfOne DEF Slot!Satisfied, Slot!Ring!Satisfied, asQueue
<1>5. ASSUME NEW c \in Consumers, Slot!Return(c) PROVE Slot!Ring!Return(c)
  BY <1>5, TakeIsRingTake DEF Slot!Return, Slot!Ring!Return
<1>6. ASSUME NEW c \in Consumers, Slot!Wait(c) PROVE Slot!Ring!Wait(c)
  BY <1>6 DEF Slot!Wait, Slot!Ring!Wait
<1>7. ASSUME NEW c \in Consumers, Slot!Pop(c) PROVE Slot!Ring!Pop(c)
  BY <1>4, <1>5, <1>6, <1>7
  DEF Slot!Pop, Slot!Ring!Pop, Slot!ConsumerStep, Slot!Ring!ConsumerStep
<1>8. ASSUME NEW c \in Consumers, Slot!WakeUp(c) PROVE Slot!Ring!WakeUp(c)
  BY <1>4, <1>5, <1>6, <1>8
  DEF Slot!WakeUp, Slot!Ring!WakeUp, Slot!ConsumerStep, Slot!Ring!ConsumerStep
<1>9. ASSUME NEW c \in Consumers, Slot!TimeOut(c) PROVE Slot!Ring!TimeOut(c)
  BY <1>5, <1>9
  DEF Slot!TimeOut, Slot!Ring!TimeOut, Slot!ConsumerStep,
      Slot!Ring!ConsumerStep
<1>10. ASSUME NEW c \in Consumers, Slot!SpuriousWakeUp(c) PROVE Slot!Ring!SpuriousWakeUp(c)
  BY <1>10
  DEF Slot!SpuriousWakeUp, Slot!Ring!SpuriousWakeUp, Slot!ConsumerStep,
      Slot!Ring!ConsumerStep
<1>11. ASSUME NEW c \in Consumers, Slot!TryPop(c) PROVE Slot!Ring!TryPop(c)
  BY <1>5, <1>11
  DEF Slot!TryPop, Slot!Ring!TryPop, Slot!ConsumerStep, Slot!Ring!ConsumerStep
<1>12. Slot!Close => Slot!Ring!Close
  BY DEF Slot!Close, Slot!Ring!Close
<1>13. Slot!NotifyAll => Slot!Ring!NotifyAll
  BY DEF Slot!NotifyAll, Slot!Ring!NotifyAll
<1>14. UNCHANGED (Slot!vars) => UNCHANGED (Slot!Ring!vars)
  BY DEF Slot!vars, Slot!Ring!vars
<1>15. QED
  BY ONLY [Slot!Next]_(Slot!vars), <1>1, <1>2, <1>3, <1>7, <1>8, <1>9, <1>10, <1>11, <1>12,
          <1>13, <1>14
  DEF Slot!Next, Slot!Ring!Next

\* A LatestOnlySlot is a DropOldestRing of capacity one.
THEOREM SlotIsRingOfOne == Slot!Spec => Slot!IsRingOfOne
<1>1. Slot!Init => Slot!Ring!Init
  BY DEF Slot!Init, Slot!Ring!Init
<1>2. QED
  BY <1>1, SlotInitInv, SlotStepInv, StepIsRingStep, PTL
  DEF Slot!Spec, Slot!IsRingOfOne, Slot!Ring!Spec

-----------------------------------------------------------------------------
(***************************************************************************)
(* FramePath: one frame on its way to OpenCV, for any geometry of the      *)
(* camera and any padding.                                                 *)
(***************************************************************************)
Geometry == width \in Nat \ {0} /\ height \in Nat \ {0} /\ slack \in Nat

\* The planes of an even frame, in the camera's buffer and in one vector.
Planes ==
  << [data |-> 0, size |-> ChromaOffset, stride |-> Stride, from |-> 0],
     [data |-> ChromaOffset, size |-> MappedSize - ChromaOffset,
      stride |-> Stride, from |-> ChromaOffset] >>

\* Where the planes lie and what the matrix takes of them.
PathInv ==
  /\ Geometry
  /\ stage # "sample" => planes = Planes
  /\ stage \in {"bundled", "materialized", "wrapped"} => Even
  /\ stage = "wrapped" =>
       mat = [r \in 1..(height + height \div 2) |->
               IF Contiguous THEN planes[1].data + (r - 1) * width
               ELSE IF r <= height THEN planes[1].data + (r - 1) * planes[1].stride
               ELSE planes[2].data + (r - 1 - height) * planes[2].stride]

\* The rows are padded to a multiple of 4, and those of an even frame are not
\* rounded up any more.
LEMMA Paddings ==
  ASSUME Geometry
  PROVE  /\ Stride \in Nat /\ Stride >= width
         /\ Even => RoundUp(height, 2) = height
         /\ RoundUp(height, 2) \in Nat /\ RoundUp(height, 2) \div 2 \in Nat
         /\ height \div 2 \in Nat
<1>1. width + 3 \in Nat /\ 4 * ((width + 3) \div 4) >= width /\ (width + 3) \div 4 \in Nat
  BY DEF Geometry
<1>2. /\ (height + 1) \div 2 \in Nat
      /\ height % 2 = 0 => ((height + 1) \div 2) * 2 = height
  BY DEF Geometry
<1>3. /\ Stride = ((width + 4 - 1) \div 4) * 4
      /\ RoundUp(height, 2) = ((height + 2 - 1) \div 2) * 2
  BY DEF Stride, RoundUp
<1>4. width + 4 - 1 = width + 3 /\ height + 2 - 1 = height + 1
  BY DEF Geometry
<1>5. Stride \in Nat /\ Stride >= width
  BY <1>1, <1>3, <1>4
<1>6. RoundUp(height, 2) \in Nat /\ (Even => RoundUp(height, 2) = height)
  BY <1>2, <1>3, <1>4 DEF Even
<1>7. RoundUp(height, 2) \div 2 \in Nat /\ height \div 2 \in Nat
  BY <1>6 DEF Geometry
<1>8. QED
  BY <1>5, <1>6, <1>7

LEMMA PathInitInv == PathInit => PathInv
  BY PathAssumption DEF PathInit, PathInv, Geometry

LEMMA PathStepInv == PathInv /\ [PathNext]_pathVars => PathInv'
<1> SUFFICES ASSUME PathInv, [PathNext]_pathVars
             PROVE  PathInv'
  OBVIOUS
<1>0. UNCHANGED <<width, height, slack>> => /\ Geometry' /\ Planes' = Planes
                                            /\ Even' = Even
  BY DEF PathInv, Geometry, Planes, ChromaOffset, MappedSize, Stride, Even
<1> USE DEF PathInv, geometry, picture
<1>1. CASE CreateFrameFromSample
  BY <1>0, <1>1 DEF CreateFrameFromSample, Planes
<1>2. CASE Preprocess
  BY <1>0, <1>2 DEF Preprocess
<1>3. CASE MaterializeFrame
  BY <1>0, <1>3 DEF MaterializeFrame, Planes
<1>4. CASE WrapNv12
  BY <1>0, <1>4 DEF WrapNv12, Contiguous
<1>5. CASE Postprocess
  BY <1>0, <1>5 DEF Postprocess
<1>6. CASE CompositeOverlay
  BY <1>0, <1>6 DEF CompositeOverlay
<1>7. CASE UNCHANGED pathVars
  BY <1>0, <1>7 DEF pathVars, Contiguous
<1>8. QED
  BY <1>1, <1>2, <1>3, <1>4, <1>5, <1>6, <1>7 DEF PathNext

\* Row k of k rows ends where row k + 1 starts.
LEMMA RowsFollow ==
  ASSUME NEW s \in Nat, NEW n \in Nat, NEW k \in Nat
  PROVE  /\ k * s \in Nat /\ (k + 1) * s = k * s + s
         /\ k < n => k * s + s <= n * s
         /\ (n + k) * s = n * s + k * s
<1>1. k * s \in Nat /\ (k + 1) * s = k * s + s
  OBVIOUS
<1>2. (n + k) * s = n * s + k * s
  OBVIOUS
<1>3. k < n => k * s + s <= n * s
  OBVIOUS
<1>4. QED
  BY <1>1, <1>2, <1>3

\* The matrix OpenCV converts holds the rows of the camera's image, whether WrapNv12
\* used the bytes where they lie or copied them.
THEOREM FrameReachesOpenCvWhole == PathSpec => []MatrixIsTheImage
<1>1. PathInv => MatrixIsTheImage
  <2> SUFFICES ASSUME PathInv, stage = "wrapped", NEW r \in 1..Len(mat)
               PROVE  /\ Origin(mat[r]) = ImageRow(r)
                      /\ Origin(mat[r] + width - 1) = ImageRow(r) + width - 1
    BY DEF MatrixIsTheImage
  <2> DEFINE s == Stride
             c == ChromaOffset
             half == height \div 2
  <2>1. /\ width \in Nat \ {0} /\ height \in Nat /\ slack \in Nat /\ half \in Nat
        /\ s \in Nat /\ s >= width /\ 2 * half = height
    BY Paddings DEF PathInv, Geometry, Even
  <2>2. c = s * height /\ MappedSize = c + s * half + slack
    BY <2>1, Paddings DEF PathInv, ChromaOffset, MappedSize
  <2>3. /\ planes[1].data = 0 /\ planes[1].size = c /\ planes[1].from = 0
        /\ planes[2].data = c /\ planes[2].from = c /\ planes[1].stride = s
        /\ planes[2].stride = s /\ planes[2].size = MappedSize - c
    BY DEF PathInv, Planes
  <2>4. c \in Nat /\ s * half \in Nat /\ planes[2].size = s * half + slack
    <3> HIDE DEF s, c, half
    <3>1. s * height \in Nat /\ s * half \in Nat
      BY <2>1
    <3>2. c \in Nat
      BY <2>2, <3>1
    <3>3. planes[2].size = (c + s * half + slack) - c
      BY <2>2, <2>3
    <3>4. \A x, y, z \in Nat : (x + y + z) - x = y + z
      OBVIOUS
    <3>5. planes[2].size = s * half + slack
      BY <2>1, <3>1, <3>2, <3>3, <3>4
    <3>6. QED
      BY <3>1, <3>2, <3>5
  <2>5. r \in 1..(height + half) /\ r - 1 \in Nat
    <3>1. Len(mat) = height + half
      BY <2>1 DEF PathInv
    <3>2. QED
      BY <2>1, <3>1
  <2>6. mat[r] = IF r <= height THEN (r - 1) * s ELSE c + (r - 1 - height) * s
    <3>1. mat[r] = IF Contiguous THEN (r - 1) * width
                   ELSE IF r <= height THEN (r - 1) * s ELSE c + (r - 1 - height) * s
      BY <2>1, <2>3, <2>4, <2>5 DEF PathInv
    <3>2. Contiguous => width = s
      BY <2>3 DEF Contiguous
    <3>3. r > height => (r - 1) * s = c + (r - 1 - height) * s
      BY <2>1, <2>2, <2>5, RowsFollow
    <3>4. QED
      BY <2>1, <2>5, <3>1, <3>2, <3>3
  <2> HIDE DEF s, c, half
  <2>7. CASE r <= height
    <3> DEFINE a == (r - 1) * s
    <3>1. a \in Nat /\ a + s <= c
      BY <2>1, <2>2, <2>5, <2>7, RowsFollow
    <3>2. ImageRow(r) = a /\ mat[r] = a
      BY <2>6, <2>7 DEF ImageRow, s
    <3> HIDE DEF a
    <3>3. \A b \in {a, a + width - 1} : Origin(b) = b
      BY <2>1, <2>3, <2>4, <3>1 DEF Origin
    <3>4. QED
      BY <3>2, <3>3
  <2>8. CASE r > height
    <3> DEFINE a == (r - 1 - height) * s
    <3>1. a \in Nat /\ a + s <= s * half
      BY <2>1, <2>2, <2>5, <2>8, RowsFollow
    <3>2. ImageRow(r) = c + a /\ mat[r] = c + a
      BY <2>1, <2>5, <2>6, <2>8 DEF ImageRow, s, c
    <3> HIDE DEF a
    <3>3. \A b \in {c + a, c + a + width - 1} : Origin(b) = b
      BY <2>1, <2>3, <2>4, <3>1 DEF Origin
    <3>4. QED
      BY <3>2, <3>3
  <2>9. QED
    BY <2>1, <2>5, <2>7, <2>8
<1>2. QED
  BY <1>1, PathInitInv, PathStepInv, PTL DEF PathSpec

-----------------------------------------------------------------------------
\* The arithmetic of CompositeOverlay.

\* Division of naturals.
LEMMA Division ==
  ASSUME NEW n \in Nat, NEW d \in Nat \ {0}
  PROVE  /\ n \div d \in Nat
         /\ (n \div d) * d <= n /\ n < (n \div d) * d + d
         /\ n % d = 0 => (n \div d) * d = n
<1>1. PICK q \in Int : q = n \div d
  OBVIOUS
<1>2. q * d <= n /\ n < q * d + d
  BY <1>1
<1>3. n % d = 0 => q * d = n
  BY <1>1
<1>4. q >= 0
  <2>1. CASE q < 0
    <3>1. q * d <= (-1) * d
      BY <2>1
    <3>2. QED
      BY <1>2, <3>1
  <2>2. QED
    BY <2>1
<1>5. QED
  BY <1>1, <1>2, <1>3, <1>4

\* A result that is the exact value to a level and a half.
CloseTo(u, c, a, result) ==
  \E exact \in Int, error \in Int :
    /\ exact = 255 * c + u * (255 - a) /\ error = 2 * (255 * result - exact)
    /\ -3 * 255 <= error /\ error <= 255

\* Unpremultiply rounds to the nearest, Blend truncates.
LEMMA BlendIsClose ==
  ASSUME NEW u \in 0..255, NEW a \in 0..255, NEW c \in 0..a
  PROVE  CloseTo(u, c, a, Blend(u, c, a))
<1>1. CASE a = 0
  <2>1. Blend(u, c, a) = u /\ c = 0
    BY <1>1 DEF Blend
  <2>2. 0 = 2 * (255 * u - 255 * u) /\ 255 * u = 255 * 0 + u * (255 - 0) /\ 255 * u \in Int
    OBVIOUS
  <2>3. QED
    BY <1>1, <2>1, <2>2 DEF CloseTo
<1>2. CASE a # 0
  <2>1. PICK h \in Nat : h = a \div 2 /\ 2 * h <= a /\ a < 2 * h + 2
    OBVIOUS
  <2>2. PICK n \in Nat : n = c * 255 + h
    BY <2>1
  <2>3. PICK s \in Nat : s = n \div a /\ s * a <= n /\ n < s * a + a
    BY <1>2, Division
  <2>4. s <= 255
    <3>1. CASE s >= 256
      <4>1. s * a >= 256 * a
        BY <3>1
      <4>2. n < 256 * a
        BY <1>2, <2>1, <2>2
      <4>3. QED
        BY <2>3, <4>1, <4>2
    <3>2. QED
      BY <3>1
  <2>5. Unpremultiply(c, a) = s
    BY <1>2, <2>1, <2>2, <2>3, <2>4 DEF Unpremultiply, Least
  <2>6. PICK v \in Nat : v = u * (255 - a)
    <3>1. 255 - a \in Nat
      OBVIOUS
    <3>2. QED
      BY <3>1
  <2>7. PICK p \in Nat : p = s * a
    OBVIOUS
  <2>8. PICK t \in Nat : t = (v + p) \div 255 /\ 255 * t <= v + p /\ v + p < 255 * t + 255
    BY Z3
  <2>9. Blend(u, c, a) = t
    BY <1>2, <2>5, <2>6, <2>7, <2>8 DEF Blend
  <2>10. p <= 255 * c + h /\ 255 * c + h < p + a
    BY <2>2, <2>3, <2>7
  <2>11. /\ -3 * 255 <= 2 * (255 * t - (255 * c + v))
         /\ 2 * (255 * t - (255 * c + v)) <= 255
    BY <2>1, <2>8, <2>10
  <2>12. PICK exact \in Int : exact = 255 * c + v
    OBVIOUS
  <2>13. PICK error \in Int : error = 2 * (255 * t - exact)
    OBVIOUS
  <2>14. QED
    BY <2>6, <2>9, <2>11, <2>12, <2>13 DEF CloseTo
<1>3. QED
  BY <1>1, <1>2

\* The pixel of the output is the one Cairo drew laid over the frame's, to a level
\* and a half, whatever its alpha (CompositeOverlay).
THEOREM BlendingIsExact == PathSpec => []PixelIsBlended
<1>1. PathInit => PixelIsBlended
  BY DEF PathInit, PixelIsBlended
<1>2. PixelIsBlended /\ [PathNext]_pathVars => PixelIsBlended'
  <2> SUFFICES ASSUME PixelIsBlended, [PathNext]_pathVars
               PROVE  PixelIsBlended'
    OBVIOUS
  <2>1. CASE CreateFrameFromSample \/ Preprocess \/ MaterializeFrame \/ WrapNv12 \/ Postprocess
    BY <2>1 DEF CreateFrameFromSample, Preprocess, MaterializeFrame, WrapNv12, Postprocess,
                PixelIsBlended
  <2>2. CASE CompositeOverlay
    <3>1. PICK u \in Unders, a \in Alphas : \E c \in {0, a \div 2, a} :
            pixel' = [under |-> u, premultiplied |-> c, alpha |-> a, result |-> Blend(u, c, a)]
      BY <2>2 DEF CompositeOverlay
    <3>2. PICK c \in {0, a \div 2, a} :
            pixel' = [under |-> u, premultiplied |-> c, alpha |-> a, result |-> Blend(u, c, a)]
      BY <3>1
    <3>3. u \in 0..255 /\ a \in 0..255
      BY PathAssumption
    <3>4. c \in 0..a
      BY <3>3
    <3>5. /\ pixel'.under = u /\ pixel'.premultiplied = c /\ pixel'.alpha = a
          /\ pixel'.result = Blend(u, c, a)
      BY <3>2
    <3>6. CloseTo(u, c, a, Blend(u, c, a))
      BY <3>3, <3>4, BlendIsClose
    <3>7. QED
      BY <3>5, <3>6 DEF PixelIsBlended, CloseTo
  <2>3. CASE UNCHANGED pathVars
    BY <2>3 DEF pathVars, picture, PixelIsBlended
  <2>4. QED
    BY <2>1, <2>2, <2>3 DEF PathNext
<1>3. QED
  BY <1>1, <1>2, PTL DEF PathSpec

-----------------------------------------------------------------------------
\* A product and quotient in doubles, truncated.
LEMMA TruncatedIsClose ==
  ASSUME NEW n \in Nat, NEW num \in Nat \ {0}, NEW den \in Nat \ {0},
         NEW t \in Truncated(n, num, den)
  PROVE  t \in Nat /\ t * den <= n * num /\ n * num <= t * den + den
<1>1. PICK m \in Nat : m = n * num
  OBVIOUS
<1>2. PICK q \in Nat : /\ q = m \div den /\ q * den <= m /\ m < q * den + den
                       /\ m % den = 0 => q * den = m
  BY <1>1, Division
<1>3. t = q \/ (m % den = 0 /\ q > 0 /\ t = q - 1)
  BY <1>1, <1>2 DEF Truncated
<1>4. CASE t = q
  BY <1>1, <1>2, <1>4
<1>5. CASE m % den = 0 /\ q > 0 /\ t = q - 1
  <2>1. t \in Nat /\ t * den + den = q * den
    BY <1>5
  <2>2. QED
    BY <1>1, <1>2, <1>5, <2>1
<1>6. QED
  BY <1>3, <1>4, <1>5

\* What is said of the two sides of a picture o1 by o2, drawn w by h in a frame of
\* f1 by f2.
Fitted(f1, f2, o1, o2, w, h) ==
  /\ w \in 1..f1 /\ h \in 1..f2 /\ (f1 - w <= 1 \/ f2 - h <= 1)
  /\ w * o2 - h * o1 <= Most(o1, o2) /\ h * o1 - w * o2 <= Most(o1, o2)

\* When the scale is that of the first side, the overlay fills it to a pixel.
LEMMA FirstSideFills ==
  ASSUME NEW f1 \in Nat \ {0}, NEW f2 \in Nat \ {0}, NEW o1 \in Nat \ {0}, NEW o2 \in Nat \ {0},
         f1 * o2 <= f2 * o1,
         NEW n \in Truncated(o1, f1, o1), NEW m \in Truncated(o2, f1, o1),
         NEW w, w = Most(1, n), NEW h, h = Most(1, m)
  PROVE  /\ w \in 1..f1 /\ h \in 1..f2 /\ f1 - w <= 1
         /\ w * o2 - h * o1 <= Most(o1, o2) /\ h * o1 - w * o2 <= Most(o1, o2)
<1>1. n \in Nat /\ n * o1 <= o1 * f1 /\ o1 * f1 <= n * o1 + o1
  BY TruncatedIsClose
<1>2. m \in Nat /\ m * o1 <= o2 * f1 /\ o2 * f1 <= m * o1 + o1
  BY TruncatedIsClose
<1>3. n <= f1 /\ f1 <= n + 1
  <2>1. CASE n > f1
    <3>1. n * o1 >= (f1 + 1) * o1 /\ (f1 + 1) * o1 = f1 * o1 + o1
      BY <1>1, <2>1
    <3>2. QED
      BY <1>1, <3>1
  <2>2. CASE f1 > n + 1
    <3>1. f1 * o1 >= (n + 2) * o1 /\ (n + 2) * o1 = n * o1 + o1 + o1
      BY <1>1, <2>2
    <3>2. QED
      BY <1>1, <3>1
  <2>3. QED
    BY <1>1, <2>1, <2>2
<1>4. m <= f2
  <2>1. CASE m > f2
    <3>1. m * o1 >= (f2 + 1) * o1 /\ (f2 + 1) * o1 = f2 * o1 + o1
      BY <1>2, <2>1
    <3>2. QED
      BY <1>2, <3>1
  <2>2. QED
    BY <1>2, <2>1
<1>5. /\ w \in 1..f1 /\ h \in 1..f2 /\ f1 - w <= 1 /\ h >= m /\ (h = m \/ h = 1)
  BY <1>1, <1>2, <1>3, <1>4 DEF Most
<1>6. PICK k \in Nat : k = Most(o1, o2) /\ o1 <= k /\ o2 <= k
  BY DEF Most
<1>7. w * o2 <= h * o1 + o1
  <2>1. w * o2 <= f1 * o2
    BY <1>5
  <2>2. m * o1 <= h * o1
    BY <1>2, <1>5
  <2>3. QED
    BY <1>2, <1>5, <2>1, <2>2
<1>8. h * o1 <= w * o2 + k
  <2>1. f1 * o2 <= (w + 1) * o2 /\ (w + 1) * o2 = w * o2 + o2
    BY <1>5
  <2>2. w * o2 \in Nat
    BY <1>5
  <2>3. CASE h = m
    BY <1>2, <1>6, <2>1, <2>2, <2>3
  <2>4. CASE h = 1
    BY <1>6, <2>2, <2>4
  <2>5. QED
    BY <1>5, <2>3, <2>4
<1>9. w * o2 - h * o1 <= k /\ h * o1 - w * o2 <= k
  <2>1. PICK a \in Nat, b \in Nat : a = w * o2 /\ b = h * o1
    BY <1>5
  <2>2. QED
    BY <1>6, <1>7, <1>8, <2>1
<1>10. QED
  BY <1>5, <1>6, <1>9

\* So it is with either side.
LEMMA PlacementFits ==
  ASSUME NEW f \in (Nat \ {0}) \X (Nat \ {0}), NEW o \in (Nat \ {0}) \X (Nat \ {0}),
         NEW d \in Placements(f, o)
  PROVE  /\ Fitted(f[1], f[2], o[1], o[2], d.w, d.h)
         /\ d.x = (f[1] - d.w) \div 2 /\ d.y = (f[2] - d.h) \div 2
<1>1. PICK f1 \in Nat \ {0}, f2 \in Nat \ {0}, o1 \in Nat \ {0}, o2 \in Nat \ {0} :
        f[1] = f1 /\ f[2] = f2 /\ o[1] = o1 /\ o[2] = o2
  OBVIOUS
<1>2. PICK num \in Nat \ {0}, den \in Nat \ {0} :
        /\ Scale(f, o)[1] = num /\ Scale(f, o)[2] = den
        /\ IF f1 * o2 <= f2 * o1 THEN num = f1 /\ den = o1 ELSE num = f2 /\ den = o2
  BY <1>1 DEF Scale
<1>3. PICK n \in Truncated(o1, num, den), m \in Truncated(o2, num, den) : \E w, h :
        /\ w = Most(1, n) /\ h = Most(1, m)
        /\ d = [x |-> (f1 - Least(f1, w)) \div 2, y |-> (f2 - Least(f2, h)) \div 2,
                w |-> w, h |-> h]
  BY <1>1, <1>2 DEF Placements
<1>4. PICK w, h :
        /\ w = Most(1, n) /\ h = Most(1, m)
        /\ d = [x |-> (f1 - Least(f1, w)) \div 2, y |-> (f2 - Least(f2, h)) \div 2,
                w |-> w, h |-> h]
  BY <1>3
<1>5. Fitted(f1, f2, o1, o2, w, h)
  <2>1. CASE f1 * o2 <= f2 * o1
    BY <1>2, <1>4, <2>1, FirstSideFills DEF Fitted
  <2>2. CASE ~(f1 * o2 <= f2 * o1)
    <3>1. f2 * o1 <= f1 * o2
      BY <2>2
    <3>2. /\ h \in 1..f2 /\ w \in 1..f1 /\ f2 - h <= 1
          /\ h * o1 - w * o2 <= Most(o2, o1) /\ w * o2 - h * o1 <= Most(o2, o1)
      BY <1>2, <1>4, <2>2, <3>1, FirstSideFills
    <3>3. Most(o2, o1) = Most(o1, o2)
      BY DEF Most
    <3>4. QED
      BY <3>2, <3>3 DEF Fitted
  <2>3. QED
    BY <2>1, <2>2
<1>6. Least(f1, w) = w /\ Least(f2, h) = h
  BY <1>5 DEF Fitted, Least
<1>7. QED
  BY <1>1, <1>4, <1>5, <1>6

LEMMA CentredInside ==
  ASSUME NEW f \in Nat \ {0}, NEW d \in 1..f, NEW x, x = (f - d) \div 2
  PROVE  x \in Nat /\ f - d - 2 * x \in {0, 1} /\ \A t \in 0..(d - 1) : x + t < f
<1>1. PICK n \in Nat : n = f - d
  OBVIOUS
<1>2. x \in Nat /\ 2 * x <= n /\ n < 2 * x + 2
  BY <1>1
<1>3. f - d - 2 * x \in {0, 1}
  BY <1>1, <1>2
<1>4. \A t \in 0..(d - 1) : x + t < f
  BY <1>1, <1>2
<1>5. QED
  BY <1>2, <1>3, <1>4

LEMMA SampledInside ==
  ASSUME NEW f \in (Nat \ {0}) \X (Nat \ {0}), NEW o \in (Nat \ {0}) \X (Nat \ {0}),
         NEW t \in Nat, NEW size \in Nat \ {0}, NEW i \in Samples(t, Scale(f, o), size)
  PROVE  i \in 0..(size - 1)
<1>1. PICK num \in Nat \ {0}, den \in Nat \ {0} : Scale(f, o)[1] = num /\ Scale(f, o)[2] = den
  BY DEF Scale
<1>2. PICK n \in Truncated(t, den, num) : i = Least(size - 1, n)
  BY <1>1 DEF Samples
<1>3. n \in Nat
  BY TruncatedIsClose
<1>4. QED
  BY <1>2, <1>3 DEF Least

FitInv == /\ stage = "resized" => out \in Outputs
          /\ OverlayIsFitted

LEMMA CompositeFits ==
  ASSUME FitInv, CompositeOverlay
  PROVE  FitInv'
<1>1. /\ out \in (Nat \ {0}) \X (Nat \ {0}) /\ overlay' \in (Nat \ {0}) \X (Nat \ {0})
      /\ out' = out /\ stage' = "composited" /\ drawn' \in Placements(out, overlay')
  BY PathAssumption DEF FitInv, CompositeOverlay
<1>2. PICK f, o, d : f = out /\ o = overlay' /\ d = drawn'
  OBVIOUS
<1>3. /\ Fitted(f[1], f[2], o[1], o[2], d.w, d.h)
      /\ d.x = (f[1] - d.w) \div 2 /\ d.y = (f[2] - d.h) \div 2
  BY <1>1, <1>2, PlacementFits
<1>4. PICK f1 \in Nat \ {0}, f2 \in Nat \ {0}, o1 \in Nat \ {0}, o2 \in Nat \ {0} :
        f[1] = f1 /\ f[2] = f2 /\ o[1] = o1 /\ o[2] = o2
  BY <1>1, <1>2
<1>5. PICK w \in 1..f1, h \in 1..f2 : w = d.w /\ h = d.h
  BY <1>3, <1>4 DEF Fitted
<1>6. /\ d.x \in Nat /\ f1 - w - 2 * d.x \in {0, 1} /\ \A t \in 0..(w - 1) : d.x + t < f1
      /\ d.y \in Nat /\ f2 - h - 2 * d.y \in {0, 1} /\ \A t \in 0..(h - 1) : d.y + t < f2
  BY <1>3, <1>4, <1>5, CentredInside
<1>7. /\ \A t \in 0..(w - 1) : \A i \in Samples(t, Scale(f, o), o1) : i \in 0..(o1 - 1)
      /\ \A t \in 0..(h - 1) : \A i \in Samples(t, Scale(f, o), o2) : i \in 0..(o2 - 1)
  BY <1>1, <1>2, SampledInside
<1>8. /\ w <= f1 /\ h <= f2 /\ (f1 - w <= 1 \/ f2 - h <= 1)
      /\ w * o2 - h * o1 <= Most(o1, o2) /\ h * o1 - w * o2 <= Most(o1, o2)
  BY <1>3, <1>4, <1>5 DEF Fitted
<1>9. StaysInside(drawn.w, overlay[1], drawn.x, out[1])'
  BY <1>1, <1>2, <1>4, <1>5, <1>6, <1>7 DEF StaysInside
<1>10. StaysInside(drawn.h, overlay[2], drawn.y, out[2])'
  BY <1>1, <1>2, <1>4, <1>5, <1>6, <1>7 DEF StaysInside
<1>11. QED
  BY <1>1, <1>2, <1>4, <1>5, <1>6, <1>8, <1>9, <1>10 DEF FitInv, OverlayIsFitted

\* Wherever the sizes put it, the overlay is drawn inside the frame, centred and
\* in its proportions, and sampled inside the picture (CompositeOverlay).
THEOREM OverlayFits == PathSpec => []OverlayIsFitted
<1>1. PathInit => FitInv
  BY DEF PathInit, FitInv, OverlayIsFitted
<1>2. FitInv /\ [PathNext]_pathVars => FitInv'
  <2> SUFFICES ASSUME FitInv, [PathNext]_pathVars PROVE FitInv'
    OBVIOUS
  <2>1. CASE CreateFrameFromSample \/ Preprocess \/ MaterializeFrame \/ WrapNv12
    BY <2>1 DEF CreateFrameFromSample, Preprocess, MaterializeFrame, WrapNv12, FitInv,
                OverlayIsFitted
  <2>2. CASE Postprocess
    BY <2>2 DEF Postprocess, FitInv, OverlayIsFitted
  <2>3. CASE CompositeOverlay
    BY <2>3, CompositeFits
  <2>4. CASE UNCHANGED pathVars
    BY <2>4 DEF pathVars, picture, FitInv, OverlayIsFitted, StaysInside
  <2>5. QED
    BY <2>1, <2>2, <2>3, <2>4 DEF PathNext
<1>3. FitInv => OverlayIsFitted
  BY DEF FitInv
<1>4. QED
  BY <1>1, <1>2, <1>3, PTL DEF PathSpec

-----------------------------------------------------------------------------
(***************************************************************************)
(* The overlay.  Drawing an element leaves the context as it found it - no *)
(* error, no clip, no saved state, one surface - and lays at most one unit *)
(* over what is there.  So the picture is at any time the units of the     *)
(* elements drawn so far, in the order of the layers.                      *)
(***************************************************************************)
\* A context that is not in error, its innermost surface last.
Surface(clip, saved, layers) ==
  [error |-> FALSE, clip |-> clip, saved |-> saved, layers |-> layers]

One(us) == <<us>>
Two(us, group) == <<us, group>>

Canvas(us) == Surface({}, <<>>, One(us))

\* What a surface is when its layers are replaced.
LEMMA LayersReplaced ==
  ASSUME NEW clip, NEW saved, NEW layers, NEW replaced
  PROVE  /\ [Surface(clip, saved, layers) EXCEPT !.layers = replaced] = Surface(clip, saved, replaced)
         /\ Surface(clip, saved, layers).layers = layers
         /\ ~Surface(clip, saved, layers).error
<1>1. [Surface(clip, saved, layers) EXCEPT !.layers = replaced] = Surface(clip, saved, replaced)
  <2>1. PICK r : r = [error |-> FALSE, clip |-> clip, saved |-> saved, layers |-> layers]
    OBVIOUS
  <2>2. [r EXCEPT !.layers = replaced]
          = [error |-> FALSE, clip |-> clip, saved |-> saved, layers |-> replaced]
    <3>1. PICK t : t = [r EXCEPT !.layers = replaced]
      OBVIOUS
    <3>2. /\ DOMAIN t = {"error", "clip", "saved", "layers"} /\ t.error = FALSE
          /\ t.clip = clip /\ t.saved = saved /\ t.layers = replaced
          /\ t = [f \in DOMAIN t |-> t[f]]
      BY <2>1, <3>1
    <3>3. t = [error |-> FALSE, clip |-> clip, saved |-> saved, layers |-> replaced]
      BY <3>2
    <3>4. QED
      BY <3>1, <3>3
  <2>3. QED
    BY <2>1, <2>2, Zenon DEF Surface
<1>2. Surface(clip, saved, layers).layers = layers
  BY DEF Surface
<1>3. ~Surface(clip, saved, layers).error
  BY DEF Surface
<1>4. QED
  BY <1>1, <1>2, <1>3

\* What a part of an element comes to.
Part(e, part) == [of |-> e.name, part |-> part, alpha |-> Opaque]
Unit(parts, alpha) == [parts |-> parts, alpha |-> alpha]

\* A unit laid on the innermost of the surfaces.
Laid(layers, unit) == [layers EXCEPT ![Len(layers)] = Append(@, unit)]

\* One or two surfaces as a stack.
LEMMA Layers ==
  ASSUME NEW us, NEW g, NEW h
  PROVE  /\ Len(<<us, g>>) = 2 /\ Last(<<us, g>>) = g /\ Front(<<us, g>>) = <<us>>
         /\ [<<us, g>> EXCEPT ![Len(<<us, g>>)] = h] = <<us, h>>
         /\ Append(<<us>>, g) = <<us, g>>
         /\ Len(<<us>>) = 1 /\ Last(<<us>>) = us /\ [<<us>> EXCEPT ![Len(<<us>>)] = h] = <<h>>
<1>1. Len(<<us, g>>) = 2 /\ Last(<<us, g>>) = g /\ Len(<<us>>) = 1 /\ Last(<<us>>) = us
  BY DEF Last
<1>0. PICK S : S = {us, g}
  OBVIOUS
<1>2. Front(<<us, g>>) = <<us>>
  <2>1. PICK t, f, o : t = <<us, g>> /\ f = SubSeq(t, 1, 1) /\ o = <<us>>
    OBVIOUS
  <2>2. t \in Seq(S) /\ o \in Seq(S) /\ o[1] = us /\ Len(o) = 1 /\ t[1] = us
    BY <1>0, <2>1
  <2>3. f \in Seq(S) /\ Len(f) = 1 /\ f[1] = t[1]
    <3>1. \A i \in 1..1 : t[i] \in S
      BY <1>0, <2>2
    <3>2. f \in Seq(S) /\ Len(f) = (IF 1 <= 1 THEN 1 - 1 + 1 ELSE 0)
          /\ \A i \in 1..(1 - 1 + 1) : f[i] = t[1 + i - 1]
      BY <2>1, <3>1, SubSeqProperties
    <3>3. QED
      BY <3>2
  <2>4. f = o
    BY <2>2, <2>3, SeqEqual
  <2>5. Front(t) = SubSeq(t, 1, 1)
    BY <1>1, <2>1 DEF Front
  <2>6. QED
    BY <2>1, <2>4, <2>5
<1>3. [<<us, g>> EXCEPT ![Len(<<us, g>>)] = h] = <<us, h>>
  BY <1>1
<1>4. [<<us>> EXCEPT ![Len(<<us>>)] = h] = <<h>>
  BY <1>1
<1>5. Append(<<us>>, g) = <<us, g>>
  <2>1. PICK t, a, o : t = <<us, g>> /\ a = Append(o, g) /\ o = <<us>>
    OBVIOUS
  <2>2. /\ t \in Seq(S) /\ o \in Seq(S) /\ o[1] = us /\ t[1] = us /\ t[2] = g
        /\ Len(t) = 2 /\ Len(o) = 1 /\ g \in S
    BY <1>0, <2>1
  <2>3. a \in Seq(S) /\ Len(a) = 2 /\ a[1] = us /\ a[2] = g
    BY <2>1, <2>2, AppendProperties
  <2>4. a = t
    BY <2>2, <2>3, SeqEqual
  <2>5. QED
    BY <2>1, <2>4
<1>6. QED
  BY <1>1, <1>2, <1>3, <1>4, <1>5

LEMMA TwoLayers ==
  ASSUME NEW us, NEW g
  PROVE  /\ Last(Two(us, g)) = g /\ Front(Two(us, g)) = One(us) /\ Append(One(us), g) = Two(us, g)
         /\ Append(<<>>, us) = One(us)
<1>1. Last(Two(us, g)) = g
  BY DEF Two, Last
<1>2. Front(Two(us, g)) = One(us)
  BY Layers DEF One, Two
<1>3. Append(One(us), g) = Two(us, g)
  BY Layers DEF One, Two
<1>4. Append(<<>>, us) = One(us)
  BY DEF One
<1>5. QED
  BY <1>1, <1>2, <1>3, <1>4

LEMMA LaidOver ==
  ASSUME NEW us, NEW g, NEW unit
  PROVE  /\ Laid(One(us), unit) = One(Append(us, unit))
         /\ Laid(Two(us, g), unit) = Two(us, Append(g, unit))
<1>1. <<us>>[Len(<<us>>)] = us /\ <<us, g>>[Len(<<us, g>>)] = g
  BY Layers DEF Last
<1>2. [<<us>> EXCEPT ![Len(<<us>>)] = Append(us, unit)] = <<Append(us, unit)>>
  BY Layers
<1>3. [<<us, g>> EXCEPT ![Len(<<us, g>>)] = Append(g, unit)] = <<us, Append(g, unit)>>
  BY Layers
<1>4. QED
  BY <1>1, <1>2, <1>3, Zenon DEF Laid, One, Two

\* Restoring what was saved.
LEMMA LastSaved ==
  ASSUME NEW saved \in Seq({{}}), NEW x
  PROVE  Last(Append(saved, x)) = x /\ Front(Append(saved, x)) = saved
<1>1. PICK S : S = {{}, x}
  OBVIOUS
<1>2. saved \in Seq(S)
  <2>1. {{}} \subseteq S
    BY <1>1
  <2>2. QED
    BY <2>1, SeqMonotonic
<1>3. PICK n : n = Len(saved)
  OBVIOUS
<1>4. PICK s : s = Append(saved, x)
  OBVIOUS
<1>5. /\ s \in Seq(S) /\ Len(s) = n + 1 /\ n \in Nat /\ s[n + 1] = x
      /\ \A k \in 1..n : s[k] = saved[k]
  <2>1. x \in S
    BY <1>1
  <2>2. QED
    BY <1>2, <1>3, <1>4, <2>1, AppendProperties, LenProperties
<1>6. SubSeq(s, 1, n) = saved
  BY <1>2, <1>3, <1>5
<1>7. QED
  BY <1>4, <1>5, <1>6 DEF Last, Front

\* Laying something in a context without error, within the element's own clip.
LEMMA LayOnTop ==
  ASSUME NEW e, NEW clip, clip \subseteq {e.name}, NEW saved, NEW layers, NEW unit
  PROVE  Lay(Surface(clip, saved, layers), e, unit)
           = Surface(clip, saved, Laid(layers, unit))
  BY DEF Lay, Try, Surface, Laid

\* Cairo leaves an alpha alone that is in its range: the mapper clamped it.
LEMMA AlphaKept ==
  ASSUME NEW alpha \in 0..Opaque
  PROVE  Max({0, Min({Opaque, alpha})}) = alpha
<1>1. Opaque \in Nat
  BY DrawingAssumption
<1>2. Min({Opaque, alpha}) = alpha
  BY <1>1 DEF Min
<1>3. Max({0, alpha}) = alpha
  BY <1>1 DEF Max
<1>4. QED
  BY <1>2, <1>3

LEMMA PaintOnTop ==
  ASSUME NEW e, NEW clip, clip \subseteq {e.name}, NEW saved, NEW layers, NEW part,
         NEW alpha \in 0..Opaque
  PROVE  Paint(Surface(clip, saved, layers), e, part, alpha)
           = Surface(clip, saved, Laid(layers, Unit(<<Part(e, part)>>, alpha)))
<1> DEFINE c == Surface(clip, saved, layers)
           unit == Unit(<<Part(e, part)>>, alpha)
<1>1. [parts |-> <<[of |-> e.name, part |-> part, alpha |-> Opaque]>>,
       alpha |-> Max({0, Min({Opaque, alpha})})] = unit
  BY AlphaKept DEF Unit, Part
<1>2. Paint(c, e, part, alpha) = Lay(c, e, unit)
  BY <1>1, Zenon DEF Paint
<1> HIDE DEF unit
<1>3. Lay(c, e, unit) = Surface(clip, saved, Laid(layers, unit))
  BY LayOnTop
<1>4. QED
  BY <1>2, <1>3 DEF unit

\* The clip of the glyphs is gone when they are painted.
LEMMA GlyphsOnTop ==
  ASSUME NEW e, NEW saved \in Seq({{}}), NEW layers, NEW alpha \in 0..Opaque
  PROVE  Clipped(Surface({}, saved, layers), e, alpha)
           = Surface({}, saved, Laid(layers, Unit(<<Part(e, "glyphs")>>, alpha)))
<1> DEFINE after == Laid(layers, Unit(<<Part(e, "glyphs")>>, alpha))
           c == Surface({}, saved, layers)
           inside == Surface({e.name}, Append(saved, {}), layers)
<1>1. Paint(c, e, "glyphs", alpha) = Surface({}, saved, after)
  BY PaintOnTop
<1>2. Paint(inside, e, "glyphs", alpha) = Surface({e.name}, Append(saved, {}), after)
  <2>1. {e.name} \subseteq {e.name}
    OBVIOUS
  <2>2. QED
    BY <2>1, PaintOnTop
<1>3. Clip(Save(c), e.name) = inside
  <2>1. Save(c) = Surface({}, Append(saved, {}), layers)
    BY DEF Save, Try, Surface
  <2>2. Clip(Surface({}, Append(saved, {}), layers), e.name) = inside
    BY DEF Clip, Try, Surface
  <2>3. QED
    BY <2>1, <2>2
<1> HIDE DEF after, c, inside
<1>4. Restore(Surface({e.name}, Append(saved, {}), after)) = Surface({}, saved, after)
  BY LastSaved DEF Restore, Try, Surface
<1>5. Clipped(c, e, alpha) = Surface({}, saved, after)
  BY <1>1, <1>2, <1>3, <1>4 DEF Clipped
<1>6. QED
  BY <1>5 DEF c, after

\* What an element is painted as: nothing, or one unit.
Box(e) == Valid(e.fill) /\ e.area
Parts(e) ==
  IF e.shape = "text" /\ HasGlyphs(e)
  THEN IF Box(e) THEN <<Part(e, "fill"), Part(e, "glyphs")>> ELSE <<Part(e, "glyphs")>>
  ELSE IF e.shape \in {"rect", "circle", "text"} /\ Box(e) THEN <<Part(e, "fill")>> ELSE <<>>
Over(us, e) == IF Parts(e) = <<>> THEN us ELSE Append(us, Unit(Parts(e), e.opacity))

\* A box, and a circle, whose scaling needs the extents that were checked before.
LEMMA BoxOnTop ==
  ASSUME NEW e, NEW us, NEW alpha \in 0..Opaque
  PROVE  FillBox(Canvas(us), e, alpha)
           = IF Box(e) THEN Canvas(Append(us, Unit(<<Part(e, "fill")>>, alpha))) ELSE Canvas(us)
<1>1. Laid(One(us), Unit(<<Part(e, "fill")>>, alpha)) = One(Append(us, Unit(<<Part(e, "fill")>>, alpha)))
  BY LaidOver
<1>2. Paint(Canvas(us), e, "fill", alpha) = Canvas(Append(us, Unit(<<Part(e, "fill")>>, alpha)))
  <2>1. {} \subseteq {e.name}
    OBVIOUS
  <2>2. Paint(Surface({}, <<>>, One(us)), e, "fill", alpha)
          = Surface({}, <<>>, Laid(One(us), Unit(<<Part(e, "fill")>>, alpha)))
    BY <2>1, PaintOnTop
  <2>3. QED
    BY <1>1, <2>2, Zenon DEF Canvas
<1>3. QED
  BY <1>2 DEF FillBox, Box

LEMMA CircleOnTop ==
  ASSUME NEW e, NEW us, NEW alpha \in 0..Opaque, e.opacity = alpha
  PROVE  DrawCircle(Canvas(us), e) = FillBox(Canvas(us), e, alpha)
<1>1. CASE Box(e)
  <2>1. Save(Canvas(us)) = Surface({}, Append(<<>>, {}), One(us))
    BY DEF Save, Try, Surface, Canvas
  <2>2. ScaleTo(Save(Canvas(us)), e) = Save(Canvas(us))
    BY <1>1 DEF ScaleTo, Box
  <2>3. <<>> \in Seq({{}})
    OBVIOUS
  <2>4. Restore(Surface({}, Append(<<>>, {}), One(us))) = Canvas(us)
    BY <2>3, LastSaved DEF Restore, Try, Surface, Canvas
  <2>5. QED
    BY <1>1, <2>1, <2>2, <2>4 DEF DrawCircle, Box
<1>2. CASE ~Box(e)
  BY <1>2 DEF DrawCircle, FillBox, Box
<1>3. QED
  BY <1>1, <1>2

\* A group of opaque parts, laid over as one.
LEMMA FlattenOne ==
  ASSUME NEW p
  PROVE  Flatten(<<Unit(<<[of |-> p.of, part |-> p.part, alpha |-> Opaque]>>, Opaque)>>)
           = <<[of |-> p.of, part |-> p.part, alpha |-> Opaque]>>
<1> DEFINE q == [of |-> p.of, part |-> p.part, alpha |-> Opaque]
           u == Unit(<<q>>, Opaque)
<1>1. (Opaque * Opaque) \div Opaque = Opaque
  BY DrawingAssumption
<1>2. u.alpha = Opaque /\ u.parts[1] = q /\ q.alpha = Opaque
  BY DEF Unit
<1>3. [q EXCEPT !.alpha = (@ * Opaque) \div Opaque] = q
  BY <1>1
<1> HIDE DEF q, u
<1>4. Flatten(<<u>>) = [i \in DOMAIN <<u>> |-> [u.parts[1] EXCEPT !.alpha = (@ * u.alpha) \div Opaque]]
  BY DEF Flatten
<1>5. Flatten(<<u>>) = [i \in DOMAIN <<u>> |-> q]
  BY <1>2, <1>3, <1>4
<1>6. [i \in DOMAIN <<u>> |-> q] = <<q>>
  OBVIOUS
<1>7. QED
  BY <1>5, <1>6 DEF q, u

LEMMA FlattenTwo ==
  ASSUME NEW e, NEW a, NEW b
  PROVE  Flatten(<<Unit(<<Part(e, a)>>, Opaque), Unit(<<Part(e, b)>>, Opaque)>>)
           = <<Part(e, a), Part(e, b)>>
<1> DEFINE u == Unit(<<Part(e, a)>>, Opaque)
           v == Unit(<<Part(e, b)>>, Opaque)
<1>1. (Opaque * Opaque) \div Opaque = Opaque
  BY DrawingAssumption
<1>2. /\ u.alpha = Opaque /\ u.parts[1] = Part(e, a) /\ v.alpha = Opaque /\ v.parts[1] = Part(e, b)
  BY DEF Unit
<1>3. \A part : [Part(e, part) EXCEPT !.alpha = (@ * Opaque) \div Opaque] = Part(e, part)
  BY <1>1 DEF Part
<1> HIDE DEF u, v
<1>4. <<u, v>>[1] = u /\ <<u, v>>[2] = v /\ DOMAIN <<u, v>> = {1, 2}
  OBVIOUS
<1>5. /\ DOMAIN Flatten(<<u, v>>) = {1, 2}
      /\ Flatten(<<u, v>>)[1] = Part(e, a) /\ Flatten(<<u, v>>)[2] = Part(e, b)
      /\ Flatten(<<u, v>>) = [i \in {1, 2} |-> Flatten(<<u, v>>)[i]]
  BY <1>2, <1>3, <1>4 DEF Flatten
<1>6. QED
  BY <1>5 DEF u, v

\* A group that is open on a canvas.
Open(us, group) == Surface({}, <<{}>>, Two(us, group))

LEMMA AppendEmpty == ASSUME NEW x PROVE Append(<<>>, x) = <<x>>
  OBVIOUS

\* The state a group saves is restored when the group is popped.
LEMMA GroupIsOpened ==
  ASSUME NEW us
  PROVE  PushGroup(Canvas(us)) = Open(us, <<>>)
<1> DEFINE below == Surface({}, <<{}>>, One(us))
<1>1. Save(Canvas(us)) = below
  <2>1. Save(Canvas(us)) = Surface({}, Append(<<>>, {}), One(us))
    BY DEF Save, Try, Surface, Canvas
  <2>2. QED
    BY <2>1, AppendEmpty
<1>2. below.layers = One(us) /\ ~Canvas(us).error
  BY LayersReplaced DEF Canvas
<1>3. PushGroup(Canvas(us)) = [below EXCEPT !.layers = Append(below.layers, <<>>)]
  <2> HIDE DEF below
  <2>1. QED
    BY <1>1, <1>2 DEF PushGroup, Try
<1>4. Append(below.layers, <<>>) = Two(us, <<>>)
  <2> HIDE DEF below
  <2>1. QED
    BY <1>2, TwoLayers
<1>5. [below EXCEPT !.layers = Two(us, <<>>)] = Open(us, <<>>)
  BY LayersReplaced DEF Open
<1> HIDE DEF below
<1>6. QED
  BY <1>3, <1>4, <1>5

LEMMA GroupIsClosed ==
  ASSUME NEW us, NEW group
  PROVE  /\ ~Open(us, group).error /\ Last(Open(us, group).layers) = group
         /\ [Restore(Open(us, group)) EXCEPT !.layers = Front(@)] = Canvas(us)
<1> DEFINE ls == Two(us, group)
           below == Surface({}, <<>>, ls)
<1>1. Last(ls) = group /\ Front(ls) = One(us)
  BY TwoLayers
<1>2. Last(<<{}>>) = {} /\ Front(<<{}>>) = <<>>
  <2>1. Append(<<>>, {}) = <<{}>> /\ <<>> \in Seq({{}})
    BY AppendEmpty
  <2>2. QED
    BY <2>1, LastSaved
<1>3. Restore(Open(us, group)) = below
  <2> HIDE DEF ls
  <2>1. Restore(Surface({}, <<{}>>, ls)) = Surface({}, <<>>, ls)
    BY <1>2 DEF Restore, Try, Surface
  <2>2. QED
    BY <2>1 DEF Open, ls
<1>4. below.layers = ls /\ ~Open(us, group).error /\ Open(us, group).layers = ls
  BY LayersReplaced DEF Open
<1>5. [below EXCEPT !.layers = One(us)] = Canvas(us)
  BY LayersReplaced DEF Canvas
<1> HIDE DEF below, ls
<1>6. [below EXCEPT !.layers = Front(below.layers)] = Canvas(us)
  BY <1>1, <1>4, <1>5
<1>7. QED
  BY <1>1, <1>3, <1>4, <1>6

LEMMA LaidInGroup ==
  ASSUME NEW us, NEW group, NEW unit
  PROVE  Surface({}, <<{}>>, Laid(Two(us, group), unit)) = Open(us, Append(group, unit))
  BY LaidOver DEF Open

LEMMA PaintInGroup ==
  ASSUME NEW e, NEW us, NEW group, NEW part, NEW alpha \in 0..Opaque
  PROVE  Paint(Open(us, group), e, part, alpha)
           = Open(us, Append(group, Unit(<<Part(e, part)>>, alpha)))
<1> DEFINE ls == Two(us, group)
<1>1. {} \subseteq {e.name}
  OBVIOUS
<1> HIDE DEF ls
<1>2. Paint(Surface({}, <<{}>>, ls), e, part, alpha)
        = Surface({}, <<{}>>, Laid(ls, Unit(<<Part(e, part)>>, alpha)))
  BY <1>1, PaintOnTop
<1>3. QED
  BY <1>2, LaidInGroup, Zenon DEF Open, ls

LEMMA ClippedInGroup ==
  ASSUME NEW e, NEW us, NEW group, NEW alpha \in 0..Opaque
  PROVE  Clipped(Open(us, group), e, alpha)
           = Open(us, Append(group, Unit(<<Part(e, "glyphs")>>, alpha)))
<1> DEFINE ls == Two(us, group)
<1>1. <<{}>> \in Seq({{}})
  OBVIOUS
<1> HIDE DEF ls
<1>2. Clipped(Surface({}, <<{}>>, ls), e, alpha)
        = Surface({}, <<{}>>, Laid(ls, Unit(<<Part(e, "glyphs")>>, alpha)))
  BY <1>1, GlyphsOnTop
<1>3. QED
  BY <1>2, LaidInGroup, Zenon DEF Open, ls

LEMMA OnCanvas ==
  ASSUME NEW e, NEW us
  PROVE  /\ \A unit : Lay(Canvas(us), e, unit) = Canvas(Append(us, unit))
         /\ \A alpha \in 0..Opaque :
              Clipped(Canvas(us), e, alpha)
                = Canvas(Append(us, Unit(<<Part(e, "glyphs")>>, alpha)))
<1> DEFINE ls == One(us)
<1>1. \A unit : Laid(ls, unit) = One(Append(us, unit))
  BY LaidOver
<1>2. {} \subseteq {e.name} /\ <<>> \in Seq({{}})
  OBVIOUS
<1> HIDE DEF ls
<1>3. \A unit : Lay(Surface({}, <<>>, ls), e, unit) = Surface({}, <<>>, Laid(ls, unit))
  BY <1>2, LayOnTop
<1>4. ASSUME NEW alpha \in 0..Opaque
      PROVE  Clipped(Surface({}, <<>>, ls), e, alpha)
               = Surface({}, <<>>, Laid(ls, Unit(<<Part(e, "glyphs")>>, alpha)))
  BY <1>2, <1>4, GlyphsOnTop
<1>5. QED
  BY <1>1, <1>3, <1>4 DEF Canvas, ls

LEMMA FillInGroup ==
  ASSUME NEW e, NEW us, NEW alpha \in 0..Opaque, NEW group
  PROVE  Paint(Open(us, group), e, "fill", alpha)
           = Open(us, Append(group, Unit(<<Part(e, "fill")>>, alpha)))
  BY PaintInGroup

\* What the group of a text holds when it is popped.
Held(e) == LET box == IF Box(e) THEN <<Unit(<<Part(e, "fill")>>, Opaque)>> ELSE <<>> IN
           IF HasGlyphs(e) THEN Append(box, Unit(<<Part(e, "glyphs")>>, Opaque)) ELSE box

LEMMA HeldIsFlattened ==
  ASSUME NEW e, e.shape = "text"
  PROVE  /\ Held(e) = <<>> <=> Parts(e) = <<>>
         /\ Held(e) # <<>> => Flatten(Held(e)) = Parts(e)
<1> DEFINE fill == Unit(<<Part(e, "fill")>>, Opaque)
           glyphs == Unit(<<Part(e, "glyphs")>>, Opaque)
           p == Part(e, "fill")
           q == Part(e, "glyphs")
<1>1. /\ Flatten(<<fill>>) = <<p>> /\ Flatten(<<glyphs>>) = <<q>>
      /\ Flatten(<<fill, glyphs>>) = <<p, q>>
  BY FlattenOne, FlattenTwo DEF Part
<1> HIDE DEF fill, glyphs, p, q
<1>2. /\ Append(<<fill>>, glyphs) = <<fill, glyphs>> /\ Append(<<>>, glyphs) = <<glyphs>>
  BY TwoLayers, AppendEmpty DEF One, Two
<1>4. <<p>> # <<>> /\ <<q>> # <<>> /\ <<p, q>> # <<>> /\ <<fill>> # <<>>
      /\ <<glyphs>> # <<>> /\ <<fill, glyphs>> # <<>>
  OBVIOUS
<1>5. /\ Held(e) = IF HasGlyphs(e) THEN (IF Box(e) THEN <<fill, glyphs>> ELSE <<glyphs>>)
                   ELSE IF Box(e) THEN <<fill>> ELSE <<>>
      /\ Parts(e) = IF HasGlyphs(e) THEN (IF Box(e) THEN <<p, q>> ELSE <<q>>)
                    ELSE IF Box(e) THEN <<p>> ELSE <<>>
  BY <1>2 DEF Held, Parts, fill, glyphs, p, q
<1>6. QED
  BY <1>1, <1>4, <1>5

\* A text is one unit, whether it takes a group or paints its glyphs directly.
LEMMA TextOnTop ==
  ASSUME NEW e, NEW us, e.opacity \in 0..Opaque, e.shape = "text"
  PROVE  DrawText(Canvas(us), e) = Canvas(Over(us, e))
<1>0. Opaque \in 0..Opaque
  BY DrawingAssumption
<1> DEFINE box == IF Box(e) THEN <<Unit(<<Part(e, "fill")>>, Opaque)>> ELSE <<>>
<1>1. FillBox(Open(us, <<>>), e, Opaque) = Open(us, box)
  <2>1. PICK unit : unit = Unit(<<Part(e, "fill")>>, Opaque)
    OBVIOUS
  <2>2. Paint(Open(us, <<>>), e, "fill", Opaque) = Open(us, Append(<<>>, unit))
    <3>1. PICK group : group = <<>>
      OBVIOUS
    <3>2. Paint(Open(us, group), e, "fill", Opaque)
            = Open(us, Append(group, Unit(<<Part(e, "fill")>>, Opaque)))
      BY <1>0, FillInGroup, Zenon
    <3>3. QED
      BY <2>1, <3>1, <3>2, Zenon
  <2>3. Append(<<>>, unit) = <<unit>>
    BY AppendEmpty
  <2>4. box = IF Box(e) THEN <<unit>> ELSE <<>>
    BY <2>1
  <2> HIDE DEF box
  <2>5. QED
    BY <2>2, <2>3, <2>4 DEF FillBox, Box
<1>2. HasGlyphs(e) => DrawGlyphs(Open(us, box), e, TRUE) = Open(us, Held(e))
  <2>1. Clipped(Open(us, box), e, Opaque)
          = Open(us, Append(box, Unit(<<Part(e, "glyphs")>>, Opaque)))
    BY <1>0, ClippedInGroup, Zenon
  <2>2. HasGlyphs(e) => Held(e) = Append(box, Unit(<<Part(e, "glyphs")>>, Opaque))
    BY DEF Held
  <2> HIDE DEF box
  <2>3. QED
    BY <2>1, <2>2 DEF DrawGlyphs
<1>3. ~HasGlyphs(e) => box = Held(e)
  BY DEF Held
<1> HIDE DEF box
<1>4. PopAndPaint(Open(us, Held(e)), e, e.opacity) = Canvas(Over(us, e))
  <2>1. Held(e) # <<>> => [parts |-> Flatten(Held(e)), alpha |-> e.opacity] = Unit(Parts(e), e.opacity)
    BY HeldIsFlattened DEF Unit
  <2>2. Held(e) = <<>> <=> Parts(e) = <<>>
    BY HeldIsFlattened
  <2>3. Lay(Canvas(us), e, Unit(Parts(e), e.opacity)) = Canvas(Append(us, Unit(Parts(e), e.opacity)))
    <3>1. PICK unit : unit = Unit(Parts(e), e.opacity)
      OBVIOUS
    <3>2. \A u : Lay(Canvas(us), e, u) = Canvas(Append(us, u))
      BY OnCanvas
    <3>3. QED
      BY <3>1, <3>2, Zenon
  <2>4. PopAndPaint(Open(us, Held(e)), e, e.opacity)
          = IF Held(e) = <<>> THEN Canvas(us)
            ELSE Lay(Canvas(us), e, [parts |-> Flatten(Held(e)), alpha |-> e.opacity])
    BY GroupIsClosed DEF PopAndPaint, Try
  <2>5. QED
    BY <2>1, <2>2, <2>3, <2>4 DEF Over
<1>5. CASE ~Valid(e.fill) /\ ~HasGlyphs(e)
  <2>1. Parts(e) = <<>>
    BY <1>5 DEF Parts, Box
  <2>2. QED
    BY <1>5, <2>1 DEF DrawText, Over
<1>6. CASE (Valid(e.fill) \/ HasGlyphs(e)) /\ NeedsGroup(e)
  BY <1>1, <1>2, <1>3, <1>4, <1>6, GroupIsOpened DEF DrawText
<1>7. CASE HasGlyphs(e) /\ ~NeedsGroup(e)
  <2>1. e.opacity = Opaque /\ ~Valid(e.fill)
    BY <1>7, DrawingAssumption DEF NeedsGroup
  <2>2. FillBox(Canvas(us), e, Opaque) = Canvas(us)
    BY <2>1 DEF FillBox
  <2>3. Clipped(Canvas(us), e, Opaque) = Canvas(Append(us, Unit(<<Part(e, "glyphs")>>, Opaque)))
    BY <1>0, OnCanvas
  <2>4. Parts(e) = <<Part(e, "glyphs")>> /\ Parts(e) # <<>>
    BY <1>7, <2>1 DEF Parts, Box
  <2>5. QED
    BY <1>7, <2>1, <2>2, <2>3, <2>4 DEF DrawText, DrawGlyphs, Over
<1>8. QED
  BY <1>5, <1>6, <1>7 DEF NeedsGroup

\* An element is painted over whatever was painted before, and leaves the context
\* as it found it.
LEMMA ElementOnTop ==
  ASSUME NEW e, NEW us, e.opacity \in 0..Opaque
  PROVE  DrawElement(Canvas(us), e) = Canvas(Over(us, e))
<1>1. CASE e.shape \in {"rect", "circle"}
  <2>1. FillBox(Canvas(us), e, e.opacity) = Canvas(Over(us, e))
    BY <1>1, BoxOnTop DEF Over, Parts
  <2>2. QED
    BY <1>1, <2>1, CircleOnTop DEF DrawElement
<1>2. CASE e.shape = "text"
  BY <1>2, TextOnTop DEF DrawElement
<1>3. CASE e.shape \notin {"rect", "circle", "text"}
  BY <1>3 DEF DrawElement, Over, Parts
<1>4. QED
  BY <1>1, <1>2, <1>3

\* So it is what the element is on a fresh surface.
LEMMA AloneIs ==
  ASSUME NEW e, e.opacity \in 0..Opaque
  PROVE  Alone(e) = IF Parts(e) = <<>> THEN <<>> ELSE <<Unit(Parts(e), e.opacity)>>
<1>1. NewContext = Canvas(<<>>)
  BY DEF NewContext, Canvas, Surface, One
<1>2. Alone(e) = Over(<<>>, e)
  <2>1. DrawElement(NewContext, e) = Canvas(Over(<<>>, e))
    BY <1>1, ElementOnTop
  <2>2. \A us : Canvas(us).layers[1] = us
    BY DEF Canvas, Surface, One
  <2>3. QED
    BY <2>1, <2>2, Zenon DEF Alone
<1>3. QED
  BY <1>2 DEF Over

-----------------------------------------------------------------------------
\* Elements that are known by their place, as the mapper leaves them.
Numbered(es) ==
  /\ \E n \in Nat : DOMAIN es = 1..n
  /\ \A i \in DOMAIN es : es[i].name = i /\ es[i].opacity \in 0..Opaque /\ es[i].z \in Int

Ordered(es, m, order) ==
  /\ m \in Nat /\ order \in [1..m -> DOMAIN es]
  /\ \A j \in 1..m : es[order[j]].visible
  /\ \A j, k \in 1..m : j < k => Before(es[order[j]], es[order[k]], order[j], order[k])
  /\ \A i \in DOMAIN es : es[i].visible => \E j \in 1..m : order[j] = i

Piece(e) == Unit(Parts(e), e.opacity)
Pieces(es) == {Piece(es[i]) : i \in DOMAIN es}

\* The picture us after the first k elements of an order; src tells of what
\* place in the order each unit is.
Painted(es, order, k, us, src) ==
  /\ us \in Seq(Pieces(es)) /\ src \in [1..Len(us) -> 1..k]
  /\ \A p, q \in 1..Len(us) : p < q => src[p] < src[q]
  /\ \A p \in 1..Len(us) : Parts(es[order[src[p]]]) # <<>> /\ us[p] = Piece(es[order[src[p]]])
  /\ \A j \in 1..k : Parts(es[order[j]]) # <<>> => \E p \in 1..Len(us) : src[p] = j

ToCome(es, order, m, k) == [j \in 1..(m - k) |-> es[order[k + j]]]

LEMMA OrdersAreOrdered ==
  ASSUME NEW es, Numbered(es), NEW order \in Orders(es)
  PROVE  \E m \in Nat : Ordered(es, m, order)
<1> DEFINE seen == {i \in DOMAIN es : es[i].visible}
<1>1. PICK n \in Nat : DOMAIN es = 1..n
  BY DEF Numbered
<1>2. IsFiniteSet(seen)
  BY <1>1, FS_Interval, FS_Subset
<1>3. PICK m \in Nat : m = Cardinality(seen)
  BY <1>2, FS_CardinalityType
<1>4. /\ order \in [1..m -> seen]
      /\ \A j, k \in DOMAIN order : j < k => Before(es[order[j]], es[order[k]], order[j], order[k])
      /\ \A i \in seen : \E k \in DOMAIN order : order[k] = i
  BY <1>3 DEF Orders
<1>5. DOMAIN order = 1..m
  BY <1>4
<1>6. Ordered(es, m, order)
  BY <1>4, <1>5 DEF Ordered
<1>7. QED
  BY <1>6

LEMMA OrderIsInjective ==
  ASSUME NEW es, Numbered(es), NEW m, NEW order, Ordered(es, m, order)
  PROVE  \A j, k \in 1..m : order[j] = order[k] => j = k
<1>1. \A i \in DOMAIN es : i \in Int /\ es[i].z \in Int
  BY DEF Numbered
<1>2. \A i \in DOMAIN es : ~Before(es[i], es[i], i, i)
  BY <1>1 DEF Before
<1>3. \A j, k \in 1..m : j < k => order[j] # order[k]
  BY <1>2 DEF Ordered
<1>4. QED
  BY <1>3 DEF Ordered

LEMMA PartsAreTheElements ==
  ASSUME NEW e
  PROVE  /\ \A k \in DOMAIN Parts(e) : Parts(e)[k].of = e.name /\ Parts(e)[k].alpha = Opaque
         /\ Parts(e) # <<>> => 1 \in DOMAIN Parts(e)
<1>1. \A part : Part(e, part).of = e.name /\ Part(e, part).alpha = Opaque
  BY DEF Part
<1>2. \A p, q : /\ DOMAIN <<p, q>> = {1, 2} /\ <<p, q>>[1] = p /\ <<p, q>>[2] = q
                /\ DOMAIN <<p>> = {1} /\ <<p>>[1] = p
  OBVIOUS
<1>3. Parts(e) \in {<<>>, <<Part(e, "fill")>>, <<Part(e, "glyphs")>>,
                    <<Part(e, "fill"), Part(e, "glyphs")>>}
  BY DEF Parts
<1>4. QED
  BY <1>1, <1>2, <1>3

\* Drawing the next element of the order.
LEMMA OneMorePainted ==
  ASSUME NEW es, Numbered(es), NEW m, NEW order, Ordered(es, m, order),
         NEW k \in 0..m, k < m, NEW us, NEW src, Painted(es, order, k, us, src)
  PROVE  \E s : Painted(es, order, k + 1, Over(us, es[order[k + 1]]), s)
<1> DEFINE e == es[order[k + 1]]
<1>1. /\ m \in Nat /\ k + 1 \in 1..m /\ order[k + 1] \in DOMAIN es
      /\ us \in Seq(Pieces(es)) /\ Len(us) \in Nat
  BY DEF Ordered, Painted
<1>2. CASE Parts(e) = <<>>
  <2>1. Over(us, e) = us
    BY <1>2 DEF Over
  <2>2. src \in [1..Len(us) -> 1..(k + 1)]
    BY <1>1 DEF Painted
  <2>3. \A j \in 1..(k + 1) : j \in 1..k \/ j = k + 1
    BY <1>1
  <2>4. Painted(es, order, k + 1, us, src)
    BY <1>2, <2>2, <2>3 DEF Painted
  <2>5. QED
    BY <2>1, <2>4
<1>3. CASE Parts(e) # <<>>
  <2> DEFINE n == Len(us)
             s == [p \in 1..(n + 1) |-> IF p <= n THEN src[p] ELSE k + 1]
  <2>1. PICK vs : vs = Append(us, Piece(e))
    OBVIOUS
  <2>2. Piece(e) \in Pieces(es)
    BY <1>1 DEF Pieces
  <2>3. /\ vs \in Seq(Pieces(es)) /\ Len(vs) = n + 1 /\ vs[n + 1] = Piece(e)
        /\ \A p \in 1..n : vs[p] = us[p]
    BY <1>1, <2>1, <2>2, AppendProperties
  <2>4. /\ s \in [1..(n + 1) -> 1..(k + 1)] /\ s[n + 1] = k + 1
        /\ \A p \in 1..n : s[p] = src[p] /\ src[p] \in 1..k
    BY <1>1 DEF Painted
  <2> HIDE DEF s, e
  <2>5. \A p, q \in 1..(n + 1) : p < q => s[p] < s[q]
    <3>1. \A p, q \in 1..(n + 1) : p < q => p \in 1..n /\ (q \in 1..n \/ q = n + 1)
      BY <1>1
    <3>2. QED
      BY <1>1, <2>4, <3>1 DEF Painted
  <2>6. \A p \in 1..(n + 1) : Parts(es[order[s[p]]]) # <<>> /\ vs[p] = Piece(es[order[s[p]]])
    <3>1. \A p \in 1..n : Parts(es[order[s[p]]]) # <<>> /\ vs[p] = Piece(es[order[s[p]]])
      BY <2>3, <2>4 DEF Painted
    <3>2. Parts(es[order[s[n + 1]]]) # <<>> /\ vs[n + 1] = Piece(es[order[s[n + 1]]])
      BY <1>3, <2>3, <2>4 DEF e
    <3>3. \A p \in 1..(n + 1) : p \in 1..n \/ p = n + 1
      BY <1>1
    <3>4. QED
      BY <3>1, <3>2, <3>3
  <2>7. \A j \in 1..(k + 1) : Parts(es[order[j]]) # <<>> => \E p \in 1..(n + 1) : s[p] = j
    <3>1. \A j \in 1..k : Parts(es[order[j]]) # <<>> => \E p \in 1..n : src[p] = j
      BY DEF Painted
    <3>2. \A j \in 1..(k + 1) : j \in 1..k \/ j = k + 1
      BY <1>1
    <3>3. n + 1 \in 1..(n + 1) /\ \A p \in 1..n : p \in 1..(n + 1)
      BY <1>1
    <3>4. QED
      BY <2>4, <3>1, <3>2, <3>3
  <2>8. Painted(es, order, k + 1, vs, s)
    BY <2>3, <2>4, <2>5, <2>6, <2>7 DEF Painted
  <2>9. Over(us, e) = vs
    BY <1>3, <2>1 DEF Over, Piece
  <2>10. QED
    BY <2>8, <2>9 DEF e
<1>4. QED
  BY <1>2, <1>3

LEMMA NextToCome ==
  ASSUME NEW es, NEW order, NEW m \in Nat, NEW k \in 0..m, ToCome(es, order, m, k) # <<>>
  PROVE  /\ k < m /\ Head(ToCome(es, order, m, k)) = es[order[k + 1]]
         /\ Tail(ToCome(es, order, m, k)) = ToCome(es, order, m, k + 1)
<1>1. PICK s : s = ToCome(es, order, m, k)
  OBVIOUS
<1>2. DOMAIN s = 1..(m - k) /\ \A j \in 1..(m - k) : s[j] = es[order[k + j]]
  BY <1>1 DEF ToCome
<1>3. k < m
  <2>1. CASE k = m
    <3>1. s = [j \in {} |-> es[order[k + j]]]
      BY <1>1, <2>1 DEF ToCome
    <3>2. s = <<>>
      BY <3>1
    <3>3. QED
      BY <1>1, <3>2
  <2>2. QED
    BY <2>1
<1>4. PICK S : S = {es[order[k + j]] : j \in 1..(m - k)}
  OBVIOUS
<1>5. s \in Seq(S) /\ Len(s) = m - k
  <2>1. s \in [1..(m - k) -> S]
    BY <1>1, <1>4 DEF ToCome
  <2>2. m - k \in Nat
    BY <1>3
  <2>3. QED
    BY <2>1, <2>2
<1>6. Head(s) = es[order[k + 1]]
  BY <1>2, <1>3, <1>5
<1>7. PICK t : t = ToCome(es, order, m, k + 1)
  OBVIOUS
<1>8. t \in Seq(S) /\ Len(t) = m - (k + 1) /\ \A j \in 1..(m - (k + 1)) : t[j] = es[order[(k + 1) + j]]
  <2>1. \A j \in 1..(m - (k + 1)) : 1 + j \in 1..(m - k) /\ (k + 1) + j = k + (1 + j)
    BY <1>3
  <2>2. t \in [1..(m - (k + 1)) -> S]
    BY <1>4, <1>7, <2>1 DEF ToCome
  <2>3. m - (k + 1) \in Nat
    BY <1>3
  <2>4. t \in Seq(S) /\ Len(t) = m - (k + 1)
    <3>1. PICK l \in Nat : l = m - (k + 1)
      BY <2>3
    <3>2. t \in [1..l -> S]
      BY <2>2, <3>1
    <3>3. t \in Seq(S) /\ Len(t) = l
      BY <3>2
    <3>4. QED
      BY <3>1, <3>3
  <2>5. \A j \in 1..(m - (k + 1)) : t[j] = es[order[(k + 1) + j]]
    BY <1>7 DEF ToCome
  <2>6. QED
    BY <2>4, <2>5
<1>9. Tail(s) = t
  <2>1. s # <<>>
    BY <1>1
  <2>2. Tail(s) \in Seq(S) /\ Len(Tail(s)) = m - (k + 1) /\ \A j \in 1..(m - (k + 1)) : Tail(s)[j] = s[j + 1]
    BY <1>3, <1>5, <2>1
  <2>3. \A j \in 1..(m - (k + 1)) : j + 1 \in 1..(m - k) /\ (k + 1) + j = k + (j + 1)
    BY <1>3
  <2>4. \A j \in 1..(m - (k + 1)) : Tail(s)[j] = t[j]
    BY <1>2, <1>8, <2>2, <2>3
  <2>5. QED
    BY <1>8, <2>2, <2>4, SeqEqual
<1>10. QED
  BY <1>1, <1>3, <1>6, <1>7, <1>9

-----------------------------------------------------------------------------
\* What the properties say of a picture, for any elements drawn in order.
LEMMA WhoPainted ==
  ASSUME NEW es, Numbered(es), NEW m, NEW order, Ordered(es, m, order),
         NEW k \in 0..m, NEW us, NEW src, Painted(es, order, k, us, src),
         NEW i \in DOMAIN es, NEW p \in 1..Len(us)
  PROVE  /\ (\E x \in DOMAIN us[p].parts : us[p].parts[x].of = es[i].name) <=> order[src[p]] = i
         /\ \A x \in DOMAIN us[p].parts : us[p].parts[x].alpha = Opaque
         /\ order[src[p]] = i => us[p].alpha = es[i].opacity
<1> DEFINE j == src[p]
           e == es[order[j]]
<1>1. /\ j \in 1..m /\ order[j] \in DOMAIN es /\ e.name = order[j] /\ es[i].name = i
  BY DEF Painted, Ordered, Numbered
<1>2. Parts(e) # <<>> /\ us[p] = Piece(e)
  BY DEF Painted
<1> HIDE DEF e
<1>3. us[p].parts = Parts(e) /\ us[p].alpha = e.opacity
  BY <1>2 DEF Piece, Unit
<1>4. /\ \A x \in DOMAIN us[p].parts : us[p].parts[x].of = e.name /\ us[p].parts[x].alpha = Opaque
      /\ 1 \in DOMAIN us[p].parts
  BY <1>2, <1>3, PartsAreTheElements
<1>5. QED
  BY <1>1, <1>3, <1>4 DEF e

\* The elements that are drawn, and those whose units are in the picture.
LEMMA WhoIsDone ==
  ASSUME NEW es, Numbered(es), NEW m, NEW order, Ordered(es, m, order), NEW k \in 0..m,
         NEW i \in DOMAIN es
  PROVE  (/\ es[i].visible
          /\ \A x \in DOMAIN ToCome(es, order, m, k) : ToCome(es, order, m, k)[x] # es[i])
           <=> \E j \in 1..k : order[j] = i
<1>1. PICK s : s = ToCome(es, order, m, k)
  OBVIOUS
<1>2. m \in Nat /\ DOMAIN s = 1..(m - k) /\ \A x \in 1..(m - k) : s[x] = es[order[k + x]]
  BY <1>1 DEF ToCome, Ordered
<1>3. ASSUME es[i].visible, \A x \in DOMAIN s : s[x] # es[i]
      PROVE  \E j \in 1..k : order[j] = i
  <2>1. PICK j \in 1..m : order[j] = i
    BY <1>3 DEF Ordered
  <2>2. CASE j > k
    <3>1. j - k \in 1..(m - k) /\ k + (j - k) = j
      BY <1>2, <2>2
    <3>2. QED
      BY <1>2, <1>3, <2>1, <3>1
  <2>3. QED
    BY <1>2, <2>1, <2>2
<1>4. ASSUME NEW j \in 1..k, order[j] = i
      PROVE  es[i].visible /\ \A x \in DOMAIN s : s[x] # es[i]
  <2>1. j \in 1..m
    BY <1>2
  <2>2. es[i].visible
    BY <1>4, <2>1 DEF Ordered
  <2>3. ASSUME NEW x \in 1..(m - k), s[x] = es[i]
        PROVE  FALSE
    <3>1. k + x \in 1..m /\ j # k + x
      BY <1>2
    <3>2. order[k + x] \in DOMAIN es
      BY <3>1 DEF Ordered
    <3>3. order[k + x] = i
      BY <1>2, <2>3, <3>2 DEF Numbered
    <3>4. QED
      BY <1>4, <2>1, <3>1, <3>3, OrderIsInjective
  <2>4. QED
    BY <1>2, <2>2, <2>3
<1>5. QED
  BY <1>1, <1>3, <1>4

-----------------------------------------------------------------------------
\* The clamp of the mapper: what reaches the renderer is an alpha of Cairo.
LEMMA OpacityIsInRange ==
  ASSUME NEW field \in Seq(Int)
  PROVE  MapOpacity(field) \in 0..Opaque
<1>1. Opaque \in Nat
  BY DrawingAssumption
<1>2. ASSUME field # <<>>
      PROVE  Max({0, Min({Opaque, field[1]})}) \in 0..Opaque
  <2>1. PICK x \in Int : x = field[1]
    BY <1>2
  <2>2. PICK y \in Int : y = Min({Opaque, x}) /\ y <= Opaque
    BY <1>1 DEF Min
  <2>3. Max({0, y}) \in 0..Opaque
    <3>1. CASE y >= 0
      <4>1. Max({0, y}) = y
        BY <2>2, <3>1 DEF Max
      <4>2. QED
        BY <1>1, <2>2, <3>1, <4>1
    <3>2. CASE ~(y >= 0)
      <4>1. Max({0, y}) = 0
        BY <2>2, <3>2 DEF Max
      <4>2. QED
        BY <1>1, <4>1
    <3>3. QED
      BY <3>1, <3>2
  <2>4. QED
    BY <2>1, <2>2, <2>3
<1>3. QED
  BY <1>1, <1>2 DEF MapOpacity

LEMMA MappedInPlace ==
  ASSUME NEW S, S \subseteq Element, NEW s \in Seq(S), NEW from \in Nat, NEW t,
         t = Mapped(Named(s, from)) \/ t = Shown(Mapped(Named(s, from)))
  PROVE  /\ DOMAIN t = 1..Len(s)
         /\ \A i \in 1..Len(s) : /\ t[i].name = from + i /\ t[i].opacity \in 0..Opaque
                                 /\ t[i].z \in Int
<1>1. \A i \in 1..Len(s) : s[i] \in Element
  OBVIOUS
<1>2. ASSUME NEW e \in Element, NEW i, NEW f, f = [e EXCEPT !.name = i]
      PROVE  /\ MapElement(f).name = i /\ MapElement(f).opacity \in 0..Opaque
             /\ MapElement(f).z \in Int
             /\ {"name", "opacity", "z"} \subseteq DOMAIN MapElement(f)
  <2>1. f.name = i /\ f.opacity = e.opacity /\ f.z = e.z /\ e.opacity \in Seq(Int) /\ e.z \in Int
    BY <1>2 DEF Element
  <2>2. MapElement(f).name = f.name /\ MapElement(f).z = f.z
        /\ MapElement(f).opacity = MapOpacity(f.opacity)
        /\ {"name", "opacity", "z"} \subseteq DOMAIN MapElement(f)
    BY <1>2 DEF MapElement, Element
  <2>3. QED
    BY <2>1, <2>2, OpacityIsInRange
<1>3. PICK u : u = Mapped(Named(s, from))
  OBVIOUS
<1>4. /\ DOMAIN u = 1..Len(s)
      /\ \A i \in 1..Len(s) : u[i] = MapElement([s[i] EXCEPT !.name = from + i])
  BY <1>3 DEF Mapped, Named
<1>5. ASSUME NEW i \in 1..Len(s)
      PROVE  /\ u[i].name = from + i /\ u[i].opacity \in 0..Opaque /\ u[i].z \in Int
             /\ {"name", "opacity", "z"} \subseteq DOMAIN u[i]
  <2>1. PICK e \in Element : e = s[i]
    BY <1>1
  <2>2. PICK j, f : j = from + i /\ f = [e EXCEPT !.name = j]
    OBVIOUS
  <2>3. u[i] = MapElement(f)
    BY <1>4, <2>1, <2>2
  <2>4. /\ MapElement(f).name = j /\ MapElement(f).opacity \in 0..Opaque
        /\ MapElement(f).z \in Int
        /\ {"name", "opacity", "z"} \subseteq DOMAIN MapElement(f)
    BY <1>2, <2>2
  <2>5. QED
    BY <2>2, <2>3, <2>4
<1>6. /\ DOMAIN Shown(u) = 1..Len(s)
      /\ \A i \in 1..Len(s) : /\ Shown(u)[i].name = u[i].name /\ Shown(u)[i].z = u[i].z
                              /\ Shown(u)[i].opacity = u[i].opacity
  BY <1>4, <1>5 DEF Shown
<1>7. QED
  BY <1>3, <1>4, <1>5, <1>6

LEMMA OneAfterTheOther ==
  ASSUME NEW a, NEW b, NEW n \in Nat, NEW l \in Nat, DOMAIN a = 1..n, DOMAIN b = 1..l,
         a = [i \in 1..n |-> a[i]], b = [i \in 1..l |-> b[i]]
  PROVE  /\ DOMAIN (a \o b) = 1..(n + l)
         /\ \A i \in 1..n : (a \o b)[i] = a[i]
         /\ \A i \in (n + 1)..(n + l) : (a \o b)[i] = b[i - n] /\ i - n \in 1..l
<1>1. PICK S : S = {a[i] : i \in 1..n} \cup {b[i] : i \in 1..l}
  OBVIOUS
<1>2. a \in [1..n -> S] /\ b \in [1..l -> S]
  BY <1>1
<1>3. a \in Seq(S) /\ b \in Seq(S) /\ Len(a) = n /\ Len(b) = l
  BY <1>2
<1>4. QED
  BY <1>3, ConcatProperties

LEMMA ElementsAreNumbered ==
  ASSUME layout \in Seq(LayoutElements), banner \in Seq(BannerElements)
  PROVE  Numbered(Elements)
<1>1. LayoutElements \subseteq Element /\ BannerElements \subseteq Element
  BY DrawingAssumption
<1>2. PICK n \in Nat, l \in Nat : n = Len(layout) /\ l = Len(banner)
  OBVIOUS
<1>3. /\ DOMAIN FromLayout = 1..n
      /\ \A i \in 1..n : /\ FromLayout[i].name = 0 + i /\ FromLayout[i].opacity \in 0..Opaque
                         /\ FromLayout[i].z \in Int
  BY <1>1, <1>2, MappedInPlace DEF FromLayout
<1>4. /\ DOMAIN FromBanner = 1..l
      /\ \A i \in 1..l : /\ FromBanner[i].name = n + i /\ FromBanner[i].opacity \in 0..Opaque
                         /\ FromBanner[i].z \in Int
  <2>1. PICK t : t = Shown(Mapped(Named(banner, n)))
    OBVIOUS
  <2>2. /\ DOMAIN t = 1..Len(banner)
        /\ \A i \in 1..Len(banner) : /\ t[i].name = n + i /\ t[i].opacity \in 0..Opaque
                                      /\ t[i].z \in Int
    <3>1. t = Mapped(Named(banner, n)) \/ t = Shown(Mapped(Named(banner, n)))
      BY <2>1
    <3>2. QED
      BY <1>1, <3>1, MappedInPlace, Zenon
  <2>3. t = FromBanner
    BY <1>2, <2>1 DEF FromBanner
  <2>4. QED
    BY <1>2, <2>2, <2>3
<1>5. FromLayout = [i \in 1..n |-> FromLayout[i]] /\ FromBanner = [i \in 1..l |-> FromBanner[i]]
  BY <1>3, <1>4 DEF FromLayout, FromBanner, Mapped, Shown
<1>6. PICK es : es = Elements
  OBVIOUS
<1>7. /\ DOMAIN es = 1..(n + l) /\ \A i \in 1..n : es[i] = FromLayout[i]
      /\ \A i \in (n + 1)..(n + l) : es[i] = FromBanner[i - n] /\ i - n \in 1..l
  BY <1>3, <1>4, <1>5, <1>6, OneAfterTheOther DEF Elements
<1>8. \A i \in 1..(n + l) : i \in 1..n \/ i \in (n + 1)..(n + l)
  OBVIOUS
<1>9. \A i \in 1..(n + l) : es[i].name = i /\ es[i].opacity \in 0..Opaque /\ es[i].z \in Int
  <2>1. ASSUME NEW i \in 1..n
        PROVE  es[i].name = i /\ es[i].opacity \in 0..Opaque /\ es[i].z \in Int
    <3>1. 0 + i = i
      OBVIOUS
    <3>2. QED
      BY <1>3, <1>7, <3>1
  <2>2. ASSUME NEW i \in (n + 1)..(n + l)
        PROVE  es[i].name = i /\ es[i].opacity \in 0..Opaque /\ es[i].z \in Int
    <3>1. es[i] = FromBanner[i - n] /\ i - n \in 1..l
      BY <1>7
    <3>2. n + (i - n) = i
      OBVIOUS
    <3>3. PICK j \in 1..l : j = i - n
      BY <3>1
    <3>4. QED
      BY <1>4, <3>1, <3>2, <3>3
  <2>3. QED
    BY <1>8, <2>1, <2>2
<1>10. Numbered(es)
  <2>1. n + l \in Nat
    OBVIOUS
  <2>2. QED
    BY <1>7, <1>9, <2>1, Zenon DEF Numbered
<1>11. QED
  BY <1>6, <1>10

-----------------------------------------------------------------------------
\* The elements come in one of the orders of the layers; those that were drawn
\* are the units of the only surface, in that order, and the others are to come.
Drawn(order, m, k, us, src) ==
  /\ m \in Nat /\ k \in 0..m
  /\ Ordered(Elements, m, order) /\ Painted(Elements, order, k, us, src)
  /\ scene = ToCome(Elements, order, m, k) /\ context = Canvas(us)

DrawingInv ==
  /\ layout \in Seq(LayoutElements) /\ banner \in Seq(BannerElements)
  /\ \/ scene = <<>> /\ context = NoContext
     \/ \E order, us, src, m, k : Drawn(order, m, k, us, src)

LEMMA DrawingInvInit == DrawingInit => DrawingInv
<1> SUFFICES ASSUME DrawingInit PROVE DrawingInv
  OBVIOUS
<1>1. layout \in Seq(LayoutElements)
  <2>1. PICK n \in 0..MaxElements : layout \in [1..n -> LayoutElements]
    BY DEF DrawingInit
  <2>2. n \in Nat
    BY DrawingAssumption
  <2>3. QED
    BY <2>1, <2>2
<1>2. banner \in Seq(BannerElements)
  <2>1. banner = <<>> \/ \E e \in BannerElements : banner = <<e>>
    BY DEF DrawingInit
  <2>2. <<>> \in Seq(BannerElements) /\ \A e \in BannerElements : <<e>> \in Seq(BannerElements)
    OBVIOUS
  <2>3. QED
    BY <2>1, <2>2
<1>3. QED
  BY <1>1, <1>2 DEF DrawingInit, DrawingInv

LEMMA RenderInv ==
  ASSUME DrawingInv, Render
  PROVE  DrawingInv'
<1>1. UNCHANGED <<layout, banner>> /\ context' = NewContext /\ scene' \in Build(FromLayout, FromBanner)
  BY DEF Render
<1>2. Elements' = Elements
  BY <1>1 DEF Elements, FromLayout, FromBanner
<1>3. PICK es : es = Elements
  OBVIOUS
<1>4. Numbered(es)
  BY <1>3, ElementsAreNumbered DEF DrawingInv
<1>5. PICK order \in Orders(es) : scene' = [k \in DOMAIN order |-> es[order[k]]]
  BY <1>1, <1>3 DEF Build, Elements
<1>6. PICK m \in Nat : Ordered(es, m, order)
  BY <1>4, OrdersAreOrdered
<1>7. scene' = ToCome(es, order, m, 0)
  <2>1. DOMAIN order = 1..m
    BY <1>6 DEF Ordered
  <2>2. m - 0 = m /\ \A j \in 1..m : 0 + j = j
    OBVIOUS
  <2>3. QED
    BY <1>5, <2>1, <2>2 DEF ToCome
<1>8. context' = Canvas(<<>>)
  BY <1>1 DEF NewContext, Canvas, Surface, One
<1>9. PICK src : src = [p \in {} |-> 0]
  OBVIOUS
<1>10. Painted(es, order, 0, <<>>, src)
  <2>1. <<>> \in Seq(Pieces(es)) /\ Len(<<>>) = 0 /\ 1..0 = {}
    OBVIOUS
  <2>2. src \in [1..0 -> 1..0]
    BY <1>9
  <2>3. QED
    BY <2>1, <2>2 DEF Painted
<1>11. Drawn(order, m, 0, <<>>, src)'
  BY <1>2, <1>3, <1>6, <1>7, <1>8, <1>10 DEF Drawn
<1>13. layout' \in Seq(LayoutElements) /\ banner' \in Seq(BannerElements)
  BY <1>1 DEF DrawingInv
<1>14. QED
  BY <1>11, <1>13 DEF DrawingInv

LEMMA DrawNextInv ==
  ASSUME DrawingInv, DrawNext
  PROVE  DrawingInv'
<1>1. /\ UNCHANGED <<layout, banner>> /\ scene # <<>> /\ scene' = Tail(scene)
      /\ context' = DrawElement(context, Head(scene))
  BY DEF DrawNext
<1>2. Elements' = Elements
  BY <1>1 DEF Elements, FromLayout, FromBanner
<1>3. PICK es : es = Elements
  OBVIOUS
<1>4. Numbered(es)
  BY <1>3, ElementsAreNumbered DEF DrawingInv
<1>5. PICK order, us, src, m, k : Drawn(order, m, k, us, src)
  BY <1>1 DEF DrawingInv
<1>6. /\ m \in Nat /\ k \in 0..m
      /\ Ordered(es, m, order) /\ Painted(es, order, k, us, src)
      /\ scene = ToCome(es, order, m, k) /\ context = Canvas(us)
  BY <1>3, <1>5 DEF Drawn
<1>7. /\ k < m /\ Head(scene) = es[order[k + 1]]
      /\ Tail(scene) = ToCome(es, order, m, k + 1)
  BY <1>1, <1>6, NextToCome
<1>8. PICK e : e = es[order[k + 1]]
  OBVIOUS
<1>9. e.opacity \in 0..Opaque
  BY <1>4, <1>6, <1>7, <1>8 DEF Ordered, Numbered
<1>10. context' = Canvas(Over(us, e))
  BY <1>1, <1>6, <1>7, <1>8, <1>9, ElementOnTop
<1>11. PICK s : Painted(es, order, k + 1, Over(us, e), s)
  BY <1>4, <1>6, <1>7, <1>8, OneMorePainted
<1>12. Drawn(order, m, k + 1, Over(us, e), s)'
  BY <1>1, <1>2, <1>3, <1>6, <1>7, <1>10, <1>11 DEF Drawn
<1>14. layout' \in Seq(LayoutElements) /\ banner' \in Seq(BannerElements)
  BY <1>1 DEF DrawingInv
<1>15. QED
  BY <1>12, <1>14 DEF DrawingInv

\* The inductive invariant: the picture is what was drawn so far, in order.
THEOREM DrawnInOrder == DrawingSpec => []DrawingInv
<1>1. DrawingInv /\ UNCHANGED drawingVars => DrawingInv'
  <2> SUFFICES ASSUME DrawingInv, UNCHANGED drawingVars PROVE DrawingInv'
    OBVIOUS
  <2>1. UNCHANGED <<layout, banner, scene, context>> /\ Elements' = Elements
    BY DEF drawingVars, Elements, FromLayout, FromBanner
  <2>2. QED
    BY <2>1 DEF DrawingInv, Drawn
<1>2. DrawingInv /\ [DrawingNext]_drawingVars => DrawingInv'
  BY <1>1, RenderInv, DrawNextInv DEF DrawingNext
<1>3. QED
  BY <1>2, DrawingInvInit, PTL DEF DrawingSpec

\* What the invariant says of the picture, in terms of its units.
Picture(order, us, src, m, k) ==
  /\ m \in Nat /\ k \in 0..m
  /\ Numbered(Elements) /\ Ordered(Elements, m, order)
  /\ Painted(Elements, order, k, us, src)
  /\ Len(context.layers) = 1 /\ Units = us
  /\ \A i \in DOMAIN Elements :
       /\ i \in Done <=> \E j \in 1..k : order[j] = i
       /\ \A p \in 1..Len(us) : p \in Of(Elements[i]) <=> order[src[p]] = i
       /\ Of(Elements[i]) \subseteq 1..Len(us)

LEMMA PictureOf ==
  ASSUME DrawingInv, context # NoContext
  PROVE  \E order, us, src, m, k : Picture(order, us, src, m, k)
<1>1. PICK order, us, src, m, k : Drawn(order, m, k, us, src)
  BY DEF DrawingInv
<1>2. /\ m \in Nat /\ k \in 0..m
      /\ Ordered(Elements, m, order) /\ Painted(Elements, order, k, us, src)
      /\ scene = ToCome(Elements, order, m, k) /\ context = Canvas(us)
  BY <1>1 DEF Drawn
<1>3. Numbered(Elements)
  BY ElementsAreNumbered DEF DrawingInv
<1>4. Len(context.layers) = 1 /\ Units = us
  BY <1>2 DEF Units, Canvas, Surface, One
<1>5. DOMAIN us = 1..Len(us)
  BY <1>2 DEF Painted
<1>6. ASSUME NEW i \in DOMAIN Elements
      PROVE  /\ i \in Done <=> \E j \in 1..k : order[j] = i
             /\ \A p \in 1..Len(us) : p \in Of(Elements[i]) <=> order[src[p]] = i
             /\ Of(Elements[i]) \subseteq 1..Len(us)
  <2>1. i \in Done <=> \E j \in 1..k : order[j] = i
    BY <1>2, <1>3, WhoIsDone DEF Done
  <2>2. \A p \in 1..Len(us) : p \in Of(Elements[i]) <=> order[src[p]] = i
    BY <1>2, <1>3, <1>4, <1>5, WhoPainted DEF Of
  <2>3. Of(Elements[i]) \subseteq 1..Len(us)
    BY <1>4, <1>5 DEF Of
  <2>4. QED
    BY <2>1, <2>2, <2>3
<1>7. Picture(order, us, src, m, k)
  BY <1>2, <1>3, <1>4, <1>6, Zenon DEF Picture
<1>8. QED
  BY <1>7, Zenon

LEMMA PaintedAsOne ==
  ASSUME DrawingInv, context # NoContext
  PROVE  EachIsPainted
<1>1. PICK order, us, src, m, k : Picture(order, us, src, m, k)
  BY PictureOf
<1>2. PICK es : es = Elements
  OBVIOUS
<1>3. /\ m \in Nat /\ k \in 0..m /\ Numbered(es) /\ Ordered(es, m, order)
      /\ Painted(es, order, k, us, src) /\ Len(context.layers) = 1 /\ Units = us
      /\ \A i \in DOMAIN es :
           /\ i \in Done <=> \E j \in 1..k : order[j] = i
           /\ \A p \in 1..Len(us) : p \in Of(es[i]) <=> order[src[p]] = i
           /\ Of(es[i]) \subseteq 1..Len(us)
  BY <1>1, <1>2 DEF Picture
<1>4. /\ DOMAIN us = 1..Len(us) /\ Len(us) \in Nat
      /\ \A p \in 1..Len(us) : src[p] \in 1..k /\ src[p] \in 1..m /\ order[src[p]] \in DOMAIN es
  BY <1>3 DEF Painted, Ordered
<1>5. Done \subseteq DOMAIN es
  BY <1>2 DEF Done
<1>6. ASSUME NEW i \in Done
      PROVE  LET mine == Alone(es[i]) IN
             \E from \in 0..Len(us) :
               /\ Of(es[i]) = (from + 1)..(from + Len(mine))
               /\ \A p \in DOMAIN mine : us[from + p] = mine[p]
  <2>1. PICK j \in 1..k : order[j] = i /\ i \in DOMAIN es
    BY <1>3, <1>5
  <2>2. PICK mine : mine = Alone(es[i])
    OBVIOUS
  <2>3. mine = IF Parts(es[i]) = <<>> THEN <<>> ELSE <<Piece(es[i])>>
    BY <1>3, <2>1, <2>2, AloneIs DEF Numbered, Piece
  <2>4. CASE Parts(es[i]) = <<>>
    <3>1. Of(es[i]) = {}
      BY <1>3, <1>4, <2>1, <2>4 DEF Painted
    <3>2. DOMAIN mine = {} /\ Len(mine) = 0
      BY <2>3, <2>4
    <3>3. 0 \in 0..Len(us) /\ (0 + 1)..(0 + 0) = {}
      BY <1>4
    <3>4. QED
      BY <2>2, <3>1, <3>2, <3>3
  <2>5. CASE Parts(es[i]) # <<>>
    <3>1. PICK p \in 1..Len(us) : src[p] = j
      BY <1>3, <2>1, <2>5 DEF Painted
    <3>2. Of(es[i]) = {p}
      <4>1. p \in Of(es[i])
        BY <1>3, <2>1, <3>1
      <4>2. ASSUME NEW q \in Of(es[i])
            PROVE  q = p
        <5>1. q \in 1..Len(us) /\ order[src[q]] = order[src[p]]
          BY <1>3, <2>1, <3>1, <4>2
        <5>2. src[q] = src[p]
          BY <1>3, <1>4, <3>1, <5>1, OrderIsInjective
        <5>3. ~(q < p) /\ ~(p < q)
          BY <1>3, <1>4, <3>1, <5>1, <5>2 DEF Painted
        <5>4. QED
          BY <3>1, <5>1, <5>3
      <4>3. QED
        BY <4>1, <4>2
    <3>3. us[p] = Piece(es[i])
      BY <1>3, <2>1, <3>1 DEF Painted
    <3>4. DOMAIN mine = {1} /\ Len(mine) = 1 /\ mine[1] = Piece(es[i])
      BY <2>3, <2>5
    <3>5. PICK from \in 0..Len(us) : from = p - 1
      BY <1>4, <3>1
    <3>6. /\ (from + 1)..(from + 1) = {p} /\ from + 1 = p
      BY <1>4, <3>1, <3>5
    <3>7. QED
      BY <2>2, <3>2, <3>3, <3>4, <3>6
  <2>6. QED
    BY <2>4, <2>5
<1>7. ASSUME NEW i \in Done, NEW j \in Done, NEW p \in Of(es[i]), NEW q \in Of(es[j]), p < q
      PROVE  Before(es[i], es[j], i, j)
  <2>1. p \in 1..Len(us) /\ q \in 1..Len(us) /\ order[src[p]] = i /\ order[src[q]] = j
    BY <1>3, <1>5
  <2>2. src[p] < src[q]
    BY <1>3, <1>7, <2>1 DEF Painted
  <2>3. QED
    BY <1>3, <1>4, <2>1, <2>2 DEF Ordered
<1>8. 1..Len(us) = UNION {Of(es[i]) : i \in Done}
  <2>1. ASSUME NEW p \in 1..Len(us)
        PROVE  \E i \in Done : p \in Of(es[i])
    <3>1. PICK i \in DOMAIN es : i = order[src[p]]
      BY <1>4
    <3>2. i \in Done /\ p \in Of(es[i])
      BY <1>3, <1>4, <3>1
    <3>3. QED
      BY <3>2
  <2>2. \A i \in Done : Of(es[i]) \subseteq 1..Len(us)
    BY <1>3, <1>5
  <2>3. QED
    BY <2>1, <2>2
<1>9. QED
  BY <1>2, <1>3, <1>4, <1>6, <1>7, <1>8 DEF EachIsPainted

LEMMA OpacityOnce ==
  ASSUME DrawingInv
  PROVE  OpacityAppliedOnce
<1> SUFFICES ASSUME NEW i \in DOMAIN Elements, context # NoContext
             PROVE  LET e == Elements[i] IN
                    /\ \A p \in Of(e) :
                         /\ Units[p].alpha = e.opacity
                         /\ \A x \in DOMAIN Units[p].parts : Units[p].parts[x].alpha = Opaque
                    /\ e.opacity < Opaque => \A p, q \in Of(e) : p = q
  BY DEF OpacityAppliedOnce
<1>1. PICK order, us, src, m, k : Picture(order, us, src, m, k)
  BY PictureOf
<1>2. PICK es : es = Elements
  OBVIOUS
<1>3. /\ m \in Nat /\ k \in 0..m /\ Numbered(es) /\ Ordered(es, m, order) /\ i \in DOMAIN es
      /\ Painted(es, order, k, us, src) /\ Units = us
      /\ \A p \in 1..Len(us) : p \in Of(es[i]) <=> order[src[p]] = i
      /\ Of(es[i]) \subseteq 1..Len(us)
  BY <1>1, <1>2 DEF Picture
<1>4. \A p \in 1..Len(us) : src[p] \in 1..m
  BY <1>3 DEF Painted
<1>5. ASSUME NEW p \in Of(es[i])
      PROVE  /\ us[p].alpha = es[i].opacity
             /\ \A x \in DOMAIN us[p].parts : us[p].parts[x].alpha = Opaque
  <2>1. p \in 1..Len(us) /\ order[src[p]] = i
    BY <1>3
  <2>2. QED
    BY <1>3, <2>1, WhoPainted
<1>6. ASSUME NEW p \in Of(es[i]), NEW q \in Of(es[i])
      PROVE  p = q
  <2>1. p \in 1..Len(us) /\ q \in 1..Len(us) /\ order[src[p]] = i /\ order[src[q]] = i
    BY <1>3
  <2>2. src[p] = src[q]
    BY <1>3, <1>4, <2>1, OrderIsInjective
  <2>3. ~(p < q) /\ ~(q < p)
    BY <1>3, <1>4, <2>1, <2>2 DEF Painted
  <2>4. QED
    BY <2>1, <2>3
<1>7. QED
  BY <1>2, <1>3, <1>5, <1>6

\* Whatever was drawn before it - in a group or not, clipped or not - an element
\* is painted as if it were alone, in one piece and over the layers below
\* (CairoOverlayRenderer::Render).
THEOREM LayoutIsPaintedInOrder == DrawingSpec => []EachIsPainted
<1>1. DrawingInv => EachIsPainted
  <2>1. context = NoContext => EachIsPainted
    BY DEF EachIsPainted
  <2>2. QED
    BY <2>1, PaintedAsOne
<1>2. QED
  BY <1>1, DrawnInOrder, PTL

\* The opacity of an element is in the one unit it is painted as, and nowhere in
\* its parts (DrawText and its group).
THEOREM TranslucentOnce == DrawingSpec => []OpacityAppliedOnce
<1>1. QED
  BY OpacityOnce, DrawnInOrder, PTL
=============================================================================

-------------------------- MODULE RawCaptureProofs --------------------------
(***************************************************************************)
(* The raw capture sink for any number of cameras, rings of any capacity   *)
(* and any number of captures.                                             *)
(*                                                                         *)
(* The invariant has three parts beside the types.  Phases says what each  *)
(* camera's writer and file may be doing while the control thread is at a  *)
(* point of Start or Stop; Order, that what is in the file is older than   *)
(* what the writer holds and that older than the ring; Accounts, that      *)
(* nothing is missing.                                                     *)
(*                                                                         *)
(* Then the names of the files: whatever a group id is made of, the last   *)
(* camera marker in a name is the one the sink wrote.                      *)
(***************************************************************************)
EXTENDS RawCapture, RawNaming, SequenceTheorems, TLAPS

Frames == 1..MaxFrames

\* The types, a part for each group of variables.
Writers == [at : {"none", "loop", "drain", "exited"}, frame : 0..MaxFrames]

LockShape == /\ mutex \in Cameras \cup {Nobody, Control}
             /\ control \in [what : {"idle", "opening", "draining"}, camera : 0..N]
ProducerShape == /\ producer \in [Cameras -> 0..MaxFrames]
                 /\ offered \in [Cameras -> 0..MaxFrames]
WriterShape == writer \in [Cameras -> Writers] /\ stopping \in [Cameras -> BOOLEAN]
RingShape == ring \in [Cameras -> Seq(Frames)]
CountShape == stored \in [Cameras -> Nat] /\ evicted \in [Cameras -> Nat]
FileShape == file \in [Cameras -> Seq(Frames)]
FlagShape == opened \in [Cameras -> BOOLEAN] /\ full \in [Cameras -> BOOLEAN]

Shape == /\ LockShape /\ ProducerShape /\ WriterShape /\ RingShape /\ CountShape
         /\ FileShape /\ FlagShape

\* A producer has mtx_ exactly while it is inside PushCamera, with its latest frame.
Inside(c) == /\ mutex = c <=> producer[c] # 0
             /\ producer[c] # 0 => producer[c] = offered[c]

\* A writer that is gone left nothing, and goes only when told.
Quiet(c) == ~Alive(c) /\ ~opened[c]
Gone(c) == ~Alive(c) => writer[c].frame = 0 /\ ring[c] = <<>>
Told(c) == writer[c].at \in {"drain", "exited"} => stopping[c]

Detached(c) ==
  IF c < control.camera THEN Quiet(c) ELSE opened[c] /\ writer[c].at # "none"

Phases ==
  /\ mutex = Control <=> Doing("opening")
  /\ capturing => Doing("idle")
  /\ \A c \in Cameras :
       /\ Gone(c) /\ Told(c)
       /\ capturing => writer[c].at = "loop" /\ opened[c] /\ ~stopping[c]
       /\ ~capturing /\ ~Doing("draining") => Quiet(c)
       /\ Doing("draining") => Detached(c)

\* The frames that have reached the sink's ring, or would have.
Entered(c) == IF producer[c] = 0 THEN offered[c] ELSE offered[c] - 1

Ascending(s) == \A i, j \in 1..Len(s) : i < j => s[i] < s[j]

Order(c) ==
  /\ Ascending(file[c]) /\ Ascending(ring[c])
  /\ \A i \in 1..Len(file[c]) : /\ file[c][i] <= Entered(c)
                                /\ writer[c].frame # 0 => file[c][i] < writer[c].frame
                                /\ \A j \in 1..Len(ring[c]) : file[c][i] < ring[c][j]
  /\ writer[c].frame <= Entered(c)
  /\ \A j \in 1..Len(ring[c]) : writer[c].frame < ring[c][j] /\ ring[c][j] <= Entered(c)

Accounts(c) ==
  ~full[c] => stored[c] = Len(file[c]) + InHand(c) + Len(ring[c]) + evicted[c]

CameraInv(c) == Inside(c) /\ Order(c) /\ Accounts(c) /\ Len(ring[c]) <= Capacity

RawInv == Shape /\ Phases /\ \A c \in Cameras : CameraInv(c)

-----------------------------------------------------------------------------
\* The holders of mtx_ are told apart.
LEMMA Holders ==
  /\ Nobody \notin Cameras /\ Control \notin Cameras /\ Nobody # Control
  /\ 0 \in 0..N /\ N \in Nat /\ Capacity \in Nat \ {0} /\ MaxFrames \in Nat
  BY RawAssumption DEF Cameras, Nobody, Control

\* What a ring holds after a push: the new frame behind what it kept.
LEMMA AppendAscending ==
  ASSUME NEW s \in Seq(Frames), NEW x \in Frames, Ascending(s),
         \A k \in 1..Len(s) : s[k] < x
  PROVE  Ascending(Append(s, x))
<1> DEFINE t == Append(s, x)
<1>1. /\ Len(s) \in Nat /\ Len(t) = Len(s) + 1 /\ t[Len(s) + 1] = x
      /\ \A j \in 1..Len(s) : t[j] = s[j]
  BY AppendProperties, LenProperties
<1> HIDE DEF t
<1>2. ASSUME NEW i \in 1..Len(t), NEW j \in 1..Len(t), i < j PROVE t[i] < t[j]
  <2>1. i \in 1..Len(s) /\ t[i] = s[i]
    BY <1>1, <1>2
  <2>2. CASE j = Len(s) + 1
    BY <1>1, <2>1, <2>2
  <2>3. CASE j \in 1..Len(s)
    BY <1>1, <1>2, <2>1, <2>3 DEF Ascending
  <2>4. QED
    BY <1>1, <2>2, <2>3
<1>3. QED
  BY <1>2 DEF Ascending, t

LEMMA TailAscending ==
  ASSUME NEW s \in Seq(Frames), s # <<>>
  PROVE  /\ Tail(s) \in Seq(Frames) /\ Len(Tail(s)) = Len(s) - 1 /\ Head(s) = s[1]
         /\ Len(s) > 0 /\ Head(s) \in Frames
         /\ \A j \in 1..Len(Tail(s)) : Tail(s)[j] = s[j + 1] /\ j + 1 \in 1..Len(s)
         /\ Ascending(s) => Ascending(Tail(s)) /\ \A j \in 1..Len(Tail(s)) : s[1] < Tail(s)[j]
<1>1. /\ Tail(s) \in Seq(Frames) /\ Len(Tail(s)) = Len(s) - 1 /\ Head(s) = s[1]
      /\ Len(s) > 0 /\ Len(s) \in Nat /\ Head(s) \in Frames
  OBVIOUS
<1>2. \A j \in 1..Len(Tail(s)) : Tail(s)[j] = s[j + 1] /\ j + 1 \in 1..Len(s)
  BY <1>1
<1>3. Ascending(s) => Ascending(Tail(s)) /\ \A j \in 1..Len(Tail(s)) : s[1] < Tail(s)[j]
  <2> SUFFICES ASSUME Ascending(s)
               PROVE  /\ \A i, j \in 1..Len(Tail(s)) : i < j => Tail(s)[i] < Tail(s)[j]
                      /\ \A j \in 1..Len(Tail(s)) : s[1] < Tail(s)[j]
    BY DEF Ascending
  <2>1. \A i, j \in 1..Len(s) : i < j => s[i] < s[j]
    BY DEF Ascending
  <2>2. QED
    BY <1>1, <1>2, <2>1
<1>4. QED
  BY <1>1, <1>2, <1>3

\* What a ring holds after a push: the new frame behind what it kept.
PutIn(s, x) == Append(IF Len(s) < Capacity THEN s ELSE Tail(s), x)

LEMMA PutInRing ==
  ASSUME NEW s \in Seq(Frames), NEW x \in Frames, Len(s) <= Capacity
  PROVE  LET t == PutIn(s, x) IN
         /\ t \in Seq(Frames) /\ Len(t) <= Capacity
         /\ Len(t) = IF Len(s) < Capacity THEN Len(s) + 1 ELSE Len(s)
         /\ \A j \in 1..Len(t) : t[j] = x \/ \E k \in 1..Len(s) : t[j] = s[k]
         /\ Ascending(s) /\ (\A k \in 1..Len(s) : s[k] < x) => Ascending(t)
<1> DEFINE t == PutIn(s, x)
<1> HIDE DEF t
<1>1. CASE Len(s) < Capacity
  <2>1. t = Append(s, x)
    BY <1>1 DEF t, PutIn
  <2>2. /\ t \in Seq(Frames) /\ Len(t) = Len(s) + 1 /\ Len(s) \in Nat
        /\ \A j \in 1..Len(s) : t[j] = s[j]
        /\ t[Len(s) + 1] = x
    <3>1. /\ Append(s, x) \in Seq(Frames) /\ Len(Append(s, x)) = Len(s) + 1
          /\ \A j \in 1..Len(s) : Append(s, x)[j] = s[j]
          /\ Append(s, x)[Len(s) + 1] = x
      BY AppendProperties
    <3>2. QED
      BY <2>1, <3>1, LenProperties
  <2>3. ASSUME NEW j \in 1..Len(t), t[j] # x PROVE j \in 1..Len(s) /\ t[j] = s[j]
    BY <2>2, <2>3
  <2>4. Ascending(s) /\ (\A k \in 1..Len(s) : s[k] < x) => Ascending(t)
    BY <2>1, AppendAscending
  <2>5. QED
    BY <1>1, <2>2, <2>3, <2>4, Holders DEF t
<1>2. CASE ~(Len(s) < Capacity)
  <2> DEFINE r == Tail(s)
  <2>1. s # <<>> /\ t = Append(r, x)
    BY <1>2, Holders DEF t, PutIn
  <2>2. /\ r \in Seq(Frames) /\ Len(r) = Len(s) - 1 /\ Len(s) \in Nat
        /\ \A j \in 1..Len(r) : r[j] = s[j + 1] /\ j + 1 \in 1..Len(s)
        /\ Ascending(s) => Ascending(r)
    BY <2>1, TailAscending
  <2> HIDE DEF r
  <2>3. t \in Seq(Frames) /\ Len(t) = Len(s)
    BY <2>1, <2>2
  <2>4. \A j \in 1..Len(t) : t[j] = x \/ \E k \in 1..Len(s) : t[j] = s[k]
    <3>1. \A j \in 1..Len(t) : t[j] = x \/ (j \in 1..Len(r) /\ t[j] = r[j])
      BY <2>1, <2>2, <2>3
    <3>2. QED
      BY <2>2, <3>1
  <2>5. Ascending(s) /\ (\A k \in 1..Len(s) : s[k] < x) => Ascending(t)
    BY <2>1, <2>2, AppendAscending
  <2>6. QED
    BY <1>2, <2>3, <2>4, <2>5 DEF t
<1>3. QED
  BY <1>1, <1>2 DEF t

LEMMA RawInitInv == Init => RawInv
<1> SUFFICES ASSUME Init PROVE RawInv
  OBVIOUS
<1> USE Holders DEF Init, At, Doing
<1>1. Shape
  <2>1. <<>> \in Seq(Frames) /\ 0 \in 0..MaxFrames
    OBVIOUS
  <2>2. QED
    BY <2>1 DEF Shape, LockShape, ProducerShape, WriterShape, RingShape, CountShape,
                FileShape, FlagShape, Writers
<1>2. Phases
  BY DEF Phases, Gone, Told, Quiet, Alive
<1>3. ASSUME NEW c \in Cameras PROVE CameraInv(c)
  BY DEF CameraInv, Inside, Order, Accounts, InHand, Ascending, Entered
<1>4. QED
  BY <1>1, <1>2, <1>3 DEF RawInv

-----------------------------------------------------------------------------
\* The types.

LEMMA PushedFrame ==
  ASSUME RawInv, NEW c \in Cameras, mutex = c
  PROVE  producer[c] = offered[c] /\ producer[c] \in Frames /\ producer[c] # 0
  BY Holders DEF RawInv, CameraInv, Inside, Shape, ProducerShape, Frames

LEMMA ShapeStep == RawInv /\ Next => Shape'
<1> SUFFICES ASSUME RawInv, Next PROVE Shape'
  OBVIOUS
<1>0. /\ LockShape /\ ProducerShape /\ WriterShape /\ RingShape /\ CountShape
      /\ FileShape /\ FlagShape
  BY DEF RawInv, Shape
<1> USE <1>0 DEF disk, threads, lock
<1> USE Holders
<1>1. LockShape'
  <2>1. \A c \in Cameras : Bring(c) => LockShape'
    BY DEF LockShape, Bring
  <2>2. \A c \in Cameras : Push(c) \/ WriterStep(c) => LockShape'
    BY DEF LockShape, Push, WriterStep, Take, WriteFrame, SeesStopping, WriterExits
  <2>3. BeginStart \/ OpenFile \/ OpenFails \/ Commit => LockShape'
    BY DEF LockShape, BeginStart, OpenFile, OpenFails, Commit, Doing
  <2>4. BeginStop \/ StopWriter \/ StopReturns => LockShape'
    BY DEF LockShape, BeginStop, StopWriter, StopReturns, Doing
  <2>5. JoinWriter => LockShape'
    BY DEF LockShape, JoinWriter
  <2>6. QED
    BY <2>1, <2>2, <2>3, <2>4, <2>5 DEF Next, ControlStep
<1>2. ProducerShape'
  <2>1. ASSUME NEW c \in Cameras, Bring(c) PROVE ProducerShape'
    <3>1. offered[c] + 1 \in 0..MaxFrames
      BY <2>1 DEF ProducerShape, Bring
    <3>2. offered' \in [Cameras -> 0..MaxFrames]
      BY <2>1, <3>1 DEF ProducerShape, Bring
    <3>3. producer' \in [Cameras -> 0..MaxFrames]
      BY <2>1, <3>1 DEF ProducerShape, Bring
    <3>4. QED
      BY <3>2, <3>3 DEF ProducerShape
  <2>2. \A c \in Cameras : Push(c) => ProducerShape'
    BY DEF ProducerShape, Push
  <2>3. \A c \in Cameras : WriterStep(c) => ProducerShape'
    BY DEF ProducerShape, WriterStep, Take, WriteFrame, SeesStopping, WriterExits
  <2>4. ControlStep => ProducerShape'
    BY DEF ProducerShape, ControlStep, BeginStart, OpenFile, OpenFails, Commit,
           BeginStop, StopWriter, JoinWriter, StopReturns
  <2>5. QED
    BY <2>1, <2>2, <2>3, <2>4 DEF Next
<1>3. WriterShape'
  <2>1. ASSUME NEW c \in Cameras, Take(c) PROVE WriterShape'
    <3>1. Head(ring[c]) \in 0..MaxFrames
      BY <2>1, TailAscending DEF Take, RingShape, Frames
    <3>2. QED
      BY <2>1, <3>1 DEF Take, WriterShape, Writers
  <2>2. ASSUME NEW c \in Cameras, WriteFrame(c) PROVE WriterShape'
    <3>1. [writer[c] EXCEPT !.frame = 0] \in Writers
      BY DEF WriterShape, Writers
    <3>2. writer' = [writer EXCEPT ![c] = [writer[c] EXCEPT !.frame = 0]]
      BY <2>2 DEF WriteFrame
    <3>3. QED
      BY <2>2, <3>1, <3>2 DEF WriteFrame, WriterShape
  <2>3. ASSUME NEW c \in Cameras, SeesStopping(c) \/ WriterExits(c) PROVE WriterShape'
    <3>1. PICK at \in {"drain", "exited"} :
            writer' = [writer EXCEPT ![c] = [writer[c] EXCEPT !.at = at]]
      BY <2>3 DEF SeesStopping, WriterExits
    <3>2. [writer[c] EXCEPT !.at = at] \in Writers
      BY DEF WriterShape, Writers
    <3>3. QED
      BY <2>3, <3>1, <3>2 DEF SeesStopping, WriterExits, WriterShape
  <2>4. \A c \in Cameras : Bring(c) \/ Push(c) => WriterShape'
    BY DEF Bring, Push, WriterShape
  <2>5. Commit => WriterShape'
    BY DEF Commit, WriterShape, Writers, At
  <2>6. StopWriter => WriterShape'
    BY DEF StopWriter, TellWriter, WriterShape
  <2>7. ControlStep /\ ~Commit /\ ~StopWriter => WriterShape'
    BY DEF ControlStep, BeginStart, OpenFile, OpenFails, BeginStop, JoinWriter,
           StopReturns, WriterShape
  <2>8. QED
    BY <2>1, <2>2, <2>3, <2>4, <2>5, <2>6, <2>7 DEF Next, WriterStep
<1>4. RingShape'
  <2>1. ASSUME NEW c \in Cameras, Push(c) PROVE RingShape'
    <3> DEFINE put == PutIn(ring[c], producer[c])
    <3>1. put \in Seq(Frames)
      BY <2>1, PushedFrame, PutInRing DEF Push, RawInv, CameraInv, RingShape
    <3>2. ring' = [ring EXCEPT ![c] = put] \/ ring' = ring
      BY <2>1 DEF Push, Put, PutIn
    <3> HIDE DEF put
    <3>3. QED
      BY <3>1, <3>2 DEF RingShape
  <2>2. ASSUME NEW c \in Cameras, Take(c) PROVE RingShape'
    <3>1. Tail(ring[c]) \in Seq(Frames)
      BY <2>2, TailAscending DEF Take, RingShape
    <3>2. QED
      BY <2>2, <3>1 DEF Take, RingShape
  <2>3. \A c \in Cameras : Bring(c) \/ WriteFrame(c) => RingShape'
    BY DEF Bring, WriteFrame, RingShape
  <2>4. \A c \in Cameras : SeesStopping(c) \/ WriterExits(c) => RingShape'
    BY DEF SeesStopping, WriterExits, RingShape
  <2>5. Commit \/ JoinWriter => RingShape'
    <3>1. <<>> \in Seq(Frames)
      OBVIOUS
    <3>2. QED
      BY <3>1 DEF Commit, JoinWriter, RingShape
  <2>6. ControlStep /\ ~Commit /\ ~JoinWriter => RingShape'
    BY DEF ControlStep, BeginStart, OpenFile, OpenFails, BeginStop, StopWriter,
           StopReturns, RingShape
  <2>7. QED
    BY <2>1, <2>2, <2>3, <2>4, <2>5, <2>6 DEF Next, WriterStep
<1>5. CountShape'
  <2>1. ASSUME NEW c \in Cameras, Push(c) PROVE CountShape'
    <3>1. stored[c] + 1 \in Nat /\ evicted[c] + 1 \in Nat
      BY DEF CountShape
    <3>2. QED
      BY <2>1, <3>1 DEF Push, CountShape
  <2>2. \A c \in Cameras : Bring(c) \/ WriterStep(c) => CountShape'
    BY DEF Bring, WriterStep, Take, WriteFrame, SeesStopping, WriterExits, CountShape
  <2>3. ControlStep => CountShape'
    BY DEF ControlStep, BeginStart, OpenFile, OpenFails, Commit, BeginStop, StopWriter,
           JoinWriter, StopReturns, CountShape
  <2>4. QED
    BY <2>1, <2>2, <2>3 DEF Next
<1>6. FileShape'
  <2>1. ASSUME NEW c \in Cameras, WriteFrame(c) PROVE FileShape'
    <3>1. Append(file[c], writer[c].frame) \in Seq(Frames)
      <4>1. writer[c].frame \in Frames
        BY <2>1 DEF WriteFrame, WriterShape, Writers, Frames
      <4>2. QED
        BY <4>1, AppendProperties DEF FileShape
    <3>2. QED
      BY <2>1, <3>1 DEF WriteFrame, FileShape
  <2>2. \A c \in Cameras : Take(c) \/ SeesStopping(c) \/ WriterExits(c) => FileShape'
    BY DEF Take, SeesStopping, WriterExits, FileShape
  <2>3. \A c \in Cameras : Bring(c) \/ Push(c) => FileShape'
    BY DEF Bring, Push, FileShape
  <2>4. Commit => FileShape'
    <3>1. <<>> \in Seq(Frames)
      OBVIOUS
    <3>2. QED
      BY <3>1 DEF Commit, FileShape
  <2>5. ASSUME JoinWriter PROVE FileShape'
    <3>1. control.camera \in Cameras
      BY <2>5 DEF JoinWriter, LockShape, Cameras
    <3>2. file[control.camera] \o ring[control.camera] \in Seq(Frames)
      BY <3>1, ConcatProperties DEF FileShape, RingShape
    <3>3. QED
      BY <2>5, <3>1, <3>2 DEF JoinWriter, FileShape
  <2>6. ControlStep /\ ~Commit /\ ~JoinWriter => FileShape'
    BY DEF ControlStep, BeginStart, OpenFile, OpenFails, BeginStop, StopWriter,
           StopReturns, FileShape
  <2>7. QED
    BY <2>1, <2>2, <2>3, <2>4, <2>5, <2>6 DEF Next, WriterStep
<1>7. FlagShape'
  <2>1. \A c \in Cameras : WriteFrame(c) => FlagShape'
    BY DEF WriteFrame, FlagShape
  <2>2. \A c \in Cameras : Take(c) \/ SeesStopping(c) \/ WriterExits(c) => FlagShape'
    BY DEF Take, SeesStopping, WriterExits, FlagShape
  <2>3. \A c \in Cameras : Bring(c) \/ Push(c) => FlagShape'
    BY DEF Bring, Push, FlagShape
  <2>4. Commit \/ JoinWriter => FlagShape'
    BY DEF Commit, JoinWriter, FlagShape
  <2>5. ControlStep /\ ~Commit /\ ~JoinWriter => FlagShape'
    BY DEF ControlStep, BeginStart, OpenFile, OpenFails, BeginStop, StopWriter,
           StopReturns, FlagShape
  <2>6. QED
    BY <2>1, <2>2, <2>3, <2>4, <2>5 DEF Next, WriterStep
<1>8. QED
  BY <1>1, <1>2, <1>3, <1>4, <1>5, <1>6, <1>7 DEF Shape

-----------------------------------------------------------------------------
\* Start, Stop and the writers.

LEMMA PhasesStep == RawInv /\ Next => Phases'
<1> SUFFICES ASSUME RawInv, Next PROVE Phases'
  OBVIOUS
<1>0. LockShape /\ ProducerShape /\ WriterShape /\ RingShape /\ FlagShape /\ Phases
  BY DEF RawInv, Shape
<1> USE <1>0, Holders DEF disk, threads, lock, Doing
<1>1. CASE BeginStart \/ OpenFile \/ OpenFails
  BY <1>1 DEF BeginStart, OpenFile, OpenFails, Phases, Gone, Told, Alive, Quiet, LockShape
<1>2. CASE Commit
  BY <1>2 DEF Commit, Phases, Gone, Told, Alive, Quiet, LockShape, At
<1>3. CASE BeginStop
  BY <1>3 DEF BeginStop, Phases, Gone, Told, Alive, Quiet, Detached, LockShape, Cameras
<1>4. CASE StopWriter
  BY <1>4 DEF StopWriter, TellWriter, Phases, Gone, Told, Alive, Quiet, Detached,
              LockShape, WriterShape
<1>5. CASE JoinWriter
  <2> DEFINE k == control.camera
  <2>1. /\ k \in Cameras /\ Doing("draining") /\ ~Alive(k)
        /\ control'.what = "draining" /\ control'.camera = k + 1
        /\ opened' = [opened EXCEPT ![k] = FALSE] /\ ring' = [ring EXCEPT ![k] = <<>>]
        /\ UNCHANGED <<mutex, capturing, writer, stopping>>
    BY <1>5 DEF JoinWriter, LockShape, Cameras
  <2>2. /\ ~opened'[k] /\ ring'[k] = <<>>
        /\ \A c \in Cameras : c # k => opened'[c] = opened[c] /\ ring'[c] = ring[c]
    BY <2>1 DEF FlagShape, RingShape
  <2>3. \A c \in Cameras : c < k + 1 <=> c < k \/ c = k
    BY <2>1 DEF Cameras
  <2>4. \A c \in Cameras : Gone(c)' /\ Told(c)'
    BY <2>1, <2>2 DEF Phases, Gone, Told, Alive
  <2>5. \A c \in Cameras : Detached(c)'
    BY <2>1, <2>2, <2>3 DEF Phases, Detached, Quiet, Alive
  <2>6. QED
    BY <2>1, <2>4, <2>5 DEF Phases
<1>6. CASE StopReturns
  BY <1>6 DEF StopReturns, Phases, Gone, Told, Alive, Quiet, Detached, LockShape, Cameras
<1>7. ASSUME NEW c \in Cameras, Bring(c) PROVE Phases'
  BY <1>7 DEF Bring, Phases, Gone, Told, Alive, Quiet, Detached
<1>8. ASSUME NEW c \in Cameras, Push(c) PROVE Phases'
  <2>1. \A d \in Cameras : ring'[d] # ring[d] => capturing
    BY <1>8 DEF Push
  <2>2. QED
    BY <1>8, <2>1 DEF Push, Phases, Gone, Told, Alive, Quiet, Detached
<1>9. ASSUME NEW c \in Cameras, Take(c) PROVE Phases'
  <2>1. \A d \in Cameras : writer'[d].at = writer[d].at
    BY <1>9 DEF Take, WriterShape, Writers
  <2>2. \A d \in Cameras : d # c => writer'[d] = writer[d] /\ ring'[d] = ring[d]
    BY <1>9 DEF Take, WriterShape, RingShape
  <2>3. QED
    BY <1>9, <2>1, <2>2 DEF Take, Phases, Gone, Told, Alive, Quiet, Detached
<1>10. ASSUME NEW c \in Cameras, WriteFrame(c) PROVE Phases'
  <2>1. \A d \in Cameras : /\ writer'[d].at = writer[d].at
                           /\ writer'[d].frame \in {writer[d].frame, 0}
    BY <1>10 DEF WriteFrame, WriterShape, Writers
  <2>2. QED
    BY <1>10, <2>1 DEF WriteFrame, Phases, Gone, Told, Alive, Quiet, Detached
<1>11. ASSUME NEW c \in Cameras, SeesStopping(c) PROVE Phases'
  <2>1. \A d \in Cameras : d # c => writer'[d] = writer[d]
    BY <1>11 DEF SeesStopping, WriterShape
  <2>2. writer[c].at = "loop" /\ writer'[c].at = "drain" /\ stopping[c]
    BY <1>11 DEF SeesStopping, WriterShape, Writers, At
  <2>3. QED
    BY <1>11, <2>1, <2>2 DEF SeesStopping, Phases, Gone, Told, Alive, Quiet, Detached
<1>12. ASSUME NEW c \in Cameras, WriterExits(c) PROVE Phases'
  <2>1. \A d \in Cameras : d # c => writer'[d] = writer[d]
    BY <1>12 DEF WriterExits, WriterShape
  <2>2. /\ writer[c].at = "drain" /\ writer'[c].at = "exited" /\ writer'[c].frame = 0
        /\ ring[c] = <<>>
    BY <1>12 DEF WriterExits, WriterShape, Writers, At
  <2>3. QED
    BY <1>12, <2>1, <2>2 DEF WriterExits, Phases, Gone, Told, Alive, Quiet, Detached
<1>13. QED
  BY ONLY Next, <1>1, <1>2, <1>3, <1>4, <1>5, <1>6, <1>7, <1>8, <1>9, <1>10, <1>11, <1>12
  DEF Next, ControlStep, WriterStep

-----------------------------------------------------------------------------
\* The frames of one camera.

LEMMA UntouchedCamera ==
  ASSUME NEW d \in Cameras, CameraInv(d), mutex' = d <=> mutex = d,
         writer'[d].frame = writer[d].frame,
         UNCHANGED <<producer[d], offered[d], ring[d], file[d], full[d], stored[d], evicted[d]>>
  PROVE  CameraInv(d)'
  BY DEF CameraInv, Inside, Order, Ascending, Entered, Accounts, InHand

CameraTypes(d) ==
  /\ producer[d] \in Nat /\ offered[d] \in Nat
  /\ writer[d] \in Writers /\ writer[d].frame \in Nat
  /\ ring[d] \in Seq(Frames) /\ file[d] \in Seq(Frames)
  /\ Len(ring[d]) \in Nat /\ Len(file[d]) \in Nat
  /\ stored[d] \in Nat /\ evicted[d] \in Nat
  /\ \A i \in 1..Len(file[d]) : file[d][i] \in Nat
  /\ \A i \in 1..Len(ring[d]) : ring[d][i] \in Nat

\* What the invariant says of camera d, and its types.
LEMMA CameraFacts ==
  ASSUME RawInv, NEW d \in Cameras
  PROVE  CameraInv(d) /\ CameraTypes(d)
<1>1. ring[d] \in Seq(Frames) /\ file[d] \in Seq(Frames)
  BY DEF RawInv, Shape, RingShape, FileShape
<1>2. writer[d] \in Writers /\ writer[d].frame \in Nat
  BY Holders DEF RawInv, Shape, WriterShape, Writers
<1>3. /\ CameraInv(d)
      /\ producer[d] \in Nat /\ offered[d] \in Nat
      /\ stored[d] \in Nat /\ evicted[d] \in Nat
  BY Holders DEF RawInv, Shape, ProducerShape, CountShape
<1>4. Frames \subseteq Nat
  BY Holders DEF Frames
<1>5. QED
  BY <1>1, <1>2, <1>3, <1>4, LenProperties, ElementOfSeq DEF CameraTypes

\* More may have entered; the order stays.
LEMMA OrderStays ==
  ASSUME NEW d \in Cameras, CameraInv(d), CameraTypes(d),
         Entered(d) \in Int, Entered(d)' \in Int, Entered(d) <= Entered(d)',
         writer'[d].frame = writer[d].frame, UNCHANGED <<ring[d], file[d]>>
  PROVE  Order(d)'
<1>1. \A n \in Nat : n <= Entered(d) => n <= Entered(d)'
  OBVIOUS
<1>2. QED
  BY <1>1 DEF CameraInv, CameraTypes, Order, Ascending

LEMMA CommitKeepsCamera ==
  ASSUME RawInv, Commit, NEW d \in Cameras
  PROVE  CameraInv(d)'
<1>0. CameraInv(d) /\ CameraTypes(d)
  BY CameraFacts
<1>1. /\ writer'[d].frame = 0 /\ ring'[d] = <<>> /\ file'[d] = <<>>
      /\ stored'[d] = 0 /\ evicted'[d] = 0 /\ mutex' = Nobody
      /\ producer'[d] = producer[d] /\ offered'[d] = offered[d]
  BY DEF Commit, At
<1>2. producer[d] = 0
  BY <1>0, Holders DEF CameraTypes, RawInv, Phases, Commit, CameraInv, Inside
<1>3. QED
  BY <1>1, <1>2, <1>0, Holders
  DEF CameraTypes, CameraInv, Inside, Order, Ascending, Entered, Accounts, InHand

LEMMA BringKeepsCamera ==
  ASSUME RawInv, NEW d \in Cameras, Bring(d)
  PROVE  CameraInv(d)'
<1>0. CameraInv(d) /\ CameraTypes(d)
  BY CameraFacts
<1>1. /\ producer[d] = 0 /\ offered'[d] = offered[d] + 1
      /\ UNCHANGED <<writer[d], ring[d], file[d], full[d], stored[d], evicted[d]>>
  BY DEF Bring, threads, disk, RawInv, Shape, ProducerShape
<1>2. /\ mutex = Nobody => mutex' = d /\ producer'[d] = offered'[d]
      /\ mutex # Nobody => mutex' = mutex /\ producer'[d] = 0
  BY <1>1 DEF Bring, RawInv, Shape, ProducerShape
<1>3. Entered(d)' >= Entered(d) /\ Entered(d)' \in Int /\ Entered(d) \in Int
  BY <1>1, <1>2, <1>0 DEF CameraTypes, Entered
<1>4. Inside(d)'
  BY <1>1, <1>2, <1>0 DEF CameraTypes, CameraInv, Inside
<1>5. Order(d)'
  BY <1>0, <1>1, <1>3, OrderStays
<1>6. Accounts(d)' /\ Len(ring'[d]) <= Capacity
  BY <1>1, <1>0 DEF CameraTypes, CameraInv, Accounts, InHand
<1>7. QED
  BY <1>4, <1>5, <1>6 DEF CameraInv

LEMMA PushKeepsCamera ==
  ASSUME RawInv, NEW d \in Cameras, Push(d)
  PROVE  CameraInv(d)'
<1>0. CameraInv(d) /\ CameraTypes(d)
  BY CameraFacts
<1> DEFINE x == producer[d]
           put == PutIn(ring[d], x)
<1>1. x = offered[d] /\ x \in Frames /\ x # 0
  BY PushedFrame DEF Push
<1>2. /\ mutex' = Nobody /\ producer'[d] = 0 /\ offered'[d] = offered[d]
      /\ UNCHANGED <<writer[d], file[d], full[d]>>
  BY DEF Push, threads, disk, RawInv, Shape, ProducerShape
<1>3. /\ Entered(d)' = x /\ Entered(d) = x - 1 /\ x \in Nat
      /\ Inside(d)'
  BY <1>1, <1>2, Holders DEF Entered, Inside, Frames
<1>4. CASE ~capturing
  <2>1. UNCHANGED <<ring[d], stored[d], evicted[d]>>
    BY <1>4 DEF Push
  <2>2. Order(d)'
    BY <1>0, <1>2, <1>3, <2>1, OrderStays
  <2>3. QED
    BY <1>2, <1>3, <2>1, <2>2, <1>0 DEF CameraTypes, CameraInv, Accounts, InHand
<1>5. CASE capturing
  <2>1. /\ ring'[d] = put /\ stored'[d] = stored[d] + 1
        /\ evicted'[d] = IF Len(ring[d]) < Capacity THEN evicted[d] ELSE evicted[d] + 1
    BY <1>5 DEF Push, Put, PutIn, RawInv, Shape, RingShape, CountShape
  <2>2. \A k \in 1..Len(ring[d]) : ring[d][k] < x
    BY <1>3, <1>0 DEF CameraTypes, CameraInv, Order
  <2>3. Ascending(ring[d]) /\ Len(ring[d]) <= Capacity
    BY <1>0 DEF CameraTypes, CameraInv, Order
  <2>4. /\ Len(put) <= Capacity
        /\ Len(put) = IF Len(ring[d]) < Capacity THEN Len(ring[d]) + 1 ELSE Len(ring[d])
        /\ \A j \in 1..Len(put) : put[j] = x \/ \E k \in 1..Len(ring[d]) : put[j] = ring[d][k]
        /\ Ascending(put)
    BY <1>1, <2>2, <2>3, <1>0, PutInRing DEF CameraTypes
  <2> HIDE DEF put
  <2>5. Accounts(d)'
    <3>1. /\ stored[d] \in Nat /\ evicted[d] \in Nat /\ Len(file[d]) \in Nat
          /\ Len(ring[d]) \in Nat /\ InHand(d) \in Nat
          /\ Len(file'[d]) = Len(file[d]) /\ stored'[d] = stored[d] + 1
      BY <1>0, <1>2, <2>1 DEF CameraTypes, InHand
    <3> SUFFICES ASSUME ~full'[d]
                 PROVE  stored'[d] = Len(file'[d]) + InHand(d) + Len(ring'[d]) + evicted'[d]
      BY <1>2 DEF Accounts, InHand
    <3>2. stored[d] = Len(file[d]) + InHand(d) + Len(ring[d]) + evicted[d]
      BY <1>0, <1>2 DEF CameraInv, Accounts
    <3> DEFINE f == Len(file[d])  h == InHand(d)  r == Len(ring[d])  e == evicted[d]
    <3>3. f \in Nat /\ h \in Nat /\ r \in Nat /\ e \in Nat /\ stored'[d] = f + h + r + e + 1
      BY <3>1, <3>2
    <3> HIDE DEF f, h, r, e
    <3>4. CASE Len(ring[d]) < Capacity
      <4>1. Len(ring'[d]) = Len(ring[d]) + 1 /\ evicted'[d] = evicted[d]
        BY <2>1, <2>4, <3>4
      <4>2. stored'[d] = f + h + (r + 1) + e
        BY <3>3
      <4>3. QED
        BY <3>1, <4>1, <4>2 DEF f, h, r, e
    <3>5. CASE ~(Len(ring[d]) < Capacity)
      <4>1. Len(ring'[d]) = Len(ring[d]) /\ evicted'[d] = evicted[d] + 1
        BY <2>1, <2>4, <3>5
      <4>2. stored'[d] = f + h + r + (e + 1)
        BY <3>3
      <4>3. QED
        BY <3>1, <4>1, <4>2 DEF f, h, r, e
    <3>6. QED
      BY <3>4, <3>5
  <2>6. /\ writer[d].frame < x
        /\ \A i \in 1..Len(file[d]) : file[d][i] < x
    BY <1>3, <1>0 DEF CameraTypes, CameraInv, Order
  <2>7. \A j \in 1..Len(put) :
          /\ writer[d].frame < put[j] /\ put[j] <= x
          /\ \A i \in 1..Len(file[d]) : file[d][i] < put[j]
    <3> SUFFICES ASSUME NEW j \in 1..Len(put)
                 PROVE  /\ writer[d].frame < put[j] /\ put[j] <= x
                        /\ \A i \in 1..Len(file[d]) : file[d][i] < put[j]
      OBVIOUS
    <3>1. CASE put[j] = x
      BY <1>3, <2>6, <3>1
    <3>2. ASSUME NEW k \in 1..Len(ring[d]), put[j] = ring[d][k]
          PROVE  /\ writer[d].frame < put[j] /\ put[j] <= x
                 /\ \A i \in 1..Len(file[d]) : file[d][i] < put[j]
      BY <1>0, <1>3, <2>2, <3>2 DEF CameraTypes, CameraInv, Order
    <3>3. QED
      BY <2>4, <3>1, <3>2
  <2>8. Ascending(file[d]) /\ writer[d].frame \in Nat
        /\ \A i \in 1..Len(file[d]) :
             file[d][i] \in Nat /\ (writer[d].frame # 0 => file[d][i] < writer[d].frame)
    BY <1>0, Holders DEF CameraTypes, CameraInv, Order
  <2>9. Order(d)'
    BY <1>2, <1>3, <2>1, <2>4, <2>6, <2>7, <2>8 DEF Order
  <2>10. QED
    BY <1>3, <2>1, <2>4, <2>5, <2>9 DEF CameraInv
<1>6. QED
  BY <1>4, <1>5

LEMMA TakeKeepsCamera ==
  ASSUME RawInv, NEW d \in Cameras, Take(d)
  PROVE  CameraInv(d)'
<1>0. CameraInv(d) /\ CameraTypes(d)
  BY CameraFacts
<1> DEFINE x == Head(ring[d])
           rest == Tail(ring[d])
<1>1. /\ UNCHANGED <<mutex, producer, offered, file, full, stored, evicted>>
      /\ writer[d].frame = 0 /\ writer'[d].frame = x /\ ring'[d] = rest
  BY DEF Take, lock, disk, RawInv, Shape, WriterShape, Writers, RingShape
<1>2. /\ rest \in Seq(Frames) /\ Len(rest) = Len(ring[d]) - 1 /\ Len(ring[d]) > 0
      /\ x \in Frames /\ x = ring[d][1]
      /\ \A j \in 1..Len(rest) : rest[j] = ring[d][j + 1] /\ j + 1 \in 1..Len(ring[d])
      /\ Ascending(ring[d]) => Ascending(rest) /\ \A j \in 1..Len(rest) : x < rest[j]
  BY <1>0, TailAscending DEF Take, CameraTypes
<1>3. x # 0 /\ x \in Nat
  BY <1>2, Holders DEF Frames
<1>4. 1 \in 1..Len(ring[d])
  BY <1>0, <1>2 DEF CameraTypes
<1> HIDE DEF x, rest
<1>5. Inside(d)'
  BY <1>0, <1>1 DEF CameraInv, Inside
<1>6. Order(d)'
  <2>1. Entered(d)' = Entered(d)
    BY <1>1 DEF Entered
  <2>2. Ascending(rest) /\ \A j \in 1..Len(rest) : x < rest[j]
    BY <1>0, <1>2 DEF CameraInv, Order
  <2>3. /\ x <= Entered(d)
        /\ \A i \in 1..Len(file[d]) : file[d][i] < x
    BY <1>0, <1>2, <1>4 DEF CameraInv, Order
  <2>4. \A j \in 1..Len(rest) : /\ rest[j] <= Entered(d)
                                /\ \A i \in 1..Len(file[d]) : file[d][i] < rest[j]
    BY <1>0, <1>2 DEF CameraInv, Order
  <2>5. /\ Ascending(file[d])
        /\ \A i \in 1..Len(file[d]) : file[d][i] <= Entered(d)
    BY <1>0 DEF CameraInv, Order
  <2>6. QED
    BY <1>1, <2>1, <2>2, <2>3, <2>4, <2>5 DEF Order
<1>7. Accounts(d)'
  <2>1. InHand(d) = 0 /\ InHand(d)' = 1
    BY <1>1, <1>3 DEF InHand
  <2>2. ~full[d] => stored[d] = Len(file[d]) + 0 + Len(ring[d]) + evicted[d]
    BY <1>0, <2>1 DEF CameraInv, Accounts
  <2>3. ~full[d] => stored[d] = Len(file[d]) + 1 + Len(rest) + evicted[d]
    <3> DEFINE f == Len(file[d])  r == Len(ring[d])  e == evicted[d]
    <3>1. f \in Nat /\ r \in Nat /\ e \in Nat /\ Len(rest) = r - 1
      BY <1>0, <1>2 DEF CameraTypes
    <3> HIDE DEF f, r, e
    <3>2. f + 0 + r + e = f + 1 + (r - 1) + e
      BY <3>1
    <3>3. QED
      BY <2>2, <3>1, <3>2 DEF f, r, e
  <2>4. QED
    BY <1>1, <2>1, <2>3 DEF Accounts
<1>8. Len(ring'[d]) <= Capacity
  BY <1>0, <1>1, <1>2, Holders DEF CameraInv, CameraTypes
<1>9. QED
  BY <1>5, <1>6, <1>7, <1>8 DEF CameraInv

LEMMA WriteKeepsCamera ==
  ASSUME RawInv, NEW d \in Cameras, WriteFrame(d)
  PROVE  CameraInv(d)'
<1>0. CameraInv(d) /\ CameraTypes(d)
  BY CameraFacts
<1> DEFINE x == writer[d].frame
           longer == Append(file[d], x)
<1>1. /\ UNCHANGED <<mutex, producer, offered, ring, stored, evicted>>
      /\ x # 0 /\ writer'[d].frame = 0
  BY DEF WriteFrame, lock, RawInv, Shape, WriterShape, Writers
<1>2. x \in Frames
  BY <1>1 DEF RawInv, Shape, WriterShape, Writers, Frames
<1>3. Inside(d)' /\ Len(ring'[d]) <= Capacity
  BY <1>0, <1>1 DEF CameraInv, Inside
<1>4. Entered(d)' = Entered(d)
  BY <1>1 DEF Entered
<1>5. InHand(d) = 1 /\ InHand(d)' = 0
  BY <1>1 DEF InHand
<1>6. /\ x \in Nat /\ x <= Entered(d) /\ Ascending(file[d]) /\ Ascending(ring[d])
      /\ \A i \in 1..Len(file[d]) : file[d][i] < x /\ file[d][i] <= Entered(d)
      /\ \A j \in 1..Len(ring[d]) : x < ring[d][j] /\ ring[d][j] <= Entered(d)
  BY <1>0, <1>1 DEF CameraInv, CameraTypes, Order
<1>7. \A i \in 1..Len(file[d]), j \in 1..Len(ring[d]) : file[d][i] < ring[d][j]
  BY <1>0 DEF CameraInv, Order
<1>8. ASSUME NEW j \in 1..Len(ring[d])
      PROVE  0 < ring[d][j]
  <2>1. ring[d][j] \in Nat
    BY <1>0 DEF CameraTypes
  <2>2. x < ring[d][j]
    BY <1>6
  <2> HIDE DEF x
  <2>3. QED
    BY <1>6, <2>1, <2>2
<1>9. 0 <= Entered(d)
  BY <1>0, <1>6 DEF CameraTypes, Entered
<1>10. CASE ~full[d] /\ file' = [file EXCEPT ![d] = longer] /\ UNCHANGED full
  <2>1. file'[d] = longer
    BY <1>10 DEF RawInv, Shape, FileShape
  <2>2. /\ Len(longer) = Len(file[d]) + 1 /\ Len(file[d]) \in Nat
        /\ longer[Len(file[d]) + 1] = x
        /\ \A i \in 1..Len(file[d]) : longer[i] = file[d][i]
    BY <1>0, <1>2, AppendProperties DEF CameraTypes
  <2>3. Ascending(longer)
    BY <1>0, <1>2, <1>6, AppendAscending DEF CameraTypes
  <2> HIDE DEF longer
  <2>4. ASSUME NEW i \in 1..Len(longer)
        PROVE  longer[i] <= Entered(d) /\ \A j \in 1..Len(ring[d]) : longer[i] < ring[d][j]
    <3>1. CASE i = Len(file[d]) + 1
      BY <1>6, <2>2, <3>1
    <3>2. CASE i \in 1..Len(file[d])
      BY <1>6, <1>7, <2>2, <3>2
    <3>3. QED
      BY <2>2, <3>1, <3>2
  <2>5. Order(d)'
    BY <1>1, <1>4, <1>6, <1>8, <1>9, <2>1, <2>3, <2>4 DEF Order
  <2>6. stored[d] = Len(file[d]) + 1 + Len(ring[d]) + evicted[d]
    BY <1>0, <1>5, <1>10 DEF CameraInv, Accounts
  <2>7. stored[d] = Len(longer) + 0 + Len(ring[d]) + evicted[d]
    BY <1>0, <2>2, <2>6 DEF CameraTypes
  <2>8. Accounts(d)'
    BY <1>1, <1>5, <2>1, <2>7 DEF Accounts
  <2>9. QED
    BY <1>3, <2>5, <2>8 DEF CameraInv
<1>11. CASE full' = [full EXCEPT ![d] = TRUE] /\ UNCHANGED file
  <2>1. full'[d]
    BY <1>11 DEF RawInv, Shape, FlagShape
  <2>2. Order(d)'
    BY <1>1, <1>4, <1>6, <1>7, <1>8, <1>9, <1>11 DEF Order
  <2>3. QED
    BY <1>3, <2>1, <2>2 DEF CameraInv, Accounts
<1>12. QED
  BY <1>10, <1>11 DEF WriteFrame

LEMMA CameraStep ==
  ASSUME RawInv, Next, NEW d \in Cameras
  PROVE  CameraInv(d)'
<1>0. CameraInv(d) /\ CameraTypes(d)
  BY CameraFacts
<1> USE <1>0, Holders DEF disk, threads, lock
<1>1. CASE BeginStart \/ OpenFile \/ OpenFails
  BY <1>1, UntouchedCamera DEF BeginStart, OpenFile, OpenFails, RawInv, Phases
<1>2. CASE Commit
  BY <1>2, CommitKeepsCamera
<1>3. CASE BeginStop \/ StopWriter \/ StopReturns
  BY <1>3, UntouchedCamera DEF BeginStop, StopWriter, StopReturns
<1>4. CASE JoinWriter
  <2> DEFINE k == control.camera
  <2>1. k \in Cameras /\ ring[k] = <<>>
    BY <1>4 DEF JoinWriter, RawInv, Shape, LockShape, Phases, Gone, Cameras
  <2>2. file[k] \o <<>> = file[k]
    BY <2>1, ConcatEmptySeq DEF RawInv, Shape, FileShape
  <2>3. file'[d] = file[d] /\ ring'[d] = ring[d]
    BY <1>4, <2>1, <2>2 DEF JoinWriter, RawInv, Shape, FileShape, RingShape
  <2>4. QED
    BY <1>4, <2>3, UntouchedCamera DEF JoinWriter
<1>5. ASSUME NEW c \in Cameras, Bring(c) PROVE CameraInv(d)'
  <2>1. CASE c = d
    BY <1>5, <2>1, BringKeepsCamera
  <2>2. CASE c # d
    BY <1>5, <2>2, UntouchedCamera DEF Bring, RawInv, Shape, ProducerShape
  <2>3. QED
    BY <2>1, <2>2
<1>6. ASSUME NEW c \in Cameras, Push(c) PROVE CameraInv(d)'
  <2>1. CASE c = d
    BY <1>6, <2>1, PushKeepsCamera
  <2>2. CASE c # d
    BY <1>6, <2>2, UntouchedCamera
    DEF Push, Put, RawInv, Shape, ProducerShape, RingShape, CountShape
  <2>3. QED
    BY <2>1, <2>2
<1>7. ASSUME NEW c \in Cameras, Take(c) PROVE CameraInv(d)'
  <2>1. CASE c = d
    BY <1>7, <2>1, TakeKeepsCamera
  <2>2. CASE c # d
    BY <1>7, <2>2, UntouchedCamera DEF Take, RawInv, Shape, WriterShape, RingShape
  <2>3. QED
    BY <2>1, <2>2
<1>8. ASSUME NEW c \in Cameras, WriteFrame(c) PROVE CameraInv(d)'
  <2>1. CASE c = d
    BY <1>8, <2>1, WriteKeepsCamera
  <2>2. CASE c # d
    BY <1>8, <2>2, UntouchedCamera
    DEF WriteFrame, RawInv, Shape, WriterShape, FileShape, FlagShape
  <2>3. QED
    BY <2>1, <2>2
<1>9. ASSUME NEW c \in Cameras, SeesStopping(c) \/ WriterExits(c) PROVE CameraInv(d)'
  <2>1. writer'[d].frame = writer[d].frame
    BY <1>9 DEF SeesStopping, WriterExits, RawInv, Shape, WriterShape, Writers
  <2>2. QED
    BY <1>9, <2>1, UntouchedCamera DEF SeesStopping, WriterExits
<1>10. QED
  BY ONLY Next, <1>1, <1>2, <1>3, <1>4, <1>5, <1>6, <1>7, <1>8, <1>9
  DEF Next, ControlStep, WriterStep

-----------------------------------------------------------------------------
LEMMA RawStepInv == RawInv /\ [Next]_vars => RawInv'
<1> SUFFICES ASSUME RawInv, [Next]_vars PROVE RawInv'
  OBVIOUS
<1>1. CASE Next
  BY <1>1, ShapeStep, PhasesStep, CameraStep DEF RawInv
<1>2. CASE UNCHANGED vars
  <2>1. Shape' /\ Phases'
    BY <1>2 DEF vars, lock, threads, disk, RawInv, Shape, LockShape, ProducerShape, WriterShape,
                RingShape, CountShape, FileShape, FlagShape, Phases, Gone, Told, Alive,
                Quiet, Detached, Doing
  <2>2. \A d \in Cameras : CameraInv(d)'
    BY <1>2, CameraFacts, UntouchedCamera DEF vars, threads, lock, disk
  <2>3. QED
    BY <2>1, <2>2 DEF RawInv
<1>3. QED
  BY <1>1, <1>2

THEOREM RawInvariant == Spec => []RawInv
  BY RawInitInv, RawStepInv, PTL DEF Spec

\* The variables the invariant does not need.
Bounds == /\ capturing \in BOOLEAN /\ starts \in 0..MaxStarts
          /\ leftover \in SUBSET Cameras

LEMMA BoundsStep == RawInv /\ Bounds /\ [Next]_vars => Bounds'
<1> SUFFICES ASSUME RawInv, Bounds, [Next]_vars PROVE Bounds'
  OBVIOUS
<1> USE DEF Next, vars, ControlStep, WriterStep, BeginStart, OpenFile, OpenFails, Commit,
            BeginStop, StopWriter, JoinWriter, StopReturns, Bring, Push, Take, WriteFrame,
            SeesStopping, WriterExits, disk, threads, lock
<1>1. capturing' \in {capturing, TRUE, FALSE}
  OBVIOUS
<1>2. capturing' \in BOOLEAN
  BY <1>1 DEF Bounds
<1>3. starts' \in 0..MaxStarts
  <2>1. starts' = starts \/ (starts < MaxStarts /\ starts' = starts + 1)
    OBVIOUS
  <2>2. QED
    BY ONLY <2>1, RawAssumption, Bounds DEF Bounds
<1>4. leftover' \in SUBSET Cameras
  <2>1. \/ leftover' = leftover \/ leftover' = {}
        \/ leftover' = leftover \cup {control.camera} /\ control.camera < N
    OBVIOUS
  <2>2. control.camera < N => control.camera \in Cameras
    BY ONLY RawInv, RawAssumption DEF RawInv, Shape, LockShape, Cameras
  <2>3. QED
    BY ONLY <2>1, <2>2, Bounds DEF Bounds
<1>5. QED
  BY <1>2, <1>3, <1>4 DEF Bounds

\* The type invariant, for any number of cameras and any capacity.
THEOREM RawTypeCorrect == Spec => []RawTypeOK
<1>1. ASSUME Init PROVE Bounds
  <2>1. capturing \in BOOLEAN
    BY <1>1, Zenon DEF Init
  <2>2. starts \in 0..MaxStarts /\ leftover \in SUBSET Cameras
    BY <1>1, RawAssumption DEF Init
  <2>3. QED
    BY <2>1, <2>2 DEF Bounds
<1>2. RawInv /\ Bounds => RawTypeOK
  BY CameraFacts
  DEF RawInv, Bounds, RawTypeOK, Shape, LockShape, ProducerShape, WriterShape, RingShape,
      FileShape, FlagShape, CameraInv, Inside, Writers, Frames
<1>3. QED
  BY <1>1, <1>2, BoundsStep, RawInitInv, RawStepInv, PTL DEF Spec

\* Every frame that entered a ring is in the file, in the writer's hand, in the
\* ring or counted as evicted, and the file keeps the camera's order: over Start,
\* Stop and the writers' own drain (WriterLoop, Stop).
THEOREM CaptureAccountsForFrames == Spec => []EveryFrameAccounted
<1>1. RawInv => EveryFrameAccounted
  BY DEF RawInv, CameraInv, Order, Ascending, Accounts, EveryFrameAccounted
<1>2. QED
  BY <1>1, RawInvariant, PTL

\* A writer always has its file, and a Stop that has returned has left no thread,
\* no open file and no frame behind (FilesystemRawCaptureSink::Stop).
THEOREM CaptureStopFlushes == Spec => []StopFlushes
<1>1. ASSUME RawInv PROVE StopFlushes
  <2>1. \A c \in Cameras : Alive(c) => opened[c]
    BY <1>1 DEF RawInv, Phases, Detached, Quiet, Doing, Shape, LockShape
  <2>2. ASSUME Doing("idle"), ~capturing, NEW c \in Cameras
        PROVE  /\ ~Alive(c) /\ ~opened[c] /\ ring[c] = <<>>
               /\ ~full[c] => stored[c] = Len(file[c]) + evicted[c]
    <3>1. ~Alive(c) /\ ~opened[c] /\ ring[c] = <<>> /\ writer[c].frame = 0
      BY <1>1, <2>2 DEF RawInv, Phases, Quiet, Gone, Doing
    <3>2. ~full[c] => stored[c] = Len(file[c]) + 0 + 0 + evicted[c]
      BY <1>1, <3>1 DEF RawInv, CameraInv, Accounts, InHand
    <3>3. Len(file[c]) \in Nat /\ evicted[c] \in Nat
      BY <1>1, CameraFacts DEF CameraTypes
    <3>4. QED
      BY <3>1, <3>2, <3>3
  <2>3. QED
    BY <2>1, <2>2 DEF StopFlushes
<1>2. QED
  BY <1>1, RawInvariant, PTL

-----------------------------------------------------------------------------
(***************************************************************************)
(* RawNaming: a file name gives back the group and the camera it was made  *)
(* from. The group id is any sequence of tokens, the delimiters' included, *)
(* so it all rests on where the last camera marker of a name is.           *)
(***************************************************************************)

\* Ten different tokens, none of them a delimiter's.
LEMMA DecimalDigits ==
  /\ \A d \in 0..9 : Decimal[d + 1] \in Range(Decimal) \ {Underscore, "cam"}
  /\ \A d, e \in 0..9 : Decimal[d + 1] = Decimal[e + 1] => d = e
<1>1. \A d \in 0..9 : d \in {0, 1, 2, 3, 4, 5, 6, 7, 8, 9}
  OBVIOUS
<1>2. /\ Decimal[1] = "0" /\ Decimal[2] = "1" /\ Decimal[3] = "2" /\ Decimal[4] = "3"
      /\ Decimal[5] = "4" /\ Decimal[6] = "5" /\ Decimal[7] = "6" /\ Decimal[8] = "7"
      /\ Decimal[9] = "8" /\ Decimal[10] = "9"
      /\ \A i \in 1..10 : i \in DOMAIN Decimal
  BY DEF Decimal
<1>3. \A d \in 0..9 : Decimal[d + 1] \in Range(Decimal)
  BY <1>2 DEF Range
<1>4. ASSUME NEW d \in 0..9
      PROVE  Decimal[d + 1] # Underscore /\ Decimal[d + 1] # "cam"
  <2>1. PICK i \in 1..10 : i = d + 1
    OBVIOUS
  <2>2. \/ i = 1 \/ i = 2 \/ i = 3 \/ i = 4 \/ i = 5
        \/ i = 6 \/ i = 7 \/ i = 8 \/ i = 9 \/ i = 10
    OBVIOUS
  <2>3. Decimal[i] # Underscore /\ Decimal[i] # "cam"
    BY <1>2, <2>2, Zenon DEF Underscore
  <2>4. QED
    BY <2>1, <2>3
<1>5. \A d, e \in 0..9 : Decimal[d + 1] = Decimal[e + 1] => d = e
  BY <1>1, <1>2
<1>6. QED
  BY <1>3, <1>4, <1>5

\* The digits of a camera of two.
LEMMA TwoDigits ==
  ASSUME NEW c \in 0..99, c >= 10
  PROVE  c \div 10 \in 0..9 /\ c % 10 \in 0..9 /\ c = 10 * (c \div 10) + (c % 10)
  OBVIOUS

DigitTokens == Range(Decimal) \ {Underscore, "cam"}

\* std::to_string writes one digit or two.
LEMMA DigitsAreDecimal ==
  ASSUME NEW c \in 0..99
  PROVE  /\ Digits(c) \in Seq(DigitTokens) /\ Len(Digits(c)) \in {1, 2}
         /\ \A k \in 1..Len(Digits(c)) :
              \E d \in 0..9 : Digits(c)[k] = Decimal[d + 1]
<1>1. \A d \in 0..9 : Decimal[d + 1] \in DigitTokens
  BY DecimalDigits DEF DigitTokens
<1>2. CASE c < 10
  <2>1. Digits(c) = <<Decimal[c + 1]>> /\ c \in 0..9
    BY <1>2 DEF Digits
  <2>2. PICK t \in DigitTokens : t = Decimal[c + 1]
    BY <1>1, <2>1
  <2>3. Digits(c) = <<t>>
    BY <2>1, <2>2
  <2>4. Digits(c) \in Seq(DigitTokens) /\ Len(Digits(c)) = 1 /\ Digits(c)[1] = t
    BY <2>3
  <2>5. QED
    BY <2>1, <2>2, <2>4
<1>3. CASE c >= 10
  <2>1. Digits(c) = <<Decimal[c \div 10 + 1], Decimal[(c % 10) + 1]>>
    BY <1>3 DEF Digits
  <2>2. c \div 10 \in 0..9 /\ c % 10 \in 0..9
    BY <1>3, TwoDigits
  <2>3. PICK t \in DigitTokens, u \in DigitTokens : t = Decimal[c \div 10 + 1] /\ u = Decimal[(c % 10) + 1]
    BY <1>1, <2>2
  <2>4. Digits(c) = <<t, u>>
    BY <2>1, <2>3
  <2>5. /\ Digits(c) \in Seq(DigitTokens) /\ Len(Digits(c)) = 2
        /\ Digits(c)[1] = t /\ Digits(c)[2] = u
    BY <2>4
  <2>6. \A k \in 1..Len(Digits(c)) : k = 1 \/ k = 2
    BY <2>5
  <2>7. QED
    BY <2>2, <2>3, <2>5, <2>6
<1>4. QED
  BY <1>2, <1>3

\* What a digit stands for.
Value(t) == CHOOSE d \in 0..9 : Decimal[d + 1] = t

\* Each digit stands for one number.
LEMMA DigitIsItsValue == \A d \in 0..9 : Value(Decimal[d + 1]) = d
  BY DecimalDigits DEF Value

\* The recursive function of Number, for names of one digit and of two.
LEMMA NumberIsRead ==
  ASSUME NEW ds, Len(ds) \in {1, 2}, \A k \in 1..Len(ds) : Value(ds[k]) \in Int
  PROVE  Number(ds) = IF Len(ds) = 1 THEN Value(ds[1]) ELSE 10 * Value(ds[1]) + Value(ds[2])
<1> DEFINE next(f) == [n \in 0..Len(ds) |->
                         IF n = 0 THEN 0 ELSE 10 * f[n - 1] + Value(ds[n])]
           value == CHOOSE f : f = next(f)
           witness == [n \in 0..Len(ds) |->
                         IF n = 0 THEN 0
                         ELSE IF n = 1 THEN 10 * 0 + Value(ds[1])
                         ELSE 10 * (10 * 0 + Value(ds[1])) + Value(ds[2])]
<1>1. Number(ds) = value[Len(ds)]
  BY DEF Number, Value
<1>3. witness = next(witness)
  <2>1. ASSUME NEW n \in 0..Len(ds)
        PROVE  witness[n] = next(witness)[n]
    OBVIOUS
  <2>2. QED
    BY <2>1
<1>4. value = next(value)
  BY <1>3
<1>5. \A n \in 0..Len(ds) : value[n] = IF n = 0 THEN 0 ELSE 10 * value[n - 1] + Value(ds[n])
  <2> HIDE DEF value
  <2>1. QED
    BY <1>4
<1> HIDE DEF value
<1>6. value[0] = 0 /\ value[1] = 10 * value[0] + Value(ds[1])
  BY <1>5
<1>7. Len(ds) = 2 => value[2] = 10 * value[1] + Value(ds[2])
  BY <1>5
<1>8. QED
  BY <1>1, <1>6, <1>7

\* A camera's digits are read back as the camera.
LEMMA NumberOfDigits ==
  ASSUME NEW c \in 0..99
  PROVE  Number(Digits(c)) = c
<1>1. ASSUME NEW k \in 1..Len(Digits(c))
      PROVE  Value(Digits(c)[k]) \in Int
  <2>1. PICK d \in 0..9 : Digits(c)[k] = Decimal[d + 1]
    BY DigitsAreDecimal
  <2>2. Value(Decimal[d + 1]) = d
    BY DigitIsItsValue
  <2>3. QED
    BY <2>1, <2>2
<1>2. Number(Digits(c)) = IF Len(Digits(c)) = 1 THEN Value(Digits(c)[1])
                          ELSE 10 * Value(Digits(c)[1]) + Value(Digits(c)[2])
  <2> DEFINE ds == Digits(c)
  <2>1. Len(ds) \in {1, 2} /\ \A k \in 1..Len(ds) : Value(ds[k]) \in Int
    BY <1>1, DigitsAreDecimal
  <2> HIDE DEF ds
  <2>2. Number(ds) = IF Len(ds) = 1 THEN Value(ds[1]) ELSE 10 * Value(ds[1]) + Value(ds[2])
    BY <2>1, NumberIsRead
  <2>3. QED
    BY <2>2 DEF ds
<1>3. CASE c < 10
  <2>1. c \in 0..9 /\ Len(Digits(c)) = 1 /\ Digits(c)[1] = Decimal[c + 1]
    BY <1>3 DEF Digits
  <2>2. QED
    BY <1>2, <2>1, DigitIsItsValue
<1>4. CASE c >= 10
  <2>1. /\ Len(Digits(c)) = 2 /\ Digits(c)[1] = Decimal[c \div 10 + 1]
        /\ Digits(c)[2] = Decimal[(c % 10) + 1]
    BY <1>4 DEF Digits
  <2>2. QED
    BY <1>2, <1>4, <2>1, TwoDigits, DigitIsItsValue
<1>5. QED
  BY <1>3, <1>4

-----------------------------------------------------------------------------
\* Where the elements of a concatenation come from.
LEMMA TwoParts ==
  ASSUME NEW S, NEW s \in Seq(S), NEW t \in Seq(S), NEW u, u = s \o t,
         NEW m, m = Len(s), NEW n, n = Len(t)
  PROVE  /\ u \in Seq(S) /\ Len(u) = m + n
         /\ \A k \in 1..m : u[k] = s[k]
         /\ \A k \in 1..n : u[m + k] = t[k]
  OBVIOUS

\* A tuple is a sequence over its elements.
LEMMA ThreeAreASeq ==
  ASSUME NEW S, NEW x \in S, NEW y \in S, NEW z \in S
  PROVE  <<x, y, z>> \in Seq(S)
  OBVIOUS

\* Where everything is in the name of a capture, its group n tokens long, its camera d digits.
Layout(name, n, d, g, c) ==
  /\ name = FileName(g, c) /\ n = Len(g) /\ d = Len(Digits(c))
  /\ n \in Nat \ {0} /\ d \in {1, 2} /\ Len(name) = n + d + 7
  /\ \E S : name \in Seq(S) /\ g \in Seq(S) /\ Digits(c) \in Seq(S)
  /\ name[1] = "raw" /\ name[2] = Underscore /\ name[3] = Underscore
  /\ \A k \in 1..n : name[3 + k] = g[k]
  /\ name[n + 4] = Underscore /\ name[n + 5] = Underscore /\ name[n + 6] = "cam"
  /\ \A k \in 1..d : name[n + 6 + k] = Digits(c)[k]
  /\ name[n + d + 7] = Extension

\* rawCaptureFileName lays a name out so.
LEMMA FileNameParts ==
  ASSUME NEW g \in Groups, NEW c \in Indices
  PROVE  \E name, n, d : Layout(name, n, d, g, c)
<1>0. PICK name, n, d : name = FileName(g, c) /\ n = Len(g) /\ d = Len(Digits(c))
  OBVIOUS
<1>1. PICK S : S = Range(g) \cup DigitTokens \cup {"raw", Underscore, "cam", Extension}
  OBVIOUS
<1>2. PICK ds : ds = Digits(c)
  OBVIOUS
<1>3. g \in Seq(Range(g)) /\ g # <<>>
  BY NamingAssumption
<1>4. ds \in Seq(DigitTokens) /\ d \in {1, 2}
  BY <1>0, <1>2, NamingAssumption, DigitsAreDecimal
<1>5. g \in Seq(S) /\ ds \in Seq(S) /\ n \in Nat \ {0}
  <2>1. Range(g) \subseteq S /\ DigitTokens \subseteq S
    BY <1>1
  <2>2. QED
    BY <1>0, <1>3, <1>4, <2>1, SeqMonotonic
<1>6. "raw" \in S /\ Underscore \in S /\ "cam" \in S /\ Extension \in S
  BY <1>1
<1>7. PICK p : p = Prefix
  OBVIOUS
<1>8. PICK m : m = CameraMarker
  OBVIOUS
<1>9. /\ p \in Seq(S) /\ m \in Seq(S)
      /\ p[1] = "raw" /\ p[2] = Underscore /\ p[3] = Underscore
      /\ m[1] = Underscore /\ m[2] = Underscore /\ m[3] = "cam"
  <2>1. Prefix \in Seq(S) /\ CameraMarker \in Seq(S)
    BY <1>6, ThreeAreASeq DEF Prefix, CameraMarker
  <2>2. /\ Prefix[1] = "raw" /\ Prefix[2] = Underscore /\ Prefix[3] = Underscore
        /\ CameraMarker[1] = Underscore /\ CameraMarker[2] = Underscore /\ CameraMarker[3] = "cam"
    BY DEF Prefix, CameraMarker
  <2>3. QED
    BY <1>7, <1>8, <2>1, <2>2
<1>10. PICK i : i = Len(p)
  OBVIOUS
<1>11. PICK j : j = Len(m)
  OBVIOUS
<1>12. i = 3 /\ j = 3
  BY <1>7, <1>8, <1>10, <1>11 DEF Prefix, CameraMarker
<1>13. PICK a : a = p \o g
  OBVIOUS
<1>14. PICK b : b = a \o m
  OBVIOUS
<1>15. PICK e : e = b \o ds
  OBVIOUS
<1>16. PICK x \in S : x = Extension
  BY <1>6
<1>17. name = Append(e, x)
  BY <1>0, <1>2, <1>7, <1>8, <1>13, <1>14, <1>15, <1>16 DEF FileName
<1>18. n \in Nat /\ d \in Nat /\ i \in Nat /\ j \in Nat /\ d = Len(ds)
  BY <1>0, <1>2, <1>4, <1>5, <1>12
<1>19. /\ a \in Seq(S) /\ Len(a) = i + n
       /\ \A k \in 1..i : a[k] = p[k]
       /\ \A k \in 1..n : a[i + k] = g[k]
  <2>1. p \in Seq(S) /\ g \in Seq(S)
    BY <1>5, <1>9
  <2>2. QED
    BY <1>0, <1>10, <1>13, <2>1, TwoParts
<1>20. /\ b \in Seq(S) /\ Len(b) = i + n + j
       /\ \A k \in 1..(i + n) : b[k] = a[k]
       /\ \A k \in 1..j : b[i + n + k] = m[k]
  <2>1. PICK l : l = Len(a)
    OBVIOUS
  <2>2. a \in Seq(S) /\ m \in Seq(S)
    BY <1>9, <1>19
  <2>3. /\ b \in Seq(S) /\ Len(b) = l + j
        /\ \A k \in 1..l : b[k] = a[k]
        /\ \A k \in 1..j : b[l + k] = m[k]
    BY <1>11, <1>14, <2>1, <2>2, TwoParts
  <2>4. QED
    BY <1>19, <2>1, <2>3
<1>21. /\ e \in Seq(S) /\ Len(e) = i + n + j + d
       /\ \A k \in 1..(i + n + j) : e[k] = b[k]
       /\ \A k \in 1..d : e[i + n + j + k] = ds[k]
  <2>1. PICK l : l = Len(b)
    OBVIOUS
  <2>2. b \in Seq(S) /\ ds \in Seq(S)
    BY <1>5, <1>20
  <2>3. /\ e \in Seq(S) /\ Len(e) = l + d
        /\ \A k \in 1..l : e[k] = b[k]
        /\ \A k \in 1..d : e[l + k] = ds[k]
    <3>1. d = Len(ds)
      BY <1>18
    <3>2. QED
      BY <1>15, <2>1, <2>2, <3>1, TwoParts
  <2>4. QED
    BY <1>20, <2>1, <2>3
<1>22. /\ name \in Seq(S) /\ Len(name) = i + n + j + d + 1
       /\ \A k \in 1..(i + n + j + d) : name[k] = e[k]
       /\ name[i + n + j + d + 1] = x
  <2>1. PICK q : q = Len(e)
    OBVIOUS
  <2>2. /\ Append(e, x) \in Seq(S) /\ Len(Append(e, x)) = q + 1
        /\ \A k \in 1..q : Append(e, x)[k] = e[k]
        /\ Append(e, x)[q + 1] = x
    BY <1>21, <2>1, AppendProperties
  <2>3. q = i + n + j + d
    BY <1>21, <2>1
  <2>4. QED
    BY <1>17, <2>2, <2>3
<1>23. ASSUME NEW k \in 1..i
       PROVE  name[k] = p[k]
  <2>1. k \in 1..(i + n) /\ k \in 1..(i + n + j) /\ k \in 1..(i + n + j + d)
    BY <1>18
  <2>2. QED
    BY <1>19, <1>20, <1>21, <1>22, <2>1
<1>24. ASSUME NEW k \in 1..n
       PROVE  name[i + k] = g[k]
  <2>1. /\ i + k \in 1..(i + n) /\ i + k \in 1..(i + n + j)
        /\ i + k \in 1..(i + n + j + d)
    BY <1>18
  <2>2. QED
    BY <1>19, <1>20, <1>21, <1>22, <2>1
<1>25. ASSUME NEW k \in 1..j
       PROVE  name[i + n + k] = m[k]
  <2>1. i + n + k \in 1..(i + n + j) /\ i + n + k \in 1..(i + n + j + d)
    BY <1>18
  <2>2. QED
    BY <1>20, <1>21, <1>22, <2>1
<1>26. ASSUME NEW k \in 1..d
       PROVE  name[i + n + j + k] = ds[k]
  <2>1. i + n + j + k \in 1..(i + n + j + d)
    BY <1>18
  <2>2. QED
    BY <1>21, <1>22, <2>1
<1>27. /\ Len(name) = n + d + 7 /\ name[n + d + 7] = Extension
       /\ \A k \in 1..n : name[3 + k] = g[k]
       /\ \A k \in 1..d : name[n + 6 + k] = ds[k]
  <2>1. 3 + n + 3 + d + 1 = n + d + 7 /\ \A k \in 1..d : 3 + n + 3 + k = n + 6 + k
    BY <1>18
  <2>2. QED
    BY <1>12, <1>16, <1>22, <1>24, <1>26, <2>1
<1>28. name[1] = "raw" /\ name[2] = Underscore /\ name[3] = Underscore
  <2>1. 1 \in 1..i /\ 2 \in 1..i /\ 3 \in 1..i
    BY <1>12
  <2>2. QED
    BY <1>9, <1>23, <2>1
<1>29. name[n + 4] = Underscore /\ name[n + 5] = Underscore /\ name[n + 6] = "cam"
  <2>1. 1 \in 1..j /\ 2 \in 1..j /\ 3 \in 1..j
    BY <1>12
  <2>2. name[i + n + 1] = Underscore /\ name[i + n + 2] = Underscore /\ name[i + n + 3] = "cam"
    BY <1>9, <1>25, <2>1
  <2>3. i + n + 1 = n + 4 /\ i + n + 2 = n + 5 /\ i + n + 3 = n + 6
    BY <1>12, <1>18
  <2>4. QED
    BY <2>2, <2>3
<1>30. QED
  BY <1>0, <1>2, <1>4, <1>5, <1>22, <1>27, <1>28, <1>29 DEF Layout

\* The camera marker stands in the name of a capture once more than in its group.
LEMMA MarkersOfFileName ==
  ASSUME NEW g \in Groups, NEW c \in Indices
  PROVE  LastMarker(FileName(g, c)) = {Len(g) + 4}
<1> USE DEF Layout
<1>1. PICK name, n, d : Layout(name, n, d, g, c)
  BY FileNameParts
<1>2. PICK S : name \in Seq(S)
  BY <1>1
<1>3. PICK l : l = Len(name)
  OBVIOUS
<1>4. l = n + d + 7 /\ n \in Nat \ {0} /\ d \in Nat \ {0}
  <2>1. l = n + d + 7 /\ n \in Nat \ {0} /\ d \in {1, 2}
    BY <1>1, <1>3, Zenon
  <2>2. QED
    BY <2>1
<1>5. ASSUME NEW i \in 1..(n + d + 5)
      PROVE  i \in Markers(name) <=> name[i] = Underscore /\ name[i + 1] = Underscore /\ name[i + 2] = "cam"
  <2>1. i \in 1..(l - 2) /\ i + 2 \in Nat
    BY <1>4
  <2>2. PICK s : s = SubSeq(name, i, i + 2)
    OBVIOUS
  <2>3. \A k \in i..(i + 2) : name[k] \in S
    <3>1. \A k \in i..(i + 2) : k \in 1..l
      BY <1>4, <2>1
    <3>2. QED
      BY <1>2, <1>3, <3>1, ElementOfSeq
  <2>4. /\ s \in Seq(S) /\ Len(s) = IF i <= i + 2 THEN (i + 2) - i + 1 ELSE 0
        /\ \A k \in 1..((i + 2) - i + 1) : s[k] = name[i + k - 1]
    BY <2>1, <2>2, <2>3, SubSeqProperties
  <2>5. (i + 2) - i + 1 = 3 /\ i + 1 - 1 = i /\ i + 2 - 1 = i + 1 /\ i + 3 - 1 = i + 2 /\ i <= i + 2
    BY <2>1
  <2>6. s[1] = name[i] /\ s[2] = name[i + 1] /\ s[3] = name[i + 2]
    BY <2>4, <2>5
  <2>7. Len(s) = 3
    BY <2>4, <2>5
  <2>8. s = CameraMarker <=> s[1] = Underscore /\ s[2] = Underscore /\ s[3] = "cam"
    <3>1. s = <<s[1], s[2], s[3]>>
      BY <2>4, <2>7
    <3>2. QED
      BY <3>1 DEF CameraMarker
  <2>9. QED
    BY <1>3, <2>1, <2>2, <2>6, <2>8 DEF Markers
<1>6. Markers(name) \subseteq 1..(n + d + 5)
  BY <1>3, <1>4 DEF Markers
<1>7. n + 4 \in Markers(name)
  <2>1. n + 4 \in 1..(n + d + 5) /\ n + 4 + 1 = n + 5 /\ n + 4 + 2 = n + 6
    BY <1>4
  <2>2. QED
    BY <1>1, <1>5, <2>1
<1>8. ASSUME NEW i \in Markers(name)
      PROVE  i <= n + 4
  <2>1. i \in 1..(n + d + 5)
    BY <1>6
  <2>2. name[i] = Underscore /\ name[i + 1] = Underscore
    BY <1>5, <2>1
  <2>3. i # n + 6
    <3>1. "cam" # Underscore
      BY Zenon DEF Underscore
    <3>2. QED
      BY <1>1, <2>2, <3>1
  <2>4. i # n + 5
    <3>1. n + 5 + 1 = n + 6
      BY <1>4
    <3>2. "cam" # Underscore
      BY Zenon DEF Underscore
    <3>3. QED
      BY <1>1, <2>2, <3>1, <3>2
  <2>5. ~(i >= n + 7)
    <3>1. SUFFICES ASSUME i >= n + 7 PROVE FALSE
      OBVIOUS
    <3>2. i - n - 6 \in 1..d /\ i = n + 6 + (i - n - 6)
      <4>1. i \in Nat /\ i <= n + d + 5
        BY <1>4, <2>1
      <4>2. QED
        BY <1>4, <3>1, <4>1
    <3>3. PICK k \in 1..d : i = n + 6 + k
      BY <3>2
    <3>4. name[i] = Digits(c)[k]
      BY <1>1, <3>3
    <3>5. Digits(c)[k] # Underscore
      <4>1. PICK e \in 0..9 : Digits(c)[k] = Decimal[e + 1]
        BY <1>1, NamingAssumption, DigitsAreDecimal
      <4>2. QED
        BY <4>1, DecimalDigits
    <3>6. QED
      BY <2>2, <3>4, <3>5
  <2>6. QED
    BY <1>4, <2>1, <2>3, <2>4, <2>5
<1>9. Max(Markers(name)) = n + 4
  <2>1. \A x \in Markers(name) : (\A y \in Markers(name) : x >= y) => x = n + 4
    BY <1>4, <1>6, <1>7, <1>8
  <2>2. \A y \in Markers(name) : n + 4 >= y
    BY <1>4, <1>6, <1>8
  <2>3. QED
    BY <1>7, <2>1, <2>2 DEF Max
<1>10. QED
  BY <1>1, <1>7, <1>9 DEF LastMarker

\* What enumerate reads in the name of a capture is what it was named for.
LEMMA NameIsReadBack ==
  ASSUME NEW g \in Groups, NEW c \in Indices
  PROVE  ParseFileName(FileName(g, c)) = {[group |-> g, camera |-> c]}
<1> USE DEF Layout
<1>1. PICK name, n, d : Layout(name, n, d, g, c)
  BY FileNameParts
<1>2. PICK S : name \in Seq(S) /\ g \in Seq(S) /\ Digits(c) \in Seq(S)
  BY <1>1
<1>3. PICK l : l = Len(name)
  OBVIOUS
<1>4. l = n + d + 7 /\ n \in Nat \ {0} /\ d \in Nat \ {0}
  <2>1. l = n + d + 7 /\ n \in Nat \ {0} /\ d \in {1, 2}
    BY <1>1, <1>3, Zenon
  <2>2. QED
    BY <2>1
<1>5. \A k \in 1..l : name[k] \in S
  BY <1>2, <1>3, ElementOfSeq
<1>6. SubSeq(name, 4, n + 3) = g
  <2>1. PICK s : s = SubSeq(name, 4, n + 3)
    OBVIOUS
  <2>2. \A k \in 4..(n + 3) : name[k] \in S
    <3>1. \A k \in 4..(n + 3) : k \in 1..l
      BY <1>4
    <3>2. QED
      BY <1>5, <3>1
  <2>3. /\ s \in Seq(S) /\ Len(s) = IF 4 <= n + 3 THEN (n + 3) - 4 + 1 ELSE 0
        /\ \A k \in 1..((n + 3) - 4 + 1) : s[k] = name[4 + k - 1]
    <3>1. n + 3 \in Int /\ 4 \in Int
      BY <1>4
    <3>2. QED
      BY <2>1, <2>2, <3>1, SubSeqProperties
  <2>4. (n + 3) - 4 + 1 = n /\ 4 <= n + 3 /\ \A k \in 1..n : 4 + k - 1 = 3 + k
    BY <1>4
  <2>5. Len(s) = n /\ \A k \in 1..n : s[k] = g[k]
    BY <1>1, <2>3, <2>4
  <2>6. s = g
    BY <1>1, <1>2, <2>3, <2>5, SeqEqual
  <2>7. QED
    BY <2>1, <2>6
<1>7. SubSeq(name, n + 7, l - 1) = Digits(c)
  <2>1. PICK s : s = SubSeq(name, n + 7, l - 1)
    OBVIOUS
  <2>2. \A k \in (n + 7)..(l - 1) : name[k] \in S
    <3>1. \A k \in (n + 7)..(l - 1) : k \in 1..l
      BY <1>4
    <3>2. QED
      BY <1>5, <3>1
  <2>3. /\ s \in Seq(S)
        /\ Len(s) = IF n + 7 <= l - 1 THEN (l - 1) - (n + 7) + 1 ELSE 0
        /\ \A k \in 1..((l - 1) - (n + 7) + 1) : s[k] = name[n + 7 + k - 1]
    <3>1. n + 7 \in Int /\ l - 1 \in Int
      BY <1>4
    <3>2. QED
      BY <2>1, <2>2, <3>1, SubSeqProperties
  <2>4. /\ (l - 1) - (n + 7) + 1 = d /\ n + 7 <= l - 1
        /\ \A k \in 1..d : n + 7 + k - 1 = n + 6 + k
    BY <1>4
  <2>5. Len(s) = d
    BY <2>3, <2>4
  <2>6. ASSUME NEW k \in 1..d
        PROVE  s[k] = Digits(c)[k]
    <3>1. s[k] = name[n + 7 + k - 1]
      BY <2>3, <2>4
    <3>2. name[n + 6 + k] = Digits(c)[k]
      BY <1>1
    <3>3. QED
      BY <2>4, <3>1, <3>2
  <2>7. s = Digits(c)
    BY <1>1, <1>2, <2>3, <2>5, <2>6, SeqEqual
  <2>8. QED
    BY <2>1, <2>7
<1>8. IsPrefix(Prefix, name)
  <2>1. PICK p : p = SubSeq(name, 1, 3)
    OBVIOUS
  <2>2. \A k \in 1..3 : name[k] \in S
    <3>1. \A k \in 1..3 : k \in 1..l
      BY <1>4
    <3>2. QED
      BY <1>5, <3>1
  <2>3. /\ p \in Seq(S) /\ Len(p) = 3
        /\ \A k \in 1..3 : p[k] = name[k]
    <3>1. /\ p \in Seq(S) /\ Len(p) = IF 1 <= 3 THEN 3 - 1 + 1 ELSE 0
          /\ \A k \in 1..(3 - 1 + 1) : p[k] = name[1 + k - 1]
      BY <2>1, <2>2, SubSeqProperties
    <3>2. \A k \in 1..3 : 1 + k - 1 = k
      OBVIOUS
    <3>3. QED
      BY <3>1, <3>2
  <2>4. p[1] = "raw" /\ p[2] = Underscore /\ p[3] = Underscore
    BY <1>1, <2>3
  <2>5. p = <<"raw", Underscore, Underscore>>
    BY <2>3, <2>4
  <2>6. Len(Prefix) = 3 /\ Len(Prefix) <= Len(name)
    BY <1>3, <1>4 DEF Prefix
  <2>7. QED
    BY <2>1, <2>5, <2>6 DEF Prefix, IsPrefix
<1>9. Last(name) = Extension
  BY <1>1, <1>3, <1>4 DEF Last
<1>10. Len(Prefix) = 3
  BY DEF Prefix
<1>11. LastMarker(name) = {n + 4}
  BY <1>1, MarkersOfFileName
<1>12. \A k \in (n + 4 + 3)..(Len(name) - 1) : name[k] \in Range(Decimal)
  <2>1. ASSUME NEW k \in (n + 4 + 3)..(Len(name) - 1)
        PROVE  name[k] \in Range(Decimal)
    <3>1. k - n - 6 \in 1..d /\ n + 6 + (k - n - 6) = k
      BY <1>3, <1>4
    <3>2. PICK j \in 1..d : n + 6 + j = k
      BY <3>1
    <3>3. name[k] = Digits(c)[j]
      BY <1>1, <3>2
    <3>4. PICK e \in 0..9 : Digits(c)[j] = Decimal[e + 1]
      BY <1>1, NamingAssumption, DigitsAreDecimal
    <3>5. QED
      BY <3>3, <3>4, DecimalDigits
  <2>2. QED
    BY <2>1
<1>13. /\ n + 4 > Len(Prefix) + 1 /\ n + 4 + 3 < Len(name)
       /\ Len(Prefix) + 1 = 4 /\ (n + 4) - 1 = n + 3 /\ n + 4 + 3 = n + 7
  BY <1>3, <1>4, <1>10
<1>14. {i \in LastMarker(name) :
          /\ IsPrefix(Prefix, name) /\ Last(name) = Extension
          /\ i > Len(Prefix) + 1 /\ i + 3 < Len(name)
          /\ \A k \in (i + 3)..(Len(name) - 1) : name[k] \in Range(Decimal)} = {n + 4}
  BY <1>8, <1>9, <1>11, <1>12, <1>13
<1>15. Number(SubSeq(name, n + 4 + 3, Len(name) - 1)) = c
  BY <1>3, <1>7, <1>13, NamingAssumption, NumberOfDigits
<1>16. SubSeq(name, Len(Prefix) + 1, (n + 4) - 1) = g
  BY <1>6, <1>13
<1>17. ParseFileName(name) = {[group |-> g, camera |-> c]}
  <2> DEFINE groupAt(i) == SubSeq(name, Len(Prefix) + 1, i - 1)
             cameraAt(i) == Number(SubSeq(name, i + 3, Len(name) - 1))
  <2>1. ParseFileName(name) = {[group |-> groupAt(i), camera |-> cameraAt(i)] : i \in {n + 4}}
    BY <1>14, Zenon DEF ParseFileName
  <2>2. groupAt(n + 4) = g /\ cameraAt(n + 4) = c
    BY <1>15, <1>16, Zenon
  <2> HIDE DEF groupAt, cameraAt
  <2>3. QED
    BY <2>1, <2>2
<1>18. QED
  BY <1>1, <1>17

-----------------------------------------------------------------------------
\* The name of a match ends as no capture's does, and its stem is the match id, of
\* which there is something unless the name is all extension.
LEMMA MatchName ==
  ASSUME NEW m \in Matches
  PROVE  /\ Last(Append(m, ".mp4")) = ".mp4" /\ Front(Append(m, ".mp4")) = m
         /\ Len(Append(m, ".mp4")) > 1 <=> m # <<>>
<1>1. PICK S : S = Range(m) \cup {".mp4"}
  OBVIOUS
<1>2. m \in Seq(S)
  <2>1. m \in Seq(Range(m)) /\ Range(m) \subseteq S
    BY <1>1, NamingAssumption
  <2>2. QED
    BY <2>1, SeqMonotonic
<1>3. PICK x \in S : x = ".mp4"
  BY <1>1
<1>4. PICK name, n : name = Append(m, x) /\ n = Len(m)
  OBVIOUS
<1>5. /\ name \in Seq(S) /\ Len(name) = n + 1 /\ n \in Nat /\ name[n + 1] = x
      /\ \A k \in 1..n : name[k] = m[k]
  BY <1>2, <1>4, AppendProperties, LenProperties
<1>6. SubSeq(name, 1, n) = m
  BY <1>2, <1>4, <1>5
<1>7. n = 0 <=> m = <<>>
  BY <1>2, <1>4
<1>8. Len(name) > 1 <=> m # <<>>
  BY <1>5, <1>7
<1>9. QED
  BY <1>3, <1>4, <1>5, <1>6, <1>8 DEF Last, Front

\* The name of a capture has its extension.
LEMMA CaptureName ==
  ASSUME NEW g \in Groups, NEW c \in Indices
  PROVE  Last(FileName(g, c)) = Extension
<1> USE DEF Layout
<1>1. PICK name, n, d : Layout(name, n, d, g, c)
  BY FileNameParts
<1>2. QED
  BY <1>1 DEF Last

\* The files are those of the cameras opened and the matches recorded, and no others.
FilesInv ==
  /\ captured \subseteq [group : Groups, camera : Indices] /\ recorded \subseteq Matches
  /\ files = {FileName(p.group, p.camera) : p \in captured}
             \cup {Append(m, ".mp4") : m \in recorded}

\* One start at a time has opened the first cameras of its group.
OpeningInv ==
  /\ opening \subseteq [group : Groups, left : SUBSET Indices]
  /\ \A o, q \in opening : o = q
  /\ \A o \in opening : \A c \in Indices \ o.left :
       [group |-> o.group, camera |-> c] \in captured

\* A group lacks only cameras after those it has, and only if a start of it failed
\* or goes on.
Wholeness ==
  \A p \in captured, c \in Indices :
    \/ [group |-> p.group, camera |-> c] \in captured
    \/ p.camera < c /\ p.group \in failed \cup GroupsOf(opening)

NamingInv == FilesInv /\ OpeningInv /\ Wholeness

\* The invariant holds with no files.
LEMMA NamingInitInv == NamingInit => NamingInv
  BY DEF NamingInit, NamingInv, FilesInv, OpeningInv, Wholeness

\* A camera's file is added to the group's, the first of those left.
LEMMA OpenCameraInv ==
  ASSUME NamingInv, OpenCamera
  PROVE  NamingInv'
<1>0. PICK o \in opening : \E c \in o.left :
        /\ \A d \in o.left : c <= d
        /\ captured' = captured \cup {[group |-> o.group, camera |-> c]}
        /\ files' = files \cup {FileName(o.group, c)}
        /\ opening' = IF o.left = {c} THEN {} ELSE {[o EXCEPT !.left = @ \ {c}]}
        /\ UNCHANGED <<failed, recorded>>
  BY DEF OpenCamera
<1>1. PICK c \in o.left :
        /\ \A d \in o.left : c <= d
        /\ captured' = captured \cup {[group |-> o.group, camera |-> c]}
        /\ files' = files \cup {FileName(o.group, c)}
        /\ opening' = IF o.left = {c} THEN {} ELSE {[o EXCEPT !.left = @ \ {c}]}
        /\ UNCHANGED <<failed, recorded>>
  BY <1>0
<1>2. o = [group |-> o.group, left |-> o.left] /\ o.group \in Groups /\ o.left \subseteq Indices
  BY DEF NamingInv, OpeningInv
<1>3. PICK new : new = [group |-> o.group, camera |-> c]
  OBVIOUS
<1>4. new \in [group : Groups, camera : Indices] /\ new.group = o.group /\ new.camera = c
  BY <1>2, <1>3
<1>5. captured' = captured \cup {new} /\ files' = files \cup {FileName(new.group, new.camera)}
  BY <1>1, <1>3, <1>4
<1>6. FilesInv'
  <2>1. captured' \subseteq [group : Groups, camera : Indices] /\ recorded' \subseteq Matches
    BY <1>1, <1>4, <1>5 DEF NamingInv, FilesInv
  <2>2. {FileName(p.group, p.camera) : p \in captured'}
          = {FileName(p.group, p.camera) : p \in captured} \cup {FileName(new.group, new.camera)}
    BY <1>5
  <2>3. files = {FileName(p.group, p.camera) : p \in captured} \cup {Append(m, ".mp4") : m \in recorded}
    BY DEF NamingInv, FilesInv
  <2>4. QED
    BY <1>1, <1>5, <2>1, <2>2, <2>3 DEF FilesInv
<1>7. \A d \in Indices \ o.left : [group |-> o.group, camera |-> d] \in captured
  BY DEF NamingInv, OpeningInv
<1>8. CASE o.left = {c}
  <2>1. opening' = {}
    BY <1>1, <1>8
  <2>2. \A d \in Indices : [group |-> o.group, camera |-> d] \in captured'
    BY <1>3, <1>5, <1>7, <1>8
  <2>3. GroupsOf(opening) = {o.group}
    BY DEF GroupsOf, NamingInv, OpeningInv
  <2>4. Wholeness'
    <3>1. ASSUME NEW p \in captured', NEW d \in Indices
          PROVE  \/ [group |-> p.group, camera |-> d] \in captured'
                 \/ p.camera < d /\ p.group \in failed' \cup GroupsOf(opening')
      <4>1. CASE p.group = o.group
        BY <2>2, <4>1
      <4>2. CASE p.group # o.group
        <5>1. p \in captured
          BY <1>4, <1>5, <4>2
        <5>2. \/ [group |-> p.group, camera |-> d] \in captured
              \/ p.camera < d /\ p.group \in failed
          BY <2>3, <4>2, <5>1 DEF NamingInv, Wholeness
        <5>3. QED
          BY <1>1, <1>5, <5>2
      <4>3. QED
        BY <4>1, <4>2
    <3>2. QED
      BY <3>1 DEF Wholeness, GroupsOf
  <2>5. QED
    BY <1>6, <2>1, <2>4 DEF NamingInv, OpeningInv
<1>9. CASE o.left # {c}
  <2>1. PICK rest : rest = [group |-> o.group, left |-> o.left \ {c}]
    OBVIOUS
  <2>2. opening' = {rest}
    BY <1>1, <1>2, <1>9, <2>1
  <2>3. rest \in [group : Groups, left : SUBSET Indices]
    BY <1>2, <2>1
  <2>4. \A d \in Indices \ rest.left : [group |-> o.group, camera |-> d] \in captured'
    BY <1>3, <1>5, <1>7, <2>1
  <2>5. OpeningInv'
    BY <2>1, <2>2, <2>3, <2>4 DEF OpeningInv
  <2>6. o.group \in GroupsOf(opening') /\ GroupsOf(opening) = {o.group}
    BY <2>1, <2>2 DEF GroupsOf, NamingInv, OpeningInv
  <2>7. Wholeness'
    <3>1. ASSUME NEW p \in captured', NEW d \in Indices
          PROVE  \/ [group |-> p.group, camera |-> d] \in captured'
                 \/ p.camera < d /\ p.group \in failed' \cup GroupsOf(opening')
      <4>1. CASE p \in captured
        <5>1. \/ [group |-> p.group, camera |-> d] \in captured
              \/ p.camera < d /\ p.group \in failed \cup {o.group}
          BY <2>6, <4>1 DEF NamingInv, Wholeness
        <5>2. QED
          BY <1>1, <1>5, <2>6, <5>1
      <4>2. CASE p = new
        <5>1. d \notin o.left => [group |-> p.group, camera |-> d] \in captured'
          BY <1>4, <1>5, <1>7, <4>2
        <5>2. d = c => [group |-> p.group, camera |-> d] \in captured'
          BY <1>3, <1>4, <1>5, <4>2
        <5>3. d \in o.left /\ d # c => c < d
          <6>1. c \in 0..99 /\ d \in 0..99
            BY <1>2, NamingAssumption
          <6>2. QED
            BY <1>1, <6>1
        <5>4. QED
          BY <1>4, <2>6, <4>2, <5>1, <5>2, <5>3
      <4>3. QED
        BY <1>5, <4>1, <4>2
    <3>2. QED
      BY <3>1 DEF Wholeness, GroupsOf
  <2>8. QED
    BY <1>6, <2>5, <2>7 DEF NamingInv
<1>10. QED
  BY <1>8, <1>9

\* A start or a recording adds its files and no others.
LEMMA NamingNextInv ==
  ASSUME NamingInv, [NamingNext]_namingVars
  PROVE  NamingInv'
<1> USE DEF NamingInv
<1>1. ASSUME NEW g \in Groups, Capture(g)
      PROVE  NamingInv'
  <2>1. FilesInv'
    BY <1>1 DEF FilesInv, Capture
  <2>2. OpeningInv'
    BY <1>1 DEF OpeningInv, Capture
  <2>3. Wholeness'
    BY <1>1 DEF Wholeness, Capture, GroupsOf
  <2>4. QED
    BY <2>1, <2>2, <2>3
<1>2. CASE OpenCamera
  BY <1>2, OpenCameraInv
<1>3. CASE OpenCameraFails
  <2>1. FilesInv'
    BY <1>3 DEF FilesInv, OpenCameraFails
  <2>2. OpeningInv'
    BY <1>3 DEF OpeningInv, OpenCameraFails
  <2>3. Wholeness'
    BY <1>3 DEF Wholeness, OpenCameraFails
  <2>4. QED
    BY <2>1, <2>2, <2>3
<1>4. ASSUME NEW m \in Matches, Record(m)
      PROVE  NamingInv'
  <2>1. FilesInv'
    <3>1. recorded' = recorded \cup {m} /\ files' = files \cup {Append(m, ".mp4")} /\ captured' = captured
      BY <1>4 DEF Record
    <3>2. {Append(k, ".mp4") : k \in recorded'} = {Append(k, ".mp4") : k \in recorded} \cup {Append(m, ".mp4")}
      BY <3>1
    <3>3. QED
      BY <3>1, <3>2 DEF FilesInv
  <2>2. OpeningInv'
    BY <1>4 DEF OpeningInv, Record
  <2>3. Wholeness'
    BY <1>4 DEF Wholeness, Record, GroupsOf
  <2>4. QED
    BY <2>1, <2>2, <2>3
<1>5. CASE UNCHANGED namingVars
  BY <1>5 DEF FilesInv, OpeningInv, Wholeness, GroupsOf, namingVars
<1>6. QED
  BY <1>1, <1>2, <1>3, <1>4, <1>5 DEF NamingNext

\* With such files, the listing tells captures and matches apart.
LEMMA ListingFollows ==
  ASSUME NamingInv
  PROVE  ListingIsFaithful
<1> DEFINE Captures == {f \in files : Last(f) = Extension}
           Recordings == {f \in files : Last(f) = ".mp4" /\ Len(f) > 1}
           Listed == {[id |-> Front(f), raw |-> {}] : f \in Recordings}
           Parsed == {r \in {[id |-> Front(f), raw |-> ParseFileName(f)] : f \in Captures} :
                        r.raw # {}}
<1>1. ".mp4" # Extension
  BY DEF Extension
<1> DEFINE names == {FileName(p.group, p.camera) : p \in captured}
           titles == {Append(m, ".mp4") : m \in recorded}
<1>a. files = names \cup titles
  BY DEF NamingInv, FilesInv
<1>b. \A f \in names : Last(f) = Extension
  BY CaptureName DEF NamingInv, FilesInv
<1>c. \A f \in titles : Last(f) = ".mp4"
  BY MatchName DEF NamingInv, FilesInv
<1>d. \A p \in captured : /\ p = [group |-> p.group, camera |-> p.camera]
                          /\ p.group \in Groups /\ p.camera \in Indices
  BY DEF NamingInv, FilesInv
<1> HIDE DEF names, titles
<1>2. Captures = {FileName(p.group, p.camera) : p \in captured}
  BY <1>1, <1>a, <1>b, <1>c DEF names, titles
<1>3. Recordings = {Append(m, ".mp4") : m \in recorded \ {<<>>}}
  <2>1. Recordings = {f \in titles : Len(f) > 1}
    BY <1>1, <1>a, <1>b, <1>c
  <2>2. \A m \in recorded : Len(Append(m, ".mp4")) > 1 <=> m # <<>>
    BY MatchName DEF NamingInv, FilesInv
  <2>3. QED
    BY <2>1, <2>2 DEF titles
<1>4. Enumerate = Listed \cup Parsed
  BY DEF Enumerate
<1>5. \A r \in Listed : r.raw = {}
  OBVIOUS
<1>6. \A r \in Parsed : r.raw # {}
  OBVIOUS
<1> HIDE DEF Captures, Recordings
<1>7. {r.id : r \in Listed} = recorded \ {<<>>}
  <2>1. \A f \in Recordings : Front(f) \in recorded \ {<<>>}
    BY <1>3, MatchName DEF NamingInv, FilesInv
  <2>2. \A m \in recorded \ {<<>>} : \E f \in Recordings : Front(f) = m
    BY <1>3, MatchName DEF NamingInv, FilesInv
  <2>3. {r.id : r \in Listed} = {Front(f) : f \in Recordings}
    <3>1. ASSUME NEW r \in Listed PROVE \E f \in Recordings : r.id = Front(f)
      OBVIOUS
    <3>2. ASSUME NEW f \in Recordings
          PROVE  [id |-> Front(f), raw |-> {}] \in Listed /\ [id |-> Front(f), raw |-> {}].id = Front(f)
      OBVIOUS
    <3> HIDE DEF Listed
    <3>3. QED
      BY <3>1, <3>2
  <2>4. QED
    BY <2>1, <2>2, <2>3
<1>8. UNION {r.raw : r \in Parsed} = captured
  <2>1. UNION {r.raw : r \in Parsed} = UNION {ParseFileName(f) : f \in Captures}
    <3>1. ASSUME NEW r \in Parsed PROVE \E f \in Captures : r.raw = ParseFileName(f)
      OBVIOUS
    <3>2. ASSUME NEW f \in Captures, ParseFileName(f) # {}
          PROVE  \E r \in Parsed : r.raw = ParseFileName(f)
      <4>1. [id |-> Front(f), raw |-> ParseFileName(f)] \in Parsed
        BY <3>2
      <4>2. QED
        BY <4>1
    <3> HIDE DEF Parsed
    <3>3. QED
      BY <3>1, <3>2
  <2>2. \A p \in captured : ParseFileName(FileName(p.group, p.camera)) = {p}
    BY <1>d, NameIsReadBack
  <2>3. UNION {ParseFileName(f) : f \in Captures} = captured
    <3>1. ASSUME NEW f \in Captures, NEW x \in ParseFileName(f)
          PROVE  x \in captured
      BY <1>2, <2>2
    <3>2. ASSUME NEW p \in captured
          PROVE  \E f \in Captures : p \in ParseFileName(f)
      BY <1>2, <2>2
    <3>3. QED
      BY <3>1, <3>2
  <2>4. QED
    BY <2>1, <2>3
<1>9. {r \in Enumerate : r.raw = {}} = Listed
  <2> HIDE DEF Listed, Parsed
  <2>1. QED
    BY <1>4, <1>5, <1>6
<1>10. UNION {r.raw : r \in Enumerate} = UNION {r.raw : r \in Parsed}
  <2> HIDE DEF Listed, Parsed
  <2>1. QED
    BY <1>4, <1>5
<1>11. ListedCaptures = captured
  BY <1>8, <1>10 DEF ListedCaptures
<1>12. {r.id : r \in {r \in Enumerate : r.raw = {}}} = recorded \ {<<>>}
  BY <1>7, <1>9
<1>13. QED
  BY <1>11, <1>12 DEF ListingIsFaithful, NamingInv, Wholeness

\* DownloadServer::Enumerate lists every camera a file was opened for under the group
\* id the app chose, of a group either all or the first up to where a start failed or
\* stands, and every match with an id as a match, whatever the ids are made of.
THEOREM CapturesAreListed == NamingSpec => []ListingIsFaithful
<1>1. NamingSpec => []NamingInv
  BY NamingInitInv, NamingNextInv, PTL DEF NamingSpec
<1>2. QED
  BY <1>1, ListingFollows, PTL
=============================================================================

----------------------------- MODULE RawCapture -----------------------------
(***************************************************************************)
(* FilesystemRawCaptureSink (filesystem-raw-capture-sink.cpp): the control *)
(* thread starts and stops a capture, one producer thread per camera       *)
(* pushes, one writer thread per camera moves frames from a drop-oldest    *)
(* ring to its file.  RawCaptureHandler is the only caller of Start and    *)
(* Stop, on the event loop thread.                                         *)
(*                                                                         *)
(* A frame is its number in its camera's sequence.  The rings are          *)
(* sequences: DropOldestRing shows that their operations are atomic.       *)
(***************************************************************************)
EXTENDS Naturals, FiniteSets, Sequences

CONSTANTS
  N,          \* camera_count_
  Capacity,   \* kQueueCapacity
  MaxFrames,  \* bound of the model: frames each camera offers
  MaxStarts   \* bound of the model: calls of Start

ASSUME RawAssumption ==
  N \in Nat \ {0} /\ Capacity \in Nat \ {0} /\ MaxFrames \in Nat /\ MaxStarts \in Nat

Cameras == 0..(N - 1)
Nobody  == N          \* holds mtx_, as do the cameras and
Control == N + 1      \* the control thread

VARIABLES
  mutex,      \* the holder of mtx_
  capturing,  \* capturing_
  control,    \* the control thread: what it is doing and the camera it is at
  starts,     \* calls of Start so far
  producer,   \* each producer inside PushCamera: the frame, or 0 outside
  offered,    \* frames each producer has brought so far
  writer,     \* each writer thread: where it is and the frame it holds
  stopping,   \* the flag of each writer
  ring,       \* the ring of each writer
  opened,     \* which files are open
  file,       \* the frames in each camera's file of this capture
  full,       \* the stream of each file has failed
  stored,     \* history: frames that entered each ring in this capture
  evicted,    \* history: frames the ring of each camera dropped
  leftover    \* files the latest Start has created on disk, unless it succeeded

vars == <<mutex, capturing, control, starts, producer, offered, writer, stopping, ring,
          opened, file, full, stored, evicted, leftover>>
disk == <<opened, file, full, leftover>>
threads == <<writer, stopping>>
lock == <<mutex, capturing, control, starts>>

At(place, frame) == [at |-> place, frame |-> frame]
Doing(what) == control.what = what
Alive(c) == writer[c].at \notin {"none", "exited"}
InHand(c) == IF writer[c].frame = 0 THEN 0 ELSE 1

RawTypeOK ==
  /\ mutex \in Cameras \cup {Nobody, Control}
  /\ capturing \in BOOLEAN /\ starts \in 0..MaxStarts
  /\ control \in [what : {"idle", "opening", "draining"}, camera : 0..N]
  /\ producer \in [Cameras -> 0..MaxFrames] /\ offered \in [Cameras -> 0..MaxFrames]
  /\ writer \in [Cameras -> [at : {"none", "loop", "drain", "exited"}, frame : 0..MaxFrames]]
  /\ \A f \in {stopping, opened, full} : f \in [Cameras -> BOOLEAN]
  /\ \A c \in Cameras : /\ ring[c] \in Seq(1..MaxFrames) /\ Len(ring[c]) <= Capacity
                        /\ file[c] \in Seq(1..MaxFrames)
  /\ leftover \in SUBSET Cameras
  /\ \A c \in Cameras : mutex = c <=> producer[c] # 0

Init == /\ mutex = Nobody /\ capturing = FALSE
        /\ control = [what |-> "idle", camera |-> 0] /\ starts = 0
        /\ producer = [c \in Cameras |-> 0] /\ offered = [c \in Cameras |-> 0]
        /\ writer = [c \in Cameras |-> At("none", 0)]
        /\ stopping = [c \in Cameras |-> FALSE] /\ ring = [c \in Cameras |-> <<>>]
        /\ opened = [c \in Cameras |-> FALSE] /\ file = [c \in Cameras |-> <<>>]
        /\ full = [c \in Cameras |-> FALSE]
        /\ stored = [c \in Cameras |-> 0] /\ evicted = [c \in Cameras |-> 0]
        /\ leftover = {}

-----------------------------------------------------------------------------
\* Start.

\* lock_guard waits for a producer inside.  Start is refused while capturing.
BeginStart ==
  /\ Doing("idle") /\ mutex = Nobody /\ ~capturing /\ starts < MaxStarts
  /\ mutex' = Control
  /\ control' = [what |-> "opening", camera |-> 0]
  /\ starts' = starts + 1
  /\ leftover' = {}
  /\ UNCHANGED <<capturing, producer, offered, threads, ring, opened, file, full, stored,
                 evicted>>

\* Every capture has files of its own: the group id names them.
OpenFile ==
  /\ Doing("opening") /\ control.camera < N
  /\ leftover' = leftover \cup {control.camera}
  /\ control' = [control EXCEPT !.camera = @ + 1]
  /\ UNCHANGED <<mutex, capturing, starts, producer, offered, threads, ring, opened, file,
                 full, stored, evicted>>

\* The writers made so far go; what they created on disk stays.
OpenFails ==
  /\ Doing("opening") /\ control.camera < N
  /\ mutex' = Nobody
  /\ control' = [what |-> "idle", camera |-> 0]
  /\ UNCHANGED <<capturing, starts, producer, offered, threads, ring, disk, stored, evicted>>

\* All files are open: the writers start and the capture is on.
Commit ==
  /\ Doing("opening") /\ control.camera = N
  /\ writer' = [c \in Cameras |-> At("loop", 0)]
  /\ stopping' = [c \in Cameras |-> FALSE]
  /\ ring' = [c \in Cameras |-> <<>>]
  /\ opened' = [c \in Cameras |-> TRUE] /\ file' = [c \in Cameras |-> <<>>]
  /\ full' = [c \in Cameras |-> FALSE] /\ leftover' = {}
  /\ stored' = [c \in Cameras |-> 0] /\ evicted' = [c \in Cameras |-> 0]
  /\ capturing' = TRUE
  /\ mutex' = Nobody
  /\ control' = [what |-> "idle", camera |-> 0]
  /\ UNCHANGED <<starts, producer, offered>>

-----------------------------------------------------------------------------
\* PushCamera.

\* try_to_lock: a frame that finds mtx_ taken is dropped.
Bring(c) ==
  /\ producer[c] = 0 /\ offered[c] < MaxFrames
  /\ offered' = [offered EXCEPT ![c] = @ + 1]
  /\ IF mutex = Nobody
       THEN /\ mutex' = c
            /\ producer' = [producer EXCEPT ![c] = offered[c] + 1]
       ELSE UNCHANGED <<mutex, producer>>
  /\ UNCHANGED <<capturing, control, starts, threads, ring, disk, stored, evicted>>

\* With the lock: into the ring if capturing, and out again.
Put(c) == [ring EXCEPT ![c] = Append(IF Len(@) < Capacity THEN @ ELSE Tail(@), producer[c])]

Push(c) ==
  /\ mutex = c
  /\ mutex' = Nobody
  /\ producer' = [producer EXCEPT ![c] = 0]
  /\ IF capturing
       THEN /\ ring' = Put(c)
            /\ stored' = [stored EXCEPT ![c] = @ + 1]
            /\ evicted' = [evicted EXCEPT ![c] = IF Len(ring[c]) < Capacity THEN @ ELSE @ + 1]
       ELSE UNCHANGED <<ring, stored, evicted>>
  /\ UNCHANGED <<capturing, control, starts, offered, threads, disk>>

-----------------------------------------------------------------------------
\* WriterLoop.

\* Pop in the loop, TryPop when draining; an empty Pop only goes round.
Take(c) ==
  /\ writer[c].at \in {"loop", "drain"} /\ writer[c].frame = 0
  /\ ring[c] # <<>>
  /\ writer' = [writer EXCEPT ![c].frame = Head(ring[c])]
  /\ ring' = [ring EXCEPT ![c] = Tail(@)]
  /\ UNCHANGED <<lock, producer, offered, stopping, disk, stored, evicted>>

\* A stream that has failed stays failed; the frame is gone either way.
WriteFrame(c) ==
  /\ Alive(c) /\ writer[c].frame # 0
  /\ \/ /\ ~full[c] /\ opened[c]
        /\ file' = [file EXCEPT ![c] = Append(@, writer[c].frame)]
        /\ UNCHANGED full
     \/ full' = [full EXCEPT ![c] = TRUE] /\ UNCHANGED file
  /\ writer' = [writer EXCEPT ![c].frame = 0]
  /\ UNCHANGED <<lock, producer, offered, stopping, ring, opened, stored, evicted, leftover>>

\* Mutant: a writer leaves with the frame it holds.
SeesStoppingAtOnce(c) ==
  /\ writer[c].at = "loop" /\ stopping[c]
  /\ writer' = [writer EXCEPT ![c] = At("drain", 0)]
  /\ UNCHANGED <<lock, producer, offered, stopping, ring, disk, stored, evicted>>

SeesStopping(c) ==
  /\ writer[c] = At("loop", 0) /\ stopping[c]
  /\ writer' = [writer EXCEPT ![c].at = "drain"]
  /\ UNCHANGED <<lock, producer, offered, stopping, ring, disk, stored, evicted>>

WriterExits(c) ==
  /\ writer[c] = At("drain", 0) /\ ring[c] = <<>>
  /\ writer' = [writer EXCEPT ![c].at = "exited"]
  /\ UNCHANGED <<lock, producer, offered, stopping, ring, disk, stored, evicted>>

WriterStep(c) == Take(c) \/ WriteFrame(c) \/ SeesStopping(c) \/ WriterExits(c)

-----------------------------------------------------------------------------
\* Stop.  Without a capture it does nothing.

\* Off, and the writers detached, in one critical section.
BeginStop ==
  /\ Doing("idle") /\ mutex = Nobody /\ capturing
  /\ capturing' = FALSE
  /\ control' = [what |-> "draining", camera |-> 0]
  /\ UNCHANGED <<mutex, starts, producer, offered, threads, ring, disk, stored, evicted>>

\* Mutant: the writers are not told.
TellNobody == UNCHANGED stopping

\* stopping, then Close to wake the writer.
TellWriter == stopping' = [stopping EXCEPT ![control.camera] = TRUE]

StopWriter ==
  /\ Doing("draining") /\ control.camera < N
  /\ ~stopping[control.camera]
  /\ TellWriter
  /\ UNCHANGED <<lock, producer, offered, writer, ring, disk, stored, evicted>>

\* join, a second drain, which finds the ring empty, and close.
JoinWriter ==
  /\ Doing("draining") /\ control.camera < N
  /\ stopping[control.camera] /\ ~Alive(control.camera)
  /\ file' = [file EXCEPT ![control.camera] =
                IF full[control.camera] THEN @ ELSE @ \o ring[control.camera]]
  /\ ring' = [ring EXCEPT ![control.camera] = <<>>]
  /\ opened' = [opened EXCEPT ![control.camera] = FALSE]
  /\ control' = [control EXCEPT !.camera = @ + 1]
  /\ UNCHANGED <<mutex, capturing, starts, producer, offered, threads, full, stored,
                 evicted, leftover>>

\* Mutant: the last writer is not joined.
StopReturnsOneEarly ==
  /\ Doing("draining") /\ control.camera >= N - 1
  /\ control' = [what |-> "idle", camera |-> 0]
  /\ UNCHANGED <<mutex, capturing, starts, producer, offered, threads, ring, disk, stored,
                 evicted>>

StopReturns ==
  /\ Doing("draining") /\ control.camera = N
  /\ control' = [what |-> "idle", camera |-> 0]
  /\ UNCHANGED <<mutex, capturing, starts, producer, offered, threads, ring, disk, stored,
                 evicted>>

ControlStep == \/ BeginStart \/ OpenFile \/ OpenFails \/ Commit
               \/ BeginStop \/ StopWriter \/ JoinWriter \/ StopReturns

Next == ControlStep \/ \E c \in Cameras : Bring(c) \/ Push(c) \/ WriterStep(c)

Spec == Init /\ [][Next]_vars

\* Threads run, and a Stop under way goes on.
FairSpec == /\ Spec
            /\ \A c \in Cameras : WF_vars(Push(c)) /\ WF_vars(WriterStep(c))
            /\ WF_vars(StopWriter \/ JoinWriter \/ StopReturns)

-----------------------------------------------------------------------------
\* Properties.

\* A frame that entered a ring is written, dropped as the oldest one or still
\* under way, exactly once, unless the disk failed: no frame falls between the
\* ring, the writer and Stop's own drain, and the file keeps the camera's order.
EveryFrameAccounted ==
  \A c \in Cameras :
    /\ ~full[c] => stored[c] = Len(file[c]) + InHand(c) + Len(ring[c]) + evicted[c]
    /\ \A i, j \in 1..Len(file[c]) : i < j => file[c][i] < file[c][j]

\* No file is closed under its writer, and when Stop has returned every frame
\* that was not dropped is in a closed file and no writer thread is left.
StopFlushes ==
  /\ \A c \in Cameras : Alive(c) => opened[c]
  /\ Doing("idle") /\ ~capturing =>
       \A c \in Cameras : /\ ~Alive(c) /\ ~opened[c] /\ ring[c] = <<>>
                          /\ ~full[c] => stored[c] = Len(file[c]) + evicted[c]

\* Stop returns although producers go on pushing.
StopTerminates == Doing("draining") ~> Doing("idle")

\* "if Start/Stop holds mtx_, drop this frame": a frame is lost at the lock only
\* to the control thread.
LostOnlyToControl ==
  [][\A c \in Cameras : offered'[c] # offered[c] /\ capturing /\ producer'[c] = 0
                          => mutex = Control]_vars

\* "writers (and their files) roll back as the vector dies"
FailedStartLeavesNoFile == Doing("idle") => leftover = {}
=============================================================================

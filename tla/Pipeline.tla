------------------------------ MODULE Pipeline ------------------------------
(***************************************************************************)
(* PipelineOrchestrator (pipeline-orchestrator.cpp) over the camera        *)
(* adapters (GStreamerAdapter, capture/frame/gstreamer/gstreamer.cpp), one *)
(* slot per camera, StaticDecision and the sinks: one producer thread per  *)
(* camera, one consumer thread, and the main thread that starts and stops  *)
(* them.                                                                   *)
(*                                                                         *)
(* A frame is its number in its camera's sequence, 0 is no frame.  A slot  *)
(* is a register here: DropOldestRing and LatestOnlySlot show that Push    *)
(* and Pop are atomic on it.  The sinks only see the number of the frame.  *)
(* What the OpenCV steps make of a frame depends on the frame and on the   *)
(* configuration alone, so a step that fails on a frame fails on it again. *)
(***************************************************************************)
EXTENDS Naturals

CONSTANTS
  N,          \* cameras_.size()
  MaxFrames,  \* bound of the model: frames the sensor of each camera makes
  MaxBad      \* bound of the model: samples of each sensor that do not map

Cameras == 0..(N - 1)

ASSUME PipelineAssumption ==
  N \in Nat \ {0} /\ MaxFrames \in [Cameras -> Nat] /\ MaxBad \in Nat

Cam0 == 0       \* kCadenceCamera, kCamera0Index
Frames == UNION {0..MaxFrames[c] : c \in Cameras}

\* The step that fails on a frame, or none; only the decision's camera gets to
\* the second.
Flaws(c) == {"none", "preprocess"} \cup (IF c = Cam0 THEN {"postprocess"} ELSE {})

VARIABLES
  on,        \* is_running_ and the GStreamer pipeline of each adapter
  made,      \* the frames each sensor has made
  sample,    \* the newest sample in each appsink that was not pulled yet
  last,      \* last_frame_ of each adapter
  flaw,      \* the processing step that fails on each frame of each camera
  bad,       \* samples that could not be mapped so far
  broken,    \* an error or EOS waits on the adapter's bus
  running,   \* running_
  producer,  \* each producer thread: where it is and the frame it holds
  consumer,  \* the consumer thread: where it is and the frame it holds
  slot,      \* slots_
  closed,    \* which slots are closed
  main,      \* the main thread: where it is and the camera it is at
  forked,    \* the newest frame of each camera that the raw sink was offered
  snapshot,  \* latest_frame_
  sunk       \* the newest frame the sinks were given

adapters == <<on, made, sample, last, bad, broken, flaw>>
outputs  == <<forked, snapshot, sunk>>
vars     == <<on, made, sample, last, bad, broken, flaw, running, producer, consumer, slot,
              closed, main, forked, snapshot, sunk>>

At(place, frame) == [at |-> place, frame |-> frame]

PipelineTypeOK ==
  /\ on \in [Cameras -> BOOLEAN] /\ broken \in [Cameras -> BOOLEAN]
  /\ \A f \in {made, sample, last, slot, forked} : f \in [Cameras -> Frames]
  /\ bad \in [Cameras -> 0..MaxBad]
  /\ DOMAIN flaw = Cameras /\ \A c \in Cameras : flaw[c] \in [1..MaxFrames[c] -> Flaws(c)]
  /\ running \in BOOLEAN
  /\ producer \in [Cameras -> [at : {"none", "loop", "captured", "processed", "forked",
                                     "exited"}, frame : Frames]]
  /\ consumer \in [at : {"none", "loop", "popped", "sampled", "final", "retained",
                         "exited"}, frame : Frames]
  /\ closed \in [Cameras -> BOOLEAN]
  /\ main \in [at : {"off", "starting", "rollback", "failed", "up", "closing", "joining",
                     "halting", "down"}, camera : 0..N]
  /\ snapshot \in Frames /\ sunk \in Frames

Init == /\ on = [c \in Cameras |-> FALSE] /\ broken = [c \in Cameras |-> FALSE]
        /\ made = [c \in Cameras |-> 0] /\ sample = [c \in Cameras |-> 0]
        /\ last = [c \in Cameras |-> 0] /\ bad = [c \in Cameras |-> 0]
        /\ flaw \in [Cameras -> UNION {[1..MaxFrames[c] -> Flaws(c)] : c \in Cameras}]
        /\ \A c \in Cameras : flaw[c] \in [1..MaxFrames[c] -> Flaws(c)]
        /\ running = FALSE
        /\ producer = [c \in Cameras |-> At("none", 0)]
        /\ consumer = At("none", 0)
        /\ slot = [c \in Cameras |-> 0] /\ closed = [c \in Cameras |-> FALSE]
        /\ main = [at |-> "off", camera |-> 0]
        /\ forked = [c \in Cameras |-> 0] /\ snapshot = 0 /\ sunk = 0

-----------------------------------------------------------------------------
\* The sensors.

Expose(c) == /\ on[c] /\ made[c] < MaxFrames[c]
             /\ made' = [made EXCEPT ![c] = @ + 1]
             /\ sample' = [sample EXCEPT ![c] = made[c] + 1]
             /\ UNCHANGED <<on, last, bad, broken, flaw, running, producer, consumer, slot,
                            closed, main, outputs>>

Break(c) == /\ on[c] /\ ~broken[c]
            /\ broken' = [broken EXCEPT ![c] = TRUE]
            /\ UNCHANGED <<on, made, sample, last, bad, flaw, running, producer, consumer, slot,
                           closed, main, outputs>>

-----------------------------------------------------------------------------
\* GStreamerAdapter.

\* Start: the pipeline plays and the first sample, if one comes in time, primes
\* last_frame_.
AdapterStarts(c) ==
  /\ on' = [on EXCEPT ![c] = TRUE]
  /\ \/ UNCHANGED <<made, last>>
     \/ /\ made[c] < MaxFrames[c]
        /\ made' = [made EXCEPT ![c] = @ + 1]
        /\ last' = [last EXCEPT ![c] = made[c] + 1]
  /\ UNCHANGED <<sample, bad, broken, flaw>>

AdapterStops(c) == /\ on' = [on EXCEPT ![c] = FALSE]
                   /\ broken' = [broken EXCEPT ![c] = FALSE]
                   /\ sample' = [sample EXCEPT ![c] = 0]
                   /\ last' = [last EXCEPT ![c] = 0]
                   /\ UNCHANGED <<made, bad, flaw>>

\* Capture with nothing on the bus: the newest sample becomes last_frame_,
\* unless it does not map; without a sample the frame before is returned again.
Pull(c) ==
  /\ sample[c] # 0
  /\ sample' = [sample EXCEPT ![c] = 0]
  /\ last' = [last EXCEPT ![c] = sample[c]]
  /\ UNCHANGED <<on, made, bad, broken, flaw>>

PullUnmapped(c) ==
  /\ sample[c] # 0 /\ bad[c] < MaxBad
  /\ sample' = [sample EXCEPT ![c] = 0]
  /\ bad' = [bad EXCEPT ![c] = @ + 1]
  /\ UNCHANGED <<on, made, last, broken, flaw>>

-----------------------------------------------------------------------------
\* ProducerLoop.

ProducerAt(c, place) == producer[c].at = place
ProducerGoes(c, place, frame) == producer' = [producer EXCEPT ![c] = At(place, frame)]

\* A loop entered while running_ captures; nullopt sleeps and tries again.
Captures(c) == running /\ ProducerAt(c, "loop") /\ on[c]
Obtains(c, frame) == ProducerGoes(c, IF frame = 0 THEN "loop" ELSE "captured", frame)

CaptureNew(c) ==
  /\ Captures(c) /\ ~broken[c]
  /\ Pull(c)
  /\ Obtains(c, sample[c])
  /\ UNCHANGED <<running, consumer, slot, closed, main, outputs>>

CaptureLast(c) ==
  /\ Captures(c) /\ ~broken[c]
  /\ IF sample[c] = 0 THEN UNCHANGED adapters ELSE PullUnmapped(c)
  /\ Obtains(c, last[c])
  /\ UNCHANGED <<running, consumer, slot, closed, main, outputs>>

\* HandleBusMessages: an error or EOS stops the adapter for good.
CaptureError(c) ==
  /\ Captures(c) /\ broken[c]
  /\ AdapterStops(c)
  /\ UNCHANGED <<running, producer, consumer, slot, closed, main, outputs>>

\* The flaw of the frame that the producer holds.
Flaw(c) == flaw[c][producer[c].frame]

Preprocess(c) ==
  /\ ProducerAt(c, "captured") /\ Flaw(c) # "preprocess"
  /\ ProducerGoes(c, "processed", producer[c].frame)
  /\ UNCHANGED <<adapters, running, consumer, slot, closed, main, outputs>>

PreprocessFails(c) ==
  /\ ProducerAt(c, "captured") /\ Flaw(c) = "preprocess"
  /\ ProducerGoes(c, "loop", 0)
  /\ UNCHANGED <<adapters, running, consumer, slot, closed, main, outputs>>

\* raw_sink_->PushCamera, with the materialized frame.
Fork(c) ==
  /\ ProducerAt(c, "processed")
  /\ forked' = [forked EXCEPT ![c] = IF producer[c].frame > @ THEN producer[c].frame ELSE @]
  /\ ProducerGoes(c, "forked", producer[c].frame)
  /\ UNCHANGED <<adapters, running, consumer, slot, closed, main, snapshot, sunk>>

\* slot.Push: replaces what the slot holds, and is refused once it is closed.
PushSlot(c) ==
  /\ ProducerAt(c, "forked")
  /\ slot' = IF closed[c] THEN slot ELSE [slot EXCEPT ![c] = producer[c].frame]
  /\ ProducerGoes(c, "loop", 0)
  /\ UNCHANGED <<adapters, running, consumer, closed, main, outputs>>

ProducerExits(c) ==
  /\ ProducerAt(c, "loop") /\ ~running
  /\ ProducerGoes(c, "exited", 0)
  /\ UNCHANGED <<adapters, running, consumer, slot, closed, main, outputs>>

ProducerStep(c) == \/ CaptureNew(c) \/ CaptureLast(c) \/ CaptureError(c)
                   \/ Preprocess(c) \/ PreprocessFails(c) \/ Fork(c) \/ PushSlot(c)
                   \/ ProducerExits(c)

-----------------------------------------------------------------------------
\* ConsumerLoop.

\* Pop returns the frame of the cadence camera.  An empty return, after the
\* timeout or from a closed slot, goes on to sample the others and then finds
\* nothing to decide on: the other slots lose their frames all the same.
PopCadence ==
  /\ consumer.at = "loop" /\ running
  /\ consumer' = At("popped", slot[Cam0])
  /\ slot' = [slot EXCEPT ![Cam0] = 0]
  /\ UNCHANGED <<adapters, running, producer, closed, main, outputs>>

\* Mutant: without a frame of camera 0 the consumer ends.
SampleOthersOrBreak ==
  /\ consumer.at = "popped"
  /\ slot' = [c \in Cameras |-> IF c = Cam0 THEN slot[c] ELSE 0]
  /\ consumer' = IF consumer.frame = 0 THEN At("exited", 0) ELSE At("sampled", consumer.frame)
  /\ UNCHANGED <<adapters, running, producer, closed, main, outputs>>

\* TryPop of the other slots, and StaticDecision: camera 0 or nothing.
SampleOthers ==
  /\ consumer.at = "popped"
  /\ slot' = [c \in Cameras |-> IF c = Cam0 THEN slot[c] ELSE 0]
  /\ consumer' = IF consumer.frame = 0 THEN At("loop", 0) ELSE At("sampled", consumer.frame)
  /\ UNCHANGED <<adapters, running, producer, closed, main, outputs>>

Postprocess ==
  /\ consumer.at = "sampled" /\ flaw[Cam0][consumer.frame] # "postprocess"
  /\ consumer' = At("final", consumer.frame)
  /\ UNCHANGED <<adapters, running, producer, slot, closed, main, outputs>>

PostprocessFails ==
  /\ consumer.at = "sampled" /\ flaw[Cam0][consumer.frame] = "postprocess"
  /\ consumer' = At("loop", 0)
  /\ UNCHANGED <<adapters, running, producer, slot, closed, main, outputs>>

Retain ==
  /\ consumer.at = "final"
  /\ snapshot' = consumer.frame
  /\ consumer' = At("retained", consumer.frame)
  /\ UNCHANGED <<adapters, running, producer, slot, closed, main, forked, sunk>>

\* FanOutSink::Push, the recorder first and then the streams.
PushSinks ==
  /\ consumer.at = "retained"
  /\ sunk' = consumer.frame
  /\ consumer' = At("loop", 0)
  /\ UNCHANGED <<adapters, running, producer, slot, closed, main, forked, snapshot>>

ConsumerExits ==
  /\ consumer.at = "loop" /\ ~running
  /\ consumer' = At("exited", 0)
  /\ UNCHANGED <<adapters, running, producer, slot, closed, main, outputs>>

ConsumerStep == \/ PopCadence \/ SampleOthers \/ Postprocess \/ PostprocessFails
                \/ Retain \/ PushSinks \/ ConsumerExits

-----------------------------------------------------------------------------
\* Start and Stop, called by the main thread, once each.

Main(place) == main.at = place
MainGoes(place, camera) == main' = [at |-> place, camera |-> camera]

Start ==
  /\ Main("off")
  /\ MainGoes("starting", 0)
  /\ UNCHANGED <<adapters, running, producer, consumer, slot, closed, outputs>>

StartCamera ==
  /\ Main("starting") /\ main.camera < N
  /\ AdapterStarts(main.camera)
  /\ MainGoes("starting", main.camera + 1)
  /\ UNCHANGED <<running, producer, consumer, slot, closed, outputs>>

\* The adapters before the one that failed are stopped again.
StartCameraFails ==
  /\ Main("starting") /\ main.camera < N
  /\ MainGoes("rollback", main.camera)
  /\ UNCHANGED <<adapters, running, producer, consumer, slot, closed, outputs>>

RollBack ==
  /\ Main("rollback")
  /\ IF main.camera > 0
       THEN AdapterStops(main.camera - 1) /\ MainGoes("rollback", main.camera - 1)
       ELSE MainGoes("failed", 0) /\ UNCHANGED adapters
  /\ UNCHANGED <<running, producer, consumer, slot, closed, outputs>>

SpawnThreads ==
  /\ Main("starting") /\ main.camera = N
  /\ running' = TRUE
  /\ producer' = [c \in Cameras |-> At("loop", 0)]
  /\ consumer' = At("loop", 0)
  /\ MainGoes("up", 0)
  /\ UNCHANGED <<adapters, slot, closed, outputs>>

\* Mutant: running_ stays set.
StopButKeepRunning ==
  /\ Main("up")
  /\ MainGoes("closing", 0)
  /\ UNCHANGED <<adapters, running, producer, consumer, slot, closed, outputs>>

Stop ==
  /\ Main("up")
  /\ running' = FALSE
  /\ MainGoes("closing", 0)
  /\ UNCHANGED <<adapters, producer, consumer, slot, closed, outputs>>

CloseSlot ==
  /\ Main("closing")
  /\ IF main.camera < N
       THEN /\ closed' = [closed EXCEPT ![main.camera] = TRUE]
            /\ MainGoes("closing", main.camera + 1)
       ELSE MainGoes("joining", 0) /\ UNCHANGED closed
  /\ UNCHANGED <<adapters, running, producer, consumer, slot, outputs>>

\* Every join but that of the consumer.
JoinProducers ==
  /\ Main("joining")
  /\ \A c \in Cameras : ProducerAt(c, "exited")
  /\ MainGoes("halting", 0)
  /\ UNCHANGED <<adapters, running, producer, consumer, slot, closed, outputs>>

JoinThreads ==
  /\ Main("joining")
  /\ \A c \in Cameras : ProducerAt(c, "exited")
  /\ consumer.at = "exited"
  /\ MainGoes("halting", 0)
  /\ UNCHANGED <<adapters, running, producer, consumer, slot, closed, outputs>>

HaltCamera ==
  /\ Main("halting")
  /\ IF main.camera < N
       THEN AdapterStops(main.camera) /\ MainGoes("halting", main.camera + 1)
       ELSE MainGoes("down", 0) /\ UNCHANGED adapters
  /\ UNCHANGED <<running, producer, consumer, slot, closed, outputs>>

MainStep == \/ Start \/ StartCamera \/ StartCameraFails \/ RollBack \/ SpawnThreads
            \/ Stop \/ CloseSlot \/ JoinThreads \/ HaltCamera

Next == \/ \E c \in Cameras : Expose(c) \/ Break(c) \/ ProducerStep(c)
        \/ ConsumerStep \/ MainStep

Spec == Init /\ [][Next]_vars

\* Every thread runs, and Stop, once called, goes on.  Nothing has to call Stop,
\* no sensor has to expose, and no processing step has to succeed.
Fairness == /\ \A c \in Cameras : WF_vars(ProducerStep(c))
            /\ WF_vars(ConsumerStep)
            /\ WF_vars(CloseSlot) /\ WF_vars(JoinThreads) /\ WF_vars(HaltCamera)

FairSpec == Spec /\ Fairness

-----------------------------------------------------------------------------
\* Properties.

\* Recording, streams and snapshots never go back in time, although the adapter
\* hands out the same frame again and the slots drop frames.
NeverBackInTime == [][sunk' >= sunk /\ snapshot' >= snapshot]_vars

\* "Fork the materialized frame to raw capture BEFORE the std::move": whatever
\* reaches a slot or the sinks was offered to the raw sink first.
RawSeesFirst == /\ \A c \in Cameras : slot[c] <= forked[c]
                /\ consumer.frame <= forked[Cam0] /\ sunk <= forked[Cam0]

\* Stop takes a camera down only when no thread can touch it or the sinks any
\* more, and leaves none up; nor does a Start that fails ("never leave half the
\* cameras running on a failed Start()").
StopsCleanly ==
  /\ Main("failed") => /\ \A c \in Cameras : ~on[c] /\ ProducerAt(c, "none")
                       /\ consumer.at = "none"
  /\ main.at \in {"halting", "down"} =>
       consumer.at = "exited" /\ \A c \in Cameras : ProducerAt(c, "exited")
  /\ Main("down") => \A c \in Cameras : ~on[c]

\* A processing step fails on one of these frames of a camera.
Refused(c, step, frames) == \E f \in frames : flaw[c][f] = step

\* A frame that was taken is through: it reached the raw sink, and the sinks if it
\* is camera 0's, or was overtaken by a newer frame.  Excepted is what the OpenCV
\* steps refuse: on the way to the raw sink the frame or one that overtook it before
\* preprocessing, on the way to the sinks likewise at postprocessing.
IsThrough(c, f) ==
  \/ forked[c] < f /\ Refused(c, "preprocess", f..last[c])
  \/ /\ forked[c] >= f
     /\ c = Cam0 => sunk >= f \/ Refused(c, "postprocess", f..forked[c])

\* What an adapter has taken gets through, also when a sample did not map, when the
\* slot dropped it, or when the other camera died: again and again there is a time
\* when all that were taken are through.
TakenFramesArrive ==
  []<>(\A c \in Cameras : running /\ on[c] => \A f \in 1..last[c] : IsThrough(c, f))

\* Stop comes to its end whatever the threads are doing.
StopReturns == Main("closing") ~> Main("down")

\* "when Capture() returns nullopt (no new frame ready)": a producer works on a
\* frame of its camera only once.
CapturesNewFramesOnly ==
  [][\A c \in Cameras : ProducerAt(c, "loop") /\ producer'[c].at = "captured"
                          => producer'[c].frame # last[c]]_vars
=============================================================================

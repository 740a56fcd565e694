------------------------------ MODULE Recording ------------------------------
(***************************************************************************)
(* RecordingService (recording-service.cpp) over GstContinuousRecorder     *)
(* (gst-continuous-recorder.cpp) and the encoder chain it feeds.           *)
(*                                                                         *)
(* Three threads: the event loop calls StartRecording, Pause, Resume and   *)
(* Stop, the pipeline's consumer calls Push, the chain encodes.  All calls *)
(* run under RecordingService::mtx_, so each is one step except Stop,      *)
(* which holds the mutex while it waits for the chain to drain.  A frame   *)
(* is its number, a file is the frames in it.  Calls that are refused      *)
(* change nothing and are stuttering steps.                                *)
(***************************************************************************)
EXTENDS Naturals, FiniteSets, FiniteSetsExt, Functions, Sequences, SequencesExt

CONSTANTS
  Paths,      \* output paths the app pushes in its session configs
  Unwritable, \* those whose thumbnail path makes IThumbnailWriter::Write throw
  Disk,       \* size of the disk, in frames
  MinFree,    \* min_free_bytes_ of the disk guard
  MaxFrames,  \* bound of the model: frames the consumer brings
  MaxStarts   \* bound of the model: recordings started

ASSUME RecordingAssumption ==
  /\ IsFiniteSet(Paths) /\ Unwritable \subseteq Paths
  /\ {Disk, MinFree, MaxFrames, MaxStarts} \subseteq Nat

Eos == MaxFrames + 1
NoPath == "none"
ASSUME NoPathIsNone == NoPath \notin Paths

VARIABLES
  state,      \* RecordingService::state_
  path,       \* video_path_
  lastFrame,  \* last_frame_, 0 when empty
  recorder,   \* GstContinuousRecorder: running_ and paused_
  chain,      \* the GStreamer pipeline: its state, appsrc queue and bus
  files,      \* the MP4 at each path: its frames, and whether it has its moov atom
  thumbs,     \* the frame in each thumbnail on disk, or 0
  control,    \* where the event loop is in Stop
  inHand,     \* the frame the consumer is in Push with, or 0
  brought,    \* frames the consumer has brought so far
  starts,     \* recordings started so far
  fed,        \* history: frames fed to the latest recording of each path
  seen,       \* history: frames that reached the service during it
  result      \* history: what the latest Stop returned, and about which path

service == <<state, path, lastFrame>>
ondisk == <<files, thumbs>>
history == <<fed, seen, result>>
vars == <<service, recorder, chain, ondisk, control, inHand, brought, starts, history>>

Frames == 1..MaxFrames
Stopped == [running |-> FALSE, paused |-> FALSE]
NoChain == [state |-> "none", queue |-> <<>>, bus |-> {}]
NoFile == [frames |-> <<>>, moov |-> FALSE]
NoResult == [success |-> FALSE, path |-> NoPath]

RecordingTypeOK ==
  /\ state \in {"idle", "recording", "paused"}
  /\ path \in Paths \cup {NoPath} /\ lastFrame \in 0..MaxFrames
  /\ recorder \in [running : BOOLEAN, paused : BOOLEAN]
  /\ chain.state \in {"none", "playing", "failed"} /\ chain.queue \in Seq(1..Eos)
  /\ chain.bus \subseteq {"eos", "error"}
  /\ \A p \in Paths : files[p].frames \in Seq(Frames) /\ files[p].moov \in BOOLEAN
  /\ thumbs \in [Paths -> 0..MaxFrames]
  /\ control \in {"idle", "finalizing", "thumbnail"}
  /\ inHand \in 0..MaxFrames /\ brought \in 0..MaxFrames /\ starts \in 0..MaxStarts
  /\ control # "idle" => state # "idle"
  /\ recorder.running <=> chain.state # "none"

Init ==
  /\ state = "idle" /\ path = NoPath /\ lastFrame = 0
  /\ recorder = Stopped /\ chain = NoChain
  /\ files = [p \in Paths |-> NoFile] /\ thumbs = [p \in Paths |-> 0]
  /\ control = "idle" /\ inHand = 0 /\ brought = 0 /\ starts = 0
  /\ fed = [p \in Paths |-> <<>>] /\ seen = [p \in Paths |-> {}] /\ result = NoResult

\* What FilesystemDiskGuard::FreeBytes reads: the moov atom takes room too.
Size(f) == Len(f.frames) + IF f.moov THEN 1 ELSE 0
Free == Disk - MapThenSumSet(LAMBDA p : Size(files[p]), Paths)

-----------------------------------------------------------------------------
\* RecordingService on the event loop thread, under mtx_.

\* filesink opens its location, so an earlier file at the path is gone.
LaunchRecorder(p) ==
  /\ recorder' = [running |-> TRUE, paused |-> FALSE]
  /\ chain' = [NoChain EXCEPT !.state = "playing"]
  /\ files' = [files EXCEPT ![p] = NoFile]

StartRecording(p) ==
  /\ control = "idle" /\ starts < MaxStarts
  /\ state = "idle" /\ Free >= MinFree
  /\ ~recorder.running
  /\ LaunchRecorder(p)
  /\ state' = "recording" /\ path' = p /\ starts' = starts + 1
  /\ fed' = [fed EXCEPT ![p] = <<>>] /\ seen' = [seen EXCEPT ![p] = {}]
  /\ UNCHANGED <<lastFrame, thumbs, control, inHand, brought, result>>

PauseRecorder == recorder' = [recorder EXCEPT !.paused = TRUE]

Pause ==
  /\ control = "idle" /\ state = "recording"
  /\ PauseRecorder /\ state' = "paused"
  /\ UNCHANGED <<path, lastFrame, chain, ondisk, control, inHand, brought, starts, history>>

\* Mutant: the key unit flushes what appsrc has queued.
ResumeFlushes ==
  /\ control = "idle" /\ state = "paused"
  /\ recorder' = [recorder EXCEPT !.paused = @ /\ ~recorder.running]
  /\ state' = "recording" /\ chain' = [chain EXCEPT !.queue = <<>>]
  /\ UNCHANGED <<path, lastFrame, ondisk, control, inHand, brought, starts, history>>

\* The recorder returns early when it is not running.
Resume ==
  /\ control = "idle" /\ state = "paused"
  /\ recorder' = [recorder EXCEPT !.paused = @ /\ ~recorder.running]
  /\ state' = "recording"
  /\ UNCHANGED <<path, lastFrame, chain, ondisk, control, inHand, brought, starts, history>>

\* Mutant: end-of-stream overtakes the frames that are queued.
BeginStopFlushing ==
  /\ control = "idle" /\ state # "idle"
  /\ IF recorder.running
     THEN /\ control' = "finalizing"
          /\ chain' = [chain EXCEPT !.queue = <<Eos>>]
          /\ UNCHANGED result
     ELSE /\ control' = "thumbnail" /\ result' = NoResult
          /\ UNCHANGED chain
  /\ UNCHANGED <<service, recorder, ondisk, inHand, brought, starts, fed, seen>>

\* GstContinuousRecorder::Stop queues end-of-stream behind what is not encoded
\* yet; it returns false at once when the recorder does not run.
BeginStop ==
  /\ control = "idle" /\ state # "idle"
  /\ IF recorder.running
     THEN /\ control' = "finalizing"
          /\ chain' = [chain EXCEPT !.queue = Append(@, Eos)]
          /\ UNCHANGED result
     ELSE /\ control' = "thumbnail" /\ result' = NoResult
          /\ UNCHANGED chain
  /\ UNCHANGED <<service, recorder, ondisk, inHand, brought, starts, fed, seen>>

Teardown == recorder' = Stopped /\ chain' = NoChain

\* gst_bus_timed_pop_filtered returned, with a message or at its timeout; the
\* recorder returns true in every case.
StopRecorder ==
  /\ Teardown
  /\ control' = "thumbnail" /\ result' = [success |-> TRUE, path |-> path]
  /\ UNCHANGED <<service, ondisk, inHand, brought, starts, fed, seen>>

Finalized == control = "finalizing" /\ chain.bus # {} /\ StopRecorder

FinalizeTimesOut == control = "finalizing" /\ chain.bus = {} /\ StopRecorder

\* The rest of RecordingService::Stop.
BecomeIdle == state' = "idle" /\ path' = NoPath /\ lastFrame' = 0

HasThumbnail == lastFrame # 0

ThumbnailWritten ==
  /\ HasThumbnail /\ path \notin Unwritable
  /\ thumbs' = [thumbs EXCEPT ![path] = lastFrame]
  /\ BecomeIdle

\* Write returns false, or there is no frame or no thumbnail path.
NoThumbnail ==
  /\ ~HasThumbnail \/ path \notin Unwritable
  /\ BecomeIdle /\ UNCHANGED thumbs

\* cv::imwrite throws for a path with no image extension.  The exception leaves
\* Stop before anything is reset; the dispatcher or the cleanup step catches it.
WriteThrows ==
  /\ HasThumbnail /\ path \in Unwritable
  /\ UNCHANGED <<service, thumbs>>

EndStop ==
  /\ control = "thumbnail" /\ control' = "idle"
  /\ ThumbnailWritten \/ NoThumbnail \/ WriteThrows
  /\ UNCHANGED <<recorder, chain, files, inHand, brought, starts, history>>

-----------------------------------------------------------------------------
\* The consumer thread.

BringFrame ==
  /\ inHand = 0 /\ brought < MaxFrames
  /\ brought' = brought + 1 /\ inHand' = brought + 1
  /\ UNCHANGED <<service, recorder, chain, ondisk, control, starts, history>>

\* GstContinuousRecorder::Push.  appsrc does not block and has no bound.
Feed(f) ==
  IF recorder.running /\ ~recorder.paused
  THEN /\ chain' = [chain EXCEPT !.queue = Append(@, f)]
       /\ fed' = [fed EXCEPT ![path] = Append(@, f)]
  ELSE UNCHANGED <<chain, fed>>

\* Mutant: the first frame is kept for the thumbnail.
PushKeepsFirst ==
  /\ inHand # 0 /\ control = "idle" /\ inHand' = 0
  /\ IF state = "idle"
     THEN UNCHANGED <<lastFrame, chain, fed, seen>>
     ELSE /\ lastFrame' = IF lastFrame = 0 THEN inHand ELSE lastFrame
          /\ seen' = [seen EXCEPT ![path] = @ \cup {inHand}]
          /\ Feed(inHand)
  /\ UNCHANGED <<state, path, recorder, ondisk, control, brought, starts, result>>

\* Push waits for mtx_, which Stop holds until it returns.
Push ==
  /\ inHand # 0 /\ control = "idle" /\ inHand' = 0
  /\ IF state = "idle"
     THEN UNCHANGED <<lastFrame, chain, fed, seen>>
     ELSE /\ lastFrame' = inHand
          /\ seen' = [seen EXCEPT ![path] = @ \cup {inHand}]
          /\ Feed(inHand)
  /\ UNCHANGED <<state, path, recorder, ondisk, control, brought, starts, result>>

-----------------------------------------------------------------------------
\* The encoder chain: videoconvert, x264enc, h264parse, mp4mux, filesink.

Next1 == Head(chain.queue)
Post(message) == chain' = [chain EXCEPT !.queue = Tail(@), !.bus = @ \cup {message}]
ChainFails == /\ chain' = [chain EXCEPT !.state = "failed", !.bus = @ \cup {"error"}]
              /\ UNCHANGED files

Encode ==
  /\ chain.state = "playing" /\ chain.queue # <<>> /\ Next1 # Eos
  /\ IF Free > 0
     THEN /\ files' = [files EXCEPT ![path].frames = Append(@, Next1)]
          /\ chain' = [chain EXCEPT !.queue = Tail(@)]
     ELSE ChainFails
  /\ UNCHANGED <<service, recorder, thumbs, control, inHand, brought, starts, history>>

WriteMoov ==
  /\ chain.state = "playing" /\ chain.queue # <<>> /\ Next1 = Eos
  /\ IF Free > 0
     THEN files' = [files EXCEPT ![path].moov = TRUE] /\ Post("eos")
     ELSE ChainFails
  /\ UNCHANGED <<service, recorder, thumbs, control, inHand, brought, starts, history>>

-----------------------------------------------------------------------------
ControlStep == \/ \E p \in Paths : StartRecording(p)
               \/ Pause \/ Resume \/ BeginStop \/ Finalized \/ FinalizeTimesOut \/ EndStop

Next == ControlStep \/ BringFrame \/ Push \/ Encode \/ WriteMoov

\* The bus wait is bounded by kFinalizeTimeoutSeconds and the writing of a
\* thumbnail ends; nothing is assumed of the encoder.
Fairness == /\ WF_vars(Finalized) /\ WF_vars(FinalizeTimesOut) /\ WF_vars(EndStop)

Spec == Init /\ [][Next]_vars
LiveSpec == Spec /\ Fairness
-----------------------------------------------------------------------------
\* Properties.

\* While the chain works, the frames in the file followed by those in appsrc are
\* exactly the frames Push fed to this recording, in order: a pause neither
\* splits the file nor loses what was queued (GstContinuousRecorder::Push).
NothingLost ==
  (chain.state = "playing" /\ Eos \notin Range(chain.queue) /\ chain.bus = {}) =>
    files[path].frames \o chain.queue = fed[path]

\* A file with its moov atom holds every frame fed to its recording: end-of-
\* stream is queued behind the last frame and nothing is pushed after it
\* (GstContinuousRecorder::Stop).
PlayableIsComplete ==
  \A p \in Paths : files[p].moov => files[p].frames = fed[p]

\* [action] Nothing enters the chain while the service is paused.
NoFrameWhilePaused ==
  [][state = "paused" /\ control = "idle" /\ control' = "idle"
       => Len(chain'.queue) <= Len(chain.queue)]_vars

\* [action] A thumbnail that is written shows a frame of the recording that has
\* just ended, the last one that reached the service (RecordingService::Stop).
ThumbnailOfRecording ==
  [][\A p \in Paths : thumbs'[p] # thumbs[p] =>
       p = path /\ thumbs'[p] \in seen[p] /\ \A f \in seen[p] : f <= thumbs'[p]]_vars

\* An idle service holds no frame, no path and no running chain, and a chain
\* that runs belongs to a recording that is under way (StartRecording, Stop).
IdleHoldsNothing ==
  /\ state = "idle" => recorder = Stopped /\ chain = NoChain /\ path = NoPath /\ lastFrame = 0
  /\ ~recorder.running /\ control = "idle" /\ state # "idle" => path \in Unwritable

\* Stop returns whatever the encoder does (kFinalizeTimeoutSeconds).
StopReturns == control = "finalizing" ~> control = "idle"

\* [refuted] What Stop reported as finalized is playable (continuous-recorder.hpp:
\* "EOS the muxer and finalize a playable file").
SuccessIsPlayable ==
  control = "thumbnail" /\ result.success => files[result.path].moov

\* [refuted] Stop leaves the service idle, so the next START can be accepted
\* (recording-service.hpp: "a no-op when idle, so the disconnect cleanup path can
\* call it unconditionally").
StopEndsIdle == control = "idle" /\ state # "idle" => recorder.running

\* [refuted] A playable file stays playable ("A playable recording survives").
PlayableSurvives ==
  [][\A p \in Paths : files[p].moov => files'[p].moov]_vars
=============================================================================

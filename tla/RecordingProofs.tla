--------------------------- MODULE RecordingProofs ---------------------------
(***************************************************************************)
(* The recording service for any paths, any disk and any number of frames. *)
(*                                                                         *)
(* The invariant follows one frame from the service to the file.  While    *)
(* the chain plays, the file continued by appsrc's queue is what was fed;  *)
(* Stop puts end-of-stream behind that, and the moov atom is written when  *)
(* it has come to the head of the queue, that is, when nothing is left.    *)
(* How much room the disk has is of no importance to it.                   *)
(***************************************************************************)
EXTENDS Recording, SequenceTheorems, TLAPS

Queued == 1..Eos

\* The types, a part for each group of variables.
ServiceShape == /\ state \in {"idle", "recording", "paused"} /\ path \in Paths \cup {NoPath}
                /\ lastFrame \in 0..MaxFrames
                /\ control \in {"idle", "finalizing", "thumbnail"}
FrameShape == inHand \in 0..MaxFrames /\ brought \in 0..MaxFrames
ChainShape == /\ recorder \in [running : BOOLEAN, paused : BOOLEAN]
              /\ chain \in [state : {"none", "playing", "failed"}, queue : Seq(Queued),
                            bus : SUBSET {"eos", "error"}]
FileShape == files \in [Paths -> [frames : Seq(Frames), moov : BOOLEAN]]
FedShape == fed \in [Paths -> Seq(Frames)]
SeenShape == seen \in [Paths -> SUBSET Frames] /\ thumbs \in [Paths -> 0..MaxFrames]

RecordingShape == /\ ServiceShape /\ FrameShape /\ ChainShape
                  /\ FileShape /\ FedShape /\ SeenShape

\* Which of the service, the recorder and the chain are there.
Flow ==
  /\ state = "idle" => /\ recorder = Stopped /\ path = NoPath /\ lastFrame = 0
                       /\ control = "idle"
  /\ state # "idle" => path \in Paths
  /\ recorder.running <=> chain.state # "none"
  /\ ~recorder.running => chain = NoChain
  /\ control = "finalizing" => recorder.running
  /\ control = "thumbnail" => ~recorder.running
  /\ ~recorder.running /\ (recorder.paused \/ (control = "idle" /\ state # "idle")) =>
       path \in Unwritable /\ lastFrame # 0

\* The file, appsrc and what was fed.
Ended(queue) == \E rest \in Seq(Frames) : queue = Append(rest, Eos)

Continues == files[path].frames \o chain.queue = fed[path] /\ chain.queue \in Seq(Frames)
Closing == files[path].frames \o chain.queue = Append(fed[path], Eos) /\ Ended(chain.queue)
Closed == chain.queue = <<>> /\ chain.bus = {"eos"}

Content ==
  /\ PlayableIsComplete
  /\ recorder.running /\ chain.state = "failed" => ~files[path].moov
  /\ recorder.running /\ chain.state = "playing" =>
       \/ chain.bus = {} /\ ~files[path].moov /\ control = "idle" /\ Continues
       \/ chain.bus = {} /\ ~files[path].moov /\ control = "finalizing" /\ Closing
       \/ control = "finalizing" /\ Closed

\* The frames the service has seen.
Seen ==
  /\ inHand # 0 => inHand = brought
  /\ \A p \in Paths : \A f \in seen[p] : f <= brought /\ (inHand # 0 => f < inHand)
  /\ lastFrame # 0 => lastFrame \in seen[path] /\ \A f \in seen[path] : f <= lastFrame

RecordingInv == RecordingShape /\ Flow /\ Content /\ Seen

-----------------------------------------------------------------------------
\* A sequence of frames continued by a queue.

LEMMA Bounds == /\ MaxFrames \in Nat /\ Eos \in Queued /\ Eos \notin Frames
                /\ Frames \subseteq Queued
  BY RecordingAssumption DEF Eos, Queued, Frames

LEMMA QueuedSeq ==
  ASSUME NEW q \in Seq(Frames)
  PROVE  q \in Seq(Queued)
  BY Bounds, SeqMonotonic

\* Taking the head of the queue into the file changes nothing of the whole.
LEMMA HeadMovesOver ==
  ASSUME NEW S, NEW f \in Seq(S), NEW q \in Seq(S), q # <<>>
  PROVE  Append(f, Head(q)) \o Tail(q) = f \o q
<1>1. Head(q) \in S /\ Tail(q) \in Seq(S)
  BY HeadTailProperties
<1>2. q = <<Head(q)>> \o Tail(q)
  <2>1. <<Head(q)>> \in Seq(S)
    BY <1>1
  <2>2. <<Head(q)>> \o Tail(q) \in Seq(S) /\ Len(<<Head(q)>> \o Tail(q)) = Len(q)
    BY <1>1, <2>1, ConcatProperties, HeadTailProperties
  <2>3. ASSUME NEW i \in 1..Len(q) PROVE (<<Head(q)>> \o Tail(q))[i] = q[i]
    BY <1>1, <2>1, HeadTailProperties, ConcatProperties, LenProperties
  <2>4. QED
    BY <2>2, <2>3, SeqEqual
<1>3. Append(f, Head(q)) = f \o <<Head(q)>> /\ <<Head(q)>> \in Seq(S)
  BY <1>1, AppendIsConcat
<1>4. (f \o <<Head(q)>>) \o Tail(q) = f \o (<<Head(q)>> \o Tail(q))
  BY <1>1, <1>3, ConcatAssociative
<1>5. QED
  BY <1>2, <1>3, <1>4

\* What joins the queue joins the whole.
LEMMA AppendToQueue ==
  ASSUME NEW S, NEW f \in Seq(S), NEW q \in Seq(S), NEW x \in S
  PROVE  f \o Append(q, x) = Append(f \o q, x)
<1>1. /\ <<x>> \in Seq(S) /\ f \o q \in Seq(S)
      /\ Append(q, x) = q \o <<x>> /\ Append(f \o q, x) = (f \o q) \o <<x>>
  BY AppendIsConcat, ConcatProperties
<1>2. QED
  BY <1>1, ConcatAssociative

\* Whatever waits before end-of-stream can be taken; when nothing does, the whole
\* is what was fed.
LEMMA BeforeTheEnd ==
  ASSUME NEW queue \in Seq(Queued), Ended(queue)
  PROVE  /\ queue # <<>>
         /\ Head(queue) # Eos => Head(queue) \in Frames /\ Ended(Tail(queue))
         /\ Head(queue) = Eos => queue = Append(<<>>, Eos)
<1>1. PICK rest \in Seq(Frames) : queue = Append(rest, Eos)
  BY DEF Ended
<1>2. rest \in Seq(Queued)
  BY <1>1, QueuedSeq
<1>3. /\ queue # <<>>
      /\ Head(queue) = IF rest = <<>> THEN Eos ELSE Head(rest)
      /\ Tail(queue) = IF rest = <<>> THEN <<>> ELSE Append(Tail(rest), Eos)
  BY <1>1, <1>2, Bounds, AppendProperties, HeadTailAppend
<1>4. rest # <<>> => Head(rest) \in Frames /\ Tail(rest) \in Seq(Frames)
  BY HeadTailProperties
<1>5. QED
  BY <1>1, <1>3, <1>4, Bounds DEF Ended

-----------------------------------------------------------------------------
\* The types.

LEMMA RecordingInitInv == Init => RecordingInv
<1> SUFFICES ASSUME Init PROVE RecordingInv
  OBVIOUS
<1> USE Bounds DEF Init, Stopped, NoChain, NoFile
<1>1. <<>> \in Seq(Frames) /\ <<>> \in Seq(Queued) /\ 0 \in 0..MaxFrames
  OBVIOUS
<1>2. ServiceShape /\ FrameShape
  BY <1>1 DEF ServiceShape, FrameShape
<1>3. ChainShape
  BY <1>1 DEF ChainShape
<1>4. FileShape /\ FedShape /\ SeenShape
  BY <1>1 DEF FileShape, FedShape, SeenShape
<1>5. Flow
  BY DEF Flow
<1>6. Content
  BY DEF Content, PlayableIsComplete
<1>7. Seen
  BY DEF Seen
<1>8. QED
  BY <1>2, <1>3, <1>4, <1>5, <1>6, <1>7 DEF RecordingInv, RecordingShape

LEMMA ShapeStep == RecordingInv /\ Next => RecordingShape'
<1> SUFFICES ASSUME RecordingInv, Next PROVE RecordingShape'
  OBVIOUS
<1>0. /\ ServiceShape /\ FrameShape /\ ChainShape
      /\ FileShape /\ FedShape /\ SeenShape /\ Flow
  BY DEF RecordingInv, RecordingShape
<1> USE <1>0, Bounds DEF service, ondisk, history
<1>1. ServiceShape'
  <2>1. \A p \in Paths : StartRecording(p) => ServiceShape'
    BY DEF StartRecording, ServiceShape
  <2>2. Pause \/ Resume \/ BeginStop => ServiceShape'
    BY DEF Pause, Resume, BeginStop, ServiceShape
  <2>3. Finalized \/ FinalizeTimesOut => ServiceShape'
    BY DEF Finalized, FinalizeTimesOut, StopRecorder, ServiceShape
  <2>4. EndStop => ServiceShape'
    BY DEF EndStop, ThumbnailWritten, NoThumbnail, WriteThrows, BecomeIdle, ServiceShape
  <2>5. BringFrame \/ Encode \/ WriteMoov => ServiceShape'
    BY DEF BringFrame, Encode, WriteMoov, ServiceShape
  <2>6. Push => ServiceShape'
    BY DEF Push, ServiceShape, FrameShape
  <2>7. QED
    BY <2>1, <2>2, <2>3, <2>4, <2>5, <2>6 DEF Next, ControlStep
<1>2. FrameShape'
  <2>1. BringFrame => FrameShape'
    BY DEF BringFrame, FrameShape
  <2>2. Push => FrameShape'
    BY DEF Push, FrameShape
  <2>3. ControlStep \/ Encode \/ WriteMoov => FrameShape'
    BY DEF ControlStep, StartRecording, Pause, Resume, BeginStop, Finalized,
           FinalizeTimesOut, StopRecorder, EndStop, Encode, WriteMoov, FrameShape
  <2>4. QED
    BY <2>1, <2>2, <2>3 DEF Next
<1>3. ChainShape'
  <2>1. ASSUME NEW p \in Paths, StartRecording(p) PROVE ChainShape'
    BY <2>1, EmptySeq DEF StartRecording, LaunchRecorder, NoChain, ChainShape
  <2>2. Pause \/ Resume => ChainShape'
    BY DEF Pause, PauseRecorder, Resume, ChainShape
  <2>3. CASE BeginStop
    <3>1. Append(chain.queue, Eos) \in Seq(Queued)
      BY AppendProperties DEF ChainShape
    <3>2. QED
      BY <2>3, <3>1 DEF BeginStop, ChainShape
  <2>4. CASE Finalized \/ FinalizeTimesOut
    <3>1. recorder' = Stopped /\ chain' = NoChain
      BY <2>4 DEF Finalized, FinalizeTimesOut, StopRecorder, Teardown
    <3>2. Stopped \in [running : BOOLEAN, paused : BOOLEAN]
      BY DEF Stopped
    <3>3. NoChain \in [state : {"none", "playing", "failed"}, queue : Seq(Queued),
                       bus : SUBSET {"eos", "error"}]
      BY EmptySeq DEF NoChain
    <3>4. QED
      BY <3>1, <3>2, <3>3 DEF ChainShape
  <2>5. CASE EndStop \/ BringFrame
    BY <2>5 DEF EndStop, BringFrame, ChainShape
  <2>6. CASE Push
    <3>1. inHand \in Queued
      BY <2>6 DEF Push, FrameShape, Queued, Frames, Eos
    <3>2. Append(chain.queue, inHand) \in Seq(Queued)
      BY <3>1, AppendProperties DEF ChainShape
    <3>3. QED
      BY <2>6, <3>2 DEF Push, Feed, ChainShape
  <2>7. CASE Encode \/ WriteMoov
    <3>1. Tail(chain.queue) \in Seq(Queued)
      BY <2>7, HeadTailProperties DEF Encode, WriteMoov, ChainShape
    <3>2. CASE ChainFails
      BY <2>7, <3>2 DEF Encode, WriteMoov, ChainFails, ChainShape
    <3>3. CASE chain' = [chain EXCEPT !.queue = Tail(@)] \/ Post("eos")
      BY <2>7, <3>1, <3>3 DEF Encode, WriteMoov, Post, ChainShape
    <3>4. QED
      BY <2>7, <3>2, <3>3 DEF Encode, WriteMoov
  <2>8. QED
    BY <2>1, <2>2, <2>3, <2>4, <2>5, <2>6, <2>7 DEF Next, ControlStep
<1>4. FileShape'
  <2>1. ASSUME NEW p \in Paths, StartRecording(p) PROVE FileShape'
    <3>1. NoFile \in [frames : Seq(Frames), moov : BOOLEAN]
      BY EmptySeq DEF NoFile
    <3>2. QED
      BY <2>1, <3>1 DEF StartRecording, LaunchRecorder, FileShape
  <2>2. CASE Encode
    <3>1. path \in Paths /\ Next1 \in Frames
      <4>1. path \in Paths
        BY <2>2 DEF Encode, Flow, Stopped
      <4>2. Next1 \in Queued
        BY <2>2, HeadTailProperties DEF Encode, Next1, ChainShape
      <4>3. QED
        BY <2>2, <4>1, <4>2 DEF Encode, Queued, Frames, Eos
    <3>2. Append(files[path].frames, Next1) \in Seq(Frames)
      BY <3>1, AppendProperties DEF FileShape
    <3>3. [files[path] EXCEPT !.frames = Append(@, Next1)]
            \in [frames : Seq(Frames), moov : BOOLEAN]
      BY <3>1, <3>2 DEF FileShape
    <3>4. \/ files' = [files EXCEPT ![path] = [files[path] EXCEPT !.frames = Append(@, Next1)]]
          \/ files' = files
      BY <2>2 DEF Encode, ChainFails
    <3>5. QED
      BY <3>3, <3>4 DEF FileShape
  <2>3. CASE WriteMoov
    <3>1. path \in Paths
      BY <2>3 DEF WriteMoov, Flow, Stopped
    <3>2. [files[path] EXCEPT !.moov = TRUE] \in [frames : Seq(Frames), moov : BOOLEAN]
      BY <3>1 DEF FileShape
    <3>3. \/ files' = [files EXCEPT ![path] = [files[path] EXCEPT !.moov = TRUE]]
          \/ files' = files
      BY <2>3 DEF WriteMoov, ChainFails
    <3>4. QED
      BY <3>2, <3>3 DEF FileShape
  <2>4. CASE Pause \/ Resume \/ BeginStop \/ Finalized \/ FinalizeTimesOut \/ EndStop
    BY <2>4 DEF Pause, Resume, BeginStop, Finalized, FinalizeTimesOut, StopRecorder,
                EndStop, FileShape
  <2>5. CASE BringFrame \/ Push
    BY <2>5 DEF BringFrame, Push, FileShape
  <2>6. QED
    BY <2>1, <2>2, <2>3, <2>4, <2>5 DEF Next, ControlStep
<1>5. FedShape'
  <2>1. \A p \in Paths : StartRecording(p) => FedShape'
    BY EmptySeq DEF StartRecording, FedShape
  <2>2. CASE Push
    <3>1. path \in Paths => Append(fed[path], inHand) \in Seq(Frames)
      <4>1. inHand \in Frames
        BY <2>2 DEF Push, FrameShape, Frames
      <4>2. QED
        BY <4>1, AppendProperties DEF FedShape
    <3>2. fed' = [fed EXCEPT ![path] = Append(@, inHand)] \/ fed' = fed
      BY <2>2 DEF Push, Feed
    <3>3. QED
      BY <3>1, <3>2 DEF FedShape
  <2>3. CASE Pause \/ Resume \/ BeginStop \/ Finalized \/ FinalizeTimesOut \/ EndStop
    BY <2>3 DEF Pause, Resume, BeginStop, Finalized, FinalizeTimesOut, StopRecorder,
                EndStop, FedShape
  <2>4. CASE BringFrame \/ Encode \/ WriteMoov
    BY <2>4 DEF BringFrame, Encode, WriteMoov, FedShape
  <2>5. QED
    BY <2>1, <2>2, <2>3, <2>4 DEF Next, ControlStep
<1>6. SeenShape'
  <2>1. \A p \in Paths : StartRecording(p) => SeenShape'
    BY DEF StartRecording, SeenShape
  <2>2. CASE Push
    <3>1. inHand \in Frames
      BY <2>2 DEF Push, FrameShape, Frames
    <3>2. QED
      BY <2>2, <3>1 DEF Push, SeenShape
  <2>3. CASE Pause \/ Resume \/ BeginStop \/ Finalized \/ FinalizeTimesOut
    BY <2>3 DEF Pause, Resume, BeginStop, Finalized, FinalizeTimesOut, StopRecorder, SeenShape
  <2>4. CASE EndStop
    BY <2>4 DEF EndStop, ThumbnailWritten, NoThumbnail, WriteThrows, SeenShape, ServiceShape
  <2>5. CASE BringFrame \/ Encode \/ WriteMoov
    BY <2>5 DEF BringFrame, Encode, WriteMoov, SeenShape
  <2>6. QED
    BY <2>1, <2>2, <2>3, <2>4, <2>5 DEF Next, ControlStep
<1>7. QED
  BY <1>1, <1>2, <1>3, <1>4, <1>5, <1>6 DEF RecordingShape

-----------------------------------------------------------------------------
\* The parts of the service.

LEMMA FlowStep == RecordingInv /\ Next => Flow'
<1> SUFFICES ASSUME RecordingInv, Next PROVE Flow'
  OBVIOUS
<1>0. Flow /\ ServiceShape /\ ChainShape
  BY DEF RecordingInv, RecordingShape
<1> USE <1>0 DEF Flow, service, Stopped, NoChain
<1>1. ASSUME NEW p \in Paths, StartRecording(p) PROVE Flow'
  BY <1>1 DEF StartRecording, LaunchRecorder
<1>2. CASE Pause
  BY <1>2 DEF Pause, PauseRecorder, ChainShape
<1>3. CASE Resume
  BY <1>3 DEF Resume, ChainShape
<1>4. CASE BeginStop
  <2>1. chain'.state = chain.state /\ recorder' = recorder /\ UNCHANGED <<state, path, lastFrame>>
    BY <1>4 DEF BeginStop, ChainShape
  <2>2. CASE recorder.running
    <3>1. state # "idle" /\ control' = "finalizing"
      BY <1>4, <2>2 DEF BeginStop
    <3>2. QED
      BY <2>1, <2>2, <3>1
  <2>3. CASE ~recorder.running
    <3>1. state # "idle" /\ control' = "thumbnail" /\ chain' = chain
      BY <1>4, <2>3 DEF BeginStop
    <3>2. QED
      BY <2>1, <2>3, <3>1
  <2>4. QED
    BY <2>2, <2>3
<1>5. CASE Finalized \/ FinalizeTimesOut
  BY <1>5 DEF Finalized, FinalizeTimesOut, StopRecorder, Teardown
<1>6. CASE EndStop
  <2>1. /\ control = "thumbnail" /\ control' = "idle" /\ UNCHANGED <<recorder, chain>>
        /\ ~recorder.running /\ state # "idle"
    BY <1>6 DEF EndStop
  <2>2. CASE ThumbnailWritten \/ NoThumbnail
    <3>1. BecomeIdle /\ ~(path \in Unwritable /\ lastFrame # 0)
      BY <2>2 DEF ThumbnailWritten, NoThumbnail, HasThumbnail
    <3>2. recorder = Stopped
      BY <2>1, <3>1 DEF ChainShape
    <3>3. QED
      BY <2>1, <3>1, <3>2 DEF BecomeIdle
  <2>3. CASE WriteThrows
    BY <2>1, <2>3 DEF WriteThrows, HasThumbnail
  <2>4. QED
    BY <1>6, <2>2, <2>3 DEF EndStop
<1>7. CASE BringFrame
  BY <1>7 DEF BringFrame
<1>8. CASE Push
  BY <1>8 DEF Push, Feed, ChainShape
<1>9. CASE Encode
  BY <1>9 DEF Encode, ChainFails, ChainShape
<1>10. CASE WriteMoov
  BY <1>10 DEF WriteMoov, Post, ChainFails, ChainShape
<1>11. QED
  BY ONLY Next, <1>1, <1>2, <1>3, <1>4, <1>5, <1>6, <1>7, <1>8, <1>9, <1>10
  DEF Next, ControlStep

-----------------------------------------------------------------------------
\* The frames the service has seen.

LEMMA SeenStep == RecordingInv /\ Next => Seen'
<1> SUFFICES ASSUME RecordingInv, Next PROVE Seen'
  OBVIOUS
<1>0. Flow /\ FrameShape /\ SeenShape /\ Seen
  BY DEF RecordingInv, RecordingShape
<1> USE <1>0, Bounds DEF Seen, service, ondisk, history
<1>1. ASSUME NEW p \in Paths, StartRecording(p) PROVE Seen'
  BY <1>1 DEF StartRecording, Flow, SeenShape
<1>2. CASE Pause \/ Resume \/ BeginStop
  BY <1>2 DEF Pause, Resume, BeginStop
<1>3. CASE Finalized \/ FinalizeTimesOut
  BY <1>3 DEF Finalized, FinalizeTimesOut, StopRecorder
<1>4. CASE EndStop
  BY <1>4 DEF EndStop, ThumbnailWritten, NoThumbnail, WriteThrows, BecomeIdle
<1>5. CASE BringFrame
  <2>1. \A p \in Paths : \A f \in seen[p] : f \in Nat /\ f <= brought
    BY DEF SeenShape, Frames
  <2>2. QED
    BY <1>5, <2>1 DEF BringFrame, FrameShape
<1>6. CASE Push
  <2>1. CASE state = "idle"
    BY <1>6, <2>1 DEF Push
  <2>2. CASE state # "idle"
    <3>1. /\ path \in Paths /\ lastFrame' = inHand /\ inHand' = 0 /\ inHand = brought
          /\ seen' = [seen EXCEPT ![path] = @ \cup {inHand}] /\ inHand # 0
          /\ UNCHANGED <<path, brought>>
      BY <1>6, <2>2 DEF Push, Flow
    <3>2. /\ \A p \in Paths : p # path => seen'[p] = seen[p]
          /\ seen'[path] = seen[path] \cup {inHand}
      BY <3>1 DEF SeenShape
    <3>3. \A f \in seen[path] : f \in Nat /\ f < inHand
      BY <3>1 DEF SeenShape, Frames
    <3>4. \A p \in Paths : \A f \in seen'[p] : f <= brought
      BY <3>1, <3>2 DEF FrameShape
    <3>5. inHand \in seen'[path] /\ \A f \in seen'[path] : f <= inHand
      BY <3>2, <3>3 DEF FrameShape
    <3>6. QED
      BY <3>1, <3>4, <3>5
  <2>3. QED
    BY <2>1, <2>2
<1>7. CASE Encode \/ WriteMoov
  BY <1>7 DEF Encode, WriteMoov
<1>8. QED
  BY ONLY Next, <1>1, <1>2, <1>3, <1>4, <1>5, <1>6, <1>7 DEF Next, ControlStep

-----------------------------------------------------------------------------
\* The file, appsrc and what was fed.

LEMMA ContentUnchanged ==
  ASSUME Content, UNCHANGED <<files, fed, chain, path, control, recorder>>
  PROVE  Content'
  BY DEF Content, PlayableIsComplete, Continues, Closing, Closed

\* The recording under way, with its types.
LEMMA ContentFacts ==
  ASSUME RecordingInv, recorder.running
  PROVE  /\ path \in Paths /\ state # "idle"
         /\ chain.state \in {"playing", "failed"}
         /\ files[path].frames \in Seq(Frames) /\ fed[path] \in Seq(Frames)
         /\ files[path].frames \in Seq(Queued) /\ fed[path] \in Seq(Queued)
         /\ chain.queue \in Seq(Queued)
<1>1. path \in Paths /\ state # "idle"
  BY DEF RecordingInv, Flow, Stopped
<1>2. files[path].frames \in Seq(Frames) /\ fed[path] \in Seq(Frames)
  BY <1>1 DEF RecordingInv, RecordingShape, FileShape, FedShape
<1>3. chain.queue \in Seq(Queued) /\ chain.state \in {"playing", "failed"}
  BY DEF RecordingInv, RecordingShape, ChainShape, Flow
<1>4. QED
  BY <1>1, <1>2, <1>3, QueuedSeq

LEMMA PushKeepsContent ==
  ASSUME RecordingInv, Push
  PROVE  Content'
<1>0. Content /\ Flow
  BY DEF RecordingInv
<1>1. CASE UNCHANGED <<chain, fed>>
  BY <1>0, <1>1, ContentUnchanged DEF Push, ondisk
<1>2. CASE ~UNCHANGED <<chain, fed>>
  <2> DEFINE q == chain.queue
  <2>1. /\ recorder.running /\ control = "idle" /\ inHand # 0
        /\ UNCHANGED <<files, path, control, recorder>>
        /\ chain' = [chain EXCEPT !.queue = Append(@, inHand)]
        /\ fed' = [fed EXCEPT ![path] = Append(@, inHand)]
    BY <1>2 DEF Push, Feed, ondisk
  <2>2. inHand \in Frames
    BY <2>1 DEF RecordingInv, RecordingShape, FrameShape, Frames
  <2>3. /\ chain'.state = chain.state /\ chain'.bus = chain.bus
        /\ chain'.queue = Append(q, inHand)
    BY <2>1 DEF RecordingInv, RecordingShape, ChainShape
  <2>4. /\ path \in Paths /\ fed'[path] = Append(fed[path], inHand)
        /\ \A p \in Paths : p # path => fed'[p] = fed[p]
    BY <2>1, ContentFacts DEF RecordingInv, RecordingShape, FedShape
  <2>5. ~files[path].moov
    BY <1>0, <2>1, ContentFacts DEF Content
  <2>6. PlayableIsComplete'
    BY <1>0, <2>1, <2>4, <2>5 DEF Content, PlayableIsComplete
  <2>7. CASE chain.state = "failed"
    BY <1>0, <2>1, <2>3, <2>5, <2>6, <2>7 DEF Content
  <2>8. CASE chain.state = "playing"
    <3>1. chain.bus = {} /\ Continues
      BY <1>0, <2>1, <2>8 DEF Content
    <3>2. Append(q, inHand) \in Seq(Frames)
      BY <2>2, <3>1, AppendProperties DEF Continues
    <3>3. files[path].frames \o Append(q, inHand) = Append(fed[path], inHand)
      <4> DEFINE f == files[path].frames
      <4>1. f \in Seq(Frames) /\ q \in Seq(Frames)
        BY <2>1, <3>1, ContentFacts DEF Continues
      <4>2. f \o Append(q, inHand) = Append(f \o q, inHand)
        <5> HIDE DEF f, q
        <5>1. QED
          BY <2>2, <4>1, AppendToQueue
      <4>3. QED
        BY <3>1, <4>2 DEF Continues
    <3>4. Continues'
      BY <2>1, <2>3, <2>4, <3>2, <3>3 DEF Continues
    <3>5. QED
      BY <2>1, <2>3, <2>5, <2>6, <2>8, <3>1, <3>4 DEF Content
  <2>9. QED
    BY <2>1, <2>7, <2>8, ContentFacts
<1>3. QED
  BY <1>1, <1>2

LEMMA BeginStopKeepsContent ==
  ASSUME RecordingInv, BeginStop
  PROVE  Content'
<1>0. Content
  BY DEF RecordingInv
<1>1. control = "idle" /\ UNCHANGED <<files, fed, path, recorder>>
  BY DEF BeginStop, service, ondisk
<1>2. PlayableIsComplete'
  BY <1>0, <1>1 DEF Content, PlayableIsComplete
<1>3. CASE ~recorder.running
  BY <1>1, <1>2, <1>3 DEF Content
<1>4. CASE recorder.running
  <2>1. /\ control' = "finalizing" /\ chain'.queue = Append(chain.queue, Eos)
        /\ chain'.state = chain.state /\ chain'.bus = chain.bus
    BY <1>4 DEF BeginStop, RecordingInv, RecordingShape, ChainShape
  <2>2. CASE chain.state = "failed"
    BY <1>0, <1>1, <1>2, <1>4, <2>1, <2>2 DEF Content
  <2>3. CASE chain.state = "playing"
    <3>1. chain.bus = {} /\ ~files[path].moov /\ Continues
      BY <1>0, <1>1, <1>4, <2>3 DEF Content
    <3>2. files[path].frames \o Append(chain.queue, Eos) = Append(fed[path], Eos)
      <4> DEFINE f == files[path].frames
                 q == chain.queue
      <4>1. f \in Seq(Queued) /\ q \in Seq(Queued)
        BY <1>4, <3>1, ContentFacts
      <4>2. f \o Append(q, Eos) = Append(f \o q, Eos)
        <5> HIDE DEF f, q
        <5>1. QED
          BY <4>1, Bounds, AppendToQueue
      <4>3. QED
        BY <3>1, <4>2 DEF Continues
    <3>3. Closing'
      BY <1>1, <2>1, <3>1, <3>2 DEF Closing, Ended, Continues
    <3>4. QED
      BY <1>1, <1>2, <1>4, <2>1, <2>3, <3>1, <3>3 DEF Content
  <2>4. QED
    BY <1>4, <2>2, <2>3, ContentFacts
<1>5. QED
  BY <1>3, <1>4

\* A chain with something to encode belongs to a recording whose file has no
\* moov atom yet.
LEMMA ChainAtWork ==
  ASSUME RecordingInv, chain.state = "playing", chain.queue # <<>>
  PROVE  /\ recorder.running /\ chain.bus = {} /\ ~files[path].moov
         /\ (control = "idle" /\ Continues) \/ (control = "finalizing" /\ Closing)
<1>1. recorder.running
  BY DEF RecordingInv, Flow
<1>2. Content /\ ~Closed
  BY DEF RecordingInv, Closed
<1>3. QED
  BY <1>1, <1>2 DEF Content

LEMMA ChainFailsKeepsContent ==
  ASSUME RecordingInv, chain.state = "playing", chain.queue # <<>>, ChainFails,
         UNCHANGED <<path, recorder, control, fed>>
  PROVE  Content'
<1>1. chain'.state = "failed" /\ files' = files
  BY DEF ChainFails, RecordingInv, RecordingShape, ChainShape
<1>2. PlayableIsComplete'
  BY <1>1 DEF RecordingInv, Content, PlayableIsComplete
<1>3. QED
  BY <1>1, <1>2, ChainAtWork DEF Content

LEMMA EncodeKeepsContent ==
  ASSUME RecordingInv, Encode
  PROVE  Content'
<1> DEFINE f == files[path].frames
           q == chain.queue
<1>1. /\ chain.state = "playing" /\ q # <<>> /\ Head(q) # Eos
      /\ UNCHANGED <<path, recorder, control, fed>>
  BY DEF Encode, Next1, service, history
<1>2. /\ recorder.running /\ chain.bus = {} /\ ~files[path].moov
      /\ (control = "idle" /\ Continues) \/ (control = "finalizing" /\ Closing)
  BY <1>1, ChainAtWork
<1>3. CASE ChainFails
  BY <1>1, <1>3, ChainFailsKeepsContent
<1>4. CASE ~ChainFails
  <2>1. /\ files' = [files EXCEPT ![path] = [files[path] EXCEPT !.frames = Append(@, Head(q))]]
        /\ chain' = [chain EXCEPT !.queue = Tail(@)]
    BY <1>4 DEF Encode, Next1
  <2>2. path \in Paths /\ f \in Seq(Frames) /\ f \in Seq(Queued) /\ q \in Seq(Queued)
    BY <1>2, ContentFacts
  <2>3. /\ chain'.state = "playing" /\ chain'.bus = {} /\ chain'.queue = Tail(q)
        /\ files'[path].frames = Append(f, Head(q)) /\ ~files'[path].moov
        /\ \A p \in Paths : p # path => files'[p] = files[p]
    BY <1>1, <1>2, <2>1, <2>2 DEF RecordingInv, RecordingShape, ChainShape, FileShape
  <2>4. PlayableIsComplete'
    BY <1>1, <2>3 DEF RecordingInv, Content, PlayableIsComplete
  <2>5. CASE control = "idle" /\ Continues
    <3>1. q \in Seq(Frames) /\ Tail(q) \in Seq(Frames)
      BY <1>1, <2>5, HeadTailProperties DEF Continues
    <3>2. Append(f, Head(q)) \o Tail(q) = f \o q
      <4> HIDE DEF f, q
      <4>1. QED
        BY <1>1, <2>2, <3>1, HeadMovesOver
    <3>3. Continues'
      BY <1>1, <2>3, <2>5, <3>1, <3>2 DEF Continues
    <3>4. QED
      BY <1>1, <2>3, <2>4, <2>5, <3>3 DEF Content
  <2>6. CASE control = "finalizing" /\ Closing
    <3>1. Ended(Tail(q))
      BY <1>1, <2>2, <2>6, BeforeTheEnd DEF Closing
    <3>2. Append(f, Head(q)) \o Tail(q) = f \o q
      <4> HIDE DEF f, q
      <4>1. QED
        BY <1>1, <2>2, HeadMovesOver
    <3>3. Closing'
      BY <1>1, <2>3, <2>6, <3>1, <3>2 DEF Closing, Ended
    <3>4. QED
      BY <1>1, <2>3, <2>4, <2>6, <3>3 DEF Content
  <2>7. QED
    BY <1>2, <2>5, <2>6
<1>5. QED
  BY <1>3, <1>4

\* The moov atom is written when end-of-stream is all that is left of the queue,
\* and then the file is what was fed.
LEMMA WriteMoovKeepsContent ==
  ASSUME RecordingInv, WriteMoov
  PROVE  Content'
<1> DEFINE f == files[path].frames
           q == chain.queue
<1>1. /\ chain.state = "playing" /\ q # <<>> /\ Head(q) = Eos
      /\ UNCHANGED <<path, recorder, control, fed>>
  BY DEF WriteMoov, Next1, service, history
<1>2. /\ recorder.running /\ chain.bus = {}
      /\ (control = "idle" /\ Continues) \/ (control = "finalizing" /\ Closing)
  BY <1>1, ChainAtWork
<1>3. CASE ChainFails
  BY <1>1, <1>3, ChainFailsKeepsContent
<1>4. CASE ~ChainFails
  <2>1. /\ files' = [files EXCEPT ![path] = [files[path] EXCEPT !.moov = TRUE]]
        /\ chain' = [chain EXCEPT !.queue = Tail(@), !.bus = @ \cup {"eos"}]
    BY <1>4 DEF WriteMoov, Post
  <2>2. path \in Paths /\ f \in Seq(Queued) /\ fed[path] \in Seq(Queued) /\ q \in Seq(Queued)
    BY <1>2, ContentFacts
  <2>3. ~Continues
    BY <1>1, Bounds, HeadTailProperties DEF Continues
  <2>4. q = Append(<<>>, Eos)
    BY <1>1, <1>2, <2>2, <2>3, BeforeTheEnd DEF Closing
  <2>5. f \o Append(<<>>, Eos) = Append(f, Eos)
    <3> HIDE DEF f, q
    <3>1. <<>> \in Seq(Queued) /\ f \o <<>> = f
      BY <2>2, EmptySeq, ConcatEmptySeq
    <3>2. QED
      BY <2>2, <3>1, Bounds, AppendToQueue
  <2>6. f = fed[path]
    <3>1. Append(f, Eos) = Append(fed[path], Eos)
      BY <1>2, <2>3, <2>4, <2>5 DEF Closing
    <3> DEFINE g == fed[path]
    <3>2. f \in Seq(Queued) /\ g \in Seq(Queued) /\ Append(f, Eos) = Append(g, Eos)
      BY <2>2, <3>1
    <3> HIDE DEF f, g
    <3>3. f = g
      BY <3>2, Bounds, AppendInjective
    <3>4. QED
      BY <3>3 DEF g
  <2>7. Tail(q) = <<>>
    BY <2>4, EmptySeq, HeadTailAppend
  <2>8. /\ chain'.state = "playing" /\ chain'.bus = {"eos"} /\ chain'.queue = Tail(q)
        /\ files'[path].frames = f
        /\ \A p \in Paths : p # path => files'[p] = files[p]
    BY <1>1, <1>2, <2>1, <2>2 DEF RecordingInv, RecordingShape, ChainShape, FileShape
  <2>9. PlayableIsComplete'
    BY <1>1, <2>2, <2>6, <2>8 DEF RecordingInv, Content, PlayableIsComplete
  <2>10. QED
    BY <1>1, <1>2, <2>3, <2>7, <2>8, <2>9 DEF Content, Closed
<1>5. QED
  BY <1>3, <1>4

\* A new recording begins with an empty file and nothing fed.
LEMMA StartKeepsContent ==
  ASSUME RecordingInv, NEW p \in Paths, StartRecording(p)
  PROVE  Content'
<1>1. /\ path' = p /\ chain' = [NoChain EXCEPT !.state = "playing"] /\ control' = "idle"
      /\ files' = [files EXCEPT ![p] = NoFile] /\ fed' = [fed EXCEPT ![p] = <<>>]
  BY DEF StartRecording, LaunchRecorder
<1>2. /\ files'[p] = NoFile /\ fed'[p] = <<>>
      /\ \A other \in Paths : other # p => files'[other] = files[other] /\ fed'[other] = fed[other]
  BY <1>1 DEF RecordingInv, RecordingShape, FileShape, FedShape
<1>3. chain'.state = "playing" /\ chain'.queue = <<>> /\ chain'.bus = {}
  BY <1>1 DEF NoChain
<1>4. PlayableIsComplete'
  BY <1>2 DEF NoFile, RecordingInv, Content, PlayableIsComplete
<1>5. Continues'
  <2>1. <<>> \in Seq(Frames) /\ <<>> \o <<>> = <<>>
    BY EmptySeq, ConcatEmptySeq
  <2>2. files'[path'].frames = <<>> /\ fed'[path'] = <<>>
    BY <1>1, <1>2 DEF NoFile
  <2>3. files'[path'].frames \o chain'.queue = fed'[path']
    BY <1>3, <2>1, <2>2
  <2>4. QED
    BY <1>3, <2>1, <2>3 DEF Continues
<1>6. QED
  BY <1>1, <1>2, <1>3, <1>4, <1>5 DEF Content, NoFile

LEMMA ContentStep == RecordingInv /\ Next => Content'
<1> SUFFICES ASSUME RecordingInv, Next PROVE Content'
  OBVIOUS
<1>0. Content /\ Flow
  BY DEF RecordingInv
<1>1. CASE Pause \/ Resume
  <2>1. recorder'.running = recorder.running /\ UNCHANGED <<files, fed, chain, path, control>>
    BY <1>1 DEF Pause, PauseRecorder, Resume, ondisk, history, RecordingInv, RecordingShape,
                ChainShape
  <2>2. QED
    BY <1>0, <2>1 DEF Content, PlayableIsComplete, Continues, Closing, Closed
<1>2. CASE Finalized \/ FinalizeTimesOut
  <2>1. ~recorder'.running /\ UNCHANGED <<files, fed>>
    BY <1>2 DEF Finalized, FinalizeTimesOut, StopRecorder, Teardown, Stopped, ondisk
  <2>2. QED
    BY <1>0, <2>1 DEF Content, PlayableIsComplete
<1>3. CASE EndStop
  <2>1. ~recorder.running /\ UNCHANGED <<files, fed, recorder>>
    BY <1>0, <1>3 DEF EndStop, Flow, history
  <2>2. QED
    BY <1>0, <2>1 DEF Content, PlayableIsComplete
<1>4. CASE BringFrame
  BY <1>0, <1>4, ContentUnchanged DEF BringFrame, service, ondisk, history
<1>5. QED
  BY <1>1, <1>2, <1>3, <1>4, StartKeepsContent, BeginStopKeepsContent, PushKeepsContent,
     EncodeKeepsContent, WriteMoovKeepsContent
  DEF Next, ControlStep

-----------------------------------------------------------------------------
\* The theorems.

LEMMA RecordingStepInv == RecordingInv /\ [Next]_vars => RecordingInv'
<1> SUFFICES ASSUME RecordingInv, [Next]_vars PROVE RecordingInv'
  OBVIOUS
<1>1. CASE Next
  BY <1>1, ShapeStep, FlowStep, ContentStep, SeenStep DEF RecordingInv
<1>2. CASE UNCHANGED vars
  <2>1. /\ UNCHANGED <<state, path, lastFrame, recorder, chain, files, thumbs, control>>
        /\ UNCHANGED <<inHand, brought, starts, fed, seen, result>>
    BY <1>2 DEF vars, service, ondisk, history
  <2>2. RecordingShape'
    BY <2>1 DEF RecordingInv, RecordingShape, ServiceShape, FrameShape, ChainShape,
                FileShape, FedShape, SeenShape
  <2>3. Flow' /\ Seen'
    BY <2>1 DEF RecordingInv, Flow, Seen
  <2>4. Content'
    BY <2>1, ContentUnchanged DEF RecordingInv
  <2>5. QED
    BY <2>2, <2>3, <2>4 DEF RecordingInv
<1>3. QED
  BY <1>1, <1>2

\* The service, the chain, the files and the frames seen fit together in every
\* state (RecordingService over GstContinuousRecorder).
THEOREM RecordingInvariant == Spec => []RecordingInv
<1>1. QED
  BY RecordingInitInv, RecordingStepInv, PTL DEF Spec

\* While the chain works, the file followed by appsrc's queue is what Push fed to
\* this recording, across any number of pauses (GstContinuousRecorder::Push).
THEOREM ChainLosesNothing == Spec => []NothingLost
<1>1. RecordingInv => NothingLost
  <2> SUFFICES ASSUME RecordingInv, chain.state = "playing",
                      Eos \notin Range(chain.queue), chain.bus = {}
               PROVE  files[path].frames \o chain.queue = fed[path]
    BY DEF NothingLost
  <2>1. recorder.running /\ ~Closed
    BY DEF RecordingInv, Flow, Closed
  <2>2. ~Closing
    <3> SUFFICES ASSUME NEW rest \in Seq(Frames), chain.queue = Append(rest, Eos)
                 PROVE  Eos \in Range(chain.queue)
      BY DEF Closing, Ended
    <3>1. rest \in Seq(Queued)
      BY QueuedSeq
    <3>2. /\ Len(Append(rest, Eos)) = Len(rest) + 1 /\ Len(rest) \in Nat
          /\ Append(rest, Eos)[Len(rest) + 1] = Eos /\ Append(rest, Eos) \in Seq(Queued)
      BY <3>1, Bounds, AppendProperties, LenProperties
    <3>3. DOMAIN Append(rest, Eos) = 1..(Len(rest) + 1)
      BY <3>2, LenProperties
    <3>4. Len(rest) + 1 \in DOMAIN Append(rest, Eos)
      BY <3>2, <3>3
    <3>5. QED
      BY <3>2, <3>4 DEF Range
  <2>3. QED
    BY <2>1, <2>2 DEF RecordingInv, Content, Continues
<1>2. QED
  BY <1>1, RecordingInvariant, PTL

\* A file that got its moov atom holds every frame fed to its recording, whatever
\* the disk, the encoder and the timeout of Stop did (GstContinuousRecorder::Stop).
THEOREM PlayableFilesAreComplete == Spec => []PlayableIsComplete
<1>1. RecordingInv => PlayableIsComplete
  BY DEF RecordingInv, Content
<1>2. QED
  BY <1>1, RecordingInvariant, PTL

\* An idle service holds no frame, no path and no chain (RecordingService::Stop).
THEOREM IdleServiceHoldsNothing == Spec => []IdleHoldsNothing
<1>1. RecordingInv => IdleHoldsNothing
  BY DEF RecordingInv, Flow, IdleHoldsNothing, Stopped
<1>2. QED
  BY <1>1, RecordingInvariant, PTL

\* A thumbnail that is written shows the last frame that reached the service in
\* the recording that has just ended (RecordingService::Stop).
THEOREM ThumbnailIsOfItsRecording == Spec => ThumbnailOfRecording
<1>1. RecordingInv /\ [Next]_vars =>
        [\A p \in Paths : thumbs'[p] # thumbs[p] =>
           p = path /\ thumbs'[p] \in seen[p] /\ \A f \in seen[p] : f <= thumbs'[p]]_vars
  <2> SUFFICES ASSUME RecordingInv, [Next]_vars,
                      NEW p \in Paths, thumbs'[p] # thumbs[p]
               PROVE  p = path /\ thumbs'[p] \in seen[p] /\ \A f \in seen[p] : f <= thumbs'[p]
    OBVIOUS
  <2>1. ~UNCHANGED thumbs
    OBVIOUS
  <2>2. EndStop
    BY <2>1 DEF Next, ControlStep, StartRecording, Pause, Resume, BeginStop, Finalized,
                FinalizeTimesOut, StopRecorder, BringFrame, Push, Encode, WriteMoov, vars, ondisk
  <2>3. lastFrame # 0 /\ thumbs' = [thumbs EXCEPT ![path] = lastFrame]
    BY <2>1, <2>2 DEF EndStop, ThumbnailWritten, NoThumbnail, WriteThrows, HasThumbnail
  <2>4. p = path /\ thumbs'[p] = lastFrame
    BY <2>3 DEF RecordingInv, RecordingShape, SeenShape
  <2>5. QED
    BY <2>3, <2>4 DEF RecordingInv, Seen
<1>2. QED
  BY <1>1, RecordingInvariant, PTL DEF Spec, ThumbnailOfRecording
=============================================================================

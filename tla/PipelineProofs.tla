--------------------------- MODULE PipelineProofs ---------------------------
(***************************************************************************)
(* What the pipeline promises of its cameras, its threads and the order of *)
(* its frames, proved for any number of cameras, frames and bad samples.   *)
(*                                                                         *)
(* The newest frame offered to the raw sink, forked, stands between the    *)
(* two halves of the way of a frame: nothing behind it is newer            *)
(* (Downstream), nothing ahead of it is older (Upstream).                  *)
(*                                                                         *)
(* Then the clock and the banners of the overlay, and at the end what main *)
(* promises of its threads.                                                *)
(***************************************************************************)
EXTENDS Pipeline, MatchOverlay, Integers, Sequences, TLAPS

\* The type invariant, with its frames told apart.
Typed ==
  /\ on \in [Cameras -> BOOLEAN] /\ broken \in [Cameras -> BOOLEAN]
  /\ made \in [Cameras -> Frames] /\ sample \in [Cameras -> Frames]
  /\ last \in [Cameras -> Frames] /\ slot \in [Cameras -> Frames]
  /\ forked \in [Cameras -> Frames]
  /\ bad \in [Cameras -> 0..MaxBad]
  /\ running \in BOOLEAN
  /\ producer \in [Cameras -> [at : {"none", "loop", "captured", "processed", "forked",
                                     "exited"}, frame : Frames]]
  /\ consumer \in [at : {"none", "loop", "popped", "sampled", "final", "retained",
                         "exited"}, frame : Frames]
  /\ closed \in [Cameras -> BOOLEAN]
  /\ main \in [at : {"off", "starting", "rollback", "failed", "up", "closing", "joining",
                     "halting", "down"}, camera : 0..N]
  /\ snapshot \in Frames /\ sunk \in Frames

FlawTypes ==
  DOMAIN flaw = Cameras /\ \A c \in Cameras : flaw[c] \in [1..MaxFrames[c] -> Flaws(c)]

\* Which threads there are, and which cameras may be up, at each step of main.
ThreadsFollowMain ==
  /\ running <=> Main("up")
  /\ main.at \in {"off", "starting", "rollback", "failed"} =>
       consumer.at = "none" /\ \A c \in Cameras : ProducerAt(c, "none")
  /\ main.at \in {"halting", "down"} =>
       consumer.at = "exited" /\ \A c \in Cameras : ProducerAt(c, "exited")

CamerasFollowMain ==
  /\ main.at \in {"off", "failed", "down"} => \A c \in Cameras : ~on[c]
  /\ main.at \in {"starting", "rollback"} => \A c \in Cameras : on[c] => c < main.camera
  /\ Main("halting") => \A c \in Cameras : on[c] => c >= main.camera

\* An adapter that is down holds no frame.
DownHoldsNothing == \A c \in Cameras : ~on[c] => sample[c] = 0 /\ last[c] = 0

Busy(c) == producer[c].at \in {"captured", "processed", "forked"}

\* From the raw sink back to the sensor frames get newer.
Upstream ==
  \A c \in Cameras :
    /\ forked[c] <= made[c] /\ last[c] <= made[c] /\ sample[c] <= made[c]
    /\ sample[c] # 0 => forked[c] <= sample[c] /\ last[c] <= sample[c]
    /\ last[c] # 0 => forked[c] <= last[c]
    /\ Busy(c) => /\ forked[c] <= producer[c].frame
                  /\ producer[c].frame <= made[c]
                  /\ last[c] # 0 => producer[c].frame <= last[c]
                  /\ sample[c] # 0 => producer[c].frame <= sample[c]
    /\ ProducerAt(c, "forked") => producer[c].frame = forked[c]

\* From the raw sink on to the sinks they get older.
Downstream ==
  /\ \A c \in Cameras : slot[c] <= forked[c]
  /\ consumer.frame <= forked[Cam0] /\ snapshot <= forked[Cam0] /\ sunk <= snapshot
  /\ slot[Cam0] # 0 => consumer.frame <= slot[Cam0] /\ snapshot <= slot[Cam0]
  /\ consumer.frame # 0 => snapshot <= consumer.frame
  /\ consumer.at \in {"sampled", "final"} => consumer.frame # 0
  /\ consumer.at = "retained" => consumer.frame = snapshot

PipelineInv == Typed /\ ThreadsFollowMain /\ CamerasFollowMain
               /\ DownHoldsNothing /\ Upstream /\ Downstream

-----------------------------------------------------------------------------
LEMMA Numbers ==
  /\ Cam0 \in Cameras /\ N \in Nat /\ \A c \in Cameras : c \in Nat /\ c < N
  /\ Frames \subseteq Nat /\ 0 \in Frames
  /\ \A c \in Cameras : /\ MaxFrames[c] \in Nat
                        /\ \A n \in Nat : n <= MaxFrames[c] => n \in Frames
<1>1. Cam0 \in Cameras /\ N \in Nat /\ \A c \in Cameras : c \in Nat /\ c < N
  BY PipelineAssumption DEF Cam0, Cameras
<1>2. MaxFrames \in [Cameras -> Nat]
  BY PipelineAssumption
<1>3. Frames \subseteq Nat /\ \A c \in Cameras : \A n \in Nat : n <= MaxFrames[c] => n \in Frames
  BY <1>2 DEF Frames
<1>4. QED
  BY <1>1, <1>2, <1>3

\* The camera main is at.
LEMMA MainCamera ==
  ASSUME Typed
  PROVE  /\ main.camera \in 0..N /\ 0 \in 0..N
         /\ main.camera < N => main.camera \in Cameras /\ main.camera + 1 \in 0..N
         /\ main.camera > 0 => main.camera - 1 \in Cameras /\ main.camera - 1 \in 0..N
<1>1. main.camera \in 0..N /\ N \in Nat
  BY Numbers DEF Typed
<1>2. QED
  BY <1>1 DEF Cameras

\* An adapter that is stopped is down and holds nothing; the others stay.
LEMMA StoppedAdapter ==
  ASSUME Typed, NEW c \in Cameras, AdapterStops(c)
  PROVE  /\ on' \in [Cameras -> BOOLEAN] /\ broken' \in [Cameras -> BOOLEAN]
         /\ sample' \in [Cameras -> Frames] /\ last' \in [Cameras -> Frames]
         /\ UNCHANGED <<made, bad>>
         /\ ~on'[c] /\ sample'[c] = 0 /\ last'[c] = 0
         /\ \A d \in Cameras \ {c} : /\ on'[d] = on[d] /\ sample'[d] = sample[d]
                                     /\ last'[d] = last[d]
  BY Numbers DEF Typed, AdapterStops

LEMMA PipelineInitInv == Init => PipelineInv
<1> SUFFICES ASSUME Init PROVE PipelineInv
  OBVIOUS
<1> USE Numbers DEF Init
<1>1. Typed
  <2>1. 0 \in 0..MaxBad /\ 0 \in 0..N
    BY PipelineAssumption
  <2>2. QED
    BY <2>1 DEF Typed, At
<1>2. ThreadsFollowMain /\ CamerasFollowMain /\ DownHoldsNothing
  BY DEF ThreadsFollowMain, CamerasFollowMain, DownHoldsNothing, Main, ProducerAt, At
<1>3. Upstream
  BY DEF Upstream, ProducerAt, Busy, At
<1>4. Downstream
  BY DEF Downstream, At
<1>5. QED
  BY <1>1, <1>2, <1>3, <1>4 DEF PipelineInv

\* What the steps need of the types when they compare frames.
LEMMA Values ==
  ASSUME Typed
  PROVE  /\ made \in [Cameras -> Nat] /\ sample \in [Cameras -> Nat]
         /\ last \in [Cameras -> Nat] /\ slot \in [Cameras -> Nat]
         /\ forked \in [Cameras -> Nat]
         /\ DOMAIN producer = Cameras /\ \A c \in Cameras : producer[c].frame \in Nat
         /\ consumer.frame \in Nat /\ snapshot \in Nat /\ sunk \in Nat
         /\ Cam0 \in Cameras
  BY Numbers DEF Typed

\* A sensor that may make a frame makes one the bound allows.
LEMMA NextFrame ==
  ASSUME Typed, NEW c \in Cameras, made[c] < MaxFrames[c]
  PROVE  made[c] \in Nat /\ made[c] + 1 \in Frames
<1>1. made[c] \in Nat /\ MaxFrames[c] \in Nat
  BY Numbers DEF Typed
<1>2. made[c] + 1 \in Nat /\ made[c] + 1 <= MaxFrames[c]
  BY <1>1
<1>3. QED
  BY <1>1, <1>2, Numbers

LEMMA SensorsKeepInv ==
  ASSUME PipelineInv, NEW c \in Cameras, Expose(c) \/ Break(c)
  PROVE  PipelineInv'
<1> USE Numbers DEF PipelineInv, Typed
<1>1. CASE Expose(c)
  <2> USE <1>1 DEF Expose, outputs
  <2>0. made[c] \in Nat /\ made[c] + 1 \in Frames
    BY NextFrame
  <2>1. Typed'
    <3>1. made' \in [Cameras -> Frames] /\ sample' \in [Cameras -> Frames]
      BY <2>0
    <3>2. QED
      BY <3>1
  <2>2. ThreadsFollowMain'
    BY DEF ThreadsFollowMain, Main, ProducerAt
  <2>3. CamerasFollowMain' /\ DownHoldsNothing'
    BY DEF CamerasFollowMain, DownHoldsNothing, Main
  <2>4. Upstream'
    <3>1. /\ made'[c] = made[c] + 1 /\ sample'[c] = made[c] + 1
          /\ \A d \in Cameras \ {c} : made'[d] = made[d] /\ sample'[d] = sample[d]
      OBVIOUS
    <3>2. /\ \A d \in Cameras : forked[d] \in Nat /\ last[d] \in Nat /\ producer[d].frame \in Nat
          /\ \A d \in Cameras : made[d] \in Nat
      OBVIOUS
    <3>3. QED
      BY <3>1, <3>2 DEF Upstream, Busy, ProducerAt
  <2>5. Downstream'
    BY DEF Downstream
  <2>6. QED
    BY <2>1, <2>2, <2>3, <2>4, <2>5
<1>2. CASE Break(c)
  BY <1>2 DEF Break, outputs, ThreadsFollowMain, CamerasFollowMain, DownHoldsNothing, Upstream,
     Downstream, Main, ProducerAt, Busy
<1>3. QED
  BY <1>1, <1>2

LEMMA ProducerKeepsInv ==
  ASSUME PipelineInv, NEW c \in Cameras, ProducerStep(c)
  PROVE  PipelineInv'
<1> USE DEF PipelineInv, At, ProducerAt, Main, outputs, adapters
<1>1. CASE CaptureNew(c)
  <2> USE <1>1 DEF CaptureNew, Captures, Pull, Obtains, ProducerGoes
  <2>1. Typed'
    BY Numbers DEF Typed
  <2>2. ThreadsFollowMain'
    BY DEF ThreadsFollowMain
  <2>3. CamerasFollowMain' /\ DownHoldsNothing'
    BY Numbers DEF CamerasFollowMain, DownHoldsNothing, Typed
  <2>4. Upstream'
    BY Values DEF Upstream, Busy
  <2>5. Downstream'
    BY Values DEF Downstream
  <2>6. QED
    BY <2>1, <2>2, <2>3, <2>4, <2>5
<1>2. CASE CaptureLast(c)
  <2> USE <1>2 DEF CaptureLast, Captures, PullUnmapped, Obtains, ProducerGoes
  <2>1. Typed'
    <3>1. bad[c] < MaxBad => bad[c] + 1 \in 0..MaxBad
      BY PipelineAssumption DEF Typed
    <3>2. bad' \in [Cameras -> 0..MaxBad] /\ sample' \in [Cameras -> Frames]
      <4>1. CASE sample[c] = 0
        BY <4>1 DEF Typed
      <4>2. CASE sample[c] # 0
        <5>1. /\ bad[c] < MaxBad
              /\ bad' = [bad EXCEPT ![c] = bad[c] + 1]
              /\ sample' = [sample EXCEPT ![c] = 0]
          BY <4>2
        <5>2. bad' \in [Cameras -> 0..MaxBad]
          BY <3>1, <5>1 DEF Typed
        <5>3. sample' \in [Cameras -> Frames]
          BY <5>1, Numbers DEF Typed
        <5>4. QED
          BY <5>2, <5>3
      <4>3. QED
        BY <4>1, <4>2
    <3>3. last[c] \in Frames /\ producer' \in [Cameras -> [at : {"none", "loop", "captured",
            "processed", "forked", "exited"}, frame : Frames]]
      BY Numbers DEF Typed
    <3>4. UNCHANGED <<on, broken, made, last>>
      OBVIOUS
    <3>5. QED
      BY <3>2, <3>3, <3>4 DEF Typed
  <2>2. ThreadsFollowMain'
    BY DEF ThreadsFollowMain
  <2>3. CamerasFollowMain' /\ DownHoldsNothing'
    BY Numbers DEF CamerasFollowMain, DownHoldsNothing, Typed
  <2>4. Upstream'
    BY Values DEF Upstream, Busy
  <2>5. Downstream'
    BY Values DEF Downstream
  <2>6. QED
    BY <2>1, <2>2, <2>3, <2>4, <2>5
<1>3. CASE CaptureError(c)
  <2> USE <1>3 DEF CaptureError, Captures, AdapterStops
  <2>1. Typed'
    BY Numbers DEF Typed
  <2>2. ThreadsFollowMain'
    BY DEF ThreadsFollowMain
  <2>3. CamerasFollowMain' /\ DownHoldsNothing'
    BY Numbers DEF CamerasFollowMain, DownHoldsNothing, Typed
  <2>4. Upstream'
    BY Values DEF Upstream, Busy
  <2>5. Downstream'
    BY Values DEF Downstream
  <2>6. QED
    BY <2>1, <2>2, <2>3, <2>4, <2>5
<1>4. CASE Preprocess(c)
  <2> USE <1>4 DEF Preprocess, ProducerGoes
  <2>1. Typed'
    BY Numbers DEF Typed
  <2>2. ThreadsFollowMain'
    BY DEF ThreadsFollowMain
  <2>3. CamerasFollowMain' /\ DownHoldsNothing'
    BY Numbers DEF CamerasFollowMain, DownHoldsNothing, Typed
  <2>4. Upstream'
    BY Values DEF Upstream, Busy
  <2>5. Downstream'
    BY Values DEF Downstream
  <2>6. QED
    BY <2>1, <2>2, <2>3, <2>4, <2>5
<1>5. CASE PreprocessFails(c)
  <2> USE <1>5 DEF PreprocessFails, ProducerGoes
  <2>1. Typed'
    BY Numbers DEF Typed
  <2>2. ThreadsFollowMain'
    BY DEF ThreadsFollowMain
  <2>3. CamerasFollowMain' /\ DownHoldsNothing'
    BY Numbers DEF CamerasFollowMain, DownHoldsNothing, Typed
  <2>4. Upstream'
    BY Values DEF Upstream, Busy
  <2>5. Downstream'
    BY Values DEF Downstream
  <2>6. QED
    BY <2>1, <2>2, <2>3, <2>4, <2>5
<1>6. CASE Fork(c)
  <2> USE <1>6 DEF Fork, ProducerGoes
  <2>1. Typed'
    BY Numbers DEF Typed
  <2>2. ThreadsFollowMain'
    BY DEF ThreadsFollowMain
  <2>3. CamerasFollowMain' /\ DownHoldsNothing'
    BY Numbers DEF CamerasFollowMain, DownHoldsNothing, Typed
  <2>4. Upstream'
    BY Values DEF Upstream, Busy
  <2>5. Downstream'
    BY Values DEF Downstream
  <2>6. QED
    BY <2>1, <2>2, <2>3, <2>4, <2>5
<1>7. CASE PushSlot(c)
  <2> USE <1>7 DEF PushSlot, ProducerGoes
  <2>1. Typed'
    BY Numbers DEF Typed
  <2>2. ThreadsFollowMain'
    BY DEF ThreadsFollowMain
  <2>3. CamerasFollowMain' /\ DownHoldsNothing'
    BY Numbers DEF CamerasFollowMain, DownHoldsNothing, Typed
  <2>4. Upstream'
    BY Values DEF Upstream, Busy
  <2>5. Downstream'
    BY Values DEF Downstream, Upstream
  <2>6. QED
    BY <2>1, <2>2, <2>3, <2>4, <2>5
<1>8. CASE ProducerExits(c)
  <2> USE <1>8 DEF ProducerExits, ProducerGoes
  <2>1. Typed'
    BY Numbers DEF Typed
  <2>2. ThreadsFollowMain'
    BY DEF ThreadsFollowMain
  <2>3. CamerasFollowMain' /\ DownHoldsNothing'
    BY Numbers DEF CamerasFollowMain, DownHoldsNothing, Typed
  <2>4. Upstream'
    BY Values DEF Upstream, Busy
  <2>5. Downstream'
    BY Values DEF Downstream
  <2>6. QED
    BY <2>1, <2>2, <2>3, <2>4, <2>5
<1>9. QED
  BY <1>1, <1>2, <1>3, <1>4, <1>5, <1>6, <1>7, <1>8 DEF ProducerStep

LEMMA ConsumerKeepsInv ==
  ASSUME PipelineInv, ConsumerStep
  PROVE  PipelineInv'
<1> USE DEF PipelineInv, At, ProducerAt, Main, outputs, adapters
<1>1. CASE PopCadence
  <2> USE <1>1 DEF PopCadence
  <2>1. Typed'
    BY Numbers DEF Typed
  <2>2. ThreadsFollowMain'
    BY DEF ThreadsFollowMain
  <2>3. CamerasFollowMain' /\ DownHoldsNothing'
    BY Numbers DEF CamerasFollowMain, DownHoldsNothing, Typed
  <2>4. Upstream'
    BY Values DEF Upstream, Busy
  <2>5. Downstream'
    BY Values DEF Downstream
  <2>6. QED
    BY <2>1, <2>2, <2>3, <2>4, <2>5
<1>2. CASE SampleOthers
  <2> USE <1>2 DEF SampleOthers
  <2>1. Typed'
    BY Numbers DEF Typed
  <2>2. ThreadsFollowMain'
    BY DEF ThreadsFollowMain
  <2>3. CamerasFollowMain' /\ DownHoldsNothing'
    BY Numbers DEF CamerasFollowMain, DownHoldsNothing, Typed
  <2>4. Upstream'
    BY Values DEF Upstream, Busy
  <2>5. Downstream'
    BY Values DEF Downstream
  <2>6. QED
    BY <2>1, <2>2, <2>3, <2>4, <2>5
<1>3. CASE Postprocess
  <2> USE <1>3 DEF Postprocess
  <2>1. Typed'
    BY Numbers DEF Typed
  <2>2. ThreadsFollowMain'
    BY DEF ThreadsFollowMain
  <2>3. CamerasFollowMain' /\ DownHoldsNothing'
    BY Numbers DEF CamerasFollowMain, DownHoldsNothing, Typed
  <2>4. Upstream'
    BY Values DEF Upstream, Busy
  <2>5. Downstream'
    BY Values DEF Downstream
  <2>6. QED
    BY <2>1, <2>2, <2>3, <2>4, <2>5
<1>4. CASE PostprocessFails
  <2> USE <1>4 DEF PostprocessFails
  <2>1. Typed'
    BY Numbers DEF Typed
  <2>2. ThreadsFollowMain'
    BY DEF ThreadsFollowMain
  <2>3. CamerasFollowMain' /\ DownHoldsNothing'
    BY Numbers DEF CamerasFollowMain, DownHoldsNothing, Typed
  <2>4. Upstream'
    BY Values DEF Upstream, Busy
  <2>5. Downstream'
    BY Values DEF Downstream
  <2>6. QED
    BY <2>1, <2>2, <2>3, <2>4, <2>5
<1>5. CASE Retain
  <2> USE <1>5 DEF Retain
  <2>1. Typed'
    BY Numbers DEF Typed
  <2>2. ThreadsFollowMain'
    BY DEF ThreadsFollowMain
  <2>3. CamerasFollowMain' /\ DownHoldsNothing'
    BY Numbers DEF CamerasFollowMain, DownHoldsNothing, Typed
  <2>4. Upstream'
    BY Values DEF Upstream, Busy
  <2>5. Downstream'
    BY Values DEF Downstream
  <2>6. QED
    BY <2>1, <2>2, <2>3, <2>4, <2>5
<1>6. CASE PushSinks
  <2> USE <1>6 DEF PushSinks
  <2>1. Typed'
    BY Numbers DEF Typed
  <2>2. ThreadsFollowMain'
    BY DEF ThreadsFollowMain
  <2>3. CamerasFollowMain' /\ DownHoldsNothing'
    BY Numbers DEF CamerasFollowMain, DownHoldsNothing, Typed
  <2>4. Upstream'
    BY Values DEF Upstream, Busy
  <2>5. Downstream'
    BY Values DEF Downstream
  <2>6. QED
    BY <2>1, <2>2, <2>3, <2>4, <2>5
<1>7. CASE ConsumerExits
  <2> USE <1>7 DEF ConsumerExits
  <2>1. Typed'
    BY Numbers DEF Typed
  <2>2. ThreadsFollowMain'
    BY DEF ThreadsFollowMain
  <2>3. CamerasFollowMain' /\ DownHoldsNothing'
    BY Numbers DEF CamerasFollowMain, DownHoldsNothing, Typed
  <2>4. Upstream'
    BY Values DEF Upstream, Busy
  <2>5. Downstream'
    BY Values DEF Downstream
  <2>6. QED
    BY <2>1, <2>2, <2>3, <2>4, <2>5
<1>8. QED
  BY <1>1, <1>2, <1>3, <1>4, <1>5, <1>6, <1>7 DEF ConsumerStep

LEMMA MainKeepsInv ==
  ASSUME PipelineInv, MainStep
  PROVE  PipelineInv'
<1> USE DEF PipelineInv, At, ProducerAt, Main, outputs, adapters
<1>1. CASE Start
  <2> USE <1>1 DEF Start, MainGoes
  <2>1. Typed'
    BY Numbers DEF Typed
  <2>2. ThreadsFollowMain'
    BY DEF ThreadsFollowMain
  <2>3. CamerasFollowMain' /\ DownHoldsNothing'
    BY Numbers DEF CamerasFollowMain, DownHoldsNothing, Typed
  <2>4. Upstream'
    BY Values DEF Upstream, Busy
  <2>5. Downstream'
    BY Values DEF Downstream
  <2>6. QED
    BY <2>1, <2>2, <2>3, <2>4, <2>5
<1>2. CASE StartCamera
  <2> USE <1>2 DEF StartCamera, MainGoes, AdapterStarts
  <2> DEFINE c == main.camera
  <2>0. c \in Cameras /\ (made[c] < MaxFrames[c] => made[c] \in Nat /\ made[c] + 1 \in Frames)
    BY MainCamera, NextFrame
  <2>1. Typed'
    <3>1. main' \in [at : {"off", "starting", "rollback", "failed", "up", "closing", "joining",
                           "halting", "down"}, camera : 0..N]
      BY <2>0, MainCamera
    <3>2. made' \in [Cameras -> Frames] /\ last' \in [Cameras -> Frames]
      <4>1. CASE UNCHANGED <<made, last>>
        BY <2>0, <4>1 DEF Typed
      <4>2. CASE ~UNCHANGED <<made, last>>
        <5>1. /\ made' = [made EXCEPT ![c] = made[c] + 1]
              /\ last' = [last EXCEPT ![c] = made[c] + 1]
              /\ made[c] + 1 \in Frames
          BY <2>0, <4>2
        <5>2. QED
          BY <2>0, <5>1 DEF Typed
      <4>3. QED
        BY <4>1, <4>2
    <3>3. on' \in [Cameras -> BOOLEAN]
      BY <2>0 DEF Typed
    <3>4. QED
      BY <3>1, <3>2, <3>3 DEF Typed
  <2>2. ThreadsFollowMain'
    BY DEF ThreadsFollowMain
  <2>3. CamerasFollowMain' /\ DownHoldsNothing'
    BY Numbers DEF CamerasFollowMain, DownHoldsNothing, Typed
  <2>4. Upstream'
    <3>1. sample[c] = 0 /\ last[c] = 0 /\ \A d \in Cameras : ~Busy(d) /\ ~ProducerAt(d, "forked")
      BY <2>0, MainCamera DEF ThreadsFollowMain, CamerasFollowMain, DownHoldsNothing, Busy
    <3>2. /\ last'[c] \in {last[c], made'[c]} /\ made'[c] \in {made[c], made[c] + 1}
          /\ \A d \in Cameras \ {c} : made'[d] = made[d] /\ last'[d] = last[d]
      BY <2>0, Values
    <3>3. QED
      BY <2>0, <3>1, <3>2, Values DEF Upstream, Busy
  <2>5. Downstream'
    BY Values DEF Downstream
  <2>6. QED
    BY <2>1, <2>2, <2>3, <2>4, <2>5
<1>3. CASE StartCameraFails
  <2> USE <1>3 DEF StartCameraFails, MainGoes
  <2>1. Typed'
    BY Numbers DEF Typed
  <2>2. ThreadsFollowMain'
    BY DEF ThreadsFollowMain
  <2>3. CamerasFollowMain' /\ DownHoldsNothing'
    BY Numbers DEF CamerasFollowMain, DownHoldsNothing, Typed
  <2>4. Upstream'
    BY Values DEF Upstream, Busy
  <2>5. Downstream'
    BY Values DEF Downstream
  <2>6. QED
    BY <2>1, <2>2, <2>3, <2>4, <2>5
<1>4. CASE RollBack
  <2> USE <1>4 DEF RollBack, MainGoes, AdapterStops
  <2>1. Typed'
    <3>1. main' \in [at : {"off", "starting", "rollback", "failed", "up", "closing", "joining",
                           "halting", "down"}, camera : 0..N]
      BY MainCamera
    <3>2. /\ on' \in [Cameras -> BOOLEAN] /\ broken' \in [Cameras -> BOOLEAN]
          /\ sample' \in [Cameras -> Frames] /\ last' \in [Cameras -> Frames]
          /\ UNCHANGED <<made, bad>>
      <4>1. CASE main.camera > 0
        <5>1. main.camera - 1 \in Cameras /\ AdapterStops(main.camera - 1)
          BY <4>1, MainCamera
        <5>2. QED
          BY <5>1, StoppedAdapter
      <4>2. CASE ~(main.camera > 0)
        BY <4>2 DEF Typed
      <4>3. QED
        BY <4>1, <4>2
    <3>3. QED
      BY <3>1, <3>2 DEF Typed
  <2>2. ThreadsFollowMain'
    BY DEF ThreadsFollowMain
  <2>3. CamerasFollowMain' /\ DownHoldsNothing'
    <3>1. CASE main.camera > 0
      <4>1. main.camera - 1 \in Cameras /\ AdapterStops(main.camera - 1)
        BY <3>1, MainCamera
      <4>2. DownHoldsNothing'
        BY <4>1, StoppedAdapter DEF DownHoldsNothing
      <4>3. CamerasFollowMain'
        <5>1. ~on'[main.camera - 1] /\ \A d \in Cameras \ {main.camera - 1} : on'[d] = on[d]
          BY <4>1, StoppedAdapter
        <5>2. main'.at = "rollback" /\ main'.camera = main.camera - 1
          BY <3>1
        <5>3. main.camera \in Nat /\ \A d \in Cameras : d \in Nat
          BY MainCamera, Numbers
        <5>4. QED
          BY <3>1, <5>1, <5>2, <5>3 DEF CamerasFollowMain
      <4>4. QED
        BY <4>2, <4>3
    <3>2. CASE ~(main.camera > 0)
      BY <3>2, MainCamera, Numbers DEF CamerasFollowMain, DownHoldsNothing
    <3>3. QED
      BY <3>1, <3>2
  <2>4. Upstream'
    BY Values DEF Upstream, Busy
  <2>5. Downstream'
    BY Values DEF Downstream
  <2>6. QED
    BY <2>1, <2>2, <2>3, <2>4, <2>5
<1>5. CASE SpawnThreads
  <2> USE <1>5 DEF SpawnThreads, MainGoes
  <2>1. Typed'
    BY Numbers DEF Typed
  <2>2. ThreadsFollowMain'
    BY DEF ThreadsFollowMain
  <2>3. CamerasFollowMain' /\ DownHoldsNothing'
    BY Numbers DEF CamerasFollowMain, DownHoldsNothing, Typed
  <2>4. Upstream'
    BY Values DEF Upstream, Busy
  <2>5. Downstream'
    BY Values DEF Downstream
  <2>6. QED
    BY <2>1, <2>2, <2>3, <2>4, <2>5
<1>6. CASE Stop
  <2> USE <1>6 DEF Stop, MainGoes
  <2>1. Typed'
    BY Numbers, MainCamera DEF Typed
  <2>2. ThreadsFollowMain'
    BY DEF ThreadsFollowMain
  <2>3. CamerasFollowMain' /\ DownHoldsNothing'
    BY Numbers DEF CamerasFollowMain, DownHoldsNothing, Typed
  <2>4. Upstream'
    BY Values DEF Upstream, Busy
  <2>5. Downstream'
    BY Values DEF Downstream
  <2>6. QED
    BY <2>1, <2>2, <2>3, <2>4, <2>5
<1>7. CASE CloseSlot
  <2> USE <1>7 DEF CloseSlot, MainGoes
  <2>1. Typed'
    <3>1. main' \in [at : {"off", "starting", "rollback", "failed", "up", "closing", "joining",
                           "halting", "down"}, camera : 0..N]
      BY MainCamera
    <3>2. closed' \in [Cameras -> BOOLEAN]
      BY MainCamera DEF Typed
    <3>3. QED
      BY <3>1, <3>2 DEF Typed
  <2>2. ThreadsFollowMain'
    BY DEF ThreadsFollowMain
  <2>3. CamerasFollowMain' /\ DownHoldsNothing'
    BY Numbers DEF CamerasFollowMain, DownHoldsNothing, Typed
  <2>4. Upstream'
    BY Values DEF Upstream, Busy
  <2>5. Downstream'
    BY Values DEF Downstream
  <2>6. QED
    BY <2>1, <2>2, <2>3, <2>4, <2>5
<1>8. CASE JoinThreads
  <2> USE <1>8 DEF JoinThreads, MainGoes
  <2>1. Typed'
    BY Numbers DEF Typed
  <2>2. ThreadsFollowMain'
    BY DEF ThreadsFollowMain
  <2>3. CamerasFollowMain' /\ DownHoldsNothing'
    BY Numbers DEF CamerasFollowMain, DownHoldsNothing, Typed
  <2>4. Upstream'
    BY Values DEF Upstream, Busy
  <2>5. Downstream'
    BY Values DEF Downstream
  <2>6. QED
    BY <2>1, <2>2, <2>3, <2>4, <2>5
<1>9. CASE HaltCamera
  <2> USE <1>9 DEF HaltCamera, MainGoes, AdapterStops
  <2>1. Typed'
    <3>1. main' \in [at : {"off", "starting", "rollback", "failed", "up", "closing", "joining",
                           "halting", "down"}, camera : 0..N]
      BY MainCamera
    <3>2. /\ on' \in [Cameras -> BOOLEAN] /\ broken' \in [Cameras -> BOOLEAN]
          /\ sample' \in [Cameras -> Frames] /\ last' \in [Cameras -> Frames]
          /\ UNCHANGED <<made, bad>>
      <4>1. CASE main.camera < N
        <5>1. main.camera \in Cameras /\ AdapterStops(main.camera)
          BY <4>1, MainCamera
        <5>2. QED
          BY <5>1, StoppedAdapter
      <4>2. CASE ~(main.camera < N)
        BY <4>2 DEF Typed
      <4>3. QED
        BY <4>1, <4>2
    <3>3. QED
      BY <3>1, <3>2 DEF Typed
  <2>2. ThreadsFollowMain'
    BY DEF ThreadsFollowMain
  <2>3. CamerasFollowMain' /\ DownHoldsNothing'
    <3>1. CASE main.camera < N
      <4>1. main.camera \in Cameras /\ AdapterStops(main.camera)
        BY <3>1, MainCamera
      <4>2. DownHoldsNothing'
        BY <4>1, StoppedAdapter DEF DownHoldsNothing
      <4>3. CamerasFollowMain'
        <5>1. ~on'[main.camera] /\ \A d \in Cameras \ {main.camera} : on'[d] = on[d]
          BY <4>1, StoppedAdapter
        <5>2. main'.at = "halting" /\ main'.camera = main.camera + 1
          BY <3>1
        <5>3. main.camera \in Nat /\ \A d \in Cameras : d \in Nat
          BY MainCamera, Numbers
        <5>4. QED
          BY <3>1, <5>1, <5>2, <5>3 DEF CamerasFollowMain
      <4>4. QED
        BY <4>2, <4>3
    <3>2. CASE ~(main.camera < N)
      BY <3>2, MainCamera, Numbers DEF CamerasFollowMain, DownHoldsNothing
    <3>3. QED
      BY <3>1, <3>2
  <2>4. Upstream'
    BY Values DEF Upstream, Busy
  <2>5. Downstream'
    BY Values DEF Downstream
  <2>6. QED
    BY <2>1, <2>2, <2>3, <2>4, <2>5
<1>10. QED
  BY <1>1, <1>2, <1>3, <1>4, <1>5, <1>6, <1>7, <1>8, <1>9 DEF MainStep

LEMMA PipelineStepInv == PipelineInv /\ [Next]_vars => PipelineInv'
<1> SUFFICES ASSUME PipelineInv, [Next]_vars
             PROVE  PipelineInv'
  OBVIOUS
<1>1. CASE UNCHANGED vars
  BY <1>1 DEF vars, PipelineInv, Typed, ThreadsFollowMain, CamerasFollowMain, DownHoldsNothing,
     Upstream, Downstream, Main, ProducerAt, Busy
<1>2. QED
  BY <1>1, SensorsKeepInv, ProducerKeepsInv, ConsumerKeepsInv, MainKeepsInv DEF Next

\* Threads, cameras, slots and frames fit together (pipeline-orchestrator.cpp).
THEOREM PipelineInvariant == Spec => []PipelineInv
  BY PipelineInitInv, PipelineStepInv, PTL DEF Spec

\* What is wrong with a frame does not change.
LEMMA FlawsStay == [Next]_vars => UNCHANGED flaw
<1> SUFFICES ASSUME Next PROVE UNCHANGED flaw
  BY DEF vars
<1>1. ASSUME NEW c \in Cameras, Expose(c) \/ Break(c) PROVE UNCHANGED flaw
  BY <1>1 DEF Expose, Break
<1>2. ASSUME NEW c \in Cameras, ProducerStep(c) PROVE UNCHANGED flaw
  BY <1>2 DEF ProducerStep, CaptureNew, CaptureLast, CaptureError, Preprocess,
     PreprocessFails, Fork, PushSlot, ProducerExits, Pull, PullUnmapped, AdapterStops, adapters
<1>3. ASSUME ConsumerStep PROVE UNCHANGED flaw
  BY <1>3 DEF ConsumerStep, PopCadence, SampleOthers, Postprocess, PostprocessFails,
     Retain, PushSinks, ConsumerExits, adapters
<1>4. ASSUME MainStep PROVE UNCHANGED flaw
  BY <1>4 DEF MainStep, Start, StartCamera, StartCameraFails, RollBack, SpawnThreads, Stop,
     CloseSlot, JoinThreads, HaltCamera, AdapterStarts, AdapterStops, adapters
<1>5. QED
  BY <1>1, <1>2, <1>3, <1>4 DEF Next

\* The type invariant.
THEOREM PipelineTypeCorrect == Spec => []PipelineTypeOK
<1>1. PipelineInv /\ FlawTypes => PipelineTypeOK
  BY DEF PipelineInv, Typed, FlawTypes, PipelineTypeOK
<1>2. Init => FlawTypes
  BY DEF Init, FlawTypes
<1>3. FlawTypes /\ [Next]_vars => FlawTypes'
  BY FlawsStay DEF FlawTypes
<1>4. QED
  BY <1>1, <1>2, <1>3, PipelineInvariant, PTL DEF Spec

\* Whatever was started is stopped, and only when no thread can touch it.
THEOREM PipelineStopsCleanly == Spec => []StopsCleanly
<1>1. PipelineInv => StopsCleanly
  BY DEF PipelineInv, ThreadsFollowMain, CamerasFollowMain, StopsCleanly, Main, ProducerAt
<1>2. QED
  BY <1>1, PipelineInvariant, PTL

\* A frame is offered to the raw sink before anybody else sees it (ProducerLoop).
THEOREM RawSinkSeesFirst == Spec => []RawSeesFirst
<1>1. PipelineInv => RawSeesFirst
  BY Values DEF PipelineInv, Downstream, RawSeesFirst
<1>2. QED
  BY <1>1, PipelineInvariant, PTL

\* Recording, streams and snapshots only go forward (ConsumerLoop), although
\* adapters repeat frames and slots drop them.
THEOREM SinksNeverGoBack == Spec => NeverBackInTime
<1>1. PipelineInv /\ [Next]_vars => [sunk' >= sunk /\ snapshot' >= snapshot]_vars
  <2> SUFFICES ASSUME PipelineInv, Next
               PROVE  sunk' >= sunk /\ snapshot' >= snapshot
    OBVIOUS
  <2>0. sunk \in Nat /\ snapshot \in Nat /\ consumer.frame \in Nat
    BY Values DEF PipelineInv
  <2>1. CASE Retain
    BY <2>0, <2>1 DEF Retain, PipelineInv, Downstream
  <2>2. CASE PushSinks
    BY <2>0, <2>2 DEF PushSinks, PipelineInv, Downstream
  <2>3. CASE UNCHANGED <<snapshot, sunk>>
    BY <2>0, <2>3
  <2>4. CASE ConsumerStep
    BY <2>1, <2>2, <2>3, <2>4 DEF ConsumerStep, PopCadence, SampleOthers, Postprocess,
       PostprocessFails, ConsumerExits, outputs
  <2>5. CASE MainStep
    BY <2>3, <2>5 DEF MainStep, Start, StartCamera, StartCameraFails, RollBack, SpawnThreads,
       Stop, CloseSlot, JoinThreads, HaltCamera, outputs
  <2>6. ASSUME NEW c \in Cameras, Expose(c) \/ Break(c) \/ ProducerStep(c)
        PROVE  UNCHANGED <<snapshot, sunk>>
    BY <2>6 DEF Expose, Break, ProducerStep, CaptureNew, CaptureLast, CaptureError, Preprocess,
       PreprocessFails, Fork, PushSlot, ProducerExits, outputs
  <2>7. QED
    BY <2>3, <2>4, <2>5, <2>6 DEF Next
<1>2. QED
  BY <1>1, PipelineInvariant, PTL DEF Spec, NeverBackInTime

-----------------------------------------------------------------------------
\* MatchOverlay, for any number of commands, clock ticks, fonts and durations: a
\* thread between two steps of a command holds a time that is past.

\* Expiry times and the times threads hold are times of the clock, and no thread
\* holds one that is still to come.
ThreadsReadThePast ==
  /\ now \in Nat /\ commands \in Nat /\ banners \subseteq Nat
  /\ DOMAIN thread = Threads
  /\ \A t \in Threads : thread[t].now \in Nat /\ thread[t].now <= now

LEMMA GotoKeepsThePast ==
  ASSUME ThreadsReadThePast, UNCHANGED now, NEW t \in Threads, NEW place, Goto(t, place)
  PROVE  DOMAIN thread' = Threads /\ \A u \in Threads : thread'[u].now \in Nat /\ thread'[u].now <= now'
  BY DEF ThreadsReadThePast, Goto, Idle

LEMMA OverlayStepInv == ThreadsReadThePast /\ [OverlayNext]_overlayVars => ThreadsReadThePast'
<1> SUFFICES ASSUME ThreadsReadThePast, [OverlayNext]_overlayVars
             PROVE  ThreadsReadThePast'
  OBVIOUS
<1>0. {"events", "clock"} = Threads
  BY DEF Threads
<1> USE DEF ThreadsReadThePast, sessionState, scene, view
<1>1. CASE PushConfig \/ EndSession \/ GetMatchState
  <2>1. commands \in Nat => commands + 1 \in Nat
    OBVIOUS
  <2>2. /\ commands' = commands + 1
        /\ UNCHANGED <<now, banners, thread>>
    BY <1>1 DEF PushConfig, EndSession, GetMatchState, Command
  <2>3. QED
    BY <2>1, <2>2
<1>2. ASSUME NEW l \in Fonts, PushOverlayLayout(l)
      PROVE  ThreadsReadThePast'
  BY <1>0, <1>2, GotoKeepsThePast DEF PushOverlayLayout, Command, SetLayout
<1>3. ASSUME NEW delta \in Deltas, ScoreUpdate(delta)
      PROVE  ThreadsReadThePast'
  BY <1>0, <1>3, GotoKeepsThePast DEF ScoreUpdate, Command
<1>4. CASE MatchControl
  BY <1>0, <1>4, GotoKeepsThePast DEF MatchControl, Command
<1>5. ASSUME NEW duration \in Durations, BannerEvent(duration)
      PROVE  ThreadsReadThePast'
  BY <1>0, <1>5, OverlayAssumption DEF BannerEvent, Command, Idle
<1>6. CASE TickClock
  BY <1>0, <1>6, GotoKeepsThePast DEF TickClock
<1>7. ASSUME NEW t \in Threads, Sync(t)
      PROVE  ThreadsReadThePast'
  <2>1. CASE TakeSnapshot(t)
    BY <2>1 DEF TakeSnapshot, Idle
  <2>2. CASE SetBindingData(t)
    BY <2>2, GotoKeepsThePast DEF SetBindingData
  <2>3. CASE Refresh(t)
    BY <2>3, GotoKeepsThePast DEF Refresh, Active
  <2>4. QED
    BY <1>7, <2>1, <2>2, <2>3 DEF Sync
<1>8. CASE TimePasses
  BY <1>8 DEF TimePasses
<1>9. CASE UNCHANGED overlayVars
  BY <1>9 DEF overlayVars
<1>10. QED
  BY <1>1, <1>2, <1>3, <1>4, <1>5, <1>6, <1>7, <1>8, <1>9 DEF OverlayNext, HandleCommand

\* No refresh uses a time later than the clock's, whichever thread it runs on and
\* however long ago it read the time (OverlayController::Refresh).
THEOREM ThreadsAreNeverAhead == OverlaySpec => []ThreadsReadThePast
<1>1. OverlayInit => ThreadsReadThePast
  BY DEF OverlayInit, ThreadsReadThePast, Idle
<1>2. QED
  BY <1>1, OverlayStepInv, PTL DEF OverlaySpec

\* A banner stays until its time is over, whichever thread refreshes and
\* whatever time it read, except that a new layout takes all banners away
\* (OverlayScene::SetLayout, ExpireBanners).
THEOREM BannersLastTheirTime == OverlaySpec => BannerLastsItsTime
<1>1. ThreadsReadThePast /\ [OverlayNext]_overlayVars
        => [\A b \in banners \ banners' : b <= now \/ (banners' = {} /\ commands' > commands)]_overlayVars
  <2> SUFFICES ASSUME ThreadsReadThePast, OverlayNext,
                      NEW b \in banners \ banners'
               PROVE  b <= now \/ (banners' = {} /\ commands' > commands)
    BY DEF overlayVars
  <2> USE DEF sessionState, scene, view
  <2>1. CASE UNCHANGED banners
    BY <2>1
  <2>2. ASSUME NEW l \in Fonts, PushOverlayLayout(l)
        PROVE  banners' = {} /\ commands' > commands
    BY <2>2 DEF PushOverlayLayout, SetLayout, Command, ThreadsReadThePast
  <2>3. ASSUME NEW duration \in Durations, BannerEvent(duration)
        PROVE  banners \subseteq banners'
    BY <2>3 DEF BannerEvent
  <2>4. ASSUME NEW t \in Threads, Refresh(t)
        PROVE  b <= now
    BY <2>4 DEF Refresh, Active, ThreadsReadThePast
  <2>5. QED
    BY <2>1, <2>2, <2>3, <2>4 DEF OverlayNext, HandleCommand, PushConfig, EndSession, MatchControl,
       GetMatchState, ScoreUpdate, TickClock, Sync, TakeSnapshot, SetBindingData, TimePasses
<1>2. QED
  BY <1>1, ThreadsAreNeverAhead, PTL DEF OverlaySpec, BannerLastsItsTime

-----------------------------------------------------------------------------
\* main, which starts the pipeline and stops it (ProcessLife), for any set of
\* signals.  The inductive invariant says which threads run at each step of main:
\* the two properties say less, and could not be carried from step to step.
CONSTANT Signals
VARIABLES mainStep, threads, blocking, pending, raised, session, process

Life == INSTANCE ProcessLife WITH main <- mainStep

\* Which threads run at each step of main.
PartsFollowMain ==
  /\ mainStep \in {"config", "pipeline"} => threads = {}
  /\ mainStep \in {"ble", "abort", "stopPipeline"} => threads = {"pipeline"}
  /\ mainStep = "http" => threads = {"pipeline", "ble"}
  /\ mainStep = "clock" => /\ {"pipeline", "ble"} \subseteq threads
                           /\ "clock" \notin threads
  /\ mainStep \in {"mask", "masked", "wait", "joinClock"} => {"pipeline", "ble"} \subseteq threads
  /\ mainStep = "stopHttp" => {"pipeline", "ble"} \subseteq threads /\ "clock" \notin threads
  /\ mainStep = "stopBle" => threads = {"pipeline", "ble"}
  /\ mainStep = "return" => threads = {}

\* Only the event loop records.
RecorderNeedsBle == session = "recording" => "ble" \in threads

LifeInv == Life!LifeTypeOK /\ PartsFollowMain /\ RecorderNeedsBle

LEMMA LifeInitInv == Life!Init => LifeInv
  BY DEF Life!Init, LifeInv, Life!LifeTypeOK, PartsFollowMain, RecorderNeedsBle, Life!Parts

LEMMA StartUpKeepsInv ==
  ASSUME LifeInv, Life!StartUp
  PROVE  LifeInv'
<1> USE DEF LifeInv, Life!LifeTypeOK, PartsFollowMain, RecorderNeedsBle, Life!Parts, Life!At,
            Life!Spawn, Life!Join, Life!Stay
<1>0. CASE Life!LoadConfig
  BY <1>0 DEF Life!LoadConfig
<1>1. CASE Life!StartPipeline
  BY <1>1 DEF Life!StartPipeline
<1>2. CASE Life!StartBle
  BY <1>2 DEF Life!StartBle
<1>3. CASE Life!Abort
  BY <1>3 DEF Life!Abort
<1>4. CASE Life!StartHttp
  BY <1>4 DEF Life!StartHttp
<1>5. CASE Life!StartClock
  BY <1>5 DEF Life!StartClock
<1>6. CASE Life!BlockSignals
  BY <1>6 DEF Life!BlockSignals
<1>7. QED
  BY <1>0, <1>1, <1>2, <1>3, <1>4, <1>5, <1>6 DEF Life!StartUp

LEMMA ShutDownKeepsInv ==
  ASSUME LifeInv, Life!ShutDown
  PROVE  LifeInv'
<1> USE DEF LifeInv, Life!LifeTypeOK, PartsFollowMain, RecorderNeedsBle, Life!Parts, Life!At,
            Life!Join
<1>1. CASE Life!CallSigwait
  BY <1>1 DEF Life!CallSigwait
<1>2. CASE Life!SigWait
  BY <1>2 DEF Life!SigWait
<1>3. CASE Life!JoinClock
  BY <1>3 DEF Life!JoinClock
<1>4. CASE Life!StopHttp
  BY <1>4 DEF Life!StopHttp
<1>5. CASE Life!StopBle
  BY <1>5 DEF Life!StopBle
<1>6. CASE Life!StopPipeline
  BY <1>6 DEF Life!StopPipeline
<1>7. CASE Life!Return
  BY <1>7 DEF Life!Return
<1>8. QED
  BY <1>1, <1>2, <1>3, <1>4, <1>5, <1>6, <1>7 DEF Life!ShutDown

\* A signal changes what is pending, or ends the process.
LEMMA RaiseKeepsInv ==
  ASSUME LifeInv, NEW s \in Signals, NEW targets, Life!Raise(s, targets)
  PROVE  LifeInv'
  BY DEF Life!Raise, LifeInv, Life!LifeTypeOK, PartsFollowMain, RecorderNeedsBle

LEMMA LifeStepInv == LifeInv /\ [Life!Next]_(Life!vars) => LifeInv'
<1> SUFFICES ASSUME LifeInv, [Life!Next]_(Life!vars)
             PROVE  LifeInv'
  OBVIOUS
<1>1. CASE Life!BeginRecording
  BY <1>1 DEF Life!BeginRecording, LifeInv, Life!LifeTypeOK, PartsFollowMain, RecorderNeedsBle
<1>2. CASE Life!EndRecording
  BY <1>2 DEF Life!EndRecording, LifeInv, Life!LifeTypeOK, PartsFollowMain, RecorderNeedsBle
<1>3. ASSUME NEW s \in Signals, Life!RaiseInMain(s) \/ Life!RaiseInProcess(s)
      PROVE  LifeInv'
  BY <1>3, RaiseKeepsInv DEF Life!RaiseInMain, Life!RaiseInProcess
<1>4. CASE UNCHANGED Life!vars
  BY <1>4 DEF Life!vars, LifeInv, Life!LifeTypeOK, PartsFollowMain, RecorderNeedsBle
<1>5. QED
  BY <1>1, <1>2, <1>3, <1>4, StartUpKeepsInv, ShutDownKeepsInv DEF Life!Next

\* Parts and threads follow main (main.cpp), whatever signals arrive.
THEOREM LifeInvariant == Life!Spec => []LifeInv
  BY LifeInitInv, LifeStepInv, PTL DEF Life!Spec

-----------------------------------------------------------------------------
\* Commands find the pipeline they record from, and the clock and the downloads
\* a transport that still runs, at every moment of start and stop (main.cpp).
THEOREM ProcessStopsInOrder == Life!Spec => []Life!StopsInOrder
<1>1. LifeInv => Life!StopsInOrder
  BY DEF LifeInv, Life!LifeTypeOK, PartsFollowMain, Life!StopsInOrder, Life!Parts
<1>2. QED
  BY <1>1, LifeInvariant, PTL

\* When main returns it has joined every thread and no recording is open, also
\* when the start was given up half way or the signals could not be blocked.
THEOREM ProcessReturnsClean == Life!Spec => []Life!ReturnIsClean
<1>1. LifeInv => Life!ReturnIsClean
  BY DEF LifeInv, Life!LifeTypeOK, PartsFollowMain, RecorderNeedsBle, Life!ReturnIsClean
<1>2. QED
  BY <1>1, LifeInvariant, PTL
=============================================================================

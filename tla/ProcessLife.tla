----------------------------- MODULE ProcessLife -----------------------------
(***************************************************************************)
(* The life of the process: main (main.cpp) reads the configuration,       *)
(* starts the pipeline, the BLE transport, the download server and the     *)
(* clock thread, blocks SIGINT and SIGTERM, waits for one of them and      *)
(* stops everything in turn.                                               *)
(*                                                                         *)
(* Each part stands for its threads, which inherit the signal mask of the  *)
(* thread that created them.  Linux gives a signal for the process to main *)
(* while main is in sigwait, and else to a thread that does not block it,  *)
(* where, no handler being installed, it ends the process; it stays        *)
(* pending when all block it.  Stopping the transport runs the disconnect  *)
(* hook (ControlPlane), here one step that ends the session.               *)
(***************************************************************************)
CONSTANT Signals   \* the signals of the mask
Files == {"device", "calibration", "storage", "wifi-direct"}
Parts == {"pipeline", "ble", "http", "clock"}

VARIABLES
  main,     \* what main does next
  threads,  \* the parts whose threads run
  blocking, \* the parts, and main, that block the signals
  pending,  \* signals pending for main's sigwait
  raised,   \* signals raised so far
  session,  \* whether a match is being recorded
  process   \* alive, exited (main returned), killed (a signal's default action) or
            \* terminated (by an exception nobody caught)

vars == <<main, threads, blocking, pending, raised, session, process>>

LifeTypeOK ==
  /\ main \in {"config", "pipeline", "ble", "abort", "http", "clock", "mask", "masked", "wait", "joinClock",
               "stopHttp", "stopBle", "stopPipeline", "return"}
  /\ threads \subseteq Parts /\ blocking \subseteq threads \cup {"main"}
  /\ pending \subseteq raised /\ raised \subseteq Signals
  /\ session \in {"idle", "recording"} /\ process \in {"alive", "exited", "killed", "terminated"}
  /\ process = "exited" => main = "return"
  /\ process = "terminated" => main = "config"

Init == /\ main = "config" /\ threads = {} /\ blocking = {} /\ pending = {} /\ raised = {}
        /\ session = "idle" /\ process = "alive"

-----------------------------------------------------------------------------
At(step) == process = "alive" /\ main = step
Spawn(part) == /\ threads' = threads \cup {part}
               /\ blocking' = blocking \cup (IF "main" \in blocking THEN {part} ELSE {})
Join(part) == threads' = threads \ {part} /\ blocking' = blocking \ {part}
Stay == UNCHANGED <<threads, blocking>>

\* What a configuration file may hold, one field of it standing for all.
Contents == {"not opened", "not JSON", "no field", "null", "value", "other type"}

\* JsonReaderAdapter::load.  No field is required, but one that is there has its
\* type.
Load(content) == content \in {"no field", "null", "value"}

\* ConfigLoader::get reads every file, and throws unless all of them load;
\* nothing catches it.
LoadConfig ==
  /\ At("config") /\ Stay
  /\ \E content \in [Files -> Contents] :
       IF \A f \in Files : Load(content[f]) THEN main' = "pipeline" /\ UNCHANGED process
       ELSE process' = "terminated" /\ UNCHANGED main
  /\ UNCHANGED <<pending, raised, session>>

StartPipeline ==
  /\ At("pipeline")
  /\ \/ Spawn("pipeline") /\ main' = "ble"
     \/ Stay /\ main' = "return"
  /\ UNCHANGED <<pending, raised, session, process>>

StartBle ==
  /\ At("ble")
  /\ \/ Spawn("ble") /\ main' = "http"
     \/ Stay /\ main' = "abort"
  /\ UNCHANGED <<pending, raised, session, process>>

\* The transport did not start.
Abort ==
  /\ At("abort") /\ Join("pipeline") /\ main' = "return"
  /\ UNCHANGED <<pending, raised, session, process>>

\* Without its port the camera still records and streams.
StartHttp ==
  /\ At("http") /\ (Spawn("http") \/ Stay) /\ main' = "clock"
  /\ UNCHANGED <<pending, raised, session, process>>

StartClock ==
  /\ At("clock") /\ Spawn("clock") /\ main' = "mask"
  /\ UNCHANGED <<pending, raised, session, process>>

\* sigprocmask may fail, and main stops at once.
BlockSignals ==
  /\ At("mask") /\ UNCHANGED threads
  /\ \/ blocking' = blocking \cup {"main"} /\ main' = "masked"
     \/ UNCHANGED blocking /\ main' = "joinClock"
  /\ UNCHANGED <<pending, raised, session, process>>

CallSigwait == /\ At("masked") /\ main' = "wait"
               /\ UNCHANGED <<threads, blocking, pending, raised, session, process>>

SigWait ==
  /\ At("wait")
  /\ \E s \in pending : pending' = pending \ {s}
  /\ main' = "joinClock"
  /\ UNCHANGED <<threads, blocking, raised, session, process>>

JoinClock ==
  /\ At("joinClock") /\ Join("clock") /\ main' = "stopHttp"
  /\ UNCHANGED <<pending, raised, session, process>>

StopHttp ==
  /\ At("stopHttp") /\ Join("http") /\ main' = "stopBle"
  /\ UNCHANGED <<pending, raised, session, process>>

StopBle ==
  /\ At("stopBle") /\ Join("ble") /\ session' = "idle" /\ main' = "stopPipeline"
  /\ UNCHANGED <<pending, raised, process>>

StopPipeline ==
  /\ At("stopPipeline") /\ Join("pipeline") /\ main' = "return"
  /\ UNCHANGED <<pending, raised, session, process>>

Return == /\ At("return") /\ process' = "exited"
          /\ UNCHANGED <<main, threads, blocking, pending, raised, session>>

\* The event loop handles commands.
BeginRecording ==
  /\ process = "alive" /\ "ble" \in threads /\ session = "idle" /\ session' = "recording"
  /\ UNCHANGED <<main, threads, blocking, pending, raised, process>>

EndRecording ==
  /\ process = "alive" /\ "ble" \in threads /\ session = "recording" /\ session' = "idle"
  /\ UNCHANGED <<main, threads, blocking, pending, raised, process>>

\* A signal for main alone, or for the process.
Raise(s, targets) ==
  /\ process = "alive" /\ s \in Signals \ raised /\ raised' = raised \cup {s}
  /\ IF targets \subseteq blocking
     THEN pending' = pending \cup {s} /\ UNCHANGED process
     ELSE process' = "killed" /\ UNCHANGED pending
  /\ UNCHANGED <<main, threads, blocking, session>>

RaiseInMain(s) == Raise(s, {"main"})
RaiseInProcess(s) == Raise(s, IF main = "wait" THEN {"main"} ELSE threads \cup {"main"})

StartUp == LoadConfig \/ StartPipeline \/ StartBle \/ Abort \/ StartHttp \/ StartClock \/ BlockSignals
ShutDown == CallSigwait \/ SigWait \/ JoinClock \/ StopHttp \/ StopBle \/ StopPipeline \/ Return

Next == \/ StartUp \/ ShutDown \/ BeginRecording \/ EndRecording
        \/ \E s \in Signals : RaiseInMain(s) \/ RaiseInProcess(s)

\* main runs; nobody has to record or to signal.
Fairness == WF_vars(StartUp) /\ WF_vars(ShutDown)

Spec == Init /\ [][Next]_vars /\ Fairness

-----------------------------------------------------------------------------
\* While commands can arrive the pipeline they record from is running, and the
\* clock ticks into a session that can still be served: parts stop in the
\* reverse of the order in which they depend on each other.
StopsInOrder ==
  process = "alive" => /\ "ble" \in threads => "pipeline" \in threads
                       /\ threads \cap {"http", "clock"} # {} => "ble" \in threads

\* main returns with every thread joined and no recording open, also when the
\* start was given up half way.
ReturnIsClean == main = "return" => threads = {} /\ session = "idle"

\* A signal that main gets ends the process.
SignalIsHeeded == (pending # {}) ~> (process # "alive")

\* Claimed: "Run until terminated (SIGINT/SIGTERM). Destructors stop the
\* pipeline + transport (which finalizes any active session via the disconnect
\* hook)" (main.cpp): once main has blocked the signals, none of them ends the
\* process in the middle of a recording.
SignalFinalizes == process = "killed" /\ "main" \in blocking => session = "idle"
=============================================================================

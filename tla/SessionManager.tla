--------------------------- MODULE SessionManager ---------------------------
(***************************************************************************)
(* The session manager (app/session/services/session_manager): the ordered *)
(* session phase, the configuration and the live match, guarded by one     *)
(* mutex.  Every method but OnDisconnect holds the mutex for its whole     *)
(* body, so each is one action; the result the caller sees is the argument *)
(* "ok" of the action.  OnDisconnect gives the mutex up while it fans out  *)
(* cleanup, so it is split at that point: BeginDisconnect tests the phase  *)
(* and EndDisconnect clears the session, and any other method may run      *)
(* between the two.                                                        *)
(*                                                                         *)
(* The specification at the end is the manager under every possible caller *)
(* (the header promises thread safety); ControlPlane composes the methods  *)
(* with the handlers that really call them.                                *)
(***************************************************************************)
EXTENDS Naturals

CONSTANTS Configs,      \* the session configurations a central may push
          NoConfig,     \* config.reset(): no configuration is held
          Matches,      \* the live-match values
          EmptyMatch    \* LiveMatch{}

ASSUME SessionAssumption == /\ NoConfig \notin Configs
                            /\ EmptyMatch \in Matches

VARIABLES phase,    \* state_.phase
          config,   \* state_.config
          match     \* state_.match

sessionVars == <<phase, config, match>>

Idle       == 0
Connected  == 1
WifiReady  == 2
Configured == 3
Ready      == 4
Recording  == 5

SessionPhase == Idle..Recording

SessionTypeOK == /\ phase \in SessionPhase
                 /\ config \in Configs \cup {NoConfig}
                 /\ match \in Matches

SessionInit == phase = Idle /\ config = NoConfig /\ match = EmptyMatch

-----------------------------------------------------------------------------
\* The transitions.  A rejected call changes nothing.

\* A method whose guard fails returns false and leaves the session alone.
Rejected(ok) == ~ok /\ UNCHANGED sessionVars

\* Mutant: the live match outlives the session.
EndDisconnectKeepsMatch ==
  /\ phase' = Idle
  /\ config' = NoConfig
  /\ UNCHANGED match

OnConnect(ok) ==
  \/ /\ ok
     /\ phase = Idle
     /\ phase' = Connected
     /\ UNCHANGED <<config, match>>
  \/ /\ phase # Idle
     /\ Rejected(ok)

\* Re-affirming a group that is already up succeeds without a transition.
OnWifiReady(ok) ==
  \/ /\ ok
     /\ phase >= Connected
     /\ phase' = IF phase = Connected THEN WifiReady ELSE phase
     /\ UNCHANGED <<config, match>>
  \/ /\ phase < Connected
     /\ Rejected(ok)

OnWifiStopped(ok) ==
  \/ /\ ok
     /\ phase # Idle
     /\ phase' = Connected
     /\ config' = NoConfig
     /\ match' = EmptyMatch
  \/ /\ phase = Idle
     /\ Rejected(ok)

\* PrepareOutputDirs runs under the lock and may fail to make a directory;
\* "dirsMade" is its result.
ApplySessionConfig(c, dirsMade, ok) ==
  LET inOrder == phase >= WifiReady /\ phase # Recording
  IN \/ /\ ok
        /\ inOrder
        /\ dirsMade
        /\ config' = c
        /\ phase' = IF phase = WifiReady THEN Configured ELSE phase
        /\ UNCHANGED match
     \/ /\ ~(inOrder /\ dirsMade)
        /\ Rejected(ok)

\* A layout pushed again in Ready or Recording is accepted and keeps the phase.
OnOverlayConfigured(ok) ==
  \/ /\ ok
     /\ phase >= Configured
     /\ phase' = IF phase = Configured THEN Ready ELSE phase
     /\ UNCHANGED <<config, match>>
  \/ /\ phase < Configured
     /\ Rejected(ok)

OnRecordingStart(ok) ==
  \/ /\ ok
     /\ phase = Ready
     /\ phase' = Recording
     /\ UNCHANGED <<config, match>>
  \/ /\ phase # Ready
     /\ Rejected(ok)

OnRecordingStop(ok) ==
  \/ /\ ok
     /\ phase = Recording
     /\ phase' = Ready
     /\ UNCHANGED <<config, match>>
  \/ /\ phase # Recording
     /\ Rejected(ok)

\* "mutate" is the new value the caller's function leaves in the match.
ApplyMatchUpdate(mutate, ok) ==
  \/ /\ ok
     /\ phase >= Configured
     /\ match' = mutate
     /\ UNCHANGED <<phase, config>>
  \/ /\ phase < Configured
     /\ Rejected(ok)

\* The first critical section of OnDisconnect: "fanOut" tells whether cleanup
\* follows or the call returns at once.
BeginDisconnect(fanOut) ==
  /\ (fanOut <=> phase # Idle)
  /\ UNCHANGED sessionVars

\* The second: whatever happened since, the session is initial again.
EndDisconnect ==
  /\ phase' = Idle
  /\ config' = NoConfig
  /\ match' = EmptyMatch

-----------------------------------------------------------------------------
\* The manager under arbitrary concurrent callers.

VARIABLE disconnecting   \* some OnDisconnect is between its critical sections

managerVars == <<phase, config, match, disconnecting>>

ManagerInit == SessionInit /\ disconnecting = FALSE

CallMethod(ok) ==
  \/ OnConnect(ok)
  \/ OnWifiReady(ok)
  \/ OnWifiStopped(ok)
  \/ \E c \in Configs, dirsMade \in BOOLEAN : ApplySessionConfig(c, dirsMade, ok)
  \/ OnOverlayConfigured(ok)
  \/ OnRecordingStart(ok)
  \/ OnRecordingStop(ok)
  \/ \E m \in Matches : ApplyMatchUpdate(m, ok)

CallOther == /\ \E ok \in BOOLEAN : CallMethod(ok)
             /\ UNCHANGED disconnecting

CallDisconnect == /\ ~disconnecting
                  /\ \E fanOut \in BOOLEAN : /\ BeginDisconnect(fanOut)
                                             /\ disconnecting' = fanOut

FinishDisconnect == /\ disconnecting
                    /\ EndDisconnect
                    /\ disconnecting' = FALSE

ManagerNext == CallOther \/ CallDisconnect \/ FinishDisconnect

ManagerSpec == ManagerInit /\ [][ManagerNext]_managerVars

-----------------------------------------------------------------------------
\* Properties.

\* A configuration is held exactly from the phase Configured upwards: no
\* handler that passes a phase check (recording.handler.cpp reads
\* state.config->video_output_path) can find the optional empty, and no old
\* configuration survives a fall of the phase.
ConfigMatchesPhase == (config # NoConfig) <=> (phase >= Configured)

\* A score or clock is never left over from an earlier session: whoever finds
\* the session below Configured also finds LiveMatch{} ("cleared with the
\* session", live-match.hpp).
NoLeftoverMatch == match # EmptyMatch => phase >= Configured

\* The manager implements the ladder of SessionLifecycle: one rung at a time
\* upwards, and downwards only by the three named exits, with the memory
\* cleared in the same step.
Ladder == INSTANCE SessionLifecycle
            WITH hasConfig <- config # NoConfig, hasMatch <- match # EmptyMatch
ImplementsLifecycle == Ladder!Lifecycle

\* "The only backward edge is OnDisconnect -> Idle" (session-manager.hpp).
OnlyDisconnectGoesBack == [][phase' < phase => phase' = Idle]_managerVars
=============================================================================

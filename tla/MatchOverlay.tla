---------------------------- MODULE MatchOverlay ----------------------------
(***************************************************************************)
(* The live match and the overlay that shows it: MatchHandler and          *)
(* OverlayHandler, OverlayController and OverlayScene, CachingOverlaySink; *)
(* MatchStateHandler tells the app of it.                                  *)
(*                                                                         *)
(* Two threads run the handlers: the event loop (commands) and the clock   *)
(* thread of main (TickClock, once a second).  SessionManager and          *)
(* OverlayController each have a mutex, so a handler is a sequence of      *)
(* critical sections with the other thread in between: update the match,   *)
(* take a snapshot, set the binding data, refresh.                         *)
(*                                                                         *)
(* One team's score stands for both; a layout is its font, the part of it  *)
(* that Signature leaves out; a banner is the time it expires; names are   *)
(* the number of the session config they come from.                        *)
(***************************************************************************)
EXTENDS Naturals, Integers

CONSTANTS
  Fonts,       \* layouts the app pushes; they differ in their fonts only
  Deltas,      \* deltas of ScoreUpdate
  Durations,   \* durations of banners, in seconds
  Periods,     \* periods MatchControl names, 0 when it names none
  PeriodLength, \* of the session config, in seconds
  Width,       \* bits of a score, 32 in the code
  MaxConfigs, MaxCommands, MaxTime,   \* bounds of the model
  ClockPeriod  \* bound of the model: the clock is shown modulo this

ASSUME OverlayAssumption ==
  /\ Deltas \subseteq Int /\ Durations \cup Periods \subseteq Nat /\ PeriodLength \in Int
  /\ {Width, MaxConfigs, MaxCommands, MaxTime} \subseteq Nat /\ ClockPeriod \in Nat \ {0}

NoLayout == "no layout"
ASSUME NoLayout \notin Fonts

Threads == {"events", "clock"}
Segments == {"in play", "half time", "full time"}
ScoreModulus == 2^Width

VARIABLES
  active,    \* the session's phase is Configured or later
  names,     \* the number of the latest session config, which has the team names
  match,     \* SessionState::match
  layout,    \* OverlayScene::layout_, NoLayout while has_layout_ is false
  data,      \* OverlayScene::data_
  banners,   \* OverlayScene::banners_
  picture,   \* the scene rendered into CachingOverlaySink::latest_
  thread,    \* where each thread is, the snapshot and the time it holds
  report,    \* the MatchState the app was answered last
  now,       \* the steady clock, in seconds
  commands   \* commands handled so far

sessionState == <<active, names, match>>
scene == <<layout, data, banners>>
view == <<picture, report>>
overlayVars == <<sessionState, scene, view, thread, now, commands>>

NewMatch == [score |-> 0, period |-> 0, clock |-> 0, running |-> FALSE, segment |-> "in play"]

\* BuildBindingData of a snapshot of the session.
Binding == [names |-> IF active THEN names ELSE 0, score |-> match.score,
            period |-> match.period, clock |-> match.clock, segment |-> match.segment]
NoData == [names |-> 0, score |-> 0, period |-> 0, clock |-> 0, segment |-> "in play"]
NoPicture == [layout |-> NoLayout, data |-> NoData, banners |-> {}]
NoReport == [status |-> "not started", period |-> 0, remaining |-> 0, score |-> 0]
Idle == [at |-> "idle", snap |-> NoData, now |-> 0]

OverlayTypeOK ==
  /\ active \in BOOLEAN /\ names \in 0..MaxConfigs /\ (active => names > 0)
  /\ match.score \in 0..(ScoreModulus - 1) /\ match.clock \in 0..(ClockPeriod - 1)
  /\ match.running \in BOOLEAN /\ match.segment \in Segments
  /\ match.period \in Periods \cup {0, 1} /\ report.remaining \in Nat
  /\ ~active => match = NewMatch
  /\ layout \in Fonts \cup {NoLayout} /\ banners \subseteq 0..MaxTime
  /\ layout = NoLayout => banners = {}
  /\ \A t \in Threads : thread[t].at \in {"idle", "updated", "snapped", "bound", "banner"}
  /\ now \in 0..MaxTime /\ commands \in 0..MaxCommands

OverlayInit ==
  /\ active = FALSE /\ names = 0 /\ match = NewMatch
  /\ layout = NoLayout /\ data = NoData /\ banners = {} /\ picture = NoPicture /\ report = NoReport
  /\ thread = [t \in Threads |-> Idle] /\ now = 0 /\ commands = 0

Goto(t, place) == thread' = [thread EXCEPT ![t] = [Idle EXCEPT !.at = place]]

-----------------------------------------------------------------------------
\* Commands, on the event loop thread.

Command == /\ thread["events"].at = "idle" /\ commands < MaxCommands
           /\ commands' = commands + 1 /\ UNCHANGED now

\* ApplySessionConfig, also when a config is there already: it does not refresh.
PushConfig ==
  /\ Command /\ names < MaxConfigs
  /\ active' = TRUE /\ names' = names + 1
  /\ UNCHANGED <<match, scene, view, thread>>

\* A disconnect or StopWifiDirect: the session is cleared, the scene is not.
EndSession ==
  /\ Command /\ active
  /\ active' = FALSE /\ match' = NewMatch
  /\ UNCHANGED <<names, scene, view, thread>>

\* OverlayScene::SetLayout.
SetLayout(l) == layout' = l /\ banners' = {}

PushOverlayLayout(l) ==
  /\ Command /\ active
  /\ SetLayout(l) /\ Goto("events", "updated")
  /\ UNCHANGED <<sessionState, data, view>>

\* The arithmetic of HandleScoreUpdate: clamped at zero, wrapping at the top.
NextScore(score, delta) ==
  IF delta < 0 /\ -delta > score THEN 0 ELSE (score + delta) % ScoreModulus

ApplyMatchUpdate(m) == /\ active /\ match' = m
                       /\ UNCHANGED <<active, names>>

ScoreUpdate(delta) ==
  /\ Command
  /\ ApplyMatchUpdate([match EXCEPT !.score = NextScore(match.score, delta)])
  /\ Goto("events", "updated")
  /\ UNCHANGED <<scene, view>>

\* The outcomes of HandleMatchControl's actions, for the period they name.
Controlled(period) ==
  LET numbered(otherwise) == [match EXCEPT !.period = IF period > 0 THEN period ELSE otherwise] IN
  {[numbered(1) EXCEPT !.clock = 0, !.running = TRUE, !.segment = "in play"],          \* KICKOFF
   [numbered(match.period) EXCEPT !.running = TRUE, !.segment = "in play"],        \* PERIOD_START
   [match EXCEPT !.running = FALSE, !.segment = "half time"],             \* PERIOD_END
   [match EXCEPT !.running = FALSE, !.segment = "full time"],             \* FINAL_WHISTLE
   [match EXCEPT !.running = FALSE],                                      \* CLOCK_PAUSE
   [match EXCEPT !.running = TRUE]}                                       \* CLOCK_RESUME

MatchControl ==
  /\ Command
  /\ \E period \in Periods : \E m \in Controlled(period) : ApplyMatchUpdate(m)
  /\ Goto("events", "updated")
  /\ UNCHANGED <<scene, view>>

\* The session's phase is not looked at; without a layout no template matches.
\* The refresh that follows uses the time read here.
BannerEvent(duration) ==
  /\ Command /\ now + duration <= MaxTime
  /\ banners' = IF layout = NoLayout THEN banners ELSE banners \cup {now + duration}
  /\ thread' = [thread EXCEPT !["events"] = [Idle EXCEPT !.at = "banner", !.now = now]]
  /\ UNCHANGED <<sessionState, layout, data, view>>

\* DeriveStatus.
Status ==
  IF ~active THEN "not started"
  ELSE IF match.segment # "in play" THEN match.segment
  ELSE IF match.period = 0 THEN "not started"
  ELSE IF match.running THEN "active" ELSE "paused"

\* DeriveTimeRemaining: the clock counts from the kickoff.
TimeRemaining ==
  IF ~active \/ PeriodLength <= 0 \/ match.clock >= PeriodLength THEN 0
  ELSE PeriodLength - match.clock

\* MatchStateHandler answers from one snapshot and leaves the overlay alone.
GetMatchState ==
  /\ Command
  /\ report' = [status |-> Status, period |-> match.period, remaining |-> TimeRemaining,
                score |-> match.score]
  /\ UNCHANGED <<sessionState, scene, picture, thread>>

-----------------------------------------------------------------------------
\* Mutant: only a clock that runs refreshes the overlay.
TickRunning ==
  /\ thread["clock"].at = "idle" /\ match.running
  /\ ApplyMatchUpdate([match EXCEPT !.clock = (@ + 1) % ClockPeriod])
  /\ Goto("clock", "updated")
  /\ UNCHANGED <<scene, view, now, commands>>

\* The clock thread, once a second while the session is configured.
TickClock ==
  /\ thread["clock"].at = "idle"
  /\ ApplyMatchUpdate([match EXCEPT !.clock = IF match.running THEN (@ + 1) % ClockPeriod ELSE @])
  /\ Goto("clock", "updated")
  /\ UNCHANGED <<scene, view, now, commands>>

-----------------------------------------------------------------------------
\* SyncOverlay, on either thread.

TakeSnapshot(t) ==
  /\ thread[t].at = "updated"
  /\ thread' = [thread EXCEPT ![t] = [Idle EXCEPT !.at = "snapped", !.snap = Binding]]
  /\ UNCHANGED <<sessionState, scene, view, now, commands>>

SetBindingData(t) ==
  /\ thread[t].at = "snapped"
  /\ data' = thread[t].snap /\ Goto(t, "bound")
  /\ UNCHANGED <<sessionState, layout, banners, view, now, commands>>

\* Mutant: a banner goes at its last second.
ActiveEarly(time) == {b \in banners : b > time + 1}

\* The banners ExpireBanners leaves.
Active(time) == {b \in banners : b > time}

\* What the fields in OverlayController::Signature show; an empty scene looks
\* the same whatever the data.
Signature(p) == IF p.layout = NoLayout THEN <<>> ELSE <<p.data, p.banners>>

\* Render and PushFrame, unless the signature is that of the picture.
Show(p) == picture' = IF Signature(p) = Signature(picture) THEN picture ELSE p

\* OverlayController::Refresh, at the time it is called.
Refresh(t) ==
  /\ thread[t].at \in {"bound", "banner"}
  /\ LET time == IF thread[t].at = "banner" THEN thread[t].now ELSE now
     IN  /\ banners' = Active(time)
         /\ Show([layout |-> layout, data |-> data, banners |-> Active(time)])
  /\ Goto(t, "idle")
  /\ UNCHANGED <<sessionState, layout, data, report, now, commands>>

TimePasses ==
  /\ now < MaxTime /\ now' = now + 1
  /\ UNCHANGED <<sessionState, scene, view, thread, commands>>

-----------------------------------------------------------------------------
HandleCommand ==
  \/ PushConfig \/ EndSession \/ MatchControl \/ GetMatchState
  \/ \E l \in Fonts : PushOverlayLayout(l)
  \/ \E delta \in Deltas : ScoreUpdate(delta)
  \/ \E duration \in Durations : BannerEvent(duration)

Sync(t) == TakeSnapshot(t) \/ SetBindingData(t) \/ Refresh(t)

OverlayNext == HandleCommand \/ TickClock \/ (\E t \in Threads : Sync(t)) \/ TimePasses

\* The clock thread never ends while the program runs, handlers return, time passes.
OverlayFairness == /\ WF_overlayVars(TickClock) /\ WF_overlayVars(TimePasses)
                   /\ \A t \in Threads : WF_overlayVars(Sync(t))

OverlaySpec == OverlayInit /\ [][OverlayNext]_overlayVars
OverlayLiveSpec == OverlaySpec /\ OverlayFairness

-----------------------------------------------------------------------------
\* Properties.

\* What a viewer can tell of the binding data, the running clock apart.
Static(d) == <<d.names, d.score, d.period, d.segment>>

\* In a session with a layout the picture comes to show the match as it is, for
\* good: a tick repairs what a handler overtaken by another left behind
\* (MatchHandler::SyncOverlay, TickClock).
PictureConverges ==
  <>[](active /\ layout # NoLayout => Static(picture.data) = Static(Binding))

\* A banner whose time is over leaves the picture while the session lasts
\* (OverlayScene::ExpireBanners, TickClock).
BannerEnds ==
  \A b \in 0..MaxTime : (b \in picture.banners /\ b <= now) ~> (b \notin picture.banners \/ ~active)

\* [action] A banner is not taken away before its time, except by a new layout,
\* whichever thread refreshes and whatever time it read (OverlayScene).
BannerLastsItsTime ==
  [][\A b \in banners \ banners' : b <= now \/ (banners' = {} /\ commands' > commands)]_overlayVars

\* [refuted] The picture is that of the scene once it is refreshed
\* (overlay-controller.hpp: "only when the resolved scene actually differs").
PictureFollowsLayout ==
  (\A t \in Threads : thread[t].at = "idle") => picture.layout = layout

\* [refuted] When the command that changed the score has been answered, the
\* picture shows the score (R18: "Data bindings auto-update from match events").
AnsweredIsShown ==
  [][thread["events"].at = "bound" /\ thread'["events"].at = "idle" /\ layout # NoLayout
       => picture'.data.score = match.score]_overlayVars

\* [refuted] A session that ended leaves no overlay (R11: session state, the
\* overlay layout included, "is cleared whenever the session ends").
EndClearsOverlay == ~active => layout = NoLayout

\* [refuted] A banner leaves the picture when its time is over (R19: "shows the
\* template's elements, then removes them").
BannerIsRemoved ==
  \A b \in 0..MaxTime : (b \in picture.banners /\ b <= now) ~> b \notin picture.banners
=============================================================================

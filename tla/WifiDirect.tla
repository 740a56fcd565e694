----------------------------- MODULE WifiDirect -----------------------------
(***************************************************************************)
(* WifiDirectHandler and SessionCleanup::TeardownWifiDirect over           *)
(* WpaWifiManager (WpaLink) and DnsmasqDhcpServer.                         *)
(*                                                                         *)
(* The event loop runs the handlers; on shutdown the main thread runs the  *)
(* cleanup beside it, joins it, and runs the destructors.  The manager has *)
(* a mutex, so "at" tells who is in it.  DnsmasqDhcpServer has none: pid_  *)
(* is read and written by both threads, and since every access in Stop is  *)
(* followed by a call the compiler cannot see into, each reads it anew.    *)
(* The dnsmasq started for a group has the group's number.                 *)
(***************************************************************************)
EXTENDS WpaLink, FiniteSets

CONSTANTS
  MaxCrashes, \* bound of the model: deaths of the process
  MaxDeaths   \* bound of the model: deaths of dnsmasq by itself

ASSUME WifiAssumption == {MaxCrashes, MaxDeaths} \subseteq Nat

Threads == {"loop", "main"}

VARIABLES
  at,         \* thread -> its next call
  joined,     \* the main thread has joined the event loop
  pid,        \* pid_, or 0 for -1
  running,    \* dnsmasq processes alive
  signalled,  \* those of them that were sent SIGTERM
  zombies,    \* dnsmasq processes that died and were not waited for
  told,       \* the group whose credentials the app was told last, or 0
  overlapped, \* history: both threads were in DnsmasqDhcpServer at once
  crashes,    \* deaths of the process so far
  deaths      \* deaths of dnsmasq by itself so far

dhcpVars == <<pid, running, signalled, zombies>>
faults == <<crashes, deaths>>
vars == <<wpaVars, dhcpVars, at, joined, told, overlapped, faults>>

DhcpStop == {"kill", "reap", "clear"}
LoopLabels == {"idle", "form", "serve", "started", "confirm", "preview", "remove", "removing"} \cup DhcpStop
MainLabels == {"running", "streams", "remove", "removing", "leave", "join", "ended"} \cup DhcpStop

TypeOK ==
  /\ WpaTypeOK
  /\ at \in [Threads -> LoopLabels \cup MainLabels]
  /\ at["loop"] \in LoopLabels /\ at["main"] \in MainLabels
  /\ joined \in BOOLEAN /\ overlapped \in BOOLEAN
  /\ pid \in 0..MaxCalls /\ told \in 0..MaxCalls
  /\ running \subseteq 1..MaxCalls /\ signalled \subseteq running
  /\ zombies \subseteq (1..MaxCalls) \ running
  /\ crashes \in 0..MaxCrashes /\ deaths \in 0..MaxDeaths

Init ==
  /\ WpaInit
  /\ at = [loop |-> "idle", main |-> "running"] /\ joined = FALSE
  /\ pid = 0 /\ running = {} /\ signalled = {} /\ zombies = {}
  /\ told = 0 /\ overlapped = FALSE /\ crashes = 0 /\ deaths = 0

-----------------------------------------------------------------------------
GoTo(t, label) == at' = [at EXCEPT ![t] = label]

InDhcp(label) == label \in {"started", "reap", "clear"}

\* One step of DnsmasqDhcpServer by thread t.
DhcpStep(t, from, to) ==
  /\ at[t] = from /\ GoTo(t, to)
  /\ overlapped' = IF \A u \in Threads : InDhcp(at'[u]) THEN TRUE ELSE overlapped
  /\ UNCHANGED <<wpaVars, joined, faults>>

\* Start: one is known, or fork fails, or the child is dead by the time it is
\* looked at; or it lives ...
Serve ==
  \/ /\ DhcpStep("loop", "serve", "started") /\ pid = 0
     /\ running' = running \cup {answer} /\ UNCHANGED <<pid, signalled, zombies, told>>
  \/ /\ DhcpStep("loop", "serve", "remove") /\ UNCHANGED <<dhcpVars, told>>
  \/ /\ DhcpStep("loop", "serve", "remove") /\ pid = 0 /\ pid' = 0
     /\ UNCHANGED <<running, signalled, zombies, told>>

\* ... and is known from here on.
Started ==
  /\ DhcpStep("loop", "started", "confirm") /\ pid' = answer
  /\ UNCHANGED <<running, signalled, zombies, told>>

\* Stop is three accesses to pid_.  After it both callers stop the manager, and
\* the destructor is the last thing.
AfterDhcpStop == IF joined THEN "ended" ELSE "remove"

Kill(t) ==
  \/ /\ DhcpStep(t, "kill", "reap") /\ pid # 0
     /\ signalled' = signalled \cup ({pid} \cap running)
     /\ UNCHANGED <<pid, running, zombies, told>>
  \/ /\ DhcpStep(t, "kill", AfterDhcpStop) /\ pid = 0 /\ UNCHANGED <<dhcpVars, told>>

\* waitpid of a child that is not there returns, and of -1 waits for any.
Reap(t) ==
  /\ DhcpStep(t, "reap", "clear")
  /\ \/ pid # 0 /\ pid \notin running /\ zombies' = zombies \ {pid}
     \/ pid = 0 /\ \E z \in zombies : zombies' = zombies \ {z}
     \/ pid = 0 /\ running \cup zombies = {} /\ UNCHANGED zombies
  /\ UNCHANGED <<pid, running, signalled, told>>

Clear(t) == /\ DhcpStep(t, "clear", AfterDhcpStop) /\ pid' = 0
            /\ UNCHANGED <<running, signalled, zombies, told>>

\* dnsmasq (external) ends when it is told to, or by itself.
DnsmasqEnds(d) ==
  /\ d \in running /\ running' = running \ {d} /\ signalled' = signalled \ {d}
  /\ zombies' = zombies \cup {d}
  /\ UNCHANGED <<wpaVars, at, joined, pid, told, overlapped, crashes>>

DnsmasqObeys == \E d \in signalled : DnsmasqEnds(d) /\ UNCHANGED deaths

DnsmasqDies == /\ deaths < MaxDeaths /\ deaths' = deaths + 1
               /\ \E d \in running \ signalled : DnsmasqEnds(d)

-----------------------------------------------------------------------------
\* The handlers, on the event loop thread.
Elsewhere == UNCHANGED <<dhcpVars, joined, overlapped, faults>>

\* The event loop dispatches until the main thread has made it leave.
LoopRuns == ~joined /\ at["main"] # "join"

HandleStart ==
  /\ at["loop"] = "idle" /\ LoopRuns
  /\ StartP2pGroupOwner /\ GoTo("loop", "form")
  /\ UNCHANGED told /\ Elsewhere

\* The call goes on, or returns a group or none.
Form ==
  /\ Converse
  /\ IF call' # "none" THEN UNCHANGED at
     ELSE GoTo("loop", IF answer' = 0 THEN "idle" ELSE "serve")
  /\ UNCHANGED told /\ Elsewhere

\* The session takes the group; or everything is undone.
Confirm ==
  /\ at["loop"] = "confirm" /\ (GoTo("loop", "preview") \/ GoTo("loop", "kill"))
  /\ UNCHANGED <<wpaVars, told>> /\ Elsewhere

\* StartAppStream waits for the mutex of the streams, which StopAppStream holds
\* while it joins the preview's thread.  Whatever it returns, the app is told.
Preview ==
  /\ at["loop"] = "preview" /\ at["main"] # "streams"
  /\ GoTo("loop", "idle") /\ told' = answer
  /\ UNCHANGED wpaVars /\ Elsewhere

HandleStop ==
  /\ at["loop"] = "idle" /\ LoopRuns
  /\ GoTo("loop", "kill") /\ told' = 0
  /\ UNCHANGED wpaVars /\ Elsewhere

\* IWifiManager::Stop.  The mutex is free when no call is in progress; without
\* a socket there is nothing to ask and nothing to forget.
AfterRemove(t) == IF t = "loop" THEN "idle" ELSE "leave"

AskRemoval(t) ==
  /\ at[t] = "remove"
  /\ \/ Stop /\ GoTo(t, "removing")
     \/ sock = 0 /\ call = "none" /\ GoTo(t, AfterRemove(t)) /\ UNCHANGED wpaVars
  /\ UNCHANGED told /\ Elsewhere

Removed(t) ==
  /\ at[t] = "removing" /\ Stopped /\ GoTo(t, AfterRemove(t))
  /\ UNCHANGED told /\ Elsewhere

-----------------------------------------------------------------------------
\* The main thread: the disconnect hook, then the event loop is left and joined,
\* then the destructors run.  Before the group the cleanup stops the preview ...
OnDisconnect ==
  /\ at["main"] = "running" /\ GoTo("main", "streams")
  /\ UNCHANGED <<wpaVars, told>> /\ Elsewhere

\* ... and there is none without a central, or when the phase is Idle.
SkipCleanup ==
  /\ at["main"] = "running" /\ GoTo("main", "leave")
  /\ UNCHANGED <<wpaVars, told>> /\ Elsewhere

\* StopAppStream has returned, or thrown.
TeardownWifiDirect ==
  /\ at["main"] = "streams" /\ GoTo("main", "kill") /\ told' = 0
  /\ UNCHANGED wpaVars /\ Elsewhere

LeaveLoop ==
  /\ at["main"] = "leave" /\ GoTo("main", "join")
  /\ UNCHANGED <<wpaVars, told>> /\ Elsewhere

\* Mutant: the DHCP server has no destructor.
JoinAndForget ==
  /\ at["main"] = "join" /\ at["loop"] = "idle"
  /\ joined' = TRUE /\ GoTo("main", "ended")
  /\ UNCHANGED <<wpaVars, dhcpVars, told, overlapped, faults>>

JoinLoop ==
  /\ at["main"] = "join" /\ at["loop"] = "idle"
  /\ joined' = TRUE /\ GoTo("main", "kill")
  /\ UNCHANGED <<wpaVars, dhcpVars, told, overlapped, faults>>

\* The process is killed or ends with an error; the service manager ends its
\* children and starts it again.
CrashAndRestart ==
  /\ crashes < MaxCrashes /\ crashes' = crashes + 1 /\ at["main"] # "ended"
  /\ LoseManager
  /\ at' = [loop |-> "idle", main |-> "running"] /\ joined' = FALSE
  /\ pid' = 0 /\ running' = {} /\ signalled' = {} /\ zombies' = {} /\ told' = 0
  /\ overlapped' = FALSE /\ UNCHANGED deaths

-----------------------------------------------------------------------------
LoopThread == \/ Form \/ Serve \/ Started \/ Confirm \/ Preview
              \/ Kill("loop") \/ Reap("loop") \/ Clear("loop")
              \/ AskRemoval("loop") \/ Removed("loop")

MainThread == \/ Kill("main") \/ Reap("main") \/ Clear("main")
              \/ AskRemoval("main") \/ Removed("main") \/ LeaveLoop \/ JoinLoop

Next == \/ HandleStart \/ HandleStop \/ LoopThread
        \/ OnDisconnect \/ SkipCleanup \/ TeardownWifiDirect \/ MainThread
        \/ DnsmasqObeys \/ DnsmasqDies \/ CrashAndRestart
        \/ Supplicant /\ UNCHANGED <<at, told>> /\ Elsewhere

\* Each thread goes on (recv times out), wpa_supplicant handles what it is sent
\* and a dnsmasq that is told to end does.  The join of the preview's thread may
\* last for ever: nothing is assumed of TeardownWifiDirect.
Fairness == /\ WF_vars(LoopThread) /\ WF_vars(MainThread) /\ WF_vars(DnsmasqObeys)
            /\ WF_vars(HandleRequest /\ UNCHANGED <<at, told>> /\ Elsewhere)

Spec == Init /\ [][Next]_vars /\ Fairness

-----------------------------------------------------------------------------
\* From the answer that names a group (WifiDirectHandler::HandleStart) until it is
\* stopped, that group is up and its dnsmasq serves it, unless that died by
\* itself: no event of an earlier start was taken for this one's, and no later
\* command that failed has taken anything down.
ToldGroupIsServed ==
  told # 0 /\ at["loop"] = "idle" /\ at["main"] = "running" =>
    /\ group = told /\ pid = told
    /\ told \in running \/ (told \in zombies /\ deaths > 0)

\* An orderly end leaves no dnsmasq, not even one that a command started behind
\* the cleanup: ~DnsmasqDhcpServer runs after the event loop is joined.  It
\* needs that the two threads were not in DnsmasqDhcpServer at once.
NoDnsmasqSurvives ==
  at["main"] = "ended" /\ ~overlapped => running \cup zombies = {}

\* Every command is answered (WifiDirectHandler::Handle returns to the event
\* loop), however silent or talkative wpa_supplicant is, whoever else waits for
\* dnsmasq, and although the process may die over it; but for a start that comes to
\* its preview while the shutdown holds the mutex of the streams for ever.
CommandReturns ==
  \/ <>[](at["loop"] = "preview" /\ at["main"] = "streams")
  \/ (at["loop"] # "idle") ~> (at["loop"] = "idle")

\* After IWifiManager::Stop has asked, the group goes down, whether or not the
\* removal was answered in time, and also when the start that formed it had
\* failed, or had been a start of the process before this one.
StopRemovesGroup == (call = "P2P_GROUP_REMOVE") ~> (group = 0 /\ ~forming)

\* [refuted] [action] The datagram taken for the reply to P2P_GROUP_ADD is the reply
\* to it (wpa-wifi-manager.hpp: "reading back OK/FAIL replies and unsolicited
\* events"); an event, or a late reply to ATTACH, is taken as well.
ReplyIsToTheCommand ==
  [][call = "P2P_GROUP_ADD" /\ inbox # <<>> /\ Added => Head(inbox).re = "P2P_GROUP_ADD"]_vars

\* [refuted] A start that has failed leaves no group behind (wifi-direct.handler.cpp
\* says that it must not "leave a half-open state"): what is up is what the app
\* was told of, in the first life of the process.
NoHalfOpenGroup ==
  at["loop"] = "idle" /\ at["main"] = "running" /\ crashes = 0 /\ GroupMayStay => told # 0

\* The calls keep what ControlPlane takes for granted of them: whatever happens
\* to the conversation, the socket is given up only behind a request that takes
\* the group down, or with the process.
Contract == INSTANCE WifiContract WITH
  life  <- crashes + (IF at["main"] = "ended" THEN 1 ELSE 0),
  dhcp  <- pid # 0,
  ctrl  <- sock # 0 /\ at["main"] # "ended",
  group <- GroupMayStay

ImplementsContract == Contract!Spec
=============================================================================

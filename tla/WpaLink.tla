------------------------------- MODULE WpaLink -------------------------------
(***************************************************************************)
(* WpaWifiManager (wpa-wifi-manager.cpp) talking to wpa_supplicant over    *)
(* its control socket.                                                     *)
(*                                                                         *)
(* Each call of the manager holds mtx_ and is a conversation: it sends a   *)
(* datagram and takes the next one that comes, or gives up after two       *)
(* seconds (kRecvTimeout).  On the one socket arrive the replies and, once *)
(* it is attached, the events.  wpa_supplicant is external: it handles the *)
(* requests in order and in its own time, forms a group some time after it *)
(* accepted to, and runs one group at a time: it refuses another meanwhile *)
(* (an assumption; ControlPlane.FormGroup leaves it open).  A socket, a    *)
(* call and a group interface are numbers.                                 *)
(***************************************************************************)
EXTENDS Naturals, Sequences, SequencesExt

CONSTANTS
  MaxEventReads, \* kMaxEventReads
  MaxCalls,      \* bound of the model: calls of StartP2pGroupOwner
  MaxEvents      \* bound of the model: other events waiting on the socket

ASSUME WpaAssumption == {MaxEventReads, MaxCalls, MaxEvents} \subseteq Nat

VARIABLES
  sock,            \* sock_: its number, or 0 when closed
  opened,          \* sockets opened so far
  inbox,           \* datagrams waiting on sock_
  group_interface, \* group_interface_, or 0 when empty
  connected,       \* state_.connected
  call,            \* what the call in progress waits for
  calls,           \* starts so far
  reads,           \* datagrams ReadUntil has read
  requests,        \* datagrams on their way to wpa_supplicant
  attached,        \* the socket it sends events to, or 0
  group,           \* its group, or 0
  forming,         \* it has accepted to form one
  formed,          \* groups formed so far
  answer           \* the group the last StartP2pGroupOwner returned, or 0

manager == <<sock, opened, inbox, group_interface, connected, call, calls, reads, answer>>
supplicant == <<requests, attached, group, forming, formed>>
wpaVars == <<manager, supplicant>>

Commands == {"ATTACH", "P2P_GROUP_ADD", "P2P_GROUP_REMOVE"}
Datagrams == [what : {"OK", "FAIL"}, re : Commands, n : 0..MaxCalls]
               \cup [what : {"P2P-GROUP-STARTED"}, re : {"event"}, n : 1..MaxCalls]
               \cup [what : {"other"}, re : {"event"}, n : {0}]
NoReply == [what |-> "none", re |-> "none", n |-> 0]

WpaTypeOK ==
  /\ sock \in 0..opened /\ opened \in 0..MaxCalls
  /\ inbox \in Seq(Datagrams) /\ (sock = 0 => inbox = <<>>)
  /\ group_interface \in 0..MaxCalls /\ connected \in BOOLEAN
  /\ connected <=> group_interface # 0
  /\ call \in {"none", "until"} \cup Commands /\ (call # "none" => sock # 0)
  /\ calls \in 0..MaxCalls /\ reads \in 0..MaxEventReads
  /\ requests \in Seq([cmd : Commands, n : 0..MaxCalls, iface : 0..MaxCalls, from : 1..opened])
  /\ attached \in 0..opened /\ group \in 0..MaxCalls /\ formed \in 0..MaxCalls
  /\ forming \in BOOLEAN /\ ~(forming /\ group # 0)
  /\ answer \in 0..MaxCalls

WpaInit ==
  /\ sock = 0 /\ opened = 0 /\ inbox = <<>> /\ group_interface = 0 /\ connected = FALSE
  /\ call = "none" /\ calls = 0 /\ reads = 0 /\ answer = 0
  /\ requests = <<>> /\ attached = 0 /\ group = 0 /\ forming = FALSE /\ formed = 0

-----------------------------------------------------------------------------
\* The manager.  SendCommand in two halves: the datagram leaves ...
Send(cmd, iface) ==
  /\ requests' = Append(requests, [cmd |-> cmd, n |-> calls', iface |-> iface, from |-> sock'])
  /\ call' = cmd

\* ... and the next one that comes is its reply, or none came in time.
Recv(d) == \/ /\ inbox # <<>> /\ d = Head(inbox) /\ inbox' = Tail(inbox)
           \/ /\ inbox = <<>> /\ d = NoReply /\ UNCHANGED inbox

Received == {NoReply} \cup (IF inbox = <<>> THEN {} ELSE {Head(inbox)})

\* StartP2pGroupOwner up to its first send.  When the socket cannot be opened it
\* answers nullopt: a stuttering step.
StartP2pGroupOwner ==
  /\ call = "none" /\ calls < MaxCalls /\ calls' = calls + 1
  /\ opened' = IF sock = 0 THEN opened + 1 ELSE opened
  /\ sock' = IF sock = 0 THEN opened' ELSE sock
  /\ Send("ATTACH", 0)
  /\ UNCHANGED <<inbox, group_interface, connected, reads, answer,
                 attached, group, forming, formed>>

\* What ATTACH was answered, if anything, is not looked at.
Attached ==
  /\ call = "ATTACH" /\ \E d \in Received : Recv(d)
  /\ UNCHANGED calls /\ UNCHANGED sock
  /\ Send("P2P_GROUP_ADD", 0)
  /\ UNCHANGED <<opened, group_interface, connected, reads, answer,
                 attached, group, forming, formed>>

Added ==
  /\ call = "P2P_GROUP_ADD"
  /\ \E d \in Received : /\ Recv(d)
                         /\ call' = IF d.what = "OK" THEN "until" ELSE "none"
  /\ reads' = 0 /\ answer' = 0
  /\ UNCHANGED <<sock, opened, group_interface, connected, calls, supplicant>>

\* Mutant: the socket is closed when a start fails.
StartFailsAndCloses(d) ==
  /\ \/ d = NoReply
     \/ d.what = "P2P-GROUP-STARTED"
     \/ reads + 1 = MaxEventReads
  /\ call' = "none" /\ reads' = 0 /\ sock' = 0
  /\ UNCHANGED <<group_interface, connected, answer>>

\* The event is the last of the reads, cannot be parsed, or never comes.
StartFails(d) ==
  /\ \/ d = NoReply
     \/ d.what = "P2P-GROUP-STARTED"
     \/ reads + 1 = MaxEventReads
  /\ call' = "none" /\ reads' = 0 /\ UNCHANGED <<sock, group_interface, connected, answer>>

GroupStarted(d) ==
  /\ d.what = "P2P-GROUP-STARTED"
  /\ call' = "none" /\ reads' = 0
  /\ group_interface' = d.n /\ connected' = TRUE /\ answer' = d.n /\ UNCHANGED sock

\* Mutant: the reads are not counted.
ReadOnUncounted(d) ==
  /\ d \notin {NoReply} /\ d.what # "P2P-GROUP-STARTED"
  /\ UNCHANGED <<call, reads, sock, group_interface, connected, answer>>

ReadOn(d) ==
  /\ d \notin {NoReply} /\ d.what # "P2P-GROUP-STARTED" /\ reads + 1 < MaxEventReads
  /\ reads' = reads + 1 /\ UNCHANGED <<call, sock, group_interface, connected, answer>>

ReadUntil ==
  /\ call = "until"
  /\ \E d \in Received : Recv(d) /\ (StartFails(d) \/ GroupStarted(d) \/ ReadOn(d))
  /\ UNCHANGED <<opened, calls, supplicant>>

\* Mutant: there is nothing to remove when no group is known.
StopKnownGroup ==
  /\ call = "none" /\ sock # 0 /\ UNCHANGED <<sock, calls>>
  /\ IF group_interface # 0 THEN Send("P2P_GROUP_REMOVE", group_interface)
     ELSE call' = "P2P_GROUP_REMOVE" /\ UNCHANGED requests
  /\ UNCHANGED <<opened, inbox, group_interface, connected, reads, answer,
                 attached, group, forming, formed>>

\* Stop removes the group it knows, or all (iface 0); with the socket closed it
\* clears what is clear already.
Stop ==
  /\ call = "none" /\ sock # 0 /\ UNCHANGED <<sock, calls>>
  /\ Send("P2P_GROUP_REMOVE", group_interface)
  /\ UNCHANGED <<opened, inbox, group_interface, connected, reads, answer,
                 attached, group, forming, formed>>

\* Mutant: the socket stays open, with what waits on it.
StoppedKeepsSocket ==
  /\ call = "P2P_GROUP_REMOVE" /\ call' = "none"
  /\ group_interface' = 0 /\ connected' = FALSE
  /\ UNCHANGED <<sock, inbox, opened, calls, reads, answer, supplicant>>

\* Whatever was answered, the state is cleared and the socket closed.
Stopped ==
  /\ call = "P2P_GROUP_REMOVE" /\ call' = "none"
  /\ sock' = 0 /\ inbox' = <<>> /\ group_interface' = 0 /\ connected' = FALSE
  /\ UNCHANGED <<opened, calls, reads, answer, supplicant>>

-----------------------------------------------------------------------------
\* wpa_supplicant (external).  What is sent to a closed socket is lost.
Deliver(to, what, re, n) ==
  inbox' = IF to # 0 /\ to = sock THEN Append(inbox, [what |-> what, re |-> re, n |-> n])
           ELSE inbox

Answer(r, what) == Deliver(r.from, what, r.cmd, r.n)
Names(r) == r.iface = 0 \/ r.iface = group

HandleRequest ==
  /\ requests # <<>> /\ requests' = Tail(requests)
  /\ LET r == Head(requests) IN
     \/ /\ r.cmd = "ATTACH" /\ Answer(r, "OK") /\ attached' = r.from
        /\ UNCHANGED <<group, forming>>
     \/ /\ r.cmd = "P2P_GROUP_ADD" /\ Answer(r, "FAIL")
        /\ UNCHANGED <<attached, group, forming>>
     \/ /\ r.cmd = "P2P_GROUP_ADD" /\ group = 0 /\ ~forming
        /\ Answer(r, "OK") /\ forming' = TRUE /\ UNCHANGED <<attached, group>>
     \/ /\ r.cmd = "P2P_GROUP_REMOVE" /\ Names(r)
        /\ Answer(r, "OK") /\ group' = 0 /\ forming' = FALSE /\ UNCHANGED attached
     \/ /\ r.cmd = "P2P_GROUP_REMOVE" /\ ~Names(r)
        /\ Answer(r, "FAIL") /\ UNCHANGED <<attached, group, forming>>
  /\ UNCHANGED <<sock, opened, group_interface, connected, call, calls, reads, answer, formed>>

FormGroup ==
  /\ forming /\ forming' = FALSE
  /\ \/ /\ formed' = formed + 1 /\ group' = formed'
        /\ Deliver(attached, "P2P-GROUP-STARTED", "event", group')
     \/ /\ Deliver(attached, "other", "event", 0) /\ UNCHANGED <<group, formed>>
  /\ UNCHANGED <<sock, opened, group_interface, connected, call, calls, reads, answer,
                 requests, attached>>

OtherEvent ==
  /\ attached # 0 /\ attached = sock
  /\ Len(SelectSeq(inbox, LAMBDA d : d.what = "other")) < MaxEvents
  /\ Deliver(attached, "other", "event", 0)
  /\ UNCHANGED <<sock, opened, group_interface, connected, call, calls, reads, answer, supplicant>>

-----------------------------------------------------------------------------
\* The process dies and is started again: what it held is gone, what it asked
\* wpa_supplicant for is not.
LoseManager ==
  /\ sock' = 0 /\ inbox' = <<>> /\ group_interface' = 0 /\ connected' = FALSE
  /\ call' = "none" /\ reads' = 0 /\ answer' = 0
  /\ UNCHANGED <<opened, calls, supplicant>>

Converse == Attached \/ Added \/ ReadUntil

Supplicant == HandleRequest \/ FormGroup \/ OtherEvent

\* A request that takes down the group there is waits behind the i-th one.
RemovalFrom(i) ==
  \E j \in i..Len(requests) : /\ requests[j].cmd = "P2P_GROUP_REMOVE"
                              /\ requests[j].iface \in {0, group}

\* A group is up, or may still come up, and nothing on its way takes it down.
GroupMayStay ==
  \/ (group # 0 \/ forming) /\ ~RemovalFrom(1)
  \/ \E i \in 1..Len(requests) : requests[i].cmd = "P2P_GROUP_ADD" /\ ~RemovalFrom(i)
=============================================================================

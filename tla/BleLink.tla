------------------------------- MODULE BleLink -------------------------------
(***************************************************************************)
(* Commands and replies over BLE: ChunkAssembler (chunk-assembler.cpp) and *)
(* the part of BluezBleTransport::OnRawCommand that feeds it, against an   *)
(* app on a link that loses writes (the characteristic is                  *)
(* write-without-response) and notifications, but keeps their order.       *)
(*                                                                         *)
(* A command is cut into Total[c] chunks and the reply into Reply[c]; both *)
(* directions are stop-and-wait on ChunkAcks.  The camera handles one      *)
(* write at a time on the event loop thread: the critical section of       *)
(* OnRawCommand is one action, and the handler of a completed command,     *)
(* which runs after it, with its response another.                         *)
(* The app is external: it sends one command at a time, repeats a chunk or *)
(* an ack when it hears nothing, and may give a command up.                *)
(***************************************************************************)
EXTENDS Naturals, FiniteSets, SequencesExt, FiniteSetsExt

CONSTANTS
  Commands,     \* the commands the app may send, each once; a command cut
                \* again under its id is another one
  Corr,         \* the correlation id of each command
  Total,        \* the number of chunks of each command
  Reply,        \* the number of chunks of the reply to each command
  Nothing,      \* no entry, no command
  MaxInflight,  \* cfg_.max_inflight_inbound
  MaxAir,       \* bound of the model: what is under way when the app writes unasked
  MaxLostUp, MaxLostDown,   \* bounds of the model: losses in each direction
  MaxCentrals   \* bound of the model: centrals that connect one after another

Ids == {Corr[c] : c \in Commands}

ASSUME LinkAssumption ==
  /\ Commands # {} /\ Nothing \notin Commands
  /\ Total \in [Commands -> Nat \ {0}] /\ Reply \in [Commands -> Nat \ {0}]
  /\ MaxInflight \in Nat \ {0}
  \* No entry of inbound_ is taken for none.
  /\ \A c \in Commands : \A D \in SUBSET (0..(Total[c] - 1)) :
       \A f \in [D -> Commands] :
         [total |-> Total[c], received |-> Cardinality(D), parts |-> f] # Nothing

VARIABLES
  up, down,     \* the writes and the notifications under way
  partial,      \* inbound_: the reassembly of each id, or Nothing
  order,        \* inbound_order_
  outbound,     \* outbound_: the reply transfer of each id, or Nothing
  running,      \* Stop() has not reset the assembler
  task,         \* the command whose handler is to run, or Nothing
  cur,          \* the app: the command it is sending, or Nothing
  idx,          \* the app: the chunk of it that is not acked yet
  got,          \* the app: the chunks of the reply it has
  central,      \* which central is connected
  begun,        \* the app: the commands it has begun
  runs,         \* history: how often each command was handled, "Many" at most
  garbled,      \* history: the commands whose last chunk completed another payload
  lostUp, lostDown      \* what has been used of the model's bounds

camera == <<partial, order, outbound, running, task>>
app    == <<cur, idx, got, central, begun>>
budget == <<lostUp, lostDown>>
vars   == <<up, down, partial, order, outbound, running, task, cur, idx, got,
            central, begun, runs, garbled, lostUp, lostDown>>

\* Handled twice stands for any number of times.
Many == 2

Chunk(c, i)   == [kind |-> "chunk", cmd |-> c, index |-> i]
Ack(id, i)    == [kind |-> "ack", id |-> id, index |-> i]
Malformed     == [kind |-> "malformed"]
ReplyPart(c, i) == [kind |-> "reply", cmd |-> c, index |-> i]

\* An entry of inbound_ before its first chunk: the chunks are the function
\* "parts", "received" is the counter kept beside it.
Fresh(c) == [total |-> Total[c], received |-> 0, parts |-> <<>>]

Partials == {id \in Ids : partial[id] # Nothing}

LinkTypeOK ==
  /\ DOMAIN partial = Ids /\ DOMAIN outbound = Ids
  /\ \A id \in Partials : /\ partial[id].received \in 1..(partial[id].total - 1)
                          /\ DOMAIN partial[id].parts \subseteq 0..(partial[id].total - 1)
  /\ order \in Seq(Ids)
  /\ \A id \in Ids : outbound[id] # Nothing =>
                       /\ Reply[outbound[id].cmd] > 1
                       /\ outbound[id].next \in 1..Reply[outbound[id].cmd]
  /\ running \in BOOLEAN /\ task \in Commands \cup {Nothing}
  /\ cur \in Commands \cup {Nothing}
  /\ cur # Nothing => idx \in 0..Total[cur] /\ got \subseteq 0..(Reply[cur] - 1)

Init == /\ up = <<>> /\ down = <<>>
        /\ partial = [id \in Ids |-> Nothing] /\ order = <<>>
        /\ outbound = [id \in Ids |-> Nothing]
        /\ running = TRUE /\ task = Nothing
        /\ cur = Nothing /\ idx = 0 /\ got = {} /\ central = 1
        /\ begun = {}
        /\ runs = [c \in Commands |-> 0] /\ garbled = {}
        /\ lostUp = 0 /\ lostDown = 0

-----------------------------------------------------------------------------
\* The camera: one write at a time.

\* The next write is "w", and no handler is running.
Receive(w) == /\ running
              /\ task = Nothing
              /\ up # <<>>
              /\ w = Head(up)
              /\ up' = Tail(up)
              /\ UNCHANGED <<running, app, budget>>

\* SendInboundAck, then what the write releases.
Notify(notifications) == down' = down \o notifications

\* The lock is dropped, the handler runs, and SendResponse emits chunk 0 of the
\* reply; only a longer reply is kept.  A transfer under the same id is replaced.
RunHandler == \E c \in Commands :
  /\ task = c
  /\ task' = Nothing
  /\ runs' = [runs EXCEPT ![c] = Min({@ + 1, Many})]
  /\ Notify(<<ReplyPart(c, 0)>>)
  /\ outbound' = IF Reply[c] > 1
                   THEN [outbound EXCEPT ![Corr[c]] = [cmd |-> c, next |-> 1]]
                   ELSE outbound
  /\ UNCHANGED <<up, partial, order, running, app, garbled, budget>>

\* A chunk of a reassembly that already has it.
IsDuplicate(c, i) == /\ partial[Corr[c]] # Nothing
                     /\ partial[Corr[c]].total = Total[c]
                     /\ i \in DOMAIN partial[Corr[c]].parts

\* Mutant: a total that differs does not restart the reassembly.
StoredInAnyEntry(c, i) ==
  LET entry == IF partial[Corr[c]] # Nothing THEN partial[Corr[c]] ELSE Fresh(c)
      parts == entry.parts
  IN  [total |-> Total[c], received |-> entry.received + 1,
       parts |-> [j \in {i} \cup DOMAIN parts |-> IF j = i THEN c ELSE parts[j]]]

\* The reassembly after the chunk.  A total that differs restarts it.
Stored(c, i) ==
  LET entry == IF partial[Corr[c]] # Nothing /\ partial[Corr[c]].total = Total[c]
                 THEN partial[Corr[c]]
                 ELSE Fresh(c)
      parts == entry.parts
  IN  [total |-> Total[c], received |-> entry.received + 1,
       parts |-> [j \in {i} \cup DOMAIN parts |-> IF j = i THEN c ELSE parts[j]]]

\* EvictOldestInboundIfFull: the entries that go, from the front of the list,
\* until there is room or the list is empty.
Victims ==
  LET Left(k) == Partials \ ToSet(SubSeq(order, 1, k))
      Enough(k) == Cardinality(Left(k)) < MaxInflight \/ k = Len(order)
  IN  SubSeq(order, 1, CHOOSE k \in 0..Len(order) :
                          Enough(k) /\ \A j \in 0..(k - 1) : ~Enough(j))

\* An undecodable write, a chunk index past the total, a total over the cap:
\* dropped before anything is acked.
ReceiveMalformed ==
  /\ Receive(Malformed)
  /\ UNCHANGED <<down, partial, order, outbound, task, runs, garbled>>

\* total_chunks == 1: no state is kept.
ReceiveSingle == \E c \in Commands :
  /\ Receive(Chunk(c, 0))
  /\ Total[c] = 1
  /\ Notify(<<Ack(Corr[c], 0)>>)
  /\ task' = c
  /\ UNCHANGED <<partial, order, outbound, runs, garbled>>

\* SendInboundAck of a chunk that adds nothing.
AckDuplicateNot(c, i) == UNCHANGED down

AckDuplicate(c, i) == Notify(<<Ack(Corr[c], i)>>)

ReceiveDuplicate == \E c \in Commands : \E i \in 0..(Total[c] - 1) :
  /\ Receive(Chunk(c, i))
  /\ Total[c] > 1
  /\ IsDuplicate(c, i)
  /\ AckDuplicate(c, i)
  /\ UNCHANGED <<partial, order, outbound, task, runs, garbled>>

\* Mutant: at the cap the new reassembly is refused.
KeepUnlessFull(c, i) ==
  IF partial[Corr[c]] = Nothing /\ Cardinality(Partials) >= MaxInflight
    THEN UNCHANGED <<partial, order>>
    ELSE /\ partial' = [partial EXCEPT ![Corr[c]] = Stored(c, i)]
         /\ order' = IF partial[Corr[c]] = Nothing THEN Append(order, Corr[c]) ELSE order

\* The first chunk of an id makes room for the new entry.
Keep(c, i) ==
  LET id == Corr[c]
  IN  IF partial[id] = Nothing
        THEN /\ partial' = [j \in Ids |-> IF j = id THEN Stored(c, i)
                                          ELSE IF j \in ToSet(Victims) THEN Nothing
                                          ELSE partial[j]]
             /\ order' = Append(SubSeq(order, Len(Victims) + 1, Len(order)), id)
        ELSE /\ partial' = [partial EXCEPT ![id] = Stored(c, i)]
             /\ UNCHANGED order

\* A chunk that does not complete its command.
ReceivePart == \E c \in Commands : \E i \in 0..(Total[c] - 1) :
  /\ Receive(Chunk(c, i))
  /\ Total[c] > 1
  /\ ~IsDuplicate(c, i)
  /\ Stored(c, i).received < Total[c]
  /\ Notify(<<Ack(Corr[c], i)>>)
  /\ Keep(c, i)
  /\ UNCHANGED <<outbound, task, runs, garbled>>

\* What the completing chunk delivers: the command all parts belong to, unless
\* the bytes do not parse.
Whole(c, i) == Stored(c, i).parts = [j \in 0..(Total[c] - 1) |-> c]

Erase(id) == /\ partial' = [partial EXCEPT ![id] = Nothing]
             /\ order' = SelectSeq(order, LAMBDA j : j # id)

ReceiveLast == \E c \in Commands : \E i \in 0..(Total[c] - 1) :
  /\ Receive(Chunk(c, i))
  /\ Total[c] > 1
  /\ ~IsDuplicate(c, i)
  /\ Stored(c, i).received = Total[c]
  /\ Erase(Corr[c])
  /\ Notify(<<Ack(Corr[c], i)>>)
  /\ IF Whole(c, i)
       THEN task' = c /\ UNCHANGED garbled
       ELSE garbled' = garbled \cup {c} /\ UNCHANGED task
  /\ UNCHANGED <<outbound, runs>>

\* Mutant: any ack up to the last chunk sent releases the next.
AcksLastSentLoosely(id, i) == i < outbound[id].next

\* The ack the transfer waits for.
AcksLastSent(id, i) == i = outbound[id].next - 1

\* OnAck: the ack of the last chunk sent releases the next one, or ends the
\* transfer; any other is ignored.
ReceiveAck == \E id \in Ids, i \in 0..Max({Reply[c] : c \in Commands}) :
  /\ Receive(Ack(id, i))
  /\ IF outbound[id] # Nothing /\ AcksLastSent(id, i)
       THEN LET c == outbound[id].cmd
                next == outbound[id].next
            IN  IF next < Reply[c]
                  THEN /\ Notify(<<ReplyPart(c, next)>>)
                       /\ outbound' = [outbound EXCEPT ![id].next = @ + 1]
                  ELSE /\ outbound' = [outbound EXCEPT ![id] = Nothing]
                       /\ UNCHANGED down
       ELSE UNCHANGED <<down, outbound>>
  /\ UNCHANGED <<partial, order, task, runs, garbled>>

\* BluezBleTransport::Stop, with the event loop left, which waits for a handler
\* that runs: Reset.
Stop == /\ running
        /\ task = Nothing
        /\ running' = FALSE
        /\ partial' = [id \in Ids |-> Nothing]
        /\ order' = <<>>
        /\ outbound' = [id \in Ids |-> Nothing]
        /\ UNCHANGED <<up, down, task, app, runs, garbled, budget>>

Camera == \/ ReceiveMalformed \/ ReceiveSingle \/ ReceiveDuplicate \/ ReceivePart
          \/ ReceiveLast \/ ReceiveAck \/ RunHandler

-----------------------------------------------------------------------------
\* The app.

Write(w) == up' = Append(up, w)

\* A write that answers nothing is bounded by what is under way already, and needs
\* the characteristic, which goes with the transport.
WriteUnasked(w) == running /\ Len(up) + Len(down) < MaxAir /\ Write(w)

Begin(c) == /\ cur = Nothing /\ c \notin begun
            /\ cur' = c /\ idx' = 0 /\ got' = {}
            /\ begun' = begun \cup {c}
            /\ WriteUnasked(Chunk(c, 0))
            /\ UNCHANGED <<down, camera, central, runs, garbled, budget>>

\* Nothing was heard: the chunk that waits for its ack goes out again, or the
\* last ack of the reply.
Repeat == /\ cur # Nothing
          /\ \/ idx < Total[cur] /\ WriteUnasked(Chunk(cur, idx))
             \/ got # {} /\ WriteUnasked(Ack(Corr[cur], Max(got)))
          /\ UNCHANGED <<down, camera, app, runs, garbled, budget>>

\* It changes nothing, so one when nothing else is under way will do.
SendMalformed == /\ cur # Nothing
                 /\ up = <<>> /\ down = <<>>
                 /\ WriteUnasked(Malformed)
                 /\ UNCHANGED <<down, camera, app, runs, garbled, budget>>

Hear(n) == /\ down # <<>>
           /\ n = Head(down)
           /\ down' = Tail(down)
           /\ UNCHANGED <<camera, central, begun, runs, garbled, budget>>

\* The app forgets its command.
Forget == cur' = Nothing /\ idx' = 0 /\ got' = {}

ForCurrent(id) == cur # Nothing /\ id = Corr[cur]

HearAck == \E id \in Ids, i \in 0..Max({Total[c] : c \in Commands}) :
  /\ Hear(Ack(id, i))
  /\ IF ForCurrent(id) /\ i = idx /\ idx < Total[cur]
       THEN /\ idx' = idx + 1
            /\ IF idx' < Total[cur] THEN Write(Chunk(cur, idx')) ELSE UNCHANGED up
       ELSE UNCHANGED <<up, idx>>
  /\ UNCHANGED <<cur, got>>

\* Every chunk of the reply is acked, and the whole reply ends the command.
HearReply == \E c \in Commands : \E i \in 0..(Reply[c] - 1) :
  /\ Hear(ReplyPart(c, i))
  /\ IF cur = c
       THEN /\ Write(Ack(Corr[c], i))
            /\ got' = got \cup {i}
            /\ cur' = IF got' = 0..(Reply[c] - 1) THEN Nothing ELSE cur
       ELSE UNCHANGED <<up, got, cur>>
  /\ UNCHANGED idx

GiveUp == /\ cur # Nothing
          /\ Forget
          /\ UNCHANGED <<up, down, camera, central, begun, runs, garbled, budget>>

App == (\E c \in Commands : Begin(c)) \/ Repeat \/ SendMalformed \/ HearAck \/ HearReply

-----------------------------------------------------------------------------
\* The link.

LoseWrite == /\ up # <<>> /\ lostUp < MaxLostUp
             /\ up' = Tail(up) /\ lostUp' = lostUp + 1
             /\ UNCHANGED <<down, camera, app, runs, garbled, lostDown>>

LoseNotification == /\ down # <<>> /\ lostDown < MaxLostDown
                    /\ down' = Tail(down) /\ lostDown' = lostDown + 1
                    /\ UNCHANGED <<up, camera, app, runs, garbled, lostUp>>

\* The central goes out of reach; another one comes.  No code of the transport
\* runs.
CentralChanges == /\ central < MaxCentrals
                  /\ central' = central + 1
                  /\ Forget
                  /\ up' = <<>> /\ down' = <<>>
                  /\ UNCHANGED <<camera, begun, runs, garbled, budget>>

Next == Camera \/ Stop \/ App \/ GiveUp \/ LoseWrite \/ LoseNotification
        \/ CentralChanges

Spec == Init /\ [][Next]_vars

\* The camera handles what arrives and the app listens and repeats; losses are
\* bounded.  Nobody has to begin, give up,
\* stop or lose anything.
Fairness == /\ WF_vars(Camera) /\ WF_vars(HearAck) /\ WF_vars(HearReply)
            /\ SF_vars(Repeat)

FairSpec == Spec /\ Fairness

-----------------------------------------------------------------------------
\* Properties.

\* inbound_ and inbound_order_ list the same ids, each once, and no more than
\* the cap: else the cap evicts the wrong entry, or stops working.
OrderMatchesInbound ==
  /\ ToSet(order) = Partials
  /\ Len(order) = Cardinality(Partials)
  /\ Len(order) <= MaxInflight

\* A command that the assembler cannot tell from another one that was begun: it
\* sees the id and the number of chunks.
HasTwin(c) == \E d \in begun \ {c} : Corr[d] = Corr[c] /\ Total[d] = Total[c]

\* What the last chunk of a command completes is that command, all of whose bytes
\* come from its framing, whatever is lost, repeated, given up and cut again
\* under the same id; except when it is cut again into as many chunks, which the
\* assembler joins to those it has.
NeverGarbled == \A c \in garbled : HasTwin(c)

\* No other command has been sent under the id of this one: an ack names the id
\* and the index only, so the app could take that of another one's chunk for its own.
HasOwnId(c) == \A d \in begun \ {c} : Corr[d] # Corr[c]

\* Once every chunk of a command has been acked, the command has been handled, or
\* its handler is the next thing the event loop does: the app may stop repeating
\* it.  Eviction must not touch it, although stale reassemblies are never cleaned
\* up otherwise; and a command of several chunks is not handled again, however
\* often its chunks are repeated.  It needs that the id is not used again.
AckedCommandRan ==
  /\ cur # Nothing /\ HasOwnId(cur) /\ idx = Total[cur] => runs[cur] > 0 \/ task = cur
  /\ \A c \in Commands : HasOwnId(c) /\ Total[c] > 1 => runs[c] <= 1

\* "never sending a chunk ahead of its predecessor's ack": a chunk of the reply
\* is under way only when the app has all the chunks before it; unless the id is
\* used again.
ReplyInTurn ==
  \A n \in ToSet(down) :
    n.kind = "reply" /\ n.cmd = cur /\ HasOwnId(cur) => 0..(n.index - 1) \subseteq got

\* "A duplicate of an already-seen chunk ... contributes nothing new."
RunsAtMostOnce == \A c \in Commands : runs[c] <= 1

\* "so a new central never sees a previous session's half-assembled message or
\* a stale outbound flow-control state"
NewCentralStartsClean ==
  [][central' # central =>
       Partials' = {} /\ \A id \in Ids : outbound'[id] = Nothing]_vars

\* A command the app insists on is handled, whatever is lost on the way; unless its
\* id is used again.  Each command is begun once, so the app cannot leave one for
\* another for ever.
CommandArrives ==
  []<>(cur # Nothing /\ HasOwnId(cur) /\ running => runs[cur] > 0)

\* A reply arrives completely, as long as no notification is lost.
ReplyArrives == \A c \in Commands :
  cur = c ~> cur # c \/ ~running
=============================================================================

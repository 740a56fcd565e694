---------------------------- MODULE BleLinkProofs ----------------------------
(***************************************************************************)
(* What ChunkAssembler guarantees for any commands, chunk counts, caps and *)
(* losses.                                                                 *)
(***************************************************************************)
EXTENDS BleLink, FiniteSetTheorems, TLAPS

-----------------------------------------------------------------------------
(* Reassembly: whatever the app repeats or cuts again, an entry of inbound_ *)
(* holds chunks of commands of its id and its number of chunks, and its     *)
(* counter is their number.                                                 *)

Framing(c) == 0..(Total[c] - 1)

\* The commands that the assembler cannot tell from c, and c.
Alike(c) == {d \in Commands : Corr[d] = Corr[c] /\ Total[d] = Total[c]}

\* The entries that have the chunks D of c, some perhaps of commands alike.
EntriesOf(c, D) == {[total |-> Total[c], received |-> Cardinality(D), parts |-> f] :
                      f \in [D -> Alike(c)]}

\* What the entry of c holds, nothing when it belongs to another framing.
Holds(c, D) == partial[Corr[c]] # Nothing /\ partial[Corr[c]] \in EntriesOf(c, D)

Incomplete(c) == {D \in SUBSET Framing(c) : D # Framing(c)}

PartialsInv ==
  /\ DOMAIN partial = Ids
  /\ \A id \in Partials : \E c \in Commands :
       /\ Corr[c] = id
       /\ Total[c] > 1
       /\ \E D \in Incomplete(c) : Holds(c, D)

LEMMA ChunkCount ==
  ASSUME NEW c \in Commands, NEW D \in SUBSET Framing(c)
  PROVE  /\ IsFiniteSet(D) /\ Cardinality(D) \in Nat
         /\ Cardinality(D) <= Total[c]
         /\ Cardinality(D) = Total[c] <=> D = Framing(c)
         /\ \A i \in Framing(c) \ D : Cardinality(D \cup {i}) = Cardinality(D) + 1
<1>1. Total[c] \in Nat \ {0} /\ 0 \in Int /\ Total[c] - 1 \in Int
  BY LinkAssumption
<1>2. IsFiniteSet(Framing(c)) /\ Cardinality(Framing(c)) = Total[c]
  <2> DEFINE last == Total[c] - 1
  <2>1. last \in Int /\ ~(0 > last) /\ last - 0 + 1 = Total[c]
    BY <1>1
  <2> HIDE DEF last
  <2>2. /\ IsFiniteSet(0..last)
        /\ Cardinality(0..last) = IF 0 > last THEN 0 ELSE last - 0 + 1
    BY <1>1, <2>1, FS_Interval
  <2>3. QED
    BY <2>1, <2>2 DEF Framing, last
<1>3. /\ IsFiniteSet(D) /\ Cardinality(D) \in Nat
      /\ Cardinality(D) <= Cardinality(Framing(c))
      /\ Cardinality(Framing(c)) = Cardinality(D) => D = Framing(c)
  BY <1>2, FS_Subset, FS_CardinalityType
<1>4. \A i \in Framing(c) \ D : Cardinality(D \cup {i}) = Cardinality(D) + 1
  BY <1>3, FS_AddElement
<1>5. QED
  BY <1>2, <1>3, <1>4

\* No entry is taken for none.
LEMMA EntryIsSomething ==
  ASSUME NEW c \in Commands, NEW D \in Incomplete(c)
  PROVE  Nothing \notin EntriesOf(c, D)
<1>1. \A f \in [D -> Alike(c)] : f \in [D -> Commands]
  BY DEF Alike
<1>2. D \in SUBSET (0..(Total[c] - 1))
  BY DEF Incomplete, Framing
<1>3. QED
  BY <1>1, <1>2, LinkAssumption DEF EntriesOf

\* What the entries for the chunks D have in common.
LEMMA EntryParts ==
  ASSUME NEW c, NEW D, NEW entry \in EntriesOf(c, D)
  PROVE  /\ entry.total = Total[c] /\ entry.received = Cardinality(D)
         /\ entry.parts \in [D -> Alike(c)] /\ DOMAIN entry.parts = D
  BY DEF EntriesOf

\* The entry a chunk is stored in: that of its framing, or a fresh one.
LEMMA StoredEntry ==
  ASSUME PartialsInv, NEW c \in Commands, NEW i \in Framing(c), ~IsDuplicate(c, i)
  PROVE  \E D \in Incomplete(c) :
           /\ i \notin D
           /\ Stored(c, i) \in EntriesOf(c, D \cup {i})
           /\ Holds(c, D) \/ D = {}
           /\ partial[Corr[c]] # Nothing /\ partial[Corr[c]].total = Total[c]
                => Holds(c, D)
<1>0. Corr[c] \in Ids /\ c \in Alike(c)
  BY DEF Ids, Alike
<1> DEFINE entry == IF partial[Corr[c]] # Nothing /\ partial[Corr[c]].total = Total[c]
                      THEN partial[Corr[c]]
                      ELSE Fresh(c)
<1>1. ASSUME NEW D \in Incomplete(c), i \notin D, entry.received = Cardinality(D),
             entry.parts \in [D -> Alike(c)]
      PROVE  Stored(c, i) \in EntriesOf(c, D \cup {i})
  <2>1. Cardinality(D \cup {i}) = Cardinality(D) + 1
    BY <1>1, ChunkCount DEF Incomplete
  <2> DEFINE f == [j \in {i} \cup DOMAIN entry.parts |-> IF j = i THEN c ELSE entry.parts[j]]
  <2>2. f \in [D \cup {i} -> Alike(c)]
    BY <1>0, <1>1
  <2>3. Stored(c, i) = [total |-> Total[c], received |-> entry.received + 1, parts |-> f]
    BY DEF Stored
  <2>4. QED
    BY <1>1, <2>1, <2>2, <2>3 DEF EntriesOf
<1>2. CASE partial[Corr[c]] # Nothing /\ partial[Corr[c]].total = Total[c]
  <2>1. PICK d \in Commands : /\ Corr[d] = Corr[c]
                              /\ \E D \in Incomplete(d) : Holds(d, D)
    BY <1>0, <1>2 DEF PartialsInv, Partials
  <2>2. PICK D \in Incomplete(d) : Holds(d, D)
    BY <2>1
  <2>3. Total[d] = Total[c]
    BY <1>2, <2>1, <2>2, EntryParts DEF Holds
  <2>4. Alike(d) = Alike(c) /\ Incomplete(d) = Incomplete(c)
    BY <2>1, <2>3 DEF Alike, Incomplete, Framing
  <2>5. Holds(c, D)
    BY <2>1, <2>2, <2>3, <2>4 DEF Holds, EntriesOf
  <2>6. entry.received = Cardinality(D) /\ entry.parts \in [D -> Alike(c)]
    BY <1>2, <2>5, EntryParts DEF Holds
  <2>7. i \notin D
    BY <1>2, <2>6 DEF IsDuplicate
  <2>8. QED
    BY <1>1, <2>2, <2>4, <2>5, <2>6, <2>7
<1>3. CASE ~(partial[Corr[c]] # Nothing /\ partial[Corr[c]].total = Total[c])
  <2>1. {} \in Incomplete(c)
    BY DEF Incomplete, Framing
  <2>2. entry.received = Cardinality({}) /\ entry.parts \in [{} -> Alike(c)]
    BY <1>3, FS_EmptySet DEF Fresh
  <2>3. Stored(c, i) \in EntriesOf(c, {} \cup {i})
    BY <1>1, <2>1, <2>2
  <2>4. QED
    BY <1>3, <2>1, <2>3
<1>4. QED
  BY <1>2, <1>3

\* The chunk that completes an entry completes its own command, when no chunk in it
\* is of another one that is cut into as many chunks under its id.
LEMMA LastIsWhole ==
  ASSUME PartialsInv, NEW c \in Commands, NEW i \in Framing(c), ~IsDuplicate(c, i),
         Stored(c, i).received = Total[c],
         \A j \in DOMAIN Stored(c, i).parts :
           Stored(c, i).parts[j] \in Alike(c) => Stored(c, i).parts[j] = c
  PROVE  Whole(c, i)
<1>1. PICK D \in Incomplete(c) : i \notin D /\ Stored(c, i) \in EntriesOf(c, D \cup {i})
  BY StoredEntry
<1>2. /\ Stored(c, i).received = Cardinality(D \cup {i})
      /\ Stored(c, i).parts \in [D \cup {i} -> Alike(c)]
  BY <1>1, EntryParts
<1>3. D \cup {i} = Framing(c)
  BY <1>1, <1>2, ChunkCount DEF Incomplete
<1>4. QED
  BY <1>2, <1>3 DEF Whole, Framing

LEMMA PartLeavesIncomplete ==
  ASSUME PartialsInv, NEW c \in Commands, NEW i \in Framing(c), ~IsDuplicate(c, i),
         Stored(c, i).received < Total[c]
  PROVE  \E D \in Incomplete(c) : Stored(c, i) \in EntriesOf(c, D)
<1>1. PICK D \in Incomplete(c) : i \notin D /\ Stored(c, i) \in EntriesOf(c, D \cup {i})
  BY StoredEntry
<1>2. D \cup {i} \in SUBSET Framing(c) /\ Cardinality(D \cup {i}) < Total[c]
  BY <1>1, EntryParts DEF Incomplete
<1>3. /\ Cardinality(D \cup {i}) \in Nat /\ Total[c] \in Nat
      /\ Cardinality(D \cup {i}) = Total[c] <=> D \cup {i} = Framing(c)
  BY <1>2, ChunkCount, LinkAssumption
<1>4. QED
  BY <1>1, <1>2, <1>3 DEF Incomplete

\* Keeping a chunk changes the entry of its id, and evicts at most.
LEMMA KeepFrame ==
  ASSUME DOMAIN partial = Ids, NEW c \in Commands, NEW i, Keep(c, i)
  PROVE  /\ DOMAIN partial' = Ids
         /\ partial'[Corr[c]] = Stored(c, i)
         /\ \A id \in Ids \ {Corr[c]} :
              partial'[id] # partial[id] =>
                partial[Corr[c]] = Nothing /\ partial'[id] = Nothing
<1>1. Corr[c] \in Ids
  BY DEF Ids
<1>2. CASE partial[Corr[c]] = Nothing
  BY <1>1, <1>2 DEF Keep
<1>3. CASE partial[Corr[c]] # Nothing
  BY <1>1, <1>3 DEF Keep
<1>4. QED
  BY <1>2, <1>3

\* A step changes no entry but one that it stores a chunk in, or it empties some.
LEMMA PartialsStepInv == PartialsInv /\ [Next]_vars => PartialsInv'
<1> SUFFICES ASSUME PartialsInv, [Next]_vars PROVE PartialsInv'
  OBVIOUS
<1>1. ASSUME /\ DOMAIN partial' = Ids
             /\ \A id \in Ids : partial'[id] \in {partial[id], Nothing}
      PROVE  PartialsInv'
  BY <1>1 DEF PartialsInv, Partials, Holds
<1>2. CASE ReceivePart
  <2>0. PICK c \in Commands : \E i \in Framing(c) :
          /\ Total[c] > 1 /\ ~IsDuplicate(c, i) /\ Stored(c, i).received < Total[c]
          /\ Keep(c, i)
    BY <1>2 DEF ReceivePart, Framing
  <2>1. PICK i \in Framing(c) :
          /\ Total[c] > 1 /\ ~IsDuplicate(c, i) /\ Stored(c, i).received < Total[c]
          /\ Keep(c, i)
    BY <2>0
  <2>2. PICK D \in Incomplete(c) : Stored(c, i) \in EntriesOf(c, D)
    BY <2>1, PartLeavesIncomplete
  <2>3. /\ DOMAIN partial' = Ids
        /\ partial'[Corr[c]] = Stored(c, i)
        /\ \A id \in Ids \ {Corr[c]} : partial'[id] \in {partial[id], Nothing}
    BY <2>1, KeepFrame DEF PartialsInv
  <2>4. QED
    BY <2>1, <2>2, <2>3 DEF PartialsInv, Partials, Holds
<1>3. CASE ReceiveLast
  BY <1>1, <1>3 DEF ReceiveLast, Erase, PartialsInv
<1>4. CASE Stop
  BY <1>1, <1>4 DEF Stop
<1>5. CASE UNCHANGED partial
  BY <1>1, <1>5 DEF PartialsInv
<1>6. QED
  BY ONLY [Next]_vars, <1>2, <1>3, <1>4, <1>5
  DEF Next, Camera, App, vars, camera, ReceiveMalformed, ReceiveSingle,
      ReceiveDuplicate, ReceiveAck, RunHandler, Begin, Repeat, SendMalformed, HearAck, HearReply,
      Hear, GiveUp, LoseWrite, LoseNotification, CentralChanges

LEMMA PartialsInitInv == Init => PartialsInv
  BY DEF Init, PartialsInv, Partials

\* What is under way to the camera and what the camera holds was begun; of an ack
\* only that it is none of that matters.
AckIndex == Nat \cup {Max(g) : g \in SUBSET Nat}

UnderWay == {Malformed} \cup {Chunk(c, i) : c \in begun, i \in Nat}
            \cup {Ack(id, i) : id \in Ids, i \in AckIndex}

BegunInv ==
  /\ begun \subseteq Commands /\ cur \in begun \cup {Nothing}
  /\ idx \in Nat /\ got \subseteq Nat
  /\ up \in Seq(UnderWay)
  /\ \A id \in Partials : \A j \in DOMAIN partial[id].parts : partial[id].parts[j] \in begun

\* The chunk that is stored, and those it is stored with, were begun.
LEMMA StoredBegun ==
  ASSUME BegunInv, NEW c \in begun, NEW i
  PROVE  \A j \in DOMAIN Stored(c, i).parts : Stored(c, i).parts[j] \in begun
<1>1. Corr[c] \in Ids
  BY DEF BegunInv, Ids
<1>2. CASE partial[Corr[c]] # Nothing /\ partial[Corr[c]].total = Total[c]
  BY <1>1, <1>2 DEF BegunInv, Partials, Stored
<1>3. CASE ~(partial[Corr[c]] # Nothing /\ partial[Corr[c]].total = Total[c])
  BY <1>3 DEF Stored, Fresh
<1>4. QED
  BY <1>2, <1>3

\* A chunk at the head of the queue is one of a command that was begun.
LEMMA ReceivedIsBegun ==
  ASSUME BegunInv, NEW c, NEW i, Receive(Chunk(c, i))
  PROVE  c \in begun
<1>1. up # <<>> /\ Head(up) \in UnderWay /\ Head(up) = Chunk(c, i)
  BY DEF Receive, BegunInv
<1>2. Chunk(c, i) # Malformed /\ \A d, j : Chunk(c, i) # Ack(d, j)
  BY DEF Chunk, Ack, Malformed
<1>3. PICK d \in begun : \E j \in Nat : Chunk(c, i) = Chunk(d, j)
  BY <1>1, <1>2 DEF UnderWay
<1>4. QED
  BY <1>3 DEF Chunk

LEMMA BegunInitInv == Init => BegunInv
<1> SUFFICES ASSUME Init PROVE BegunInv
  OBVIOUS
<1>1. up \in Seq(UnderWay)
  BY DEF Init
<1>2. QED
  BY <1>1 DEF Init, BegunInv, Partials

\* Nothing is unbegun, and what is written is a repetition or the next chunk.
LEMMA BegunStepInv == BegunInv /\ PartialsInv /\ [Next]_vars => BegunInv'
<1> SUFFICES ASSUME BegunInv, PartialsInv, [Next]_vars PROVE BegunInv'
  OBVIOUS
<1>1. DOMAIN partial = Ids /\ \A c \in Commands : Corr[c] \in Ids
  BY DEF PartialsInv, Ids
<1>2. ASSUME begun \subseteq begun' PROVE UnderWay \subseteq UnderWay'
  BY <1>2 DEF UnderWay
<1>3. /\ up # <<>> => Tail(up) \in Seq(UnderWay) /\ Head(up) \in UnderWay
      /\ \A w \in UnderWay : Append(up, w) \in Seq(UnderWay)
  BY DEF BegunInv
<1>4. ASSUME UNCHANGED <<cur, idx, got, begun>>, up' = up \/ (up # <<>> /\ up' = Tail(up)),
             \A id \in Ids : partial'[id] \in {partial[id], Nothing}, DOMAIN partial' = Ids
      PROVE  BegunInv'
  <2>1. UnderWay' = UnderWay
    BY <1>4 DEF UnderWay
  <2>2. up' \in Seq(UnderWay)
    BY <1>3, <1>4 DEF BegunInv
  <2>3. QED
    BY <1>4, <2>1, <2>2 DEF BegunInv, Partials
<1>5. CASE ReceivePart
  <2>1. PICK c \in Commands : \E i \in Framing(c) : Receive(Chunk(c, i)) /\ Keep(c, i)
    BY <1>5 DEF ReceivePart, Framing
  <2>2. PICK i \in Framing(c) : Receive(Chunk(c, i)) /\ Keep(c, i)
    BY <2>1
  <2>3. /\ up # <<>> /\ up' = Tail(up) /\ UNCHANGED <<cur, idx, got, begun>>
    BY <2>2 DEF Receive, app
  <2>4. \A j \in DOMAIN Stored(c, i).parts : Stored(c, i).parts[j] \in begun
    BY <2>2, ReceivedIsBegun, StoredBegun
  <2>5. \A id \in Ids : partial'[id] \in {partial[id], Nothing, Stored(c, i)}
    BY <1>1, <2>2, KeepFrame
  <2>6. UnderWay' = UnderWay
    BY <2>3 DEF UnderWay
  <2>7. QED
    BY <1>3, <2>3, <2>4, <2>5, <2>6 DEF BegunInv, Partials
<1>6. CASE ReceiveLast
  <2>1. /\ up # <<>> /\ up' = Tail(up) /\ UNCHANGED <<cur, idx, got, begun>>
        /\ DOMAIN partial' = Ids
        /\ \A id \in Ids : partial'[id] \in {partial[id], Nothing}
    BY <1>1, <1>6 DEF ReceiveLast, Receive, Erase, app
  <2>2. QED
    BY <1>4, <2>1
<1>7. CASE ReceiveMalformed \/ ReceiveSingle \/ ReceiveDuplicate \/ ReceiveAck
  <2>1. up # <<>> /\ up' = Tail(up) /\ UNCHANGED <<cur, idx, got, begun, partial>>
    BY <1>7 DEF ReceiveMalformed, ReceiveSingle, ReceiveDuplicate, ReceiveAck, Receive, app
  <2>2. QED
    BY <1>1, <1>4, <2>1
<1>8. CASE RunHandler \/ Stop \/ LoseWrite \/ LoseNotification \/ UNCHANGED vars
  <2>1. /\ UNCHANGED <<cur, idx, got, begun>>
        /\ up' = up \/ (up # <<>> /\ up' = Tail(up))
        /\ DOMAIN partial' = Ids
        /\ \A id \in Ids : partial'[id] \in {partial[id], Nothing}
    BY <1>1, <1>8 DEF RunHandler, Stop, LoseWrite, LoseNotification, vars, app, camera
  <2>2. QED
    BY <1>4, <2>1
<1>9. CASE GiveUp \/ CentralChanges
  <2>1. Forget /\ up' \in {up, <<>>} /\ UNCHANGED <<begun, partial>>
    BY <1>9 DEF GiveUp, CentralChanges, camera
  <2>2. UnderWay' = UnderWay
    BY <2>1 DEF UnderWay
  <2>3. up' \in Seq(UnderWay)
    <3>1. <<>> \in Seq(UnderWay)
      OBVIOUS
    <3>2. QED
      BY <2>1, <3>1 DEF BegunInv
  <2>4. QED
    BY <2>1, <2>2, <2>3 DEF BegunInv, Partials, Forget
<1>10. ASSUME cur # Nothing, cur' \in {cur, Nothing}, idx' \in Nat, got' \subseteq Nat,
              UNCHANGED <<begun, partial>>,
              up' = up \/ \E w \in UnderWay : up' = Append(up, w)
       PROVE  BegunInv'
  <2>1. UnderWay' = UnderWay
    BY <1>10 DEF UnderWay
  <2>2. up' \in Seq(UnderWay)
    BY <1>3, <1>10 DEF BegunInv
  <2>3. QED
    BY <1>10, <2>1, <2>2 DEF BegunInv, Partials
<1>11. ASSUME NEW c \in Commands, Begin(c) PROVE BegunInv'
  <2>1. /\ cur' = c /\ idx' = 0 /\ got' = {} /\ begun' = begun \cup {c}
        /\ up' = Append(up, Chunk(c, 0)) /\ UNCHANGED partial
    BY <1>11 DEF Begin, WriteUnasked, Write, camera
  <2>2. up \in Seq(UnderWay') /\ Chunk(c, 0) \in UnderWay'
    <3>1. UnderWay \subseteq UnderWay'
      BY <1>2, <2>1
    <3>2. \A S, T : S \subseteq T => \A q \in Seq(S) : q \in Seq(T)
      OBVIOUS
    <3>3. up \in Seq(UnderWay')
      BY <3>1, <3>2 DEF BegunInv
    <3>4. Chunk(c, 0) \in UnderWay'
      BY <2>1 DEF UnderWay
    <3>5. QED
      BY <3>3, <3>4
  <2>3. up' \in Seq(UnderWay')
    BY <2>1, <2>2
  <2>4. QED
    BY <2>1, <2>3 DEF BegunInv, Partials
<1>12. \A i \in AckIndex : cur \in Commands => Ack(Corr[cur], i) \in UnderWay
  BY <1>1 DEF UnderWay
<1>13. CASE Repeat
  <2>1. cur \in Commands /\ cur # Nothing /\ UNCHANGED <<cur, idx, got, begun, partial>>
    BY <1>13 DEF Repeat, app, camera, BegunInv
  <2>2. Chunk(cur, idx) \in UnderWay /\ Ack(Corr[cur], Max(got)) \in UnderWay
    <3>1. Max(got) \in AckIndex
      BY DEF AckIndex, BegunInv
    <3>2. QED
      BY <1>12, <2>1, <3>1 DEF UnderWay, BegunInv
  <2>3. up' = Append(up, Chunk(cur, idx)) \/ up' = Append(up, Ack(Corr[cur], Max(got)))
    BY <1>13 DEF Repeat, WriteUnasked, Write
  <2>4. QED
    BY <1>10, <2>1, <2>2, <2>3 DEF BegunInv
<1>14. CASE SendMalformed
  <2>1. /\ cur # Nothing /\ up' = Append(up, Malformed)
        /\ UNCHANGED <<cur, idx, got, begun, partial>>
    BY <1>14 DEF SendMalformed, WriteUnasked, Write, app, camera
  <2>2. Malformed \in UnderWay
    BY DEF UnderWay
  <2>3. QED
    BY <1>10, <2>1, <2>2 DEF BegunInv
<1>15. CASE HearAck
  <2>1. UNCHANGED <<cur, got, begun, partial>>
    BY <1>15 DEF HearAck, Hear, camera
  <2>2. CASE UNCHANGED <<up, idx>>
    BY <1>1, <1>4, <2>1, <2>2
  <2>3. CASE cur # Nothing /\ idx' = idx + 1 /\ (up' = up \/ up' = Append(up, Chunk(cur, idx')))
    <3>1. idx' \in Nat /\ Chunk(cur, idx') \in UnderWay
      BY <2>3 DEF BegunInv, UnderWay
    <3>2. QED
      BY <1>10, <2>1, <2>3, <3>1 DEF BegunInv
  <2>4. QED
    BY <1>15, <2>2, <2>3 DEF HearAck, Write, ForCurrent
<1>16. CASE HearReply
  <2>1. UNCHANGED <<idx, begun, partial>>
    BY <1>16 DEF HearReply, Hear, camera
  <2>2. CASE UNCHANGED <<up, got, cur>>
    BY <1>1, <1>4, <2>1, <2>2
  <2>3. ASSUME NEW c \in Commands, NEW i \in 0..(Reply[c] - 1), cur = c,
               up' = Append(up, Ack(Corr[c], i)), got' = got \cup {i}, cur' \in {cur, Nothing}
        PROVE  BegunInv'
    <3>1. i \in Nat /\ i \in AckIndex /\ cur # Nothing
      BY <2>3, LinkAssumption DEF AckIndex
    <3>2. QED
      BY <1>10, <1>12, <2>1, <2>3, <3>1 DEF BegunInv
  <2>4. QED
    BY <1>16, <2>2, <2>3 DEF HearReply, Write
<1>17. QED
  BY ONLY [Next]_vars, <1>5, <1>6, <1>7, <1>8, <1>9, <1>11, <1>13, <1>14, <1>15, <1>16
  DEF Next, Camera, App

\* However the chunks of commands are repeated, cut again under their ids, lost and
\* mixed, what a completed reassembly hands to the decoder is one whole command;
\* except when a command is cut again into as many chunks.
THEOREM NothingGarbled == Spec => []NeverGarbled
<1>1. Init => NeverGarbled
  BY DEF Init, NeverGarbled
<1>2. begun \subseteq Commands /\ [Next]_vars => begun \subseteq begun'
  BY DEF Next, Camera, App, vars, app, ReceiveMalformed, ReceiveSingle, ReceiveDuplicate,
         ReceivePart, ReceiveLast, ReceiveAck, Receive, RunHandler, Stop, Begin, Repeat,
         SendMalformed, HearAck, HearReply, Hear, GiveUp, LoseWrite, LoseNotification,
         CentralChanges
<1>3. NeverGarbled /\ BegunInv /\ PartialsInv /\ [Next]_vars => NeverGarbled'
  <2> SUFFICES ASSUME NeverGarbled, BegunInv, PartialsInv, [Next]_vars PROVE NeverGarbled'
    OBVIOUS
  <2>0. \A c : HasTwin(c) => HasTwin(c)'
    BY <1>2 DEF HasTwin, BegunInv
  <2>1. CASE ReceiveLast
    <3>1. PICK c \in Commands : \E i \in Framing(c) :
            /\ ~IsDuplicate(c, i) /\ Stored(c, i).received = Total[c]
            /\ Receive(Chunk(c, i))
            /\ garbled' \in {garbled, garbled \cup {c}}
            /\ Whole(c, i) => garbled' = garbled
      BY <2>1 DEF ReceiveLast, Framing
    <3>2. PICK i \in Framing(c) :
            /\ ~IsDuplicate(c, i) /\ Stored(c, i).received = Total[c]
            /\ Receive(Chunk(c, i))
            /\ garbled' \in {garbled, garbled \cup {c}}
            /\ Whole(c, i) => garbled' = garbled
      BY <3>1
    <3>3. \A j \in DOMAIN Stored(c, i).parts : Stored(c, i).parts[j] \in begun
      BY <3>2, ReceivedIsBegun, StoredBegun
    <3>4. ~HasTwin(c) => Whole(c, i)
      BY <3>2, <3>3, LastIsWhole DEF HasTwin, Alike
    <3>5. QED
      BY <2>0, <3>2, <3>4 DEF NeverGarbled
  <2>2. CASE UNCHANGED garbled
    BY <2>0, <2>2 DEF NeverGarbled
  <2>3. QED
    BY ONLY [Next]_vars, <2>1, <2>2
    DEF Next, Camera, App, vars, ReceiveMalformed, ReceiveSingle, ReceiveDuplicate,
        ReceivePart, ReceiveAck, RunHandler, Stop, Begin, Repeat, SendMalformed, HearAck,
        HearReply, Hear, GiveUp, LoseWrite, LoseNotification, CentralChanges
<1>4. QED
  BY <1>1, <1>3, PartialsInitInv, PartialsStepInv, BegunInitInv, BegunStepInv, PTL DEF Spec

-----------------------------------------------------------------------------
(***************************************************************************)
(* The link.  While ids are not reused for another framing, the camera and *)
(* the app agree on how far they are.                                      *)
(***************************************************************************)
\* How often the camera took a command for its handler, which may be yet to run.
Taken == [c \in Commands |-> IF task = c THEN Min({runs[c] + 1, Many}) ELSE runs[c]]

TaskTypes == runs \in [Commands -> 0..Many] /\ task \in Commands \cup {Nothing}

OneFramingEach == \A c, d \in Commands : Corr[c] = Corr[d] => c = d

Writes == (UNION {{Chunk(c, i) : i \in Framing(c)} : c \in Commands})
          \cup {Ack(id, i) : id \in Ids, i \in Nat} \cup {Malformed}
Notifications == {Ack(id, i) : id \in Ids, i \in Nat}
                 \cup {ReplyPart(c, i) : c \in Commands, i \in Nat}

LinkTypes ==
  /\ up \in Seq(Writes) /\ down \in Seq(Notifications)
  /\ cur \in Commands \cup {Nothing} /\ idx \in Nat
  /\ \E n \in Nat : got = 0..(n - 1)
  /\ central \in Nat \ {0} /\ begun \subseteq Commands
  /\ Taken \in [Commands -> 0..Many] /\ running \in BOOLEAN
  /\ DOMAIN outbound = Ids
  /\ \A id \in Ids : outbound[id] # Nothing =>
       /\ outbound[id].cmd \in Commands /\ Corr[outbound[id].cmd] = id
       /\ outbound[id].next \in Nat \ {0}

\* What the app has not begun has left no trace.
NoTraceBefore ==
  \A c \in Commands : c \notin begun =>
    /\ cur # c /\ Taken[c] = 0 /\ partial[Corr[c]] = Nothing
    /\ \A i \in Nat : /\ Chunk(c, i) \notin ToSet(up) /\ Ack(Corr[c], i) \notin ToSet(up)
                      /\ ReplyPart(c, i) \notin ToSet(down)
                      /\ Ack(Corr[c], i) \notin ToSet(down)

\* The app has everything up to what it acks, and up to what is on its way.
AppKeepsUp ==
  cur # Nothing => \A i \in Nat :
    /\ Ack(Corr[cur], i) \in ToSet(up) => 0..i \subseteq got
    /\ ReplyPart(cur, i) \in ToSet(down) => 0..(i - 1) \subseteq got

\* The chunks of a command are under way in their order, and those of the command
\* the app is sending are last.
InOrder ==
  \A j, k \in 1..Len(up) : j < k =>
    \A c, d \in Commands : \A m, n \in Nat :
      up[j] = Chunk(c, m) /\ up[k] = Chunk(d, n) =>
        /\ c = d => m <= n
        /\ c = cur => d = cur

\* The camera never has a chunk that comes after one still under way, and of a
\* command that ran only the last chunk is left.
NoneOvertaken ==
  \A c \in Commands :
    /\ Total[c] > 1 => Taken[c] <= 1
    /\ partial[Corr[c]] # Nothing =>
         \A p \in DOMAIN partial[Corr[c]].parts :
           /\ \A k \in Nat : Chunk(c, k) \in ToSet(up) => p <= k
           /\ cur = c => p <= idx
           /\ Taken[c] > 0 => p = Total[c] - 1
    /\ Taken[c] > 0 =>
         /\ \A k \in Nat : Chunk(c, k) \in ToSet(up) => k = Total[c] - 1
         /\ cur = c => idx >= Total[c] - 1

\* The camera has c up to chunk i.
Has(c, i) ==
  \/ Taken[c] > 0
  \/ /\ i < Total[c] - 1
     /\ running => /\ partial[Corr[c]] # Nothing
                   /\ 0..i \subseteq DOMAIN partial[Corr[c]].parts

CameraKeepsUp ==
  cur # Nothing =>
    /\ idx <= Total[cur]
    /\ \A i \in Nat : Chunk(cur, i) \in ToSet(up) => i <= idx
    /\ \A i \in Nat : Ack(Corr[cur], i) \in ToSet(down) \/ i < idx => Has(cur, i)
    /\ partial[Corr[cur]] # Nothing =>
         \A d \in Commands : \A i \in Nat : Chunk(d, i) \in ToSet(up) => d = cur

LinkInv == /\ OneFramingEach /\ PartialsInv /\ LinkTypes /\ NoTraceBefore
           /\ AppKeepsUp /\ InOrder /\ NoneOvertaken /\ CameraKeepsUp

LEMMA CountedTwice ==
  \A n \in 0..Many : /\ Min({n + 1, Many}) \in 1..Many /\ n <= Min({n + 1, Many})
                     /\ n = 0 => Min({n + 1, Many}) = 1
  BY DEF Min, Many

LEMMA TakenCounts ==
  ASSUME TaskTypes
  PROVE  /\ Taken \in [Commands -> 0..Many]
         /\ \A c \in Commands : /\ Taken[c] > 0 => runs[c] > 0 \/ task = c
                                /\ task = c => Taken[c] > 0
                                /\ task = Nothing => Taken[c] = runs[c]
                                /\ runs[c] <= Taken[c]
<1>1. \A c \in Commands : runs[c] \in 0..Many
  BY DEF TaskTypes
<1>2. \A c \in Commands :
        /\ Min({runs[c] + 1, Many}) \in 1..Many /\ runs[c] <= Min({runs[c] + 1, Many})
  BY <1>1, CountedTwice
<1>3. \A c \in Commands :
        /\ task = c => Taken[c] \in 1..Many /\ runs[c] <= Taken[c]
        /\ task # c => Taken[c] = runs[c]
  BY <1>2 DEF Taken
<1>4. \A c \in Commands : Taken[c] \in 0..Many
  BY <1>1, <1>3 DEF Many
<1>5. Taken \in [Commands -> 0..Many]
  BY <1>4 DEF Taken
<1>6. QED
  BY <1>1, <1>3, <1>5, LinkAssumption DEF Many

LEMMA TaskTypesStep == TaskTypes /\ [Next]_vars => TaskTypes'
<1> SUFFICES ASSUME TaskTypes, [Next]_vars PROVE TaskTypes'
  OBVIOUS
<1>1. CASE RunHandler
  <2>1. PICK c \in Commands : /\ task' = Nothing
                              /\ runs' = [runs EXCEPT ![c] = Min({runs[c] + 1, Many})]
    BY <1>1 DEF RunHandler
  <2>2. Min({runs[c] + 1, Many}) \in 0..Many
    BY CountedTwice DEF TaskTypes, Many
  <2>3. QED
    BY <2>1, <2>2 DEF TaskTypes
<1>2. CASE runs' = runs /\ task' \in Commands \cup {task}
  BY <1>2 DEF TaskTypes
<1>3. QED
  BY ONLY [Next]_vars, <1>1, <1>2
  DEF Next, Camera, App, vars, camera, ReceiveMalformed, ReceiveSingle, ReceiveDuplicate,
      ReceivePart, ReceiveLast, ReceiveAck, Stop, Begin, Repeat, SendMalformed, HearAck,
      HearReply, Hear, GiveUp, LoseWrite, LoseNotification, CentralChanges

\* What tells the messages apart.
LEMMA Messages ==
  ASSUME NEW c, NEW d, NEW i, NEW j
  PROVE  /\ Chunk(c, i) = Chunk(d, j) => c = d /\ i = j
         /\ Ack(c, i) = Ack(d, j) => c = d /\ i = j
         /\ ReplyPart(c, i) = ReplyPart(d, j) => c = d /\ i = j
         /\ Chunk(c, i) # Ack(d, j) /\ Chunk(c, i) # Malformed /\ Ack(c, i) # Malformed
         /\ Ack(c, i) # ReplyPart(d, j)
<1>1. /\ Chunk(c, i).kind = "chunk" /\ Ack(c, i).kind = "ack"
      /\ Ack(d, j).kind = "ack" /\ ReplyPart(d, j).kind = "reply"
      /\ Malformed.kind = "malformed"
  BY DEF Chunk, Ack, ReplyPart, Malformed
<1>2. QED
  BY <1>1 DEF Chunk, Ack, ReplyPart

LEMMA WritesAndNotifications ==
  /\ \A c \in Commands : \A i \in Framing(c) : Chunk(c, i) \in Writes
  /\ \A c \in Commands, i \in Nat : Ack(Corr[c], i) \in Writes \cap Notifications
  /\ \A c \in Commands, i \in Nat : ReplyPart(c, i) \in Notifications
  /\ Malformed \in Writes
  /\ \A c \in Commands : \A i : Chunk(c, i) \in Writes => i \in Framing(c)
  /\ \A id, i : Ack(id, i) \in Writes \cup Notifications => i \in Nat
  /\ \A c, i : ReplyPart(c, i) \in Notifications => i \in Nat
<1>1. \A c \in Commands : \A i : Chunk(c, i) \in Writes => i \in Framing(c)
  <2> SUFFICES ASSUME NEW c \in Commands, NEW i, Chunk(c, i) \in Writes
               PROVE  i \in Framing(c)
    OBVIOUS
  <2>1. \E d \in Commands : \E j \in Framing(d) : Chunk(c, i) = Chunk(d, j)
    BY Messages DEF Writes
  <2>2. QED
    BY <2>1, Messages
<1>2. \A id, i : Ack(id, i) \in Writes \cup Notifications => i \in Nat
  <2> SUFFICES ASSUME NEW id, NEW i, Ack(id, i) \in Writes \cup Notifications
               PROVE  i \in Nat
    OBVIOUS
  <2>1. /\ \A d, j : Ack(id, i) # Chunk(d, j) /\ Ack(id, i) # ReplyPart(d, j)
        /\ Ack(id, i) # Malformed
    BY Messages
  <2>2. \E d \in Ids : \E j \in Nat : Ack(id, i) = Ack(d, j)
    BY <2>1 DEF Writes, Notifications
  <2>3. QED
    BY <2>2, Messages
<1>3. \A c, i : ReplyPart(c, i) \in Notifications => i \in Nat
  BY Messages DEF Notifications
<1>4. QED
  BY <1>1, <1>2, <1>3 DEF Writes, Notifications, Ids

LEMMA SequenceTail ==
  ASSUME NEW S, NEW s \in Seq(S), s # <<>>
  PROVE  /\ Head(s) \in ToSet(s) /\ Head(s) \in S /\ Head(s) = s[1]
         /\ Tail(s) \in Seq(S) /\ ToSet(Tail(s)) \subseteq ToSet(s)
         /\ Len(s) \in Nat \ {0} /\ Len(Tail(s)) = Len(s) - 1
         /\ \A j \in 1..Len(Tail(s)) : Tail(s)[j] = s[j + 1]
  BY DEF ToSet

LEMMA SequenceAppend ==
  ASSUME NEW S, NEW s \in Seq(S), NEW e \in S
  PROVE  /\ Append(s, e) \in Seq(S) /\ ToSet(Append(s, e)) = ToSet(s) \cup {e}
         /\ Len(s) \in Nat /\ Len(Append(s, e)) = Len(s) + 1
         /\ \A j \in 1..Len(s) : Append(s, e)[j] = s[j]
         /\ Append(s, e)[Len(s) + 1] = e
  BY DEF ToSet

LEMMA SequenceConcat ==
  ASSUME NEW S, NEW s \in Seq(S)
  PROVE  /\ \A e \in S : /\ s \o <<e>> \in Seq(S)
                         /\ ToSet(s \o <<e>>) = ToSet(s) \cup {e}
         /\ \A e, f \in S : /\ s \o <<e, f>> \in Seq(S)
                            /\ ToSet(s \o <<e, f>>) = ToSet(s) \cup {e, f}
<1>1. \A t \in Seq(S) : \A e \in S : /\ Append(t, e) \in Seq(S)
                                     /\ ToSet(Append(t, e)) = ToSet(t) \cup {e}
  BY SequenceAppend
<1>2. ASSUME NEW e \in S
      PROVE  /\ s \o <<e>> \in Seq(S)
             /\ ToSet(s \o <<e>>) = ToSet(s) \cup {e}
  <2>1. s \o <<e>> = Append(s, e)
    OBVIOUS
  <2>2. QED
    BY <1>1, <2>1
<1>3. ASSUME NEW e \in S, NEW f \in S
      PROVE  /\ s \o <<e, f>> \in Seq(S)
             /\ ToSet(s \o <<e, f>>) = ToSet(s) \cup {e, f}
  <2>1. s \o <<e, f>> = Append(Append(s, e), f)
    OBVIOUS
  <2> DEFINE t == Append(s, e)
  <2>2. t \in Seq(S) /\ ToSet(t) = ToSet(s) \cup {e}
    BY <1>1
  <2> HIDE DEF t
  <2>3. Append(t, f) \in Seq(S) /\ ToSet(Append(t, f)) = ToSet(t) \cup {f}
    BY <1>1, <2>2
  <2>4. Append(t, f) = s \o <<e, f>>
    BY <2>1 DEF t
  <2>5. QED
    BY <2>2, <2>3, <2>4
<1>4. QED
  BY <1>2, <1>3

LEMMA SequenceMember ==
  ASSUME NEW S, NEW s \in Seq(S)
  PROVE  /\ ToSet(s) \subseteq S
         /\ \A e : e \in ToSet(s) <=> \E j \in 1..Len(s) : s[j] = e
  BY DEF ToSet

LEMMA NothingUnderWay == ToSet(<<>>) = {}
  BY DEF ToSet

LEMMA InitLinkInv == Init /\ OneFramingEach => LinkInv
<1> SUFFICES ASSUME Init, OneFramingEach PROVE LinkInv
  OBVIOUS
<1> USE DEF Init
<1>1. PartialsInv
  BY PartialsInitInv
<1>2. up = <<>> /\ down = <<>> /\ ToSet(up) = {} /\ ToSet(down) = {}
  BY NothingUnderWay
<1>3. LinkTypes /\ \A c \in Commands : Taken[c] = 0
  <2>1. got = 0..(0 - 1)
    OBVIOUS
  <2>2. Taken = [c \in Commands |-> 0]
    BY LinkAssumption DEF Taken
  <2>3. QED
    BY <2>1, <2>2 DEF LinkTypes, Many
<1>4. NoTraceBefore
  BY <1>2, <1>3, LinkAssumption DEF NoTraceBefore, Ids
<1>5. AppKeepsUp /\ InOrder /\ NoneOvertaken /\ CameraKeepsUp
  BY <1>2, <1>3, LinkAssumption
  DEF AppKeepsUp, InOrder, NoneOvertaken, CameraKeepsUp, Ids
<1>6. QED
  BY <1>1, <1>3, <1>4, <1>5 DEF LinkInv

\* What is under way only gets less.
FewerWrites == up' \in {up, <<>>} \/ (up # <<>> /\ up' = Tail(up))
Fewer == /\ FewerWrites
         /\ down' \in {down, <<>>} \/ (down # <<>> /\ down' = Tail(down))

LEMMA FewerMessages ==
  ASSUME LinkTypes, Fewer
  PROVE  /\ up' \in Seq(Writes) /\ down' \in Seq(Notifications)
         /\ ToSet(up') \subseteq ToSet(up) /\ ToSet(down') \subseteq ToSet(down)
<1>1. up \in Seq(Writes) /\ down \in Seq(Notifications)
  BY DEF LinkTypes
<1>2. /\ up # <<>> => /\ Tail(up) \in Seq(Writes)
                     /\ ToSet(Tail(up)) \subseteq ToSet(up)
      /\ down # <<>> => /\ Tail(down) \in Seq(Notifications)
                       /\ ToSet(Tail(down)) \subseteq ToSet(down)
  BY <1>1, SequenceTail
<1>3. up' \in Seq(Writes) /\ ToSet(up') \subseteq ToSet(up)
  <2>1. CASE up' = up
    BY <1>1, <2>1
  <2>2. CASE up' = <<>>
    BY <2>2, NothingUnderWay
  <2>3. CASE up # <<>> /\ up' = Tail(up)
    BY <1>2, <2>3
  <2>4. QED
    BY <2>1, <2>2, <2>3 DEF Fewer, FewerWrites
<1>4. down' \in Seq(Notifications) /\ ToSet(down') \subseteq ToSet(down)
  <2>1. CASE down' = down
    BY <1>1, <2>1
  <2>2. CASE down' = <<>>
    BY <2>2, NothingUnderWay
  <2>3. CASE down # <<>> /\ down' = Tail(down)
    BY <1>2, <2>3
  <2>4. QED
    BY <2>1, <2>2, <2>3 DEF Fewer, FewerWrites
<1>5. QED
  BY <1>3, <1>4

LEMMA FewerInOrder ==
  ASSUME LinkTypes, InOrder, FewerWrites, cur' \in {cur, Nothing}
  PROVE  InOrder'
<1>1. CASE up' = up
  BY <1>1, LinkAssumption DEF InOrder
<1>2. CASE up' = <<>>
  BY <1>2 DEF InOrder
<1>3. CASE up # <<>> /\ up' = Tail(up)
  <2>1. /\ Len(up) \in Nat \ {0} /\ Len(up') = Len(up) - 1
        /\ \A j \in 1..Len(up') : up'[j] = up[j + 1]
    BY <1>3, SequenceTail DEF LinkTypes
  <2>2. \A j, k \in 1..Len(up') : j < k => /\ j + 1 \in 1..Len(up) /\ k + 1 \in 1..Len(up)
                                           /\ j + 1 < k + 1
    BY <2>1
  <2>3. cur' \in Commands => cur' = cur
    BY LinkAssumption
  <2>4. QED
    BY <2>1, <2>2, <2>3 DEF InOrder
<1>4. QED
  BY <1>1, <1>2, <1>3 DEF Fewer, FewerWrites

LEMMA ForgettingKeepsInv ==
  ASSUME LinkInv, Fewer, cur' \in {cur, Nothing},
         UNCHANGED <<begun, Taken>>, central' \in Nat \ {0},
         UNCHANGED <<idx, got>> \/ Forget,
         DOMAIN outbound' = Ids,
         \A id \in Ids : outbound'[id] \in {outbound[id], Nothing},
         \/ UNCHANGED <<partial, running>>
         \/ partial' = [id \in Ids |-> Nothing] /\ running' = FALSE,
         PartialsInv'
  PROVE  LinkInv'
<1> USE DEF LinkInv
<1>1. /\ up' \in Seq(Writes) /\ down' \in Seq(Notifications)
      /\ ToSet(up') \subseteq ToSet(up) /\ ToSet(down') \subseteq ToSet(down)
  BY FewerMessages
<1>2. cur' # Nothing => cur' = cur /\ idx' = idx /\ got' = got
  BY DEF Forget
<1>3. \A c \in Commands : cur' = c => cur = c /\ idx' = idx
  BY <1>2, LinkAssumption
<1>4. \A c \in Commands : Corr[c] \in Ids
  BY DEF Ids
<1>5. LinkTypes'
  <2>1. Forget => idx' \in Nat /\ got' = 0..(0 - 1)
    BY DEF Forget
  <2>2. idx' \in Nat /\ \E n \in Nat : got' = 0..(n - 1)
    BY <2>1 DEF LinkTypes
  <2>3. QED
    BY <1>1, <2>2 DEF LinkTypes
<1>6. NoTraceBefore'
  BY <1>1, <1>3, <1>4 DEF NoTraceBefore
<1>7. AppKeepsUp'
  BY <1>1, <1>2 DEF AppKeepsUp
<1>8. NoneOvertaken'
  <2>1. ASSUME NEW c \in Commands, partial'[Corr[c]] # Nothing
        PROVE  partial'[Corr[c]] = partial[Corr[c]]
    BY <1>4, <2>1
  <2>2. Taken' = Taken
    OBVIOUS
  <2>3. QED
    BY <1>1, <1>3, <2>1, <2>2 DEF NoneOvertaken
<1>9. CameraKeepsUp'
  <2> SUFFICES ASSUME cur' # Nothing PROVE CameraKeepsUp'
    BY DEF CameraKeepsUp
  <2>1. cur' = cur /\ idx' = idx /\ cur \in Commands
    BY <1>2 DEF LinkTypes
  <2>2. \A i \in Nat : Has(cur, i) => Has(cur, i)'
    BY <1>4, <2>1 DEF Has
  <2>3. QED
    BY <1>1, <1>4, <2>1, <2>2 DEF CameraKeepsUp
<1>10. OneFramingEach'
  BY DEF OneFramingEach
<1>11. QED
  BY <1>5, <1>6, <1>7, <1>8, <1>9, <1>10, FewerInOrder DEF Fewer

LEMMA Commanded ==
  \A c \in Commands : c # Nothing /\ Total[c] \in Nat \ {0} /\ Corr[c] \in Ids
  BY LinkAssumption DEF Ids

\* An entry under the id of a command is that command's.
LEMMA OwnEntry ==
  ASSUME LinkInv, NEW c \in Commands, partial[Corr[c]] # Nothing
  PROVE  /\ Total[c] > 1
         /\ \E D \in Incomplete(c) : Holds(c, D)
         /\ partial[Corr[c]].total = Total[c]
         /\ DOMAIN partial[Corr[c]].parts \in Incomplete(c)
         /\ DOMAIN partial[Corr[c]].parts \subseteq Framing(c)
<1>1. \E d \in Commands : /\ Corr[d] = Corr[c] /\ Total[d] > 1
                         /\ \E D \in Incomplete(d) : Holds(d, D)
  BY Commanded DEF LinkInv, PartialsInv, Partials
<1>2. Total[c] > 1 /\ \E D \in Incomplete(c) : Holds(c, D)
  BY <1>1 DEF LinkInv, OneFramingEach
<1>3. PICK D \in Incomplete(c) : Holds(c, D)
  BY <1>2
<1>4. partial[Corr[c]].total = Total[c] /\ DOMAIN partial[Corr[c]].parts = D
  BY <1>3, EntryParts DEF Holds
<1>5. QED
  BY <1>2, <1>3, <1>4 DEF Incomplete

LEMMA WriteInOrder ==
  ASSUME LinkTypes, InOrder, NEW w \in Writes, up' = Append(up, w),
         \A c \in Commands : \A n \in Nat :
           w = Chunk(c, n) =>
             cur' = c /\ \A m \in Nat : Chunk(c, m) \in ToSet(up) => m <= n,
         \A c \in Commands :
           cur' = c => cur = c \/ \A m \in Nat : Chunk(c, m) \notin ToSet(up)
  PROVE  InOrder'
<1>1. /\ Len(up) \in Nat /\ Len(up') = Len(up) + 1
      /\ \A j \in 1..Len(up) : up'[j] = up[j]
      /\ up'[Len(up) + 1] = w
  BY SequenceAppend DEF LinkTypes
<1>2. \A j \in 1..Len(up) : up[j] \in ToSet(up)
  BY SequenceMember DEF LinkTypes
<1> SUFFICES ASSUME NEW j \in 1..Len(up'), NEW k \in 1..Len(up'), j < k,
                    NEW c \in Commands, NEW d \in Commands, NEW m \in Nat, NEW n \in Nat,
                    up'[j] = Chunk(c, m), up'[k] = Chunk(d, n)
             PROVE  (c = d => m <= n) /\ (c = cur' => d = cur')
  BY DEF InOrder
<1>3. j \in 1..Len(up) /\ up[j] = Chunk(c, m) /\ Chunk(c, m) \in ToSet(up)
  BY <1>1, <1>2
<1>4. CASE k \in 1..Len(up)
  <2>1. (c = d => m <= n) /\ (c = cur => d = cur)
    BY <1>1, <1>3, <1>4 DEF InOrder
  <2>2. QED
    BY <1>3, <2>1
<1>5. CASE k = Len(up) + 1
  BY <1>1, <1>3, <1>5
<1>6. QED
  BY <1>1, <1>4, <1>5

\* A step of the app while it sends a command.
LEMMA AppKeepsInv ==
  ASSUME LinkInv, cur \in Commands, cur' \in {cur, Nothing},
         UNCHANGED <<camera, central, begun, Taken>>,
         down' = down \/ (down # <<>> /\ down' = Tail(down)),
         \/ idx' = idx
         \/ idx' = idx + 1 /\ idx < Total[cur] /\ Ack(Corr[cur], idx) \in ToSet(down),
         got \subseteq got', \E n \in Nat : got' = 0..(n - 1),
         \/ up' = up
         \/ \E w \in Writes :
              /\ up' = Append(up, w)
              /\ \/ w = Malformed
                 \/ \E i \in Nat : w = Ack(Corr[cur], i) /\ 0..i \subseteq got'
                 \/ w = Chunk(cur, idx') /\ idx' < Total[cur] /\ cur' = cur
  PROVE  LinkInv'
<1> USE DEF LinkInv
<1>1. /\ down' \in Seq(Notifications) /\ ToSet(down') \subseteq ToSet(down)
  <2>1. down # <<>> => /\ Tail(down) \in Seq(Notifications)
                       /\ ToSet(Tail(down)) \subseteq ToSet(down)
    BY SequenceTail DEF LinkTypes
  <2>2. QED
    BY <2>1 DEF LinkTypes
<1>2. /\ up' \in Seq(Writes)
      /\ \A e : e \in ToSet(up') =>
           \/ e \in ToSet(up)
           \/ e = Malformed
           \/ \E i \in Nat : e = Ack(Corr[cur], i) /\ 0..i \subseteq got'
           \/ e = Chunk(cur, idx') /\ idx' < Total[cur] /\ cur' = cur
  <2>1. up \in Seq(Writes)
    BY DEF LinkTypes
  <2>2. \A w \in Writes : /\ Append(up, w) \in Seq(Writes)
                          /\ ToSet(Append(up, w)) = ToSet(up) \cup {w}
    BY <2>1, SequenceAppend
  <2>3. CASE up' = up
    BY <2>1, <2>3
  <2>4. ASSUME NEW w \in Writes, up' = Append(up, w),
               \/ w = Malformed
               \/ \E i \in Nat : w = Ack(Corr[cur], i) /\ 0..i \subseteq got'
               \/ w = Chunk(cur, idx') /\ idx' < Total[cur] /\ cur' = cur
        PROVE  <1>2
    <3>1. up' \in Seq(Writes) /\ ToSet(up') = ToSet(up) \cup {w}
      BY <2>2, <2>4
    <3>2. QED
      BY <2>4, <3>1
  <2>5. QED
    BY <2>3, <2>4
<1>3. \A c \in Commands : \A i \in Nat :
        /\ Chunk(c, i) \in ToSet(up') =>
             \/ Chunk(c, i) \in ToSet(up)
             \/ c = cur /\ i = idx' /\ idx' < Total[cur] /\ cur' = cur
        /\ Ack(Corr[c], i) \in ToSet(up') =>
             \/ Ack(Corr[c], i) \in ToSet(up)
             \/ c = cur /\ 0..i \subseteq got'
  <2> TAKE c \in Commands
  <2> TAKE i \in Nat
  <2>1. ASSUME Chunk(c, i) \in ToSet(up'), Chunk(c, i) \notin ToSet(up)
        PROVE  c = cur /\ i = idx' /\ idx' < Total[cur] /\ cur' = cur
    <3>1. \A d, j : Chunk(c, i) # Malformed /\ Chunk(c, i) # Ack(d, j)
      BY Messages
    <3>2. Chunk(c, i) = Chunk(cur, idx') /\ idx' < Total[cur] /\ cur' = cur
      BY <1>2, <2>1, <3>1
    <3>3. QED
      BY <3>2, Messages
  <2>2. ASSUME Ack(Corr[c], i) \in ToSet(up'), Ack(Corr[c], i) \notin ToSet(up)
        PROVE  c = cur /\ 0..i \subseteq got'
    <3>1. \A d, j : Ack(Corr[c], i) # Malformed /\ Ack(Corr[c], i) # Chunk(d, j)
      BY Messages
    <3>2. PICK j \in Nat : Ack(Corr[c], i) = Ack(Corr[cur], j) /\ 0..j \subseteq got'
      BY <1>2, <2>2, <3>1
    <3>3. Corr[c] = Corr[cur] /\ i = j
      BY ONLY <3>2, Messages
    <3>4. QED
      BY <3>2, <3>3 DEF OneFramingEach
  <2>3. QED
    BY <2>1, <2>2
<1>4. cur' # Nothing => cur' = cur
  OBVIOUS
<1>5. \A c \in Commands : cur' = c => cur = c
  BY Commanded
<1>6. idx \in Nat /\ idx' \in Nat /\ idx <= idx' /\ idx' <= Total[cur]
  <2>1. cur # Nothing /\ idx \in Nat /\ Total[cur] \in Nat
    BY Commanded DEF LinkTypes
  <2>2. idx <= Total[cur]
    BY <2>1 DEF CameraKeepsUp
  <2>3. QED
    BY <2>1, <2>2
<1>7. LinkTypes'
  BY <1>1, <1>2, <1>6 DEF LinkTypes, camera
<1>8. NoTraceBefore'
  BY <1>1, <1>3, <1>5 DEF NoTraceBefore, camera
<1>9. AppKeepsUp'
  BY <1>1, <1>3, <1>4 DEF AppKeepsUp
<1>10. InOrder'
  <2>1. CASE up' = up
    BY <1>5, <2>1 DEF InOrder
  <2>2. ASSUME NEW w \in Writes, up' = Append(up, w),
               \/ w = Malformed
               \/ \E i \in Nat : w = Ack(Corr[cur], i)
               \/ w = Chunk(cur, idx') /\ cur' = cur
        PROVE  InOrder'
    <3>1. \A m \in Nat : Chunk(cur, m) \in ToSet(up) => m <= idx'
      <4>1. \A m \in Nat : Chunk(cur, m) \in ToSet(up) => m <= idx
        BY Commanded DEF CameraKeepsUp
      <4>2. QED
        BY <1>6, <4>1
    <3>2. \A c \in Commands : \A n \in Nat :
            w = Chunk(c, n) => c = cur /\ n = idx' /\ cur' = cur
      BY <2>2, Messages
    <3>3. \A c \in Commands : \A n \in Nat :
            w = Chunk(c, n) =>
              cur' = c /\ \A m \in Nat : Chunk(c, m) \in ToSet(up) => m <= n
      BY <3>1, <3>2
    <3>4. QED
      BY <1>5, <2>2, <3>3, WriteInOrder
  <2>3. QED
    BY <2>1, <2>2
<1>11. NoneOvertaken'
  <2>1. \A c \in Commands : Total[c] \in Nat
    BY Commanded
  <2>2. UNCHANGED <<partial, Taken>>
    BY DEF camera
  <2>3. ASSUME NEW c \in Commands, partial[Corr[c]] # Nothing,
               NEW m \in DOMAIN partial[Corr[c]].parts
        PROVE  /\ \A k \in Nat : Chunk(c, k) \in ToSet(up') => m <= k
               /\ cur' = c => m <= idx'
               /\ Taken[c] > 0 => m = Total[c] - 1
    <3>1. /\ \A k \in Nat : Chunk(c, k) \in ToSet(up) => m <= k
          /\ cur = c => m <= idx
          /\ Taken[c] > 0 => m = Total[c] - 1
      BY <2>3 DEF NoneOvertaken
    <3>2. m \in Nat
      BY <2>3, OwnEntry DEF Framing
    <3>3. QED
      BY <1>3, <1>5, <1>6, <3>1, <3>2
  <2>4. ASSUME NEW c \in Commands, Taken[c] > 0
        PROVE  /\ \A k \in Nat : Chunk(c, k) \in ToSet(up') => k = Total[c] - 1
               /\ cur' = c => idx' >= Total[c] - 1
    <3>1. /\ \A k \in Nat : Chunk(c, k) \in ToSet(up) => k = Total[c] - 1
          /\ cur = c => idx >= Total[c] - 1
      BY <2>4 DEF NoneOvertaken
    <3>2. cur = c => idx' >= Total[c] - 1
      BY <1>6, <2>1, <3>1
    <3>3. c = cur /\ idx' < Total[cur] => idx' = Total[c] - 1
      BY <1>6, <2>1, <3>2
    <3>4. QED
      BY <1>3, <1>5, <3>1, <3>2, <3>3
  <2>5. \A c \in Commands : Total[c] > 1 => Taken[c] <= 1
    BY DEF NoneOvertaken
  <2>6. QED
    BY <2>2, <2>3, <2>4, <2>5 DEF NoneOvertaken
<1>12. CameraKeepsUp'
  <2> SUFFICES ASSUME cur' # Nothing PROVE CameraKeepsUp'
    BY DEF CameraKeepsUp
  <2>1. cur' = cur
    BY <1>4
  <2>2. \A i \in Nat : Has(cur, i) => Has(cur, i)'
    BY <2>1 DEF Has, camera
  <2>3. \A i \in Nat : Ack(Corr[cur], i) \in ToSet(down') \/ i < idx' => Has(cur, i)
    BY <1>1, <1>6 DEF CameraKeepsUp
  <2>4. QED
    BY <1>3, <1>6, <2>1, <2>2, <2>3 DEF CameraKeepsUp, camera
<1>13. PartialsInv' /\ OneFramingEach'
  BY DEF PartialsInv, Partials, Holds, OneFramingEach, camera
<1>14. QED
  BY <1>7, <1>8, <1>9, <1>10, <1>11, <1>12, <1>13

LEMMA BeginKeepsInv ==
  ASSUME LinkInv, NEW c \in Commands, Begin(c)
  PROVE  LinkInv'
<1> USE DEF LinkInv
<1>1. /\ cur' = c /\ idx' = 0 /\ got' = {} /\ c \notin begun
      /\ begun' = begun \cup {c}
      /\ up' = Append(up, Chunk(c, 0))
      /\ UNCHANGED <<down, partial, outbound, running, central, Taken>>
  BY DEF Begin, WriteUnasked, Write, camera, Taken
<1>2. c # Nothing /\ Total[c] \in Nat \ {0} /\ 0 \in Framing(c) /\ Chunk(c, 0) \in Writes
  BY Commanded, WritesAndNotifications DEF Framing
<1>3. up' \in Seq(Writes) /\ ToSet(up') = ToSet(up) \cup {Chunk(c, 0)}
  BY <1>1, <1>2, SequenceAppend DEF LinkTypes
<1>4. \A d \in Commands : \A i \in Nat :
        /\ Chunk(d, i) \in ToSet(up') => Chunk(d, i) \in ToSet(up) \/ (d = c /\ i = 0)
        /\ Ack(Corr[d], i) \in ToSet(up') => Ack(Corr[d], i) \in ToSet(up)
  BY <1>3, Messages
<1>5. /\ Taken[c] = 0 /\ partial[Corr[c]] = Nothing
      /\ \A i \in Nat : /\ Chunk(c, i) \notin ToSet(up) /\ Ack(Corr[c], i) \notin ToSet(up)
                        /\ ReplyPart(c, i) \notin ToSet(down)
                        /\ Ack(Corr[c], i) \notin ToSet(down)
  BY <1>1 DEF NoTraceBefore
<1>6. LinkTypes'
  <2>1. got' = 0..(0 - 1)
    BY <1>1
  <2>2. begun' \subseteq Commands /\ central' \in Nat \ {0} /\ cur' \in Commands
    BY <1>1 DEF LinkTypes
  <2>3. QED
    BY <1>1, <1>3, <2>1, <2>2 DEF LinkTypes
<1>7. NoTraceBefore'
  <2>1. c \in begun' /\ \A d \in Commands : d \notin begun' => d \notin begun
    BY <1>1
  <2>2. QED
    BY <1>1, <1>4, <2>1 DEF NoTraceBefore
<1>8. AppKeepsUp'
  BY <1>1, <1>4, <1>5 DEF AppKeepsUp
<1>9. InOrder'
  <2>1. \A d \in Commands : \A n \in Nat : Chunk(c, 0) = Chunk(d, n) => d = c
    BY Messages
  <2>2. QED
    BY <1>1, <1>2, <1>5, <2>1, WriteInOrder
<1>10. NoneOvertaken'
  <2>1. \A d \in Commands : partial[Corr[d]] # Nothing \/ Taken[d] > 0 => d # c
    BY <1>5
  <2>2. QED
    BY <1>1, <1>4, <2>1 DEF NoneOvertaken
<1>11. CameraKeepsUp'
  BY <1>1, <1>2, <1>4, <1>5 DEF CameraKeepsUp
<1>12. PartialsInv' /\ OneFramingEach'
  BY <1>1 DEF PartialsInv, Partials, Holds, OneFramingEach
<1>13. QED
  BY <1>6, <1>7, <1>8, <1>9, <1>10, <1>11, <1>12

\* What is known of a chunk that arrives.
LEMMA ArrivingChunk ==
  ASSUME LinkInv, NEW c \in Commands, NEW i \in Framing(c), Receive(Chunk(c, i))
  PROVE  /\ i \in Nat /\ i < Total[c] /\ Total[c] \in Nat
         /\ up' \in Seq(Writes) /\ ToSet(up') \subseteq ToSet(up)
         /\ Chunk(c, i) \in ToSet(up) /\ c \in begun
         /\ \A k \in Nat : Chunk(c, k) \in ToSet(up') => i <= k
         /\ cur = c => /\ i <= idx
                       /\ \A d \in Commands : \A k \in Nat :
                            Chunk(d, k) \in ToSet(up') => d = cur
         /\ InOrder'
<1> USE DEF LinkInv
<1>1. /\ up # <<>> /\ Head(up) = Chunk(c, i) /\ up' = Tail(up)
      /\ UNCHANGED <<cur, idx, got, begun, central>>
  BY DEF Receive, app
<1>2. i \in Nat /\ i < Total[c] /\ Total[c] \in Nat
  BY Commanded DEF Framing
<1>3. /\ up \in Seq(Writes) /\ up' \in Seq(Writes) /\ ToSet(up') \subseteq ToSet(up)
      /\ Chunk(c, i) \in ToSet(up) /\ up[1] = Chunk(c, i)
      /\ Len(up) \in Nat \ {0} /\ Len(up') = Len(up) - 1
      /\ \A j \in 1..Len(up') : up'[j] = up[j + 1]
  BY <1>1, SequenceTail DEF LinkTypes
<1>4. \A e : e \in ToSet(up') => \E j \in 1..Len(up) : 1 < j /\ up[j] = e
  <2> SUFFICES ASSUME NEW e, e \in ToSet(up')
               PROVE  \E j \in 1..Len(up) : 1 < j /\ up[j] = e
    OBVIOUS
  <2>1. PICK j \in 1..Len(up') : up'[j] = e
    BY <1>3, SequenceMember
  <2>2. j + 1 \in 1..Len(up) /\ 1 < j + 1 /\ up[j + 1] = e
    BY <1>3, <2>1
  <2>3. QED
    BY <2>2
<1>5. \A d \in Commands : \A k \in Nat :
        Chunk(d, k) \in ToSet(up') => (c = d => i <= k) /\ (c = cur => d = cur)
  <2> TAKE d \in Commands
  <2> TAKE k \in Nat
  <2> HAVE Chunk(d, k) \in ToSet(up')
  <2>1. PICK j \in 1..Len(up) : 1 < j /\ up[j] = Chunk(d, k)
    BY <1>4
  <2>2. 1 \in 1..Len(up)
    BY <1>3
  <2>3. QED
    BY <1>2, <1>3, <2>1, <2>2 DEF InOrder
<1>6. c \in begun
  BY <1>2, <1>3 DEF NoTraceBefore
<1>7. cur = c => i <= idx
  BY <1>2, <1>3, Commanded DEF CameraKeepsUp
<1>8. InOrder'
  <2>1. \A j, k \in 1..Len(up') : j < k => /\ j + 1 \in 1..Len(up) /\ k + 1 \in 1..Len(up)
                                           /\ j + 1 < k + 1
    BY <1>3
  <2>2. QED
    BY <1>1, <1>3, <2>1 DEF InOrder
<1>9. QED
  BY <1>2, <1>3, <1>5, <1>6, <1>7, <1>8

\* The camera acks a chunk, once it has everything up to it, and may have handled
\* the command.
LEMMA ChunkKeepsInv ==
  ASSUME LinkInv, NEW c \in Commands, NEW i \in Framing(c), Receive(Chunk(c, i)),
         PartialsInv',
         down' = down \o <<Ack(Corr[c], i)>>,
         \A d \in Commands \ {c} :
           partial'[Corr[d]] # partial[Corr[d]] =>
             partial[Corr[c]] = Nothing /\ partial'[Corr[d]] = Nothing,
         partial'[Corr[c]] # Nothing =>
           \A m \in DOMAIN partial'[Corr[c]].parts :
             \/ m = i
             \/ partial[Corr[c]] # Nothing /\ m \in DOMAIN partial[Corr[c]].parts,
         Taken' \in [Commands -> 0..Many],
         \A d \in Commands \ {c} : Taken'[d] = Taken[d],
         Total[c] > 1 => Taken'[c] <= 1,
         \/ Taken'[c] = Taken[c]
         \/ Taken'[c] > 0 /\ i = Total[c] - 1 /\ partial'[Corr[c]] = Nothing,
         outbound' = outbound,
         cur = c => \A j \in Nat : Has(c, j) => Has(c, j)',
         cur = c => Has(c, i)'
  PROVE  LinkInv'
<1> USE DEF LinkInv
<1>1. UNCHANGED <<cur, idx, got, begun, central, running>>
  BY DEF Receive, app
<1>2. /\ i \in Nat /\ i < Total[c] /\ Total[c] \in Nat
      /\ up' \in Seq(Writes) /\ ToSet(up') \subseteq ToSet(up)
      /\ Chunk(c, i) \in ToSet(up) /\ c \in begun
      /\ \A k \in Nat : Chunk(c, k) \in ToSet(up') => i <= k
      /\ cur = c => /\ i <= idx
                    /\ \A d \in Commands : \A k \in Nat :
                         Chunk(d, k) \in ToSet(up') => d = cur
      /\ InOrder'
  BY ArrivingChunk
<1>3. down' \in Seq(Notifications) /\ ToSet(down') = ToSet(down) \cup {Ack(Corr[c], i)}
  <2>1. Ack(Corr[c], i) \in Notifications
    BY <1>2, WritesAndNotifications
  <2>2. QED
    BY <2>1, SequenceConcat DEF LinkTypes
<1>4. \A d \in Commands : \A k \in Nat :
        /\ Ack(Corr[d], k) \in ToSet(down') =>
             Ack(Corr[d], k) \in ToSet(down) \/ (d = c /\ k = i)
        /\ ReplyPart(d, k) \in ToSet(down') => ReplyPart(d, k) \in ToSet(down)
  <2> TAKE d \in Commands
  <2> TAKE k \in Nat
  <2>1. /\ Ack(Corr[d], k) = Ack(Corr[c], i) => Corr[d] = Corr[c] /\ k = i
        /\ Ack(Corr[c], i) # ReplyPart(d, k)
    BY ONLY Messages
  <2>2. QED
    BY <1>3, <2>1 DEF OneFramingEach
<1>5. LinkTypes'
  BY <1>1, <1>2, <1>3 DEF LinkTypes
<1>6. NoTraceBefore'
  BY <1>1, <1>2, <1>4 DEF NoTraceBefore
<1>7. AppKeepsUp'
  <2> SUFFICES ASSUME cur' # Nothing PROVE AppKeepsUp'
    BY DEF AppKeepsUp
  <2>1. cur' = cur /\ cur \in Commands /\ got' = got
    BY <1>1 DEF LinkTypes
  <2>2. QED
    BY <1>2, <1>4, <2>1 DEF AppKeepsUp
<1>8. NoneOvertaken'
  <2>1. ASSUME NEW d \in Commands \ {c}
        PROVE  /\ Total[d] > 1 => Taken'[d] <= 1
               /\ partial'[Corr[d]] # Nothing =>
                    \A p \in DOMAIN partial'[Corr[d]].parts :
                      /\ \A k \in Nat : Chunk(d, k) \in ToSet(up') => p <= k
                      /\ cur' = d => p <= idx'
                      /\ Taken'[d] > 0 => p = Total[d] - 1
               /\ Taken'[d] > 0 =>
                    /\ \A k \in Nat : Chunk(d, k) \in ToSet(up') => k = Total[d] - 1
                    /\ cur' = d => idx' >= Total[d] - 1
    BY <1>1, <1>2 DEF NoneOvertaken
  <2>2. Taken'[c] > 0 => i = Total[c] - 1
    BY <1>2 DEF NoneOvertaken
  <2>3. \A k \in Nat : Chunk(c, k) \in ToSet(up') => k < Total[c]
    <3> SUFFICES ASSUME NEW k \in Nat, Chunk(c, k) \in ToSet(up') PROVE k < Total[c]
      OBVIOUS
    <3>1. Chunk(c, k) \in Writes
      BY <1>2, SequenceMember
    <3>2. k \in Framing(c)
      BY <3>1, WritesAndNotifications
    <3>3. QED
      BY <1>2, <3>2 DEF Framing
  <2>4. Taken'[c] > 0 =>
          /\ \A k \in Nat : Chunk(c, k) \in ToSet(up') => k = Total[c] - 1
          /\ cur' = c => idx' >= Total[c] - 1
    <3> SUFFICES ASSUME Taken'[c] > 0
                 PROVE  /\ \A k \in Nat : Chunk(c, k) \in ToSet(up') => k = Total[c] - 1
                        /\ cur' = c => idx' >= Total[c] - 1
      OBVIOUS
    <3>1. \A k \in Nat : Chunk(c, k) \in ToSet(up') => i <= k /\ k < Total[c]
      BY <1>2, <2>3
    <3>2. QED
      BY <1>1, <1>2, <2>2, <3>1
  <2>5. ASSUME partial'[Corr[c]] # Nothing, NEW m \in DOMAIN partial'[Corr[c]].parts
        PROVE  /\ \A k \in Nat : Chunk(c, k) \in ToSet(up') => m <= k
               /\ cur' = c => m <= idx'
               /\ Taken'[c] > 0 => m = Total[c] - 1
    <3>1. Taken'[c] = Taken[c]
      BY <2>5
    <3>2. CASE m = i
      BY <1>1, <1>2, <2>2, <3>2
    <3>3. CASE partial[Corr[c]] # Nothing /\ m \in DOMAIN partial[Corr[c]].parts
      BY <1>1, <1>2, <3>1, <3>3 DEF NoneOvertaken
    <3>4. QED
      BY <2>5, <3>2, <3>3
  <2>6. QED
    BY <2>1, <2>4, <2>5 DEF NoneOvertaken
<1>9. CameraKeepsUp'
  <2> SUFFICES ASSUME cur' # Nothing PROVE CameraKeepsUp'
    BY DEF CameraKeepsUp
  <2>1. cur' = cur /\ cur \in Commands /\ cur # Nothing /\ idx' = idx
    BY <1>1 DEF LinkTypes
  <2>2. /\ idx <= Total[cur]
        /\ \A k \in Nat : Chunk(cur, k) \in ToSet(up') => k <= idx
    BY <1>2, <2>1 DEF CameraKeepsUp
  <2>3. \A k \in Nat : Ack(Corr[cur], k) \in ToSet(down) \/ k < idx => Has(cur, k)
    BY <2>1 DEF CameraKeepsUp
  <2>4. CASE cur = c
    BY <1>1, <1>2, <1>4, <2>1, <2>2, <2>3, <2>4 DEF CameraKeepsUp
  <2>5. CASE cur # c
    <3>1. partial[Corr[cur]] = Nothing
      BY <1>2, <2>1, <2>5 DEF CameraKeepsUp
    <3>2. partial'[Corr[cur]] = Nothing
      BY <2>1, <2>5, <3>1
    <3>3. running /\ Taken'[cur] = Taken[cur]
      BY <2>1, <2>5 DEF Receive
    <3>4. \A k \in Nat : Has(cur, k) => Has(cur, k)'
      BY <2>1, <3>1, <3>3 DEF Has
    <3>5. \A k \in Nat : Ack(Corr[cur], k) \in ToSet(down') => Ack(Corr[cur], k) \in ToSet(down)
      BY <1>4, <2>1, <2>5
    <3>6. QED
      BY <2>1, <2>2, <2>3, <3>2, <3>4, <3>5 DEF CameraKeepsUp
  <2>6. QED
    BY <2>4, <2>5
<1>10. OneFramingEach'
  BY DEF OneFramingEach
<1>11. QED
  BY <1>2, <1>5, <1>6, <1>7, <1>8, <1>9, <1>10

\* The camera takes c for its handler.
LEMMA TakingCounts ==
  ASSUME TaskTypes, NEW c \in Commands, task = Nothing, task' = c, runs' = runs
  PROVE  /\ Taken' \in [Commands -> 0..Many] /\ Taken'[c] > 0
         /\ \A d \in Commands \ {c} : Taken'[d] = Taken[d]
         /\ Taken[c] = 0 => Taken'[c] = 1
<1>1. TaskTypes'
  BY DEF TaskTypes
<1>2. \A d \in Commands : Taken[d] = runs[d] /\ runs[d] \in 0..Many
  BY TakenCounts DEF TaskTypes
<1>3. /\ Taken' = [d \in Commands |-> IF d = c THEN Min({runs[d] + 1, Many}) ELSE runs[d]]
      /\ Min({runs[c] + 1, Many}) \in 1..Many
      /\ runs[c] = 0 => Min({runs[c] + 1, Many}) = 1
  BY <1>2, CountedTwice DEF Taken
<1>4. Taken'[c] = Min({runs[c] + 1, Many}) /\ \A d \in Commands \ {c} : Taken'[d] = Taken[d]
  BY <1>2, <1>3
<1>5. Taken' \in [Commands -> 0..Many]
  BY <1>2, <1>3, <1>4 DEF Many
<1>6. QED
  BY <1>2, <1>3, <1>4, <1>5

LEMMA SingleKeepsInv == LinkInv /\ TaskTypes /\ ReceiveSingle => LinkInv'
<1> SUFFICES ASSUME LinkInv, TaskTypes, NEW c \in Commands, Receive(Chunk(c, 0)),
                    Total[c] = 1, Notify(<<Ack(Corr[c], 0)>>), task' = c,
                    UNCHANGED <<partial, order, outbound, runs, garbled>>
             PROVE  LinkInv'
  BY DEF ReceiveSingle
<1>1. 0 \in Framing(c)
  BY DEF Framing
<1>2. PartialsInv'
  BY DEF LinkInv, PartialsInv, Partials, Holds
<1>3. partial[Corr[c]] = Nothing
  BY OwnEntry
<1>4. /\ Taken' \in [Commands -> 0..Many] /\ Taken'[c] > 0
      /\ \A d \in Commands \ {c} : Taken'[d] = Taken[d]
  BY TakingCounts DEF Receive
<1>5. \A j \in Nat : Has(c, j)'
  BY <1>4 DEF Has
<1>6. QED
  <2>1. 0 = Total[c] - 1 /\ ~(Total[c] > 1) /\ partial' = partial
    OBVIOUS
  <2>2. down' = down \o <<Ack(Corr[c], 0)>>
    BY DEF Notify
  <2>3. QED
    BY <1>1, <1>2, <1>3, <1>4, <1>5, <2>1, <2>2, ChunkKeepsInv

\* The app has heard of everything before the chunk it sends, so the camera that
\* gets one has all before it, unless it has the whole command.
LEMMA HasAllBefore ==
  ASSUME LinkInv, NEW c \in Commands, NEW i \in Framing(c), Receive(Chunk(c, i)),
         cur = c, Taken[c] = 0, i > 0
  PROVE  /\ partial[Corr[c]] # Nothing
         /\ 0..(i - 1) \subseteq DOMAIN partial[Corr[c]].parts
<1>1. i \in Nat /\ i <= idx /\ idx \in Nat
  BY ArrivingChunk DEF LinkInv, LinkTypes
<1>2. i - 1 \in Nat /\ i - 1 < idx
  BY <1>1
<1>3. Has(c, i - 1)
  BY <1>2, Commanded DEF LinkInv, CameraKeepsUp
<1>4. QED
  BY <1>3 DEF Has, Receive

LEMMA DuplicateKeepsInv == LinkInv /\ ReceiveDuplicate => LinkInv'
<1> SUFFICES ASSUME LinkInv, NEW c \in Commands, NEW i \in Framing(c),
                    Receive(Chunk(c, i)), IsDuplicate(c, i),
                    Notify(<<Ack(Corr[c], i)>>),
                    UNCHANGED <<partial, order, outbound, Taken, garbled>>
             PROVE  LinkInv'
  BY DEF ReceiveDuplicate, AckDuplicate, Framing, Taken
<1>1. PartialsInv'
  BY DEF LinkInv, PartialsInv, Partials, Holds
<1>2. i \in DOMAIN partial[Corr[c]].parts /\ partial[Corr[c]] # Nothing
  BY DEF IsDuplicate
<1>3. running' = running
  BY DEF Receive
<1>4. \A j \in Nat : Has(c, j) => Has(c, j)'
  BY <1>3 DEF Has
<1>5. cur = c => Has(c, i)'
  <2> SUFFICES ASSUME cur = c, Taken[c] = 0 PROVE Has(c, i)'
    BY DEF Has, LinkInv, LinkTypes, Many
  <2>1. i \in Nat /\ i < Total[c] /\ Total[c] \in Nat
    BY ArrivingChunk
  <2>2. 0..i \subseteq DOMAIN partial[Corr[c]].parts
    <3>1. i > 0 => 0..(i - 1) \subseteq DOMAIN partial[Corr[c]].parts
      BY HasAllBefore
    <3>2. QED
      BY <1>2, <2>1, <3>1
  <2>3. i < Total[c] - 1
    <3>1. /\ DOMAIN partial[Corr[c]].parts \subseteq Framing(c)
          /\ DOMAIN partial[Corr[c]].parts # Framing(c)
      BY <1>2, OwnEntry DEF Incomplete
    <3>2. i = Total[c] - 1 => Framing(c) \subseteq DOMAIN partial[Corr[c]].parts
      BY <2>2 DEF Framing
    <3>3. i # Total[c] - 1
      BY <3>1, <3>2, Zenon
    <3>4. QED
      BY <2>1, <3>3
  <2>4. QED
    BY <1>2, <2>2, <2>3 DEF Has
<1>6. Taken \in [Commands -> 0..Many] /\ (Total[c] > 1 => Taken[c] <= 1)
  BY DEF LinkInv, LinkTypes, NoneOvertaken
<1>7. QED
  BY <1>1, <1>4, <1>5, <1>6, ChunkKeepsInv DEF Notify

\* What a stored chunk adds to its entry.
LEMMA StoredParts ==
  ASSUME LinkInv, NEW c \in Commands, NEW i \in Framing(c), ~IsDuplicate(c, i)
  PROVE  \E D \in Incomplete(c) :
           /\ i \notin D /\ DOMAIN Stored(c, i).parts = D \cup {i}
           /\ Stored(c, i).received = Cardinality(D \cup {i})
           /\ partial[Corr[c]] # Nothing => D = DOMAIN partial[Corr[c]].parts
           /\ partial[Corr[c]] = Nothing => D = {}
<1>1. PICK D \in Incomplete(c) :
           /\ i \notin D
           /\ Stored(c, i) \in EntriesOf(c, D \cup {i})
           /\ Holds(c, D) \/ D = {}
           /\ partial[Corr[c]] # Nothing /\ partial[Corr[c]].total = Total[c]
                => Holds(c, D)
  BY StoredEntry DEF LinkInv
<1>2. DOMAIN Stored(c, i).parts = D \cup {i}
  BY <1>1, EntryParts
<1>3. Stored(c, i).received = Cardinality(D \cup {i})
  BY <1>1, EntryParts
<1>4. partial[Corr[c]] # Nothing => D = DOMAIN partial[Corr[c]].parts
  BY <1>1, OwnEntry, EntryParts DEF Holds
<1>5. partial[Corr[c]] = Nothing => D = {}
  BY <1>1 DEF Holds
<1>6. QED
  BY <1>1, <1>2, <1>3, <1>4, <1>5

LEMMA PartKeepsInv == LinkInv /\ ReceivePart => LinkInv'
<1> SUFFICES ASSUME LinkInv, ReceivePart, NEW c \in Commands, NEW i \in Framing(c),
                    Receive(Chunk(c, i)), Total[c] > 1, ~IsDuplicate(c, i),
                    Stored(c, i).received < Total[c],
                    Notify(<<Ack(Corr[c], i)>>), Keep(c, i),
                    UNCHANGED <<outbound, Taken, garbled>>
             PROVE  LinkInv'
  BY DEF ReceivePart, Framing, Taken
<1>1. PartialsInv'
  BY PartialsStepInv DEF LinkInv, Next, Camera
<1>2. PICK D \in Incomplete(c) :
           /\ i \notin D /\ DOMAIN Stored(c, i).parts = D \cup {i}
           /\ Stored(c, i).received = Cardinality(D \cup {i})
           /\ partial[Corr[c]] # Nothing => D = DOMAIN partial[Corr[c]].parts
           /\ partial[Corr[c]] = Nothing => D = {}
  BY StoredParts
<1>3. /\ partial'[Corr[c]] = Stored(c, i)
      /\ \A id \in Ids \ {Corr[c]} :
           partial'[id] # partial[id] => partial[Corr[c]] = Nothing /\ partial'[id] = Nothing
  BY KeepFrame DEF LinkInv, PartialsInv
<1>4. \A d \in Commands \ {c} :
        partial'[Corr[d]] # partial[Corr[d]] =>
          partial[Corr[c]] = Nothing /\ partial'[Corr[d]] = Nothing
  BY <1>3, Commanded DEF LinkInv, OneFramingEach
<1>5. partial'[Corr[c]] # Nothing
  <2>1. \E E \in Incomplete(c) : Stored(c, i) \in EntriesOf(c, E)
    BY PartLeavesIncomplete DEF LinkInv
  <2>2. \A E \in Incomplete(c) : Nothing \notin EntriesOf(c, E)
    BY EntryIsSomething
  <2>3. QED
    BY <1>3, <2>1, <2>2
<1>6. running' = running
  BY DEF Receive
<1>7. DOMAIN partial'[Corr[c]].parts = D \cup {i}
  BY <1>2, <1>3
<1>8. \A j \in Nat : Has(c, j) => Has(c, j)'
  BY <1>2, <1>5, <1>6, <1>7 DEF Has
<1>9. cur = c => Has(c, i)'
  <2> SUFFICES ASSUME cur = c, Taken[c] = 0 PROVE Has(c, i)'
    BY DEF Has, LinkInv, LinkTypes, Many
  <2>1. i \in Nat /\ i < Total[c] /\ Total[c] \in Nat
    BY ArrivingChunk
  <2>2. 0..i \subseteq D \cup {i}
    <3>1. i > 0 => 0..(i - 1) \subseteq D
      BY <1>2, HasAllBefore
    <3>2. QED
      BY <2>1, <3>1
  <2>3. i # Total[c] - 1
    <3> SUFFICES ASSUME i = Total[c] - 1 PROVE FALSE
      OBVIOUS
    <3>1. D \cup {i} = Framing(c)
      BY <1>2, <2>2 DEF Framing, Incomplete
    <3>2. D \cup {i} \in SUBSET Framing(c)
      BY <3>1
    <3>3. Cardinality(D \cup {i}) = Total[c]
      BY <3>1, <3>2, ChunkCount
    <3>4. QED
      BY <1>2, <2>1, <3>3
  <2>4. QED
    BY <1>5, <1>7, <2>1, <2>2, <2>3 DEF Has
<1>10. Taken \in [Commands -> 0..Many] /\ (Total[c] > 1 => Taken[c] <= 1)
  BY DEF LinkInv, LinkTypes, NoneOvertaken
<1>11. \A m \in DOMAIN partial'[Corr[c]].parts :
         \/ m = i
         \/ partial[Corr[c]] # Nothing /\ m \in DOMAIN partial[Corr[c]].parts
  BY <1>2, <1>7
<1>12. QED
  BY <1>1, <1>4, <1>8, <1>9, <1>10, <1>11, ChunkKeepsInv DEF Notify

\* The chunk that completes a command is its last one, and the command has not run.
LEMMA LastKeepsInv == LinkInv /\ TaskTypes /\ ReceiveLast => LinkInv'
<1> SUFFICES ASSUME LinkInv, TaskTypes, ReceiveLast, NEW c \in Commands, NEW i \in Framing(c),
                    Receive(Chunk(c, i)), Total[c] > 1, ~IsDuplicate(c, i),
                    Stored(c, i).received = Total[c], Erase(Corr[c]),
                    Notify(<<Ack(Corr[c], i)>>), Whole(c, i) => task' = c,
                    UNCHANGED <<outbound, runs>>
             PROVE  LinkInv'
  BY DEF ReceiveLast, Framing
<1>1. PartialsInv'
  BY PartialsStepInv DEF LinkInv, Next, Camera
<1>2. down' = down \o <<Ack(Corr[c], i)>> /\ task' = c
  BY LastIsWhole DEF LinkInv, Notify, OneFramingEach, Alike
<1>3. /\ partial'[Corr[c]] = Nothing
      /\ \A d \in Commands \ {c} : partial'[Corr[d]] = partial[Corr[d]]
  BY Commanded DEF Erase, LinkInv, PartialsInv, OneFramingEach
<1>4. PICK D \in Incomplete(c) :
           /\ i \notin D
           /\ Stored(c, i).received = Cardinality(D \cup {i})
           /\ partial[Corr[c]] # Nothing => D = DOMAIN partial[Corr[c]].parts
           /\ partial[Corr[c]] = Nothing => D = {}
  BY StoredParts
<1>5. D \cup {i} = Framing(c)
  <2>1. D \cup {i} \in SUBSET Framing(c)
    BY <1>4 DEF Incomplete
  <2>2. QED
    BY <1>4, <2>1, ChunkCount
<1>6. /\ i \in Nat /\ i < Total[c] /\ Total[c] \in Nat /\ Chunk(c, i) \in ToSet(up)
  BY ArrivingChunk
<1>7. partial[Corr[c]] # Nothing
  <2> SUFFICES ASSUME partial[Corr[c]] = Nothing PROVE FALSE
    OBVIOUS
  <2>1. Framing(c) = {i}
    BY <1>4, <1>5
  <2>2. 0 \in Framing(c) /\ 1 \in Framing(c)
    BY <1>6 DEF Framing
  <2>3. QED
    BY <2>1, <2>2
<1>8. i = Total[c] - 1
  <2>1. \A m \in D : m <= i
    BY <1>4, <1>6, <1>7 DEF LinkInv, NoneOvertaken
  <2>2. Total[c] - 1 \in Framing(c)
    BY <1>6 DEF Framing
  <2>3. QED
    BY <1>5, <1>6, <2>1, <2>2
<1>9. Taken[c] = 0
  <2> SUFFICES ASSUME Taken[c] # 0 PROVE FALSE
    OBVIOUS
  <2>0. Taken[c] \in 0..2
    BY DEF LinkInv, LinkTypes, Many
  <2>1. Taken[c] > 0
    BY <2>0
  <2>2. \A m \in D : m = i
    BY <1>4, <1>7, <1>8, <2>1 DEF LinkInv, NoneOvertaken
  <2>3. 0 \in Framing(c) /\ 1 \in Framing(c)
    BY <1>6 DEF Framing
  <2>4. QED
    BY <1>5, <2>2, <2>3
<1>10. /\ Taken' \in [Commands -> 0..Many] /\ Taken'[c] = 1
       /\ \A d \in Commands \ {c} : Taken'[d] = Taken[d]
  BY <1>2, <1>9, TakingCounts DEF Receive
<1>11. \A j \in Nat : Has(c, j)'
  BY <1>10 DEF Has
<1>12. /\ \A d \in Commands \ {c} :
            partial'[Corr[d]] # partial[Corr[d]] =>
              partial[Corr[c]] = Nothing /\ partial'[Corr[d]] = Nothing
       /\ partial'[Corr[c]] # Nothing =>
            \A m \in DOMAIN partial'[Corr[c]].parts :
              \/ m = i
              \/ partial[Corr[c]] # Nothing /\ m \in DOMAIN partial[Corr[c]].parts
       /\ Total[c] > 1 => Taken'[c] <= 1
       /\ \/ Taken'[c] = Taken[c]
          \/ Taken'[c] > 0 /\ i = Total[c] - 1 /\ partial'[Corr[c]] = Nothing
  BY <1>3, <1>8, <1>10
<1>13. i \in Nat /\ \A j \in Nat : Has(c, j) => Has(c, j)'
  BY <1>6, <1>11
<1>14. Has(c, i)'
  BY <1>6, <1>11
<1>15. QED
  BY ONLY LinkInv, c \in Commands, i \in Framing(c), Receive(Chunk(c, i)), outbound' = outbound,
          <1>1, <1>2, <1>10, <1>12, <1>13, <1>14, ChunkKeepsInv

\* The ack of the app for a chunk of the reply.
LEMMA AckKeepsInv == LinkInv /\ ReceiveAck => LinkInv'
<1> SUFFICES ASSUME LinkInv, NEW id \in Ids, NEW i, Receive(Ack(id, i)),
                    UNCHANGED <<partial, order, Taken, garbled>>,
                    IF outbound[id] # Nothing /\ AcksLastSent(id, i)
                      THEN LET c == outbound[id].cmd
                               next == outbound[id].next
                           IN  IF next < Reply[c]
                                 THEN /\ Notify(<<ReplyPart(c, next)>>)
                                      /\ outbound' = [outbound EXCEPT ![id].next = @ + 1]
                                 ELSE /\ outbound' = [outbound EXCEPT ![id] = Nothing]
                                      /\ UNCHANGED down
                      ELSE UNCHANGED <<down, outbound>>
             PROVE  LinkInv'
  BY DEF ReceiveAck, Taken
<1> USE DEF LinkInv
<1>1. /\ up # <<>> /\ up' = Tail(up) /\ Head(up) = Ack(id, i)
      /\ UNCHANGED <<cur, idx, got, begun, central, running>>
  BY DEF Receive, app
<1>2. PartialsInv'
  BY DEF PartialsInv, Partials, Holds
<1>3. /\ up' \in Seq(Writes) /\ ToSet(up') \subseteq ToSet(up)
      /\ Ack(id, i) \in ToSet(up) /\ i \in Nat
  BY <1>1, SequenceTail, WritesAndNotifications DEF LinkTypes
<1>4. CASE /\ down' = down
           /\ outbound' = outbound \/ outbound' = [outbound EXCEPT ![id] = Nothing]
  <2>1. Fewer
    BY <1>1, <1>4 DEF Fewer, FewerWrites
  <2>2. /\ DOMAIN outbound' = Ids
        /\ \A j \in Ids : outbound'[j] \in {outbound[j], Nothing}
    BY <1>4 DEF LinkTypes
  <2>3. central' \in Nat \ {0}
    BY <1>1 DEF LinkTypes
  <2>4. QED
    BY <1>1, <1>2, <2>1, <2>2, <2>3, ForgettingKeepsInv
<1>5. CASE /\ outbound[id] # Nothing /\ i = outbound[id].next - 1
           /\ down' = down \o <<ReplyPart(outbound[id].cmd, outbound[id].next)>>
           /\ outbound' = [outbound EXCEPT ![id].next = @ + 1]
  <2> DEFINE c == outbound[id].cmd
             n == outbound[id].next
  <2>1. c \in Commands /\ Corr[c] = id /\ n \in Nat \ {0} /\ i = n - 1
    BY <1>5 DEF LinkTypes
  <2>2. down' = down \o <<ReplyPart(c, n)>>
    BY <1>5
  <2>3. /\ DOMAIN outbound' = Ids
        /\ \A j \in Ids : outbound'[j] # Nothing =>
             /\ outbound'[j].cmd \in Commands /\ Corr[outbound'[j].cmd] = j
             /\ outbound'[j].next \in Nat \ {0}
    <3>1. outbound'[id] = [outbound[id] EXCEPT !.next = @ + 1] /\ DOMAIN outbound' = Ids
      BY <1>5 DEF LinkTypes
    <3>2. \A j \in Ids \ {id} : outbound'[j] = outbound[j]
      BY <1>5 DEF LinkTypes
    <3>3. outbound[id] # Nothing
      BY <1>5
    <3>4. outbound'[id].cmd = c /\ outbound'[id].next = n + 1
      BY <3>1, <3>3 DEF LinkTypes
    <3>5. QED
      <4>1. ASSUME NEW j \in Ids, outbound'[j] # Nothing, j # id
            PROVE  /\ outbound'[j].cmd \in Commands /\ Corr[outbound'[j].cmd] = j
                   /\ outbound'[j].next \in Nat \ {0}
        BY <3>2, <4>1 DEF LinkTypes
      <4>2. /\ outbound'[id].cmd \in Commands /\ Corr[outbound'[id].cmd] = id
            /\ outbound'[id].next \in Nat \ {0}
        BY <2>1, <3>4
      <4>3. QED
        BY <3>1, <4>1, <4>2
  <2> HIDE DEF c, n
  <2>4. down' \in Seq(Notifications) /\ ToSet(down') = ToSet(down) \cup {ReplyPart(c, n)}
    <3>1. ReplyPart(c, n) \in Notifications
      BY <2>1, WritesAndNotifications
    <3>2. \A e \in Notifications : /\ down \o <<e>> \in Seq(Notifications)
                                   /\ ToSet(down \o <<e>>) = ToSet(down) \cup {e}
      BY SequenceConcat DEF LinkTypes
    <3>3. QED
      BY <2>2, <3>1, <3>2
  <2>5. \A d \in Commands : \A k \in Nat :
          /\ Ack(Corr[d], k) \in ToSet(down') => Ack(Corr[d], k) \in ToSet(down)
          /\ ReplyPart(d, k) \in ToSet(down') =>
               ReplyPart(d, k) \in ToSet(down) \/ (d = c /\ k = n)
    <3> TAKE d \in Commands
    <3> TAKE k \in Nat
    <3>1. /\ Ack(Corr[d], k) # ReplyPart(c, n)
          /\ ReplyPart(d, k) = ReplyPart(c, n) => d = c /\ k = n
      BY ONLY Messages
    <3>2. QED
      BY <2>4, <3>1
  <2>6. c \in begun
    BY <1>3, <2>1 DEF NoTraceBefore
  <2>7. LinkTypes'
    BY <1>1, <1>3, <2>3, <2>4 DEF LinkTypes
  <2>8. NoTraceBefore'
    BY <1>1, <1>3, <2>5, <2>6 DEF NoTraceBefore
  <2>9. AppKeepsUp'
    <3> SUFFICES ASSUME cur' # Nothing PROVE AppKeepsUp'
      BY DEF AppKeepsUp
    <3>1. cur' = cur /\ cur \in Commands /\ got' = got /\ cur # Nothing
      BY <1>1 DEF LinkTypes
    <3>2. cur = c => 0..(n - 1) \subseteq got
      BY <1>3, <2>1, <3>1 DEF AppKeepsUp
    <3>3. QED
      BY <1>3, <2>5, <3>1, <3>2 DEF AppKeepsUp
  <2>10. InOrder'
    BY <1>1, FewerInOrder DEF FewerWrites
  <2>11. NoneOvertaken'
    BY <1>1, <1>3 DEF NoneOvertaken
  <2>12. CameraKeepsUp'
    <3> SUFFICES ASSUME cur' # Nothing PROVE CameraKeepsUp'
      BY DEF CameraKeepsUp
    <3>1. cur' = cur /\ cur \in Commands /\ cur # Nothing
      BY <1>1 DEF LinkTypes
    <3>2. \A k \in Nat : Has(cur, k) => Has(cur, k)'
      BY <1>1, <3>1 DEF Has
    <3>3. QED
      BY <1>1, <1>3, <2>5, <3>1, <3>2 DEF CameraKeepsUp
  <2>13. QED
    BY <1>2, <2>7, <2>8, <2>9, <2>10, <2>11, <2>12 DEF OneFramingEach
<1>6. QED
  BY <1>4, <1>5 DEF AcksLastSent, Notify

\* The handler of a command that was taken runs, and the reply begins.
LEMMA HandlerKeepsInv == LinkInv /\ TaskTypes /\ RunHandler => LinkInv'
<1> SUFFICES ASSUME LinkInv, TaskTypes, NEW c \in Commands, task = c, task' = Nothing,
                    runs' = [runs EXCEPT ![c] = Min({@ + 1, Many})],
                    down' = down \o <<ReplyPart(c, 0)>>,
                    \/ outbound' = [outbound EXCEPT ![Corr[c]] = [cmd |-> c, next |-> 1]]
                    \/ outbound' = outbound,
                    UNCHANGED <<up, partial, order, running, app, garbled, budget>>
             PROVE  LinkInv'
  BY DEF RunHandler, Notify
<1> USE DEF LinkInv
<1>1. UNCHANGED <<up, partial, cur, idx, got, begun, central, running>>
  BY DEF app
<1>2. Taken' = Taken
  BY LinkAssumption DEF Taken, TaskTypes
<1>3. c \in begun
  BY TakenCounts DEF NoTraceBefore, LinkTypes
<1>4. /\ DOMAIN outbound' = Ids
      /\ \A j \in Ids : outbound'[j] # Nothing =>
           /\ outbound'[j].cmd \in Commands /\ Corr[outbound'[j].cmd] = j
           /\ outbound'[j].next \in Nat \ {0}
  <2>1. CASE outbound' = outbound
    BY <2>1 DEF LinkTypes
  <2>2. CASE outbound' = [outbound EXCEPT ![Corr[c]] = [cmd |-> c, next |-> 1]]
    BY <2>2 DEF LinkTypes
  <2>3. QED
    BY <2>1, <2>2
<1>5. down' \in Seq(Notifications) /\ ToSet(down') = ToSet(down) \cup {ReplyPart(c, 0)}
  <2>1. ReplyPart(c, 0) \in Notifications
    BY WritesAndNotifications
  <2>2. QED
    BY <2>1, SequenceConcat DEF LinkTypes
<1>6. \A d \in Commands : \A k \in Nat :
        /\ Ack(Corr[d], k) \in ToSet(down') => Ack(Corr[d], k) \in ToSet(down)
        /\ ReplyPart(d, k) \in ToSet(down') =>
             ReplyPart(d, k) \in ToSet(down) \/ (d = c /\ k = 0)
  <2> TAKE d \in Commands
  <2> TAKE k \in Nat
  <2>1. /\ Ack(Corr[d], k) # ReplyPart(c, 0)
        /\ ReplyPart(d, k) = ReplyPart(c, 0) => d = c /\ k = 0
    BY ONLY Messages
  <2>2. QED
    BY <1>5, <2>1
<1>7. LinkTypes'
  BY <1>1, <1>2, <1>4, <1>5 DEF LinkTypes
<1>8. NoTraceBefore'
  BY <1>1, <1>2, <1>3, <1>6 DEF NoTraceBefore
<1>9. AppKeepsUp'
  <2> SUFFICES ASSUME cur' # Nothing PROVE AppKeepsUp'
    BY DEF AppKeepsUp
  <2>1. cur' = cur /\ cur \in Commands /\ got' = got /\ cur # Nothing
    BY <1>1 DEF LinkTypes
  <2>2. \A k \in Nat : k = 0 => 0..(k - 1) \subseteq got
    OBVIOUS
  <2>3. QED
    BY <1>1, <1>6, <2>1, <2>2 DEF AppKeepsUp
<1>10. InOrder'
  BY <1>1 DEF InOrder
<1>11. NoneOvertaken'
  BY <1>1, <1>2 DEF NoneOvertaken
<1>12. CameraKeepsUp'
  <2> SUFFICES ASSUME cur' # Nothing PROVE CameraKeepsUp'
    BY DEF CameraKeepsUp
  <2>1. cur' = cur /\ cur \in Commands /\ cur # Nothing
    BY <1>1 DEF LinkTypes
  <2>2. \A k \in Nat : Has(cur, k) => Has(cur, k)'
    BY <1>1, <1>2, <2>1 DEF Has
  <2>3. QED
    BY <1>1, <1>6, <2>1, <2>2 DEF CameraKeepsUp
<1>13. PartialsInv'
  BY <1>1 DEF PartialsInv, Partials, Holds
<1>14. QED
  BY <1>7, <1>8, <1>9, <1>10, <1>11, <1>12, <1>13 DEF OneFramingEach

\* The steps of the app while it sends a command.
LEMMA RepeatKeepsInv == LinkInv /\ Repeat => LinkInv'
<1> SUFFICES ASSUME LinkInv, Repeat PROVE LinkInv'
  OBVIOUS
<1>1. /\ cur # Nothing /\ cur \in Commands /\ cur' = cur /\ idx' = idx /\ got' = got
      /\ UNCHANGED <<down, camera, central, begun, Taken>>
      /\ idx \in Nat /\ \E n \in Nat : got = 0..(n - 1)
  BY DEF Repeat, app, camera, Taken, LinkInv, LinkTypes
<1>2. CASE idx < Total[cur] /\ up' = Append(up, Chunk(cur, idx))
  <2>1. Chunk(cur, idx) \in Writes
    <3>1. idx \in Framing(cur)
      BY <1>1, <1>2, Commanded DEF Framing
    <3>2. QED
      BY <1>1, <3>1, WritesAndNotifications
  <2>2. QED
    BY <1>1, <1>2, <2>1, AppKeepsInv
<1>3. CASE got # {} /\ up' = Append(up, Ack(Corr[cur], Max(got)))
  <2>1. PICK n \in Nat : got = 0..(n - 1)
    BY <1>1
  <2>2. n - 1 \in got /\ \A k \in got : k <= n - 1
    BY <1>3, <2>1
  <2>3. Max(got) \in got /\ \A k \in got : Max(got) >= k
    BY <2>1, <2>2 DEF Max
  <2>4. Max(got) \in Nat /\ 0..Max(got) \subseteq got
    BY <2>1, <2>3
  <2>5. Ack(Corr[cur], Max(got)) \in Writes
    BY <1>1, <2>4, WritesAndNotifications
  <2>6. QED
    BY <1>1, <1>3, <2>4, <2>5, AppKeepsInv
<1>4. QED
  BY <1>2, <1>3 DEF Repeat, WriteUnasked, Write

LEMMA MalformedWriteKeepsInv == LinkInv /\ SendMalformed => LinkInv'
<1> SUFFICES ASSUME LinkInv, SendMalformed PROVE LinkInv'
  OBVIOUS
<1>1. /\ cur \in Commands /\ cur' = cur /\ idx' = idx /\ got' = got
      /\ UNCHANGED <<down, camera, central, begun, Taken>>
      /\ up' = Append(up, Malformed)
      /\ \E n \in Nat : got = 0..(n - 1)
  BY DEF SendMalformed, WriteUnasked, Write, app, camera, Taken, LinkInv, LinkTypes
<1>2. QED
  BY <1>1, AppKeepsInv, WritesAndNotifications

LEMMA HearAckKeepsInv == LinkInv /\ HearAck => LinkInv'
<1> SUFFICES ASSUME LinkInv, NEW id \in Ids, NEW i, Hear(Ack(id, i)),
                    IF ForCurrent(id) /\ i = idx /\ idx < Total[cur]
                      THEN /\ idx' = idx + 1
                           /\ IF idx' < Total[cur] THEN Write(Chunk(cur, idx'))
                                                   ELSE UNCHANGED up
                      ELSE UNCHANGED <<up, idx>>,
                    UNCHANGED <<cur, got>>
             PROVE  LinkInv'
  BY DEF HearAck
<1>1. /\ down # <<>> /\ down' = Tail(down) /\ Head(down) = Ack(id, i)
      /\ UNCHANGED <<camera, central, begun, Taken>>
      /\ \E n \in Nat : got' = 0..(n - 1)
  BY DEF Hear, camera, Taken, LinkInv, LinkTypes
<1>2. CASE ForCurrent(id) /\ i = idx /\ idx < Total[cur]
  <2>1. cur \in Commands /\ id = Corr[cur] /\ idx' = idx + 1 /\ idx \in Nat
    BY <1>2 DEF ForCurrent, LinkInv, LinkTypes
  <2>2. Ack(Corr[cur], idx) \in ToSet(down)
    BY <1>1, <1>2, <2>1, SequenceTail DEF LinkInv, LinkTypes
  <2>3. CASE idx' < Total[cur]
    <3>1. idx' \in Framing(cur)
      BY <2>1, <2>3, Commanded DEF Framing
    <3>2. Chunk(cur, idx') \in Writes /\ up' = Append(up, Chunk(cur, idx'))
      BY <1>2, <2>1, <2>3, <3>1, WritesAndNotifications DEF Write
    <3>3. QED
      BY <1>1, <1>2, <2>1, <2>2, <2>3, <3>2, AppKeepsInv
  <2>4. CASE ~(idx' < Total[cur])
    BY <1>1, <1>2, <2>1, <2>2, <2>4, AppKeepsInv
  <2>5. QED
    BY <2>3, <2>4
<1>3. CASE UNCHANGED <<up, idx>>
  <2>1. Fewer
    BY <1>1, <1>3 DEF Fewer, FewerWrites
  <2>2. /\ DOMAIN outbound' = Ids /\ central' \in Nat \ {0}
        /\ \A j \in Ids : outbound'[j] \in {outbound[j], Nothing}
        /\ UNCHANGED <<partial, running>>
    BY <1>1 DEF camera, LinkInv, LinkTypes
  <2>3. PartialsInv'
    BY <2>2 DEF LinkInv, PartialsInv, Partials, Holds
  <2>4. QED
    BY <1>1, <1>3, <2>1, <2>2, <2>3, ForgettingKeepsInv
<1>4. QED
  BY <1>2, <1>3

LEMMA HearReplyKeepsInv == LinkInv /\ HearReply => LinkInv'
<1> SUFFICES ASSUME LinkInv, NEW c \in Commands, NEW i \in 0..(Reply[c] - 1),
                    Hear(ReplyPart(c, i)),
                    IF cur = c
                      THEN /\ Write(Ack(Corr[c], i))
                           /\ got' = got \cup {i}
                           /\ cur' = IF got' = 0..(Reply[c] - 1) THEN Nothing ELSE cur
                      ELSE UNCHANGED <<up, got, cur>>,
                    UNCHANGED idx
             PROVE  LinkInv'
  BY DEF HearReply
<1>1. /\ down # <<>> /\ down' = Tail(down) /\ Head(down) = ReplyPart(c, i)
      /\ UNCHANGED <<camera, central, begun, Taken>>
  BY DEF Hear, camera, Taken
<1>2. ReplyPart(c, i) \in ToSet(down) /\ ReplyPart(c, i) \in Notifications /\ i \in Nat
  BY <1>1, SequenceTail, WritesAndNotifications DEF LinkInv, LinkTypes
<1>3. CASE cur = c
  <2>1. 0..(i - 1) \subseteq got
    BY <1>2, <1>3, Commanded DEF LinkInv, AppKeepsUp
  <2>2. PICK n \in Nat : got = 0..(n - 1)
    BY DEF LinkInv, LinkTypes
  <2>3. got' = got \cup {i}
    BY <1>3
  <2>4. \E m \in Nat : got' = 0..(m - 1)
    <3>1. CASE i < n
      BY <1>2, <2>2, <2>3, <3>1
    <3>2. CASE ~(i < n)
      <4>1. i = n
        <5> SUFFICES ASSUME i # n PROVE FALSE
          OBVIOUS
        <5>1. n \in 0..(i - 1)
          BY <1>2, <2>2, <3>2
        <5>2. QED
          BY <2>1, <2>2, <5>1
      <4>2. got' = 0..((n + 1) - 1)
        BY <2>2, <2>3, <4>1
      <4>3. QED
        BY <4>2
    <3>3. QED
      BY <3>1, <3>2
  <2>5. 0..i \subseteq got' /\ got \subseteq got'
    BY <1>2, <2>1, <2>3
  <2>6. Ack(Corr[cur], i) \in Writes /\ up' = Append(up, Ack(Corr[cur], i))
    BY <1>2, <1>3, WritesAndNotifications DEF Write
  <2>7. cur \in Commands /\ cur' \in {cur, Nothing} /\ idx' = idx
    BY <1>3
  <2>8. QED
    BY <1>1, <1>2, <2>4, <2>5, <2>6, <2>7, AppKeepsInv
<1>4. CASE cur # c
  <2>1. UNCHANGED <<up, got, cur>>
    BY <1>4
  <2>2. Fewer
    BY <1>1, <2>1 DEF Fewer, FewerWrites
  <2>3. /\ DOMAIN outbound' = Ids /\ central' \in Nat \ {0}
        /\ \A j \in Ids : outbound'[j] \in {outbound[j], Nothing}
        /\ UNCHANGED <<partial, running>>
    BY <1>1 DEF camera, LinkInv, LinkTypes
  <2>4. PartialsInv'
    BY <2>3 DEF LinkInv, PartialsInv, Partials, Holds
  <2>5. QED
    BY <1>1, <2>1, <2>2, <2>3, <2>4, ForgettingKeepsInv
<1>5. QED
  BY <1>3, <1>4

LEMMA LinkStepInv == LinkInv /\ TaskTypes /\ [Next]_vars => LinkInv'
<1> SUFFICES ASSUME LinkInv, TaskTypes, [Next]_vars PROVE LinkInv'
  OBVIOUS
<1>1. PartialsInv'
  BY PartialsStepInv DEF LinkInv
<1>2. /\ DOMAIN outbound = Ids /\ \A j \in Ids : outbound[j] \in {outbound[j], Nothing}
      /\ central \in Nat \ {0}
  BY DEF LinkInv, LinkTypes
<1>3. ASSUME Fewer, cur' \in {cur, Nothing}, central' \in {central, central + 1},
             UNCHANGED <<idx, got>> \/ Forget,
             UNCHANGED <<partial, outbound, running, task, begun, runs>>
      PROVE  LinkInv'
  <2>1. /\ DOMAIN outbound' = Ids /\ central' \in Nat \ {0}
        /\ \A j \in Ids : outbound'[j] \in {outbound[j], Nothing}
        /\ UNCHANGED <<partial, running, Taken>>
    BY <1>2, <1>3 DEF Taken
  <2>2. QED
    BY <1>1, <1>3, <2>1, ForgettingKeepsInv
<1>4. CASE ReceiveMalformed
  BY <1>3, <1>4 DEF ReceiveMalformed, Receive, app, camera, Fewer, FewerWrites
<1>5. CASE Stop
  <2>1. Fewer /\ cur' \in {cur, Nothing} /\ central' \in Nat \ {0}
    BY <1>2, <1>5 DEF Stop, app, Fewer, FewerWrites
  <2>2. /\ UNCHANGED <<idx, got, begun, Taken>>
        /\ partial' = [id \in Ids |-> Nothing] /\ running' = FALSE
        /\ DOMAIN outbound' = Ids
        /\ \A j \in Ids : outbound'[j] \in {outbound[j], Nothing}
    BY <1>5 DEF Stop, app, Taken
  <2>3. QED
    BY <1>1, <2>1, <2>2, ForgettingKeepsInv
<1>6. CASE GiveUp
  BY <1>3, <1>6 DEF GiveUp, Forget, camera, Fewer, FewerWrites
<1>7. CASE LoseWrite
  BY <1>3, <1>7 DEF LoseWrite, app, camera, Fewer, FewerWrites
<1>8. CASE LoseNotification
  BY <1>3, <1>8 DEF LoseNotification, app, camera, Fewer, FewerWrites
<1>9. CASE CentralChanges
  BY <1>3, <1>9 DEF CentralChanges, Forget, camera, Fewer, FewerWrites
<1>10. CASE UNCHANGED vars
  BY <1>3, <1>10 DEF vars, camera, Fewer, FewerWrites
<1>11. CASE Camera
  BY <1>4, <1>11, HandlerKeepsInv, SingleKeepsInv, DuplicateKeepsInv, PartKeepsInv, LastKeepsInv,
     AckKeepsInv DEF Camera
<1>12. CASE App
  BY <1>12, BeginKeepsInv, RepeatKeepsInv, MalformedWriteKeepsInv, HearAckKeepsInv,
     HearReplyKeepsInv DEF App
<1>13. QED
  BY ONLY [Next]_vars, <1>5, <1>6, <1>7, <1>8, <1>9, <1>10, <1>11, <1>12 DEF Next

\* While no id is used for two commands or framings: all that it was
\* acked has been handled, and no command of several chunks is handled twice,
\* whatever the link loses and the app repeats, and although the entries of other
\* commands are evicted.
THEOREM AckedCommandsRan ==
  ASSUME OneFramingEach
  PROVE  Spec => []AckedCommandRan
<1>1. Init => LinkInv /\ TaskTypes
  BY InitLinkInv DEF Init, TaskTypes, Many
<1>2. LinkInv /\ TaskTypes => AckedCommandRan
  <2> SUFFICES ASSUME LinkInv, TaskTypes PROVE AckedCommandRan
    OBVIOUS
  <2>1. ASSUME cur # Nothing, idx = Total[cur] PROVE runs[cur] > 0 \/ task = cur
    <3>1. cur \in Commands
      BY <2>1 DEF LinkInv, LinkTypes
    <3>2. idx - 1 \in Nat /\ idx - 1 < idx
      BY <2>1, <3>1, Commanded
    <3>3. Has(cur, idx - 1)
      BY <2>1, <3>2 DEF LinkInv, CameraKeepsUp
    <3>4. QED
      BY <2>1, <3>1, <3>2, <3>3, TakenCounts DEF Has
  <2>2. \A c \in Commands : Total[c] > 1 => runs[c] <= 1
    <3>1. \A c \in Commands : /\ runs[c] \in 0..Many /\ Taken[c] \in 0..Many
                              /\ runs[c] <= Taken[c]
      BY TakenCounts DEF TaskTypes
    <3>2. \A c \in Commands : Total[c] > 1 => Taken[c] <= 1
      BY DEF LinkInv, NoneOvertaken
    <3>3. QED
      BY <3>1, <3>2 DEF Many
  <2>3. QED
    BY <2>1, <2>2 DEF AckedCommandRan
<1>3. QED
  BY <1>1, <1>2, LinkStepInv, TaskTypesStep, PTL DEF Spec

\* Under the same condition no chunk of a reply is under way before the app has
\* all the chunks before it: the camera sends it on the ack of its predecessor.
THEOREM RepliesInTurn ==
  ASSUME OneFramingEach
  PROVE  Spec => []ReplyInTurn
<1>1. Init => LinkInv /\ TaskTypes
  BY InitLinkInv DEF Init, TaskTypes, Many
<1>2. LinkInv => ReplyInTurn
  <2> SUFFICES ASSUME LinkInv, NEW n \in ToSet(down), n.kind = "reply", n.cmd = cur
               PROVE  0..(n.index - 1) \subseteq got
    BY DEF ReplyInTurn
  <2>1. n \in Notifications
    BY SequenceMember DEF LinkInv, LinkTypes
  <2>2. \A id, i : Ack(id, i).kind # "reply"
    BY DEF Ack
  <2>3. \E c \in Commands : \E i \in Nat : n = ReplyPart(c, i)
    BY <2>1, <2>2 DEF Notifications
  <2>4. PICK i \in Nat : n = ReplyPart(cur, i) /\ n.index = i /\ cur \in Commands
    BY <2>3 DEF ReplyPart
  <2>5. QED
    BY <2>4, Commanded DEF LinkInv, AppKeepsUp
<1>3. QED
  BY <1>1, <1>2, LinkStepInv, TaskTypesStep, PTL DEF Spec
=============================================================================

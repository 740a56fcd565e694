--------------------------- MODULE StreamingProofs ---------------------------
(***************************************************************************)
(* The streaming service for any number of streams and servers.  Sharing   *)
(* mtx_ takes nothing from either streamer: every step of the service is a *)
(* step of RtmpUplink or leaves it alone, and likewise of RtspPreview.  So *)
(* the invariants are those of the two streamers, proved one action of a   *)
(* streamer at a time.                                                     *)
(*                                                                         *)
(* Then the downloads: a byte is known by the take it is of, and takes     *)
(* only grow, so a file that was recorded again is told from the one a     *)
(* worker announced.                                                       *)
(***************************************************************************)
EXTENDS Streaming, DownloadServer, TLAPS

-----------------------------------------------------------------------------
\* The composition.

LEMMA StepIsUplinkStep == [Next]_vars => [Uplink!Next]_(Uplink!vars)
<1> SUFFICES ASSUME [Next]_vars PROVE Uplink!Next \/ UNCHANGED Uplink!vars
  OBVIOUS
<1> USE DEF Uplink!Next, Uplink!StopStep, Uplink!vars, Uplink!flags, uplinkVars
<1>1. ASSUME NEW key \in Keys, StartPlatformStream(key) PROVE Uplink!Next
  BY <1>1 DEF StartPlatformStream
<1>2. CASE StopPlatformStream
  BY <1>2 DEF StopPlatformStream
<1>3. CASE UplinkRuns
  BY <1>3 DEF UplinkRuns
<1>4. CASE StartAppStream \/ StopAppStream \/ PreviewRuns
  BY <1>4 DEF StartAppStream, StopAppStream, PreviewRuns
<1>5. CASE Push \/ PushReturns
  BY <1>5 DEF Push, PushReturns
<1>6. CASE UNCHANGED vars
  BY <1>6 DEF vars
<1>7. QED
  BY ONLY [Next]_vars, <1>1, <1>2, <1>3, <1>4, <1>5, <1>6 DEF Next

LEMMA StepIsPreviewStep == [Next]_vars => [Preview!Next]_(Preview!vars)
<1> SUFFICES ASSUME [Next]_vars PROVE Preview!Next \/ UNCHANGED Preview!vars
  OBVIOUS
<1> USE DEF Preview!Next, Preview!vars, previewVars
<1>1. ASSUME NEW key \in Keys, StartPlatformStream(key) PROVE UNCHANGED Preview!vars
  BY <1>1 DEF StartPlatformStream
<1>2. CASE StopPlatformStream \/ UplinkRuns
  BY <1>2 DEF StopPlatformStream, UplinkRuns
<1>3. CASE StartAppStream \/ StopAppStream \/ PreviewRuns
  BY <1>3 DEF StartAppStream, StopAppStream, PreviewRuns
<1>4. CASE Push \/ PushReturns
  BY <1>4 DEF Push, PushReturns
<1>5. CASE UNCHANGED vars
  BY <1>5 DEF vars
<1>6. QED
  BY ONLY [Next]_vars, <1>1, <1>2, <1>3, <1>4, <1>5 DEF Next

\* The service's mutex never makes a streamer do what it could not do alone: what
\* holds of each streamer under any caller holds of it in the service.
THEOREM ServiceKeepsStreamers == Spec => Uplink!Spec /\ Preview!Spec
<1>1. Init => Uplink!Init /\ Preview!Init
  BY DEF Init
<1>2. QED
  BY <1>1, StepIsUplinkStep, StepIsPreviewStep, PTL DEF Spec, Uplink!Spec, Preview!Spec

-----------------------------------------------------------------------------
(***************************************************************************)
(* The uplink.  The list and the flags say the same while nobody stops the *)
(* stream, and during a stop the watcher ends before the flush begins.     *)
(***************************************************************************)
StopTakesEntryFirst == \A s \in listed : streamControl[s] = "idle"

WatcherJoined ==
  \A s \in Streamers : streamControl[s] \in {"locking", "flushing"} => watcher[s] = "none"

\* What is kept for each streamer is kept in functions of them all.
StreamerShape ==
  /\ listed \subseteq Streamers
  /\ running \in [Streamers -> BOOLEAN] /\ watching \in [Streamers -> BOOLEAN]
  /\ pipeline \in [Streamers -> {"none", "up", "error"}]
  /\ watcher \in [Streamers -> {"none", "top", "poll", "backoff", "lock", "rebuild", "exited"}]
  /\ streamControl \in [Streamers -> {"idle", "joining", "locking", "flushing"}]

UplinkInv == StreamerShape /\ StopTakesEntryFirst /\ WatcherJoined /\ ListedIsWatched

LEMMA UplinkInitInv == Init => UplinkInv
  BY DEF Init, Uplink!Init, Uplink!Each, UplinkInv, StreamerShape, StopTakesEntryFirst,
         WatcherJoined, ListedIsWatched, Uplink!ListedIsWatched

\* A start lists a streamer only when none is listed, one nobody stops.
LEMMA StartKeepsUplink ==
  ASSUME UplinkInv, NEW key \in Keys, Uplink!StartPlatformStream(key)
  PROVE  UplinkInv'
<1> USE DEF UplinkInv, StreamerShape, StopTakesEntryFirst, WatcherJoined, ListedIsWatched,
            Uplink!ListedIsWatched, Uplink!flags, Uplink!Set
<1>1. PICK s \in Streamers :
        /\ streamControl[s] = "idle" /\ UNCHANGED streamControl
        /\ IF listed # {} \/ ~key
           THEN UNCHANGED <<Uplink!flags, pipeline, watcher>>
           ELSE /\ listed' = {s}
                /\ running' = Uplink!Set(running, s, TRUE) /\ watching' = Uplink!Set(watching, s, TRUE)
                /\ pipeline' = Uplink!Set(pipeline, s, "up") /\ watcher' = Uplink!Set(watcher, s, "top")
  BY DEF Uplink!StartPlatformStream
<1>2. CASE listed # {} \/ ~key
  BY <1>1, <1>2
<1>3. CASE listed = {} /\ key
  <2>1. /\ listed' = {s} /\ streamControl' = streamControl /\ streamControl[s] = "idle"
        /\ running' = [running EXCEPT ![s] = TRUE] /\ watching' = [watching EXCEPT ![s] = TRUE]
        /\ pipeline' = [pipeline EXCEPT ![s] = "up"] /\ watcher' = [watcher EXCEPT ![s] = "top"]
    BY <1>1, <1>3
  <2>2. StreamerShape' /\ StopTakesEntryFirst' /\ WatcherJoined'
    BY <2>1
  <2>3. ListedIsWatched'
    BY <1>3, <2>1
  <2>4. QED
    BY <2>2, <2>3
<1>4. QED
  BY <1>2, <1>3

\* A stop takes the entry out, joins and flushes, each for its own streamer.
LEMMA StopKeepsUplink ==
  ASSUME UplinkInv, NEW s \in Streamers, Uplink!StopStep(s)
  PROVE  UplinkInv'
<1> USE DEF UplinkInv, StreamerShape, StopTakesEntryFirst, WatcherJoined, ListedIsWatched,
            Uplink!ListedIsWatched, Uplink!flags, Uplink!Set
<1>1. CASE Uplink!BeginStop(s)
  BY <1>1 DEF Uplink!BeginStop
<1>2. CASE Uplink!JoinWatcher(s)
  BY <1>2 DEF Uplink!JoinWatcher
<1>3. CASE Uplink!BeginFlush(s)
  BY <1>3 DEF Uplink!BeginFlush
<1>4. CASE Uplink!EndFlush(s)
  BY <1>4 DEF Uplink!EndFlush
<1>5. QED
  BY ONLY Uplink!StopStep(s), <1>1, <1>2, <1>3, <1>4 DEF Uplink!StopStep

LEMMA WatcherKeepsUplink ==
  ASSUME UplinkInv, NEW s \in Streamers, Uplink!WatcherStep(s)
  PROVE  UplinkInv'
<1> USE DEF UplinkInv, StreamerShape, StopTakesEntryFirst, WatcherJoined, ListedIsWatched,
            Uplink!ListedIsWatched, Uplink!flags, Uplink!Set, Uplink!Goto
<1>1. CASE Uplink!WatchTop(s)
  BY <1>1 DEF Uplink!WatchTop
<1>2. CASE Uplink!HealthyTick(s) \/ Uplink!BusError(s)
  BY <1>2 DEF Uplink!HealthyTick, Uplink!BusError
<1>3. CASE Uplink!BackoffEnds(s)
  BY <1>3 DEF Uplink!BackoffEnds
<1>4. CASE Uplink!BeginRebuild(s)
  BY <1>4 DEF Uplink!BeginRebuild
<1>5. CASE Uplink!Rebuilt(s) \/ Uplink!RebuildFails(s)
  BY <1>5 DEF Uplink!Rebuilt, Uplink!RebuildFails, Uplink!EndRebuild
<1>6. QED
  BY ONLY Uplink!WatcherStep(s), <1>1, <1>2, <1>3, <1>4, <1>5 DEF Uplink!WatcherStep

LEMMA UplinkStepInv == UplinkInv /\ [Next]_vars => UplinkInv'
<1> SUFFICES ASSUME UplinkInv, [Uplink!Next]_(Uplink!vars) PROVE UplinkInv'
  BY StepIsUplinkStep
<1>1. ASSUME NEW key \in Keys, Uplink!StartPlatformStream(key) PROVE UplinkInv'
  BY <1>1, StartKeepsUplink
<1>2. ASSUME NEW s \in Streamers, Uplink!StopStep(s) \/ Uplink!WatcherStep(s) PROVE UplinkInv'
  BY <1>2, StopKeepsUplink, WatcherKeepsUplink
<1> USE DEF UplinkInv, StreamerShape, StopTakesEntryFirst, WatcherJoined, ListedIsWatched,
            Uplink!ListedIsWatched, Uplink!flags, Uplink!Set
<1>3. ASSUME NEW s \in Streamers, Uplink!UplinkFails(s) PROVE UplinkInv'
  BY <1>3 DEF Uplink!UplinkFails
<1>4. CASE Uplink!EnterPush \/ Uplink!LeavePush
  BY <1>4 DEF Uplink!EnterPush, Uplink!LeavePush
<1>5. CASE UNCHANGED Uplink!vars
  BY <1>5 DEF Uplink!vars
<1>6. QED
  BY ONLY [Uplink!Next]_(Uplink!vars), <1>1, <1>2, <1>3, <1>4, <1>5 DEF Uplink!Next

\* Whoever starts and stops, and however often the watcher rebuilds: the stream in
\* the service's map has its watcher, and one that is gone has left nothing.
THEOREM ListedStreamIsWatched == Spec => []ListedIsWatched
<1>1. UplinkInv => ListedIsWatched
  BY DEF UplinkInv
<1>2. QED
  BY <1>1, UplinkInitInv, UplinkStepInv, PTL DEF Spec

\* GstRtmpStreamer::Stop has the pipeline to itself from the join on.
THEOREM FlushHasNoRival == Spec => []FlushIsAlone
<1>1. UplinkInv => FlushIsAlone
  BY DEF UplinkInv, WatcherJoined, FlushIsAlone, Uplink!FlushIsAlone
<1>2. QED
  BY <1>1, UplinkInitInv, UplinkStepInv, PTL DEF Spec

-----------------------------------------------------------------------------
(***************************************************************************)
(* The preview.  A DESCRIBE is answered by a thread of its own, so the     *)
(* media of one server may be configured when the next one runs; what      *)
(* matters is that a viewer of the new server can only come once that is   *)
(* over.                                                                   *)
(***************************************************************************)
\* A running server has its own loop, not yet run or running; between sessions
\* there is neither.
RunningServer ==
  /\ serving => /\ previewControl = "idle" /\ server = servers /\ server # 0
                /\ thread = "spawned" \/ (thread = "loop" /\ looping)
  /\ Preview!StoppedIsGone
  /\ Preview!LoopOutlivesThread

\* The media of a viewer's server is being configured or is.
ViewersMedia ==
  serving /\ connected => describing = server \/ (describing = 0 /\ appsrc = server)

PreviewInv == servers \in Nat /\ RunningServer /\ ViewersMedia

LEMMA PreviewInitInv == Init => PreviewInv
  BY DEF Init, Preview!Init, PreviewInv, RunningServer, ViewersMedia,
         Preview!StoppedIsGone, Preview!LoopOutlivesThread

LEMMA PreviewStepInv == PreviewInv /\ [Next]_vars => PreviewInv'
<1> SUFFICES ASSUME PreviewInv, [Preview!Next]_(Preview!vars) PROVE PreviewInv'
  BY StepIsPreviewStep
<1> USE DEF PreviewInv, RunningServer, ViewersMedia, Preview!StoppedIsGone,
            Preview!LoopOutlivesThread
<1>1. CASE Preview!Start
  BY <1>1 DEF Preview!Start
<1>2. CASE Preview!BeginStop
  BY <1>2 DEF Preview!BeginStop
<1>3. CASE Preview!JoinAndRelease
  BY <1>3 DEF Preview!JoinAndRelease
<1>4. CASE Preview!LoopRuns
  BY <1>4 DEF Preview!LoopRuns
<1>5. CASE Preview!LoopReturns
  BY <1>5 DEF Preview!LoopReturns
<1>6. CASE Preview!ViewerDescribes
  BY <1>6 DEF Preview!ViewerDescribes
<1>7. CASE Preview!OnMediaConfigure
  BY <1>7 DEF Preview!OnMediaConfigure
<1>8. CASE Preview!Push
  BY <1>8 DEF Preview!Push
<1>9. CASE UNCHANGED Preview!vars
  BY <1>9 DEF Preview!vars
<1>10. QED
  BY ONLY [Preview!Next]_(Preview!vars), <1>1, <1>2, <1>3, <1>4, <1>5, <1>6, <1>7, <1>8,
     <1>9
  DEF Preview!Next

\* The frames of a viewer that is configured go to its own server, although
\* OnMediaConfigure stores whatever media it is handed, the last server's too.
THEOREM ViewerGetsItsServer == Spec => []ViewerIsServed
<1>1. PreviewInv => ViewerIsServed
  BY DEF PreviewInv, RunningServer, ViewersMedia, ViewerIsServed, Preview!ViewerIsServed
<1>2. QED
  BY <1>1, PreviewInitInv, PreviewStepInv, PTL DEF Spec

\* The loop and its server outlive the thread that runs them, and when Stop has
\* returned neither is left (GstRtspAppStreamServer::Stop).
THEOREM ServerOutlivesItsLoop ==
  Spec => [](Preview!LoopOutlivesThread /\ Preview!StoppedIsGone)
<1>1. PreviewInv => Preview!LoopOutlivesThread /\ Preview!StoppedIsGone
  BY DEF PreviewInv, RunningServer
<1>2. QED
  BY <1>1, PreviewInitInv, PreviewStepInv, PTL DEF Spec

-----------------------------------------------------------------------------
\* The downloads of what was recorded (DownloadServer), for any tokens, workers
\* and recordings.
\* The types, those of the files and of the fetches apart.
FileTypes == /\ files \in [Paths -> [take : Nat, size : Nat]]
             /\ takes \in Nat /\ writing \in Paths \cup {NoPath}
             /\ \A p \in Paths : files[p].take <= takes

Fetch == [at : {"idle", "admitted", "sending"}, token : Nat, path : Paths \cup {NoPath},
          first : Nat, end : Nat, take : Nat, closed : BOOLEAN, data : Seq(Nat \X Nat)]
FetchTypes == /\ fetch \in [Workers -> Fetch]
              /\ \A w \in Workers : /\ fetch[w].at # "idle" => fetch[w].path \in Paths
                                    /\ fetch[w].at # "sending" => fetch[w].data = <<>>

\* A token that lives was never refused, and names a path of the recording it
\* was asked for.
TokensAreTrue ==
  /\ minted \in Nat /\ refused \subseteq 1..minted /\ DOMAIN tokens \subseteq 1..minted
  /\ refused \cap DOMAIN tokens = {}
  /\ \A t \in DOMAIN tokens : tokens[t].path \in Paths /\ tokens[t].id = Stem[tokens[t].path]

\* A worker has its path from its token.
PathOfToken ==
  \A w \in Workers : /\ fetch[w].token \in 0..minted
                     /\ fetch[w].token \in DOMAIN tokens =>
                          fetch[w].path = tokens[fetch[w].token].path

\* What a worker sends, as long as the file has not been recorded again: takes
\* only grow, so a file that is of another take now stays so.
Slice ==
  \A w \in Workers : fetch[w].at = "sending" =>
    LET g == fetch[w]  f == files[fetch[w].path] IN
      /\ \A n \in 1..Len(g.data) : g.data[n][2] = g.first + n
      /\ g.take <= f.take
      /\ f.take = g.take => /\ \A n \in 1..Len(g.data) : g.data[n][1] = g.take
                            /\ g.end <= f.size
                            /\ g.closed => g.end = f.size /\ writing # g.path

DownloadInv == FileTypes /\ FetchTypes /\ TokensAreTrue /\ PathOfToken /\ Slice

-----------------------------------------------------------------------------
LEMMA IdleFetch ==
  /\ Idle \in Fetch
  /\ Idle.at = "idle" /\ Idle.token = 0 /\ Idle.data = <<>>
  BY DEF Idle, Fetch

LEMMA DownloadInitInv == DownloadInit => DownloadInv
<1> SUFFICES ASSUME DownloadInit PROVE DownloadInv
  OBVIOUS
<1> USE IdleFetch DEF DownloadInit
<1>1. FileTypes /\ FetchTypes
  BY DEF FileTypes, FetchTypes, NoFile
<1>2. TokensAreTrue
  BY DEF TokensAreTrue
<1>3. PathOfToken /\ Slice
  BY DEF PathOfToken, Slice
<1>4. QED
  BY <1>1, <1>2, <1>3 DEF DownloadInv

\* A recording to a path makes its file one of a later take than any fetch has.
LEMMA RecordKeepsInv ==
  ASSUME DownloadInv, NEW p \in Paths, Record(p)
  PROVE  DownloadInv'
<1> USE DEF DownloadInv, Record, access
<1>1. FileTypes'
  BY DEF FileTypes
<1>2. FetchTypes' /\ TokensAreTrue' /\ PathOfToken'
  BY DEF FetchTypes, TokensAreTrue, PathOfToken
<1>3. Slice'
  <2> SUFFICES ASSUME NEW w \in Workers, fetch[w].at = "sending"
               PROVE  LET g == fetch[w]  f == files'[fetch[w].path] IN
                        /\ \A n \in 1..Len(g.data) : g.data[n][2] = g.first + n
                        /\ g.take <= f.take
                        /\ f.take = g.take => /\ \A n \in 1..Len(g.data) : g.data[n][1] = g.take
                                              /\ g.end <= f.size
                                              /\ g.closed => g.end = f.size /\ writing' # g.path
    BY DEF Slice
  <2>1. /\ fetch[w].path \in Paths /\ fetch[w].take \in Nat
        /\ fetch[w].take <= takes /\ takes \in Nat
    BY DEF FetchTypes, Fetch, Slice, FileTypes
  <2>2. CASE fetch[w].path = p
    <3>1. files'[p].take = takes + 1
      BY DEF FileTypes
    <3>2. QED
      BY <2>1, <2>2, <3>1 DEF Slice
  <2>3. CASE fetch[w].path # p
    <3>1. files'[fetch[w].path] = files[fetch[w].path]
      BY <2>1, <2>3 DEF FileTypes
    <3>2. QED
      BY <2>1, <2>3, <3>1 DEF Slice
  <2>4. QED
    BY <2>2, <2>3
<1>4. QED
  BY <1>1, <1>2, <1>3

\* The file that grows is the one being written, which no fetch took for closed.
LEMMA AppendKeepsInv ==
  ASSUME DownloadInv, Append2File
  PROVE  DownloadInv'
<1> USE DEF DownloadInv, Append2File, access
<1>1. /\ writing \in Paths /\ files[writing].size \in Nat
      /\ files' \in [Paths -> [take : Nat, size : Nat]]
      /\ files'[writing].take = files[writing].take
      /\ files'[writing].size = files[writing].size + 1
      /\ \A p \in Paths \ {writing} : files'[p] = files[p]
  BY DEF FileTypes
<1>2. FileTypes'
  BY <1>1 DEF FileTypes
<1>3. FetchTypes' /\ TokensAreTrue' /\ PathOfToken'
  BY DEF FetchTypes, TokensAreTrue, PathOfToken
<1>4. ASSUME NEW w \in Workers, fetch[w].at = "sending"
      PROVE  fetch[w].path \in Paths /\ fetch[w].end \in Nat
  BY <1>4 DEF FetchTypes, Fetch
<1>5. Slice'
  BY <1>1, <1>4 DEF Slice
<1>6. QED
  BY <1>2, <1>3, <1>5

LEMMA CloseKeepsInv ==
  ASSUME DownloadInv, CloseFile
  PROVE  DownloadInv'
<1> USE DEF DownloadInv, CloseFile, access
<1>1. FileTypes' /\ FetchTypes' /\ TokensAreTrue' /\ PathOfToken'
  BY DEF FileTypes, FetchTypes, TokensAreTrue, PathOfToken
<1>2. Slice'
  <2>1. ASSUME NEW w \in Workers, fetch[w].at = "sending"
        PROVE  fetch[w].path # NoPath
    BY <2>1, NoPathIsNone DEF FetchTypes
  <2>2. QED
    BY <2>1 DEF Slice
<1>3. QED
  BY <1>1, <1>2

\* A new token is one no worker bears, and its path has the stem asked for.
LEMMA MintKeepsInv ==
  ASSUME DownloadInv, NEW id \in Ids, MintToken(id)
  PROVE  DownloadInv'
<1> USE DEF DownloadInv, MintToken, recordings
<1>1. FileTypes' /\ FetchTypes' /\ Slice'
  BY DEF FileTypes, FetchTypes, Slice
<1>2. PICK p \in ResolveRecordingPath(id) :
        tokens' = [t \in DOMAIN tokens \cup {minted + 1} |->
                    IF t \in DOMAIN tokens THEN tokens[t]
                    ELSE [id |-> id, path |-> p, expires |-> clock + TTL]]
  OBVIOUS
<1>3. p \in Paths /\ Stem[p] = id
  BY DEF ResolveRecordingPath, Enumerate
<1>4. /\ minted \in Nat /\ minted + 1 \notin 1..minted /\ minted + 1 \notin DOMAIN tokens
      /\ 1..minted \subseteq 1..(minted + 1) /\ minted + 1 \in 1..(minted + 1)
      /\ 0..minted \subseteq 0..(minted + 1) /\ minted + 1 \notin 0..minted
  BY DEF TokensAreTrue
<1>5. /\ DOMAIN tokens' = DOMAIN tokens \cup {minted + 1}
      /\ \A t \in DOMAIN tokens : tokens'[t] = tokens[t]
      /\ tokens'[minted + 1].id = id /\ tokens'[minted + 1].path = p
  BY <1>2, <1>4
<1>6. TokensAreTrue'
  BY <1>3, <1>4, <1>5 DEF TokensAreTrue
<1>7. PathOfToken'
  BY <1>4, <1>5 DEF PathOfToken
<1>8. QED
  BY <1>1, <1>6, <1>7

LEMMA RefuseKeepsInv ==
  ASSUME DownloadInv, NEW t \in 1..minted, Refuse(t)
  PROVE  DownloadInv'
<1> USE DEF DownloadInv, Refuse, recordings
<1>1. FileTypes' /\ FetchTypes' /\ Slice'
  BY DEF FileTypes, FetchTypes, Slice
<1>2. /\ DOMAIN tokens' = DOMAIN tokens \ {t}
      /\ \A u \in DOMAIN tokens' : tokens'[u] = tokens[u]
  BY DEF Restrict
<1>3. TokensAreTrue' /\ PathOfToken'
  BY <1>2 DEF TokensAreTrue, PathOfToken
<1>4. QED
  BY <1>1, <1>3

\* A worker that goes on to g: what is left to show of it.
LEMMA FetchKeepsInv ==
  ASSUME DownloadInv, NEW w \in Workers, NEW g \in Fetch,
         fetch' = [fetch EXCEPT ![w] = g], UNCHANGED <<recordings, access>>,
         g.at # "idle" => g.path \in Paths,
         g.at # "sending" => g.data = <<>>,
         g.token \in 0..minted,
         g.token \in DOMAIN tokens => g.path = tokens[g.token].path,
         g.at = "sending" =>
           LET f == files[g.path] IN
             /\ \A n \in 1..Len(g.data) : g.data[n][2] = g.first + n
             /\ g.take <= f.take
             /\ f.take = g.take => /\ \A n \in 1..Len(g.data) : g.data[n][1] = g.take
                                   /\ g.end <= f.size
                                   /\ g.closed => g.end = f.size /\ writing # g.path
  PROVE  DownloadInv'
<1> USE DEF DownloadInv, recordings, access
<1>1. fetch'[w] = g /\ \A v \in Workers \ {w} : fetch'[v] = fetch[v]
  BY DEF FetchTypes
<1>2. FileTypes' /\ TokensAreTrue'
  BY DEF FileTypes, TokensAreTrue
<1>3. FetchTypes'
  BY <1>1 DEF FetchTypes
<1>4. PathOfToken'
  BY <1>1 DEF PathOfToken
<1>5. Slice'
  BY <1>1 DEF Slice
<1>6. QED
  BY <1>2, <1>3, <1>4, <1>5

LEMMA EndKeepsInv ==
  ASSUME DownloadInv, NEW w \in Workers, fetch' = [fetch EXCEPT ![w] = Idle],
         UNCHANGED <<recordings, access>>
  PROVE  DownloadInv'
<1>1. 0 \in 0..minted /\ 0 \notin DOMAIN tokens
  BY DEF DownloadInv, TokensAreTrue
<1>2. QED
  BY <1>1, IdleFetch, FetchKeepsInv

LEMMA AdmitKeepsInv ==
  ASSUME DownloadInv, NEW w \in Workers, NEW t \in 1..minted, Admit(w, t)
  PROVE  DownloadInv'
<1> DEFINE g == [Idle EXCEPT !.at = "admitted", !.token = t, !.path = tokens[t].path]
<1>1. tokens[t].path \in Paths /\ t \in Nat /\ t \in 0..minted
  BY DEF DownloadInv, TokensAreTrue, Admit
<1>2. g \in Fetch /\ g.at = "admitted" /\ g.token = t /\ g.path = tokens[t].path /\ g.data = <<>>
  BY <1>1, IdleFetch DEF Fetch
<1>3. fetch' = [fetch EXCEPT ![w] = g] /\ UNCHANGED <<recordings, access>>
  BY DEF Admit
<1> HIDE DEF g
<1>4. QED
  BY <1>1, <1>2, <1>3, FetchKeepsInv

LEMMA AnnounceKeepsInv ==
  ASSUME DownloadInv, NEW w \in Workers, Announce(w)
  PROVE  DownloadInv'
<1>1. /\ fetch[w] \in Fetch /\ fetch[w].at = "admitted" /\ fetch[w].path \in Paths
      /\ fetch[w].data = <<>> /\ DOMAIN fetch = Workers
  BY DEF DownloadInv, FetchTypes, Announce
<1> DEFINE f == files[fetch[w].path]
<1>2. f.take \in Nat /\ f.size \in Nat
  BY <1>1 DEF DownloadInv, FileTypes
<1>3. PICK n \in {0} \cup 0..(f.size - 1) :
        fetch' = [fetch EXCEPT ![w].at = "sending", ![w].first = n, ![w].end = f.size,
                               ![w].take = f.take, ![w].closed = writing # fetch[w].path]
  BY DEF Announce
<1> DEFINE g == [fetch[w] EXCEPT !.at = "sending", !.first = n, !.end = f.size,
                                 !.take = f.take, !.closed = writing # fetch[w].path]
<1>4. fetch' = [fetch EXCEPT ![w] = g]
  BY <1>1, <1>3
<1>5. n \in Nat
  BY <1>2
<1>6. /\ g \in Fetch /\ g.at = "sending" /\ g.token = fetch[w].token /\ g.path = fetch[w].path
      /\ g.first = n /\ g.end = f.size /\ g.take = f.take /\ g.data = <<>>
      /\ g.closed = (writing # fetch[w].path)
  BY <1>1, <1>2, <1>5 DEF Fetch
<1>7. /\ g.token \in 0..minted
      /\ g.token \in DOMAIN tokens => g.path = tokens[g.token].path
      /\ UNCHANGED <<recordings, access>>
  BY <1>6 DEF DownloadInv, PathOfToken, Announce
<1> HIDE DEF g
<1>8. /\ 1..Len(g.data) = {} /\ g.take <= f.take /\ g.end <= f.size
      /\ g.closed => g.end = f.size /\ writing # g.path
  <2>1. Len(g.data) = 0
    BY <1>6
  <2>2. 1..Len(g.data) = {}
    BY <2>1
  <2>3. g.take <= f.take /\ g.end <= f.size
    BY <1>2, <1>6
  <2>4. g.closed => g.end = f.size /\ writing # g.path
    BY <1>6
  <2>5. QED
    BY <2>2, <2>3, <2>4
<1>9. LET h == files[g.path] IN
        /\ \A m \in 1..Len(g.data) : g.data[m][2] = g.first + m
        /\ g.take <= h.take
        /\ h.take = g.take => /\ \A m \in 1..Len(g.data) : g.data[m][1] = g.take
                              /\ g.end <= h.size
                              /\ g.closed => g.end = h.size /\ writing # g.path
  BY <1>6, <1>8
<1> HIDE DEF f
<1>10. QED
  BY <1>1, <1>4, <1>6, <1>7, <1>9, FetchKeepsInv

LEMMA SendKeepsInv ==
  ASSUME DownloadInv, NEW w \in Workers, Send(w)
  PROVE  DownloadInv'
<1>1. /\ fetch[w] \in Fetch /\ fetch[w].at = "sending" /\ fetch[w].path \in Paths
      /\ DOMAIN fetch = Workers
  BY DEF DownloadInv, FetchTypes, Send, Sending
<1> DEFINE f == files[fetch[w].path]
           e == <<f.take, Offset(w) + 1>>
           g == [fetch[w] EXCEPT !.data = Append(fetch[w].data, e)]
<1>2. f.take \in Nat /\ f.size \in Nat
  BY <1>1 DEF DownloadInv, FileTypes
<1>3. /\ fetch[w].data \in Seq(Nat \X Nat) /\ Len(fetch[w].data) \in Nat
      /\ fetch[w].first \in Nat /\ fetch[w].take \in Nat /\ fetch[w].end \in Nat
  BY <1>1 DEF Fetch
<1>4. e \in Nat \X Nat /\ e[1] = f.take /\ e[2] = fetch[w].first + (Len(fetch[w].data) + 1)
  <2>1. Offset(w) \in Nat /\ Offset(w) + 1 = fetch[w].first + (Len(fetch[w].data) + 1)
    BY <1>3 DEF Offset
  <2>2. QED
    BY <1>2, <2>1
<1>5. fetch' = [fetch EXCEPT ![w] = g] /\ UNCHANGED <<recordings, access>>
  BY <1>1 DEF Send
<1> HIDE DEF e
<1>6. /\ Append(fetch[w].data, e) \in Seq(Nat \X Nat)
      /\ Len(Append(fetch[w].data, e)) = Len(fetch[w].data) + 1
      /\ \A n \in 1..Len(fetch[w].data) : Append(fetch[w].data, e)[n] = fetch[w].data[n]
      /\ Append(fetch[w].data, e)[Len(fetch[w].data) + 1] = e
  BY <1>3, <1>4
<1>7. /\ g \in Fetch /\ g.at = "sending" /\ g.token = fetch[w].token /\ g.path = fetch[w].path
      /\ g.first = fetch[w].first /\ g.end = fetch[w].end /\ g.take = fetch[w].take
      /\ g.closed = fetch[w].closed /\ g.data = Append(fetch[w].data, e)
  BY <1>1, <1>6 DEF Fetch
<1> HIDE DEF g
<1>8. g.token \in 0..minted /\ (g.token \in DOMAIN tokens => g.path = tokens[g.token].path)
  BY <1>7 DEF DownloadInv, PathOfToken
<1>9. \A n \in 1..Len(g.data) : n \in 1..Len(fetch[w].data) \/ n = Len(fetch[w].data) + 1
  BY <1>3, <1>6, <1>7
<1>10. /\ \A n \in 1..Len(g.data) : g.data[n][2] = g.first + n
       /\ g.take <= f.take
       /\ f.take = g.take => /\ \A n \in 1..Len(g.data) : g.data[n][1] = g.take
                             /\ g.end <= f.size
                             /\ g.closed => g.end = f.size /\ writing # g.path
  <2>1. ASSUME NEW n \in 1..Len(g.data)
        PROVE  g.data[n][2] = g.first + n /\ (f.take = g.take => g.data[n][1] = g.take)
    <3>1. CASE n \in 1..Len(fetch[w].data)
      BY <1>1, <1>6, <1>7, <3>1 DEF DownloadInv, Slice
    <3>2. CASE n = Len(fetch[w].data) + 1
      BY <1>4, <1>6, <1>7, <3>2
    <3>3. QED
      BY <1>9, <3>1, <3>2
  <2>2. /\ g.take <= f.take
        /\ f.take = g.take => /\ g.end <= f.size
                              /\ g.closed => g.end = f.size /\ writing # g.path
    BY <1>1, <1>7 DEF DownloadInv, Slice
  <2>3. QED
    BY <2>1, <2>2
<1>11. QED
  BY <1>1, <1>5, <1>7, <1>8, <1>10, FetchKeepsInv

LEMMA DownloadStepInv == DownloadInv /\ [DownloadNext]_downloadVars => DownloadInv'
<1> SUFFICES ASSUME DownloadInv, [DownloadNext]_downloadVars
             PROVE  DownloadInv'
  OBVIOUS
<1>1. CASE UNCHANGED <<recordings, access, fetch>>
  BY <1>1 DEF recordings, access, DownloadInv, FileTypes, FetchTypes,
     TokensAreTrue, PathOfToken, Slice
<1>2. CASE SetClock \/ BeginStop \/ Joined \/ UNCHANGED downloadVars
  BY <1>1, <1>2 DEF SetClock, BeginStop, Joined, downloadVars
<1>3. ASSUME NEW w \in Workers, NEW t \in Tokens, Request(w, t)
      PROVE  DownloadInv'
  BY <1>3, RefuseKeepsInv, AdmitKeepsInv DEF Request
<1>4. ASSUME NEW w \in Workers, Serve(w) \/ ClientLeaves(w)
      PROVE  DownloadInv'
  BY <1>4, AnnounceKeepsInv, SendKeepsInv, EndKeepsInv
     DEF Serve, Complete, ClientLeaves
<1>5. QED
  BY <1>2, <1>3, <1>4, RecordKeepsInv, AppendKeepsInv, CloseKeepsInv, MintKeepsInv DEF DownloadNext

\* Files, tokens and fetches fit together (download-server.cpp,
\* http-download-server.cpp).
THEOREM DownloadInvariant == DownloadSpec => []DownloadInv
  BY DownloadInitInv, DownloadStepInv, PTL DEF DownloadSpec

\* A fetch opens the recording its token was minted for, whatever has been
\* recorded or minted since (ValidateToken).
THEOREM TokenOpensWhatItNames == DownloadSpec => []TokenOpensItsRecording
<1>1. DownloadInv => TokenOpensItsRecording
  BY DEF DownloadInv, TokensAreTrue, PathOfToken, TokenOpensItsRecording
<1>2. QED
  BY <1>1, DownloadInvariant, PTL

\* What was sent is a run of bytes of the file, of one take and up to its end
\* unless the match was recorded again (the content provider of Serve).
THEOREM SlicesAreTrue == DownloadSpec => []SentInOrder
<1>1. DownloadInv => SentInOrder
  <2> SUFFICES ASSUME DownloadInv, NEW w \in Workers, fetch[w].at = "sending"
               PROVE  LET g == fetch[w] IN
                        /\ \A n \in 1..Len(g.data) : g.data[n][2] = g.first + n
                        /\ files[g.path].take = g.take =>
                             /\ \A n \in 1..Len(g.data) : g.data[n][1] = g.take
                             /\ g.closed => g.end = files[g.path].size
                             /\ Sending(w) => Offset(w) < files[g.path].size
    BY DEF SentInOrder
  <2>1. /\ fetch[w].end \in Nat /\ Offset(w) \in Nat /\ files[fetch[w].path].size \in Nat
    BY DEF DownloadInv, FetchTypes, Fetch, FileTypes, Offset
  <2>2. QED
    BY <2>1 DEF DownloadInv, Slice, Sending
<1>2. QED
  BY <1>1, DownloadInvariant, PTL

\* A token that was refused once opens nothing any more (ValidateToken), also
\* when the clock is set back.
THEOREM RefusedTokensStayRefused == DownloadSpec => RefusedForGood
<1>1. DownloadInv /\ [DownloadNext]_downloadVars
        => [\A w \in Workers : fetch'[w].token \in refused
                                 => fetch'[w].token = fetch[w].token]_downloadVars
  <2> SUFFICES ASSUME DownloadInv, DownloadNext, NEW v \in Workers, fetch'[v].token \in refused
               PROVE  fetch'[v].token = fetch[v].token
    OBVIOUS
  <2>1. CASE UNCHANGED fetch
    BY <2>1
  <2>2. ASSUME NEW w \in Workers, NEW g, fetch' = [fetch EXCEPT ![w] = g],
               g.token \in {0, fetch[w].token} \cup DOMAIN tokens
        PROVE  fetch'[v].token = fetch[v].token
    <3>1. fetch'[v] = IF v = w THEN g ELSE fetch[v]
      BY <2>2 DEF DownloadInv, FetchTypes
    <3>2. 0 \notin refused /\ refused \cap DOMAIN tokens = {}
      BY DEF DownloadInv, TokensAreTrue
    <3>3. QED
      BY <2>2, <3>1, <3>2
  <2>3. ASSUME NEW w \in Workers, fetch' = [fetch EXCEPT ![w] = Idle]
        PROVE  fetch'[v].token = fetch[v].token
    BY <2>2, <2>3, IdleFetch
  <2>4. ASSUME NEW w \in Workers, fetch[w] \in Fetch, Announce(w) \/ Send(w)
        PROVE  fetch'[v].token = fetch[v].token
    <3>1. DOMAIN fetch = Workers
      BY DEF DownloadInv, FetchTypes
    <3>2. CASE Announce(w)
      <4>1. PICK n \in {0} \cup 0..(files[fetch[w].path].size - 1) :
              fetch' = [fetch EXCEPT ![w].at = "sending", ![w].first = n,
                                     ![w].end = files[fetch[w].path].size,
                                     ![w].take = files[fetch[w].path].take,
                                     ![w].closed = writing # fetch[w].path]
        BY <3>2 DEF Announce
      <4>2. QED
        BY <2>4, <3>1, <4>1 DEF Fetch
    <3>3. CASE Send(w)
      BY <2>4, <3>1, <3>3 DEF Send, Fetch
    <3>4. QED
      BY <2>4, <3>2, <3>3
  <2>5. ASSUME NEW w \in Workers, NEW t \in Tokens, Admit(w, t)
        PROVE  fetch'[v].token = fetch[v].token
    <3> DEFINE g == [Idle EXCEPT !.at = "admitted", !.token = t, !.path = tokens[t].path]
    <3>1. g.token = t
      BY IdleFetch DEF Fetch
    <3>2. t \in DOMAIN tokens /\ fetch' = [fetch EXCEPT ![w] = g]
      BY <2>5 DEF Admit
    <3> HIDE DEF g
    <3>3. QED
      BY <2>2, <3>1, <3>2
  <2>6. \A w \in Workers : fetch[w] \in Fetch
    BY DEF DownloadInv, FetchTypes
  <2>7. QED
    BY <2>1, <2>3, <2>4, <2>5, <2>6
       DEF DownloadNext, Record, Append2File, CloseFile, SetClock, MintToken,
           Request, Refuse, Serve, Complete, ClientLeaves,
           BeginStop, Joined
<1>2. QED
  BY <1>1, DownloadInvariant, PTL DEF DownloadSpec, RefusedForGood
=============================================================================

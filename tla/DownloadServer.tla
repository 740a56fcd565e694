---------------------------- MODULE DownloadServer ----------------------------
(***************************************************************************)
(* Downloads: DownloadServer (download-server.cpp), the handler of         *)
(* DownloadRequest that mints its tokens, and HttpDownloadServer           *)
(* (http-download-server.cpp) that serves the files.                       *)
(*                                                                         *)
(* The event loop mints tokens, HTTP workers look them up, both under      *)
(* DownloadServer::mtx_; a worker then reads the file with no lock at all, *)
(* while the recorder may be writing it.  A file is the number of the      *)
(* recording in it (its take) and its length; byte n of a take is          *)
(* <<take, n>>.  The clock is the wall clock and may be set.               *)
(***************************************************************************)
EXTENDS Integers, FiniteSets, Functions, Sequences

CONSTANTS
  Paths,      \* the .mp4 and .nv12 files under the video root
  Stem,       \* their stems, which are the recording ids
  Workers,    \* HTTP worker threads
  TTL,        \* kDownloadTokenTtlSeconds
  MaxTime,    \* bound of the model: the clock
  MaxTokens,  \* bound of the model: tokens minted
  MaxTakes,   \* bound of the model: recordings made
  MaxSize     \* bound of the model: length of a file

ASSUME DownloadAssumption ==
  /\ IsFiniteSet(Paths) /\ DOMAIN Stem = Paths
  /\ {TTL, MaxTime, MaxTokens, MaxTakes, MaxSize} \subseteq Nat

NoPath == "none"
ASSUME NoPathIsNone == NoPath \notin Paths

VARIABLES
  clock,    \* NowUnixSeconds
  files,    \* the file at each path; take 0 when there is none
  writing,  \* the path the recorder is writing
  takes,    \* recordings made so far
  tokens,   \* tokens_: for each live token, its entry
  minted,   \* tokens minted so far; a token is its number
  refused,  \* history: minted tokens a request was refused with
  fetch,    \* what each worker is doing
  httpServer \* HttpDownloadServer: running, stopping (its socket closed) or stopped

recordings == <<files, writing, takes>>
access == <<tokens, minted, refused>>
downloadVars == <<clock, recordings, access, fetch, httpServer>>

Tokens == 1..MaxTokens
Ids == Range(Stem)
NoFile == [take |-> 0, size |-> 0]
Idle == [at |-> "idle", token |-> 0, path |-> NoPath, first |-> 0, end |-> 0,
         take |-> 0, closed |-> FALSE, data |-> <<>>]

DownloadTypeOK ==
  /\ clock \in 0..MaxTime
  /\ files \in [Paths -> [take : 0..MaxTakes, size : 0..MaxSize]]
  /\ writing \in Paths \cup {NoPath} /\ takes \in 0..MaxTakes
  /\ minted \in 0..MaxTokens /\ refused \subseteq 1..minted
  /\ DOMAIN tokens \subseteq 1..minted
  /\ \A t \in DOMAIN tokens :
       tokens[t] \in [id : Ids, path : Paths, expires : TTL..(MaxTime + TTL)]
  /\ \A w \in Workers : /\ fetch[w].at \in {"idle", "admitted", "sending"}
                        /\ fetch[w].at # "idle" => fetch[w].path \in Paths
                        /\ Len(fetch[w].data) <= fetch[w].end - fetch[w].first
  /\ httpServer \in {"running", "stopping", "stopped"}
  /\ httpServer = "stopped" => \A w \in Workers : fetch[w] = Idle

DownloadInit ==
  /\ clock \in 0..MaxTime
  /\ files = [p \in Paths |-> NoFile] /\ writing = NoPath /\ takes = 0
  /\ tokens = <<>> /\ minted = 0 /\ refused = {}
  /\ fetch = [w \in Workers |-> Idle] /\ httpServer = "running"

-----------------------------------------------------------------------------
\* The recorder and the clock.  A recording to a path that has a file truncates
\* it: filesink opens its location for writing.
Record(p) ==
  /\ writing = NoPath /\ takes < MaxTakes
  /\ takes' = takes + 1 /\ writing' = p
  /\ files' = [files EXCEPT ![p] = [take |-> takes + 1, size |-> 0]]
  /\ UNCHANGED <<clock, access, fetch, httpServer>>

Append2File ==
  /\ writing # NoPath /\ files[writing].size < MaxSize
  /\ files' = [files EXCEPT ![writing].size = @ + 1]
  /\ UNCHANGED <<clock, writing, takes, access, fetch, httpServer>>

CloseFile ==
  /\ writing # NoPath /\ writing' = NoPath
  /\ UNCHANGED <<clock, files, takes, access, fetch, httpServer>>

SetClock ==
  /\ clock' \in (0..MaxTime) \ {clock}
  /\ UNCHANGED <<recordings, access, fetch, httpServer>>

-----------------------------------------------------------------------------
\* The event loop.  What ListRecordings answers, one summary a file, and the
\* file MintToken finds for an id: any with that stem, in directory order.
Enumerate == {[id |-> Stem[p], path |-> p, size |-> files[p].size]
                : p \in {q \in Paths : files[q].take # 0}}

\* Mutant: the id is not compared with the stem.
AnyRecordingPath(id) == {r.path : r \in Enumerate}

ResolveRecordingPath(id) == {r.path : r \in {s \in Enumerate : s.id = id}}

\* DownloadRequest for an id nobody has recorded is answered ERROR.
MintToken(id) ==
  /\ minted < MaxTokens
  /\ \E p \in ResolveRecordingPath(id) :
       tokens' = [t \in DOMAIN tokens \cup {minted + 1} |->
                    IF t \in DOMAIN tokens THEN tokens[t]
                    ELSE [id |-> id, path |-> p, expires |-> clock + TTL]]
  /\ minted' = minted + 1
  /\ UNCHANGED <<clock, recordings, refused, fetch, httpServer>>

-----------------------------------------------------------------------------
\* The workers.  A request bears a minted token: one with no token, or with a
\* token that was never minted, is answered 401 and changes nothing.

\* ValidateToken answers nullopt: 401.
Refuse(t) ==
  /\ t \in DOMAIN tokens => clock >= tokens[t].expires
  /\ tokens' = Restrict(tokens, DOMAIN tokens \ {t})
  /\ refused' = refused \cup {t}
  /\ UNCHANGED <<clock, recordings, minted, fetch, httpServer>>

\* ValidateToken answers the token's path.
Admit(w, t) ==
  /\ t \in DOMAIN tokens /\ clock < tokens[t].expires
  /\ fetch' = [fetch EXCEPT ![w] = [Idle EXCEPT !.at = "admitted", !.token = t,
                                                !.path = tokens[t].path]]
  /\ UNCHANGED <<clock, recordings, access, httpServer>>

Request(w, t) == /\ httpServer = "running" /\ fetch[w] = Idle /\ t \in 1..minted
                 /\ Refuse(t) \/ Admit(w, t)

\* The content length is the file's size now; a Range request may start later.
Announce(w) ==
  /\ fetch[w].at = "admitted"
  /\ LET f == files[fetch[w].path] IN
     \E n \in {0} \cup 0..(f.size - 1) :
       fetch' = [fetch EXCEPT ![w].at = "sending", ![w].first = n, ![w].end = f.size,
                              ![w].take = f.take, ![w].closed = writing # fetch[w].path]
  /\ UNCHANGED <<clock, recordings, access, httpServer>>

Offset(w) == fetch[w].first + Len(fetch[w].data)
Sending(w) == fetch[w].at = "sending" /\ Offset(w) < fetch[w].end

\* Mutant: the stream is not moved to the offset.
SendWithoutSeek(w) ==
  /\ Sending(w) /\ httpServer = "running" /\ Offset(w) < files[fetch[w].path].size
  /\ LET f == files[fetch[w].path] IN
     fetch' = [fetch EXCEPT ![w].data = Append(@, <<f.take, Len(@) + 1>>)]
  /\ UNCHANGED <<clock, recordings, access, httpServer>>

\* A byte more, from whatever the file holds.  At the end of a file that is
\* shorter than announced the provider sends nothing and httplib calls it again:
\* a stuttering step.
Send(w) ==
  /\ Sending(w) /\ httpServer = "running" /\ Offset(w) < files[fetch[w].path].size
  /\ LET f == files[fetch[w].path] IN
     fetch' = [fetch EXCEPT ![w].data = Append(@, <<f.take, Offset(w) + 1>>)]
  /\ UNCHANGED <<clock, recordings, access, httpServer>>

\* Mutant: a fetch is over only when everything was sent.
EndsOnlyWhenSent(w) ==
  /\ fetch[w].at = "sending" /\ ~Sending(w)
  /\ fetch' = [fetch EXCEPT ![w] = Idle]
  /\ UNCHANGED <<clock, recordings, access, httpServer>>

\* Everything was sent, or httplib sees its socket closed.
Complete(w) ==
  /\ fetch[w].at = "sending"
  /\ ~Sending(w) \/ httpServer = "stopping"
  /\ fetch' = [fetch EXCEPT ![w] = Idle]
  /\ UNCHANGED <<clock, recordings, access, httpServer>>

\* The viewer closes its connection.
ClientLeaves(w) ==
  /\ Sending(w) /\ fetch' = [fetch EXCEPT ![w] = Idle]
  /\ UNCHANGED <<clock, recordings, access, httpServer>>

-----------------------------------------------------------------------------
\* HttpDownloadServer::Stop, on the main thread, returns when the listening
\* thread has seen its workers out.
BeginStop == /\ httpServer = "running" /\ httpServer' = "stopping"
             /\ UNCHANGED <<clock, recordings, access, fetch>>

Joined == /\ httpServer = "stopping" /\ \A w \in Workers : fetch[w] = Idle
          /\ httpServer' = "stopped"
          /\ UNCHANGED <<clock, recordings, access, fetch>>

Serve(w) == Announce(w) \/ Send(w) \/ Complete(w)

DownloadNext ==
  \/ \E p \in Paths : Record(p)
  \/ Append2File \/ CloseFile \/ SetClock
  \/ \E id \in Ids : MintToken(id)
  \/ \E w \in Workers : \/ \E t \in Tokens : Request(w, t)
                        \/ Serve(w) \/ ClientLeaves(w)
  \/ BeginStop \/ Joined

\* The threads run; viewers may stay, and nobody has to record or to stop.
DownloadFairness ==
  /\ \A w \in Workers : /\ WF_downloadVars(Announce(w)) /\ WF_downloadVars(Send(w))
                        /\ WF_downloadVars(Complete(w))
  /\ WF_downloadVars(Joined)

DownloadSpec == DownloadInit /\ [][DownloadNext]_downloadVars /\ DownloadFairness

-----------------------------------------------------------------------------
\* A token opens the recording it was asked for, whatever the request's URL says
\* and whatever was recorded since.
TokenOpensItsRecording ==
  \A w \in Workers : \A t \in DOMAIN tokens :
    fetch[w].token = t => Stem[fetch[w].path] = tokens[t].id

\* A token that was refused once is refused for good, even if the wall clock is
\* set back afterwards (ValidateToken erases what it finds expired).
RefusedForGood == [][\A w \in Workers : fetch'[w].token \in refused
                                          => fetch'[w].token = fetch[w].token]_downloadVars

\* What has been sent is the bytes asked for, in order; of one take unless the
\* match was recorded again meanwhile; and a fetch of a closed recording that
\* has ended for lack of more is the whole of it.
SentInOrder ==
  \A w \in Workers :
    LET g == fetch[w] IN
    g.at = "sending" =>
      /\ \A n \in 1..Len(g.data) : g.data[n][2] = g.first + n
      /\ files[g.path].take = g.take =>
           /\ \A n \in 1..Len(g.data) : g.data[n][1] = g.take
           /\ g.closed => g.end = files[g.path].size
           /\ Sending(w) => Offset(w) < files[g.path].size

\* A fetch whose viewer stays ends, unless the match is recorded again.
FetchEndsUnlessRecordedAgain ==
  \A w \in Workers :
    fetch[w].at = "sending"
      ~> (fetch[w].at # "sending" \/ files[fetch[w].path].take # fetch[w].take)

\* Stopping the server returns whatever its workers are doing: main stops it
\* before it finalizes the session.
StopReturns == (httpServer = "stopping") ~> (httpServer = "stopped")

\* Claimed: "A minted token authorizes a `Range:` GET for its recording and
\* returns the correct byte slice" (the plan of the refactor, U13).
OneRecording ==
  \A w \in Workers : \A m, n \in DOMAIN fetch[w].data :
    fetch[w].data[m][1] = fetch[w].data[n][1]

\* Claimed: the outcome of a download is "File transferred over the local
\* high-bandwidth link" (requirements, F4).
FetchEnds == \A w \in Workers : (fetch[w].at = "sending") ~> (fetch[w].at # "sending")
=============================================================================

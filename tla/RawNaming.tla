------------------------------ MODULE RawNaming ------------------------------
(***************************************************************************)
(* What the app is told of the files under the video root: a raw capture   *)
(* is known by its file name alone (raw-capture-naming.hpp), which carries *)
(* the group id the app chose and the camera, and DownloadServer takes it  *)
(* apart again to list it beside the matches.                              *)
(*                                                                         *)
(* A name is a sequence of tokens, fine enough for a delimiter to begin    *)
(* inside a group id and end in the file name around it.                   *)
(***************************************************************************)
EXTENDS Naturals, Sequences, FiniteSets, SequencesExt, FiniteSetsExt

CONSTANTS
  Groups,      \* capture group ids, of tokens
  Indices,     \* camera indices
  Matches,     \* match ids, of tokens
  MaxCaptures  \* bound of the model: the groups captured

\* The ids are sequences, of whatever tokens; those of captures are not empty.
ASSUME NamingAssumption ==
  /\ \A id \in Groups \cup Matches : id \in Seq(Range(id))
  /\ <<>> \notin Groups /\ Indices \subseteq 0..99 /\ MaxCaptures \in Nat

VARIABLES captured,  \* the cameras whose file a start has opened, with its group
          opening,   \* the start in progress: its group and the cameras left; or none
          failed,    \* the groups a start of which could not open a file
          recorded,  \* the matches whose file the recorder has opened
          files      \* the names of the files

namingVars == <<captured, opening, failed, recorded, files>>

Underscore == "_"
Prefix == <<"raw", Underscore, Underscore>>
CameraMarker == <<Underscore, Underscore, "cam">>
Extension == ".nv12"
Decimal == <<"0", "1", "2", "3", "4", "5", "6", "7", "8", "9">>

\* std::to_string, for a camera below 100.
Digits(n) == IF n < 10 THEN <<Decimal[n + 1]>> ELSE <<Decimal[n \div 10 + 1], Decimal[(n % 10) + 1]>>

\* The number some digits stand for.
Number(ds) ==
  LET value[n \in 0..Len(ds)] ==
        IF n = 0 THEN 0
        ELSE 10 * value[n - 1] + (CHOOSE d \in 0..9 : Decimal[d + 1] = ds[n]) IN
  value[Len(ds)]

FileName(g, c) == Prefix \o g \o CameraMarker \o Digits(c) \o <<Extension>>

NamingInit ==
  captured = {} /\ opening = {} /\ failed = {} /\ recorded = {} /\ files = {}

GroupsOf(records) == {r.group : r \in records}

\* FilesystemRawCaptureSink::Start, when no capture is on (the stop of the one
\* before touches no name). It holds mtx_, so one start runs at a time.
Capture(g) ==
  /\ opening = {}
  /\ Cardinality({g} \cup failed \cup GroupsOf(captured)) <= MaxCaptures
  /\ opening' = {[group |-> g, left |-> Indices]}
  /\ UNCHANGED <<captured, failed, recorded, files>>

\* The files are opened one by one in the order of the cameras; the last commits.
OpenCamera ==
  \E o \in opening : \E c \in o.left :
    /\ \A d \in o.left : c <= d
    /\ captured' = captured \cup {[group |-> o.group, camera |-> c]}
    /\ files' = files \cup {FileName(o.group, c)}
    /\ opening' = IF o.left = {c} THEN {} ELSE {[o EXCEPT !.left = @ \ {c}]}
    /\ UNCHANGED <<failed, recorded>>

\* A file cannot be opened: the writers go, the files opened before it stay.
OpenCameraFails ==
  /\ opening # {} /\ opening' = {}
  /\ failed' = failed \cup GroupsOf(opening)
  /\ UNCHANGED <<captured, recorded, files>>

Record(match) ==
  /\ recorded' = recorded \cup {match} /\ files' = files \cup {Append(match, ".mp4")}
  /\ UNCHANGED <<captured, opening, failed>>

NamingNext == \/ (\E g \in Groups : Capture(g)) \/ OpenCamera \/ OpenCameraFails
              \/ (\E match \in Matches : Record(match))

NamingSpec == NamingInit /\ [][NamingNext]_namingVars

-----------------------------------------------------------------------------
\* Where the camera marker occurs in a name.
Markers(name) == {i \in 1..(Len(name) - 2) : SubSeq(name, i, i + 2) = CameraMarker}

\* Mutant: std::string::find.
FirstMarker(name) == IF Markers(name) = {} THEN {} ELSE {Min(Markers(name))}

\* std::string::rfind.
LastMarker(name) == IF Markers(name) = {} THEN {} ELSE {Max(Markers(name))}

\* The identity in a name, none when it is not a raw capture's.
ParseFileName(name) ==
  {[group |-> SubSeq(name, Len(Prefix) + 1, i - 1),
    camera |-> Number(SubSeq(name, i + 3, Len(name) - 1))]
     : i \in {i \in LastMarker(name) :
                /\ IsPrefix(Prefix, name) /\ Last(name) = Extension
                /\ i > Len(Prefix) + 1 /\ i + 3 < Len(name)
                /\ \A k \in (i + 3)..(Len(name) - 1) : name[k] \in Range(Decimal)}}

\* The listing: the id of each recording, and its identity if it is raw. A match
\* without an id has a file called ".mp4", which path::extension takes for a stem.
Enumerate ==
  {[id |-> Front(f), raw |-> {}] : f \in {f \in files : Last(f) = ".mp4" /\ Len(f) > 1}}
  \cup {r \in {[id |-> Front(f), raw |-> ParseFileName(f)]
                 : f \in {f \in files : Last(f) = Extension}} : r.raw # {}}

ListedCaptures == UNION {r.raw : r \in Enumerate}

\* The cameras listed are those a file was opened for, under the group id the app
\* gave, whatever that id is made of: a group lacks a camera only when a start of it
\* failed or is not through, and then it is none before those listed. And every
\* match but one without an id is listed as one, also a match called like a capture.
ListingIsFaithful ==
  /\ ListedCaptures = captured
  /\ \A p \in ListedCaptures, c \in Indices :
       \/ [group |-> p.group, camera |-> c] \in ListedCaptures
       \/ p.camera < c /\ p.group \in failed \cup GroupsOf(opening)
  /\ {r.id : r \in {r \in Enumerate : r.raw = {}}} = recorded \ {<<>>}
=============================================================================

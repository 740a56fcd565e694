----------------------------- MODULE MCPipeline -----------------------------
(***************************************************************************)
(* Two cameras, as main.cpp builds the pipeline.  They make two frames at  *)
(* most: one each, or two of the camera that is shown, so that the second  *)
(* overtakes the first.                                                    *)
(***************************************************************************)
EXTENDS Pipeline

MCFrames == [c \in Cameras |-> IF c = Cam0 THEN 2 ELSE 1]

\* One of these two frames, a camera and the frame's number, is never made,
\* and so has no flaw.
Spare == {<<Cam0, 2>>, <<1, 1>>}

FlawlessSpares == {p \in Spare : flaw[p[1]][p[2]] = "none"}

MCSpec == /\ Init /\ FlawlessSpares # {}
          /\ [][Next /\ \E p \in FlawlessSpares : made'[p[1]] < p[2]]_vars
          /\ Fairness
=============================================================================

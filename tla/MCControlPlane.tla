--------------------------- MODULE MCControlPlane ---------------------------
(***************************************************************************)
(* Instances of ControlPlane for TLC.  One match value beside LiveMatch{}  *)
(* and two configurations are enough to see a leftover or a replacement.   *)
(***************************************************************************)
EXTENDS ControlPlane

CONSTANTS c1, c2

MCConfigs == {c1, c2}
MCMatches == {0, 1}
=============================================================================

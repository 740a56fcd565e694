--------------------------- MODULE MCDownloadServer ---------------------------
(***************************************************************************)
(* Instances of DownloadServer: one match recorded under two users, whose  *)
(* files share their stem, and another match.                              *)
(***************************************************************************)
EXTENDS DownloadServer

CONSTANTS p1, p2, p3, m1, m2

TwoUsers == [p \in {p1, p2, p3} |-> IF p = p3 THEN m2 ELSE m1]
OneEach == [p \in {p1} |-> m1]
=============================================================================

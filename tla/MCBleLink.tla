------------------------------ MODULE MCBleLink ------------------------------
(***************************************************************************)
(* Commands of one chunk and of two, each with its own id, and some that   *)
(* share one: "a" cut again into three chunks, and into two.  The app      *)
(* sends those of one of the sets of Menu.                                 *)
(***************************************************************************)
EXTENDS BleLink

CONSTANTS s, a, b, a3, a2, x, y, z

MCCommands == {s, a, b, a3, a2}
MCCorr  == [c \in Commands |-> CASE c = s -> x [] c = b -> z [] OTHER -> y]
MCTotal == [c \in Commands |-> CASE c = s -> 1 [] c = a3 -> 3 [] OTHER -> 2]
MCReply == [c \in Commands |-> IF c = a THEN 3 ELSE 1]

Menu == {{s, a, b}, {a, a3, b}, {a, a3, a2}}

MCSpec == Init /\ [][Next /\ \E m \in Menu : begun' \subseteq m]_vars /\ Fairness
=============================================================================

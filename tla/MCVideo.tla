------------------------------ MODULE MCVideo ------------------------------
(* Small instances of VideoSlots for TLC.                                   *)
EXTENDS VideoSlots

\* The back-off is what matters here; the other fields stay in the middle of
\* their ranges.
MCDefaults ==
  [f \in Fields |->
     CASE f = "source" -> "none"
       [] f \in {"reconnect_min_ms", "floors_min"} -> 1
       [] f = "reconnect_max_ms" -> 2
       [] OTHER -> 30]

\* The last is a lower bound above the default for the upper one.
MCClis == {<<>>, [reconnect_max_ms |-> -1], [reconnect_min_ms |-> 3]}

\* Each but the last is valid alone; together with each other or a command line
\* they leave bounds in the wrong order, or an upper bound below one.
MCPatches == {[reconnect_max_ms |-> 0], [reconnect_min_ms |-> 2, floors_min |-> 31],
              [reconnect_min_ms |-> 0]}
=============================================================================

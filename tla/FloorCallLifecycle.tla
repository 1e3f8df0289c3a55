------------------------- MODULE FloorCallLifecycle -------------------------
(***************************************************************************)
(* What the floor-call transport promises, without threads, connections or *)
(* clocks: requests wait in one line; only the first in line may be on its *)
(* way to the service, it goes there once, and it leaves the line when its *)
(* result is known; requests may be dropped from the front of the line     *)
(* instead, and then they never go out.                                    *)
(***************************************************************************)
EXTENDS Integers, Sequences

CONSTANT Request

Ended == {"success", "duplicate", "error", "expired", "ambiguous"}

VARIABLES
  line,    \* requests waiting or on their way, oldest first
  status   \* where each request is in its life

lifecycleVars == <<line, status>>

Init ==
  /\ line = <<>>
  /\ status = [r \in Request |-> "new"]

Accept(r) ==
  /\ line' = Append(line, r)
  /\ status[r] = "new"
  /\ status' = [status EXCEPT ![r] = "waiting"]

Drop(k) ==
  /\ line' = SubSeq(line, k + 1, Len(line))
  /\ \A i \in 1 .. k : status[line[i]] = "waiting"
  /\ status' = [r \in Request |->
                  IF \E i \in 1 .. k : line[i] = r THEN "expired"
                  ELSE status[r]]

Dispatch ==
  /\ line # <<>> /\ UNCHANGED line
  /\ status[Head(line)] = "waiting"
  /\ status' = [status EXCEPT ![Head(line)] = "out"]

Conclude ==
  /\ line # <<>> /\ line' = Tail(line)
  /\ status[Head(line)] = "out"
  /\ \E result \in Ended \ {"expired"} :
       status' = [status EXCEPT ![Head(line)] = result]

Next ==
  \/ \E r \in Request : Accept(r)
  \/ \E k \in 1 .. Len(line) : Drop(k)
  \/ Dispatch
  \/ Conclude

Spec == Init /\ [][Next]_lifecycleVars
=============================================================================

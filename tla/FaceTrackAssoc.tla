--------------------------- MODULE FaceTrackAssoc ---------------------------
(***************************************************************************)
(* Faces are linked to tracks, and detections to tracks, by a rectangular  *)
(* minimum-cost assignment (face_track_assoc.cpp, linear_assignment.cpp):  *)
(* the Hungarian algorithm with potentials, one row after the other, where *)
(* every row may also take a dummy column, so that a forbidden pair is     *)
(* never forced.                                                           *)
(*                                                                         *)
(* One step of Scan is one round of the algorithm's inner loop.  Costs are *)
(* integers here, floating point numbers in the code.  The faces and the   *)
(* tracks are already sorted, which only decides between equal costs.      *)
(***************************************************************************)
EXTENDS Integers, Sequences, FiniteSetsExt

CONSTANTS
  Matrices,   \* costs of the pairs as the geometry gives them, by row
  Forbidden,  \* a model value: the cost of a pair that must not be matched
  Infinity    \* a model value: the infinity of the floating point numbers

\* A caller's matrix is not ragged.
ASSUME AssocAssumption ==
  /\ Forbidden \notin Int /\ Infinity \notin Int
  /\ Matrices \subseteq Seq(Seq(Int \cup {Forbidden}))
  /\ \A raw \in Matrices : \A f \in DOMAIN raw : Len(raw[f]) = Len(raw[1])

VARIABLES
  cost,   \* the caller's matrix
  work,   \* work_cost: the matrix with its dummy columns
  pc,     \* where the solver is
  row,    \* the row that is being inserted
  u, v,   \* the potentials of rows and columns
  p,      \* the row a column is given to, 0 if none; p[0] is the new row
  way,    \* the column before a column on the path
  minv,   \* the smallest reduced cost of a column so far
  used,   \* the columns on the tree
  col0,   \* the column the search is at
  links   \* the result: the column of each row, 0 if it is unmatched

assocVars == <<cost, work, pc, row, u, v, p, way, minv, used, col0, links>>

Rows == DOMAIN cost
Cols == IF cost = <<>> THEN {} ELSE DOMAIN cost[1]
WorkCols == 1 .. (Len(cost) + Cardinality(Cols))

\* candidate_cost: a track that is lost or only predicted is no candidate.
Candidates(raw, fresh) ==
  [f \in DOMAIN raw |->
     [t \in DOMAIN raw[f] |-> IF t \in fresh THEN raw[f][t] ELSE Forbidden]]

AssocInit ==
  /\ \E raw \in Matrices :
       \E fresh \in SUBSET (IF raw = <<>> THEN {} ELSE DOMAIN raw[1]) :
         cost = Candidates(raw, fresh)
  /\ pc = "start" /\ row = 1
  /\ work = <<>> /\ u = <<>> /\ v = <<>> /\ p = <<>> /\ way = <<>>
  /\ minv = <<>> /\ used = {} /\ col0 = 0
  /\ links = <<>>

Allowed(r, c) == cost[r][c] # Forbidden
AllowedCosts == {cost[q[1]][q[2]] : q \in {q \in Rows \X Cols : Allowed(q[1], q[2])}}

Abs(n) == IF n < 0 THEN -n ELSE n

\* The escape of a row that is better left unmatched, and a cost above it.
DummyCost ==
  IF AllowedCosts = {} THEN 1
  ELSE LET most == Max(AllowedCosts) IN most + Max({1, Abs(most) + 1})

BlockedCost == DummyCost + Max({1, Abs(DummyCost) + 1})

\* Slip: leaving a row unmatched costs nothing.
WorkCostFree(r, c) ==
  IF c \notin Cols THEN 0 ELSE IF Allowed(r, c) THEN cost[r][c] ELSE BlockedCost

WorkCost(r, c) ==
  IF c \notin Cols THEN DummyCost
  ELSE IF Allowed(r, c) THEN cost[r][c] ELSE BlockedCost

\* Without faces or without tracks nothing is matched.
Prepare ==
  /\ pc = "start"
  /\ IF Cols = {}
     THEN /\ pc' = "done"
          /\ links' = [r \in Rows |-> 0]
          /\ UNCHANGED <<work, u, v, p, way>>
     ELSE /\ pc' = "row"
          /\ work' = [r \in Rows |-> [c \in WorkCols |-> WorkCost(r, c)]]
          /\ u' = [r \in Rows |-> 0]
          /\ v' = [c \in WorkCols \cup {0} |-> 0]
          /\ p' = v' /\ way' = v'
          /\ UNCHANGED links
  /\ UNCHANGED <<cost, row, minv, used, col0>>

StartRow ==
  /\ pc = "row" /\ row \in Rows
  /\ p' = [p EXCEPT ![0] = row]
  /\ col0' = 0 /\ used' = {}
  /\ minv' = [c \in WorkCols |-> Infinity]
  /\ pc' = "scan"
  /\ UNCHANGED <<cost, work, row, u, v, way, links>>

\* Slip: the reduced costs found so far are kept when the potentials move.
ReducedKept(found, delta, tree) == found

Reduced(found, delta, tree) ==
  [c \in WorkCols |-> IF c \in tree THEN found[c] ELSE found[c] - delta]

\* No number is less than another that is infinite.
Less(m, n) == n = Infinity \/ m < n

\* The tree grows by the column with the smallest reduced cost, the lowest of
\* them, and the potentials move by that cost.
Scan ==
  LET tree == used \cup {col0}
      row0 == p[col0]
      cur(c) == work[row0][c] - u[row0] - v[c]
      better == {c \in WorkCols \ tree : Less(cur(c), minv[c])}
      found == [c \in WorkCols |-> IF c \in better THEN cur(c) ELSE minv[c]]
      delta == Min({found[c] : c \in WorkCols \ tree})
      next == Min({c \in WorkCols \ tree : found[c] = delta})
  IN /\ pc = "scan"
     /\ used' = tree
     /\ way' = [c \in DOMAIN way |-> IF c \in better THEN col0 ELSE way[c]]
     /\ u' = [r \in Rows |-> IF \E c \in tree : p[c] = r THEN u[r] + delta ELSE u[r]]
     /\ v' = [c \in DOMAIN v |-> IF c \in tree THEN v[c] - delta ELSE v[c]]
     /\ minv' = Reduced(found, delta, tree)
     /\ col0' = next
     /\ pc' = IF p[next] = 0 THEN "augment" ELSE "scan"
     /\ UNCHANGED <<cost, work, row, p, links>>

\* The path back to column 0, one column at a time.
Augment ==
  /\ pc = "augment"
  /\ p' = [p EXCEPT ![col0] = p[way[col0]]]
  /\ col0' = way[col0]
  /\ IF way[col0] = 0 THEN pc' = "row" /\ row' = row + 1
     ELSE UNCHANGED <<pc, row>>
  /\ UNCHANGED <<cost, work, u, v, way, minv, used, links>>

Finish ==
  /\ pc = "row" /\ row \notin Rows
  /\ links' = [r \in Rows |->
                 LET own == {c \in Cols : p[c] = r /\ Allowed(r, c)}
                 IN IF own = {} THEN 0 ELSE Max(own)]
  /\ pc' = "done"
  /\ UNCHANGED <<cost, work, row, u, v, p, way, minv, used, col0>>

Done == pc = "done" /\ UNCHANGED assocVars

AssocNext == Prepare \/ StartRow \/ Scan \/ Augment \/ Finish \/ Done

AssocSpec == AssocInit /\ [][AssocNext]_assocVars

-----------------------------------------------------------------------------
\* A way to link the rows: a column is taken once, and only if it may be.
IsMatching(m) ==
  /\ \A r, s \in Rows : m[r] = m[s] /\ m[r] # 0 => r = s
  /\ \A r \in Rows : m[r] # 0 => Allowed(r, m[r])

SumTo(f, n) ==
  LET sum[k \in 0 .. n] == IF k = 0 THEN 0 ELSE sum[k - 1] + f[k] IN sum[n]

Total(m) ==
  SumTo([r \in Rows |-> IF m[r] = 0 THEN DummyCost ELSE cost[r][m[r]]], Len(cost))

\* What linear_assignment.h and face_track_assoc.h say: the result is a
\* matching of allowed pairs, a track gets at most one face, and no other
\* matching costs less, an unmatched row being charged the escape.
LinksAreOptimal ==
  pc = "done" /\ Cols # {} =>
    /\ IsMatching(links)
    /\ \A m \in {f \in [Rows -> Cols \cup {0}] : IsMatching(f)} :
         Total(links) <= Total(m)

\* Why it is: between two rows, no pair costs less than its two potentials,
\* the pairs taken cost exactly that, every row so far has one column, and a
\* free column has no potential.
PotentialsAreFeasible ==
  pc = "row" =>
    /\ \A r \in Rows, c \in WorkCols : r < row => u[r] + v[c] <= work[r][c]
    /\ \A c \in WorkCols : IF p[c] = 0 THEN v[c] = 0
                           ELSE v[c] <= 0 /\ u[p[c]] + v[c] = work[p[c]][c]
    /\ \A r \in Rows : r < row => Cardinality({c \in WorkCols : p[c] = r}) = 1
=============================================================================

--------------------------- MODULE MCChurnSchedule ---------------------------
(***************************************************************************)
(* A graph for ChurnSchedule: two pinned nodes, a free node, and a rolling *)
(* set of two roots, the first with a diamond of dependents below it.      *)
(***************************************************************************)
EXTENDS ChurnSchedule, TLC

CONSTANTS p, q, f, r1, r2, x, y, z, set

SetNodes   == {p, q, f, r1, r2, x, y, z}
SetParents == (p :> {}) @@ (q :> {p}) @@ (f :> {q}) @@ (r1 :> {p}) @@ (r2 :> {p})
                @@ (x :> {r1}) @@ (y :> {r1}) @@ (z :> {x, y})
SetRoll    == [n \in SetNodes |-> IF n \in {p, q, f} THEN NoRoll ELSE set]
SetPinned  == {p, q}
SetMutable == {p, r1, f}
=============================================================================

---------------------------- MODULE MCChurnEngine ----------------------------
(***************************************************************************)
(* Small graphs for ChurnEngine.                                           *)
(***************************************************************************)
EXTENDS ChurnEngine, TLC

CONSTANTS a, b, c, g, h, r

None == {}

\* A parent and its child: the shape of every service's graph.
ChainNodes   == {a, b}
ChainParents == (a :> {}) @@ (b :> {a})
ChainRoll    == (a :> NoRoll) @@ (b :> NoRoll)
ChainGate    == (a :> NoGate) @@ (b :> NoGate)
ChainMutable == {b}

\* A rolling set of two roots, each with a gate, one with a dependent behind it.
SetNodes   == {a, b, c}
SetParents == (a :> {}) @@ (b :> {}) @@ (c :> {a})
SetRoll    == (a :> r) @@ (b :> r) @@ (c :> r)
SetGate    == (a :> g) @@ (b :> h) @@ (c :> g)

\* The smallest set that can be rolled twice: two roots with nothing behind them.
PairNodes   == {a, b}
PairParents == (a :> {}) @@ (b :> {})
PairRoll    == (a :> r) @@ (b :> r)
PairGate    == (a :> g) @@ (b :> h)
=============================================================================

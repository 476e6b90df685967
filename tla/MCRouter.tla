------------------------------ MODULE MCRouter ------------------------------
(* A primary pool of two deployments that share a capacity, and fallbacks  *)
(* of one deployment each; streams have the first fallback only.           *)
EXTENDS Router, TLC

CONSTANTS p, f, g, p1, p2, f1, g1, shared

ShortPools == (p :> {p1, p2}) @@ (f :> {f1})
LongPools == ShortPools @@ (g :> {g1})
Capacities == (p1 :> shared) @@ (p2 :> shared) @@ (f1 :> f1) @@ (g1 :> g1)
ShortChains == [general |-> <<f>>]

StreamsOnShort == [s \in BOOLEAN |-> IF s THEN {p1, p2, f1} ELSE {p1, p2, f1, g1}]
LongChains == [general |-> <<f, g>>, context_window |-> <<g>>]
ChainsByKind == [s \in BOOLEAN |-> IF s THEN ShortChains ELSE LongChains]
=============================================================================

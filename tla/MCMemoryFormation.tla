------------------------- MODULE MCMemoryFormation -------------------------
(***************************************************************************)
(* Small memory modules for TLC.                                           *)
(***************************************************************************)
EXTENDS MemoryFormation, TLC

CONSTANTS a1, a2, k1, k2, c1, c2

\* a2 alone fills a window up to its rune limit.
RunesOfBoth == a1 :> 1 @@ a2 :> 3

InFirst == [k \in Records |-> c1]
=============================================================================

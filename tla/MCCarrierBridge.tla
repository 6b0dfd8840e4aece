---------------------------- MODULE MCCarrierBridge ----------------------------
(***************************************************************************)
(* Small instances of CarrierBridge.  The margin settings are the shipped  *)
(* ones; rounds, attempts and searches are fewer, so that every limit is   *)
(* reached.                                                                *)
(***************************************************************************)
EXTENDS CarrierBridge, TLC

CONSTANTS c1, c2, r1, r2, l1, l2

(* l1 is posted under its ceiling, l2 above it: an ask of 2600 is taken    *)
(* for l2 at once, and must not be booked.                                 *)
MCPostedRate == [l \in Loads |-> IF l = l1 THEN 2380 ELSE 2900]
MCMaxBuy == [l \in Loads |-> 2500]

(* On l1: inside the auto-accept band, and above the ceiling.              *)
MCAsks == {2400, 2600}
MCNoAsk == {}
MCHighAsk == {2600}
MCOneAsk == {2400}

FilterSymmetry == Permutations(Filters)
Symmetry == Permutations(Requests) \cup Permutations(MCs) \cup Permutations(Calls)
=============================================================================

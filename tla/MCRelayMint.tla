----------------------------- MODULE MCRelayMint -----------------------------
(* Instances of RelayMint for TLC. *)
EXTENDS RelayMint, TLC

CONSTANTS c1, c2, plain, seeded, g1, g2

(* One lane after g1; one more that takes any node; one whose caller       *)
(* brings a pair.                                                          *)
OneTarget == [l \in {plain} |-> g1]
NoSeed == [l \in {plain} |-> Nothing]
TwoTargets == [l \in {plain, seeded} |-> g1]
OneSeed == [l \in {plain, seeded} |-> IF l = seeded THEN [gw |-> g1, exp |-> 1] ELSE Nothing]

(* Calls differ in nothing but their name. *)
SameCalls == Permutations(Calls)
==============================================================================

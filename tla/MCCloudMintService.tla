-------------------------- MODULE MCCloudMintService --------------------------
(* Instances of CloudMintService for TLC. *)
EXTENDS CloudMintService

CONSTANTS wa, wb, wc, alice, bob

\* wa and wb are two settings of one credential of alice.
SameGroup == [w \in {wa, wb, wc} |-> IF w = wc THEN <<bob, 1>> ELSE <<alice, 1>>]
TwoAccounts == [w \in {wa, wb, wc} |-> IF w = wc THEN bob ELSE alice]

\* wa and wb carry an old and a refreshed access token of alice.
TwoTokens == [w \in {wa, wb} |-> IF w = wa THEN <<alice, 1>> ELSE <<alice, 2>>]
OneAccount == [w \in {wa, wb} |-> alice]
=============================================================================

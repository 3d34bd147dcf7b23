------------------------------- MODULE MCBuyer -------------------------------
(* Two versions of different price, of which only one leaves the sale, for TLC. *)
EXTENDS BuyerAgent, TLC

CONSTANTS c1, c2

MCPriceOf == [v \in Versions |-> v]
Symmetry == Permutations(Commands)

MCSpec == Init /\ [][Next /\ Versions \ {1} \subseteq active']_vars
=============================================================================

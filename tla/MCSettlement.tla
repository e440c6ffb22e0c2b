---------------------------- MODULE MCSettlement ----------------------------
(* Settlement with the maker and the taker of every offer fixed. *)
EXTENDS SettlementTrades, TLC

CONSTANTS alice, bob

MCMakerOf == [o \in Offers |-> alice]
MCTakerOf == [o \in Offers |-> bob]

(* Nothing tells one payout transaction from another, and safety is checked. *)
PayoutSymmetry == Permutations(Payouts)
=============================================================================

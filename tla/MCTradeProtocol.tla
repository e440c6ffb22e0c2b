--------------------------- MODULE MCTradeProtocol ---------------------------
(* TradeProtocol with the maker and the taker of every offer fixed. *)
EXTENDS TradeProtocol

CONSTANTS alice, bob

MCMakerOf == [o \in Offers |-> alice]
MCTakerOf == [o \in Offers |-> bob]
=============================================================================

--------------------------- MODULE SettlementTrades ---------------------------
(***************************************************************************)
(* How the table taken_offers and the chain represent the trades of module *)
(* Trade: the refinement mapping under which Settlement implements it.     *)
(***************************************************************************)
EXTENDS Settlement

Agreed == [o \in Offers |-> {role \in Roles : signed_escrow_psbt[o][role]}]
Locked == {o \in Offers : depth[o] # Unknown}
Final == {o \in Offers : escrow_psbt_is_confirmed[o] = 1}
Disputed == {o \in Offers : escrow_ongoing[o] = 1}
Closed == Offers \ taken

Trades == INSTANCE Trade WITH
  agreed <- Agreed, locked <- Locked, final <- Final, consent <- partial_sig,
  disputed <- Disputed, verdict <- escrow_winner, paid <- spent_by,
  closed <- Closed

(* Every step of a handler, of a task, of the node and of a restart is a step
   of one trade, or none: handlers that overlap, psbts that are stored twice,
   reorganisations and stale lists of the tasks never show in the life of a
   trade.  Two traders' consents are never exchanged for others, and a trade
   does not move on before its escrow is final. *)
ImplementsTrade == Trades!Spec
=============================================================================

------------------------------ MODULE TradeIds ------------------------------
(***************************************************************************)
(* The identifiers the settlement modules share.                           *)
(***************************************************************************)
EXTENDS SqlValues

CONSTANTS Offers,    \* offer ids
          Robots,    \* robohashes: the identities requests are made under
          Payouts    \* payout transactions the coordinator may assemble

ASSUME TradeIdsAssumption == NULL \notin Robots \cup Payouts \cup {0, 1}
=============================================================================

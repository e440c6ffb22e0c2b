---------------------------- MODULE TradeAmounts ----------------------------
(***************************************************************************)
(* The satoshis of one trade, from the request of the maker to the payout: *)
(* the requirements the coordinator computes, the bonds it accepts, the    *)
(* inputs the trader programs bring, the outputs of the escrow transaction *)
(* and of the payout transaction.                                          *)
(*                                                                         *)
(* Where the code computes a fee in floating point the model truncates the *)
(* exact quotient: with the configured rate of 1 percent they agree.       *)
(***************************************************************************)
EXTENDS SqlValues, BondChecks

CONSTANTS MaxAmount,     \* 20,000,000: the largest amount of an OfferRequest
          OrderAmounts,  \* amounts of the orders of makers and takers
          BondRatios,    \* percentages
          FeePercent,    \* COORDINATOR_FEERATE
          Surpluses,     \* by how much a trader's coins exceed what it needs
          PayoutFees     \* fees of the payout the node's estimate leads to

ASSUME TradeAmountsAssumption ==
  /\ MaxAmount \in Nat \ {0}
  /\ OrderAmounts \subseteq 1..MaxAmount
  /\ BondRatios \subseteq 2..50
  /\ FeePercent \in Nat
  /\ Surpluses \subseteq Nat
  /\ PayoutFees \subseteq Nat
  /\ U64Size > 4 * MaxAmount

VARIABLES
  stage,          \* how far the trade is
  request,        \* the row of maker_requests
  offer,          \* the row of active_maker_offers, later of taken_offers
  maker_bond,     \* the bond transaction of the maker
  taker_bond,     \* the same of the taker
  maker_inputs,   \* sum of the inputs the maker gave for the escrow
  taker_inputs,   \* the same of the taker
  taker_amount,   \* the amount of the taker's own order
  escrow,         \* outputs of the escrow transaction
  payout          \* outputs of the payout transaction

bondVars == <<maker_bond, taker_bond>>
vars == <<stage, request, offer, bondVars, maker_inputs, taker_inputs,
          taker_amount, escrow, payout>>

Stages == {"start", "requested", "listed", "taken", "paid", "failed"}

Row == [is_buy_order : {1, NULL}, amount : Nat, bond : Nat, inputs : Nat]

TypeOK ==
  /\ stage \in Stages
  /\ request \in Row \cup {NULL}
  /\ offer \in Row \cup {NULL}
  /\ maker_bond \in BondTx \cup {NULL}
  /\ taker_bond \in BondTx \cup {NULL}
  /\ maker_inputs \in Nat /\ taker_inputs \in Nat /\ taker_amount \in Nat
  /\ escrow \in [amount : Nat, fee : Nat, maker : Nat, taker : Nat] \cup {NULL}
  /\ payout \in [fee : Nat, maker : Nat, taker : Nat] \cup {NULL}

Init ==
  /\ stage = "start"
  /\ request = NULL /\ offer = NULL /\ escrow = NULL /\ payout = NULL
  /\ maker_bond = NULL /\ taker_bond = NULL
  /\ maker_inputs = 0 /\ taker_inputs = 0 /\ taker_amount = 0

(* All outputs are taproot outputs; the wallet makes none below this. *)
Dust == 330
TxFee == 10000       \* of the escrow transaction, one half from each trader
InputBuffer == 5000

-----------------------------------------------------------------------------
(* process_order *)

BondAmount(ratio, amount) == (ratio * amount) \div 100
CoordinatorFee(amount) == (FeePercent * amount) \div 100

(* Mutant: the bond, which is locked in the escrow too, is left out *)
InputSumWithoutBond(ratio, amount) ==
  CoordinatorFee(amount) + TxFee \div 2 + InputBuffer

InputSumWithoutTrade(ratio, amount) ==
  BondAmount(ratio, amount) + CoordinatorFee(amount) + TxFee \div 2 + InputBuffer

Request(amount, ratio, buy) ==
  /\ stage = "start"
  /\ stage' = "requested"
  /\ request' =
       [is_buy_order |-> BoolToSqlInt(buy), amount |-> amount,
        bond |-> BondAmount(ratio, amount),
        inputs |-> InputSumWithoutTrade(ratio, amount)]
  /\ UNCHANGED <<offer, bondVars, maker_inputs, taker_inputs, taker_amount,
                 escrow, payout>>

(* What a trader brings for the escrow: a seller the trade sum as well *)
InputsFor(buys, required, amount, surplus) ==
  (IF buys THEN required ELSE required + amount) + surplus

(* handle_maker_bond.  The wallet refuses to make a bond below the dust limit.
   The row is moved with bond_amount_sat in the place of the required inputs. *)
ListOffer(bond, surplus) ==
  /\ stage = "requested"
  /\ bond.locked >= Dust
  /\ MeetsRequirements(bond, request.bond, request.amount)
  /\ maker_bond' = bond
  /\ stage' = "listed"
  /\ maker_inputs' = InputsFor(request.is_buy_order = 1, request.inputs,
                               request.amount, surplus)
  /\ offer' = [request EXCEPT !.inputs = request.bond]
  /\ request' = NULL
  /\ UNCHANGED <<taker_bond, taker_inputs, taker_amount, escrow, payout>>

-----------------------------------------------------------------------------
(* handle_taker_bond *)

(* get_escrow_tx_amounts *)
EscrowShares(row) ==
  IF row.is_buy_order = 1
  THEN [maker |-> row.bond, taker |-> row.amount + row.bond]
  ELSE [maker |-> row.amount + row.bond, taker |-> row.bond]

LockedBy(row, role) ==
  EscrowShares(row)[role] + CoordinatorFee(row.amount) + TxFee \div 2

(* A taker asks for offers of the other kind and of about its own amount. *)
Suits(row, buys, amount) ==
  /\ SqlEqual(row.is_buy_order, IF buys THEN 0 ELSE 1)
  /\ row.amount \in (9 * amount + 5) \div 10 .. (11 * amount + 5) \div 10

EscrowOutputs(row, from_maker, from_taker) ==
  [amount |-> EscrowShares(row).maker + EscrowShares(row).taker,
   fee |-> 2 * CoordinatorFee(row.amount),
   maker |-> Difference(from_maker, LockedBy(row, "maker")),
   taker |-> Difference(from_taker, LockedBy(row, "taker"))]

TakeOffer(bond, buys, amount, surplus) ==
  /\ stage = "listed"
  /\ Suits(offer, buys, amount)
  /\ MeetsRequirements(bond, offer.bond, offer.amount)
  /\ taker_bond' = bond
  /\ taker_amount' = amount
  /\ taker_inputs' = InputsFor(buys, offer.inputs, amount, surplus)
  /\ LET outputs == EscrowOutputs(offer, maker_inputs, taker_inputs')
     IN  IF \A output \in DOMAIN outputs : outputs[output] >= Dust
         THEN escrow' = outputs /\ stage' = "taken"
         ELSE escrow' = NULL /\ stage' = "failed"
  /\ UNCHANGED <<request, offer, maker_bond, maker_inputs, payout>>

-----------------------------------------------------------------------------
(* assemble_keyspend_payout_psbt *)

(* Mutant: everyone gets back what it locked *)
SharesAsLocked(row) == EscrowShares(row)

(* fetch_payout_data: with a buy order the two shares are exchanged *)
PayoutShares(row) ==
  IF row.is_buy_order = 1
  THEN [maker |-> EscrowShares(row).taker, taker |-> EscrowShares(row).maker]
  ELSE EscrowShares(row)

(* Mutant: each trader pays the whole fee *)
WholeFee(fee) == fee

FeePerUser(fee) == fee \div 2

(* The node takes no transaction with an output above its inputs. *)
EscrowConfirmed == escrow.maker <= maker_inputs /\ escrow.taker <= taker_inputs

(* The escrow is the only input: outputs and fee must not exceed it. *)
AssemblePayout(fee) ==
  /\ stage = "taken"
  /\ EscrowConfirmed
  /\ LET shares == PayoutShares(offer)
         maker == Difference(shares.maker, FeePerUser(fee))
         taker == Difference(shares.taker, FeePerUser(fee))
     IN  IF /\ maker >= Dust /\ taker >= Dust
            /\ (maker + taker + fee) % U64Size <= escrow.amount
         THEN /\ payout' = [fee |-> fee, maker |-> maker, taker |-> taker]
              /\ stage' = "paid"
         ELSE payout' = NULL /\ stage' = "failed"
  /\ UNCHANGED <<request, offer, bondVars, maker_inputs, taker_inputs,
                 taker_amount, escrow>>

Next ==
  \/ \E amount \in OrderAmounts, ratio \in BondRatios, buy \in BOOLEAN :
       Request(amount, ratio, buy)
  \/ /\ request # NULL
     /\ \E bond \in BondTxs(request.bond), surplus \in Surpluses :
          ListOffer(bond, surplus)
  \/ /\ offer # NULL
     /\ \E bond \in BondTxs(offer.bond), buys \in BOOLEAN,
           amount \in OrderAmounts, surplus \in Surpluses :
          TakeOffer(bond, buys, amount, surplus)
  \/ \E fee \in PayoutFees : AssemblePayout(fee)

Spec == Init /\ [][Next]_vars

-----------------------------------------------------------------------------
(* Properties *)

(* A bond that was accepted pays when it is published: the coordinator gets the
   bond amount of the offer, and the miner 200 satoshis a byte.  validate_bonds
   computes the fee unsigned, before it knows that the outputs are no more than
   the inputs, and the offer is in another table by then. *)
Pays(bond) ==
  /\ bond.locked >= offer.bond
  /\ bond.inputs >= AllOutputs(bond) + 200 * VSize
BondsPay ==
  /\ stage \in {"listed", "taken", "paid"} => Pays(maker_bond)
  /\ stage \in {"taken", "paid"} => Pays(taker_bond)

(* The inputs process_order asks the maker for, and its program brings, cover
   what get_escrow_tx_amounts locks for it later, with change that is no dust:
   the two computations agree, for either kind of order. *)
MakerFunded ==
  stage \in {"listed", "taken"} => maker_inputs >= LockedBy(offer, "maker") + Dust

(* The payout gives the buyer the trade amount and both their bonds, less half
   the fee each, though it is computed from the columns of the escrow and not
   from the trade; a bond below half the fee aside, where the amount wraps. *)
PayoutAsAgreed ==
  stage = "paid" /\ offer.bond >= payout.fee \div 2 =>
    LET due(buys) == offer.bond + (IF buys THEN offer.amount ELSE 0) - payout.fee \div 2
        maker_buys == offer.is_buy_order = 1
    IN  payout.maker = due(maker_buys) /\ payout.taker = due(~maker_buys)

(* The payout spends the escrow and nothing is left or missing. *)
PayoutSpendsEscrow ==
  stage = "paid" /\ offer.bond >= payout.fee \div 2 =>
    payout.maker + payout.taker + payout.fee = escrow.amount

(* A taker that takes an offer for its very amount, and brings the inputs the
   offer lists, brings enough for its part of the escrow. *)
TakerFunded ==
  stage = "taken" /\ taker_amount = offer.amount =>
    taker_inputs >= LockedBy(offer, "taker")
=============================================================================

------------------------- MODULE TradeAmountsProofs -------------------------
(***************************************************************************)
(* Proofs about TradeAmounts, for all amounts, ratios, surpluses and fees. *)
(***************************************************************************)
EXTENDS TradeAmounts, TLAPS

(* What the coordinator computes for an accepted order is a number, and the
   bond is no more than the amount. *)
LEMMA OrderTerms ==
  ASSUME NEW amount \in OrderAmounts, NEW ratio \in BondRatios
  PROVE  /\ amount \in 0..MaxAmount
         /\ BondAmount(ratio, amount) \in 0..MaxAmount
         /\ CoordinatorFee(amount) \in Nat
<1>1. amount \in 1..MaxAmount /\ ratio \in 2..50 /\ MaxAmount \in Nat
  BY TradeAmountsAssumption, SMT
<1>2. FeePercent * amount \in Nat
  BY <1>1, TradeAmountsAssumption, SMT
<1>3. ratio * amount \in Nat /\ ratio * amount <= 50 * amount
  BY <1>1, SMT
<1>4. (ratio * amount) \div 100 \in 0..MaxAmount
  BY <1>1, <1>3, SMT
<1> QED BY <1>1, <1>2, <1>4, SMT DEF BondAmount, CoordinatorFee

(* A difference that is not below zero does not wrap. *)
LEMMA NoWrap ==
  ASSUME NEW x \in Nat, x < U64Size
  PROVE  x % U64Size = x
BY BondChecksAssumption, SMT

LEMMA HalvesTaken ==
  ASSUME NEW m \in Nat, NEW t \in Nat, NEW half \in Nat, NEW fee \in Nat,
         2 * half = fee \/ 2 * half = fee - 1
  PROVE  \/ (m - half) + (t - half) + fee = m + t
         \/ (m - half) + (t - half) + fee = m + t + 1
BY SMT

LEMMA Halves ==
  ASSUME NEW fee \in Nat
  PROVE  /\ FeePerUser(fee) \in Nat
         /\ 2 * FeePerUser(fee) = fee \/ 2 * FeePerUser(fee) = fee - 1
BY SMT DEF FeePerUser

(* What a row of the two tables holds *)
Terms(row) ==
  /\ row \in Row
  /\ row.amount \in 0..MaxAmount
  /\ row.bond \in 0..MaxAmount
  /\ CoordinatorFee(row.amount) \in Nat

RequestSound ==
  stage = "requested" =>
    /\ Terms(request)
    /\ request.inputs = request.bond + CoordinatorFee(request.amount) + 10000

OfferSound ==
  stage \in {"listed", "taken", "paid"} =>
    /\ Terms(offer)
    /\ maker_inputs \in Nat
    /\ maker_inputs >= LockedBy(offer, "maker") + Dust

(* Only buy orders are taken: the NULL of a sell order equals nothing. *)
EscrowSound ==
  stage \in {"taken", "paid"} =>
    /\ offer.is_buy_order = 1
    /\ escrow.amount = EscrowShares(offer).maker + EscrowShares(offer).taker

AInv ==
  /\ stage \in Stages /\ RequestSound /\ OfferSound /\ EscrowSound
  /\ PayoutAsAgreed /\ PayoutSpendsEscrow

LEMMA AInvInit == Init => AInv
BY SMT DEF Init, AInv, Stages, RequestSound, OfferSound, EscrowSound,
               PayoutAsAgreed, PayoutSpendsEscrow

LEMMA RequestStep ==
  ASSUME AInv, NEW amount \in OrderAmounts, NEW ratio \in BondRatios,
         NEW buy \in BOOLEAN, Request(amount, ratio, buy)
  PROVE  AInv'
<1> DEFINE row == [is_buy_order |-> BoolToSqlInt(buy), amount |-> amount,
                   bond |-> BondAmount(ratio, amount),
                   inputs |-> InputSumWithoutTrade(ratio, amount)]
<1>1. /\ amount \in 0..MaxAmount /\ MaxAmount \in Nat
      /\ BondAmount(ratio, amount) \in 0..MaxAmount
      /\ CoordinatorFee(amount) \in Nat
  BY OrderTerms, TradeAmountsAssumption, SMT
<1>2. TxFee \div 2 = 5000 /\ InputBuffer = 5000
  BY SMT DEF TxFee, InputBuffer
<1>3. InputSumWithoutTrade(ratio, amount)
        = BondAmount(ratio, amount) + CoordinatorFee(amount) + 10000
  BY <1>1, <1>2, SMT DEF InputSumWithoutTrade
<1>4. BoolToSqlInt(buy) \in {1, NULL}
  BY SMT DEF BoolToSqlInt
<1>5. row \in Row
  BY <1>1, <1>3, <1>4, SMT DEF Row
<1>6. stage' = "requested" /\ request' = row
  BY SMT DEF Request
<1> QED BY <1>1, <1>3, <1>5, <1>6, SMT DEF AInv, Stages, RequestSound,
       OfferSound, EscrowSound, PayoutAsAgreed, PayoutSpendsEscrow, Terms

LEMMA ListStep ==
  ASSUME AInv, NEW bond, NEW surplus \in Surpluses, ListOffer(bond, surplus)
  PROVE  AInv'
<1>1. /\ stage = "requested" /\ stage' = "listed"
      /\ offer' = [request EXCEPT !.inputs = request.bond]
      /\ maker_inputs' = InputsFor(request.is_buy_order = 1, request.inputs,
                                   request.amount, surplus)
  BY SMT DEF ListOffer
<1>2. Terms(request)
      /\ request.inputs = request.bond + CoordinatorFee(request.amount) + 10000
  BY <1>1, SMT DEF AInv, RequestSound
<1>3. surplus \in Nat
  BY TradeAmountsAssumption, SMT
<1>4. /\ Terms(offer')
      /\ offer'.is_buy_order = request.is_buy_order
      /\ offer'.amount = request.amount
      /\ offer'.bond = request.bond
  BY <1>1, <1>2, SMT DEF Terms, Row
<1>5. TxFee \div 2 = 5000 /\ Dust = 330
  BY SMT DEF TxFee, Dust
<1>6. /\ maker_inputs' \in Nat
      /\ maker_inputs' >= LockedBy(offer', "maker") + Dust
  <2>1. CASE request.is_buy_order = 1
    <3>1. maker_inputs' = request.inputs + surplus
      BY <1>1, <2>1, SMT DEF InputsFor
    <3>2. LockedBy(offer', "maker") = request.bond + CoordinatorFee(request.amount) + 5000
      BY <1>4, <1>5, <2>1, SMT DEF LockedBy, EscrowShares
    <3> QED BY <3>1, <3>2, <1>2, <1>3, <1>5, SMT DEF Terms
  <2>2. CASE request.is_buy_order # 1
    <3>1. maker_inputs' = request.inputs + request.amount + surplus
      BY <1>1, <2>2, SMT DEF InputsFor
    <3>2. LockedBy(offer', "maker")
            = request.amount + request.bond + CoordinatorFee(request.amount) + 5000
      BY <1>4, <1>5, <2>2, SMT DEF LockedBy, EscrowShares
    <3> QED BY <3>1, <3>2, <1>2, <1>3, <1>5, SMT DEF Terms
  <2> QED BY <2>1, <2>2, SMT
<1>7. LockedBy(offer', "maker") = LockedBy(offer, "maker")'
  BY SMT DEF LockedBy, EscrowShares, CoordinatorFee, TxFee
<1>8. Terms(offer)'
  BY <1>4, SMT DEF Terms, Row, CoordinatorFee
<1> QED BY <1>1, <1>6, <1>7, <1>8, SMT DEF AInv, Stages, RequestSound,
       OfferSound, EscrowSound, PayoutAsAgreed, PayoutSpendsEscrow, Dust

LEMMA TakeStep ==
  ASSUME AInv, NEW bond, NEW buys \in BOOLEAN, NEW amount, NEW surplus,
         TakeOffer(bond, buys, amount, surplus)
  PROVE  AInv'
<1>1. /\ stage = "listed" /\ stage' \in {"taken", "failed"}
      /\ offer' = offer /\ maker_inputs' = maker_inputs
  BY SMT DEF TakeOffer
<1>2. stage' = "taken" => escrow' = EscrowOutputs(offer, maker_inputs, taker_inputs')
  BY <1>1, SMT DEF TakeOffer
<1>3. stage' = "taken" =>
        escrow'.amount = EscrowShares(offer).maker + EscrowShares(offer).taker
  BY <1>2, SMT DEF EscrowOutputs
<1>4. offer.is_buy_order = 1
  <2>1. offer.is_buy_order \in {1, NULL}
    BY <1>1, SMT DEF AInv, OfferSound, Terms, Row
  <2>2. offer.is_buy_order # NULL
    BY SMT DEF TakeOffer, Suits, SqlEqual
  <2> QED BY <2>1, <2>2
<1>5. EscrowSound'
  BY <1>1, <1>3, <1>4, SMT DEF EscrowSound, EscrowShares
<1>6. OfferSound'
  <2>1. /\ Terms(offer) /\ maker_inputs \in Nat
        /\ maker_inputs >= LockedBy(offer, "maker") + Dust
    BY <1>1, SMT DEF AInv, OfferSound
  <2>2. Terms(offer)' /\ LockedBy(offer, "maker")' = LockedBy(offer, "maker")
    BY <1>1, <2>1, SMT DEF Terms, LockedBy, EscrowShares, CoordinatorFee, Row
  <2> QED BY <2>1, <2>2, <1>1, SMT DEF OfferSound, Dust
<1> QED BY <1>1, <1>5, <1>6, SMT DEF AInv, Stages, RequestSound, PayoutAsAgreed,
       PayoutSpendsEscrow

(* The assembly that succeeds subtracts half the fee from each share without
   wrapping, and its fee is even: one satoshi more would exceed the escrow. *)
LEMMA PayoutSums ==
  ASSUME AInv, NEW fee \in PayoutFees, AssemblePayout(fee),
         stage' = "paid", offer.bond >= FeePerUser(fee)
  PROVE  /\ payout'.fee = fee
         /\ payout'.maker = PayoutShares(offer).maker - FeePerUser(fee)
         /\ payout'.taker = PayoutShares(offer).taker - FeePerUser(fee)
         /\ payout'.maker + payout'.taker + fee = escrow.amount
<1> DEFINE half == FeePerUser(fee)
           m == PayoutShares(offer).maker
           t == PayoutShares(offer).taker
<1>1. fee \in Nat
  BY TradeAmountsAssumption, SMT
<1>2. half \in Nat /\ (2 * half = fee \/ 2 * half = fee - 1)
  BY <1>1, Halves, SMT
<1>3. stage = "taken"
  BY SMT DEF AssemblePayout
<1>4. Terms(offer) /\ escrow.amount = EscrowShares(offer).maker + EscrowShares(offer).taker
  BY <1>3, SMT DEF AInv, OfferSound, EscrowSound
<1>5. /\ MaxAmount \in Nat \ {0} /\ U64Size \in Nat /\ U64Size > 4 * MaxAmount
      /\ offer.amount \in 0..MaxAmount /\ offer.bond \in 0..MaxAmount
  BY <1>4, TradeAmountsAssumption, BondChecksAssumption, SMT DEF Terms
<1>6. /\ m \in Nat /\ t \in Nat /\ escrow.amount = m + t
      /\ \/ m = offer.amount + offer.bond /\ t = offer.bond
         \/ m = offer.bond /\ t = offer.amount + offer.bond
  BY <1>4, <1>5, SMT DEF PayoutShares, EscrowShares
<1>7. /\ m - half \in Nat /\ m - half < U64Size
      /\ t - half \in Nat /\ t - half < U64Size
  BY <1>2, <1>5, <1>6, SMT
<1>8. Difference(m, half) = m - half /\ Difference(t, half) = t - half
  BY <1>7, NoWrap, SMT DEF Difference
<1>9. /\ payout' = [fee |-> fee, maker |-> m - half, taker |-> t - half]
      /\ ((m - half) + (t - half) + fee) % U64Size <= escrow.amount
  BY <1>8, SMT DEF AssemblePayout
<1>10. \/ (m - half) + (t - half) + fee = escrow.amount
       \/ (m - half) + (t - half) + fee = escrow.amount + 1
  <2>1. m \in Nat /\ t \in Nat /\ escrow.amount = m + t
    BY <1>6
  <2> HIDE DEF half, m, t
  <2>2. \/ (m - half) + (t - half) + fee = m + t
        \/ (m - half) + (t - half) + fee = m + t + 1
    BY <1>1, <1>2, <2>1, HalvesTaken
  <2> QED BY <2>1, <2>2
<1>11. escrow.amount \in Nat /\ escrow.amount + 1 < U64Size
  <2>1. escrow.amount = offer.amount + 2 * offer.bond
    BY <1>5, <1>6, SMT
  <2> QED BY <2>1, <1>5, SMT
<1>12. (m - half) + (t - half) + fee = escrow.amount
  BY <1>9, <1>10, <1>11, NoWrap, SMT
<1> QED BY <1>9, <1>12, SMT

LEMMA PayoutStep ==
  ASSUME AInv, NEW fee \in PayoutFees, AssemblePayout(fee)
  PROVE  AInv'
<1>1. /\ stage = "taken" /\ stage' \in {"paid", "failed"}
      /\ offer' = offer /\ maker_inputs' = maker_inputs /\ escrow' = escrow
      /\ stage' = "paid" => payout'.fee = fee
  BY SMT DEF AssemblePayout
<1>2. Terms(offer) /\ fee \in Nat
  BY <1>1, TradeAmountsAssumption, SMT DEF AInv, OfferSound
<1>3. offer.is_buy_order = 1
  BY <1>1, SMT DEF AInv, EscrowSound
<1>4. OfferSound' /\ EscrowSound'
  <2>1. /\ maker_inputs \in Nat
        /\ maker_inputs >= LockedBy(offer, "maker") + Dust
        /\ escrow.amount = EscrowShares(offer).maker + EscrowShares(offer).taker
    BY <1>1, SMT DEF AInv, OfferSound, EscrowSound
  <2>2. Terms(offer)' /\ LockedBy(offer, "maker")' = LockedBy(offer, "maker")
    BY <1>1, <1>2, SMT DEF Terms, LockedBy, EscrowShares, CoordinatorFee, Row
  <2> QED BY <2>1, <2>2, <1>1, <1>3, SMT DEF OfferSound, EscrowSound, EscrowShares, Dust
<1>5. CASE stage' = "paid" /\ offer.bond >= FeePerUser(fee)
  <2>1. /\ payout'.maker = PayoutShares(offer).maker - FeePerUser(fee)
        /\ payout'.taker = PayoutShares(offer).taker - FeePerUser(fee)
        /\ payout'.maker + payout'.taker + fee = escrow.amount
    BY <1>5, PayoutSums
  <2>2. PayoutSpendsEscrow'
    BY <1>1, <2>1, SMT DEF PayoutSpendsEscrow
  <2>3. offer.amount \in Nat /\ offer.bond \in Nat /\ FeePerUser(fee) \in Nat
    BY <1>2, Halves, TradeAmountsAssumption, SMT DEF Terms
  <2>4. PayoutAsAgreed'
    BY <1>1, <1>3, <2>1, <2>3, SMT
       DEF PayoutAsAgreed, PayoutShares, EscrowShares, FeePerUser
  <2> QED BY <1>1, <1>4, <2>2, <2>4, SMT DEF AInv, Stages, RequestSound
<1>6. CASE ~(stage' = "paid" /\ offer.bond >= FeePerUser(fee))
  BY <1>1, <1>4, <1>6, SMT DEF AInv, Stages, RequestSound, PayoutAsAgreed,
     PayoutSpendsEscrow, FeePerUser
<1> QED BY <1>5, <1>6

-----------------------------------------------------------------------------
LEMMA AInvStep == AInv /\ [Next]_vars => AInv'
<1> SUFFICES ASSUME AInv, [Next]_vars PROVE AInv'
  OBVIOUS
<1>1. ASSUME NEW amount \in OrderAmounts, NEW ratio \in BondRatios,
             NEW buy \in BOOLEAN, Request(amount, ratio, buy)
      PROVE  AInv'
  BY <1>1, RequestStep
<1>2. ASSUME NEW bond \in BondTxs(request.bond), NEW surplus \in Surpluses,
             ListOffer(bond, surplus)
      PROVE  AInv'
  BY <1>2, ListStep
<1>3. ASSUME NEW bond \in BondTxs(offer.bond), NEW buys \in BOOLEAN,
             NEW amount \in OrderAmounts, NEW surplus \in Surpluses,
             TakeOffer(bond, buys, amount, surplus)
      PROVE  AInv'
  BY <1>3, TakeStep
<1>4. ASSUME NEW fee \in PayoutFees, AssemblePayout(fee)
      PROVE  AInv'
  BY <1>4, PayoutStep
<1>5. CASE UNCHANGED vars
  BY <1>5, SMT DEF vars, AInv, RequestSound, OfferSound, EscrowSound, Terms,
     LockedBy, EscrowShares, CoordinatorFee, PayoutAsAgreed, PayoutSpendsEscrow
<1> QED BY <1>1, <1>2, <1>3, <1>4, <1>5 DEF Next

LEMMA AInvAlways == Spec => []AInv
<1> QED BY AInvInit, AInvStep, PTL DEF Spec

(* What process_order asks of the maker, and its program brings, covers what
   get_escrow_tx_amounts locks for it: for every amount, ratio and fee rate. *)
THEOREM MakerCanLock == Spec => []MakerFunded
<1>1. AInv => MakerFunded
  BY SMT DEF AInv, OfferSound, MakerFunded
<1> QED BY <1>1, AInvAlways, PTL

(* The payout gives each trader what the trade says. *)
THEOREM EveryoneGetsTheirs == Spec => []PayoutAsAgreed
<1>1. AInv => PayoutAsAgreed
  BY DEF AInv
<1> QED BY <1>1, AInvAlways, PTL

(* The outputs and the fee of the payout are the escrow, to the satoshi. *)
THEOREM NothingLeft == Spec => []PayoutSpendsEscrow
<1>1. AInv => PayoutSpendsEscrow
  BY DEF AInv
<1> QED BY <1>1, AInvAlways, PTL

-----------------------------------------------------------------------------
(* Types, and what the accepted bonds pay *)

LEMMA BondTxTypes ==
  ASSUME NEW amount \in Nat, NEW tx \in BondTxs(amount)
  PROVE  tx \in BondTx
<1>1. BondInputs \subseteq Nat /\ BondFees \subseteq Nat
  BY BondChecksAssumption, SMT
<1>2. /\ tx.locked >= 0 /\ tx.change >= 0
      /\ \/ \E inputs \in BondInputs, locked \in {amount - 1, amount}, fee \in BondFees :
              tx = [inputs |-> inputs, locked |-> locked, change |-> inputs - locked - fee]
         \/ \E inputs \in BondInputs :
              tx = [inputs |-> inputs, locked |-> amount, change |-> inputs]
  BY DEF BondTxs
<1>3. ASSUME NEW inputs \in BondInputs, NEW locked \in {amount - 1, amount},
             NEW fee \in BondFees,
             tx = [inputs |-> inputs, locked |-> locked, change |-> inputs - locked - fee]
      PROVE  tx \in BondTx
  <2>1. locked \in Int /\ inputs - locked - fee \in Int
    BY <1>1, SMT
  <2>2. locked \in Nat /\ inputs - locked - fee \in Nat
    BY <1>2, <1>3, <2>1, SMT
  <2> QED BY <1>3, <2>2 DEF BondTx
<1>4. ASSUME NEW inputs \in BondInputs,
             tx = [inputs |-> inputs, locked |-> amount, change |-> inputs]
      PROVE  tx \in BondTx
  BY <1>1, <1>4 DEF BondTx
<1> QED BY <1>2, <1>3, <1>4

LEMMA Quotient ==
  ASSUME NEW n \in Nat, NEW d \in Nat \ {0}, n \div d >= 200
  PROVE  n >= 200 * d
BY SMTT(30)

(* The outputs are no more than the inputs, so the fee does not wrap. *)
LEMMA AcceptedPays ==
  ASSUME NEW tx \in BondTx, NEW locking, NEW min,
         MeetsRequirements(tx, locking, min)
  PROVE  /\ tx.locked >= locking
         /\ tx.inputs >= AllOutputs(tx) + 200 * VSize
<1>1. /\ U64Size \in Nat /\ VSize \in Nat \ {0}
      /\ tx.inputs \in Nat /\ tx.inputs < U64Size
      /\ AllOutputs(tx) \in Nat
  <2>1. tx.inputs \in BondInputs /\ tx.locked \in Nat /\ tx.change \in Nat
    BY DEF BondTx
  <2>2. tx.inputs \in Nat /\ tx.inputs < U64Size
    <3>1. U64Size \in Nat /\ tx.inputs \in 1..(U64Size - 1)
      BY <2>1, BondChecksAssumption
    <3> QED BY <3>1, SMT
  <2>3. AllOutputs(tx) \in Nat
    BY <2>1, SMT DEF AllOutputs
  <2> QED BY <2>2, <2>3, BondChecksAssumption
<1>2. AllOutputs(tx) <= tx.inputs
  BY DEF MeetsRequirements, TakesAmounts
<1>3. /\ tx.inputs - AllOutputs(tx) \in Nat
      /\ tx.inputs - AllOutputs(tx) < U64Size
  BY <1>1, <1>2, SMT
<1>4. Difference(tx.inputs, AllOutputs(tx)) = tx.inputs - AllOutputs(tx)
  BY <1>3, NoWrap DEF Difference
<1>5. (tx.inputs - AllOutputs(tx)) \div VSize >= 200
  BY <1>4 DEF MeetsRequirements, FeeRate
<1>6. tx.inputs - AllOutputs(tx) >= 200 * VSize
  <2>1. VSize \in Nat \ {0}
    BY <1>1
  <2> QED BY <1>3, <1>5, <2>1, Quotient
<1>7. 200 * VSize \in Nat
  BY <1>1, SMT
<1>8. tx.inputs >= AllOutputs(tx) + 200 * VSize
  BY <1>1, <1>6, <1>7, SMT
<1> QED BY <1>8 DEF MeetsRequirements

LEMMA DifferenceType ==
  ASSUME NEW x \in Int, NEW y \in Int
  PROVE  Difference(x, y) \in Nat
<1>1. U64Size \in Nat \ {0}
  BY BondChecksAssumption, TradeAmountsAssumption, SMT
<1>2. x - y \in Int
  OBVIOUS
<1> QED BY <1>1, <1>2, SMT DEF Difference

LEMMA FeeType ==
  ASSUME NEW amount \in Nat
  PROVE  CoordinatorFee(amount) \in Nat
<1>1. FeePercent * amount \in Nat
  BY TradeAmountsAssumption, SMT
<1> QED BY <1>1, SMT DEF CoordinatorFee

LEMMA SharesType ==
  ASSUME NEW row \in Row
  PROVE  /\ EscrowShares(row).maker \in Nat /\ EscrowShares(row).taker \in Nat
         /\ PayoutShares(row).maker \in Nat /\ PayoutShares(row).taker \in Nat
         /\ LockedBy(row, "maker") \in Nat /\ LockedBy(row, "taker") \in Nat
<1>1. row.amount \in Nat /\ row.bond \in Nat
  BY DEF Row
<1>2. /\ EscrowShares(row).maker \in Nat /\ EscrowShares(row).taker \in Nat
      /\ PayoutShares(row).maker \in Nat /\ PayoutShares(row).taker \in Nat
  BY <1>1, SMT DEF EscrowShares, PayoutShares
<1>3. TxFee \div 2 \in Nat
  BY SMT DEF TxFee
<1>4. CoordinatorFee(row.amount) \in Nat
  BY <1>1, FeeType
<1> QED BY <1>2, <1>3, <1>4, SMT DEF LockedBy

(* A row and its bonds are there as soon as the stage says so, and what holds
   of a bond when it is accepted goes on to hold of it. *)
BondsInv ==
  /\ TypeOK
  /\ stage = "requested" => request \in Row
  /\ stage \in {"listed", "taken", "paid"} => offer \in Row /\ maker_bond \in BondTx
  /\ stage \in {"taken", "paid"} => /\ taker_bond \in BondTx
                                    /\ escrow \in [amount : Nat, fee : Nat, maker : Nat, taker : Nat]
  /\ BondsPay

LEMMA BondsInvInit == Init => BondsInv
BY SMT DEF Init, BondsInv, TypeOK, Stages, BondsPay

LEMMA RequestTyped ==
  ASSUME BondsInv, NEW amount \in OrderAmounts, NEW ratio \in BondRatios,
         NEW buy \in BOOLEAN, Request(amount, ratio, buy)
  PROVE  BondsInv'
<1>1. /\ amount \in Nat /\ BondAmount(ratio, amount) \in Nat
      /\ CoordinatorFee(amount) \in Nat
  BY OrderTerms, TradeAmountsAssumption, SMT
<1>2. TxFee \div 2 \in Nat /\ InputBuffer \in Nat
  BY SMT DEF TxFee, InputBuffer
<1>3. InputSumWithoutTrade(ratio, amount) \in Nat
  BY <1>1, <1>2, SMT DEF InputSumWithoutTrade
<1>4. BoolToSqlInt(buy) \in {1, NULL}
  BY SMT DEF BoolToSqlInt
<1>5. request' \in Row
  BY <1>1, <1>3, <1>4 DEF Request, Row
<1>6. stage' = "requested"
      /\ UNCHANGED <<offer, bondVars, maker_inputs, taker_inputs, taker_amount, escrow, payout>>
  BY DEF Request
<1> QED BY <1>5, <1>6, SMT DEF BondsInv, TypeOK, Stages, BondsPay, bondVars

LEMMA ListTyped ==
  ASSUME BondsInv, NEW bond \in BondTxs(request.bond), NEW surplus \in Surpluses,
         ListOffer(bond, surplus)
  PROVE  BondsInv'
<1>1. stage = "requested" /\ stage' = "listed" /\ maker_bond' = bond
      /\ offer' = [request EXCEPT !.inputs = request.bond] /\ request' = NULL
      /\ MeetsRequirements(bond, request.bond, request.amount)
      /\ maker_inputs' = InputsFor(request.is_buy_order = 1, request.inputs,
                                   request.amount, surplus)
      /\ UNCHANGED <<taker_bond, taker_inputs, taker_amount, escrow, payout>>
  BY DEF ListOffer
<1>2. request \in Row
  BY <1>1 DEF BondsInv
<1>3. request.bond \in Nat /\ request.inputs \in Nat /\ request.amount \in Nat
      /\ request.is_buy_order \in {1, NULL}
  BY <1>2 DEF Row
<1>4. bond \in BondTx
  BY <1>3, BondTxTypes
<1>5. /\ bond.locked >= request.bond
      /\ bond.inputs >= AllOutputs(bond) + 200 * VSize
  BY <1>1, <1>4, AcceptedPays
<1>6. offer' \in Row /\ offer'.bond = request.bond
  BY <1>1, <1>2, <1>3, SMT DEF Row
<1>7. surplus \in Nat
  BY TradeAmountsAssumption
<1>8. maker_inputs' \in Nat
  BY <1>1, <1>3, <1>7, SMT DEF InputsFor
<1>9. BondsPay'
  <2>1. Pays(maker_bond)'
    BY <1>1, <1>5, <1>6 DEF Pays, AllOutputs
  <2> QED BY <1>1, <2>1 DEF BondsPay
<1>10. TypeOK'
  BY <1>1, <1>4, <1>6, <1>8 DEF BondsInv, TypeOK, Stages
<1> QED BY <1>1, <1>4, <1>6, <1>9, <1>10 DEF BondsInv

LEMMA TakeTyped ==
  ASSUME BondsInv, NEW bond \in BondTxs(offer.bond), NEW buys \in BOOLEAN,
         NEW amount \in OrderAmounts, NEW surplus \in Surpluses,
         TakeOffer(bond, buys, amount, surplus)
  PROVE  BondsInv'
<1>1. stage = "listed" /\ stage' \in {"taken", "failed"} /\ taker_bond' = bond
      /\ MeetsRequirements(bond, offer.bond, offer.amount)
      /\ taker_amount' = amount
      /\ taker_inputs' = InputsFor(buys, offer.inputs, amount, surplus)
      /\ UNCHANGED <<request, offer, maker_bond, maker_inputs, payout>>
  BY SMT DEF TakeOffer
<1>2. \/ escrow' = EscrowOutputs(offer, maker_inputs, taker_inputs')
      \/ escrow' = NULL /\ stage' = "failed"
  BY SMT DEF TakeOffer
<1>3. offer \in Row /\ maker_bond \in BondTx /\ Pays(maker_bond)
  BY <1>1 DEF BondsInv, BondsPay
<1>4. offer.bond \in Nat /\ offer.inputs \in Nat /\ offer.amount \in Nat
  BY <1>3 DEF Row
<1>5. bond \in BondTx
  BY <1>4, BondTxTypes
<1>6. /\ bond.locked >= offer.bond
      /\ bond.inputs >= AllOutputs(bond) + 200 * VSize
  BY <1>1, <1>5, AcceptedPays
<1>7. amount \in Nat /\ surplus \in Nat
  BY TradeAmountsAssumption, SMT
<1>8. taker_inputs' \in Nat
  BY <1>1, <1>4, <1>7, SMT DEF InputsFor
<1>9. EscrowOutputs(offer, maker_inputs, taker_inputs')
        \in [amount : Nat, fee : Nat, maker : Nat, taker : Nat]
  <2>1. EscrowShares(offer).maker + EscrowShares(offer).taker \in Nat
    BY <1>3, SharesType, SMT
  <2>2. 2 * CoordinatorFee(offer.amount) \in Nat
    BY <1>4, FeeType, SMT
  <2>3. maker_inputs \in Nat
    BY DEF BondsInv, TypeOK
  <2>4. /\ Difference(maker_inputs, LockedBy(offer, "maker")) \in Nat
        /\ Difference(taker_inputs', LockedBy(offer, "taker")) \in Nat
    <3>1. /\ maker_inputs \in Int /\ LockedBy(offer, "maker") \in Int
          /\ taker_inputs' \in Int /\ LockedBy(offer, "taker") \in Int
      BY <1>3, <1>8, <2>3, SharesType, SMT
    <3> QED BY <3>1, DifferenceType
  <2> QED BY <2>1, <2>2, <2>4 DEF EscrowOutputs
<1>10. BondsPay'
  <2>1. Pays(maker_bond)' /\ Pays(taker_bond)'
    BY <1>1, <1>3, <1>6 DEF Pays, AllOutputs
  <2> QED BY <2>1 DEF BondsPay
<1>11. TypeOK'
  BY <1>1, <1>2, <1>5, <1>7, <1>8, <1>9 DEF BondsInv, TypeOK, Stages
<1> QED BY <1>1, <1>2, <1>3, <1>5, <1>9, <1>10, <1>11 DEF BondsInv

LEMMA PayoutTyped ==
  ASSUME BondsInv, NEW fee \in PayoutFees, AssemblePayout(fee)
  PROVE  BondsInv'
<1> DEFINE maker == Difference(PayoutShares(offer).maker, FeePerUser(fee))
           taker == Difference(PayoutShares(offer).taker, FeePerUser(fee))
<1>1. /\ stage = "taken" /\ stage' \in {"paid", "failed"}
      /\ payout' \in {[fee |-> fee, maker |-> maker, taker |-> taker], NULL}
      /\ UNCHANGED <<request, offer, bondVars, maker_inputs, taker_inputs,
                     taker_amount, escrow>>
  BY SMT DEF AssemblePayout
<1>2. offer \in Row /\ fee \in Nat
  BY <1>1, TradeAmountsAssumption DEF BondsInv
<1>3. maker \in Nat /\ taker \in Nat
  <2>1. /\ PayoutShares(offer).maker \in Int /\ PayoutShares(offer).taker \in Int
        /\ FeePerUser(fee) \in Int
    BY <1>2, SharesType, Halves, SMT
  <2> QED BY <2>1, DifferenceType
<1>4. payout' \in [fee : Nat, maker : Nat, taker : Nat] \cup {NULL}
  <2> HIDE DEF maker, taker
  <2> QED BY <1>1, <1>2, <1>3
<1>5. BondsPay'
  <2>1. Pays(maker_bond)' /\ Pays(taker_bond)'
    BY <1>1 DEF BondsInv, BondsPay, Pays, AllOutputs, bondVars
  <2> QED BY <2>1 DEF BondsPay
<1>6. TypeOK'
  BY <1>1, <1>4 DEF BondsInv, TypeOK, Stages, bondVars
<1> QED BY <1>1, <1>5, <1>6 DEF BondsInv, bondVars

LEMMA BondsInvStep == BondsInv /\ [Next]_vars => BondsInv'
<1> SUFFICES ASSUME BondsInv, [Next]_vars PROVE BondsInv'
  OBVIOUS
<1>1. CASE UNCHANGED vars
  BY <1>1 DEF vars, bondVars, BondsInv, TypeOK, BondsPay, Pays, AllOutputs
<1> QED BY <1>1, RequestTyped, ListTyped, TakeTyped, PayoutTyped DEF Next

LEMMA BondsInvAlways == Spec => []BondsInv
<1> QED BY BondsInvInit, BondsInvStep, PTL DEF Spec

(* Every amount stays a number, though differences of them are stored. *)
THEOREM AmountsTyped == Spec => []TypeOK
<1>1. BondsInv => TypeOK
  BY DEF BondsInv
<1> QED BY <1>1, BondsInvAlways, PTL

(* Every bond that validate_bonds accepted pays, for all sums of its inputs and
   all fees: the wrapped difference does no harm beside testmempoolaccept. *)
THEOREM AcceptedBondsPay == Spec => []BondsPay
<1>1. BondsInv => BondsPay
  BY DEF BondsInv
<1> QED BY <1>1, BondsInvAlways, PTL
=============================================================================

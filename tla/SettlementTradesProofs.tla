------------------------ MODULE SettlementTradesProofs ------------------------
(***************************************************************************)
(* The proof that Settlement implements Trade.  Every action is matched    *)
(* with the one step of one trade that it takes; what the handlers and     *)
(* tasks still know of what they read earlier comes from IInv.             *)
(***************************************************************************)
EXTENDS SettlementTrades, SettlementProofs

(* The variables a trade is made of *)
shown ==
  <<taken, signed_escrow_psbt, escrow_psbt_is_confirmed, escrow_ongoing,
    escrow_winner, partial_sig, depth, spent_by>>

(* A step that leaves them alone does not show. *)
LEMMA Hidden == UNCHANGED shown => UNCHANGED Trades!vars
BY DEF shown, Trades!vars, Agreed, Locked, Final, Disputed, Closed

(* Handlers write the columns of a trade in six actions only. *)
LEMMA HiddenHandlers ==
  ASSUME NEW o \in Offers, NEW r \in Robots,
         \/ Call(o, r) \/ Leave(o, r)
         \/ FetchBothEscrowPsbts(o, r) \/ SetHappy(o, r) \/ SetUnhappy(o, r)
         \/ FetchPayout(o, r) \/ ToggleBeforeAssembly(o, r)
         \/ AssemblePayout(o, r) \/ InsertPayout(o, r)
         \/ ToggleAfterAssembly(o, r) \/ FetchWinner(o, r)
         \/ AggregateSigs(o, r)
  PROVE  UNCHANGED shown
BY DEF shown, Call, Leave, SubmitEscrowPsbt, ConfirmObligation, RequestEscrow,
       PollFinalPayout, SubmitPayoutSignature, FetchBothEscrowPsbts, SetHappy,
       SetUnhappy, FetchPayout, ToggleBeforeAssembly, AssemblePayout,
       InsertPayout, ToggleAfterAssembly, FetchWinner, AggregateSigs,
       OnlyHandlers, OnlyTable, tableVars, chainVars, SetTraderHappyField,
       InsertPayoutPsbt, ToggleProcessing

LEMMA HiddenTasks ==
  ASSUME \/ MonitorFetch \/ (\E o \in Offers : MonitorQuery(o))
         \/ MonitorQueryFails \/ CliFetch
         \/ (\E o \in Offers : CliInputFails(o)) \/ Restart \/ UNCHANGED vars
  PROVE  UNCHANGED shown
BY DEF shown, MonitorFetch, MonitorQuery, MonitorQueryFails, CliFetch,
       CliInputFails, Restart, vars, tableVars, chainVars

-----------------------------------------------------------------------------
(* The actions that show *)

LEMMA StoreEscrowPsbtAgrees ==
  ASSUME TypeOK, NEW o \in Offers, NEW r \in Robots, StoreEscrowPsbt(o, r)
  PROVE  Trades!Next \/ UNCHANGED Trades!vars
<1> DEFINE role == RoleOf(o, r)
<1>1. role \in Roles
  BY RoleOfType
<1>2. UNCHANGED <<taken, escrow_psbt_is_confirmed, escrow_ongoing,
                  escrow_winner, partial_sig, depth, spent_by>>
  BY DEF StoreEscrowPsbt, InsertSignedEscrowPsbt, OnlyTable, chainVars
<1>3. CASE o \notin taken
  BY <1>2, <1>3, Hidden
  DEF StoreEscrowPsbt, InsertSignedEscrowPsbt, UpdateRole, shown
<1>4. CASE o \in taken
  <2>1. signed_escrow_psbt' = [signed_escrow_psbt EXCEPT ![o][role] = TRUE]
    BY <1>4 DEF StoreEscrowPsbt, InsertSignedEscrowPsbt, UpdateRole
  <2>2. Agreed' = [Agreed EXCEPT ![o] = @ \cup {role}]
    BY <1>1, <2>1 DEF Agreed, TypeOK, TableTypeOK
  <2>3. Trades!Agree(o, role)
    BY <1>2, <1>4, <2>2
    DEF Trades!Agree, Locked, Final, Disputed, Closed
  <2>4. QED
    BY <1>1, <2>3 DEF Trades!Next, Trades!Roles, Roles
<1>5. QED BY <1>3, <1>4

LEMMA BroadcastEscrowLocks ==
  ASSUME IInv, NEW o \in Offers, NEW r \in Robots, BroadcastEscrow(o, r)
  PROVE  Trades!Next \/ UNCHANGED Trades!vars
<1>1. UNCHANGED tableVars
  BY DEF BroadcastEscrow, OnlyChain
<1>2. CASE UNCHANGED chainVars
  BY <1>1, <1>2, Hidden DEF shown, tableVars, chainVars
<1>3. CASE BroadcastEscrowTx(o)
  <2>1. Agreed[o] = Trades!Roles
    BY DEF IInv, LockerSound, BroadcastEscrow, BothEscrowPsbtsSigned, Agreed,
           Roles, Trades!Roles
  <2>2. Locked' = Locked \cup {o}
    BY <1>3, ChainAssumption
    DEF BroadcastEscrowTx, Locked, Unknown, IInv, TypeOK, ChainTypeOK
  <2>3. Trades!Lock(o)
    BY <1>1, <1>3, <2>1, <2>2
    DEF Trades!Lock, BroadcastEscrowTx, tableVars, Agreed, Final, Disputed,
        Closed
  <2>4. QED
    BY <2>3 DEF Trades!Next
<1>4. QED
  BY <1>2, <1>3 DEF BroadcastEscrow

LEMMA SetOngoingDisputes ==
  ASSUME IInv, NEW o \in Offers, NEW r \in Robots, SetOngoing(o, r)
  PROVE  Trades!Next \/ UNCHANGED Trades!vars
<1>1. UNCHANGED <<taken, signed_escrow_psbt, escrow_psbt_is_confirmed,
                  escrow_winner, partial_sig, depth, spent_by>>
  BY DEF SetOngoing, SetEscrowOngoing, OnlyTable, chainVars
<1>2. CASE o \notin taken
  BY <1>1, <1>2, Hidden DEF SetOngoing, SetEscrowOngoing, UpdateRow, shown
<1>3. CASE o \in taken
  <2>1. o \in Final
    BY DEF IInv, LateHandlersSound, LateSteps, Steps, SetOngoing, At, Final
  <2>2. Disputed' = Disputed \cup {o}
    BY <1>3
    DEF SetOngoing, SetEscrowOngoing, UpdateRow, Disputed, IInv, TypeOK,
        TableTypeOK
  <2>3. Trades!Dispute(o)
    BY <1>1, <1>3, <2>1, <2>2
    DEF Trades!Dispute, Trades!Settling, Agreed, Locked, Final, Closed
  <2>4. QED
    BY <2>3 DEF Trades!Next
<1>4. QED BY <1>2, <1>3

LEMMA StorePartialSigConsents ==
  ASSUME IInv, NEW o \in Offers, NEW r \in Robots, StorePartialSig(o, r)
  PROVE  Trades!Next \/ UNCHANGED Trades!vars
<1> DEFINE role == RoleOf(o, r)
<1>1. role \in Trades!Roles
  BY RoleOfType DEF Roles, Trades!Roles
<1>2. UNCHANGED <<taken, signed_escrow_psbt, escrow_psbt_is_confirmed,
                  escrow_ongoing, escrow_winner, depth, spent_by>>
  BY DEF StorePartialSig, InsertPartialSig, OnlyTable, chainVars
<1>3. CASE o \notin taken
  BY <1>2, <1>3, Hidden DEF StorePartialSig, InsertPartialSig, UpdateRole, shown
<1>4. CASE o \in taken
  <2>1. o \in Final
    BY DEF IInv, LateHandlersSound, LateSteps, Steps, StorePartialSig, At, Final
  <2>2. held[o][r] \in Payouts /\ partial_sig[o][role] = NULL
    BY DEF IInv, SignaturesSound, SignerSound, StorePartialSig
  <2>3. partial_sig' = [partial_sig EXCEPT ![o][role] = held[o][r]]
    BY <1>4 DEF StorePartialSig, InsertPartialSig, UpdateRole
  <2>4. Trades!Consent(o, role, held[o][r])
    BY <1>2, <1>4, <2>1, <2>2, <2>3
    DEF Trades!Consent, Trades!Settling, Agreed, Locked, Final, Disputed, Closed
  <2>5. QED
    BY <1>1, <2>2, <2>4 DEF Trades!Next
<1>5. QED BY <1>3, <1>4

LEMMA BroadcastPayoutPays ==
  ASSUME IInv, NEW o \in Offers, NEW r \in Robots, BroadcastPayout(o, r)
  PROVE  Trades!Next \/ UNCHANGED Trades!vars
<1> DEFINE payout == held[o][r]
<1>1. UNCHANGED tableVars
  BY DEF BroadcastPayout, OnlyChain
<1>2. CASE UNCHANGED chainVars
  BY <1>1, <1>2, Hidden DEF shown, tableVars, chainVars
<1>3. CASE AcceptsPayout(o, payout) /\ BroadcastPayoutTx(o, payout)
  <2>1. CASE spent_by[o] = payout
    <3>1. UNCHANGED chainVars
      BY <1>3, <2>1
      DEF BroadcastPayoutTx, chainVars, IInv, TypeOK, ChainTypeOK
    <3>2. QED BY <1>2, <3>1
  <2>2. CASE EscrowUnspent(o)
    <3>1. payout \in Payouts /\ \A role \in Trades!Roles : partial_sig[o][role] = payout
      BY DEF IInv, SignaturesSound, PayerSound, BroadcastPayout, Roles,
             Trades!Roles
    <3>2. o \in Final
      BY DEF IInv, LateHandlersSound, LateSteps, Steps, BroadcastPayout, At,
             Final
    <3>3. o \in Locked
      BY <2>2 DEF EscrowUnspent, Locked, Unknown, IInv, TypeOK, ChainTypeOK
    <3>4. Trades!Pay(o, payout)
      BY <1>1, <1>3, <2>2, <3>1, <3>2, <3>3
      DEF Trades!Pay, EscrowUnspent, BroadcastPayoutTx, tableVars, Agreed,
          Locked, Final, Disputed, Closed
    <3>5. QED
      BY <3>1, <3>4 DEF Trades!Next
  <2>3. QED
    BY <1>3, <2>1, <2>2 DEF AcceptsPayout
<1>4. QED
  BY <1>2, <1>3 DEF BroadcastPayout

LEMMA DeleteOfferCloses ==
  ASSUME IInv, NEW o \in Offers, NEW r \in Robots, DeleteOffer(o, r)
  PROVE  Trades!Next \/ UNCHANGED Trades!vars
<1>1. UNCHANGED <<signed_escrow_psbt, escrow_psbt_is_confirmed, escrow_ongoing,
                  escrow_winner, partial_sig, depth, spent_by>>
  BY DEF DeleteOffer, DeleteCompleteOffer, OnlyTable, chainVars
<1>2. Closed' = Closed \cup {o}
  BY DEF DeleteOffer, DeleteCompleteOffer, Closed
<1>3. spent_by[o] # NULL
  BY DEF IInv, SignaturesSound, PayerSound, DeleteOffer
<1>4. Trades!Close(o)
  BY <1>1, <1>2, <1>3 DEF Trades!Close, Agreed, Locked, Final, Disputed
<1>5. QED
  BY <1>4 DEF Trades!Next

LEMMA MonitorConfirmFinalizes ==
  ASSUME IInv, NEW o \in Offers, MonitorConfirm(o)
  PROVE  Trades!Next \/ UNCHANGED Trades!vars
<1>1. UNCHANGED <<taken, signed_escrow_psbt, escrow_ongoing, escrow_winner,
                  partial_sig, depth, spent_by>>
  BY DEF MonitorConfirm, SetConfirmed, chainVars
<1>2. CASE o \notin taken
  BY <1>1, <1>2, Hidden DEF MonitorConfirm, SetConfirmed, UpdateRow, shown
<1>3. CASE o \in taken
  <2>1. o \in Locked
    BY SettlementAssumption
    DEF MonitorConfirm, IInv, MonitorSound, Locked, Unknown, TypeOK, ChainTypeOK
  <2>2. Final' = Final \cup {o}
    BY <1>3
    DEF MonitorConfirm, SetConfirmed, UpdateRow, Final, IInv, TypeOK,
        TableTypeOK
  <2>3. Trades!Finalize(o)
    BY <1>1, <1>3, <2>1, <2>2
    DEF Trades!Finalize, Agreed, Locked, Disputed, Closed
  <2>4. QED
    BY <2>3 DEF Trades!Next
<1>4. QED BY <1>2, <1>3

LEMMA CliDecideDecides ==
  ASSUME IInv, NEW o \in Offers, CliDecide(o)
  PROVE  Trades!Next \/ UNCHANGED Trades!vars
<1>1. PICK winner \in {MakerOf[o], TakerOf[o]} : ResolveEscrow(o, winner)
  BY DEF CliDecide
<1>2. UNCHANGED <<taken, signed_escrow_psbt, escrow_psbt_is_confirmed,
                  partial_sig, depth, spent_by>>
  BY <1>1 DEF CliDecide, ResolveEscrow, chainVars
<1>3. CASE o \notin taken
  BY <1>1, <1>2, <1>3, Hidden DEF ResolveEscrow, UpdateRow, shown
<1>4. CASE o \in taken
  <2>1. o \in Final /\ o \in Disputed
    BY <1>4 DEF CliDecide, IInv, CasesSound, Final, Disputed
  <2>2. Disputed' = Disputed \ {o}
    BY <1>1, <1>4
    DEF ResolveEscrow, UpdateRow, Disputed, IInv, TypeOK, TableTypeOK
  <2>3. escrow_winner' = [escrow_winner EXCEPT ![o] = winner]
    BY <1>1, <1>4 DEF ResolveEscrow, UpdateRow
  <2>4. Trades!Decide(o, winner)
    BY <1>1, <1>2, <1>4, <2>1, <2>2, <2>3
    DEF Trades!Decide, Trades!Settling, Agreed, Locked, Final, Closed
  <2>5. winner \in Robots
    BY <1>1, TakenOffersAssumption
  <2>6. QED
    BY <2>4, <2>5 DEF Trades!Next
<1>5. QED BY <1>3, <1>4

(* Blocks and reorganisations do not show; an eviction drops the escrow, which
   is not final, for final ones are deep. *)
LEMMA EnvironmentDrops ==
  ASSUME IInv, Environment
  PROVE  Trades!Next \/ UNCHANGED Trades!vars
<1> USE DEF IInv, TypeOK, ChainTypeOK
<1>1. UNCHANGED tableVars /\ UNCHANGED spent_by
  BY DEF Environment, ChainNext, Mine, Reorg, Evict
<1>2. ASSUME Locked' = Locked PROVE UNCHANGED Trades!vars
  BY <1>1, <1>2 DEF Trades!vars, tableVars, Agreed, Final, Disputed, Closed
<1>3. CASE Mine
  <2>1. Locked' = Locked
    BY <1>3, ChainAssumption DEF Mine, Saturated, Unknown, Locked
  <2>2. QED BY <1>2, <2>1
<1>4. ASSUME NEW k \in 1..MaxReorg, Reorg(k) PROVE UNCHANGED Trades!vars
  <2>1. ASSUME NEW o \in Offers PROVE depth'[o] # Unknown <=> depth[o] # Unknown
    <3>1. depth'[o] \in DepthsAfterReorg(o, k) /\ depth[o] \in Unknown..MaxDepth
      BY <1>4 DEF Reorg
    <3>2. QED
      BY <3>1, ChainAssumption DEF DepthsAfterReorg, Saturated, Unknown
  <2>2. QED BY <1>2, <2>1 DEF Locked
<1>5. ASSUME NEW o \in Offers, Evict(o) PROVE Trades!Next
  <2>1. Locked' = Locked \ {o}
    BY <1>5 DEF Evict, Locked, Unknown
  <2>2. o \notin Final
    BY <1>5, SettlementAssumption DEF Evict, Final, MonitorSound
  <2>3. Trades!Drop(o)
    BY <1>1, <2>1, <2>2
    DEF Trades!Drop, tableVars, Agreed, Final, Disputed, Closed
  <2>4. QED
    BY <2>3 DEF Trades!Next
<1>6. QED
  BY <1>3, <1>4, <1>5 DEF Environment, ChainNext

-----------------------------------------------------------------------------
(* A fresh row is a fresh trade. *)
LEMMA TradeInit == Init => Trades!Init
BY DEF Init, TableInit, ChainInit, Trades!Init, Trades!Roles, Roles, Agreed,
       Locked, Final, Disputed, Closed, Unknown

LEMMA TradeStep == IInv /\ [Next]_vars => [Trades!Next]_Trades!vars
<1> SUFFICES ASSUME IInv, [Next]_vars
             PROVE  Trades!Next \/ UNCHANGED Trades!vars
  OBVIOUS
<1>1. ASSUME NEW o \in Offers, NEW r \in Robots,
             Call(o, r) \/ HandlerStep(o, r) \/ Leave(o, r)
      PROVE  Trades!Next \/ UNCHANGED Trades!vars
  <2>1. TypeOK
    BY DEF IInv
  <2>2. CASE \/ StoreEscrowPsbt(o, r) \/ BroadcastEscrow(o, r)
             \/ SetOngoing(o, r) \/ StorePartialSig(o, r)
             \/ BroadcastPayout(o, r) \/ DeleteOffer(o, r)
    BY <2>1, <2>2, StoreEscrowPsbtAgrees, BroadcastEscrowLocks,
       SetOngoingDisputes, StorePartialSigConsents, BroadcastPayoutPays,
       DeleteOfferCloses
  <2>3. QED
    BY <1>1, <2>2, HiddenHandlers, Hidden DEF HandlerStep
<1>2. ASSUME NEW o \in Offers, MonitorConfirm(o) \/ CliDecide(o)
      PROVE  Trades!Next \/ UNCHANGED Trades!vars
  BY <1>2, MonitorConfirmFinalizes, CliDecideDecides
<1>3. CASE Environment
  BY <1>3, EnvironmentDrops
<1>4. CASE \/ MonitorFetch \/ (\E o \in Offers : MonitorQuery(o))
           \/ MonitorQueryFails \/ CliFetch
           \/ (\E o \in Offers : CliInputFails(o)) \/ Restart \/ UNCHANGED vars
  BY <1>4, HiddenTasks, Hidden
<1>5. QED
  BY <1>1, <1>2, <1>3, <1>4 DEF Next, Monitor, Cli

(* The coordinator's settlement, with all its handlers, tasks, restarts and
   reorganisations, implements the abstract trade. *)
THEOREM TradesImplemented == Spec => ImplementsTrade
<1>1. IInv /\ [Next]_vars => [Trades!Next]_Trades!vars
  BY TradeStep
<1>2. QED
  BY TradeInit, <1>1, Inductive, PTL DEF Spec, ImplementsTrade, Trades!Spec
=============================================================================

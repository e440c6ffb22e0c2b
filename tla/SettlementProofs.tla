-------------------------- MODULE SettlementProofs --------------------------
(***************************************************************************)
(* Proofs about Settlement, for any number of offers, robots and payouts,  *)
(* any depths and any number of faults.                                    *)
(***************************************************************************)
EXTENDS Settlement, TLAPS

(* The role is_maker_in_taken_offers finds is one of the two. *)
LEMMA RoleOfType ==
  ASSUME NEW o \in Offers, NEW r \in Robots
  PROVE  RoleOf(o, r) \in Roles
BY DEF RoleOf, Roles

(* Every statement on taken_offers keeps the types of its columns. *)
LEMMA StatementTypes ==
  ASSUME TableTypeOK, NEW o \in Offers, NEW role \in Roles,
         NEW psbt \in Payouts \cup {NULL}, NEW r \in Robots
  PROVE  /\ InsertSignedEscrowPsbt(o, role) => TableTypeOK'
         /\ SetConfirmed(o) => TableTypeOK'
         /\ SetTraderHappyField(o, role, TRUE) => TableTypeOK'
         /\ SetTraderHappyField(o, role, FALSE) => TableTypeOK'
         /\ SetEscrowOngoing(o) => TableTypeOK'
         /\ ResolveEscrow(o, r) => TableTypeOK'
         /\ InsertPayoutPsbt(o, psbt) => TableTypeOK'
         /\ InsertPartialSig(o, role, psbt) => TableTypeOK'
         /\ ToggleProcessing(o) => TableTypeOK'
         /\ DeleteCompleteOffer(o) => TableTypeOK'
<1>1. InsertSignedEscrowPsbt(o, role) => TableTypeOK'
  BY DEF TableTypeOK, InsertSignedEscrowPsbt, UpdateRole
<1>2. SetConfirmed(o) => TableTypeOK'
  BY DEF TableTypeOK, SetConfirmed, UpdateRow
<1>3. SetTraderHappyField(o, role, TRUE) => TableTypeOK'
  BY DEF TableTypeOK, SetTraderHappyField, UpdateRole, BoolToSqlInt
<1>4. SetTraderHappyField(o, role, FALSE) => TableTypeOK'
  BY DEF TableTypeOK, SetTraderHappyField, UpdateRole, BoolToSqlInt
<1>5. SetEscrowOngoing(o) => TableTypeOK'
  BY DEF TableTypeOK, SetEscrowOngoing, UpdateRow
<1>6. ResolveEscrow(o, r) => TableTypeOK'
  BY DEF TableTypeOK, ResolveEscrow, UpdateRow
<1>7. InsertPayoutPsbt(o, psbt) => TableTypeOK'
  BY DEF TableTypeOK, InsertPayoutPsbt, UpdateRow
<1>8. InsertPartialSig(o, role, psbt) => TableTypeOK'
  BY DEF TableTypeOK, InsertPartialSig, UpdateRole
<1>9. ToggleProcessing(o) => TableTypeOK'
  BY DEF TableTypeOK, ToggleProcessing, UpdateRow
<1>10. DeleteCompleteOffer(o) => TableTypeOK'
  BY DEF TableTypeOK, DeleteCompleteOffer
<1>11. QED BY <1>1, <1>2, <1>3, <1>4, <1>5, <1>6, <1>7, <1>8, <1>9, <1>10

(* What the node does keeps the types of the chain. *)
LEMMA ChainTypes ==
  ASSUME ChainTypeOK
  PROVE  /\ ChainNext => ChainTypeOK'
         /\ \A o \in Offers : BroadcastEscrowTx(o) => ChainTypeOK'
         /\ \A o \in Offers, p \in Payouts : BroadcastPayoutTx(o, p) => ChainTypeOK'
<1>1. Mine => ChainTypeOK'
  BY ChainAssumption DEF ChainTypeOK, Mine, Saturated, Unknown
<1>2. ASSUME NEW k \in 1..MaxReorg, Reorg(k) PROVE ChainTypeOK'
  BY <1>2 DEF ChainTypeOK, Reorg
<1>3. ASSUME NEW o \in Offers, Evict(o) PROVE ChainTypeOK'
  BY <1>3, ChainAssumption DEF ChainTypeOK, Evict, Unknown
<1>4. ASSUME NEW o \in Offers, BroadcastEscrowTx(o) PROVE ChainTypeOK'
  BY <1>4, ChainAssumption DEF ChainTypeOK, BroadcastEscrowTx, Unknown
<1>5. ASSUME NEW o \in Offers, NEW p \in Payouts, BroadcastPayoutTx(o, p)
      PROVE  ChainTypeOK'
  BY <1>5 DEF ChainTypeOK, BroadcastPayoutTx
<1>6. QED BY <1>1, <1>2, <1>3, <1>4, <1>5 DEF ChainNext

(* A handler goes on, or ends, at a step and with an answer of the types. *)
LEMMA BecomesTypes ==
  ASSUME HandlerTypeOK, NEW o \in Offers, NEW r \in Robots,
         NEW step \in Steps, NEW psbt \in Payouts \cup {NULL},
         NEW value \in Answers
  PROVE  /\ Carry(o, r, step, psbt) => HandlerTypeOK'
         /\ Continue(o, r, step) => HandlerTypeOK'
         /\ Return(o, r) => HandlerTypeOK'
         /\ Reply(o, r, value) => HandlerTypeOK'
         /\ Fail(o, r) => HandlerTypeOK'
<1>1. "idle" \in Steps /\ "closed" \in Answers
  BY DEF Steps, Answers
<1>2. ASSUME NEW s \in Steps, NEW p \in Payouts \cup {NULL}, Carry(o, r, s, p)
      PROVE  HandlerTypeOK'
  BY <1>2 DEF HandlerTypeOK, Carry, Becomes
<1>3. ASSUME NEW v \in Answers, Reply(o, r, v) PROVE HandlerTypeOK'
  BY <1>1, <1>3 DEF HandlerTypeOK, Reply, Becomes
<1>4. QED
  BY <1>1, <1>2, <1>3 DEF Continue, Carry, Return, Fail

(* A step of a handler keeps the types. *)
LEMMA HandlerStepTypes ==
  ASSUME TypeOK, NEW o \in Offers, NEW r \in Robots, HandlerStep(o, r)
  PROVE  TypeOK'
<1> USE DEF TypeOK
<1> DEFINE role == RoleOf(o, r)
<1>1. role \in Roles
  BY RoleOfType
<1>2. {"fetch_both_psbts", "broadcast_escrow", "set_ongoing", "toggle",
       "assemble", "insert_payout", "release", "aggregate",
       "broadcast_payout", "delete", "idle"} \subseteq Steps
  BY DEF Steps
<1>3. {"lost", "closed"} \cup Payouts \subseteq Answers
  BY DEF Answers
<1>4. held[o][r] \in Payouts \cup {NULL} /\ answer[o][r] \in Answers
      /\ payout_psbt[o] \in Payouts \cup {NULL}
  BY DEF HandlerTypeOK, TableTypeOK
<1>5. CASE \/ FetchBothEscrowPsbts(o, r) \/ FetchPayout(o, r)
           \/ AssemblePayout(o, r) \/ FetchWinner(o, r) \/ AggregateSigs(o, r)
  <2>1. HandlerTypeOK'
    BY <1>2, <1>3, <1>4, <1>5, BecomesTypes
    DEF FetchBothEscrowPsbts, FetchPayout, AssemblePayout, FetchWinner,
        AggregateSigs
  <2>2. UNCHANGED <<tableVars, chainVars, taskVars>>
    BY <1>5 DEF FetchBothEscrowPsbts, FetchPayout, AssemblePayout,
                FetchWinner, AggregateSigs, OnlyHandlers
  <2>3. QED
    BY <2>1, <2>2 DEF tableVars, chainVars, taskVars, TableTypeOK,
                      ChainTypeOK, TaskTypeOK
<1>6. CASE BroadcastEscrow(o, r)
  <2>1. HandlerTypeOK'
    BY <1>2, <1>3, <1>4, <1>6, BecomesTypes DEF BroadcastEscrow
  <2>2. ChainTypeOK'
    BY <1>6, ChainTypes DEF BroadcastEscrow, chainVars, ChainTypeOK
  <2>3. QED
    BY <1>6, <2>1, <2>2 DEF BroadcastEscrow, OnlyChain, tableVars, taskVars,
                            TableTypeOK, TaskTypeOK
<1>7. CASE BroadcastPayout(o, r)
  <2>1. HandlerTypeOK'
    BY <1>2, <1>3, <1>4, <1>7, BecomesTypes DEF BroadcastPayout
  <2>2. ChainTypeOK'
    BY <1>4, <1>7 DEF BroadcastPayout, BroadcastPayoutTx, chainVars,
                      ChainTypeOK
  <2>3. QED
    BY <1>7, <2>1, <2>2 DEF BroadcastPayout, OnlyChain, tableVars, taskVars,
                            TableTypeOK, TaskTypeOK
<1>8. CASE \/ StoreEscrowPsbt(o, r) \/ SetHappy(o, r) \/ SetUnhappy(o, r)
           \/ SetOngoing(o, r) \/ InsertPayout(o, r)
           \/ StorePartialSig(o, r) \/ DeleteOffer(o, r)
           \/ ToggleBeforeAssembly(o, r) \/ ToggleAfterAssembly(o, r)
  <2>1. HandlerTypeOK'
    <3>1. CASE ToggleAfterAssembly(o, r)
      BY <1>2, <1>3, <1>4, <3>1, BecomesTypes
      DEF ToggleAfterAssembly, Answers
    <3>2. QED
      BY <1>2, <1>3, <1>4, <1>8, <3>1, BecomesTypes
      DEF StoreEscrowPsbt, SetHappy, SetUnhappy, SetOngoing, InsertPayout,
          StorePartialSig, DeleteOffer, ToggleBeforeAssembly
  <2>2. TableTypeOK'
    BY <1>1, <1>4, <1>8, StatementTypes
    DEF StoreEscrowPsbt, SetHappy, SetUnhappy, SetOngoing, InsertPayout,
        StorePartialSig, DeleteOffer, ToggleBeforeAssembly,
        ToggleAfterAssembly
  <2>3. UNCHANGED <<chainVars, taskVars>>
    BY <1>8 DEF StoreEscrowPsbt, SetHappy, SetUnhappy, SetOngoing,
                InsertPayout, StorePartialSig, DeleteOffer,
                ToggleBeforeAssembly, ToggleAfterAssembly, OnlyTable
  <2>4. QED
    BY <2>1, <2>2, <2>3 DEF chainVars, taskVars, ChainTypeOK, TaskTypeOK
<1>9. QED
  BY <1>5, <1>6, <1>7, <1>8 DEF HandlerStep

(* A call of a trader, or its leaving, keeps the types. *)
LEMMA CallTypes ==
  ASSUME TypeOK, NEW o \in Offers, NEW r \in Robots,
         Call(o, r) \/ Leave(o, r)
  PROVE  TypeOK'
<1> USE DEF TypeOK
<1>1. {"store_escrow_psbt", "set_happy", "set_unhappy", "fetch_payout",
       "fetch_winner", "store_sig", "idle"} \subseteq Steps
  BY DEF Steps
<1>2. HandlerTypeOK'
  BY <1>1, BecomesTypes
  DEF Call, Leave, SubmitEscrowPsbt, ConfirmObligation, RequestEscrow,
      PollFinalPayout, SubmitPayoutSignature, Answers
<1>3. UNCHANGED <<tableVars, chainVars, taskVars>>
  BY DEF Call, Leave, SubmitEscrowPsbt, ConfirmObligation, RequestEscrow,
         PollFinalPayout, SubmitPayoutSignature, OnlyHandlers
<1>4. QED
  BY <1>2, <1>3 DEF tableVars, chainVars, taskVars, TableTypeOK, ChainTypeOK,
                    TaskTypeOK

(* A step of the confirmation monitor or of the escrow command line, one of
   their failures, a restart or a step of the chain keeps the types. *)
LEMMA TaskTypes ==
  ASSUME TypeOK,
         \/ Monitor \/ MonitorQueryFails \/ Cli
         \/ \E o \in Offers : CliInputFails(o)
         \/ Restart \/ Environment
  PROVE  TypeOK'
<1> USE DEF TypeOK
<1>1. CASE MonitorFetch
  BY <1>1 DEF MonitorFetch, UnconfirmedEscrowTxids, tableVars, chainVars,
              handlerVars, TableTypeOK, ChainTypeOK, HandlerTypeOK, TaskTypeOK
<1>2. ASSUME NEW o \in Offers, MonitorQuery(o) PROVE TypeOK'
  BY <1>2 DEF MonitorQuery, tableVars, chainVars, handlerVars, TableTypeOK,
              ChainTypeOK, HandlerTypeOK, TaskTypeOK
<1>3. ASSUME NEW o \in Offers, MonitorConfirm(o) PROVE TypeOK'
  <2>1. TableTypeOK'
    BY <1>3 DEF MonitorConfirm, SetConfirmed, UpdateRow, TableTypeOK
  <2>2. QED
    BY <1>3, <2>1 DEF MonitorConfirm, chainVars, handlerVars, ChainTypeOK,
                      HandlerTypeOK, TaskTypeOK
<1>4. CASE MonitorQueryFails
  BY <1>4, SettlementAssumption
  DEF MonitorQueryFails, Fault, tableVars, chainVars, handlerVars,
      TableTypeOK, ChainTypeOK, HandlerTypeOK, TaskTypeOK
<1>5. CASE CliFetch
  BY <1>5 DEF CliFetch, OpenEscrows, tableVars, chainVars, handlerVars,
              TableTypeOK, ChainTypeOK, HandlerTypeOK, TaskTypeOK
<1>6. ASSUME NEW o \in Offers, CliDecide(o) PROVE TypeOK'
  <2>1. PICK winner \in {MakerOf[o], TakerOf[o]} : ResolveEscrow(o, winner)
    BY <1>6 DEF CliDecide
  <2>2. winner \in Robots
    BY <2>1, TakenOffersAssumption
  <2>3. TableTypeOK'
    BY <2>1, <2>2 DEF ResolveEscrow, UpdateRow, TableTypeOK
  <2>4. QED
    BY <1>6, <2>3 DEF CliDecide, chainVars, handlerVars, ChainTypeOK,
                      HandlerTypeOK, TaskTypeOK
<1>7. ASSUME NEW o \in Offers, CliInputFails(o) PROVE TypeOK'
  BY <1>7, SettlementAssumption
  DEF CliInputFails, Fault, tableVars, chainVars, handlerVars,
      TableTypeOK, ChainTypeOK, HandlerTypeOK, TaskTypeOK
<1>8. CASE Restart
  <2>1. HandlerTypeOK'
    BY <1>8 DEF Restart, HandlerTypeOK, Steps, Answers
  <2>2. TaskTypeOK'
    BY <1>8, SettlementAssumption DEF Restart, Fault, TaskTypeOK
  <2>3. QED
    BY <1>8, <2>1, <2>2 DEF Restart, tableVars, chainVars, TableTypeOK,
                            ChainTypeOK
<1>9. CASE Environment
  BY <1>9, ChainTypes
  DEF Environment, tableVars, handlerVars, taskVars, TableTypeOK,
      HandlerTypeOK, TaskTypeOK
<1>10. QED
  BY <1>1, <1>2, <1>3, <1>4, <1>5, <1>6, <1>7, <1>8, <1>9 DEF Monitor, Cli

(* Every step of the specification keeps the types. *)
LEMMA TypeStep == TypeOK /\ [Next]_vars => TypeOK'
<1>1. ASSUME TypeOK, Next PROVE TypeOK'
  BY <1>1, HandlerStepTypes, CallTypes, TaskTypes DEF Next
<1>2. ASSUME TypeOK, UNCHANGED vars PROVE TypeOK'
  BY <1>2 DEF vars, tableVars, chainVars, handlerVars, taskVars, TypeOK,
              TableTypeOK, ChainTypeOK, HandlerTypeOK, TaskTypeOK
<1>3. QED BY <1>1, <1>2

(* The types of every variable hold in every reachable state. *)
THEOREM TypeCorrect == Spec => []TypeOK
<1>1. Init => TypeOK
  BY ChainAssumption, SettlementAssumption
  DEF Init, TableInit, ChainInit, TypeOK, TableTypeOK, ChainTypeOK,
      HandlerTypeOK, TaskTypeOK, Steps, Answers, Unknown
<1>2. QED
  BY <1>1, TypeStep, PTL DEF Spec

-----------------------------------------------------------------------------
(* What a step may do to the columns and to the chain.  Each fact names the
   actions that touch the variable; the invariants below are argued from
   these facts. *)

(* An escrow transaction deeper than MinConf stays so: no reorganisation is
   longer than MinConf. *)
LEMMA DeepStays ==
  ASSUME TypeOK, [Next]_vars, NEW o \in Offers, depth[o] > MinConf
  PROVE  depth'[o] > MinConf
<1> USE DEF TypeOK, ChainTypeOK
<1>1. CASE Environment
  <2>1. CASE Mine
    BY <2>1, ChainAssumption, SettlementAssumption DEF Mine, Saturated, Unknown
  <2>2. ASSUME NEW k \in 1..MaxReorg, Reorg(k) PROVE depth'[o] > MinConf
    <3>1. depth[o] > k
      BY ChainAssumption, SettlementAssumption DEF Unknown
    <3>2. depth'[o] = Saturated(depth[o] + 1)
      BY <2>2, <3>1 DEF Reorg, DepthsAfterReorg
    <3>3. QED
      BY <3>2, ChainAssumption, SettlementAssumption DEF Saturated, Unknown
  <2>3. ASSUME NEW u \in Offers, Evict(u) PROVE depth'[o] > MinConf
    BY <2>3, SettlementAssumption DEF Evict
  <2>4. QED
    BY <1>1, <2>1, <2>2, <2>3 DEF Environment, ChainNext
<1>2. ASSUME NEW u \in Offers, NEW r \in Robots, BroadcastEscrow(u, r)
      PROVE  depth'[o] > MinConf
  BY <1>2, SettlementAssumption
  DEF BroadcastEscrow, BroadcastEscrowTx, chainVars, Unknown
<1>3. ASSUME NEW u \in Offers, NEW r \in Robots,
             Call(u, r) \/ HandlerStep(u, r) \/ Leave(u, r)
      PROVE  depth'[o] > MinConf
  BY <1>2, <1>3
  DEF Call, HandlerStep, Leave, SubmitEscrowPsbt, ConfirmObligation,
      RequestEscrow, PollFinalPayout, SubmitPayoutSignature, StoreEscrowPsbt,
      FetchBothEscrowPsbts, SetHappy, SetUnhappy, SetOngoing, FetchPayout,
      ToggleBeforeAssembly, AssemblePayout, InsertPayout,
      ToggleAfterAssembly, FetchWinner, StorePartialSig, AggregateSigs,
      BroadcastPayout, BroadcastPayoutTx, DeleteOffer, OnlyHandlers,
      OnlyTable, chainVars
<1>4. CASE Monitor \/ MonitorQueryFails \/ Cli \/ Restart
           \/ (\E u \in Offers : CliInputFails(u)) \/ UNCHANGED vars
  BY <1>4
  DEF Monitor, MonitorFetch, MonitorQuery, MonitorConfirm, MonitorQueryFails,
      Cli, CliFetch, CliDecide, CliInputFails, Restart, vars, chainVars
<1>5. QED
  BY <1>1, <1>3, <1>4 DEF Next

(* Only the confirmation monitor sets the flag, and nothing resets it. *)
LEMMA FlagChange ==
  ASSUME TypeOK, [Next]_vars, NEW o \in Offers
  PROVE  \/ escrow_psbt_is_confirmed'[o] = escrow_psbt_is_confirmed[o]
         \/ escrow_psbt_is_confirmed'[o] = 1 /\ o \in deep
<1> USE DEF TypeOK, TableTypeOK
<1>1. ASSUME NEW u \in Offers, NEW r \in Robots,
             Call(u, r) \/ HandlerStep(u, r) \/ Leave(u, r)
      PROVE  UNCHANGED escrow_psbt_is_confirmed
  BY <1>1
  DEF Call, HandlerStep, Leave, SubmitEscrowPsbt, ConfirmObligation,
      RequestEscrow, PollFinalPayout, SubmitPayoutSignature, StoreEscrowPsbt,
      FetchBothEscrowPsbts, BroadcastEscrow, SetHappy, SetUnhappy, SetOngoing,
      FetchPayout, ToggleBeforeAssembly, AssemblePayout, InsertPayout,
      ToggleAfterAssembly, FetchWinner, StorePartialSig, AggregateSigs,
      BroadcastPayout, DeleteOffer, OnlyHandlers, OnlyTable, OnlyChain,
      tableVars, InsertSignedEscrowPsbt, SetTraderHappyField,
      SetEscrowOngoing, InsertPayoutPsbt, InsertPartialSig, ToggleProcessing,
      DeleteCompleteOffer
<1>2. ASSUME NEW u \in Offers, MonitorConfirm(u)
      PROVE  \/ escrow_psbt_is_confirmed'[o] = escrow_psbt_is_confirmed[o]
             \/ escrow_psbt_is_confirmed'[o] = 1 /\ o \in deep
  BY <1>2 DEF MonitorConfirm, SetConfirmed, UpdateRow
<1>3. CASE \/ MonitorFetch \/ (\E u \in Offers : MonitorQuery(u))
           \/ MonitorQueryFails \/ Cli \/ Restart \/ Environment
           \/ (\E u \in Offers : CliInputFails(u)) \/ UNCHANGED vars
  BY <1>3
  DEF MonitorFetch, MonitorQuery, MonitorQueryFails, Cli, CliFetch, CliDecide,
      ResolveEscrow, CliInputFails, Restart, Environment, vars, tableVars
<1>4. QED
  BY <1>1, <1>2, <1>3 DEF Next, Monitor

(* The monitor's sound findings *)
LEMMA MonitorSoundStep ==
  ASSUME TypeOK, MonitorSound, [Next]_vars
  PROVE  MonitorSound'
<1>1. ASSUME NEW o \in deep' PROVE o \in deep \/ depth[o] > MinConf
  <2>1. ASSUME NEW u \in Offers, MonitorQuery(u)
        PROVE  o \in deep \/ depth[o] > MinConf
    BY <1>1, <2>1 DEF MonitorQuery, DeepEnough
  <2>2. ASSUME NEW u \in Offers, NEW r \in Robots,
               Call(u, r) \/ HandlerStep(u, r) \/ Leave(u, r)
        PROVE  deep' = deep
    BY <2>2
    DEF Call, HandlerStep, Leave, SubmitEscrowPsbt, ConfirmObligation,
        RequestEscrow, PollFinalPayout, SubmitPayoutSignature,
        StoreEscrowPsbt, FetchBothEscrowPsbts, BroadcastEscrow, SetHappy,
        SetUnhappy, SetOngoing, FetchPayout, ToggleBeforeAssembly,
        AssemblePayout, InsertPayout, ToggleAfterAssembly, FetchWinner,
        StorePartialSig, AggregateSigs, BroadcastPayout, DeleteOffer,
        OnlyHandlers, OnlyTable, OnlyChain, taskVars
  <2>3. CASE \/ MonitorFetch \/ (\E u \in Offers : MonitorConfirm(u))
             \/ MonitorQueryFails \/ Cli \/ Restart \/ Environment
             \/ (\E u \in Offers : CliInputFails(u)) \/ UNCHANGED vars
    BY <1>1, <2>3
    DEF MonitorFetch, MonitorConfirm, MonitorQueryFails, Cli, CliFetch,
        CliDecide, CliInputFails, Restart, Environment, vars, taskVars
  <2>4. QED
    BY <1>1, <2>1, <2>2, <2>3 DEF Next, Monitor
<1>2. deep' \subseteq Offers
  <2>1. TypeOK'
    BY HandlerStepTypes, CallTypes, TaskTypes DEF Next, vars, tableVars,
       chainVars, handlerVars, taskVars, TypeOK, TableTypeOK, ChainTypeOK,
       HandlerTypeOK, TaskTypeOK
  <2>2. QED BY <2>1 DEF TypeOK, TaskTypeOK
<1>3. QED
  BY <1>1, <1>2, DeepStays, FlagChange DEF MonitorSound

(* A handler writes only its own slot. *)
LEMMA OwnSlot ==
  ASSUME TypeOK, NEW o \in Offers, NEW r \in Robots,
         Call(o, r) \/ HandlerStep(o, r) \/ Leave(o, r),
         NEW u \in Offers, NEW q \in Robots, u # o \/ q # r
  PROVE  /\ pc'[u][q] = pc[u][q]
         /\ held'[u][q] = held[u][q]
         /\ answer'[u][q] = answer[u][q]
<1> USE DEF TypeOK, HandlerTypeOK
<1>1. ASSUME NEW step, NEW psbt, NEW value,
             Carry(o, r, step, psbt) \/ Reply(o, r, value)
      PROVE  /\ pc'[u][q] = pc[u][q]
             /\ held'[u][q] = held[u][q]
             /\ answer'[u][q] = answer[u][q]
  BY <1>1 DEF Carry, Reply, Becomes
<1>2. \E step, psbt, value : Carry(o, r, step, psbt) \/ Reply(o, r, value)
  BY DEF Carry, Continue, Return, Fail, Call, HandlerStep, Leave, SubmitEscrowPsbt, ConfirmObligation,
      RequestEscrow, PollFinalPayout, SubmitPayoutSignature, StoreEscrowPsbt,
      FetchBothEscrowPsbts, BroadcastEscrow, SetHappy, SetUnhappy, SetOngoing,
      FetchPayout, ToggleBeforeAssembly, AssemblePayout, InsertPayout,
      ToggleAfterAssembly, FetchWinner, StorePartialSig, AggregateSigs,
      BroadcastPayout, DeleteOffer
<1>3. QED
  BY <1>1, <1>2

(* The tasks and the chain leave the handlers alone; a restart ends them. *)
LEMMA TaskSlots ==
  ASSUME TypeOK,
         \/ Monitor \/ MonitorQueryFails \/ Cli
         \/ \E o \in Offers : CliInputFails(o)
         \/ Restart \/ Environment \/ UNCHANGED vars,
         NEW u \in Offers, NEW q \in Robots
  PROVE  /\ pc'[u][q] \in {pc[u][q], "idle"}
         /\ pc'[u][q] # "idle" => held'[u][q] = held[u][q]
         /\ answer'[u][q] \in {answer[u][q], "closed"}
  BY DEF TypeOK, HandlerTypeOK, Monitor, MonitorFetch, MonitorQuery,
         MonitorConfirm, MonitorQueryFails, Cli, CliFetch, CliDecide,
         CliInputFails, Restart, Environment, handlerVars, vars

(* The tasks and the chain write few of the columns. *)
LEMMA TaskColumns ==
  ASSUME \/ Monitor \/ MonitorQueryFails \/ Cli
         \/ \E o \in Offers : CliInputFails(o)
         \/ Restart \/ Environment \/ UNCHANGED vars
  PROVE  UNCHANGED <<taken, signed_escrow_psbt, happy, payout_psbt,
                     partial_sig, processing, spent_by>>
  BY DEF Monitor, MonitorFetch, MonitorQuery, MonitorConfirm, SetConfirmed,
         MonitorQueryFails, Cli, CliFetch, CliDecide, ResolveEscrow,
         CliInputFails, Restart, Environment, ChainNext, Mine, Reorg, Evict,
         tableVars, chainVars, vars

(* An UPDATE sets at most the column of one row and role. *)
LEMMA SignedStays ==
  ASSUME TypeOK, [Next]_vars, NEW o \in Offers, NEW role \in Roles,
         signed_escrow_psbt[o][role]
  PROVE  signed_escrow_psbt'[o][role]
<1> USE DEF TypeOK, TableTypeOK
<1>1. ASSUME NEW u \in Offers, NEW r \in Robots,
             Call(u, r) \/ HandlerStep(u, r) \/ Leave(u, r)
      PROVE  signed_escrow_psbt'[o][role]
  <2>1. CASE StoreEscrowPsbt(u, r)
    BY <2>1, RoleOfType
    DEF StoreEscrowPsbt, InsertSignedEscrowPsbt, UpdateRole
  <2>2. CASE ~StoreEscrowPsbt(u, r)
    <3>1. UNCHANGED signed_escrow_psbt
      BY <1>1, <2>2
      DEF OnlyHandlers, OnlyTable, OnlyChain, tableVars, SetTraderHappyField,
      SetEscrowOngoing, InsertPayoutPsbt, InsertPartialSig, ToggleProcessing,
      DeleteCompleteOffer,
      Call, HandlerStep, Leave, SubmitEscrowPsbt, ConfirmObligation,
      RequestEscrow, PollFinalPayout, SubmitPayoutSignature, StoreEscrowPsbt,
      FetchBothEscrowPsbts, BroadcastEscrow, SetHappy, SetUnhappy, SetOngoing,
      FetchPayout, ToggleBeforeAssembly, AssemblePayout, InsertPayout,
      ToggleAfterAssembly, FetchWinner, StorePartialSig, AggregateSigs,
      BroadcastPayout, DeleteOffer
    <3>2. QED BY <3>1
  <2>3. QED BY <2>1, <2>2
<1>2. QED
  BY <1>1, TaskColumns DEF Next

(* Only a handler that broadcasts the escrow makes it known to the node. *)
LEMMA BecomesKnown ==
  ASSUME TypeOK, [Next]_vars, NEW o \in Offers,
         depth[o] = Unknown, depth'[o] # Unknown
  PROVE  \E r \in Robots : At(o, r, "broadcast_escrow")
<1> USE DEF TypeOK, ChainTypeOK
<1>1. ASSUME NEW u \in Offers, NEW r \in Robots,
             Call(u, r) \/ HandlerStep(u, r) \/ Leave(u, r)
      PROVE  At(o, r, "broadcast_escrow")
  <2>1. CASE BroadcastEscrow(u, r)
    BY <2>1 DEF BroadcastEscrow, BroadcastEscrowTx, chainVars
  <2>2. CASE ~BroadcastEscrow(u, r)
    <3>1. UNCHANGED depth
      BY <1>1, <2>2
      DEF OnlyHandlers, OnlyTable, chainVars, BroadcastPayoutTx,
      Call, HandlerStep, Leave, SubmitEscrowPsbt, ConfirmObligation,
      RequestEscrow, PollFinalPayout, SubmitPayoutSignature, StoreEscrowPsbt,
      FetchBothEscrowPsbts, BroadcastEscrow, SetHappy, SetUnhappy, SetOngoing,
      FetchPayout, ToggleBeforeAssembly, AssemblePayout, InsertPayout,
      ToggleAfterAssembly, FetchWinner, StorePartialSig, AggregateSigs,
      BroadcastPayout, DeleteOffer
    <3>2. QED BY <3>1
  <2>3. QED BY <2>1, <2>2
<1>2. CASE Environment
  <2>1. CASE Mine
    BY <2>1 DEF Mine, Unknown
  <2>2. ASSUME NEW k \in 1..MaxReorg, Reorg(k) PROVE FALSE
    <3>1. ~(depth[o] > k) /\ ~(depth[o] >= 0)
      BY ChainAssumption DEF Unknown
    <3>2. depth'[o] \in {Unknown}
      BY <2>2, <3>1 DEF Reorg, DepthsAfterReorg
    <3>3. QED BY <3>2
  <2>3. ASSUME NEW u \in Offers, Evict(u) PROVE FALSE
    BY <2>3 DEF Evict
  <2>4. QED BY <1>2, <2>1, <2>2, <2>3 DEF Environment, ChainNext
<1>3. CASE Monitor \/ MonitorQueryFails \/ Cli \/ Restart
           \/ (\E u \in Offers : CliInputFails(u)) \/ UNCHANGED vars
  BY <1>3
  DEF Monitor, MonitorFetch, MonitorQuery, MonitorConfirm, MonitorQueryFails,
      Cli, CliFetch, CliDecide, CliInputFails, Restart, vars, chainVars
<1>4. QED
  BY <1>1, <1>2, <1>3 DEF Next

(* Who broadcasts the escrow has seen both signed psbts. *)
LEMMA LockStep ==
  ASSUME TypeOK, LockerSound, EscrowLockedByBoth, [Next]_vars
  PROVE  LockerSound' /\ EscrowLockedByBoth'
<1>1. ASSUME NEW o \in Offers, BothEscrowPsbtsSigned(o)
      PROVE  BothEscrowPsbtsSigned(o)'
  BY <1>1, SignedStays DEF BothEscrowPsbtsSigned
<1>2. ASSUME NEW o \in Offers, NEW r \in Robots, At(o, r, "broadcast_escrow")'
      PROVE  BothEscrowPsbtsSigned(o)
  <2>1. ASSUME NEW u \in Offers, NEW q \in Robots,
               Call(u, q) \/ HandlerStep(u, q) \/ Leave(u, q)
        PROVE  BothEscrowPsbtsSigned(o)
    <3>1. CASE u # o \/ q # r
      BY <1>2, <2>1, <3>1, OwnSlot DEF At, LockerSound
    <3>2. CASE u = o /\ q = r /\ FetchBothEscrowPsbts(o, r)
      BY <1>2, <3>2
      DEF FetchBothEscrowPsbts, ReadyToLock, Fail, Reply, Return, Continue,
          Becomes, At, TypeOK, HandlerTypeOK
    <3>3. CASE u = o /\ q = r /\ ~FetchBothEscrowPsbts(o, r)
      <4>1. \E step, psbt :
              step # "broadcast_escrow" /\ Becomes(o, r, step, psbt)
        BY <2>1, <3>3
        DEF Carry, Fail, Reply, Return, Continue, Call, HandlerStep, Leave, SubmitEscrowPsbt, ConfirmObligation,
      RequestEscrow, PollFinalPayout, SubmitPayoutSignature, StoreEscrowPsbt,
      FetchBothEscrowPsbts, BroadcastEscrow, SetHappy, SetUnhappy, SetOngoing,
      FetchPayout, ToggleBeforeAssembly, AssemblePayout, InsertPayout,
      ToggleAfterAssembly, FetchWinner, StorePartialSig, AggregateSigs,
      BroadcastPayout, DeleteOffer
      <4>2. QED BY <1>2, <4>1 DEF At, Becomes, TypeOK, HandlerTypeOK
    <3>4. QED BY <3>1, <3>2, <3>3
  <2>2. CASE \/ Monitor \/ MonitorQueryFails \/ Cli
             \/ (\E u \in Offers : CliInputFails(u))
             \/ Restart \/ Environment \/ UNCHANGED vars
    BY <1>2, <2>2, TaskSlots DEF At, LockerSound
  <2>3. QED BY <2>1, <2>2 DEF Next
<1>3. LockerSound'
  BY <1>1, <1>2 DEF LockerSound
<1>4. EscrowLockedByBoth'
  BY <1>1, BecomesKnown DEF EscrowLockedByBoth, LockerSound
<1>5. QED BY <1>3, <1>4

(* A handler's statements touch only the row of its own offer. *)
LEMMA OwnRow ==
  ASSUME TypeOK, NEW u \in Offers, NEW r \in Robots, HandlerStep(u, r),
         NEW o \in Offers, o # u
  PROVE  /\ o \in taken' <=> o \in taken
         /\ happy'[o] = happy[o]
         /\ escrow_ongoing'[o] = escrow_ongoing[o]
         /\ escrow_winner'[o] = escrow_winner[o]
         /\ payout_psbt'[o] = payout_psbt[o]
         /\ partial_sig'[o] = partial_sig[o]
         /\ spent_by'[o] = spent_by[o]
<1> USE DEF TypeOK, TableTypeOK, ChainTypeOK
<1>1. CASE \/ FetchBothEscrowPsbts(u, r) \/ BroadcastEscrow(u, r)
           \/ FetchPayout(u, r) \/ AssemblePayout(u, r) \/ FetchWinner(u, r)
           \/ AggregateSigs(u, r)
  BY <1>1
  DEF FetchBothEscrowPsbts, BroadcastEscrow, BroadcastEscrowTx, FetchPayout,
      AssemblePayout, FetchWinner, AggregateSigs, OnlyHandlers, OnlyChain,
      tableVars, chainVars
<1>2. CASE \/ StoreEscrowPsbt(u, r) \/ SetHappy(u, r) \/ SetUnhappy(u, r)
           \/ SetOngoing(u, r) \/ InsertPayout(u, r)
  BY <1>2
  DEF StoreEscrowPsbt, SetHappy, SetUnhappy, SetOngoing, InsertPayout,
      InsertSignedEscrowPsbt, SetTraderHappyField, SetEscrowOngoing,
      InsertPayoutPsbt, UpdateRole, UpdateRow, OnlyTable, chainVars
<1>3. CASE \/ ToggleBeforeAssembly(u, r) \/ ToggleAfterAssembly(u, r)
           \/ StorePartialSig(u, r) \/ DeleteOffer(u, r)
           \/ BroadcastPayout(u, r)
  BY <1>3
  DEF ToggleBeforeAssembly, ToggleAfterAssembly, StorePartialSig,
      BroadcastPayout, DeleteOffer, ToggleProcessing, InsertPartialSig,
      BroadcastPayoutTx, DeleteCompleteOffer, UpdateRole, UpdateRow,
      OnlyTable, OnlyChain, chainVars, tableVars
<1>4. QED
  BY <1>1, <1>2, <1>3 DEF HandlerStep

(* A step of a handler that is not late leaves the settlement columns alone,
   ends no polling but by failing, and does not make the handler late. *)
LEMMA EarlyHandler ==
  ASSUME TypeOK, NEW o \in Offers, NEW r \in Robots, HandlerStep(o, r),
         pc[o][r] \notin LateSteps
  PROVE  /\ UNCHANGED <<taken, happy, escrow_ongoing, escrow_winner,
                        payout_psbt, partial_sig, spent_by>>
         /\ answer'[o][r] \in {answer[o][r], "closed"}
         /\ pc'[o][r] \notin LateSteps
<1>1. pc[o][r] \in {"idle", "store_escrow_psbt", "fetch_both_psbts",
                    "broadcast_escrow"}
  BY DEF TypeOK, HandlerTypeOK, LateSteps
<1>2. CASE StoreEscrowPsbt(o, r)
  BY <1>2
  DEF StoreEscrowPsbt, InsertSignedEscrowPsbt, Continue, Becomes, OnlyTable,
      chainVars, TypeOK, HandlerTypeOK, LateSteps
<1>3. CASE FetchBothEscrowPsbts(o, r)
  BY <1>3
  DEF FetchBothEscrowPsbts, Fail, Reply, Return, Continue, Becomes,
      OnlyHandlers, tableVars, chainVars, TypeOK, HandlerTypeOK, LateSteps
<1>4. CASE BroadcastEscrow(o, r)
  BY <1>4
  DEF BroadcastEscrow, BroadcastEscrowTx, Fail, Reply, Return, Continue,
      Becomes, OnlyChain, tableVars, chainVars, TypeOK, HandlerTypeOK,
      LateSteps
<1>5. QED
  BY <1>1, <1>2, <1>3, <1>4
  DEF At, HandlerStep, SetHappy, SetUnhappy, SetOngoing, FetchPayout,
      ToggleBeforeAssembly, AssemblePayout, InsertPayout,
      ToggleAfterAssembly, FetchWinner, StorePartialSig, AggregateSigs,
      BroadcastPayout, DeleteOffer

(* A call makes a handler late only for a confirmed escrow, and leaves the
   settlement columns alone. *)
LEMMA CallStep ==
  ASSUME TypeOK, SettlementNeedsConfirmation, NEW o \in Offers,
         NEW r \in Robots, Call(o, r) \/ Leave(o, r)
  PROVE  /\ UNCHANGED <<tableVars, chainVars, taskVars>>
         /\ answer'[o][r] \in {answer[o][r], "closed"}
         /\ pc'[o][r] \in LateSteps => escrow_psbt_is_confirmed[o] = 1
<1> USE DEF TypeOK, HandlerTypeOK, Continue, Carry, Return, Becomes,
            OnlyHandlers
<1>1. CASE Leave(o, r)
  BY <1>1 DEF Leave, Fail, Reply, LateSteps
<1>2. CASE SubmitEscrowPsbt(o, r)
  BY <1>2 DEF SubmitEscrowPsbt, LateSteps
<1>3. CASE ConfirmObligation(o, r) \/ RequestEscrow(o, r)
  BY <1>3 DEF ConfirmObligation, RequestEscrow, MayProceed
<1>4. CASE PollFinalPayout(o, r)
  <2>1. BothHappy(o) => escrow_psbt_is_confirmed[o] = 1
    BY DEF SettlementNeedsConfirmation, SettlementBegun, BothHappy, Roles
  <2>2. ~AwaitingTraders(o) /\ ~BothHappy(o)
          => escrow_psbt_is_confirmed[o] = 1
    BY DEF SettlementNeedsConfirmation, SettlementBegun, AwaitingTraders,
           TableTypeOK
  <2>3. QED
    BY <1>4, <2>1, <2>2 DEF PollFinalPayout, LateSteps
<1>5. CASE SubmitPayoutSignature(o, r)
  BY <1>5 DEF SubmitPayoutSignature, MaySubmitSignature, MayProceed
<1>6. QED
  BY <1>1, <1>2, <1>3, <1>4, <1>5 DEF Call

(* The cases of the command line are open disputes. *)
LEMMA CasesStep ==
  ASSUME TypeOK, CasesSound, SettlementNeedsConfirmation, [Next]_vars
  PROVE  CasesSound'
<1> USE DEF TypeOK, TableTypeOK, TaskTypeOK
<1>1. \A o \in Offers : escrow_psbt_is_confirmed[o] = 1
                          => escrow_psbt_is_confirmed'[o] = 1
  BY FlagChange
<1>2. ASSUME NEW u \in Offers, NEW r \in Robots,
             Call(u, r) \/ HandlerStep(u, r) \/ Leave(u, r)
      PROVE  CasesSound'
  <2>1. cases' = cases
    BY <1>2, CallStep
    DEF HandlerStep, StoreEscrowPsbt, FetchBothEscrowPsbts, BroadcastEscrow,
        SetHappy, SetUnhappy, SetOngoing, FetchPayout, ToggleBeforeAssembly,
        AssemblePayout, InsertPayout, ToggleAfterAssembly, FetchWinner,
        StorePartialSig, AggregateSigs, BroadcastPayout, DeleteOffer,
        OnlyHandlers, OnlyTable, OnlyChain, taskVars
  <2>2. /\ taken' \subseteq taken
        /\ \A o \in taken : escrow_ongoing[o] = 1 => escrow_ongoing'[o] = 1
    <3>1. CASE SetOngoing(u, r)
      BY <3>1 DEF SetOngoing, SetEscrowOngoing, UpdateRow
    <3>2. CASE DeleteOffer(u, r)
      BY <3>2 DEF DeleteOffer, DeleteCompleteOffer
    <3>3. CASE ~SetOngoing(u, r) /\ ~DeleteOffer(u, r)
      <4>1. UNCHANGED <<taken, escrow_ongoing>>
        BY <1>2, <3>3, CallStep
        DEF OnlyHandlers, OnlyTable, OnlyChain, tableVars,
        InsertSignedEscrowPsbt, SetTraderHappyField, InsertPayoutPsbt,
        InsertPartialSig, ToggleProcessing,
        HandlerStep, StoreEscrowPsbt,
      FetchBothEscrowPsbts, BroadcastEscrow, SetHappy, SetUnhappy, SetOngoing,
      FetchPayout, ToggleBeforeAssembly, AssemblePayout, InsertPayout,
      ToggleAfterAssembly, FetchWinner, StorePartialSig, AggregateSigs,
      BroadcastPayout, DeleteOffer
      <4>2. QED BY <4>1
    <3>4. QED BY <3>1, <3>2, <3>3
  <2>3. QED
    BY <1>1, <2>1, <2>2 DEF CasesSound
<1>3. CASE CliFetch
  BY <1>3
  DEF CliFetch, OpenEscrows, CasesSound, SettlementNeedsConfirmation,
      SettlementBegun, tableVars
<1>4. ASSUME NEW u \in Offers, CliDecide(u) PROVE CasesSound'
  BY <1>4
  DEF CliDecide, ResolveEscrow, UpdateRow, CasesSound
<1>5. CASE \/ Monitor \/ MonitorQueryFails \/ Restart \/ Environment
           \/ (\E u \in Offers : CliInputFails(u)) \/ UNCHANGED vars
  <2>1. cases' \subseteq cases /\ UNCHANGED <<taken, escrow_ongoing>>
    BY <1>5
    DEF Monitor, MonitorFetch, MonitorQuery, MonitorConfirm, SetConfirmed,
        MonitorQueryFails, CliInputFails, Restart, Environment, vars,
        tableVars, taskVars
  <2>2. QED
    BY <1>1, <2>1 DEF CasesSound
<1>6. QED
  BY <1>2, <1>3, <1>4, <1>5 DEF Next, Cli

(* Late handlers, and everything they leave on record, belong to a confirmed
   escrow. *)
LEMMA LateStep ==
  ASSUME TypeOK, LateHandlersSound, CasesSound, SettlementNeedsConfirmation,
         [Next]_vars
  PROVE  LateHandlersSound' /\ SettlementNeedsConfirmation'
<1> DEFINE confirmed(o) == escrow_psbt_is_confirmed[o] = 1
<1> SUFFICES ASSUME NEW o \in Offers
             PROVE  /\ \A q \in Robots : pc'[o][q] \in LateSteps => confirmed(o)
                    /\ SettlementBegun(o)' => confirmed(o)
  BY FlagChange DEF LateHandlersSound, SettlementNeedsConfirmation
<1>1. /\ \A q \in Robots : pc[o][q] \in LateSteps => confirmed(o)
      /\ SettlementBegun(o) => confirmed(o)
  BY DEF LateHandlersSound, SettlementNeedsConfirmation
<1>2. ASSUME /\ \/ confirmed(o)
                \/ UNCHANGED <<happy[o], escrow_ongoing[o], escrow_winner[o],
                               payout_psbt[o], partial_sig[o]>>
             /\ \A q \in Robots : answer'[o][q] \in {answer[o][q], "closed"}
      PROVE  SettlementBegun(o)' => confirmed(o)
  BY <1>1, <1>2, SettlementAssumption DEF SettlementBegun
<1>3. ASSUME NEW u \in Offers, NEW r \in Robots, Call(u, r) \/ Leave(u, r)
      PROVE  /\ \A q \in Robots : pc'[o][q] \in LateSteps => confirmed(o)
             /\ SettlementBegun(o)' => confirmed(o)
  <2>1. UNCHANGED tableVars
    BY <1>3, CallStep
  <2>2. \A q \in Robots : answer'[o][q] \in {answer[o][q], "closed"}
    BY <1>3, CallStep, OwnSlot
  <2>3. \A q \in Robots : pc'[o][q] \in LateSteps => confirmed(o)
    BY <1>1, <1>3, CallStep, OwnSlot
  <2>4. QED
    BY <1>2, <2>1, <2>2, <2>3 DEF tableVars
<1>4. ASSUME NEW u \in Offers, NEW r \in Robots, HandlerStep(u, r)
      PROVE  /\ \A q \in Robots : pc'[o][q] \in LateSteps => confirmed(o)
             /\ SettlementBegun(o)' => confirmed(o)
  <2>1. CASE confirmed(o)
    BY <2>1
  <2>2. CASE u = o /\ ~confirmed(o)
    <3>1. pc[o][r] \notin LateSteps
      BY <1>1, <2>2
    <3>2. /\ UNCHANGED <<happy, escrow_ongoing, escrow_winner, payout_psbt,
                         partial_sig>>
          /\ answer'[o][r] \in {answer[o][r], "closed"}
          /\ pc'[o][r] \notin LateSteps
      BY <1>4, <2>2, <3>1, EarlyHandler
    <3>3. \A q \in Robots : q # r => answer'[o][q] = answer[o][q]
                                    /\ pc'[o][q] = pc[o][q]
      BY <1>4, <2>2, OwnSlot
    <3>4. QED
      BY <1>1, <1>2, <3>2, <3>3
  <2>3. CASE u # o
    <3>1. \A q \in Robots : answer'[o][q] = answer[o][q]
                            /\ pc'[o][q] = pc[o][q]
      BY <1>4, <2>3, OwnSlot
    <3>2. UNCHANGED <<happy[o], escrow_ongoing[o], escrow_winner[o],
                      payout_psbt[o], partial_sig[o]>>
      BY <1>4, <2>3, OwnRow
    <3>3. QED
      BY <1>1, <1>2, <3>1, <3>2
  <2>4. QED BY <2>1, <2>2, <2>3
<1>5. CASE \/ Monitor \/ MonitorQueryFails \/ Cli
           \/ (\E u \in Offers : CliInputFails(u))
           \/ Restart \/ Environment \/ UNCHANGED vars
  <2>1. /\ \A q \in Robots : pc'[o][q] \in LateSteps => confirmed(o)
        /\ \A q \in Robots : answer'[o][q] \in {answer[o][q], "closed"}
    BY <1>1, <1>5, TaskSlots DEF LateSteps
  <2>2. UNCHANGED <<happy, payout_psbt, partial_sig>>
    BY <1>5, TaskColumns
  <2>3. \/ confirmed(o)
        \/ UNCHANGED <<escrow_ongoing[o], escrow_winner[o]>>
    <3>1. ASSUME NEW u \in Offers, CliDecide(u)
          PROVE  \/ confirmed(o)
                 \/ UNCHANGED <<escrow_ongoing[o], escrow_winner[o]>>
      BY <3>1
      DEF CliDecide, ResolveEscrow, UpdateRow, CasesSound, TypeOK, TableTypeOK
    <3>2. CASE \/ Monitor \/ MonitorQueryFails \/ CliFetch \/ Restart
               \/ Environment \/ (\E u \in Offers : CliInputFails(u))
               \/ UNCHANGED vars
      BY <3>2
      DEF Monitor, MonitorFetch, MonitorQuery, MonitorConfirm, SetConfirmed,
          MonitorQueryFails, CliFetch, CliInputFails, Restart, Environment,
          vars, tableVars
    <3>3. QED BY <1>5, <3>1, <3>2 DEF Cli
  <2>4. QED
    BY <1>2, <2>1, <2>2, <2>3
<1>6. QED
  BY <1>3, <1>4, <1>5 DEF Next

(* The robots that may sign for a role: there is one for each. *)
LEMMA OneSignerPerRole ==
  ASSUME NEW o \in Offers,
         NEW r \in {MakerOf[o], TakerOf[o]}, NEW q \in {MakerOf[o], TakerOf[o]},
         RoleOf(o, r) = RoleOf(o, q)
  PROVE  r = q
BY DEF RoleOf

(* The signatures of an offer that is being paid, or is paid, never change,
   and the row goes only after the payment. *)
LEMMA SignStep ==
  ASSUME TypeOK, SignaturesSound, PayoutAuthorised, RowKeptUntilPaid,
         [Next]_vars
  PROVE  SignaturesSound' /\ PayoutAuthorised' /\ RowKeptUntilPaid'
<1> DEFINE Good(o) ==
      /\ \A r \in Robots : SignerSound(o, r) /\ PayerSound(o, r)
      /\ spent_by[o] # NULL =>
           \A role \in Roles : partial_sig[o][role] = spent_by[o]
      /\ o \notin taken => spent_by[o] # NULL
<1> SUFFICES ASSUME NEW o \in Offers PROVE Good(o)'
  BY DEF SignaturesSound, PayoutAuthorised, RowKeptUntilPaid
<1>1. Good(o)
  BY DEF SignaturesSound, PayoutAuthorised, RowKeptUntilPaid
<1>2. ASSUME UNCHANGED <<partial_sig[o], spent_by[o]>>,
             o \in taken' <=> o \in taken,
             \A q \in Robots : \/ pc'[o][q] = pc[o][q] /\ held'[o][q] = held[o][q]
                              \/ pc'[o][q] \notin {"store_sig",
                                       "broadcast_payout", "delete"}
      PROVE  Good(o)'
  BY <1>1, <1>2 DEF SignerSound, PayerSound, At
<1>kept. ASSUME NEW q \in Robots, UNCHANGED <<partial_sig[o], spent_by[o]>>,
                pc'[o][q] = pc[o][q], held'[o][q] = held[o][q]
         PROVE  SignerSound(o, q)' /\ PayerSound(o, q)'
  BY <1>1, <1>kept DEF SignerSound, PayerSound, At, RoleOf
<1>away. ASSUME NEW q \in Robots,
                pc'[o][q] \notin {"store_sig", "broadcast_payout", "delete"}
         PROVE  SignerSound(o, q)' /\ PayerSound(o, q)'
  BY <1>away DEF SignerSound, PayerSound, At
<1>3. CASE \/ Monitor \/ MonitorQueryFails \/ Cli
           \/ (\E u \in Offers : CliInputFails(u))
           \/ Restart \/ Environment \/ UNCHANGED vars
  BY <1>2, <1>3, TaskSlots, TaskColumns
<1>4. ASSUME NEW u \in Offers, NEW r \in Robots, u # o,
             Call(u, r) \/ HandlerStep(u, r) \/ Leave(u, r)
      PROVE  Good(o)'
  <2>1. \A q \in Robots : pc'[o][q] = pc[o][q] /\ held'[o][q] = held[o][q]
    BY <1>4, OwnSlot
  <2>2. UNCHANGED <<partial_sig[o], spent_by[o]>> /\ (o \in taken' <=> o \in taken)
    BY <1>4, OwnRow
    DEF Call, Leave, SubmitEscrowPsbt, ConfirmObligation, RequestEscrow,
        PollFinalPayout, SubmitPayoutSignature, OnlyHandlers, tableVars,
        chainVars
  <2>3. QED BY <1>2, <2>1, <2>2
<1>5. ASSUME NEW r \in Robots,
             Call(o, r) \/ HandlerStep(o, r) \/ Leave(o, r)
      PROVE  Good(o)'
  <2>1. \A q \in Robots : q # r =>
           pc'[o][q] = pc[o][q] /\ held'[o][q] = held[o][q]
    BY <1>5, OwnSlot
  <2> USE DEF TypeOK, HandlerTypeOK, TableTypeOK, ChainTypeOK
  <2>2. CASE SubmitPayoutSignature(o, r)
    <3>1. /\ UNCHANGED <<partial_sig[o], spent_by[o], taken>>
          /\ pc'[o][r] = "store_sig" /\ held'[o][r] = answer[o][r]
          /\ r \in {MakerOf[o], TakerOf[o]}
          /\ answer[o][r] \in Payouts
          /\ partial_sig[o][RoleOf(o, r)] = NULL
      BY <2>2
      DEF SubmitPayoutSignature, MaySubmitSignature, MayProceed, IsParty,
          Carry, Becomes, OnlyHandlers, tableVars, chainVars
    <3>2. SignerSound(o, r)' /\ PayerSound(o, r)'
      BY <3>1 DEF SignerSound, PayerSound, At, RoleOf
    <3>3. \A q \in Robots : SignerSound(o, q)' /\ PayerSound(o, q)'
      BY <1>kept, <2>1, <3>1, <3>2
    <3>4. QED
      BY <1>1, <3>1, <3>3
  <2>3. CASE StorePartialSig(o, r)
    <3> DEFINE role == RoleOf(o, r)
    <3>1. /\ At(o, r, "store_sig")
          /\ partial_sig' = UpdateRole(partial_sig, o, role, held[o][r])
          /\ UNCHANGED <<taken, spent_by>>
          /\ pc'[o][r] = "aggregate"
      BY <2>3
      DEF StorePartialSig, InsertPartialSig, Continue, Becomes, OnlyTable,
          chainVars
    <3>2. /\ r \in {MakerOf[o], TakerOf[o]}
          /\ partial_sig[o][role] = NULL
          /\ role \in Roles
      BY <1>1, <3>1, RoleOfType DEF SignerSound
    <3>3. spent_by[o] = NULL
      BY <1>1, <3>2
    <3>4. \A q \in Robots : ~At(o, q, "broadcast_payout") /\ ~At(o, q, "delete")
      BY <1>1, <3>2, <3>3, TradeIdsAssumption DEF PayerSound
    <3>5. ASSUME NEW q \in Robots, q # r, At(o, q, "store_sig")
          PROVE  partial_sig'[o][RoleOf(o, q)] = NULL
      <4>1. RoleOf(o, q) # role /\ partial_sig[o][RoleOf(o, q)] = NULL
        BY <1>1, <3>2, <3>5, OneSignerPerRole DEF SignerSound
      <4>2. QED
        BY <3>1, <4>1 DEF UpdateRole
    <3>6. SignerSound(o, r)' /\ PayerSound(o, r)'
      BY <1>away, <3>1
    <3>7. ASSUME NEW q \in Robots, q # r
          PROVE  SignerSound(o, q)' /\ PayerSound(o, q)'
      <4>1. pc'[o][q] = pc[o][q] /\ held'[o][q] = held[o][q]
        BY <2>1, <3>7
      <4>2. PayerSound(o, q)'
        BY <3>4, <4>1 DEF PayerSound, At
      <4>3. SignerSound(o, q)'
        BY <1>1, <3>5, <3>7, <4>1 DEF SignerSound, At, RoleOf
      <4>4. QED BY <4>2, <4>3
    <3>8. QED
      BY <1>1, <3>1, <3>3, <3>6, <3>7
  <2>4. CASE AggregateSigs(o, r)
    <3>1. UNCHANGED <<partial_sig, spent_by, taken>>
      BY <2>4 DEF AggregateSigs, OnlyHandlers, tableVars, chainVars
    <3>2. \/ pc'[o][r] = "idle"
          \/ /\ pc'[o][r] = "broadcast_payout"
             /\ held'[o][r] = payout_psbt[o]
             /\ ValidAggregate(o)
      BY <2>4
      DEF AggregateSigs, Fail, Reply, Return, Continue, Carry, Becomes
    <3>3. ValidAggregate(o) => payout_psbt[o] \in Payouts
      BY DEF ValidAggregate
    <3>4. SignerSound(o, r)' /\ PayerSound(o, r)'
      <4>1. CASE pc'[o][r] = "idle"
        BY <1>away, <4>1
      <4>2. CASE /\ pc'[o][r] = "broadcast_payout"
                 /\ held'[o][r] = payout_psbt[o]
                 /\ ValidAggregate(o)
        BY <3>1, <3>3, <4>2 DEF ValidAggregate, SignerSound, PayerSound, At
      <4>3. QED BY <3>2, <4>1, <4>2
    <3>5. \A q \in Robots : SignerSound(o, q)' /\ PayerSound(o, q)'
      BY <1>kept, <2>1, <3>1, <3>4
    <3>6. QED
      BY <1>1, <3>1, <3>5
  <2>5. CASE BroadcastPayout(o, r)
    <3>1. CASE pc'[o][r] = "delete"
      <4>1. /\ At(o, r, "broadcast_payout")
            /\ spent_by' = [spent_by EXCEPT ![o] = held[o][r]]
            /\ UNCHANGED <<partial_sig, taken>>
        BY <2>5, <3>1
        DEF BroadcastPayout, BroadcastPayoutTx, Fail, Reply, Becomes,
            OnlyChain, tableVars
      <4>2. /\ held[o][r] \in Payouts
            /\ \A role \in Roles : partial_sig[o][role] = held[o][r]
        BY <1>1, <4>1 DEF PayerSound
      <4>3. spent_by'[o] # NULL /\ spent_by'[o] = held[o][r]
        BY <4>1, <4>2, TradeIdsAssumption
      <4>4. ASSUME NEW q \in Robots
            PROVE  SignerSound(o, q)' /\ PayerSound(o, q)'
        <5>1. CASE q = r
          BY <3>1, <4>3, <5>1 DEF SignerSound, PayerSound, At
        <5>2. CASE q # r
          <6>1. pc'[o][q] = pc[o][q] /\ held'[o][q] = held[o][q]
            BY <2>1, <5>2
          <6>2. QED
            BY <1>1, <4>1, <4>3, <6>1 DEF SignerSound, PayerSound, At, RoleOf
        <5>3. QED BY <5>1, <5>2
      <4>5. QED
        BY <1>1, <4>1, <4>2, <4>3, <4>4
    <3>2. CASE pc'[o][r] # "delete"
      <4>1. UNCHANGED <<partial_sig, spent_by, taken>> /\ pc'[o][r] = "idle"
        BY <2>5, <3>2
        DEF BroadcastPayout, Continue, Fail, Reply, Becomes, OnlyChain,
            tableVars, chainVars
      <4>2. QED BY <1>2, <2>1, <4>1
    <3>3. QED BY <3>1, <3>2
  <2>6. CASE DeleteOffer(o, r)
    <3>1. /\ At(o, r, "delete") /\ UNCHANGED <<partial_sig, spent_by>>
          /\ pc'[o][r] = "idle"
      BY <2>6
      DEF DeleteOffer, DeleteCompleteOffer, Return, Continue, Becomes,
          OnlyTable, chainVars
    <3>2. spent_by[o] # NULL
      BY <1>1, <3>1 DEF PayerSound
    <3>3. \A q \in Robots : SignerSound(o, q)' /\ PayerSound(o, q)'
      BY <1>kept, <1>away, <2>1, <3>1
    <3>4. QED
      BY <1>1, <3>1, <3>2, <3>3
  <2>7. CASE \/ FetchPayout(o, r) \/ ToggleBeforeAssembly(o, r)
             \/ AssemblePayout(o, r) \/ InsertPayout(o, r)
             \/ ToggleAfterAssembly(o, r) \/ FetchWinner(o, r)
    <3>1. UNCHANGED <<partial_sig, spent_by, taken>>
      BY <2>7
      DEF FetchPayout, ToggleBeforeAssembly, AssemblePayout, InsertPayout,
          ToggleAfterAssembly, FetchWinner, ToggleProcessing,
          InsertPayoutPsbt, OnlyHandlers, OnlyTable, tableVars, chainVars
    <3>2. pc'[o][r] \in {"idle", "toggle", "assemble", "insert_payout",
                        "release"}
      BY <2>7
      DEF FetchPayout, ToggleBeforeAssembly, AssemblePayout, InsertPayout,
          ToggleAfterAssembly, FetchWinner, Fail, Reply, Return, Continue,
          Carry, Becomes
    <3>3. QED BY <1>2, <2>1, <3>1, <3>2
  <2>8. CASE \/ StoreEscrowPsbt(o, r) \/ FetchBothEscrowPsbts(o, r)
             \/ BroadcastEscrow(o, r) \/ SetHappy(o, r)
             \/ SetUnhappy(o, r) \/ SetOngoing(o, r)
    <3>1. UNCHANGED <<partial_sig, spent_by, taken>>
      BY <2>8
      DEF StoreEscrowPsbt, FetchBothEscrowPsbts, BroadcastEscrow, SetHappy,
          SetUnhappy, SetOngoing, InsertSignedEscrowPsbt, BroadcastEscrowTx,
          SetTraderHappyField, SetEscrowOngoing, OnlyHandlers, OnlyTable,
          OnlyChain, tableVars, chainVars
    <3>2. pc'[o][r] \in {"idle", "fetch_both_psbts", "broadcast_escrow",
                        "set_ongoing"}
      <4>1. \E step \in {"idle", "fetch_both_psbts", "broadcast_escrow",
                         "set_ongoing"} : Becomes(o, r, step, NULL)
        BY <2>8
        DEF StoreEscrowPsbt, FetchBothEscrowPsbts, BroadcastEscrow, SetHappy,
            SetUnhappy, SetOngoing, Fail, Reply, Return, Continue
      <4>2. QED BY <4>1 DEF Becomes
    <3>3. QED BY <1>2, <2>1, <3>1, <3>2
  <2>9. CASE \/ SubmitEscrowPsbt(o, r) \/ ConfirmObligation(o, r)
             \/ RequestEscrow(o, r) \/ PollFinalPayout(o, r) \/ Leave(o, r)
    <3>1. UNCHANGED <<partial_sig, spent_by, taken>>
      BY <2>9
      DEF SubmitEscrowPsbt, ConfirmObligation, RequestEscrow,
          PollFinalPayout, Leave, OnlyHandlers, tableVars, chainVars
    <3>2. pc'[o][r] \in {"idle", "store_escrow_psbt", "set_happy",
                        "set_unhappy", "fetch_payout", "fetch_winner"}
      BY <2>9
      DEF SubmitEscrowPsbt, ConfirmObligation, RequestEscrow,
          PollFinalPayout, Leave, Fail, Reply, Return, Continue, Becomes
    <3>3. QED BY <1>2, <2>1, <3>1, <3>2
  <2>10. QED
    BY <1>5, <2>2, <2>3, <2>4, <2>5, <2>6, <2>7, <2>8, <2>9
    DEF Call, HandlerStep
<1>6. QED
  BY <1>3, <1>4, <1>5 DEF Next

-----------------------------------------------------------------------------
(* What is signed gets used: who may be at work on it, and that who left
   without finishing left with a failed call. *)

(* The steps of the handler (o, r) that are for traders only are a trader's,
   and an ended program makes no more of them. *)
LEMMA OwnTraderStep ==
  ASSUME TypeOK, TradersSound, NEW o \in Offers, NEW r \in Robots,
         Call(o, r) \/ HandlerStep(o, r) \/ Leave(o, r)
  PROVE  /\ pc'[o][r] \in TraderSteps => r \in {MakerOf[o], TakerOf[o]}
         /\ answer'[o][r] = "closed" => At(o, r, "idle")'
         /\ answer[o][r] = "closed" => answer'[o][r] = "closed"
<1> USE DEF TypeOK, HandlerTypeOK, TradersSound, At, Fail, Reply, Return,
            Continue, Carry, Becomes
<1>1. "closed" \notin Payouts \cup {NULL}
  BY SettlementAssumption
<1>2. CASE SubmitEscrowPsbt(o, r) \/ SubmitPayoutSignature(o, r)
  BY <1>1, <1>2
  DEF SubmitEscrowPsbt, SubmitPayoutSignature, CanCall, MaySubmitEscrowPsbt,
      MaySubmitSignature, MayProceed, IsParty
<1>3. CASE ConfirmObligation(o, r) \/ RequestEscrow(o, r)
  BY <1>3 DEF ConfirmObligation, RequestEscrow, CanCall, TraderSteps
<1>4. CASE PollFinalPayout(o, r)
  BY <1>1, <1>4 DEF PollFinalPayout, TraderSteps
<1>5. CASE Leave(o, r)
  BY <1>5 DEF Leave, TraderSteps
<1>6. CASE \/ StoreEscrowPsbt(o, r) \/ FetchBothEscrowPsbts(o, r)
           \/ BroadcastEscrow(o, r) \/ StorePartialSig(o, r)
           \/ AggregateSigs(o, r) \/ BroadcastPayout(o, r)
  <2>1. pc[o][r] \in TraderSteps /\ pc[o][r] # "idle"
    BY <1>6
    DEF StoreEscrowPsbt, FetchBothEscrowPsbts, BroadcastEscrow,
        StorePartialSig, AggregateSigs, BroadcastPayout, TraderSteps
  <2>2. r \in {MakerOf[o], TakerOf[o]} /\ answer[o][r] # "closed"
    BY <2>1
  <2>3. answer'[o][r] = answer[o][r] \/ pc'[o][r] = "idle"
    BY <1>6
    DEF StoreEscrowPsbt, FetchBothEscrowPsbts, BroadcastEscrow,
        StorePartialSig, AggregateSigs, BroadcastPayout
  <2>4. QED BY <2>2, <2>3
<1>7. CASE \/ SetHappy(o, r) \/ SetUnhappy(o, r) \/ SetOngoing(o, r)
           \/ FetchPayout(o, r) \/ ToggleBeforeAssembly(o, r)
           \/ AssemblePayout(o, r) \/ InsertPayout(o, r)
           \/ ToggleAfterAssembly(o, r) \/ FetchWinner(o, r)
           \/ DeleteOffer(o, r)
  <2>1. pc[o][r] # "idle"
    BY <1>7
    DEF SetHappy, SetUnhappy, SetOngoing, FetchPayout, ToggleBeforeAssembly,
        AssemblePayout, InsertPayout, ToggleAfterAssembly, FetchWinner,
        DeleteOffer
  <2>2. answer[o][r] # "closed"
    BY <2>1
  <2>3. \E step \in {"idle", "set_ongoing", "toggle", "assemble",
                      "insert_payout", "release"} : \E psbt :
          Becomes(o, r, step, psbt) /\ (UNCHANGED answer \/ step = "idle")
    BY <1>7
    DEF SetHappy, SetUnhappy, SetOngoing, FetchPayout, ToggleBeforeAssembly,
        AssemblePayout, InsertPayout, ToggleAfterAssembly, FetchWinner,
        DeleteOffer
  <2>4. QED BY <2>2, <2>3 DEF TraderSteps
<1>8. QED
  BY <1>2, <1>3, <1>4, <1>5, <1>6, <1>7 DEF Call, HandlerStep

(* The tasks and the chain leave a handler where it is; a restart ends it with
   a failed call. *)
LEMMA TaskOrRestart ==
  ASSUME TypeOK,
         \/ Monitor \/ MonitorQueryFails \/ Cli
         \/ \E o \in Offers : CliInputFails(o)
         \/ Restart \/ Environment \/ UNCHANGED vars,
         NEW u \in Offers, NEW q \in Robots
  PROVE  \/ pc'[u][q] = pc[u][q] /\ answer'[u][q] = answer[u][q]
         \/ pc'[u][q] = "idle" /\ answer'[u][q] = "closed"
<1> USE DEF TypeOK, HandlerTypeOK
<1>1. CASE Restart
  BY <1>1 DEF Restart, At
<1>2. CASE \/ Monitor \/ MonitorQueryFails \/ Cli
           \/ (\E o \in Offers : CliInputFails(o))
           \/ Environment \/ UNCHANGED vars
  BY <1>2
  DEF Monitor, MonitorFetch, MonitorQuery, MonitorConfirm, MonitorQueryFails,
      Cli, CliFetch, CliDecide, CliInputFails, Environment, handlerVars, vars
<1>3. QED BY <1>1, <1>2

(* Programs that ended stay ended. *)
LEMMA TradersStep ==
  ASSUME TypeOK, TradersSound, [Next]_vars
  PROVE  TradersSound' /\ \A o \in Offers : Gone(o) => Gone(o)'
<1>1. ASSUME NEW o \in Offers, NEW r \in Robots
      PROVE  /\ pc'[o][r] \in TraderSteps => r \in {MakerOf[o], TakerOf[o]}
             /\ answer'[o][r] = "closed" => At(o, r, "idle")'
             /\ answer[o][r] = "closed" => answer'[o][r] = "closed"
  <2>1. ASSUME NEW u \in Offers, NEW q \in Robots,
               Call(u, q) \/ HandlerStep(u, q) \/ Leave(u, q)
        PROVE  /\ pc'[o][r] \in TraderSteps => r \in {MakerOf[o], TakerOf[o]}
               /\ answer'[o][r] = "closed" => At(o, r, "idle")'
               /\ answer[o][r] = "closed" => answer'[o][r] = "closed"
    <3>1. CASE u = o /\ q = r
      BY <2>1, <3>1, OwnTraderStep
    <3>2. CASE u # o \/ q # r
      BY <2>1, <3>2, OwnSlot DEF TradersSound, At
    <3>3. QED BY <3>1, <3>2
  <2>2. CASE \/ Monitor \/ MonitorQueryFails \/ Cli
             \/ (\E u \in Offers : CliInputFails(u))
             \/ Restart \/ Environment \/ UNCHANGED vars
    BY <2>2, TaskOrRestart DEF TradersSound, At, TraderSteps
  <2>3. QED BY <2>1, <2>2 DEF Next
<1>2. \A o \in Offers : {MakerOf[o], TakerOf[o]} \subseteq Robots
  BY TakenOffersAssumption
<1>3. QED
  BY <1>1, <1>2 DEF TradersSound, Gone

(* Who leaves the lock of an escrow while both psbts are there has broadcast it
   or has failed. *)
LEMMA LockLeft ==
  ASSUME TypeOK, TradersSound, [Next]_vars, NEW o \in Offers,
         BothEscrowPsbtsSigned(o), Locking(o)
  PROVE  Locking(o)' \/ depth'[o] # Unknown \/ Gone(o)'
<1>1. PICK r \in Robots : pc[o][r] \in {"fetch_both_psbts", "broadcast_escrow"}
  BY DEF Locking
<1>2. r \in {MakerOf[o], TakerOf[o]}
  BY <1>1 DEF TradersSound, TraderSteps
<1>3. ASSUME NEW u \in Offers, NEW q \in Robots,
             Call(u, q) \/ HandlerStep(u, q) \/ Leave(u, q)
      PROVE  Locking(o)' \/ depth'[o] # Unknown \/ Gone(o)'
  <2>1. CASE u # o \/ q # r
    BY <1>1, <1>3, <2>1, OwnSlot DEF Locking
  <2>2. CASE u = o /\ q = r
    <3> USE DEF TypeOK, HandlerTypeOK, ChainTypeOK, Fail, Reply, Return,
                Continue, Becomes
    <3>1. CASE FetchBothEscrowPsbts(o, r)
      <4>1. pc'[o][r] = "broadcast_escrow" \/ answer'[o][r] = "closed"
        BY <3>1 DEF FetchBothEscrowPsbts, ReadyToLock
      <4>2. QED BY <1>2, <4>1 DEF Locking, Gone
    <3>2. CASE BroadcastEscrow(o, r)
      <4>1. depth'[o] # Unknown \/ answer'[o][r] = "closed"
        BY <3>2 DEF BroadcastEscrow, BroadcastEscrowTx, Unknown
      <4>2. QED BY <1>2, <4>1 DEF Gone
    <3>3. CASE Leave(o, r)
      BY <1>2, <3>3 DEF Leave, Gone
    <3>4. QED
      BY <1>1, <1>3, <2>2, <3>1, <3>2, <3>3
      DEF At, CanCall, Call, HandlerStep, SubmitEscrowPsbt,
          ConfirmObligation, RequestEscrow, PollFinalPayout,
          SubmitPayoutSignature, StoreEscrowPsbt, SetHappy, SetUnhappy,
          SetOngoing, FetchPayout, ToggleBeforeAssembly, AssemblePayout,
          InsertPayout, ToggleAfterAssembly, FetchWinner, StorePartialSig,
          AggregateSigs, BroadcastPayout, DeleteOffer
  <2>3. QED BY <2>1, <2>2
<1>4. CASE \/ Monitor \/ MonitorQueryFails \/ Cli
           \/ (\E u \in Offers : CliInputFails(u))
           \/ Restart \/ Environment \/ UNCHANGED vars
  BY <1>1, <1>2, <1>4, TaskOrRestart DEF Locking, Gone
<1>5. QED BY <1>3, <1>4 DEF Next

(* Who stores the second psbt goes on to look for both. *)
LEMMA LockBegins ==
  ASSUME TypeOK, [Next]_vars, NEW o \in Offers,
         ~BothEscrowPsbtsSigned(o), BothEscrowPsbtsSigned(o)'
  PROVE  Locking(o)'
<1> USE DEF TypeOK, TableTypeOK, HandlerTypeOK
<1>1. ASSUME NEW u \in Offers, NEW q \in Robots, StoreEscrowPsbt(u, q)
      PROVE  Locking(o)'
  <2>1. /\ pc'[u][q] = "fetch_both_psbts"
        /\ u # o => signed_escrow_psbt'[o] = signed_escrow_psbt[o]
    BY <1>1 DEF StoreEscrowPsbt, InsertSignedEscrowPsbt, UpdateRole, Continue,
                Becomes
  <2>2. QED BY <2>1 DEF Locking, BothEscrowPsbtsSigned
<1>2. ASSUME NEW u \in Offers, NEW q \in Robots,
             Call(u, q) \/ HandlerStep(u, q) \/ Leave(u, q),
             ~StoreEscrowPsbt(u, q)
      PROVE  UNCHANGED signed_escrow_psbt
  BY <1>2
  DEF OnlyHandlers, OnlyTable, OnlyChain, tableVars, SetTraderHappyField,
      SetEscrowOngoing, InsertPayoutPsbt, InsertPartialSig, ToggleProcessing,
      DeleteCompleteOffer, Call, HandlerStep, Leave, SubmitEscrowPsbt,
      ConfirmObligation, RequestEscrow, PollFinalPayout,
      SubmitPayoutSignature, FetchBothEscrowPsbts, BroadcastEscrow, SetHappy,
      SetUnhappy, SetOngoing, FetchPayout, ToggleBeforeAssembly,
      AssemblePayout, InsertPayout, ToggleAfterAssembly, FetchWinner,
      StorePartialSig, AggregateSigs, BroadcastPayout, DeleteOffer
<1>3. QED
  BY <1>1, <1>2, TaskColumns DEF Next, BothEscrowPsbtsSigned

(* What is on its way to the payout gets there, or a trader sees a failure. *)
LEMMA UseStep ==
  ASSUME TypeOK, TradersSound, SignaturesSound, SignaturesAreUsed, [Next]_vars
  PROVE  SignaturesAreUsed'
<1> SUFFICES ASSUME NEW o \in Offers, BothPartialSigs(o)'
             PROVE  spent_by'[o] # NULL \/ Paying(o)' \/ Gone(o)'
  BY DEF SignaturesAreUsed
<1> DEFINE Used == spent_by'[o] # NULL \/ Paying(o)' \/ Gone(o)'
<1>1. \A r \in Robots : /\ SignerSound(o, r) /\ PayerSound(o, r)
                        /\ pc[o][r] \in {"aggregate", "broadcast_payout"}
                             => r \in {MakerOf[o], TakerOf[o]}
  BY DEF SignaturesSound, TradersSound, TraderSteps
<1>2. BothPartialSigs(o) => spent_by[o] # NULL \/ Paying(o) \/ Gone(o)
  BY DEF SignaturesAreUsed
<1>3. Gone(o) => Gone(o)'
  BY TradersStep
<1>4. CASE \/ Monitor \/ MonitorQueryFails \/ Cli
           \/ (\E u \in Offers : CliInputFails(u))
           \/ Restart \/ Environment \/ UNCHANGED vars
  <2>1. BothPartialSigs(o) /\ spent_by'[o] = spent_by[o]
    BY <1>4, TaskColumns DEF BothPartialSigs
  <2>2. Paying(o) => Paying(o)' \/ Gone(o)'
    BY <1>1, <1>4, TaskOrRestart DEF Paying, Gone
  <2>3. QED BY <1>2, <1>3, <2>1, <2>2
<1>5. ASSUME NEW u \in Offers, NEW r \in Robots, u # o,
             Call(u, r) \/ HandlerStep(u, r) \/ Leave(u, r)
      PROVE  Used
  <2>1. partial_sig'[o] = partial_sig[o] /\ spent_by'[o] = spent_by[o]
    BY <1>5, OwnRow
    DEF Call, Leave, SubmitEscrowPsbt, ConfirmObligation, RequestEscrow,
        PollFinalPayout, SubmitPayoutSignature, OnlyHandlers, tableVars,
        chainVars
  <2>2. Paying(o) => Paying(o)'
    BY <1>5, OwnSlot DEF Paying
  <2>3. QED BY <1>2, <1>3, <2>1, <2>2 DEF BothPartialSigs
<1>6. ASSUME NEW r \in Robots,
             Call(o, r) \/ HandlerStep(o, r) \/ Leave(o, r)
      PROVE  Used
  <2> USE DEF TypeOK, HandlerTypeOK, ChainTypeOK, Fail, Reply, Return,
              Continue, Carry, Becomes
  <2>1. CASE StorePartialSig(o, r)
    <3>1. pc'[o][r] = "aggregate"
      BY <2>1 DEF StorePartialSig
    <3>2. QED BY <3>1 DEF Paying
  <2>2. CASE AggregateSigs(o, r)
    <3>1. BothPartialSigs(o) /\ At(o, r, "aggregate")
      BY <2>2 DEF AggregateSigs, OnlyHandlers, tableVars, BothPartialSigs
    <3>2. pc'[o][r] = "broadcast_payout" \/ answer'[o][r] = "closed"
      BY <2>2, <3>1 DEF AggregateSigs
    <3>3. QED BY <1>1, <3>1, <3>2 DEF Paying, Gone, At
  <2>3. CASE BroadcastPayout(o, r)
    <3>1. At(o, r, "broadcast_payout")
      BY <2>3 DEF BroadcastPayout
    <3>2. spent_by'[o] = held[o][r] \/ answer'[o][r] = "closed"
      BY <2>3 DEF BroadcastPayout, BroadcastPayoutTx
    <3>3. QED
      BY <1>1, <3>1, <3>2, TradeIdsAssumption DEF PayerSound, Gone, At
  <2>4. CASE Leave(o, r)
    <3>1. UNCHANGED <<partial_sig, spent_by>> /\ answer'[o][r] = "closed"
      BY <2>4 DEF Leave, OnlyHandlers, tableVars, chainVars
    <3>2. \A q \in Robots : q # r => pc'[o][q] = pc[o][q]
      BY <2>4, OwnSlot
    <3>3. QED BY <1>1, <1>2, <1>3, <3>1, <3>2 DEF BothPartialSigs, Paying, Gone
  <2>5. CASE ~(\/ StorePartialSig(o, r) \/ AggregateSigs(o, r)
               \/ BroadcastPayout(o, r) \/ Leave(o, r))
    <3>1. UNCHANGED <<partial_sig, spent_by>>
      BY <1>6, <2>5
      DEF Call, HandlerStep, SubmitEscrowPsbt, ConfirmObligation,
          RequestEscrow, PollFinalPayout, SubmitPayoutSignature,
          StoreEscrowPsbt, FetchBothEscrowPsbts, BroadcastEscrow, SetHappy,
          SetUnhappy, SetOngoing, FetchPayout, ToggleBeforeAssembly,
          AssemblePayout, InsertPayout, ToggleAfterAssembly, FetchWinner,
          DeleteOffer, OnlyHandlers, OnlyTable, OnlyChain, tableVars,
          chainVars, InsertSignedEscrowPsbt, BroadcastEscrowTx,
          SetTraderHappyField, SetEscrowOngoing, ToggleProcessing,
          InsertPayoutPsbt, DeleteCompleteOffer
    <3>2. pc[o][r] \notin {"aggregate", "broadcast_payout"}
      BY <1>6, <2>5
      DEF At, CanCall, Call, HandlerStep, SubmitEscrowPsbt,
          ConfirmObligation, RequestEscrow, PollFinalPayout,
          SubmitPayoutSignature, StoreEscrowPsbt, FetchBothEscrowPsbts,
          BroadcastEscrow, SetHappy, SetUnhappy, SetOngoing, FetchPayout,
          ToggleBeforeAssembly, AssemblePayout, InsertPayout,
          ToggleAfterAssembly, FetchWinner, DeleteOffer
    <3>3. \A q \in Robots : q # r => pc'[o][q] = pc[o][q]
      BY <1>6, OwnSlot
    <3>4. QED BY <1>2, <1>3, <3>1, <3>2, <3>3 DEF BothPartialSigs, Paying
  <2>6. QED BY <2>1, <2>2, <2>3, <2>4, <2>5
<1>7. QED
  BY <1>4, <1>5, <1>6 DEF Next

-----------------------------------------------------------------------------
(* The steps of the parts together: IInv is inductive. *)
LEMMA IInvInit == Init => IInv
BY SettlementAssumption, TradeIdsAssumption, TakenOffersAssumption,
   ChainAssumption
DEF Init, TableInit, ChainInit, IInv, TypeOK, TableTypeOK, ChainTypeOK,
    HandlerTypeOK, TaskTypeOK, Answers, Steps, Roles, LateSteps, MonitorSound,
    LockerSound, EscrowLockedByBoth, LateHandlersSound, CasesSound,
    SettlementNeedsConfirmation, SettlementBegun, SignaturesSound,
    SignerSound, PayerSound, PayoutAuthorised, RowKeptUntilPaid, TradersSound,
    TraderSteps, SignaturesAreUsed, BothPartialSigs, At, Unknown

(* Each conjunct of IInv is kept by the lemma that argues for it. *)
LEMMA IInvStep == IInv /\ [Next]_vars => IInv'
<1> SUFFICES ASSUME IInv, [Next]_vars PROVE IInv'
  OBVIOUS
<1>1. /\ TypeOK /\ MonitorSound /\ LockerSound /\ EscrowLockedByBoth
      /\ LateHandlersSound /\ CasesSound /\ SettlementNeedsConfirmation
      /\ SignaturesSound /\ PayoutAuthorised /\ RowKeptUntilPaid
      /\ TradersSound /\ SignaturesAreUsed
  BY DEF IInv
<1>2. TypeOK'
  BY <1>1, TypeStep
<1>3. MonitorSound'
  BY <1>1, MonitorSoundStep
<1>4. LockerSound' /\ EscrowLockedByBoth'
  BY <1>1, LockStep
<1>5. CasesSound'
  BY <1>1, CasesStep
<1>6. LateHandlersSound' /\ SettlementNeedsConfirmation'
  BY <1>1, LateStep
<1>7. SignaturesSound' /\ PayoutAuthorised' /\ RowKeptUntilPaid'
  BY <1>1, SignStep
<1>8. TradersSound' /\ SignaturesAreUsed'
  BY <1>1, TradersStep, UseStep
<1>9. QED
  BY <1>2, <1>3, <1>4, <1>5, <1>6, <1>7, <1>8 DEF IInv

(* In every reachable state the handlers and the tasks of the coordinator know
   what IInv says of the steps they are at. *)
THEOREM Inductive == Spec => []IInv
BY IInvInit, IInvStep, PTL DEF Spec

(* handle_signed_escrow_psbt broadcasts the escrow transaction only when both
   traders' signed psbts are stored. *)
THEOREM LockedByBoth == Spec => []EscrowLockedByBoth
<1>1. IInv => EscrowLockedByBoth
  BY DEF IInv
<1>2. QED
  BY <1>1, Inductive, PTL

(* An escrow the monitor flagged as confirmed is buried deeper than any
   reorganisation reaches, however long the flag took to be written. *)
THEOREM ConfirmedStays == Spec => []ConfirmedIsFinal
<1>1. IInv => ConfirmedIsFinal
  <2> SUFFICES ASSUME IInv, NEW o \in Offers, escrow_psbt_is_confirmed[o] = 1
               PROVE  depth[o] > MaxReorg
    BY DEF ConfirmedIsFinal
  <2>1. depth[o] > MinConf
    BY DEF IInv, MonitorSound
  <2>2. depth[o] \in Int
    BY SettlementAssumption, ChainAssumption
    DEF IInv, TypeOK, ChainTypeOK, Unknown
  <2>3. QED
    BY <2>1, <2>2, SettlementAssumption, ChainAssumption
<1>2. QED
  BY <1>1, Inductive, PTL

(* No satisfaction, dispute, decision, payout or signature is on record
   before the escrow is confirmed. *)
THEOREM NothingBeforeConfirmation == Spec => []SettlementNeedsConfirmation
<1>1. IInv => SettlementNeedsConfirmation
  BY DEF IInv
<1>2. QED
  BY <1>1, Inductive, PTL

(* handle_payout_signature: what spends the escrow carries both signatures,
   and it is the transaction both traders signed. *)
THEOREM PaidWithBothSignatures == Spec => []PayoutAuthorised
<1>1. IInv => PayoutAuthorised
  BY DEF IInv
<1>2. QED
  BY <1>1, Inductive, PTL

(* delete_complete_offer comes after the broadcast of the payout. *)
THEOREM DeletedOncePaid == Spec => []RowKeptUntilPaid
<1>1. IInv => RowKeptUntilPaid
  BY DEF IInv
<1>2. QED
  BY <1>1, Inductive, PTL

(* resolve_escrow never records a winner for a trade that is not in dispute. *)
THEOREM DecisionsForOpenCases == Spec => DecidedWhileOpen
<1>1. ASSUME IInv, [Next]_vars, NEW o \in Offers,
             escrow_winner'[o] # escrow_winner[o]
      PROVE  escrow_ongoing[o] = 1
  <2>1. CASE \E u \in Offers : CliDecide(u)
    <3>1. PICK u \in Offers : CliDecide(u)
      BY <2>1
    <3>2. u = o /\ o \in taken /\ o \in cases
      BY <1>1, <3>1 DEF CliDecide, ResolveEscrow, UpdateRow, IInv, TypeOK,
                        TableTypeOK
    <3>3. QED
      BY <1>1, <3>2 DEF IInv, CasesSound
  <2>2. CASE ~\E u \in Offers : CliDecide(u)
    <3>1. escrow_winner' = escrow_winner
      <4>1. ASSUME NEW u \in Offers, NEW r \in Robots, HandlerStep(u, r)
            PROVE  escrow_winner' = escrow_winner
        BY <4>1
        DEF HandlerStep, StoreEscrowPsbt, FetchBothEscrowPsbts,
            BroadcastEscrow, SetHappy, SetUnhappy, SetOngoing, FetchPayout,
            ToggleBeforeAssembly, AssemblePayout, InsertPayout,
            ToggleAfterAssembly, FetchWinner, StorePartialSig, AggregateSigs,
            BroadcastPayout, DeleteOffer, OnlyHandlers, OnlyTable, OnlyChain,
            tableVars, InsertSignedEscrowPsbt, SetTraderHappyField,
            SetEscrowOngoing, ToggleProcessing, InsertPayoutPsbt,
            InsertPartialSig, DeleteCompleteOffer
      <4>2. ASSUME NEW u \in Offers, NEW r \in Robots,
                   Call(u, r) \/ Leave(u, r)
            PROVE  escrow_winner' = escrow_winner
        BY <4>2
        DEF Call, Leave, SubmitEscrowPsbt, ConfirmObligation, RequestEscrow,
            PollFinalPayout, SubmitPayoutSignature, OnlyHandlers, tableVars
      <4>3. CASE \/ Monitor \/ MonitorQueryFails \/ CliFetch \/ Restart
                 \/ Environment \/ (\E u \in Offers : CliInputFails(u))
                 \/ UNCHANGED vars
        BY <4>3
        DEF Monitor, MonitorFetch, MonitorQuery, MonitorConfirm, SetConfirmed,
            MonitorQueryFails, CliFetch, CliInputFails, Restart, Environment,
            vars, tableVars
      <4>4. QED
        BY <1>1, <2>2, <4>1, <4>2, <4>3 DEF Next, Cli
    <3>2. QED
      BY <1>1, <3>1
  <2>3. QED BY <2>1, <2>2
<1>2. IInv /\ [Next]_vars =>
        [\A o \in Offers :
           escrow_winner'[o] # escrow_winner[o] => escrow_ongoing[o] = 1]_vars
  BY <1>1
<1>3. QED
  BY <1>2, Inductive, PTL DEF Spec, DecidedWhileOpen

(* The two psbts of an escrow are never left lying: the last handler that works
   on the lock has broadcast it, or a trader was told that its call failed. *)
THEOREM LockIsFinished == Spec => LockNotAbandoned
<1>1. ASSUME IInv, [Next]_vars, NEW o \in Offers, Abandoned(o)', ~Abandoned(o),
             depth[o] = Unknown
      PROVE  FALSE
  <2>1. TypeOK /\ TradersSound
    BY <1>1 DEF IInv
  <2>2. ~Gone(o) /\ ~Locking(o)' /\ ~Gone(o)' /\ depth'[o] = Unknown
    BY <1>1, <2>1, TradersStep DEF Abandoned
  <2>3. BothEscrowPsbtsSigned(o)
    BY <1>1, <2>1, <2>2, LockBegins DEF Abandoned
  <2>4. Locking(o)
    BY <1>1, <2>2, <2>3 DEF Abandoned
  <2>5. QED
    BY <1>1, <2>1, <2>2, <2>3, <2>4, LockLeft
<1>2. IInv /\ [Next]_vars =>
        [\A o \in Offers :
           Abandoned(o)' => Abandoned(o) \/ depth[o] # Unknown]_vars
  BY <1>1
<1>3. QED
  BY <1>2, Inductive, PTL DEF Spec, LockNotAbandoned

(* The two partial signatures are used for the payout, or a trader was told that
   its call failed: no handler passes them by. *)
THEOREM SignaturesGetUsed == Spec => []SignaturesAreUsed
<1>1. IInv => SignaturesAreUsed
  BY DEF IInv
<1>2. QED
  BY <1>1, Inductive, PTL

(* What one handler does to a settled payout: nothing.  It begins no assembly
   and answers with no other payout. *)
LEMMA SettledHandler ==
  ASSUME TypeOK, NEW o \in Offers, Settled(o), NEW r \in Robots,
         Call(o, r) \/ HandlerStep(o, r) \/ Leave(o, r)
  PROVE  /\ payout_psbt'[o] = payout_psbt[o]
         /\ pc'[o][r] \notin AssemblySteps
         /\ answer'[o][r] \in {answer[o][r], payout_psbt[o], "lost", "closed"}
<1> USE DEF TypeOK, HandlerTypeOK, AssemblySteps
<1>1. /\ payout_psbt[o] # NULL
      /\ pc[o][r] \notin AssemblySteps
  BY DEF Settled
<1>2. CASE FetchPayout(o, r)
  BY <1>1, <1>2
  DEF FetchPayout, Fail, Reply, Continue, Becomes, OnlyHandlers, tableVars
<1>3. CASE ~FetchPayout(o, r)
  <2>1. UNCHANGED payout_psbt
    BY <1>1, <1>3
    DEF At, Call, HandlerStep, Leave, SubmitEscrowPsbt, ConfirmObligation,
        RequestEscrow, PollFinalPayout, SubmitPayoutSignature,
        StoreEscrowPsbt, FetchBothEscrowPsbts, BroadcastEscrow, SetHappy,
        SetUnhappy, SetOngoing, ToggleBeforeAssembly, AssemblePayout,
        InsertPayout, ToggleAfterAssembly, FetchWinner, StorePartialSig,
        AggregateSigs, BroadcastPayout, DeleteOffer, OnlyHandlers, OnlyTable,
        OnlyChain, tableVars, InsertSignedEscrowPsbt, SetTraderHappyField,
        SetEscrowOngoing, InsertPartialSig, DeleteCompleteOffer
  <2>2. \E step \in Steps \ AssemblySteps :
          \E psbt : Becomes(o, r, step, psbt)
    BY <1>1, <1>3
    DEF At, Call, HandlerStep, Leave, SubmitEscrowPsbt, ConfirmObligation,
        RequestEscrow, PollFinalPayout, SubmitPayoutSignature,
        StoreEscrowPsbt, FetchBothEscrowPsbts, BroadcastEscrow, SetHappy,
        SetUnhappy, SetOngoing, ToggleBeforeAssembly, AssemblePayout,
        InsertPayout, ToggleAfterAssembly, FetchWinner, StorePartialSig,
        AggregateSigs, BroadcastPayout, DeleteOffer, Fail, Reply, Return,
        Continue, Carry, Steps
  <2>3. \/ UNCHANGED answer
        \/ \E value \in {"lost", "closed"} :
             answer' = [answer EXCEPT ![o][r] = value]
    BY <1>1, <1>3
    DEF At, Call, HandlerStep, Leave, SubmitEscrowPsbt, ConfirmObligation,
        RequestEscrow, PollFinalPayout, SubmitPayoutSignature,
        StoreEscrowPsbt, FetchBothEscrowPsbts, BroadcastEscrow, SetHappy,
        SetUnhappy, SetOngoing, ToggleBeforeAssembly, AssemblePayout,
        InsertPayout, ToggleAfterAssembly, FetchWinner, StorePartialSig,
        AggregateSigs, BroadcastPayout, DeleteOffer, Fail, Reply, Return,
        Continue, Carry
  <2>4. QED
    BY <2>1, <2>2, <2>3 DEF Becomes
<1>4. QED BY <1>2, <1>3

(* Once the overlapping assemblies are over, there is one payout: it stays on
   record, and every trader that still polls is given that one. *)
THEOREM OnePayoutOnceSettled == Spec => PayoutSettled
<1>1. ASSUME TypeOK, [Next]_vars, NEW o \in Offers, Settled(o)
      PROVE  /\ Settled(o)'
             /\ payout_psbt'[o] = payout_psbt[o]
             /\ \A r \in Robots :
                  answer'[o][r] \in {answer[o][r], payout_psbt[o], "lost", "closed"}
  <2>1. ASSUME NEW u \in Offers, NEW q \in Robots,
               Call(u, q) \/ HandlerStep(u, q) \/ Leave(u, q)
        PROVE  /\ payout_psbt'[o] = payout_psbt[o]
               /\ \A r \in Robots :
                    /\ pc'[o][r] \notin AssemblySteps
                    /\ answer'[o][r] \in {answer[o][r], payout_psbt[o], "lost", "closed"}
    <3>1. payout_psbt'[o] = payout_psbt[o]
      <4>1. CASE u = o
        BY <1>1, <2>1, <4>1, SettledHandler
      <4>2. CASE u # o
        BY <1>1, <2>1, <4>2, OwnRow
        DEF Call, Leave, SubmitEscrowPsbt, ConfirmObligation, RequestEscrow,
            PollFinalPayout, SubmitPayoutSignature, OnlyHandlers, tableVars
      <4>3. QED BY <4>1, <4>2
    <3>2. ASSUME NEW r \in Robots
          PROVE  /\ pc'[o][r] \notin AssemblySteps
                 /\ answer'[o][r] \in {answer[o][r], payout_psbt[o], "lost", "closed"}
      <4>1. CASE u = o /\ q = r
        BY <1>1, <2>1, <4>1, SettledHandler
      <4>2. CASE u # o \/ q # r
        BY <1>1, <2>1, <4>2, OwnSlot DEF Settled
      <4>3. QED BY <4>1, <4>2
    <3>3. QED BY <3>1, <3>2
  <2>2. CASE \/ Monitor \/ MonitorQueryFails \/ Cli
             \/ (\E u \in Offers : CliInputFails(u))
             \/ Restart \/ Environment \/ UNCHANGED vars
    BY <1>1, <2>2, TaskOrRestart, TaskColumns DEF Settled, AssemblySteps
  <2>3. QED BY <1>1, <2>1, <2>2 DEF Next, Settled
<1>2. TypeOK /\ [Next]_vars =>
        [\A o \in Offers :
           Settled(o) =>
             /\ Settled(o)'
             /\ payout_psbt'[o] = payout_psbt[o]
             /\ \A r \in Robots :
                  answer'[o][r] \in {answer[o][r], payout_psbt[o], "lost", "closed"}]_vars
  BY <1>1
<1>3. QED
  BY <1>2, TypeCorrect, PTL DEF Spec, PayoutSettled
=============================================================================

------------------------- MODULE TradeProtocolProofs -------------------------
(***************************************************************************)
(* Proofs about TradeProtocol: the types, and that a dispute excludes a    *)
(* payout.  Everything SettlementProofs proves of Settlement holds with    *)
(* these traders too, for their steps are steps of Settlement.             *)
(***************************************************************************)
EXTENDS TradeProtocol, SettlementProofs

(* What the maker said on the way to its payout, and to its dispute *)
Content(o) == stage[o][MakerOf[o]] \in {"satisfied", "signed"}
InDispute(o) == stage[o][MakerOf[o]] = "disputing"

PayoutSteps == {"fetch_payout", "toggle", "assemble", "insert_payout"}
DisputeSteps == {"set_unhappy", "set_ongoing"}

(* The maker's satisfaction is on record, or is about to be, only if its
   program confirmed. *)
HappyIsContent ==
  \A o \in Offers :
    happy[o]["maker"] = 1 \/ At(o, MakerOf[o], "set_happy") => Content(o)

(* Disputes come from the program of the maker alone. *)
DisputeIsTheMakers ==
  \A o \in Offers :
    /\ escrow_ongoing[o] = 1 \/ escrow_winner[o] # NULL \/ o \in cases => InDispute(o)
    /\ \A r \in Robots : pc[o][r] \in DisputeSteps => r = MakerOf[o] /\ InDispute(o)

(* Whoever works on a payout has seen that the maker is happy. *)
PayoutIsWanted ==
  \A o \in Offers :
    /\ payout_psbt[o] # NULL => Content(o)
    /\ \A r \in Robots : pc[o][r] \in PayoutSteps => Content(o)

PInv == HappyIsContent /\ DisputeIsTheMakers /\ PayoutIsWanted

(* The traders' programs make calls of Settlement. *)
LEMMA StepOfSettlement ==
  [ProtocolNext]_protocolVars => [Next]_vars
<1>1. \A o \in Offers, r \in Robots : Trader(o, r) => Call(o, r) \/ UNCHANGED vars
  BY DEF Trader, Locks, SeesConfirmation, Confirms, Disputes, Polls, Signs, Call
<1>2. Coordinator => Next
  BY DEF Coordinator, Next
<1>3. QED
  BY <1>1, <1>2 DEF ProtocolNext, Next, protocolVars

(* A program goes on in its order: from confirming there is no way to the
   dispute, and none back. *)
LEMMA StageStep ==
  ASSUME ProtocolTypeOK, [ProtocolNext]_protocolVars
  PROVE  /\ stage' \in [Offers -> [Robots -> Stages]]
         /\ \A o \in Offers, r \in Robots :
              /\ stage[o][r] \in {"satisfied", "signed"}
                   => stage'[o][r] \in {"satisfied", "signed"}
              /\ stage[o][r] = "disputing" => stage'[o][r] = "disputing"
<1> USE DEF ProtocolTypeOK, Stages
<1>1. ASSUME NEW u \in Offers, NEW q \in Robots, NEW from \in Stages,
             NEW to \in Stages, Proceed(u, q, from, to),
             from = "satisfied" => to = "signed", from # "disputing",
             from # "signed"
      PROVE  /\ stage' \in [Offers -> [Robots -> Stages]]
             /\ \A o \in Offers, r \in Robots :
                  /\ stage[o][r] \in {"satisfied", "signed"}
                       => stage'[o][r] \in {"satisfied", "signed"}
                  /\ stage[o][r] = "disputing" => stage'[o][r] = "disputing"
  BY <1>1 DEF Proceed
<1>2. ASSUME NEW u \in Offers, NEW q \in Robots, Trader(u, q)
      PROVE  \/ Proceed(u, q, "locking", "waiting")
             \/ Proceed(u, q, "waiting", "exchanging")
             \/ Proceed(u, q, "exchanging", "satisfied")
             \/ Proceed(u, q, "exchanging", "disputing")
             \/ Proceed(u, q, "satisfied", "signed")
             \/ UNCHANGED stage
  BY <1>2 DEF Trader, Locks, SeesConfirmation, Confirms, Disputes, Polls, Signs
<1>3. CASE UNCHANGED stage
  BY <1>3
<1>4. CASE \E u \in Offers, q \in Robots : Trader(u, q)
  BY <1>1, <1>2, <1>3, <1>4
<1>5. QED
  BY <1>3, <1>4 DEF ProtocolNext, Coordinator, protocolVars

(* The types of the settlement and of the programs hold in every reachable
   state. *)
THEOREM ProtocolTyped == ProtocolSpec => []ProtocolTypeOK
<1>1. ProtocolInit => ProtocolTypeOK
  BY ChainAssumption, SettlementAssumption
  DEF ProtocolInit, ProtocolTypeOK, Stages, Init, TableInit, ChainInit, TypeOK,
      TableTypeOK, ChainTypeOK, HandlerTypeOK, TaskTypeOK, Steps, Answers,
      Unknown
<1>2. ProtocolTypeOK /\ [ProtocolNext]_protocolVars => ProtocolTypeOK'
  BY StepOfSettlement, StageStep, TypeStep DEF ProtocolTypeOK
<1>3. QED
  BY <1>1, <1>2, PTL DEF ProtocolSpec

-----------------------------------------------------------------------------
(* A call of a trader's program *)
LEMMA TraderStep ==
  ASSUME ProtocolTypeOK, PInv, NEW u \in Offers, NEW q \in Robots,
         Trader(u, q), ProtocolNext
  PROVE  PInv'
<1> USE DEF ProtocolTypeOK
<1>1. UNCHANGED <<tableVars, taskVars>>
  BY DEF Trader, Locks, SeesConfirmation, Confirms, Disputes, Polls, Signs,
         SubmitEscrowPsbt, ConfirmObligation, RequestEscrow, PollFinalPayout,
         SubmitPayoutSignature, OnlyHandlers, vars
<1>2. UNCHANGED <<happy, escrow_ongoing, escrow_winner, payout_psbt, cases>>
  BY <1>1 DEF tableVars, taskVars
<1>3. Call(u, q) \/ (UNCHANGED pc /\ At(u, q, "idle"))
  BY DEF Trader, Locks, SeesConfirmation, Confirms, Disputes, Polls, Signs, Call,
         CanCall, vars, handlerVars
<1>4. \A o \in Offers, r \in Robots : o # u \/ r # q => pc'[o][r] = pc[o][r]
  BY <1>3, OwnSlot
<1>5. /\ pc'[u][q] = "set_happy" => stage'[u][q] = "satisfied"
      /\ pc'[u][q] \in DisputeSteps => q = MakerOf[u] /\ stage'[u][q] = "disputing"
      /\ pc'[u][q] \in PayoutSteps => happy[u]["maker"] = 1
  <2> USE DEF Continue, Carry, Return, Becomes, TypeOK, HandlerTypeOK, Proceed,
              DisputeSteps, PayoutSteps
  <2>1. CASE Locks(u, q)
    BY <2>1 DEF Locks, SubmitEscrowPsbt
  <2>2. CASE Confirms(u, q)
    BY <2>2 DEF Confirms, ConfirmObligation
  <2>3. CASE Disputes(u, q)
    BY <2>3 DEF Disputes, RequestEscrow
  <2>4. CASE Polls(u, q)
    BY <2>4 DEF Polls, PollFinalPayout, BothHappy, Roles
  <2>5. CASE Signs(u, q)
    BY <2>5 DEF Signs, SubmitPayoutSignature
  <2>6. CASE SeesConfirmation(u, q)
    BY <2>6 DEF SeesConfirmation, CanCall, At, vars, handlerVars
  <2>7. QED
    BY <2>1, <2>2, <2>3, <2>4, <2>5, <2>6 DEF Trader
<1>6. \A o \in Offers : /\ MakerOf[o] \in Robots
                        /\ Content(o) => Content(o)'
                        /\ InDispute(o) => InDispute(o)'
  BY StageStep, TakenOffersAssumption DEF Content, InDispute
<1>7. HappyIsContent'
  BY <1>2, <1>4, <1>5, <1>6 DEF PInv, HappyIsContent, At, Content
<1>8. DisputeIsTheMakers'
  BY <1>2, <1>4, <1>5, <1>6 DEF PInv, DisputeIsTheMakers, InDispute
<1>9. PayoutIsWanted'
  BY <1>2, <1>4, <1>5, <1>6 DEF PInv, PayoutIsWanted, HappyIsContent
<1>10. QED
  BY <1>7, <1>8, <1>9 DEF PInv

(* Where a handler goes, and which of the columns it writes *)
LEMMA OwnHandlerStep ==
  ASSUME TypeOK, NEW u \in Offers, NEW q \in Robots, HandlerStep(u, q)
  PROVE  /\ pc'[u][q] \notin {"set_happy", "set_unhappy"}
         /\ pc'[u][q] = "set_ongoing" => pc[u][q] = "set_unhappy"
         /\ pc'[u][q] \in PayoutSteps => pc[u][q] \in PayoutSteps
         /\ UNCHANGED <<escrow_winner, cases>>
         /\ happy'[u]["maker"] = 1
              => happy[u]["maker"] = 1 \/ (pc[u][q] = "set_happy" /\ q = MakerOf[u])
         /\ escrow_ongoing'[u] = 1
              => escrow_ongoing[u] = 1 \/ pc[u][q] = "set_ongoing"
         /\ payout_psbt'[u] # NULL
              => payout_psbt[u] # NULL \/ pc[u][q] = "insert_payout"
<1>1. /\ pc'[u][q] \notin {"set_happy", "set_unhappy"}
      /\ pc'[u][q] = "set_ongoing" => pc[u][q] = "set_unhappy"
      /\ pc'[u][q] \in PayoutSteps => pc[u][q] \in PayoutSteps
  <2>1. ASSUME NEW step, NEW psbt, NEW value
        PROVE  /\ Carry(u, q, step, psbt) => pc'[u][q] = step
               /\ Reply(u, q, value) => pc'[u][q] = "idle"
    BY DEF Carry, Reply, Becomes, TypeOK, HandlerTypeOK
  <2>2. \A step, value : /\ Continue(u, q, step) => pc'[u][q] = step
                         /\ Return(u, q) => pc'[u][q] = "idle"
                         /\ Reply(u, q, value) => pc'[u][q] = "idle"
                         /\ Fail(u, q) => pc'[u][q] = "idle"
    BY <2>1 DEF Continue, Carry, Return, Fail
  <2>3. CASE \/ FetchBothEscrowPsbts(u, q) \/ FetchPayout(u, q)
             \/ AssemblePayout(u, q) \/ FetchWinner(u, q) \/ AggregateSigs(u, q)
    BY <2>1, <2>2, <2>3
    DEF FetchBothEscrowPsbts, FetchPayout, AssemblePayout, FetchWinner,
        AggregateSigs, At, PayoutSteps
  <2>4. CASE \/ BroadcastEscrow(u, q) \/ BroadcastPayout(u, q)
             \/ StoreEscrowPsbt(u, q) \/ StorePartialSig(u, q) \/ DeleteOffer(u, q)
             \/ ToggleBeforeAssembly(u, q) \/ ToggleAfterAssembly(u, q)
    BY <2>1, <2>2, <2>4
    DEF BroadcastEscrow, BroadcastPayout, StoreEscrowPsbt, StorePartialSig,
        DeleteOffer, ToggleBeforeAssembly, ToggleAfterAssembly, At, PayoutSteps
  <2>5. CASE \/ SetHappy(u, q) \/ SetUnhappy(u, q) \/ SetOngoing(u, q)
             \/ InsertPayout(u, q)
    BY <2>1, <2>2, <2>5
    DEF SetHappy, SetUnhappy, SetOngoing, InsertPayout, At, PayoutSteps
  <2>6. QED
    BY <2>3, <2>4, <2>5 DEF HandlerStep
<1>2. UNCHANGED <<escrow_winner, cases>>
  BY DEF OnlyHandlers, OnlyTable, OnlyChain, tableVars, taskVars, HandlerStep,
         StoreEscrowPsbt, InsertSignedEscrowPsbt, FetchBothEscrowPsbts,
         BroadcastEscrow, SetHappy, SetUnhappy, SetTraderHappyField,
         SetOngoing, SetEscrowOngoing, FetchPayout, ToggleBeforeAssembly,
         ToggleProcessing, AssemblePayout, InsertPayout, InsertPayoutPsbt,
         ToggleAfterAssembly, FetchWinner, StorePartialSig, InsertPartialSig,
         AggregateSigs, BroadcastPayout, DeleteOffer, DeleteCompleteOffer
<1>3. SetHappy(u, q) \/ SetUnhappy(u, q) \/ UNCHANGED happy
  BY DEF OnlyHandlers, OnlyTable, OnlyChain, tableVars, HandlerStep,
         StoreEscrowPsbt, InsertSignedEscrowPsbt, FetchBothEscrowPsbts,
         BroadcastEscrow, SetOngoing, SetEscrowOngoing, FetchPayout,
         ToggleBeforeAssembly, ToggleProcessing, AssemblePayout, InsertPayout,
         InsertPayoutPsbt, ToggleAfterAssembly, FetchWinner, StorePartialSig,
         InsertPartialSig, AggregateSigs, BroadcastPayout, DeleteOffer,
         DeleteCompleteOffer
<1>4. SetOngoing(u, q) \/ UNCHANGED escrow_ongoing
  BY DEF OnlyHandlers, OnlyTable, OnlyChain, tableVars, HandlerStep,
         StoreEscrowPsbt, InsertSignedEscrowPsbt, FetchBothEscrowPsbts,
         BroadcastEscrow, SetHappy, SetUnhappy, SetTraderHappyField,
         FetchPayout, ToggleBeforeAssembly, ToggleProcessing, AssemblePayout,
         InsertPayout, InsertPayoutPsbt, ToggleAfterAssembly, FetchWinner,
         StorePartialSig, InsertPartialSig, AggregateSigs, BroadcastPayout,
         DeleteOffer, DeleteCompleteOffer
<1>5. InsertPayout(u, q) \/ UNCHANGED payout_psbt
  BY DEF OnlyHandlers, OnlyTable, OnlyChain, tableVars, HandlerStep,
         StoreEscrowPsbt, InsertSignedEscrowPsbt, FetchBothEscrowPsbts,
         BroadcastEscrow, SetHappy, SetUnhappy, SetTraderHappyField,
         SetOngoing, SetEscrowOngoing, FetchPayout, ToggleBeforeAssembly,
         ToggleProcessing, AssemblePayout, ToggleAfterAssembly, FetchWinner,
         StorePartialSig, InsertPartialSig, AggregateSigs, BroadcastPayout,
         DeleteOffer, DeleteCompleteOffer
<1>6. happy'[u]["maker"] = 1
        => happy[u]["maker"] = 1 \/ (pc[u][q] = "set_happy" /\ q = MakerOf[u])
  <2>1. CASE SetHappy(u, q)
    BY <2>1 DEF SetHappy, SetTraderHappyField, UpdateRole, RoleOf, At, TypeOK,
                TableTypeOK, Roles
  <2>2. CASE SetUnhappy(u, q)
    BY <2>2, SqlValuesAssumption
    DEF SetUnhappy, SetTraderHappyField, UpdateRole, RoleOf, BoolToSqlInt,
        TypeOK, TableTypeOK, Roles
  <2>3. QED
    BY <1>3, <2>1, <2>2
<1>7. escrow_ongoing'[u] = 1 => escrow_ongoing[u] = 1 \/ pc[u][q] = "set_ongoing"
  BY <1>4 DEF SetOngoing, At
<1>8. payout_psbt'[u] # NULL => payout_psbt[u] # NULL \/ pc[u][q] = "insert_payout"
  BY <1>5 DEF InsertPayout, At
<1>9. QED
  BY <1>1, <1>2, <1>6, <1>7, <1>8

(* A step of a handler *)
LEMMA ProtocolHandlerStep ==
  ASSUME ProtocolTypeOK, PInv, NEW u \in Offers, NEW q \in Robots,
         HandlerStep(u, q), UNCHANGED stage
  PROVE  PInv'
<1> USE DEF ProtocolTypeOK
<1>1. \A o \in Offers, r \in Robots : o # u \/ r # q => pc'[o][r] = pc[o][r]
  BY OwnSlot
<1>2. \A o \in Offers \ {u} : /\ happy'[o] = happy[o]
                              /\ escrow_ongoing'[o] = escrow_ongoing[o]
                              /\ payout_psbt'[o] = payout_psbt[o]
  BY OwnRow
<1>3. \A o \in Offers : /\ MakerOf[o] \in Robots
                        /\ Content(o)' <=> Content(o)
                        /\ InDispute(o)' <=> InDispute(o)
  BY TakenOffersAssumption DEF Content, InDispute
<1>4. HappyIsContent'
  BY <1>1, <1>2, <1>3, OwnHandlerStep DEF PInv, HappyIsContent, At
<1>5. DisputeIsTheMakers'
  BY <1>1, <1>2, <1>3, OwnHandlerStep
  DEF PInv, DisputeIsTheMakers, DisputeSteps
<1>6. PayoutIsWanted'
  BY <1>1, <1>2, <1>3, OwnHandlerStep DEF PInv, PayoutIsWanted, PayoutSteps
<1>7. QED
  BY <1>4, <1>5, <1>6 DEF PInv

(* A trader that leaves *)
LEMMA LeaveStep ==
  ASSUME ProtocolTypeOK, PInv, NEW u \in Offers, NEW q \in Robots,
         Leave(u, q), UNCHANGED stage
  PROVE  PInv'
<1> USE DEF ProtocolTypeOK
<1>1. \A o \in Offers, r \in Robots : pc'[o][r] \in {pc[o][r], "idle"}
  BY DEF Leave, Fail, Reply, Becomes, TypeOK, HandlerTypeOK
<1>2. UNCHANGED <<happy, escrow_ongoing, escrow_winner, payout_psbt, cases>>
  BY DEF Leave, OnlyHandlers, tableVars, taskVars
<1>3. \A o \in Offers : MakerOf[o] \in Robots
  BY TakenOffersAssumption
<1>4. QED
  BY <1>1, <1>2, <1>3
  DEF PInv, HappyIsContent, DisputeIsTheMakers, PayoutIsWanted, At, Content,
      InDispute, DisputeSteps, PayoutSteps

(* A step of a task, of the node, or a restart: the operator has open disputes
   alone to decide. *)
LEMMA ProtocolTaskStep ==
  ASSUME ProtocolTypeOK, PInv, UNCHANGED stage,
         \/ Monitor \/ MonitorQueryFails \/ Cli
         \/ \E o \in Offers : CliInputFails(o)
         \/ Restart \/ Environment \/ UNCHANGED vars
  PROVE  PInv'
<1> USE DEF ProtocolTypeOK
<1>1. \A o \in Offers, r \in Robots : pc'[o][r] \in {pc[o][r], "idle"}
  BY TaskSlots
<1>2. UNCHANGED <<happy, payout_psbt>>
  BY TaskColumns
<1>3. \A o \in Offers :
        escrow_ongoing'[o] = 1 \/ escrow_winner'[o] # NULL \/ o \in cases'
          => escrow_ongoing[o] = 1 \/ escrow_winner[o] # NULL \/ o \in cases
  BY DEF TypeOK, TableTypeOK, Monitor, MonitorFetch, MonitorQuery,
         MonitorConfirm, SetConfirmed, MonitorQueryFails, Cli, CliFetch,
         OpenEscrows, CliDecide, ResolveEscrow, UpdateRow, CliInputFails,
         Restart, Environment, tableVars, taskVars, vars
<1>4. \A o \in Offers : MakerOf[o] \in Robots
  BY TakenOffersAssumption
<1>5. QED
  BY <1>1, <1>2, <1>3, <1>4
  DEF PInv, HappyIsContent, DisputeIsTheMakers, PayoutIsWanted, At, Content,
      InDispute, DisputeSteps, PayoutSteps

LEMMA PInvStep == ProtocolTypeOK /\ PInv /\ [ProtocolNext]_protocolVars => PInv'
<1> SUFFICES ASSUME ProtocolTypeOK, PInv, [ProtocolNext]_protocolVars PROVE PInv'
  OBVIOUS
<1>1. ASSUME NEW o \in Offers, NEW r \in Robots, Trader(o, r) PROVE PInv'
  BY <1>1, TraderStep DEF ProtocolNext
<1>2. CASE Coordinator
  BY <1>2, ProtocolHandlerStep, LeaveStep, ProtocolTaskStep DEF Coordinator
<1>3. CASE UNCHANGED protocolVars
  BY <1>3, ProtocolTaskStep DEF protocolVars
<1>4. QED
  BY <1>1, <1>2, <1>3 DEF ProtocolNext

(* No payout is ever stored for a trade whose maker opened a dispute, for any
   number of trades and robots, though the maker's and the taker's handlers,
   the operator and a restart come in any order. *)
THEOREM DisputeOrPayout == ProtocolSpec => []DisputeExcludesPayout
<1>1. ProtocolInit => PInv
  BY TakenOffersAssumption, SqlValuesAssumption
  DEF ProtocolInit, PInv, HappyIsContent, DisputeIsTheMakers, PayoutIsWanted,
      At, DisputeSteps, PayoutSteps, Init, TableInit, Roles
<1>2. PInv => DisputeExcludesPayout
  BY DEF PInv, DisputeIsTheMakers, PayoutIsWanted, DisputeExcludesPayout,
         Content, InDispute
<1>3. QED
  BY <1>1, <1>2, PInvStep, ProtocolTyped, PTL DEF ProtocolSpec

(* With the traders' programs the settlement keeps all that it keeps with
   traders that call at any time. *)
THEOREM ProgramsRefine == ProtocolSpec => Spec
<1>1. ProtocolInit => Init
  BY DEF ProtocolInit
<1>2. QED
  BY <1>1, StepOfSettlement, PTL DEF ProtocolSpec, Spec
=============================================================================

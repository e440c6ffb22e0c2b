--------------------------- MODULE BondWatchProofs ---------------------------
(***************************************************************************)
(* Proofs about BondWatch, for any transactions, coins and offers: the     *)
(* copy of the mempool never holds what left it before the last refresh,   *)
(* and so the monitor publishes no bond without a cause.                   *)
(***************************************************************************)
EXTENDS BondWatch, TLAPS

LEMMA SpentBySubset ==
  ASSUME NEW S, NEW T, S \subseteq T
  PROVE  SpentBy(S) \subseteq SpentBy(T)
BY DEF SpentBy

LEMMA SpentByCoins ==
  ASSUME NEW S \in SUBSET Txs
  PROVE  SpentBy(S) \subseteq Coins
<1>1. \A tx \in S : Inputs[tx] \subseteq Coins
  BY BondWatchAssumption
<1> QED BY <1>1 DEF SpentBy

(* While the thread asks for transactions, what its list has spent has been
   spent since the list was made; the copy itself is from the list before. *)
ListRecent == refreshing => SpentBy(mempool_txs) \subseteq recenter

LInv == TypeOK /\ LagBounded /\ ListRecent

LEMMA LInvInit == Init => LInv
<1> SUFFICES ASSUME Init PROVE LInv
  OBVIOUS
<1>1. 0 \in 0..MaxFaults
  BY BondWatchAssumption, SMT
<1>2. TypeOK
  BY <1>1 DEF Init, TypeOK, OfferStates, Steps
<1> QED BY <1>2 DEF Init, LInv, LagBounded, ListRecent

LEMMA FaultTyped ==
  ASSUME TypeOK, Fault
  PROVE  faults' \in 0..MaxFaults
BY BondWatchAssumption, SMT DEF TypeOK, Fault

(* What a step of the node does to the history: it only grows. *)
LEMMA MempoolGrowsHistory ==
  ASSUME LInv, NEW txs \in SUBSET Txs, InMempool(txs),
         UNCHANGED <<threadVars, faults>>
  PROVE  /\ mempool' \subseteq Txs
         /\ recent' \subseteq Coins /\ recenter' \subseteq Coins
         /\ LagBounded' /\ ListRecent'
<1>1. /\ mempool' = txs
      /\ recent' = recent \cup SpentBy(txs)
      /\ recenter' = recenter \cup SpentBy(txs)
  BY DEF InMempool
<1>2. SpentBy(txs) \subseteq Coins
  BY SpentByCoins
<1>3. recent \subseteq Coins /\ recenter \subseteq Coins
  BY DEF LInv, TypeOK
<1>4. LagBounded'
  BY <1>1 DEF LInv, LagBounded, threadVars
<1>5. ListRecent'
  <2>1. refreshing' = refreshing /\ mempool_txs' = mempool_txs
    BY DEF threadVars
  <2>2. SpentBy(mempool_txs)' = SpentBy(mempool_txs)
    BY <2>1 DEF SpentBy
  <2> QED BY <1>1, <2>1, <2>2 DEF LInv, ListRecent
<1> QED BY <1>1, <1>2, <1>3, <1>4, <1>5

LEMMA NodeKeeps ==
  ASSUME LInv, Node
  PROVE  LInv'
<1>1. PICK tx \in Txs : Enter(tx) \/ Drop(tx) \/ Mine(tx)
  BY DEF Node
<1>2. mempool \subseteq Txs /\ blocks \subseteq Txs
  BY DEF LInv, TypeOK
<1>3. CASE Enter(tx)
  <2>1. InMempool((mempool \ Conflicts(tx, mempool)) \cup {tx})
        /\ UNCHANGED <<blocks, threadVars, offers, monitorVars, faults>>
    BY <1>3 DEF Enter
  <2>2. (mempool \ Conflicts(tx, mempool)) \cup {tx} \in SUBSET Txs
    BY <1>1, <1>2
  <2>3. /\ mempool' \subseteq Txs
        /\ recent' \subseteq Coins /\ recenter' \subseteq Coins
        /\ LagBounded' /\ ListRecent'
    BY <2>1, <2>2, MempoolGrowsHistory
  <2> QED BY <2>1, <2>3 DEF LInv, TypeOK, threadVars, monitorVars
<1>4. CASE Drop(tx)
  <2>1. InMempool(mempool \ {tx})
        /\ UNCHANGED <<blocks, threadVars, offers, monitorVars, faults>>
    BY <1>4 DEF Drop
  <2>2. mempool \ {tx} \in SUBSET Txs
    BY <1>2
  <2>3. /\ mempool' \subseteq Txs
        /\ recent' \subseteq Coins /\ recenter' \subseteq Coins
        /\ LagBounded' /\ ListRecent'
    BY <2>1, <2>2, MempoolGrowsHistory
  <2> QED BY <2>1, <2>3 DEF LInv, TypeOK, threadVars, monitorVars
<1>5. CASE Mine(tx)
  <2>1. InMempool(mempool \ (Conflicts(tx, mempool) \cup {tx}))
        /\ blocks' = blocks \cup {tx}
        /\ UNCHANGED <<threadVars, offers, monitorVars, faults>>
    BY <1>5 DEF Mine
  <2>2. mempool \ (Conflicts(tx, mempool) \cup {tx}) \in SUBSET Txs
    BY <1>2
  <2>3. /\ mempool' \subseteq Txs
        /\ recent' \subseteq Coins /\ recenter' \subseteq Coins
        /\ LagBounded' /\ ListRecent'
    BY <2>1, <2>2, MempoolGrowsHistory
  <2>4. blocks' \subseteq Txs
    BY <1>1, <1>2, <2>1
  <2> QED BY <2>1, <2>3, <2>4 DEF LInv, TypeOK, threadVars, monitorVars
<1> QED BY <1>1, <1>3, <1>4, <1>5

LEMMA MempoolThreadKeeps ==
  ASSUME LInv, MempoolThread
  PROVE  LInv'
<1>1. CASE GetRawMempool
  <2>1. SpentBy(mempool) \subseteq Coins /\ NotHeld \subseteq mempool
    BY SpentByCoins DEF LInv, TypeOK, NotHeld
  <2>2. TypeOK'
    BY <1>1, <2>1 DEF LInv, TypeOK, GetRawMempool, ThreadOnly, nodeVars, monitorVars
  <2>3. LagBounded'
    BY <1>1 DEF LInv, LagBounded, GetRawMempool
  <2>4. ListRecent'
    BY <1>1 DEF ListRecent, GetRawMempool, SpentBy
  <2> QED BY <2>2, <2>3, <2>4 DEF LInv
<1>2. ASSUME NEW tx \in Txs, GetRawTransaction(tx) PROVE LInv'
  <2>1. /\ to_fetch' = to_fetch \ {tx}
        /\ transactions' \in {transactions, transactions \cup {tx}}
        /\ faults' = faults \/ Fault
        /\ UNCHANGED <<refreshing, mempool_txs, utxo_set, historyVars>>
        /\ UNCHANGED <<nodeVars, offers, monitorVars>>
    BY <1>2 DEF GetRawTransaction, ThreadOnly
  <2>2. faults' \in 0..MaxFaults
    BY <2>1, FaultTyped DEF LInv, TypeOK
  <2>3. TypeOK'
    BY <2>1, <2>2 DEF LInv, TypeOK, nodeVars, monitorVars, historyVars
  <2> QED BY <2>1, <2>3 DEF LInv, LagBounded, ListRecent, SpentBy, historyVars
<1>3. CASE RebuildUtxoSet
  <2>1. /\ refreshing /\ refreshing' = FALSE /\ transactions' = Retained
        /\ utxo_set' = SpentBy(Retained) /\ recent' = recenter
        /\ UNCHANGED <<mempool_txs, to_fetch, recenter, faults>>
        /\ UNCHANGED <<nodeVars, offers, monitorVars>>
    BY <1>3 DEF RebuildUtxoSet, ThreadOnly
  <2>2. Retained \subseteq mempool_txs /\ Retained \in SUBSET Txs
    BY DEF Retained, LInv, TypeOK
  <2>3. SpentBy(Retained) \subseteq Coins
    BY <2>2, SpentByCoins
  <2>4. SpentBy(Retained) \subseteq recenter
    BY <2>1, <2>2, SpentBySubset DEF LInv, ListRecent
  <2>5. TypeOK'
    BY <2>1, <2>2, <2>3 DEF LInv, TypeOK, nodeVars, monitorVars
  <2> QED BY <2>1, <2>4, <2>5 DEF LInv, LagBounded, ListRecent
<1> QED BY <1>1, <1>2, <1>3 DEF MempoolThread

(* What leaves the thread and the history alone has to keep the types only. *)
LEMMA OthersKeep ==
  ASSUME LInv, TypeOK', UNCHANGED <<threadVars, historyVars>>
  PROVE  LInv'
BY DEF LInv, LagBounded, ListRecent, SpentBy, threadVars, historyVars

LEMMA TradersKeep ==
  ASSUME LInv, Traders
  PROVE  LInv'
<1>1. PICK o \in Offers : TestSubmitted(o) \/ LookupSubmitted(o) \/ Take(o)
  BY DEF Traders
<1>2. \E new \in OfferStates :
        /\ offers' = [offers EXCEPT ![o] = new]
        /\ UNCHANGED <<nodeVars, threadVars, monitorVars, historyVars, faults>>
  BY <1>1 DEF TestSubmitted, LookupSubmitted, Take, OfferStates
<1>3. TypeOK'
  BY <1>2 DEF LInv, TypeOK, nodeVars, threadVars, monitorVars, historyVars
<1> QED BY <1>2, <1>3, OthersKeep

LEMMA BondsOfBonds ==
  ASSUME NEW os \in SUBSET Offers
  PROVE  BondsOf(os) \subseteq Bonds /\ Bonds \subseteq Txs
BY BondWatchAssumption DEF BondsOf, Bonds

LEMMA MonitorKeeps ==
  ASSUME LInv, Monitor
  PROVE  LInv'
<1> USE DEF MonitorOnly
<1>1. CASE FetchAllBonds
  <2>1. TypeOK' /\ UNCHANGED <<threadVars, historyVars>>
    BY <1>1 DEF LInv, TypeOK, FetchAllBonds, nodeVars, threadVars, historyVars, Steps
  <2> QED BY <2>1, OthersKeep
<1>2. CASE TestBonds
  <2>1. rejected' \subseteq Bonds /\ grounds' \subseteq Bonds
    <3>1. rejected' \subseteq BondsOf(bonds) /\ grounds' \subseteq BondsOf(bonds)
      BY <1>2 DEF TestBonds, RejectedByNode, WithSpentCoin
    <3> QED BY <3>1, BondsOfBonds DEF LInv, TypeOK
  <2>2. TypeOK' /\ UNCHANGED <<threadVars, historyVars>>
    BY <1>2, <2>1 DEF LInv, TypeOK, TestBonds, nodeVars, threadVars, historyVars, Steps
  <2> QED BY <2>2, OthersKeep
<1>3. CASE LookupBonds
  <2>1. invalid' \subseteq Offers /\ grounds' \subseteq Bonds
    <3>1. WithSpentCoin(BondsOf(bonds)) \subseteq Bonds
      BY BondsOfBonds DEF LInv, TypeOK, WithSpentCoin
    <3> QED BY <1>3, <3>1 DEF LInv, TypeOK, LookupBonds, OnePerBond
  <2>2. TypeOK' /\ UNCHANGED <<threadVars, historyVars>>
    BY <1>3, <2>1 DEF LInv, TypeOK, LookupBonds, nodeVars, threadVars, historyVars, Steps
  <2> QED BY <2>2, OthersKeep
<1>4. ASSUME NEW o \in Offers, PublishBond(o) PROVE LInv'
  <2>1. /\ UNCHANGED <<blocks, offers, bonds, rejected>>
        /\ UNCHANGED <<threadVars, faults>>
        /\ step' \in {step, "sleep"} /\ invalid' \subseteq invalid
        /\ removing' \in {removing, o} /\ grounds' \in {grounds, {}}
    BY <1>4 DEF PublishBond
  <2>2. CASE Confirmable(BondOf[o])
    <3>1. InMempool((mempool \ Conflicts(BondOf[o], mempool)) \cup {BondOf[o]})
      BY <1>4, <2>2 DEF PublishBond
    <3>2. (mempool \ Conflicts(BondOf[o], mempool)) \cup {BondOf[o]} \in SUBSET Txs
      BY BondWatchAssumption DEF LInv, TypeOK
    <3>3. /\ mempool' \subseteq Txs
          /\ recent' \subseteq Coins /\ recenter' \subseteq Coins
          /\ LagBounded' /\ ListRecent'
      BY <2>1, <3>1, <3>2, MempoolGrowsHistory
    <3> QED BY <2>1, <3>3 DEF LInv, TypeOK, threadVars, Steps
  <2>3. CASE ~Confirmable(BondOf[o])
    <3>1. UNCHANGED <<mempool, historyVars>>
      BY <1>4, <2>3 DEF PublishBond
    <3>2. TypeOK'
      BY <2>1, <3>1 DEF LInv, TypeOK, threadVars, historyVars, Steps
    <3> QED BY <2>1, <3>1, <3>2, OthersKeep
  <2> QED BY <2>2, <2>3
<1>5. CASE RemoveViolatingBond
  <2>1. offers' \in [Offers -> OfferStates]
    <3>1. offers' = [offers EXCEPT ![removing] = IF @ = "listed" THEN "removed" ELSE @]
      BY <1>5 DEF RemoveViolatingBond
    <3> QED BY <3>1 DEF LInv, TypeOK, OfferStates
  <2>2. TypeOK' /\ UNCHANGED <<threadVars, historyVars>>
    BY <1>5, <2>1 DEF LInv, TypeOK, RemoveViolatingBond, nodeVars, threadVars, historyVars
  <2> QED BY <2>2, OthersKeep
<1>6. CASE RoundEnds
  <2>1. TypeOK' /\ UNCHANGED <<threadVars, historyVars>>
    BY <1>6 DEF LInv, TypeOK, RoundEnds, nodeVars, threadVars, historyVars, Steps
  <2> QED BY <2>1, OthersKeep
<1> QED BY <1>1, <1>2, <1>3, <1>4, <1>5, <1>6 DEF Monitor

LEMMA RoundFailsKeeps ==
  ASSUME LInv, RoundFails
  PROVE  LInv'
<1>1. faults' \in 0..MaxFaults
  BY FaultTyped DEF RoundFails, LInv
<1>2. TypeOK' /\ UNCHANGED <<threadVars, historyVars>>
  BY <1>1 DEF RoundFails, LInv, TypeOK, nodeVars, threadVars, historyVars, Steps
<1> QED BY <1>2, OthersKeep

LEMMA RestartKeeps ==
  ASSUME LInv, Restart
  PROVE  LInv'
<1>1. faults' \in 0..MaxFaults
  BY FaultTyped DEF Restart, LInv
<1>2. offers' \in [Offers -> OfferStates]
  BY DEF Restart, LInv, TypeOK, OfferStates
<1>3. TypeOK'
  BY <1>1, <1>2 DEF Restart, LInv, TypeOK, nodeVars, historyVars, Steps
<1> QED BY <1>3 DEF Restart, LInv, LagBounded, ListRecent

LEMMA LInvStep == LInv /\ [Next]_vars => LInv'
<1> SUFFICES ASSUME LInv, [Next]_vars PROVE LInv'
  OBVIOUS
<1>1. CASE UNCHANGED vars
  <2>1. TypeOK' /\ UNCHANGED <<threadVars, historyVars>>
    BY <1>1 DEF vars, LInv, TypeOK, nodeVars, threadVars, monitorVars, historyVars
  <2> QED BY <2>1, OthersKeep
<1> QED BY <1>1, NodeKeeps, MempoolThreadKeeps, TradersKeep, MonitorKeeps,
           RoundFailsKeeps, RestartKeeps DEF Next

LEMMA LInvAlways == Spec => []LInv
<1> QED BY LInvInit, LInvStep, PTL DEF Spec

(* The parties of the watch keep the types of their variables. *)
THEOREM WatchTyped == Spec => []TypeOK
<1>1. LInv => TypeOK
  BY DEF LInv
<1> QED BY <1>1, LInvAlways, PTL

(* A coin that the validation finds spent was spent in the mempool since the
   last completed refresh began, whatever the node and the thread do meanwhile. *)
THEOREM CopyIsRecent == Spec => []LagBounded
<1>1. LInv => LagBounded
  BY DEF LInv
<1> QED BY <1>1, LInvAlways, PTL

-----------------------------------------------------------------------------
(* What the monitor publishes has a cause: the history has everything that is
   in the mempool, and what the two checks found stays their reason until the
   round is over. *)

MempoolRecent ==
  /\ SpentBy(mempool) \subseteq recent
  /\ refreshing => SpentBy(mempool) \subseteq recenter

RoundKnows ==
  /\ rejected \subseteq grounds
  /\ step # "lookup" => rejected = {}
  /\ step # "punish" => invalid = {} /\ removing = NULL
  /\ PunishedForCause

CInv == LInv /\ MempoolRecent /\ RoundKnows

(* The history gains all that the mempool becomes. *)
LEMMA HistoryHasMempool ==
  ASSUME MempoolRecent, NEW txs, InMempool(txs), refreshing' = refreshing
  PROVE  MempoolRecent'
<1>1. mempool' = txs /\ SpentBy(txs) \subseteq recent' /\ SpentBy(txs) \subseteq recenter'
  BY DEF InMempool
<1>2. SpentBy(mempool)' = SpentBy(txs)
  BY <1>1 DEF SpentBy
<1> QED BY <1>1, <1>2 DEF MempoolRecent

LEMMA SameMempool ==
  ASSUME MempoolRecent, UNCHANGED <<mempool, historyVars>>, refreshing' => refreshing
  PROVE  MempoolRecent'
BY DEF MempoolRecent, SpentBy, historyVars

LEMMA MempoolRecentStep ==
  ASSUME MempoolRecent, [Next]_vars
  PROVE  MempoolRecent'
<1>1. CASE Node
  <2>1. PICK txs : InMempool(txs) /\ UNCHANGED threadVars
    BY <1>1 DEF Node, Enter, Drop, Mine
  <2> QED BY <2>1, HistoryHasMempool DEF threadVars
<1>2. ASSUME NEW o \in Offers, PublishBond(o) PROVE MempoolRecent'
  <2>1. UNCHANGED threadVars
    BY <1>2 DEF PublishBond, MonitorOnly
  <2>2. \/ \E txs : InMempool(txs)
        \/ UNCHANGED <<mempool, historyVars>>
    BY <1>2 DEF PublishBond
  <2> QED BY <2>1, <2>2, HistoryHasMempool, SameMempool DEF threadVars
<1>3. CASE GetRawMempool
  <2>1. /\ mempool' = mempool /\ recent' = recent /\ recenter' = SpentBy(mempool)
    BY <1>3 DEF GetRawMempool, ThreadOnly, nodeVars
  <2> QED BY <2>1 DEF MempoolRecent, SpentBy
<1>4. CASE RebuildUtxoSet
  <2>1. /\ refreshing /\ ~refreshing' /\ recent' = recenter /\ mempool' = mempool
    BY <1>4 DEF RebuildUtxoSet, ThreadOnly, nodeVars
  <2> QED BY <2>1 DEF MempoolRecent, SpentBy
<1>5. ASSUME NEW tx \in Txs, GetRawTransaction(tx) PROVE MempoolRecent'
  BY <1>5, SameMempool DEF GetRawTransaction, ThreadOnly, nodeVars
<1>6. CASE Traders \/ UNCHANGED vars
  <2>1. UNCHANGED <<nodeVars, threadVars, historyVars>>
    BY <1>6 DEF Traders, TestSubmitted, LookupSubmitted, Take, vars
  <2> QED BY <2>1, SameMempool DEF nodeVars, threadVars
<1>7. CASE \/ FetchAllBonds \/ TestBonds \/ LookupBonds
           \/ RemoveViolatingBond \/ RoundEnds
  <2>1. UNCHANGED <<nodeVars, threadVars, historyVars>>
    BY <1>7
    DEF FetchAllBonds, TestBonds, LookupBonds, RemoveViolatingBond, RoundEnds,
        MonitorOnly
  <2> QED BY <2>1, SameMempool DEF nodeVars, threadVars
<1>8. CASE RoundFails
  BY <1>8, SameMempool DEF RoundFails, nodeVars, threadVars
<1>9. CASE Restart
  BY <1>9, SameMempool DEF Restart, nodeVars
<1> QED
  BY <1>1, <1>2, <1>3, <1>4, <1>5, <1>6, <1>7, <1>8, <1>9
  DEF Next, MempoolThread, Monitor

(* The node's reason to reject a bond is a coin that was spent. *)
LEMMA RejectionHasCause ==
  ASSUME MempoolRecent, NEW txs \in SUBSET Txs
  PROVE  RejectedByNode(txs) \subseteq WithSpentCoin(txs)
<1> SUFFICES ASSUME NEW b \in RejectedByNode(txs)
             PROVE  \E c \in Inputs[b] : c \in SpentBy(blocks) \cup recent
  BY DEF RejectedByNode, WithSpentCoin
<1>1. b \in Txs /\ \E c \in Inputs[b] : TRUE
  BY BondWatchAssumption DEF RejectedByNode
<1>2. CASE b \in mempool \cup blocks
  BY <1>1, <1>2 DEF MempoolRecent, SpentBy
<1>3. CASE Conflicts(b, blocks) # {}
  BY <1>3 DEF Conflicts, SpentBy
<1> QED BY <1>2, <1>3 DEF RejectedByNode, Confirmable

(* The copy's reason is one, for it is no older than the history. *)
LEMMA CopyHasCause ==
  ASSUME LagBounded, NEW txs
  PROVE  FoundInCopy(txs) \subseteq WithSpentCoin(txs)
BY DEF LagBounded, FoundInCopy, WithSpentCoin

LEMMA SameRound ==
  ASSUME RoundKnows, UNCHANGED monitorVars
  PROVE  RoundKnows'
BY DEF RoundKnows, PunishedForCause, monitorVars

LEMMA RoundKnowsStep ==
  ASSUME CInv, [Next]_vars
  PROVE  RoundKnows'
<1> USE DEF CInv, RoundKnows, PunishedForCause
<1>1. CASE Node \/ MempoolThread \/ Traders \/ UNCHANGED vars
  <2>1. UNCHANGED monitorVars
    BY <1>1
    DEF Node, Enter, Drop, Mine, MempoolThread, GetRawMempool,
        GetRawTransaction, RebuildUtxoSet, ThreadOnly, Traders, TestSubmitted,
        LookupSubmitted, Take, vars
  <2> QED BY <2>1, SameRound
<1>2. CASE FetchAllBonds
  BY <1>2 DEF FetchAllBonds
<1>3. CASE TestBonds
  <2>1. /\ step = "test" /\ step' = "lookup"
        /\ rejected' = RejectedByNode(BondsOf(bonds))
        /\ grounds' = WithSpentCoin(BondsOf(bonds))
        /\ UNCHANGED <<invalid, removing>>
    BY <1>3 DEF TestBonds
  <2>2. BondsOf(bonds) \in SUBSET Txs
    BY BondsOfBonds DEF LInv, TypeOK
  <2>3. rejected' \subseteq grounds'
    BY <2>1, <2>2, RejectionHasCause
  <2> QED BY <2>1, <2>3
<1>4. CASE LookupBonds
  <2>1. /\ step = "lookup" /\ step' = "punish"
        /\ invalid' \in OnePerBond(rejected \cup FoundInCopy(BondsOf(bonds)))
        /\ rejected' = {} /\ removing' = removing
        /\ grounds' = grounds \cup WithSpentCoin(BondsOf(bonds))
    BY <1>4 DEF LookupBonds
  <2>2. rejected \cup FoundInCopy(BondsOf(bonds)) \subseteq grounds'
    BY <2>1, CopyHasCause DEF LInv
  <2>3. BondsOf(invalid') \subseteq grounds'
    BY <2>1, <2>2 DEF OnePerBond
  <2>4. \A o \in invalid' : BondOf[o] \in grounds'
    BY <2>3 DEF BondsOf
  <2> QED BY <2>1, <2>4
<1>5. ASSUME NEW o \in Offers, PublishBond(o) PROVE RoundKnows'
  BY <1>5 DEF PublishBond
<1>6. CASE RemoveViolatingBond
  BY <1>6 DEF RemoveViolatingBond
<1>7. CASE RoundEnds \/ RoundFails \/ Restart
  BY <1>7 DEF RoundEnds, RoundFails, Restart
<1> QED BY <1>1, <1>2, <1>3, <1>4, <1>5, <1>6, <1>7 DEF Next, Monitor

(* No bond of which no coin was spent is published, and no offer removed for
   it: not for a copy that lags, not for the other bonds of the round, not for
   a node that answered before the copy was looked up. *)
THEOREM NothingPunishedInVain == Spec => []PunishedForCause
<1>1. Init => CInv
  BY LInvInit
  DEF Init, CInv, MempoolRecent, RoundKnows, PunishedForCause, SpentBy
<1>2. CInv /\ [Next]_vars => CInv'
  BY LInvStep, MempoolRecentStep, RoundKnowsStep DEF CInv
<1>3. CInv => PunishedForCause
  BY DEF CInv, RoundKnows
<1> QED BY <1>1, <1>2, <1>3, PTL DEF Spec
=============================================================================

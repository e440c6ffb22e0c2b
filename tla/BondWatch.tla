------------------------------ MODULE BondWatch ------------------------------
(***************************************************************************)
(* How the coordinator finds out that a bond is void: the thread that      *)
(* copies the node's mempool (mempool_monitoring.rs), the validation of    *)
(* bonds against the node and against that copy (wallet/mod.rs), and the   *)
(* task that validates and punishes the bonds of all listed offers         *)
(* (bond_monitoring.rs).                                                   *)
(*                                                                         *)
(* OfferBook has these as one step each and bonds that share no coins;     *)
(* here the node, the copy and the validation are three parties that take  *)
(* steps at different times, and two offers may have the same bond.        *)
(* Amounts, addresses and the fee rate of a bond are in TradeAmounts: the  *)
(* bonds here meet the requirements.  PUNISHMENT_ENABLED is "1".           *)
(***************************************************************************)
EXTENDS SqlValues, FiniteSets

CONSTANTS Coins,      \* outputs the transactions spend
          Txs,        \* transactions, the bonds included
          Inputs,     \* the coins each of them spends
          Offers,     \* offer ids
          BondOf,     \* the bond transaction of the offer
          MaxFaults   \* bound: restarts and calls to the node that fail

ASSUME BondWatchAssumption ==
  /\ Inputs \in [Txs -> (SUBSET Coins) \ {{}}]
  /\ BondOf \in [Offers -> Txs]
  /\ NULL \notin Offers
  /\ MaxFaults \in Nat

Bonds == {BondOf[o] : o \in Offers}

VARIABLES
  mempool,        \* node: transactions in its mempool
  blocks,         \* node: transactions in its blocks
  refreshing,     \* mempool thread: is it between its listing and its rebuild?
  mempool_txs,    \* mempool thread: the last list of the node
  to_fetch,       \* mempool thread: listed, and not yet asked for
  transactions,   \* mempool thread: transactions whose inputs it holds
  utxo_set,       \* the coins these spend, which the validation looks up
  offers,         \* where an offer is
  step,           \* bond monitor: what it does next
  bonds,          \* bond monitor: offers fetched in this round
  rejected,       \* bond monitor: bonds the node would not take
  invalid,        \* bond monitor: offers whose bond is to be punished
  removing,       \* bond monitor: NULL, or punished and not yet removed
  grounds,        \* history: bonds of which a coin was spent at a check of
                  \*          this round
  recent,         \* history: coins spent in the mempool since the list that
                  \*          utxo_set was built from was made
  recenter,       \* history: the same since the last list
  faults

nodeVars == <<mempool, blocks>>
threadVars == <<refreshing, mempool_txs, to_fetch, transactions, utxo_set>>
monitorVars == <<step, bonds, rejected, invalid, removing, grounds>>
historyVars == <<recent, recenter>>
vars == <<nodeVars, threadVars, offers, monitorVars, historyVars, faults>>

OfferStates == {"new", "tested", "refused", "listed", "taken", "removed"}
Steps == {"sleep", "test", "lookup", "punish"}

SpentBy(txs) == UNION {Inputs[tx] : tx \in txs}

TypeOK ==
  /\ mempool \subseteq Txs /\ blocks \subseteq Txs
  /\ refreshing \in BOOLEAN
  /\ mempool_txs \subseteq Txs /\ to_fetch \subseteq mempool_txs
  /\ transactions \subseteq Txs
  /\ utxo_set \subseteq Coins
  /\ offers \in [Offers -> OfferStates]
  /\ step \in Steps
  /\ bonds \subseteq Offers /\ invalid \subseteq Offers
  /\ rejected \subseteq Bonds
  /\ removing \in Offers \cup {NULL}
  /\ grounds \subseteq Bonds
  /\ recent \subseteq Coins /\ recenter \subseteq Coins
  /\ faults \in 0..MaxFaults

Init ==
  /\ mempool = {} /\ blocks = {}
  /\ refreshing = FALSE
  /\ mempool_txs = {} /\ to_fetch = {} /\ transactions = {} /\ utxo_set = {}
  /\ offers = [o \in Offers |-> "new"]
  /\ step = "sleep" /\ bonds = {} /\ rejected = {} /\ invalid = {}
  /\ removing = NULL /\ grounds = {}
  /\ recent = {} /\ recenter = {}
  /\ faults = 0

Fault == faults < MaxFaults /\ faults' = faults + 1

-----------------------------------------------------------------------------
(* The node *)

InMempool(txs) ==
  /\ mempool' = txs
  /\ recent' = recent \cup SpentBy(txs)
  /\ recenter' = recenter \cup SpentBy(txs)

Conflicts(tx, txs) == {other \in txs \ {tx} : Inputs[other] \cap Inputs[tx] # {}}

Confirmable(tx) == tx \notin blocks /\ Conflicts(tx, blocks) = {}

(* A transaction of a trader's, which may be its own bond, replaces those in
   the mempool that spend the same coins. *)
Enter(tx) ==
  /\ tx \notin mempool
  /\ Confirmable(tx)
  /\ InMempool((mempool \ Conflicts(tx, mempool)) \cup {tx})
  /\ UNCHANGED <<blocks, threadVars, offers, monitorVars, faults>>

Drop(tx) ==
  /\ tx \in mempool
  /\ InMempool(mempool \ {tx})
  /\ UNCHANGED <<blocks, threadVars, offers, monitorVars, faults>>

(* A block may hold transactions that were never in the mempool. *)
Mine(tx) ==
  /\ Confirmable(tx)
  /\ blocks' = blocks \cup {tx}
  /\ InMempool(mempool \ (Conflicts(tx, mempool) \cup {tx}))
  /\ UNCHANGED <<threadVars, offers, monitorVars, faults>>

-----------------------------------------------------------------------------
(* run_mempool: every 15 seconds *)

ThreadOnly == UNCHANGED <<nodeVars, offers, monitorVars>>

(* Mutants: what an earlier list had is not asked for again, and what is held
   is *)
NewlyListed == mempool \ mempool_txs
HeldAgain == mempool \cup transactions

NotHeld == mempool \ transactions

(* An error of the node leaves the thread asleep. *)
GetRawMempool ==
  /\ ~refreshing
  /\ refreshing' = TRUE
  /\ mempool_txs' = mempool
  /\ to_fetch' = NotHeld
  /\ recenter' = SpentBy(mempool)
  /\ UNCHANGED <<transactions, utxo_set, recent, faults>>
  /\ ThreadOnly

(* The node indexes the transactions in blocks; one that was dropped since it
   was listed is not found.  What was not found is passed over. *)
GetRawTransaction(tx) ==
  /\ tx \in to_fetch
  /\ to_fetch' = to_fetch \ {tx}
  /\ \/ /\ tx \in mempool \cup blocks
        /\ transactions' = transactions \cup {tx}
        /\ UNCHANGED faults
     \/ /\ IF tx \in mempool \cup blocks THEN Fault ELSE UNCHANGED faults
        /\ UNCHANGED transactions
  /\ UNCHANGED <<refreshing, mempool_txs, utxo_set, historyVars>>
  /\ ThreadOnly

(* Mutant: what left the mempool is kept *)
AllHeld == transactions

Retained == transactions \cap mempool_txs

RebuildUtxoSet ==
  /\ refreshing /\ to_fetch = {}
  /\ refreshing' = FALSE
  /\ transactions' = Retained
  /\ utxo_set' = SpentBy(Retained)
  /\ recent' = recenter
  /\ UNCHANGED <<mempool_txs, to_fetch, recenter, faults>>
  /\ ThreadOnly

-----------------------------------------------------------------------------
(* validate_bonds *)

(* test_mempool_accept: a bond that the node has already, or whose coins are
   spent in a block, is rejected.  One whose coins are spent in the mempool
   pays a fee that makes the node replace what is there. *)
RejectedByNode(txs) == {b \in txs : b \in mempool \/ ~Confirmable(b)}

(* Mutant: a bond counts as void when all of its coins are spent *)
WhollyFoundInCopy(txs) == {b \in txs : Inputs[b] \subseteq utxo_set}

(* lookup_mempool_inputs *)
FoundInCopy(txs) == {b \in txs : Inputs[b] \cap utxo_set # {}}

BondsOf(os) == {BondOf[o] : o \in os}

(* validate_bond_tx_hex, with the bond of a maker's or a taker's call *)
TestSubmitted(o) ==
  /\ offers[o] = "new"
  /\ offers' = [offers EXCEPT ![o] =
       IF RejectedByNode({BondOf[o]}) = {} THEN "tested" ELSE "refused"]
  /\ UNCHANGED <<nodeVars, threadVars, monitorVars, historyVars, faults>>

LookupSubmitted(o) ==
  /\ offers[o] = "tested"
  /\ offers' = [offers EXCEPT ![o] =
       IF FoundInCopy({BondOf[o]}) = {} THEN "listed" ELSE "refused"]
  /\ UNCHANGED <<nodeVars, threadVars, monitorVars, historyVars, faults>>

(* A taker takes the offer: its row leaves the book, and nobody watches the
   bond any more. *)
Take(o) ==
  /\ offers[o] = "listed"
  /\ offers' = [offers EXCEPT ![o] = "taken"]
  /\ UNCHANGED <<nodeVars, threadVars, monitorVars, historyVars, faults>>

-----------------------------------------------------------------------------
(* monitor_bonds: one round every 15 seconds *)

MonitorOnly == UNCHANGED <<threadVars, faults>>

FetchAllBonds ==
  /\ step = "sleep"
  /\ bonds' = {o \in Offers : offers[o] = "listed"}
  /\ bonds' # {}
  /\ step' = "test"
  /\ UNCHANGED <<nodeVars, offers, rejected, invalid, removing, grounds, historyVars>>
  /\ MonitorOnly

(* Spent in a block; or in the mempool, as long ago as the copy may be old *)
WithSpentCoin(txs) == {b \in txs : Inputs[b] \cap (SpentBy(blocks) \cup recent) # {}}

TestBonds ==
  /\ step = "test"
  /\ step' = "lookup"
  /\ rejected' = RejectedByNode(BondsOf(bonds))
  /\ grounds' = WithSpentCoin(BondsOf(bonds))
  /\ UNCHANGED <<nodeVars, offers, bonds, invalid, removing, historyVars>>
  /\ MonitorOnly

(* The result is a map from the hash of a bond, so of two offers that have the
   same bond it holds one. *)
OnePerBond(txs) ==
  {os \in SUBSET bonds :
     /\ BondsOf(os) = txs
     /\ \A o, other \in os : BondOf[o] = BondOf[other] => o = other}

LookupBonds ==
  /\ step = "lookup"
  /\ step' = "punish"
  /\ invalid' \in OnePerBond(rejected \cup FoundInCopy(BondsOf(bonds)))
  /\ bonds' = {} /\ rejected' = {}
  /\ grounds' = grounds \cup WithSpentCoin(BondsOf(bonds))
  /\ UNCHANGED <<nodeVars, offers, removing, historyVars>>
  /\ MonitorOnly

(* The node refuses a bond whose coins are spent in a block, its own block
   included: the error ends the round. *)
PublishBond(o) ==
  /\ step = "punish" /\ removing = NULL
  /\ o \in invalid
  /\ IF Confirmable(BondOf[o])
     THEN /\ InMempool((mempool \ Conflicts(BondOf[o], mempool)) \cup {BondOf[o]})
          /\ invalid' = invalid \ {o}
          /\ removing' = o
          /\ UNCHANGED <<step, grounds>>
     ELSE /\ step' = "sleep" /\ invalid' = {} /\ grounds' = {}
          /\ UNCHANGED <<mempool, removing, historyVars>>
  /\ UNCHANGED <<blocks, offers, bonds, rejected>>
  /\ MonitorOnly

RemoveViolatingBond ==
  /\ removing # NULL
  /\ offers' = [offers EXCEPT ![removing] = IF @ = "listed" THEN "removed" ELSE @]
  /\ removing' = NULL
  /\ UNCHANGED <<nodeVars, step, bonds, rejected, invalid, grounds, historyVars>>
  /\ MonitorOnly

RoundEnds ==
  /\ step = "punish" /\ invalid = {} /\ removing = NULL
  /\ step' = "sleep" /\ grounds' = {}
  /\ UNCHANGED <<nodeVars, offers, bonds, rejected, invalid, removing, historyVars>>
  /\ MonitorOnly

(* An error of the node or of the database ends the round for all bonds; the
   monitor is started again. *)
RoundFails ==
  /\ step # "sleep"
  /\ Fault
  /\ step' = "sleep" /\ bonds' = {} /\ rejected' = {} /\ invalid' = {}
  /\ removing' = NULL /\ grounds' = {}
  /\ UNCHANGED <<nodeVars, threadVars, offers, historyVars>>

(* The coordinator starts again with its database, and with an empty copy. *)
Restart ==
  /\ Fault
  /\ refreshing' = FALSE
  /\ mempool_txs' = {} /\ to_fetch' = {} /\ transactions' = {} /\ utxo_set' = {}
  /\ offers' = [o \in Offers |-> IF offers[o] = "tested" THEN "refused" ELSE offers[o]]
  /\ step' = "sleep" /\ bonds' = {} /\ rejected' = {} /\ invalid' = {}
  /\ removing' = NULL /\ grounds' = {}
  /\ UNCHANGED <<nodeVars, historyVars>>

-----------------------------------------------------------------------------
Node == \E tx \in Txs : Enter(tx) \/ Drop(tx) \/ Mine(tx)

MempoolThread ==
  \/ GetRawMempool
  \/ \E tx \in Txs : GetRawTransaction(tx)
  \/ RebuildUtxoSet

Traders == \E o \in Offers : TestSubmitted(o) \/ LookupSubmitted(o) \/ Take(o)

Monitor ==
  \/ FetchAllBonds
  \/ TestBonds
  \/ LookupBonds
  \/ \E o \in Offers : PublishBond(o)
  \/ RemoveViolatingBond
  \/ RoundEnds

Next == Node \/ MempoolThread \/ Traders \/ Monitor \/ RoundFails \/ Restart

(* The thread and the task run for ever; main starts the task again after an
   error. *)
Fairness == WF_vars(MempoolThread) /\ WF_vars(Monitor)

Spec == Init /\ [][Next]_vars /\ Fairness

-----------------------------------------------------------------------------
(* Properties *)

(* The validation reads utxo_set while the thread works on the next one.  A
   coin it finds there was spent in the mempool at some time since the last
   completed refresh began: what was dropped before that does not count against
   a bond (run_mempool keeps what it fetched over all refreshes, and fetches
   while the node goes on). *)
LagBounded == utxo_set \subseteq recent

(* A bond is published, and its offer removed, only if a coin of the bond was
   spent at one of the two checks of this round: in a block, or in the mempool
   since the list was made that the copy of then was built from.  Neither a
   copy that lags, nor what became of the other bonds of the round, costs a
   trader its bond that left its coins alone. *)
PunishedForCause ==
  \A o \in invalid \cup ({removing} \ {NULL}) : BondOf[o] \in grounds

(* A coin spent by a transaction that stays in the mempool is found sooner or
   later, though the node may not return the transaction when asked, it may
   come right after a list was made, and the copy may be lost. *)
SpendNoticed ==
  \A tx \in Txs :
    tx \in mempool ~> (tx \notin mempool \/ Inputs[tx] \subseteq utxo_set)

(* A listed offer whose bond is void, for its coins stay spent, leaves the book,
   also if the spend moves from the mempool to a block between the two checks
   of validate_bonds, or shares its bond with another offer, of which only one
   is in the result.  A bond that the node refuses aside, as in OfferBook. *)
Void(o, tx) ==
  offers[o] = "listed" /\ tx \in mempool \cup blocks /\ Inputs[tx] \cap Inputs[BondOf[o]] # {}
Refused == \E o \in Offers : offers[o] = "listed" /\ ~Confirmable(BondOf[o])
VoidBondLeaves ==
  \A o \in Offers, tx \in Txs : Void(o, tx) ~> (~Void(o, tx) \/ Refused)
=============================================================================

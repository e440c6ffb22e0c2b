------------------------------ MODULE OfferBook ------------------------------
(***************************************************************************)
(* The offer book of the coordinator: from the maker's request to the row  *)
(* of taken_offers that Settlement begins with, and the task that watches  *)
(* the bonds of the listed offers.                                         *)
(*                                                                         *)
(* As in Settlement a step of a handler ends at an await that reads or     *)
(* writes shared state, and a trader makes one call at a time.  The rows   *)
(* of active_maker_offers never change while they exist, so reads of one   *)
(* row that follow each other are joined with the last of them.            *)
(*                                                                         *)
(* A bond transaction spends coins of its trader and pays the coordinator. *)
(* Of its amounts, addresses, fee rate and signatures the model keeps one  *)
(* number: the trade amount whose requirements the bond meets.             *)
(***************************************************************************)
EXTENDS SqlValues, FiniteSets

CONSTANTS Makers, Takers,   \* the robots that run the trader program
          Offers,           \* offer ids; generate_random_order_id picks one
          Amounts,          \* trade amounts
          MaxFaults,        \* bound: calls that end early, rounds that fail
          MaxSpends         \* bound: traders that spend the coins of their bond

Robots == Makers \cup Takers

ASSUME OfferBookAssumption ==
  /\ Makers \cap Takers = {}
  /\ Amounts \subseteq Nat
  /\ MaxFaults \in Nat
  /\ MaxSpends \in Nat
  /\ NULL \notin Robots \cup Offers \cup Nat

VARIABLES
  maker_requests,        \* NULL or the request that awaits the maker's bond
  active_maker_offers,   \* NULL or the row of the listed offer
  taken_offers,          \* NULL or the maker and the taker of the taken offer
  issued,                \* offer ids that were ever given to an offer
  pc,                    \* what the robot's running handler does next
  call,                  \* the local variables of that handler
  offer_of,              \* the offer the robot was told it made or took
  psbt_of,               \* the taker whose escrow psbt the robot was given
  coins,                 \* what spends the coins a robot uses in this module
  snapshot,              \* bond monitor: bonds fetched and not yet checked
  violating,             \* bond monitor: bonds found invalid in this round
  removing,              \* bond monitor: NULL, or published and not yet removed
  published,             \* offers whose maker's bond was published
  faults

bookVars == <<maker_requests, active_maker_offers, taken_offers, issued>>
handlerVars == <<pc, call, offer_of, psbt_of>>
monitorVars == <<snapshot, violating, removing>>
vars == <<bookVars, handlerVars, monitorVars, coins, published, faults>>

Steps ==
  {"idle", "validate_maker", "select_request", "delete_request",
   "insert_offer", "validate_taker", "select_offer", "delete_offer",
   "insert_taken"}

(* A maker's handler has an id for its offer, and has not listed it yet. *)
Preparing == {"select_request", "delete_request", "insert_offer"}

Request == [is_buy_order : {1, NULL}, amount_sat : Amounts]
ActiveOffer ==
  [is_buy_order : {1, NULL}, amount_sat : Amounts, robohash : Makers,
   bond : Amounts]
TakenOffer == [maker : Makers, taker : Takers]
MonitoringBond == [trade_id : Offers, robot : Makers]

ASSUME NullIsNoRow ==
  NULL \notin Request \cup ActiveOffer \cup TakenOffer \cup MonitoringBond

(* Not spent; spent by a transaction in the mempool, which the coordinator's
   copy of the mempool does not have yet ("spent") or has ("noticed"); spent by
   the bond itself in the mempool; spent in a block.  Module BondWatch has the
   copy, its refreshes, and transactions that are dropped again. *)
CoinStates == {"unspent", "spent", "noticed", "bond", "mined"}

NoCall == [offer |-> NULL, bond |-> NULL, required |-> NULL, row |-> NULL]

TypeOK ==
  /\ maker_requests \in [Makers -> Request \cup {NULL}]
  /\ active_maker_offers \in [Offers -> ActiveOffer \cup {NULL}]
  /\ taken_offers \in [Offers -> TakenOffer \cup {NULL}]
  /\ issued \subseteq Offers
  /\ pc \in [Robots -> Steps]
  /\ call \in [Robots -> [offer : Offers \cup {NULL},
                          bond : Amounts \cup {NULL},
                          required : Amounts \cup {NULL},
                          row : Request \cup ActiveOffer \cup {NULL}]]
  /\ offer_of \in [Robots -> Offers \cup {NULL}]
  /\ psbt_of \in [Robots -> Takers \cup {NULL}]
  /\ coins \in [Robots -> CoinStates]
  /\ snapshot \subseteq MonitoringBond
  /\ violating \subseteq MonitoringBond
  /\ removing \in MonitoringBond \cup {NULL}
  /\ published \subseteq Offers
  /\ faults \in 0..MaxFaults

Init ==
  /\ maker_requests = [m \in Makers |-> NULL]
  /\ active_maker_offers = [o \in Offers |-> NULL]
  /\ taken_offers = [o \in Offers |-> NULL]
  /\ issued = {}
  /\ pc = [r \in Robots |-> "idle"]
  /\ call = [r \in Robots |-> NoCall]
  /\ offer_of = [r \in Robots |-> NULL]
  /\ psbt_of = [r \in Robots |-> NULL]
  /\ coins = [r \in Robots |-> "unspent"]
  /\ snapshot = {}
  /\ violating = {}
  /\ removing = NULL
  /\ published = {}
  /\ faults = 0

-----------------------------------------------------------------------------
(* How a handler goes on *)

At(r, step) == pc[r] = step

Continue(r, step, locals) ==
  /\ pc' = [pc EXCEPT ![r] = step]
  /\ call' = [call EXCEPT ![r] = locals]
  /\ UNCHANGED <<offer_of, psbt_of>>

(* The trader is told which offer it made or took, and with whose escrow psbt. *)
Reply(r, o, psbt) ==
  /\ pc' = [pc EXCEPT ![r] = "idle"]
  /\ call' = [call EXCEPT ![r] = NoCall]
  /\ offer_of' = [offer_of EXCEPT ![r] = o]
  /\ psbt_of' = [psbt_of EXCEPT ![r] = psbt]

(* An error response: the program exits, and may be started again. *)
Fail(r) == Reply(r, NULL, NULL)

CanCall(r) == At(r, "idle") /\ offer_of[r] = NULL

Fault == faults < MaxFaults /\ faults' = faults + 1

OnlyHandlers == UNCHANGED <<bookVars, monitorVars, coins, published, faults>>
OnlyBook == UNCHANGED <<monitorVars, coins, published, faults>>
OnlyMonitor == UNCHANGED <<handlerVars, faults>>

(* test_mempool_accept_bonds refuses a bond whose coins are spent in a block, or
   that is in the mempool; lookup_mempool_inputs looks them up in the copy. *)
Void(r) == coins[r] \in {"noticed", "bond", "mined"}

(* validate_bond_tx_hex *)
BondValid(r, bond, required) == bond >= required /\ ~Void(r)

-----------------------------------------------------------------------------
(* process_order: the row of an earlier request is replaced *)

ProcessOrder(m, buy, amount) ==
  /\ CanCall(m)
  /\ maker_requests' = [maker_requests EXCEPT ![m] =
       [is_buy_order |-> BoolToSqlInt(buy), amount_sat |-> amount]]
  /\ UNCHANGED <<active_maker_offers, taken_offers, issued, handlerVars>>
  /\ OnlyBook

(* handle_maker_bond *)

(* Mutant: the query forgets whose request it is *)
AnyBondRequirements(m) ==
  {maker_requests[q].amount_sat : q \in {p \in Makers : maker_requests[p] # NULL}}

BondRequirements(m) ==
  {maker_requests[q].amount_sat : q \in {p \in {m} : maker_requests[p] # NULL}}

SubmitMakerBond(m, bond) ==
  /\ CanCall(m)
  /\ \E required \in BondRequirements(m) :
       Continue(m, "validate_maker",
                [NoCall EXCEPT !.bond = bond, !.required = required])
  /\ OnlyHandlers

(* Mutant: an id may return when its offer has left the list *)
UnlistedIds == {o \in Offers : active_maker_offers[o] = NULL}

(* generate_random_order_id: 16 random bytes are never drawn twice *)
FreshIds == Offers \ issued

ValidateMakerBond(m) ==
  /\ At(m, "validate_maker")
  /\ IF BondValid(m, call[m].bond, call[m].required)
     THEN \E o \in FreshIds :
            /\ issued' = issued \cup {o}
            /\ Continue(m, "select_request", [call[m] EXCEPT !.offer = o])
     ELSE Fail(m) /\ UNCHANGED issued
  /\ UNCHANGED <<maker_requests, active_maker_offers, taken_offers>>
  /\ OnlyBook

SelectRequest(m) ==
  /\ At(m, "select_request")
  /\ IF maker_requests[m] = NULL THEN Fail(m)
     ELSE Continue(m, "delete_request",
                   [call[m] EXCEPT !.row = maker_requests[m]])
  /\ OnlyHandlers

DeleteRequest(m) ==
  /\ At(m, "delete_request")
  /\ maker_requests' = [maker_requests EXCEPT ![m] = NULL]
  /\ Continue(m, "insert_offer", call[m])
  /\ UNCHANGED <<active_maker_offers, taken_offers, issued>>
  /\ OnlyBook

InsertOffer(m) ==
  /\ At(m, "insert_offer")
  /\ active_maker_offers' = [active_maker_offers EXCEPT ![call[m].offer] =
       [is_buy_order |-> call[m].row.is_buy_order,
        amount_sat |-> call[m].row.amount_sat,
        robohash |-> m, bond |-> call[m].bond]]
  /\ Reply(m, call[m].offer, NULL)
  /\ UNCHANGED <<maker_requests, taken_offers, issued>>
  /\ OnlyBook

-----------------------------------------------------------------------------
(* get_public_offers *)

Listed == {o \in Offers : active_maker_offers[o] # NULL}

FetchSuitableOffers(buy, min, max) ==
  {o \in Listed :
     /\ SqlEqual(active_maker_offers[o].is_buy_order, IF buy THEN 1 ELSE 0)
     /\ active_maker_offers[o].amount_sat \in min..max}

(* handle_taker_bond.  The taker picks an offer from a list it fetched; the
   row is still there when the handler begins. *)
SubmitTakerBond(t, o, bond) ==
  /\ CanCall(t)
  /\ \E buy \in BOOLEAN, amount \in Amounts :
       o \in FetchSuitableOffers(buy, amount, amount)
  /\ Continue(t, "validate_taker",
              [NoCall EXCEPT !.offer = o, !.bond = bond,
                 !.required = active_maker_offers[o].amount_sat])
  /\ OnlyHandlers

ValidateTakerBond(t) ==
  /\ At(t, "validate_taker")
  /\ IF BondValid(t, call[t].bond, call[t].required)
     THEN Continue(t, "select_offer", call[t])
     ELSE Fail(t)
  /\ OnlyHandlers

(* Mutant: the row is deleted before the psbt, which may fail, is made *)
SelectOfferDeleted(t) ==
  /\ At(t, "select_offer")
  /\ active_maker_offers' =
       [active_maker_offers EXCEPT ![call[t].offer] = NULL]
  /\ \/ /\ call[t].offer \in Listed
        /\ Continue(t, "delete_offer",
             [call[t] EXCEPT !.row = active_maker_offers[call[t].offer]])
     \/ Fail(t)
  /\ UNCHANGED <<maker_requests, taken_offers, issued>>
  /\ OnlyBook

(* create_escrow_psbt, which may fail, and the query of
   fetch_and_delete_offer_from_public_offers_table *)
SelectOffer(t) ==
  /\ At(t, "select_offer")
  /\ \/ /\ call[t].offer \in Listed
        /\ Continue(t, "delete_offer",
             [call[t] EXCEPT !.row = active_maker_offers[call[t].offer]])
     \/ Fail(t)
  /\ OnlyHandlers

(* Mutant: the row is copied, not moved *)
KeepOffer(t) ==
  /\ At(t, "delete_offer")
  /\ Continue(t, "insert_taken", call[t])
  /\ OnlyHandlers

DeleteOffer(t) ==
  /\ At(t, "delete_offer")
  /\ active_maker_offers' =
       [active_maker_offers EXCEPT ![call[t].offer] = NULL]
  /\ Continue(t, "insert_taken", call[t])
  /\ UNCHANGED <<maker_requests, taken_offers, issued>>
  /\ OnlyBook

InsertTaken(t) ==
  /\ At(t, "insert_taken")
  /\ taken_offers' = [taken_offers EXCEPT ![call[t].offer] =
       [maker |-> call[t].row.robohash, taker |-> t]]
  /\ Reply(t, call[t].offer, t)
  /\ UNCHANGED <<maker_requests, active_maker_offers, issued>>
  /\ OnlyBook

(* get_offer_status_maker, polled every two seconds *)
GetOfferStatusMaker(m) ==
  /\ At(m, "idle")
  /\ offer_of[m] # NULL
  /\ psbt_of[m] = NULL
  /\ taken_offers[offer_of[m]] # NULL
  /\ Reply(m, offer_of[m], taken_offers[offer_of[m]].taker)
  /\ OnlyHandlers

-----------------------------------------------------------------------------
(* monitor_bonds: one round every 15 seconds, with PUNISHMENT_ENABLED=1 *)

(* Mutant: a bond that was published is not looked at again *)
UnpublishedBonds ==
  {[trade_id |-> o, robot |-> active_maker_offers[o].robohash] :
     o \in Listed \ published}

AllBonds ==
  {[trade_id |-> o, robot |-> active_maker_offers[o].robohash] : o \in Listed}

FetchAllBonds ==
  /\ snapshot = {} /\ violating = {} /\ removing = NULL
  /\ snapshot' = AllBonds
  /\ UNCHANGED <<bookVars, violating, removing, coins, published>>
  /\ OnlyMonitor

(* Mutant: every bond of a round with a violation is punished *)
ViolatesWithOthers(b) == \E other \in snapshot : Void(other.robot)

Violates(b) == Void(b.robot)

ValidateBond(b) ==
  /\ b \in snapshot
  /\ snapshot' = snapshot \ {b}
  /\ violating' = IF Violates(b) THEN violating \cup {b} ELSE violating
  /\ UNCHANGED <<bookVars, removing, coins, published>>
  /\ OnlyMonitor

(* An error of the node for one bond ends the round for all of them. *)
ValidateBondsFails ==
  /\ snapshot # {}
  /\ Fault
  /\ snapshot' = {} /\ violating' = {}
  /\ UNCHANGED <<bookVars, handlerVars, removing, coins, published>>

(* Mutant: an offer whose bond the node refuses is removed as well *)
PublishOrRemove(b) ==
  /\ snapshot = {} /\ removing = NULL
  /\ b \in violating
  /\ IF coins[b.robot] = "mined"
     THEN UNCHANGED <<coins, published>>
     ELSE /\ coins' = [coins EXCEPT ![b.robot] = "bond"]
          /\ published' = published \cup {b.trade_id}
  /\ removing' = b
  /\ violating' = violating \ {b}
  /\ UNCHANGED <<bookVars, snapshot>>
  /\ OnlyMonitor

(* The bond replaces what spends its inputs in the mempool.  The node refuses
   it when they are spent in a block: the error ends the round, and the offer
   is not removed. *)
Publish(b) ==
  /\ snapshot = {} /\ removing = NULL
  /\ b \in violating
  /\ IF coins[b.robot] = "mined"
     THEN violating' = {} /\ UNCHANGED <<removing, coins, published>>
     ELSE /\ coins' = [coins EXCEPT ![b.robot] = "bond"]
          /\ published' = published \cup {b.trade_id}
          /\ removing' = b
          /\ violating' = violating \ {b}
  /\ UNCHANGED <<bookVars, snapshot>>
  /\ OnlyMonitor

RemoveViolatingBond ==
  /\ removing # NULL
  /\ active_maker_offers' =
       [active_maker_offers EXCEPT ![removing.trade_id] = NULL]
  /\ removing' = NULL
  /\ UNCHANGED <<maker_requests, taken_offers, issued, snapshot, violating,
                 coins, published>>
  /\ OnlyMonitor

-----------------------------------------------------------------------------
(* The traders and the node *)

OnlyCoins == UNCHANGED <<bookVars, handlerVars, monitorVars, published, faults>>

CoinsBecome(r, states, new) ==
  /\ coins[r] \in states
  /\ coins' = [coins EXCEPT ![r] = new]
  /\ OnlyCoins

(* A trader spends the coins of its bond. *)
SpendCoins(r) ==
  /\ Cardinality({q \in Robots : coins[q] # "unspent"}) < MaxSpends
  /\ CoinsBecome(r, {"unspent"}, "spent")

(* The copy of the mempool gets to see it. *)
NoticeSpend(r) == CoinsBecome(r, {"spent"}, "noticed")

MineSpend(r) == CoinsBecome(r, {"spent", "noticed", "bond"}, "mined")

(* Both traders sign the escrow psbt of the row, and it is broadcast: it
   spends the coins of both bonds. *)
LockEscrow(m, t) ==
  /\ offer_of[m] # NULL /\ offer_of[t] = offer_of[m]
  /\ psbt_of[m] = t
  /\ taken_offers[offer_of[m]] = [maker |-> m, taker |-> t]
  /\ \A r \in {m, t} : coins[r] = "unspent"
  /\ coins' = [coins EXCEPT ![m] = "spent", ![t] = "spent"]
  /\ OnlyCoins

(* The trader disconnects; its handler is dropped where it awaits. *)
Leave(r) ==
  /\ Fault
  /\ Fail(r)
  /\ UNCHANGED <<bookVars, monitorVars, coins, published>>

(* The coordinator stops and starts again with its database. *)
Restart ==
  /\ Fault
  /\ pc' = [r \in Robots |-> "idle"]
  /\ call' = [r \in Robots |-> NoCall]
  /\ snapshot' = {} /\ violating' = {} /\ removing' = NULL
  /\ UNCHANGED <<bookVars, offer_of, psbt_of, coins, published>>

-----------------------------------------------------------------------------
MakerStep(m) ==
  \/ ValidateMakerBond(m)
  \/ SelectRequest(m)
  \/ DeleteRequest(m)
  \/ InsertOffer(m)

TakerStep(t) ==
  \/ ValidateTakerBond(t)
  \/ SelectOffer(t)
  \/ DeleteOffer(t)
  \/ InsertTaken(t)

MonitorStep ==
  \/ FetchAllBonds
  \/ \E b \in MonitoringBond : ValidateBond(b) \/ Publish(b)
  \/ RemoveViolatingBond

Next ==
  \/ \E m \in Makers, buy \in BOOLEAN, amount \in Amounts :
       ProcessOrder(m, buy, amount)
  \/ \E m \in Makers, bond \in Amounts : SubmitMakerBond(m, bond)
  \/ \E m \in Makers : MakerStep(m) \/ GetOfferStatusMaker(m)
  \/ \E t \in Takers, o \in Offers, bond \in Amounts : SubmitTakerBond(t, o, bond)
  \/ \E t \in Takers : TakerStep(t)
  \/ MonitorStep
  \/ ValidateBondsFails
  \/ \E r \in Robots :
       SpendCoins(r) \/ NoticeSpend(r) \/ MineSpend(r) \/ Leave(r)
  \/ \E m \in Makers, t \in Takers : LockEscrow(m, t)
  \/ Restart

Spec == Init /\ [][Next]_vars

(* The executor runs every handler and the monitor's loop; the mempool thread
   refreshes its copy for ever. *)
Fairness ==
  /\ \A m \in Makers : WF_vars(MakerStep(m)) /\ WF_vars(GetOfferStatusMaker(m))
  /\ \A t \in Takers : WF_vars(TakerStep(t))
  /\ WF_vars(MonitorStep)
  /\ \A r \in Robots : WF_vars(NoticeSpend(r))

FairSpec == Spec /\ Fairness

-----------------------------------------------------------------------------
(* Properties *)

(* What is listed was validated against the terms it is listed with, though
   handle_maker_bond reads the request twice: once for the requirements, and
   once, after the validation, to move it. *)
ListedAsValidated ==
  \A o \in Listed : active_maker_offers[o].bond >= active_maker_offers[o].amount_sat

(* The move of an offer: it is never listed and taken at once, whichever of
   several takers, and of the monitor, removes its row. *)
OneTable == \A o \in Listed : taken_offers[o] = NULL

BeforeListing(o) == \E m \in Makers : call[m].offer = o /\ pc[m] \in Preparing
Moving(o) == \E t \in Takers : At(t, "insert_taken") /\ call[t].offer = o

(* An offer does not get lost: it is listed, taken, in the hands of the handler
   that lists or moves it, or was removed with its bond published. *)
NoOfferLost ==
  \A o \in issued :
    \/ o \in Listed \/ taken_offers[o] # NULL \/ o \in published
    \/ Moving(o) \/ BeforeListing(o)

(* monitor_bonds publishes no bond whose coins were left alone, whatever became
   of the other bonds of its round. *)
PublishedForCause ==
  [][\A b \in MonitoringBond :
       removing' = b /\ removing # b => coins[b.robot] # "unspent"]_vars

(* An offer whose bond became invalid leaves the book, though a round may fail
   and the coordinator may stop between publishing the bond and the deletion;
   unless punish meets a bond that the node refuses. *)
Violator(o) ==
  o \in Listed /\ coins[active_maker_offers[o].robohash] # "unspent"
Refused == \E o \in Listed : coins[active_maker_offers[o].robohash] = "mined"
ViolatorRemoved == \A o \in Offers : Violator(o) ~> (o \notin Listed \/ Refused)

(* The same without the exception: what the comment on punish says. *)
EveryViolatorRemoved == \A o \in Offers : Violator(o) ~> (o \notin Listed)

(* fetch_suitable_offers finds a listed offer for a taker that asks for its
   kind and amount. *)
EveryOfferFound ==
  \A o \in Listed :
    LET row == active_maker_offers[o]
    IN  o \in FetchSuitableOffers(row.is_buy_order = 1, row.amount_sat, row.amount_sat)

(* A taker whom handle_taker_bond told that it took an offer is, and stays, the
   taker on record. *)
TakerKeepsOffer ==
  \A t \in Takers :
    offer_of[t] # NULL => /\ taken_offers[offer_of[t]] # NULL
                          /\ taken_offers[offer_of[t]].taker = t
=============================================================================

----------------------- MODULE OfferBookListingsProofs -----------------------
(***************************************************************************)
(* The proof that OfferBook implements Listings, and what follows from it  *)
(* for the maker on record.  Every action is matched with the one step of  *)
(* one offer that it takes; what the handlers and the monitor still know   *)
(* of what they read earlier comes from the invariant BInv.                *)
(***************************************************************************)
EXTENDS OfferBookListings, OfferBookProofs

(* The monitor holds bonds of offers that were listed, which a draft never is,
   and removes none whose bond it did not publish. *)
WasListed(o) == o \in issued /\ \A d \in Drafts : d.offer # o
BondsWereListed == \A b \in snapshot \cup violating : WasListed(b.trade_id)

RInv == BInv /\ RemovingIsPublished /\ BondsWereListed

-----------------------------------------------------------------------------
(* What the handlers have in their hands *)

LEMMA SameHands ==
  UNCHANGED <<pc, call>> => Drafts' = Drafts /\ Claims' = Claims
BY DEF Drafts, Drafting, DraftOf, Claims, Claiming, ClaimOf

(* A maker's handler changes its own draft, and no claim. *)
LEMMA MakerHands ==
  ASSUME NEW m \in Makers,
         \A q \in Robots \ {m} : pc'[q] = pc[q] /\ call'[q] = call[q]
  PROVE  /\ Claims' = Claims
         /\ pc'[m] \notin Preparing => Drafts' = Drafts \ {DraftOf(m)}
         /\ pc[m] \notin Preparing /\ pc'[m] \notin Preparing => Drafts' = Drafts
         /\ pc[m] \in Preparing /\ pc'[m] \in Preparing
              /\ call'[m].offer = call[m].offer => Drafts' = Drafts
         /\ pc[m] \notin Preparing /\ pc'[m] \in Preparing =>
              Drafts' = Drafts \cup {[offer |-> call'[m].offer, maker |-> m]}
<1>1. \A t \in Takers : pc'[t] = pc[t] /\ call'[t] = call[t]
  BY Sets
<1>2. Claiming' = Claiming /\ \A t \in Claiming : ClaimOf(t)' = ClaimOf(t)
  BY <1>1 DEF Claiming, ClaimOf
<1>3. Claims' = Claims
  BY <1>2 DEF Claims
<1>4. \A q \in Makers \ {m} : DraftOf(q)' = DraftOf(q)
                              /\ (q \in Drafting' <=> q \in Drafting)
  BY Sets DEF Drafting, DraftOf
<1>5. \A q \in Makers : DraftOf(q).maker = q /\ DraftOf(q)'.maker = q
  BY DEF DraftOf
<1>6. /\ m \in Drafting <=> pc[m] \in Preparing
      /\ m \in Drafting' <=> pc'[m] \in Preparing
      /\ Drafting \subseteq Makers /\ Drafting' \subseteq Makers
  BY DEF Drafting
<1>7. /\ \A d : d \in Drafts <=> \E q \in Drafting : d = DraftOf(q)
      /\ \A d : d \in Drafts' <=> \E q \in Drafting' : d = DraftOf(q)'
  BY DEF Drafts
<1>8. call'[m].offer = call[m].offer => DraftOf(m)' = DraftOf(m)
  BY DEF DraftOf
<1>9. DraftOf(m)' = [offer |-> call'[m].offer, maker |-> m]
  BY DEF DraftOf
<1>10. QED
  BY <1>3, <1>4, <1>5, <1>6, <1>7, <1>8, <1>9

(* A taker's handler changes its own claim, and no draft. *)
LEMMA TakerHands ==
  ASSUME NEW t \in Takers,
         \A q \in Robots \ {t} : pc'[q] = pc[q] /\ call'[q] = call[q]
  PROVE  /\ Drafts' = Drafts
         /\ t \notin Claiming' => Claims' = Claims \ {ClaimOf(t)}
         /\ t \notin Claiming /\ t \notin Claiming' => Claims' = Claims
         /\ t \in Claiming /\ t \in Claiming' /\ call'[t] = call[t] =>
              Claims' = Claims
         /\ t \notin Claiming /\ t \in Claiming' =>
              Claims' = Claims \cup {ClaimOf(t)'}
<1>1. \A m \in Makers : pc'[m] = pc[m] /\ call'[m] = call[m]
  BY Sets
<1>2. Drafting' = Drafting /\ \A m \in Drafting : DraftOf(m)' = DraftOf(m)
  BY <1>1 DEF Drafting, DraftOf
<1>3. Drafts' = Drafts
  BY <1>2 DEF Drafts
<1>4. \A q \in Takers \ {t} : ClaimOf(q)' = ClaimOf(q)
                              /\ (q \in Claiming' <=> q \in Claiming)
  BY Sets DEF Claiming, ClaimOf
<1>5. \A q \in Takers : ClaimOf(q).taker = q /\ ClaimOf(q)'.taker = q
  BY DEF ClaimOf
<1>6. Claiming \subseteq Takers /\ Claiming' \subseteq Takers
  BY DEF Claiming
<1>7. /\ \A c : c \in Claims <=> \E q \in Claiming : c = ClaimOf(q)
      /\ \A c : c \in Claims' <=> \E q \in Claiming' : c = ClaimOf(q)'
  BY DEF Claims
<1>8. call'[t] = call[t] => ClaimOf(t)' = ClaimOf(t)
  BY DEF ClaimOf
<1>9. t \notin Claiming' => Claims' = Claims \ {ClaimOf(t)}
  BY <1>4, <1>5, <1>6, <1>7
<1>10. t \notin Claiming /\ t \notin Claiming' => Claims' = Claims
  BY <1>4, <1>6, <1>7
<1>11. t \in Claiming /\ t \in Claiming' /\ call'[t] = call[t] => Claims' = Claims
  BY <1>4, <1>6, <1>7, <1>8
<1>12. t \notin Claiming /\ t \in Claiming' => Claims' = Claims \cup {ClaimOf(t)'}
  BY <1>4, <1>6, <1>7
<1>13. QED
  BY <1>3, <1>9, <1>10, <1>11, <1>12

(* A step that leaves the tables and what the handlers hold alone does not
   show; most steps leave the tables alone. *)
tables == <<issued, active_maker_offers, taken_offers, published>>

LEMMA Hidden ==
  UNCHANGED tables /\ Drafts' = Drafts /\ Claims' = Claims
    => UNCHANGED Book!vars
BY DEF tables, Book!vars, ListedBy

LEMMA HiddenBooks ==
  ASSUME \/ (\E m \in Makers, buy \in BOOLEAN, amount \in Amounts :
               ProcessOrder(m, buy, amount))
         \/ FetchAllBonds \/ ValidateBondsFails
         \/ (\E b \in MonitoringBond : ValidateBond(b))
         \/ (\E r \in Robots : SpendCoins(r) \/ NoticeSpend(r) \/ MineSpend(r))
         \/ (\E m \in Makers, t \in Takers : LockEscrow(m, t))
         \/ UNCHANGED vars
  PROVE  UNCHANGED Book!vars
<1>1. UNCHANGED tables /\ UNCHANGED <<pc, call>>
  BY DEF tables, ProcessOrder, FetchAllBonds, ValidateBondsFails, ValidateBond,
         SpendCoins, NoticeSpend, MineSpend, LockEscrow, CoinsBecome, OnlyCoins,
         OnlyBook, OnlyMonitor, bookVars, handlerVars, vars
<1>2. QED
  BY <1>1, SameHands, Hidden

LEMMA HandlerContinues ==
  ASSUME TypeOK, NEW r \in Robots, NEW step, NEW locals, Continue(r, step, locals)
  PROVE  /\ pc'[r] = step /\ call'[r] = locals
         /\ \A q \in Robots \ {r} : pc'[q] = pc[q] /\ call'[q] = call[q]
BY DEF Continue, TypeOK

LEMMA HandlerEndsAlone ==
  ASSUME TypeOK, NEW r \in Robots, NEW o, NEW psbt, Reply(r, o, psbt)
  PROVE  /\ pc'[r] = "idle"
         /\ \A q \in Robots \ {r} : pc'[q] = pc[q] /\ call'[q] = call[q]
BY DEF Reply, TypeOK

(* What a handler does before it has an id, or the row of an offer *)
LEMMA HiddenMakers ==
  ASSUME TypeOK, NEW m \in Makers,
         \/ (\E bond \in Amounts : SubmitMakerBond(m, bond))
         \/ GetOfferStatusMaker(m)
         \/ DeleteRequest(m)
  PROVE  UNCHANGED Book!vars
<1>1. m \in Robots
  BY Sets
<1>2. UNCHANGED tables
  BY DEF tables, SubmitMakerBond, GetOfferStatusMaker, DeleteRequest,
         OnlyHandlers, OnlyBook, bookVars
<1>3. CASE \E bond \in Amounts : SubmitMakerBond(m, bond)
  <2>1. PICK locals : Continue(m, "validate_maker", locals)
    BY <1>3 DEF SubmitMakerBond
  <2>2. pc[m] \notin Preparing
    BY <1>3 DEF SubmitMakerBond, CanCall, At, Preparing
  <2>3. QED
    BY <1>1, <1>2, <2>1, <2>2, HandlerContinues, MakerHands, TakerHands, Hidden
    DEF Preparing
<1>4. CASE GetOfferStatusMaker(m)
  <2>1. Reply(m, offer_of[m], taken_offers[offer_of[m]].taker)
    BY <1>4 DEF GetOfferStatusMaker
  <2>2. pc[m] \notin Preparing
    BY <1>4 DEF GetOfferStatusMaker, At, Preparing
  <2>3. QED
    BY <1>1, <1>2, <2>1, <2>2, HandlerEndsAlone, MakerHands, Hidden
    DEF Preparing
<1>5. CASE DeleteRequest(m)
  <2>1. Continue(m, "insert_offer", call[m])
    BY <1>5 DEF DeleteRequest
  <2>2. pc[m] \in Preparing
    BY <1>5 DEF DeleteRequest, At, Preparing
  <2>3. /\ pc'[m] \in Preparing /\ call'[m].offer = call[m].offer
        /\ \A q \in Robots \ {m} : pc'[q] = pc[q] /\ call'[q] = call[q]
    BY <1>1, <2>1, HandlerContinues DEF Preparing
  <2>4. QED
    BY <1>2, <2>2, <2>3, MakerHands, Hidden
<1>6. QED
  BY <1>3, <1>4, <1>5

LEMMA HiddenTakers ==
  ASSUME TypeOK, NEW t \in Takers,
         \/ (\E o \in Offers, bond \in Amounts : SubmitTakerBond(t, o, bond))
         \/ ValidateTakerBond(t)
  PROVE  UNCHANGED Book!vars
<1>1. t \in Robots
  BY Sets
<1>2. UNCHANGED tables
  BY DEF tables, SubmitTakerBond, ValidateTakerBond, OnlyHandlers, bookVars
<1>3. t \notin Claiming
  BY DEF SubmitTakerBond, ValidateTakerBond, CanCall, At, Claiming
<1>4. /\ t \notin Claiming'
      /\ \A q \in Robots \ {t} : pc'[q] = pc[q] /\ call'[q] = call[q]
  <2>1. \/ \E locals : Continue(t, "validate_taker", locals)
        \/ \E locals : Continue(t, "select_offer", locals)
        \/ Reply(t, NULL, NULL)
    BY DEF SubmitTakerBond, ValidateTakerBond, Fail
  <2>2. QED
    BY <1>1, <2>1, HandlerContinues, HandlerEndsAlone DEF Claiming
<1>5. QED
  BY <1>2, <1>3, <1>4, TakerHands, Hidden

-----------------------------------------------------------------------------
(* The actions that show *)

LEMMA ValidationGivesId ==
  ASSUME BInv, NEW m \in Makers, ValidateMakerBond(m)
  PROVE  Book!Next \/ UNCHANGED Book!vars
<1>1. m \in Robots /\ TypeOK
  BY Sets DEF BInv
<1>2. pc[m] \notin Preparing
  BY DEF ValidateMakerBond, At, Preparing
<1>3. UNCHANGED <<active_maker_offers, taken_offers, published>>
  BY DEF ValidateMakerBond, OnlyBook
<1>4. CASE Fail(m) /\ UNCHANGED issued
  BY <1>1, <1>2, <1>3, <1>4, HandlerEndsAlone, MakerHands, Hidden
  DEF Fail, tables, Preparing
<1>5. ASSUME NEW o \in FreshIds, issued' = issued \cup {o},
             Continue(m, "select_request", [call[m] EXCEPT !.offer = o])
      PROVE  Book!Next
  <2>1. /\ pc'[m] = "select_request"
        /\ call'[m] = [call[m] EXCEPT !.offer = o]
        /\ \A q \in Robots \ {m} : pc'[q] = pc[q] /\ call'[q] = call[q]
    BY <1>1, <1>5, HandlerContinues
  <2>2. call'[m].offer = o
    BY <1>1, <2>1 DEF TypeOK
  <2>3. /\ Claims' = Claims
        /\ Drafts' = Drafts \cup {[offer |-> o, maker |-> m]}
    BY <1>2, <2>1, <2>2, MakerHands DEF Preparing
  <2>4. Book!GiveId(o, m)
    BY <1>3, <1>5, <2>3 DEF Book!GiveId, FreshIds, ListedBy
  <2>5. QED
    BY <2>4 DEF Book!Next, FreshIds
<1>6. QED
  BY <1>4, <1>5 DEF ValidateMakerBond

LEMMA SelectRequestForgets ==
  ASSUME BInv, NEW m \in Makers, SelectRequest(m)
  PROVE  Book!Next \/ UNCHANGED Book!vars
<1>1. m \in Robots /\ TypeOK
  BY Sets DEF BInv
<1>2. UNCHANGED tables
  BY DEF SelectRequest, OnlyHandlers, bookVars, tables
<1>3. pc[m] \in Preparing
  BY DEF SelectRequest, At, Preparing
<1>4. CASE Fail(m)
  <2>1. Drafts' = Drafts \ {DraftOf(m)} /\ Claims' = Claims
    BY <1>1, <1>4, HandlerEndsAlone, MakerHands DEF Fail, Preparing
  <2>2. Book!Forget
    BY <1>2, <2>1 DEF Book!Forget, tables, ListedBy
  <2>3. QED
    BY <2>2 DEF Book!Next
<1>5. CASE Continue(m, "delete_request",
                    [call[m] EXCEPT !.row = maker_requests[m]])
  <2>1. /\ pc'[m] = "delete_request"
        /\ call'[m] = [call[m] EXCEPT !.row = maker_requests[m]]
        /\ \A q \in Robots \ {m} : pc'[q] = pc[q] /\ call'[q] = call[q]
    BY <1>1, <1>5, HandlerContinues
  <2>2. call'[m].offer = call[m].offer
    BY <1>1, <2>1 DEF TypeOK
  <2>3. QED
    BY <1>2, <1>3, <2>1, <2>2, MakerHands, Hidden DEF Preparing
<1>6. QED
  BY <1>4, <1>5 DEF SelectRequest

LEMMA InsertOfferLists ==
  ASSUME BInv, NEW m \in Makers, InsertOffer(m)
  PROVE  Book!Next
<1> DEFINE o == call[m].offer
           row == [is_buy_order |-> call[m].row.is_buy_order,
                   amount_sat |-> call[m].row.amount_sat,
                   robohash |-> m, bond |-> call[m].bond]
<1>1. m \in Robots /\ TypeOK /\ MakerKnows(m) /\ pc[m] = "insert_offer"
  BY Sets DEF BInv, HandlersKnow, InsertOffer, At
<1>2. o \in Offers /\ row \in ActiveOffer /\ row # NULL
  <2>1. o \in Offers /\ call[m].row \in Request /\ call[m].bond \in Amounts
    BY <1>1 DEF MakerKnows, Preparing
  <2>2. row \in ActiveOffer
    BY <2>1 DEF Request, ActiveOffer
  <2>3. QED
    BY <2>1, <2>2, NullIsNoRow
<1>3. /\ active_maker_offers' = [active_maker_offers EXCEPT ![o] = row]
      /\ UNCHANGED <<taken_offers, issued, published>>
      /\ Reply(m, o, NULL)
  BY DEF InsertOffer, OnlyBook
<1>4. ListedBy' = [ListedBy EXCEPT ![o] = m]
  <2>1. row.robohash = m
    OBVIOUS
  <2> HIDE DEF row
  <2>2. QED
    BY <1>1, <1>2, <1>3, <2>1 DEF ListedBy, TypeOK
<1>5. Drafts' = Drafts \ {DraftOf(m)} /\ Claims' = Claims
  BY <1>1, <1>3, HandlerEndsAlone, MakerHands DEF Preparing
<1>6. DraftOf(m) \in Drafts /\ DraftOf(m) \in Book!Draft
  BY <1>1, <1>2 DEF Drafts, Drafting, DraftOf, Preparing, Book!Draft
<1>7. DraftOf(m).offer = o /\ DraftOf(m).maker = m
  BY DEF DraftOf
<1>8. Book!List(DraftOf(m))
  BY <1>3, <1>4, <1>5, <1>6, <1>7 DEF Book!List
<1>9. QED
  BY <1>6, <1>8 DEF Book!Next

LEMMA SelectOfferClaims ==
  ASSUME BInv, NEW t \in Takers, SelectOffer(t)
  PROVE  Book!Next \/ UNCHANGED Book!vars
<1> DEFINE o == call[t].offer
<1>1. t \in Robots /\ TypeOK /\ pc[t] = "select_offer" /\ t \notin Claiming
  BY Sets DEF BInv, SelectOffer, At, Claiming
<1>2. UNCHANGED tables
  BY DEF SelectOffer, OnlyHandlers, bookVars, tables
<1>3. CASE Fail(t)
  BY <1>1, <1>2, <1>3, HandlerEndsAlone, TakerHands, Hidden
  DEF Fail, Claiming
<1>4. CASE /\ o \in Listed
           /\ Continue(t, "delete_offer",
                       [call[t] EXCEPT !.row = active_maker_offers[o]])
  <2>1. /\ pc'[t] = "delete_offer"
        /\ call'[t] = [call[t] EXCEPT !.row = active_maker_offers[o]]
        /\ \A q \in Robots \ {t} : pc'[q] = pc[q] /\ call'[q] = call[q]
    BY <1>1, <1>4, HandlerContinues
  <2>2. o \in Offers /\ ListedBy[o] = active_maker_offers[o].robohash
    BY <1>4 DEF Listed, ListedBy
  <2>3. active_maker_offers[o] \in ActiveOffer
    BY <1>1, <1>4, <2>2 DEF Listed, TypeOK
  <2>4. call'[t].offer = o /\ call'[t].row = active_maker_offers[o]
    BY <1>1, <2>1 DEF TypeOK
  <2>5. ClaimOf(t)' = [offer |-> o, maker |-> ListedBy[o], taker |-> t]
    BY <2>2, <2>4 DEF ClaimOf
  <2>6. t \in Claiming'
    BY <2>1 DEF Claiming
  <2>7. Drafts' = Drafts /\ Claims' = Claims \cup {ClaimOf(t)'}
    BY <1>1, <2>1, <2>6, TakerHands
  <2>8. ListedBy[o] # NULL
    BY <2>2, <2>3, OfferBookAssumption DEF ActiveOffer, Robots
  <2>9. Book!ClaimOffer(o, t)
    BY <1>2, <2>5, <2>7, <2>8 DEF Book!ClaimOffer, tables, ListedBy
  <2>10. QED
    BY <2>2, <2>9 DEF Book!Next
<1>5. QED
  BY <1>3, <1>4 DEF SelectOffer

(* The row of an offer is deleted. *)
LEMMA DeletionDelists ==
  ASSUME TypeOK, NEW o \in Offers,
         active_maker_offers' = [active_maker_offers EXCEPT ![o] = NULL],
         UNCHANGED <<issued, taken_offers, published>>,
         Drafts' = Drafts, Claims' = Claims,
         o \in published \/ \E c \in Claims : c.offer = o
  PROVE  Book!Next \/ UNCHANGED Book!vars
<1>1. CASE active_maker_offers[o] = NULL
  <2>1. active_maker_offers' = active_maker_offers
    BY <1>1 DEF TypeOK
  <2>2. QED
    BY <2>1, Hidden DEF tables
<1>2. CASE active_maker_offers[o] # NULL
  <2>1. active_maker_offers[o] \in ActiveOffer
    BY <1>2 DEF TypeOK
  <2>2. ListedBy[o] # NULL
    BY <1>2, <2>1, OfferBookAssumption DEF ListedBy, ActiveOffer, Robots
  <2>3. ListedBy' = [ListedBy EXCEPT ![o] = NULL]
    BY DEF ListedBy, TypeOK
  <2>4. Book!Delist(o)
    BY <2>2, <2>3 DEF Book!Delist
  <2>5. QED
    BY <2>4 DEF Book!Next
<1>3. QED BY <1>1, <1>2

LEMMA DeleteOfferDelists ==
  ASSUME BInv, NEW t \in Takers, DeleteOffer(t)
  PROVE  Book!Next \/ UNCHANGED Book!vars
<1> DEFINE o == call[t].offer
<1>1. t \in Robots /\ TypeOK /\ TakerKnows(t) /\ pc[t] = "delete_offer"
  BY Sets DEF BInv, HandlersKnow, DeleteOffer, At
<1>2. o \in Offers
  BY <1>1 DEF TakerKnows, Taking, TypeOK
<1>3. /\ active_maker_offers' = [active_maker_offers EXCEPT ![o] = NULL]
      /\ UNCHANGED <<issued, taken_offers, published>>
      /\ Continue(t, "insert_taken", call[t])
  BY DEF DeleteOffer, OnlyBook
<1>4. t \in Claiming /\ t \in Claiming'
  BY <1>1, <1>3, HandlerContinues DEF Claiming
<1>5. Drafts' = Drafts /\ Claims' = Claims
  BY <1>1, <1>3, <1>4, HandlerContinues, TakerHands
<1>6. ClaimOf(t) \in Claims /\ ClaimOf(t).offer = o
  BY <1>4 DEF Claims, ClaimOf
<1>7. QED
  BY <1>1, <1>2, <1>3, <1>5, <1>6, DeletionDelists

LEMMA InsertTakenTakes ==
  ASSUME BInv, NEW t \in Takers, InsertTaken(t)
  PROVE  Book!Next
<1> DEFINE o == call[t].offer
<1>1. t \in Robots /\ TypeOK /\ TakerKnows(t) /\ pc[t] = "insert_taken"
  BY Sets DEF BInv, HandlersKnow, InsertTaken, At
<1>2. /\ o \in Offers /\ call[t].row \in ActiveOffer
      /\ active_maker_offers[o] = NULL
  BY <1>1 DEF TakerKnows, Taking, TypeOK
<1>3. /\ taken_offers' = [taken_offers EXCEPT ![o] =
           [maker |-> call[t].row.robohash, taker |-> t]]
      /\ UNCHANGED <<issued, active_maker_offers, published>>
      /\ Reply(t, o, t)
  BY DEF InsertTaken, OnlyBook
<1>4. t \in Claiming /\ t \notin Claiming'
  BY <1>1, <1>3, HandlerEndsAlone DEF Claiming
<1>5. Drafts' = Drafts /\ Claims' = Claims \ {ClaimOf(t)}
  BY <1>1, <1>3, <1>4, HandlerEndsAlone, TakerHands
<1>6. /\ ClaimOf(t) \in Claims
      /\ ClaimOf(t).offer = o /\ ClaimOf(t).maker = call[t].row.robohash
      /\ ClaimOf(t).taker = t
  BY <1>4 DEF Claims, ClaimOf
<1>7. ClaimOf(t) \in Book!Claim
  BY <1>2 DEF ClaimOf, Book!Claim, ActiveOffer
<1>8. ListedBy[o] = NULL /\ ListedBy' = ListedBy
  BY <1>2, <1>3 DEF ListedBy
<1>9. Book!Take(ClaimOf(t))
  BY <1>3, <1>5, <1>6, <1>8 DEF Book!Take
<1>10. QED
  BY <1>7, <1>9 DEF Book!Next

LEMMA PublishWithdraws ==
  ASSUME RInv, NEW b \in MonitoringBond, Publish(b)
  PROVE  Book!Next \/ UNCHANGED Book!vars
<1>1. /\ UNCHANGED <<issued, active_maker_offers, taken_offers>>
      /\ Drafts' = Drafts /\ Claims' = Claims
  BY SameHands DEF Publish, OnlyMonitor, handlerVars, bookVars
<1>2. CASE UNCHANGED published
  BY <1>1, <1>2, Hidden DEF tables
<1>3. CASE published' = published \cup {b.trade_id}
  <2>1. b.trade_id \in Offers
    BY DEF MonitoringBond
  <2>2. WasListed(b.trade_id)
    BY DEF RInv, BondsWereListed, Publish
  <2>3. Book!Withdraw(b.trade_id)
    BY <1>1, <1>3, <2>2 DEF Book!Withdraw, WasListed, ListedBy
  <2>4. QED
    BY <2>1, <2>3 DEF Book!Next
<1>4. QED
  BY <1>2, <1>3 DEF Publish

LEMMA RemovalDelists ==
  ASSUME RInv, RemoveViolatingBond
  PROVE  Book!Next \/ UNCHANGED Book!vars
<1>1. Drafts' = Drafts /\ Claims' = Claims
  BY SameHands DEF RemoveViolatingBond, OnlyMonitor, handlerVars
<1>2. removing \in MonitoringBond /\ TypeOK
  BY DEF RInv, BInv, TypeOK, RemoveViolatingBond
<1>3. removing.trade_id \in Offers /\ removing.trade_id \in published
  BY <1>2 DEF MonitoringBond, RInv, RemovingIsPublished, RemoveViolatingBond
<1>4. QED
  BY <1>1, <1>2, <1>3, DeletionDelists DEF RemoveViolatingBond

(* A handler, or every one of them, is cut short. *)
LEMMA CutsForget ==
  ASSUME BInv, (\E r \in Robots : Leave(r)) \/ Restart
  PROVE  Book!Next
<1>1. TypeOK
  BY DEF BInv
<1>2. UNCHANGED tables
  BY DEF Leave, Restart, bookVars, tables
<1>3. Drafts' \in SUBSET Drafts /\ Claims' \in SUBSET Claims
  <2>1. CASE Restart
    BY <2>1 DEF Restart, Drafts, Drafting, Claims, Claiming, Preparing, Robots
  <2>2. ASSUME NEW r \in Robots, Leave(r)
        PROVE  Drafts' \in SUBSET Drafts /\ Claims' \in SUBSET Claims
    <3>1. /\ pc'[r] = "idle"
          /\ \A q \in Robots \ {r} : pc'[q] = pc[q] /\ call'[q] = call[q]
      BY <1>1, <2>2, HandlerEndsAlone DEF Leave, Fail
    <3>2. CASE r \in Makers
      BY <3>1, <3>2, MakerHands DEF Preparing
    <3>3. CASE r \in Takers
      BY <3>1, <3>3, TakerHands DEF Claiming
    <3>4. QED
      BY <3>2, <3>3 DEF Robots
  <2>3. QED BY <2>1, <2>2
<1>4. Book!Forget
  BY <1>2, <1>3 DEF Book!Forget, tables, ListedBy
<1>5. QED
  BY <1>4 DEF Book!Next

-----------------------------------------------------------------------------
(* The refinement *)

LEMMA ListingsInit == Init => Book!Init
BY DEF Init, Book!Init, Drafts, Drafting, ListedBy, Claims, Claiming, Preparing,
       Robots

LEMMA ListingsStep == RInv /\ [Next]_vars => [Book!Next]_Book!vars
<1> SUFFICES ASSUME RInv, [Next]_vars
             PROVE  Book!Next \/ UNCHANGED Book!vars
  OBVIOUS
<1>1. BInv /\ TypeOK
  BY DEF RInv, BInv
<1>2. ASSUME NEW m \in Makers, MakerStep(m)
      PROVE  Book!Next \/ UNCHANGED Book!vars
  BY <1>1, <1>2, ValidationGivesId, SelectRequestForgets, HiddenMakers,
     InsertOfferLists
  DEF MakerStep
<1>3. ASSUME NEW t \in Takers, TakerStep(t)
      PROVE  Book!Next \/ UNCHANGED Book!vars
  BY <1>1, <1>3, HiddenTakers, SelectOfferClaims, DeleteOfferDelists,
     InsertTakenTakes
  DEF TakerStep
<1>4. ASSUME MonitorStep PROVE Book!Next \/ UNCHANGED Book!vars
  BY <1>4, HiddenBooks, PublishWithdraws, RemovalDelists DEF MonitorStep
<1>5. CASE \/ (\E m \in Makers, bond \in Amounts : SubmitMakerBond(m, bond))
           \/ (\E m \in Makers : GetOfferStatusMaker(m))
           \/ (\E t \in Takers, o \in Offers, bond \in Amounts :
                 SubmitTakerBond(t, o, bond))
  BY <1>1, <1>5, HiddenMakers, HiddenTakers
<1>6. CASE (\E r \in Robots : Leave(r)) \/ Restart
  BY <1>1, <1>6, CutsForget
<1>7. CASE \/ (\E m \in Makers, buy \in BOOLEAN, amount \in Amounts :
                 ProcessOrder(m, buy, amount))
           \/ ValidateBondsFails
           \/ (\E r \in Robots : SpendCoins(r) \/ NoticeSpend(r) \/ MineSpend(r))
           \/ (\E m \in Makers, t \in Takers : LockEscrow(m, t))
           \/ UNCHANGED vars
  BY <1>7, HiddenBooks
<1>8. QED
  BY <1>2, <1>3, <1>4, <1>5, <1>6, <1>7 DEF Next

(* An offer that was listed is no draft again: ids are given once. *)
LEMMA WasListedStays ==
  ASSUME [Book!Next]_Book!vars, NEW o, WasListed(o)
  PROVE  WasListed(o)'
<1>1. ASSUME NEW p \in Offers, NEW m \in Makers, Book!GiveId(p, m)
      PROVE  WasListed(o)'
  <2>1. /\ p \notin issued /\ issued' = issued \cup {p}
        /\ Drafts' = Drafts \cup {[offer |-> p, maker |-> m]}
    BY <1>1 DEF Book!GiveId
  <2>2. QED
    BY <2>1 DEF WasListed
<1>2. CASE issued' = issued /\ Drafts' \in SUBSET Drafts
  BY <1>2 DEF WasListed
<1>3. QED
  BY <1>1, <1>2
  DEF Book!Next, Book!vars, Book!List, Book!ClaimOffer, Book!Delist,
      Book!Take, Book!Withdraw, Book!Forget

LEMMA ListedWasListed ==
  ASSUME BInv, NEW o \in Listed
  PROVE  WasListed(o)
<1>1. o \in Offers /\ active_maker_offers[o] # NULL /\ o \in issued
  BY DEF Listed, BInv, BookSound
<1>2. \A m \in Drafting : call[m].offer # o
  BY <1>1 DEF Drafting, BInv, HandlersKnow, MakerKnows, Fresh
<1>3. \A d \in Drafts : d.offer # o
  BY <1>2 DEF Drafts, DraftOf
<1>4. QED
  BY <1>1, <1>3 DEF WasListed

(* Only the fetch of a round brings bonds to the monitor, and only a
   publication an offer to be removed. *)
LEMMA MonitorBonds ==
  ASSUME [Next]_vars
  PROVE  /\ snapshot' \cup violating' \subseteq snapshot \cup violating \cup AllBonds
         /\ published \subseteq published'
         /\ removing' \in {removing, NULL} \/ removing'.trade_id \in published'
<1>1. CASE UNCHANGED <<monitorVars, published>>
  BY <1>1 DEF monitorVars
<1>2. CASE MonitorStep
  BY <1>2
  DEF MonitorStep, FetchAllBonds, ValidateBond, Publish, RemoveViolatingBond
<1>3. CASE ValidateBondsFails \/ Restart
  BY <1>3 DEF ValidateBondsFails, Restart
<1>4. MonitorStep \/ ValidateBondsFails \/ Restart
        \/ UNCHANGED <<monitorVars, published>>
  BY DEF Next, MakerStep, TakerStep, ProcessOrder, SubmitMakerBond,
         GetOfferStatusMaker, SubmitTakerBond, ValidateMakerBond, SelectRequest,
         DeleteRequest, InsertOffer, ValidateTakerBond, SelectOffer,
         DeleteOffer, InsertTaken, SpendCoins, NoticeSpend, MineSpend,
         LockEscrow, Leave, CoinsBecome, OnlyBook, OnlyHandlers, OnlyCoins, vars
<1>5. QED
  BY <1>1, <1>2, <1>3, <1>4

LEMMA RInvStep == RInv /\ [Next]_vars => RInv'
<1> SUFFICES ASSUME RInv, [Next]_vars PROVE RInv'
  OBVIOUS
<1>1. BInv /\ BInv'
  BY BInvStep DEF RInv
<1>2. RemovingIsPublished'
  BY MonitorBonds DEF RInv, RemovingIsPublished
<1>3. BondsWereListed'
  <2>1. ASSUME NEW b \in snapshot \cup violating \cup AllBonds
        PROVE  WasListed(b.trade_id)
    <3>1. CASE b \in AllBonds
      <4>1. b.trade_id \in Listed
        BY <3>1 DEF AllBonds
      <4>2. QED
        BY <1>1, <4>1, ListedWasListed
    <3>2. QED
      BY <3>1 DEF RInv, BondsWereListed
  <2>2. [Book!Next]_Book!vars
    BY ListingsStep
  <2>3. snapshot' \cup violating' \subseteq snapshot \cup violating \cup AllBonds
    BY MonitorBonds
  <2>4. QED
    BY <2>1, <2>2, <2>3, WasListedStays DEF BondsWereListed
<1>4. QED
  BY <1>1, <1>2, <1>3 DEF RInv

LEMMA RInvAlways == Spec => []RInv
<1>1. Init => RInv
  BY BInvInit DEF Init, RInv, RemovingIsPublished, BondsWereListed
<1>2. QED
  BY <1>1, RInvStep, PTL DEF Spec

(* The offer book, with handlers that race, end early and are forgotten by a
   restart, and a monitor that removes rows beside them, implements the
   abstract list of offers. *)
THEOREM ListingsImplemented == Spec => ImplementsListings
<1>1. RInv /\ [Next]_vars => [Book!Next]_Book!vars
  BY ListingsStep
<1>2. QED
  BY ListingsInit, <1>1, RInvAlways, PTL DEF Spec, ImplementsListings, Book!Spec

-----------------------------------------------------------------------------
(* Whoever deals with an offer knows the same maker *)

OneMaker ==
  \A c \in Claims :
    /\ \A d \in Drafts : d.offer # c.offer
    /\ \A d \in Claims : d.offer = c.offer => d.maker = c.maker
    /\ ListedBy[c.offer] \in {NULL, c.maker}
    /\ taken_offers[c.offer] # NULL => taken_offers[c.offer].maker = c.maker

(* What BInv says of the drafts and the claims *)
ClaimsSound ==
  /\ Claims \subseteq Book!Claim
  /\ \A c \in Claims : c.offer \in issued /\ \A d \in Drafts : d.offer # c.offer

LEMMA ClaimsTyped == BInv => ClaimsSound
<1> SUFFICES ASSUME BInv PROVE ClaimsSound
  OBVIOUS
<1>1. ASSUME NEW t \in Claiming
      PROVE  /\ ClaimOf(t) \in Book!Claim /\ call[t].offer \in issued
             /\ \A m \in Drafting : call[m].offer # call[t].offer
  <2>1. TakerKnows(t) /\ t \in Takers /\ pc[t] \in Taking /\ TypeOK
    BY <1>1 DEF BInv, HandlersKnow, Claiming, Taking
  <2>2. call[t].offer \in issued /\ call[t].row \in ActiveOffer
    BY <1>1, <2>1 DEF TakerKnows, Claiming
  <2>3. ClaimOf(t) \in Book!Claim
    BY <2>1, <2>2 DEF ClaimOf, Book!Claim, ActiveOffer, TypeOK
  <2>4. \A m \in Drafting : call[m].offer # call[t].offer
    BY <2>1, Sets DEF Drafting, BInv, HandlersKnow, OwnOffers
  <2>5. QED
    BY <2>2, <2>3, <2>4
<1>2. QED
  BY <1>1 DEF ClaimsSound, Claims, ClaimOf, Drafts, DraftOf

LEMMA ClaimsTypedNext == BInv' => ClaimsSound'
BY ClaimsTyped, PTL

LEMMA OneMakerStep ==
  ASSUME BInv, OneMaker, [Next]_vars, [Book!Next]_Book!vars
  PROVE  /\ OneMaker'
         /\ \A o \in Offers :
              taken_offers[o] # NULL =>
                /\ taken_offers'[o] # NULL
                /\ taken_offers'[o].maker = taken_offers[o].maker
<1>1. ClaimsSound /\ ClaimsSound'
  BY BInvStep, ClaimsTyped, ClaimsTypedNext
<1>2. ASSUME UNCHANGED <<Drafts, ListedBy, Claims, taken_offers>>
      PROVE  OneMaker'
  BY <1>2 DEF OneMaker
<1>3. CASE UNCHANGED Book!vars
  BY <1>2, <1>3 DEF Book!vars
<1>4. ASSUME NEW o \in Offers, NEW m \in Makers, Book!GiveId(o, m)
      PROVE  OneMaker' /\ UNCHANGED taken_offers
  BY <1>1, <1>4 DEF Book!GiveId, OneMaker, ClaimsSound
<1>5. ASSUME NEW d \in Book!Draft, Book!List(d)
      PROVE  OneMaker' /\ UNCHANGED taken_offers
  <2>1. d \in Drafts /\ d.offer \in Offers
    BY <1>5 DEF Book!List, Book!Draft
  <2>2. \A c \in Claims : c.offer # d.offer /\ c.offer \in Offers
    BY <1>1, <2>1 DEF OneMaker, ClaimsSound, Book!Claim
  <2>3. \A c \in Claims : ListedBy'[c.offer] = ListedBy[c.offer]
    BY <1>5, <2>2 DEF Book!List, ListedBy
  <2>4. QED
    BY <1>5, <2>3 DEF Book!List, OneMaker
<1>6. ASSUME NEW o \in Offers, NEW t \in Takers, Book!ClaimOffer(o, t)
      PROVE  OneMaker' /\ UNCHANGED taken_offers
  <2> DEFINE new == [offer |-> o, maker |-> ListedBy[o], taker |-> t]
  <2>1. /\ ListedBy[o] # NULL /\ Claims' = Claims \cup {new}
        /\ UNCHANGED <<Drafts, ListedBy, taken_offers>>
    BY <1>6 DEF Book!ClaimOffer
  <2>2. taken_offers[o] = NULL
    BY <2>1 DEF ListedBy, BInv, BookSound, OneTable, Listed
  <2>3. new.offer = o /\ new.maker = ListedBy[o]
    OBVIOUS
  <2>4. new \in Claims' /\ \A d \in Drafts : d.offer # o
    BY <1>1, <2>1, <2>3 DEF ClaimsSound
  <2> HIDE DEF new
  <2>5. \A d \in Claims : d.offer = o => d.maker = new.maker
    BY <2>1, <2>3 DEF OneMaker
  <2>6. QED
    BY <2>1, <2>2, <2>3, <2>4, <2>5 DEF OneMaker
<1>7. ASSUME NEW o \in Offers, Book!Delist(o) \/ Book!Withdraw(o)
      PROVE  OneMaker' /\ UNCHANGED taken_offers
  <2>1. \A c \in Claims : ListedBy'[c.offer] \in {NULL, ListedBy[c.offer]}
    BY <1>1, <1>7
    DEF Book!Delist, Book!Withdraw, ListedBy, ClaimsSound, Book!Claim
  <2>2. QED
    BY <1>7, <2>1 DEF Book!Delist, Book!Withdraw, OneMaker
<1>8. ASSUME NEW c \in Book!Claim, Book!Take(c)
      PROVE  /\ OneMaker'
             /\ \A o \in Offers :
                  taken_offers[o] # NULL =>
                    /\ taken_offers'[o] # NULL
                    /\ taken_offers'[o].maker = taken_offers[o].maker
  <2> DEFINE row == [maker |-> c.maker, taker |-> c.taker]
  <2>1. /\ c \in Claims /\ Claims' \subseteq Claims
        /\ UNCHANGED <<Drafts, ListedBy>>
        /\ taken_offers' = [taken_offers EXCEPT ![c.offer] = row]
    BY <1>8 DEF Book!Take
  <2>2. row \in TakenOffer /\ row.maker = c.maker
    BY DEF Book!Claim, TakenOffer
  <2>3. row # NULL
    BY <2>2, NullIsNoRow
  <2> HIDE DEF row
  <2>4. \A o \in Offers :
          taken_offers'[o] = IF o = c.offer THEN row ELSE taken_offers[o]
    BY <2>1 DEF BInv, TypeOK
  <2>5. \A d \in Claims : d.offer \in Offers
    BY <1>1 DEF ClaimsSound, Book!Claim
  <2>6. OneMaker'
    BY <2>1, <2>2, <2>4, <2>5 DEF OneMaker
  <2>7. QED
    BY <2>1, <2>2, <2>3, <2>4, <2>6 DEF OneMaker
<1>9. ASSUME Book!Forget PROVE OneMaker' /\ UNCHANGED taken_offers
  BY <1>9 DEF Book!Forget, OneMaker
<1>10. QED
  BY <1>3, <1>4, <1>5, <1>6, <1>7, <1>8, <1>9 DEF Book!Next, Book!vars

(* However many takers hold the row of an offer, the taken offer is never
   without its maker again, and the maker is never another. *)
THEOREM SameMakerOnRecord == Spec => MakerStays
<1> DEFINE Stays ==
      \A o \in Offers :
        taken_offers[o] # NULL =>
          /\ taken_offers'[o] # NULL
          /\ taken_offers'[o].maker = taken_offers[o].maker
<1>1. Init => OneMaker
  BY DEF Init, OneMaker, Claims, Claiming, Robots
<1>2. RInv /\ OneMaker /\ [Next]_vars => OneMaker' /\ [Stays]_vars
  BY ListingsStep, OneMakerStep DEF RInv
<1>3. QED
  BY <1>1, <1>2, RInvAlways, PTL DEF Spec, MakerStays

(* The takers that race for an offer are those that held its row when it was
   taken: the race ends with them. *)
THEOREM RaceEnds == Spec => NoLateTaker
<1> DEFINE NoneLate ==
      \A o \in Offers :
        taken_offers[o] # NULL => {c \in Claims' : c.offer = o} \subseteq Claims
<1>1. ASSUME RInv, [Next]_vars PROVE NoneLate
  <2>1. ASSUME NEW o \in Offers, NEW t \in Takers, Book!ClaimOffer(o, t)
        PROVE  NoneLate
    <3>1. active_maker_offers[o] # NULL
      BY <2>1 DEF Book!ClaimOffer, ListedBy
    <3>2. taken_offers[o] = NULL
      BY <1>1, <3>1 DEF RInv, BInv, BookSound, OneTable, Listed
    <3>3. Claims' = Claims
            \cup {[offer |-> o, maker |-> ListedBy[o], taker |-> t]}
      BY <2>1 DEF Book!ClaimOffer
    <3>4. \A c \in Claims' : c \in Claims \/ c.offer = o
      BY <3>3
    <3>5. QED
      BY <3>2, <3>4
  <2>2. CASE Claims' \subseteq Claims
    BY <2>2
  <2>3. [Book!Next]_Book!vars
    BY <1>1, ListingsStep
  <2>4. QED
    BY <2>1, <2>2, <2>3
    DEF Book!Next, Book!vars, Book!GiveId, Book!List, Book!Delist, Book!Take,
        Book!Withdraw, Book!Forget
<1>2. RInv /\ [Next]_vars => [NoneLate]_vars
  BY <1>1
<1>3. QED
  BY <1>2, RInvAlways, PTL DEF Spec, NoLateTaker
=============================================================================

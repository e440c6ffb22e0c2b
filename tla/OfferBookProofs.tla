--------------------------- MODULE OfferBookProofs ---------------------------
(***************************************************************************)
(* Proofs about OfferBook, for any number of makers, takers and offers.    *)
(* The invariant says what a handler knows at each of its awaits: that the *)
(* request it validated against is still there, that nobody else has the   *)
(* offer it is about to list, that the row it moves is gone from the book. *)
(***************************************************************************)
EXTENDS OfferBook, TLAPS

Taking == {"validate_taker", "select_offer", "delete_offer", "insert_taken"}

Fresh(o) == o \in issued /\ active_maker_offers[o] = NULL /\ taken_offers[o] = NULL

MakerKnows(m) ==
  /\ pc[m] \in {"idle", "validate_maker"} \cup Preparing
  /\ pc[m] = "validate_maker" =>
       /\ call[m].bond \in Amounts
       /\ maker_requests[m] \in Request
       /\ maker_requests[m].amount_sat = call[m].required
  /\ pc[m] \in Preparing =>
       /\ call[m].bond \in Amounts /\ call[m].required \in Amounts
       /\ call[m].bond >= call[m].required
       /\ call[m].offer \in Offers
       /\ Fresh(call[m].offer)
  /\ pc[m] = "select_request" =>
       /\ maker_requests[m] \in Request
       /\ maker_requests[m].amount_sat = call[m].required
  /\ pc[m] \in {"delete_request", "insert_offer"} =>
       /\ call[m].row \in Request
       /\ call[m].row.amount_sat = call[m].required

TakerKnows(t) ==
  /\ pc[t] \in {"idle"} \cup Taking
  /\ pc[t] \in Taking => call[t].offer \in issued
  /\ pc[t] = "insert_taken" => active_maker_offers[call[t].offer] = NULL
  /\ pc[t] \in {"delete_offer", "insert_taken"} => call[t].row \in ActiveOffer
  /\ pc[t] = "validate_taker" => call[t].bond \in Amounts /\ call[t].required \in Amounts

OwnOffers ==
  \A m \in Makers, r \in Robots :
    pc[m] \in Preparing /\ pc[r] \in Preparing \cup Taking
      /\ call[m].offer = call[r].offer => m = r

HandlersKnow ==
  /\ \A m \in Makers : MakerKnows(m)
  /\ \A t \in Takers : TakerKnows(t)
  /\ OwnOffers

BookSound ==
  /\ \A o \in Offers :
       active_maker_offers[o] # NULL \/ taken_offers[o] # NULL => o \in issued
  /\ ListedAsValidated
  /\ OneTable

MonitorKnows == \A b \in violating : coins[b.robot] # "unspent"

BInv == TypeOK /\ HandlersKnow /\ BookSound /\ MonitorKnows

(* The types of a handler's local variables, as in TypeOK *)
Locals == [offer : Offers \cup {NULL}, bond : Amounts \cup {NULL},
           required : Amounts \cup {NULL},
           row : Request \cup ActiveOffer \cup {NULL}]

LEMMA Sets ==
  /\ Makers \subseteq Robots /\ Takers \subseteq Robots
  /\ Makers \cap Takers = {}
  /\ Amounts \subseteq Nat
  /\ NULL \notin Offers /\ NULL \notin Amounts
BY OfferBookAssumption DEF Robots

LEMMA BInvInit == Init => BInv
<1> SUFFICES ASSUME Init PROVE BInv
  OBVIOUS
<1>1. 0 \in 0..MaxFaults
  BY OfferBookAssumption, SMT
<1>2. TypeOK
  <2>1. NoCall \in Locals
    BY DEF NoCall, Locals
  <2> QED BY <1>1, <2>1 DEF Init, TypeOK, Locals, Steps, CoinStates
<1>3. HandlersKnow
  BY Sets DEF Init, HandlersKnow, MakerKnows, TakerKnows, OwnOffers, Preparing, Taking
<1>4. BookSound
  BY DEF Init, BookSound, ListedAsValidated, OneTable, Listed
<1>5. MonitorKnows
  BY DEF Init, MonitorKnows
<1> QED BY <1>2, <1>3, <1>4, <1>5 DEF BInv

-----------------------------------------------------------------------------
(* What most steps leave alone *)

LEMMA BookUntouched ==
  ASSUME BookSound, UNCHANGED <<active_maker_offers, taken_offers, issued>>
  PROVE  BookSound'
BY DEF BookSound, ListedAsValidated, OneTable, Listed

LEMMA HandlersUntouched ==
  ASSUME HandlersKnow, UNCHANGED <<bookVars, pc, call>>
  PROVE  HandlersKnow'
BY DEF HandlersKnow, MakerKnows, TakerKnows, OwnOffers, Fresh, bookVars

LEMMA MonitorUntouched ==
  ASSUME MonitorKnows, UNCHANGED <<violating, coins>>
  PROVE  MonitorKnows'
BY DEF MonitorKnows

(* A handler ends: what the others know stays true. *)
LEMMA HandlerEnds ==
  ASSUME TypeOK, HandlersKnow, NEW r \in Robots,
         pc' = [pc EXCEPT ![r] = "idle"], call' = [call EXCEPT ![r] = NoCall],
         UNCHANGED bookVars
  PROVE  HandlersKnow'
<1>1. \A q \in Robots : IF q = r THEN pc'[q] = "idle"
                        ELSE pc'[q] = pc[q] /\ call'[q] = call[q]
  BY DEF TypeOK
<1>2. \A m \in Makers : MakerKnows(m)'
  BY <1>1, Sets DEF HandlersKnow, MakerKnows, Fresh, Preparing, bookVars
<1>3. \A t \in Takers : TakerKnows(t)'
  BY <1>1, Sets DEF HandlersKnow, TakerKnows, Taking, bookVars
<1>4. OwnOffers'
  BY <1>1, Sets DEF HandlersKnow, OwnOffers, Preparing, Taking
<1> QED BY <1>2, <1>3, <1>4 DEF HandlersKnow

LEMMA ContinueTyped ==
  ASSUME TypeOK, NEW r \in Robots, NEW step \in Steps,
         NEW locals \in Locals,
         Continue(r, step, locals)
  PROVE  /\ pc' \in [Robots -> Steps]
         /\ call' \in [Robots -> Locals]
         /\ offer_of' \in [Robots -> Offers \cup {NULL}]
         /\ psbt_of' \in [Robots -> Takers \cup {NULL}]
         /\ pc'[r] = step /\ call'[r] = locals
         /\ \A q \in Robots \ {r} : pc'[q] = pc[q] /\ call'[q] = call[q]
BY DEF Continue, TypeOK, Locals

LEMMA ReplyTyped ==
  ASSUME TypeOK, NEW r \in Robots, NEW o \in Offers \cup {NULL},
         NEW psbt \in Takers \cup {NULL}, Reply(r, o, psbt)
  PROVE  /\ pc' \in [Robots -> Steps]
         /\ call' \in [Robots -> Locals]
         /\ offer_of' \in [Robots -> Offers \cup {NULL}]
         /\ psbt_of' \in [Robots -> Takers \cup {NULL}]
         /\ pc'[r] = "idle"
         /\ \A q \in Robots \ {r} : pc'[q] = pc[q] /\ call'[q] = call[q]
<1>1. NoCall \in Locals
  BY DEF NoCall, Locals
<1> QED BY <1>1 DEF Reply, TypeOK, Locals, Steps

-----------------------------------------------------------------------------
(* The handlers of the makers *)

LEMMA ProcessOrderKeeps ==
  ASSUME BInv, NEW m \in Makers, NEW buy \in BOOLEAN, NEW amount \in Amounts,
         ProcessOrder(m, buy, amount)
  PROVE  BInv'
<1>1. /\ pc[m] = "idle"
      /\ maker_requests' = [maker_requests EXCEPT ![m] =
           [is_buy_order |-> BoolToSqlInt(buy), amount_sat |-> amount]]
      /\ UNCHANGED <<active_maker_offers, taken_offers, issued, handlerVars>>
      /\ UNCHANGED <<monitorVars, coins, published, faults>>
  BY DEF ProcessOrder, CanCall, At, OnlyBook
<1>2. [is_buy_order |-> BoolToSqlInt(buy), amount_sat |-> amount] \in Request
  BY DEF BoolToSqlInt, Request
<1>3. TypeOK'
  BY <1>1, <1>2 DEF BInv, TypeOK, handlerVars, monitorVars
<1>4. HandlersKnow'
  <2>1. \A q \in Makers : MakerKnows(q)'
    <3>1. ASSUME NEW q \in Makers, q # m PROVE MakerKnows(q)'
      <4>1. maker_requests'[q] = maker_requests[q]
        BY <1>1, <3>1 DEF BInv, TypeOK
      <4> QED BY <1>1, <4>1 DEF BInv, HandlersKnow, MakerKnows, Fresh, handlerVars
    <3>2. MakerKnows(m)'
      BY <1>1 DEF MakerKnows, handlerVars, Preparing
    <3> QED BY <3>1, <3>2
  <2> QED BY <1>1, <2>1 DEF BInv, HandlersKnow, TakerKnows, OwnOffers, handlerVars
<1>5. BookSound' /\ MonitorKnows'
  BY <1>1, BookUntouched, MonitorUntouched DEF BInv, monitorVars
<1> QED BY <1>3, <1>4, <1>5 DEF BInv

LEMMA SubmitMakerBondKeeps ==
  ASSUME BInv, NEW m \in Makers, NEW bond \in Amounts, SubmitMakerBond(m, bond)
  PROVE  BInv'
<1>1. PICK required \in BondRequirements(m) :
        Continue(m, "validate_maker",
                 [NoCall EXCEPT !.bond = bond, !.required = required])
  BY DEF SubmitMakerBond
<1>2. UNCHANGED <<bookVars, monitorVars, coins, published, faults>>
  BY DEF SubmitMakerBond, OnlyHandlers
<1>3. /\ maker_requests[m] \in Request /\ required = maker_requests[m].amount_sat
      /\ required \in Amounts
  BY <1>1 DEF BondRequirements, BInv, TypeOK, Request
<1> DEFINE locals == [NoCall EXCEPT !.bond = bond, !.required = required]
<1>4. locals \in Locals
      /\ locals.bond = bond /\ locals.required = required
  BY <1>3 DEF NoCall, Locals
<1>5. m \in Robots /\ TypeOK /\ "validate_maker" \in Steps
  BY Sets DEF BInv, Steps
<1> HIDE DEF locals
<1>6. /\ pc' \in [Robots -> Steps]
      /\ call' \in [Robots -> Locals]
      /\ offer_of' \in [Robots -> Offers \cup {NULL}]
      /\ psbt_of' \in [Robots -> Takers \cup {NULL}]
      /\ pc'[m] = "validate_maker" /\ call'[m] = locals
      /\ \A q \in Robots \ {m} : pc'[q] = pc[q] /\ call'[q] = call[q]
  <2>1. Continue(m, "validate_maker", locals)
    BY <1>1 DEF locals
  <2> QED BY <1>4, <1>5, <2>1, ContinueTyped
<1>7. TypeOK'
  BY <1>2, <1>6 DEF BInv, TypeOK, Locals, bookVars, monitorVars
<1>8. HandlersKnow'
  <2>1. MakerKnows(m)'
    BY <1>2, <1>3, <1>4, <1>6 DEF MakerKnows, Preparing, bookVars
  <2>2. ASSUME NEW q \in Makers \ {m} PROVE MakerKnows(q)'
    BY <1>2, <1>6, Sets DEF BInv, HandlersKnow, MakerKnows, Fresh, bookVars
  <2>3. ASSUME NEW t \in Takers PROVE TakerKnows(t)'
    <3>1. t \in Robots \ {m}
      BY Sets
    <3> QED BY <1>2, <1>6, <3>1 DEF BInv, HandlersKnow, TakerKnows, bookVars
  <2>4. OwnOffers'
    BY <1>6, Sets DEF BInv, HandlersKnow, OwnOffers, Preparing, Taking
  <2> QED BY <2>1, <2>2, <2>3, <2>4 DEF HandlersKnow
<1>9. BookSound' /\ MonitorKnows'
  BY <1>2, BookUntouched, MonitorUntouched DEF BInv, bookVars, monitorVars
<1> QED BY <1>7, <1>8, <1>9 DEF BInv

LEMMA FailKeeps ==
  ASSUME BInv, NEW r \in Robots, Fail(r), UNCHANGED <<bookVars, monitorVars, coins, published>>,
         faults' \in 0..MaxFaults
  PROVE  BInv'
<1>1. Reply(r, NULL, NULL)
  BY DEF Fail
<1>2. /\ pc' \in [Robots -> Steps]
      /\ call' \in [Robots -> Locals]
      /\ offer_of' \in [Robots -> Offers \cup {NULL}]
      /\ psbt_of' \in [Robots -> Takers \cup {NULL}]
  BY <1>1, ReplyTyped DEF BInv
<1>3. TypeOK'
  BY <1>2 DEF BInv, TypeOK, Locals, bookVars, monitorVars
<1>4. HandlersKnow'
  BY <1>1, HandlerEnds DEF BInv, Reply
<1>5. BookSound' /\ MonitorKnows'
  BY BookUntouched, MonitorUntouched DEF BInv, bookVars, monitorVars
<1> QED BY <1>3, <1>4, <1>5 DEF BInv

(* The id is nobody's: what is listed, taken or about to be listed was issued. *)
LEMMA ValidateMakerBondKeeps ==
  ASSUME BInv, NEW m \in Makers, ValidateMakerBond(m)
  PROVE  BInv'
<1>1. /\ pc[m] = "validate_maker"
      /\ UNCHANGED <<maker_requests, active_maker_offers, taken_offers>>
      /\ UNCHANGED <<monitorVars, coins, published, faults>>
  BY DEF ValidateMakerBond, At, OnlyBook
<1>2. m \in Robots /\ TypeOK /\ faults \in 0..MaxFaults
  BY Sets DEF BInv, TypeOK
<1>3. CASE ~BondValid(m, call[m].bond, call[m].required)
  <2>1. Fail(m) /\ UNCHANGED bookVars
    BY <1>1, <1>3 DEF ValidateMakerBond, bookVars
  <2> QED BY <1>1, <1>2, <2>1, FailKeeps
<1>4. CASE BondValid(m, call[m].bond, call[m].required)
  <2>1. PICK o \in Offers \ issued :
          /\ issued' = issued \cup {o}
          /\ Continue(m, "select_request", [call[m] EXCEPT !.offer = o])
    BY <1>4 DEF ValidateMakerBond, FreshIds
  <2>2. /\ call[m].bond \in Amounts /\ maker_requests[m] \in Request
        /\ maker_requests[m].amount_sat = call[m].required
        /\ call[m].bond >= call[m].required
        /\ call[m].required \in Amounts
    <3>1. /\ call[m].bond \in Amounts /\ maker_requests[m] \in Request
          /\ maker_requests[m].amount_sat = call[m].required
      BY <1>1 DEF BInv, HandlersKnow, MakerKnows
    <3> QED BY <1>4, <3>1 DEF BondValid, Request
  <2> DEFINE locals == [call[m] EXCEPT !.offer = o]
  <2>3. /\ locals \in Locals
        /\ locals.offer = o /\ locals.bond = call[m].bond
        /\ locals.required = call[m].required
    BY <1>2 DEF TypeOK, Locals
  <2>4. Continue(m, "select_request", locals)
    BY <2>1
  <2> HIDE DEF locals
  <2>5. /\ pc' \in [Robots -> Steps]
        /\ call' \in [Robots -> Locals]
        /\ offer_of' \in [Robots -> Offers \cup {NULL}]
        /\ psbt_of' \in [Robots -> Takers \cup {NULL}]
        /\ pc'[m] = "select_request" /\ call'[m] = locals
        /\ \A q \in Robots \ {m} : pc'[q] = pc[q] /\ call'[q] = call[q]
    <3>1. "select_request" \in Steps
      BY DEF Steps
    <3> QED BY <1>2, <2>3, <2>4, <3>1, ContinueTyped
  <2>6. active_maker_offers[o] = NULL /\ taken_offers[o] = NULL
    BY DEF BInv, BookSound
  <2>7. \A q \in Robots : pc[q] \in Preparing \cup Taking /\ q \in Makers \cup Takers
          => call[q].offer # o
    <3>1. ASSUME NEW q \in Makers, pc[q] \in Preparing \cup Taking
          PROVE  call[q].offer # o
      BY <3>1 DEF BInv, HandlersKnow, MakerKnows, Fresh, Preparing, Taking
    <3>2. ASSUME NEW q \in Takers, pc[q] \in Preparing \cup Taking
          PROVE  call[q].offer # o
      BY <3>2 DEF BInv, HandlersKnow, TakerKnows, Preparing, Taking
    <3> QED BY <3>1, <3>2
  <2>8. TypeOK'
    BY <1>1, <2>1, <2>5 DEF BInv, TypeOK, Locals, monitorVars
  <2>9. HandlersKnow'
    <3>1. MakerKnows(m)'
      BY <1>1, <2>1, <2>2, <2>3, <2>5, <2>6 DEF MakerKnows, Fresh, Preparing
    <3>2. ASSUME NEW q \in Makers \ {m} PROVE MakerKnows(q)'
      BY <1>1, <2>1, <2>5, Sets DEF BInv, HandlersKnow, MakerKnows, Fresh
    <3>3. ASSUME NEW t \in Takers PROVE TakerKnows(t)'
      <4>1. t \in Robots \ {m}
        BY Sets
      <4> QED BY <1>1, <2>1, <2>5, <4>1 DEF BInv, HandlersKnow, TakerKnows
    <3>4. OwnOffers'
      <4>1. SUFFICES ASSUME NEW q \in Makers, NEW r \in Robots,
                            pc'[q] \in Preparing, pc'[r] \in Preparing \cup Taking,
                            call'[q].offer = call'[r].offer
                     PROVE  q = r
        BY DEF OwnOffers
      <4>2. q \in Robots /\ (r \in Makers \/ r \in Takers)
        BY Sets DEF Robots
      <4>3. CASE q # m /\ r # m
        BY <4>1, <4>2, <4>3, <2>5 DEF BInv, HandlersKnow, OwnOffers
      <4>4. CASE q # m /\ r = m
        BY <4>1, <4>2, <4>4, <2>3, <2>5, <2>7
      <4>5. CASE q = m /\ r # m
        BY <4>1, <4>2, <4>5, <2>3, <2>5, <2>7
      <4> QED BY <4>3, <4>4, <4>5
    <3> QED BY <3>1, <3>2, <3>3, <3>4 DEF HandlersKnow
  <2>10. BookSound' /\ MonitorKnows'
    <3>1. MonitorKnows'
      BY <1>1, MonitorUntouched DEF BInv, monitorVars
    <3> QED BY <1>1, <2>1, <3>1 DEF BInv, BookSound, ListedAsValidated, OneTable, Listed
  <2> QED BY <2>8, <2>9, <2>10 DEF BInv
<1> QED BY <1>3, <1>4

-----------------------------------------------------------------------------
(* A handler goes on with the tables as they are: what remains to be shown is
   what it knows itself, and that its offer is its own. *)
LEMMA ContinueKeeps ==
  ASSUME BInv, NEW r \in Robots, NEW step \in Steps, NEW locals \in Locals,
         Continue(r, step, locals), OnlyHandlers,
         r \in Makers => MakerKnows(r)',
         r \in Takers => TakerKnows(r)',
         \/ pc[r] \in Preparing \cup Taking /\ locals.offer = call[r].offer
         \/ \A m \in Makers : pc[m] \in Preparing => call[m].offer # locals.offer,
         r \in Makers /\ step \in Preparing =>
           pc[r] \in Preparing /\ locals.offer = call[r].offer
  PROVE  BInv'
<1>1. UNCHANGED <<bookVars, monitorVars, coins, published, faults>>
  BY DEF OnlyHandlers
<1>2. /\ pc' \in [Robots -> Steps] /\ call' \in [Robots -> Locals]
      /\ offer_of' \in [Robots -> Offers \cup {NULL}]
      /\ psbt_of' \in [Robots -> Takers \cup {NULL}]
      /\ pc'[r] = step /\ call'[r] = locals
      /\ \A q \in Robots \ {r} : pc'[q] = pc[q] /\ call'[q] = call[q]
  BY ContinueTyped DEF BInv
<1>3. TypeOK'
  BY <1>1, <1>2 DEF BInv, TypeOK, Locals, bookVars, monitorVars
<1>4. HandlersKnow'
  <2>1. ASSUME NEW m \in Makers PROVE MakerKnows(m)'
    <3>1. CASE m # r
      BY <1>1, <1>2, <3>1, Sets DEF BInv, HandlersKnow, MakerKnows, Fresh, bookVars
    <3> QED BY <3>1
  <2>2. ASSUME NEW t \in Takers PROVE TakerKnows(t)'
    <3>1. CASE t # r
      BY <1>1, <1>2, <3>1, Sets DEF BInv, HandlersKnow, TakerKnows, bookVars
    <3> QED BY <3>1
  <2>3. OwnOffers'
    <3>1. SUFFICES ASSUME NEW m \in Makers, NEW q \in Robots,
                          pc'[m] \in Preparing, pc'[q] \in Preparing \cup Taking,
                          call'[m].offer = call'[q].offer
                   PROVE  m = q
      BY DEF OwnOffers
    <3>2. m \in Robots
      BY Sets
    <3>3. CASE m # r /\ q # r
      BY <1>2, <3>1, <3>2, <3>3 DEF BInv, HandlersKnow, OwnOffers
    <3>4. CASE m # r /\ q = r
      BY <1>2, <3>1, <3>2, <3>4 DEF BInv, HandlersKnow, OwnOffers
    <3>5. CASE m = r /\ q # r
      <4>1. pc[m] \in Preparing /\ call[m].offer = locals.offer
        BY <1>2, <3>1, <3>5
      <4> QED BY <1>2, <3>1, <3>2, <3>5, <4>1 DEF BInv, HandlersKnow, OwnOffers
    <3> QED BY <3>3, <3>4, <3>5
  <2> QED BY <2>1, <2>2, <2>3 DEF HandlersKnow
<1>5. BookSound' /\ MonitorKnows'
  BY <1>1, BookUntouched, MonitorUntouched DEF BInv, bookVars, monitorVars
<1> QED BY <1>3, <1>4, <1>5 DEF BInv

LEMMA SelectRequestKeeps ==
  ASSUME BInv, NEW m \in Makers, SelectRequest(m)
  PROVE  BInv'
<1>1. pc[m] = "select_request" /\ OnlyHandlers
  BY DEF SelectRequest, At
<1>2. /\ maker_requests[m] \in Request
      /\ maker_requests[m].amount_sat = call[m].required
  BY <1>1 DEF BInv, HandlersKnow, MakerKnows
<1>3. maker_requests[m] # NULL
  BY <1>2, NullIsNoRow
<1> DEFINE locals == [call[m] EXCEPT !.row = maker_requests[m]]
<1>4. Continue(m, "delete_request", locals)
  BY <1>3 DEF SelectRequest
<1>5. m \in Robots /\ m \notin Takers /\ call[m] \in Locals
  BY Sets DEF BInv, TypeOK, Locals
<1>6. /\ locals \in Locals /\ locals.offer = call[m].offer
      /\ locals.bond = call[m].bond /\ locals.required = call[m].required
      /\ locals.row = maker_requests[m]
  BY <1>2, <1>5 DEF Locals
<1> HIDE DEF locals
<1>7. "delete_request" \in Steps
  BY DEF Steps
<1>8. pc'[m] = "delete_request" /\ call'[m] = locals
  BY <1>4, <1>5, <1>6, <1>7, ContinueTyped DEF BInv
<1>9. MakerKnows(m)'
  BY <1>1, <1>2, <1>6, <1>8
     DEF BInv, HandlersKnow, MakerKnows, Fresh, Preparing, OnlyHandlers, bookVars
<1> QED BY <1>1, <1>4, <1>5, <1>6, <1>7, <1>9, ContinueKeeps DEF Preparing

LEMMA SubmitTakerBondKeeps ==
  ASSUME BInv, NEW t \in Takers, NEW o \in Offers, NEW bond \in Amounts,
         SubmitTakerBond(t, o, bond)
  PROVE  BInv'
<1>1. /\ pc[t] = "idle" /\ o \in Listed /\ OnlyHandlers
      /\ Continue(t, "validate_taker",
           [NoCall EXCEPT !.offer = o, !.bond = bond,
              !.required = active_maker_offers[o].amount_sat])
  BY DEF SubmitTakerBond, CanCall, At, FetchSuitableOffers
<1>2. active_maker_offers[o] # NULL
  BY <1>1 DEF Listed
<1>3. active_maker_offers[o].amount_sat \in Amounts /\ o \in issued
  BY <1>2 DEF BInv, TypeOK, ActiveOffer, BookSound
<1> DEFINE locals == [NoCall EXCEPT !.offer = o, !.bond = bond,
                        !.required = active_maker_offers[o].amount_sat]
<1>4. locals \in Locals /\ locals.offer = o /\ locals.bond = bond
      /\ locals.required = active_maker_offers[o].amount_sat
  BY <1>3 DEF NoCall, Locals
<1>5. Continue(t, "validate_taker", locals)
  BY <1>1
<1> HIDE DEF locals
<1>6. t \in Robots /\ t \notin Makers /\ "validate_taker" \in Steps
  BY Sets DEF Steps
<1>7. pc'[t] = "validate_taker" /\ call'[t] = locals
  BY <1>4, <1>5, <1>6, ContinueTyped DEF BInv
<1>8. TakerKnows(t)'
  BY <1>1, <1>3, <1>4, <1>7 DEF TakerKnows, Taking, OnlyHandlers, bookVars
<1>9. \A m \in Makers : pc[m] \in Preparing => call[m].offer # locals.offer
  BY <1>2, <1>4 DEF BInv, HandlersKnow, MakerKnows, Fresh
<1> QED BY <1>1, <1>4, <1>5, <1>6, <1>8, <1>9, ContinueKeeps

LEMMA ValidateTakerBondKeeps ==
  ASSUME BInv, NEW t \in Takers, ValidateTakerBond(t)
  PROVE  BInv'
<1>1. pc[t] = "validate_taker" /\ OnlyHandlers
  BY DEF ValidateTakerBond, At
<1>2. t \in Robots /\ t \notin Makers /\ call[t] \in Locals /\ "select_offer" \in Steps
      /\ faults \in 0..MaxFaults
  BY Sets DEF BInv, TypeOK, Locals, Steps
<1>3. CASE Continue(t, "select_offer", call[t])
  <2>1. pc'[t] = "select_offer" /\ call'[t] = call[t]
    BY <1>2, <1>3, ContinueTyped DEF BInv
  <2>2. TakerKnows(t)'
    BY <1>1, <2>1 DEF BInv, HandlersKnow, TakerKnows, Taking, OnlyHandlers, bookVars
  <2>3. pc[t] \in Preparing \cup Taking
    BY <1>1 DEF Taking
  <2> QED BY <1>1, <1>2, <1>3, <2>2, <2>3, ContinueKeeps
<1>4. CASE Fail(t)
  <2>1. UNCHANGED <<bookVars, monitorVars, coins, published>> /\ faults' \in 0..MaxFaults
    BY <1>1, <1>2 DEF OnlyHandlers
  <2> QED BY <1>2, <1>4, <2>1, FailKeeps
<1> QED BY <1>3, <1>4 DEF ValidateTakerBond

LEMMA SelectOfferKeeps ==
  ASSUME BInv, NEW t \in Takers, SelectOffer(t)
  PROVE  BInv'
<1>1. pc[t] = "select_offer" /\ OnlyHandlers
  BY DEF SelectOffer, At
<1>2. t \in Robots /\ t \notin Makers /\ call[t] \in Locals /\ "delete_offer" \in Steps
      /\ faults \in 0..MaxFaults
  BY Sets DEF BInv, TypeOK, Locals, Steps
<1>3. CASE call[t].offer \in Listed /\ Continue(t, "delete_offer",
             [call[t] EXCEPT !.row = active_maker_offers[call[t].offer]])
  <2> DEFINE locals == [call[t] EXCEPT !.row = active_maker_offers[call[t].offer]]
  <2>1. active_maker_offers[call[t].offer] \in ActiveOffer
    BY <1>3 DEF Listed, BInv, TypeOK
  <2>2. /\ locals \in Locals /\ locals.offer = call[t].offer
        /\ locals.row \in ActiveOffer
    BY <1>2, <2>1 DEF Locals
  <2>3. Continue(t, "delete_offer", locals)
    BY <1>3
  <2> HIDE DEF locals
  <2>4. pc'[t] = "delete_offer" /\ call'[t] = locals
    BY <1>2, <2>2, <2>3, ContinueTyped DEF BInv
  <2>5. TakerKnows(t)'
    BY <1>1, <2>2, <2>4 DEF BInv, HandlersKnow, TakerKnows, Taking, OnlyHandlers, bookVars
  <2>6. pc[t] \in Preparing \cup Taking
    BY <1>1 DEF Taking
  <2> QED BY <1>1, <1>2, <2>2, <2>3, <2>5, <2>6, ContinueKeeps
<1>4. CASE Fail(t)
  <2>1. UNCHANGED <<bookVars, monitorVars, coins, published>> /\ faults' \in 0..MaxFaults
    BY <1>1, <1>2 DEF OnlyHandlers
  <2> QED BY <1>2, <1>4, <2>1, FailKeeps
<1> QED BY <1>3, <1>4 DEF SelectOffer

-----------------------------------------------------------------------------
(* The statements that write to the tables *)

LEMMA DeleteRequestKeeps ==
  ASSUME BInv, NEW m \in Makers, DeleteRequest(m)
  PROVE  BInv'
<1>1. /\ pc[m] = "delete_request"
      /\ maker_requests' = [maker_requests EXCEPT ![m] = NULL]
      /\ Continue(m, "insert_offer", call[m])
      /\ UNCHANGED <<active_maker_offers, taken_offers, issued>>
      /\ UNCHANGED <<monitorVars, coins, published, faults>>
  BY DEF DeleteRequest, At, OnlyBook
<1>2. m \in Robots /\ m \notin Takers /\ call[m] \in Locals /\ "insert_offer" \in Steps
  BY Sets DEF BInv, TypeOK, Locals, Steps
<1>3. /\ pc' \in [Robots -> Steps] /\ call' \in [Robots -> Locals]
      /\ offer_of' \in [Robots -> Offers \cup {NULL}]
      /\ psbt_of' \in [Robots -> Takers \cup {NULL}]
      /\ pc'[m] = "insert_offer" /\ call'[m] = call[m]
      /\ \A q \in Robots \ {m} : pc'[q] = pc[q] /\ call'[q] = call[q]
  BY <1>1, <1>2, ContinueTyped DEF BInv
<1>4. /\ maker_requests' \in [Makers -> Request \cup {NULL}]
      /\ \A q \in Makers \ {m} : maker_requests'[q] = maker_requests[q]
  BY <1>1 DEF BInv, TypeOK
<1>5. TypeOK'
  BY <1>1, <1>3, <1>4 DEF BInv, TypeOK, Locals, monitorVars
<1>6. HandlersKnow'
  <2>1. MakerKnows(m)'
    BY <1>1, <1>3 DEF BInv, HandlersKnow, MakerKnows, Fresh, Preparing
  <2>2. ASSUME NEW q \in Makers \ {m} PROVE MakerKnows(q)'
    BY <1>1, <1>3, <1>4, Sets DEF BInv, HandlersKnow, MakerKnows, Fresh
  <2>3. ASSUME NEW t \in Takers PROVE TakerKnows(t)'
    <3>1. t \in Robots \ {m}
      BY Sets
    <3> QED BY <1>1, <1>3, <3>1 DEF BInv, HandlersKnow, TakerKnows
  <2>4. OwnOffers'
    <3>1. \A q \in Robots : /\ call'[q] = call[q]
                            /\ pc'[q] \in Preparing <=> pc[q] \in Preparing
                            /\ pc'[q] \in Taking <=> pc[q] \in Taking
      BY <1>1, <1>3 DEF Preparing, Taking
    <3> QED BY <3>1, Sets DEF BInv, HandlersKnow, OwnOffers
  <2> QED BY <2>1, <2>2, <2>3, <2>4 DEF HandlersKnow
<1>7. BookSound' /\ MonitorKnows'
  BY <1>1, BookUntouched, MonitorUntouched DEF BInv, monitorVars
<1> QED BY <1>5, <1>6, <1>7 DEF BInv

LEMMA InsertOfferKeeps ==
  ASSUME BInv, NEW m \in Makers, InsertOffer(m)
  PROVE  BInv'
<1> DEFINE o == call[m].offer
           row == [is_buy_order |-> call[m].row.is_buy_order,
                   amount_sat |-> call[m].row.amount_sat,
                   robohash |-> m, bond |-> call[m].bond]
<1>1. /\ pc[m] = "insert_offer"
      /\ active_maker_offers' = [active_maker_offers EXCEPT ![o] = row]
      /\ Reply(m, o, NULL)
      /\ UNCHANGED <<maker_requests, taken_offers, issued>>
      /\ UNCHANGED <<monitorVars, coins, published, faults>>
  BY DEF InsertOffer, At, OnlyBook
<1>2. m \in Robots /\ m \notin Takers
  BY Sets
<1>3. /\ o \in Offers /\ o \in issued /\ taken_offers[o] = NULL
      /\ row \in ActiveOffer /\ row.bond >= row.amount_sat
  <2>1. /\ call[m].bond \in Amounts /\ call[m].required \in Amounts
        /\ call[m].bond >= call[m].required
        /\ call[m].offer \in Offers /\ Fresh(call[m].offer)
        /\ call[m].row \in Request
        /\ call[m].row.amount_sat = call[m].required
    BY <1>1 DEF BInv, HandlersKnow, MakerKnows, Preparing
  <2> QED BY <2>1 DEF Fresh, Request, ActiveOffer
<1>4. \A q \in Robots \ {m} :
        /\ q \in Makers /\ pc[q] \in Preparing => call[q].offer # o
        /\ q \in Takers /\ pc[q] \in Taking => call[q].offer # o
  <2>1. pc[m] \in Preparing
    BY <1>1 DEF Preparing
  <2> QED BY <1>2, <2>1 DEF BInv, HandlersKnow, OwnOffers
<1> HIDE DEF o, row
<1>5. /\ pc' \in [Robots -> Steps] /\ call' \in [Robots -> Locals]
      /\ offer_of' \in [Robots -> Offers \cup {NULL}]
      /\ psbt_of' \in [Robots -> Takers \cup {NULL}]
      /\ pc'[m] = "idle"
      /\ \A q \in Robots \ {m} : pc'[q] = pc[q] /\ call'[q] = call[q]
  BY <1>1, <1>2, <1>3, ReplyTyped DEF BInv
<1>6. /\ active_maker_offers' \in [Offers -> ActiveOffer \cup {NULL}]
      /\ active_maker_offers'[o] = row
      /\ \A p \in Offers \ {o} : active_maker_offers'[p] = active_maker_offers[p]
  BY <1>1, <1>3 DEF BInv, TypeOK
<1>7. TypeOK'
  BY <1>1, <1>5, <1>6 DEF BInv, TypeOK, Locals, monitorVars
<1>8. HandlersKnow'
  <2>1. MakerKnows(m)'
    BY <1>5 DEF MakerKnows, Preparing
  <2>2. ASSUME NEW q \in Makers \ {m} PROVE MakerKnows(q)'
    <3>1. /\ q \in Robots \ {m} /\ pc'[q] = pc[q] /\ call'[q] = call[q]
          /\ pc[q] \in Preparing => call[q].offer # o
      BY <1>4, <1>5, Sets
    <3>2. pc[q] \in Preparing =>
            active_maker_offers'[call[q].offer] = active_maker_offers[call[q].offer]
      BY <1>6, <3>1 DEF BInv, HandlersKnow, MakerKnows
    <3> QED BY <1>1, <3>1, <3>2 DEF BInv, HandlersKnow, MakerKnows, Fresh
  <2>3. ASSUME NEW t \in Takers PROVE TakerKnows(t)'
    <3>1. /\ t \in Robots \ {m} /\ pc'[t] = pc[t] /\ call'[t] = call[t]
          /\ pc[t] \in Taking => call[t].offer # o
      BY <1>2, <1>4, <1>5, Sets
    <3>2. pc[t] \in Taking => call[t].offer \in Offers
      BY DEF BInv, TypeOK, HandlersKnow, TakerKnows
    <3>3. pc[t] \in Taking =>
            active_maker_offers'[call[t].offer] = active_maker_offers[call[t].offer]
      BY <1>6, <3>1, <3>2
    <3> QED BY <1>1, <3>1, <3>3 DEF BInv, HandlersKnow, TakerKnows, Taking
  <2>4. OwnOffers'
    <3>1. SUFFICES ASSUME NEW p \in Makers, NEW q \in Robots,
                          pc'[p] \in Preparing, pc'[q] \in Preparing \cup Taking,
                          call'[p].offer = call'[q].offer
                   PROVE  p = q
      BY DEF OwnOffers
    <3>2. p \in Robots /\ p # m /\ q # m
      BY <1>5, <3>1, Sets DEF Preparing, Taking
    <3> QED BY <1>5, <3>1, <3>2 DEF BInv, HandlersKnow, OwnOffers
  <2> QED BY <2>1, <2>2, <2>3, <2>4 DEF HandlersKnow
<1>9. BookSound'
  BY <1>1, <1>3, <1>6 DEF BInv, BookSound, ListedAsValidated, OneTable, Listed
<1>10. MonitorKnows'
  BY <1>1, MonitorUntouched DEF BInv, monitorVars
<1> QED BY <1>7, <1>8, <1>9, <1>10 DEF BInv

(* A row leaves the book: nobody is about to list that offer. *)
LEMMA RowDeleted ==
  ASSUME BInv, NEW o \in Offers,
         active_maker_offers' = [active_maker_offers EXCEPT ![o] = NULL],
         UNCHANGED <<maker_requests, taken_offers, issued>>
  PROVE  /\ active_maker_offers' \in [Offers -> ActiveOffer \cup {NULL}]
         /\ active_maker_offers'[o] = NULL
         /\ \A p \in Offers : active_maker_offers'[p] \in {NULL, active_maker_offers[p]}
         /\ BookSound'
<1>1. /\ active_maker_offers' \in [Offers -> ActiveOffer \cup {NULL}]
      /\ active_maker_offers'[o] = NULL
      /\ \A p \in Offers : active_maker_offers'[p] \in {NULL, active_maker_offers[p]}
  BY DEF BInv, TypeOK
<1>2. BookSound'
  BY <1>1 DEF BInv, BookSound, ListedAsValidated, OneTable, Listed
<1> QED BY <1>1, <1>2

LEMMA DeleteOfferKeeps ==
  ASSUME BInv, NEW t \in Takers, DeleteOffer(t)
  PROVE  BInv'
<1> DEFINE o == call[t].offer
<1>1. /\ pc[t] = "delete_offer"
      /\ active_maker_offers' = [active_maker_offers EXCEPT ![o] = NULL]
      /\ Continue(t, "insert_taken", call[t])
      /\ UNCHANGED <<maker_requests, taken_offers, issued>>
      /\ UNCHANGED <<monitorVars, coins, published, faults>>
  BY DEF DeleteOffer, At, OnlyBook
<1>2. /\ t \in Robots /\ t \notin Makers /\ call[t] \in Locals
      /\ "insert_taken" \in Steps
  BY Sets DEF BInv, TypeOK, Locals, Steps
<1>3. o \in Offers /\ o \in issued /\ call[t].row \in ActiveOffer
  BY <1>1 DEF BInv, TypeOK, HandlersKnow, TakerKnows, Taking
<1> HIDE DEF o
<1>4. /\ active_maker_offers' \in [Offers -> ActiveOffer \cup {NULL}]
      /\ active_maker_offers'[o] = NULL
      /\ \A p \in Offers : active_maker_offers'[p] \in {NULL, active_maker_offers[p]}
      /\ BookSound'
  BY <1>1, <1>3, RowDeleted
<1>5. /\ pc' \in [Robots -> Steps] /\ call' \in [Robots -> Locals]
      /\ offer_of' \in [Robots -> Offers \cup {NULL}]
      /\ psbt_of' \in [Robots -> Takers \cup {NULL}]
      /\ pc'[t] = "insert_taken" /\ call'[t] = call[t]
      /\ \A q \in Robots \ {t} : pc'[q] = pc[q] /\ call'[q] = call[q]
  BY <1>1, <1>2, ContinueTyped DEF BInv
<1>6. TypeOK'
  BY <1>1, <1>4, <1>5 DEF BInv, TypeOK, Locals, monitorVars
<1>7. HandlersKnow'
  <2>1. ASSUME NEW m \in Makers PROVE MakerKnows(m)'
    <3>1. pc'[m] = pc[m] /\ call'[m] = call[m]
      BY <1>2, <1>5, Sets
    <3> QED BY <1>1, <1>4, <3>1 DEF BInv, HandlersKnow, MakerKnows, Fresh
  <2>2. TakerKnows(t)'
    BY <1>1, <1>3, <1>4, <1>5 DEF TakerKnows, Taking, o
  <2>3. ASSUME NEW q \in Takers \ {t} PROVE TakerKnows(q)'
    <3>1. pc'[q] = pc[q] /\ call'[q] = call[q]
      BY <1>5, Sets
    <3>2. pc[q] \in Taking => call[q].offer \in Offers
      BY DEF BInv, TypeOK, HandlersKnow, TakerKnows
    <3> QED BY <1>1, <1>4, <3>1, <3>2 DEF BInv, HandlersKnow, TakerKnows, Taking
  <2>4. OwnOffers'
    <3>1. \A q \in Robots : /\ call'[q] = call[q]
                            /\ pc'[q] \in Preparing <=> pc[q] \in Preparing
                            /\ pc'[q] \in Taking <=> pc[q] \in Taking
      BY <1>1, <1>5 DEF Preparing, Taking
    <3> QED BY <3>1, Sets DEF BInv, HandlersKnow, OwnOffers
  <2> QED BY <2>1, <2>2, <2>3, <2>4 DEF HandlersKnow
<1>8. MonitorKnows'
  BY <1>1, MonitorUntouched DEF BInv, monitorVars
<1> QED BY <1>4, <1>6, <1>7, <1>8 DEF BInv

(* The offer is not in the book any more, and stays out of it. *)
LEMMA InsertTakenKeeps ==
  ASSUME BInv, NEW t \in Takers, InsertTaken(t)
  PROVE  BInv'
<1> DEFINE o == call[t].offer
           row == [maker |-> call[t].row.robohash, taker |-> t]
<1>1. /\ pc[t] = "insert_taken"
      /\ taken_offers' = [taken_offers EXCEPT ![o] = row]
      /\ Reply(t, o, t)
      /\ UNCHANGED <<maker_requests, active_maker_offers, issued>>
      /\ UNCHANGED <<monitorVars, coins, published, faults>>
  BY DEF InsertTaken, At, OnlyBook
<1>2. t \in Robots /\ t \notin Makers
  BY Sets
<1>3. /\ o \in Offers /\ o \in issued /\ active_maker_offers[o] = NULL
      /\ row \in TakenOffer
  <2>1. /\ o \in issued /\ active_maker_offers[o] = NULL
        /\ call[t].row \in ActiveOffer
    BY <1>1 DEF BInv, HandlersKnow, TakerKnows, Taking
  <2> QED BY <2>1 DEF ActiveOffer, TakenOffer, BInv, TypeOK
<1>4. \A m \in Makers : pc[m] \in Preparing => call[m].offer # o
  <2>1. pc[t] \in Taking
    BY <1>1 DEF Taking
  <2> QED BY <1>2, <2>1 DEF BInv, HandlersKnow, OwnOffers
<1> HIDE DEF o, row
<1>5. /\ pc' \in [Robots -> Steps] /\ call' \in [Robots -> Locals]
      /\ offer_of' \in [Robots -> Offers \cup {NULL}]
      /\ psbt_of' \in [Robots -> Takers \cup {NULL}]
      /\ pc'[t] = "idle"
      /\ \A q \in Robots \ {t} : pc'[q] = pc[q] /\ call'[q] = call[q]
  BY <1>1, <1>2, <1>3, ReplyTyped DEF BInv
<1>6. /\ taken_offers' \in [Offers -> TakenOffer \cup {NULL}]
      /\ \A p \in Offers \ {o} : taken_offers'[p] = taken_offers[p]
  BY <1>1, <1>3 DEF BInv, TypeOK
<1>7. TypeOK'
  BY <1>1, <1>5, <1>6 DEF BInv, TypeOK, Locals, monitorVars
<1>8. HandlersKnow'
  <2>1. ASSUME NEW m \in Makers PROVE MakerKnows(m)'
    <3>1. pc'[m] = pc[m] /\ call'[m] = call[m]
      BY <1>2, <1>5, Sets
    <3>2. pc[m] \in Preparing => taken_offers'[call[m].offer] = taken_offers[call[m].offer]
      BY <1>4, <1>6 DEF BInv, HandlersKnow, MakerKnows
    <3> QED BY <1>1, <3>1, <3>2 DEF BInv, HandlersKnow, MakerKnows, Fresh
  <2>2. TakerKnows(t)'
    BY <1>5 DEF TakerKnows, Taking
  <2>3. ASSUME NEW q \in Takers \ {t} PROVE TakerKnows(q)'
    BY <1>1, <1>5, Sets DEF BInv, HandlersKnow, TakerKnows
  <2>4. OwnOffers'
    <3>1. SUFFICES ASSUME NEW p \in Makers, NEW q \in Robots,
                          pc'[p] \in Preparing, pc'[q] \in Preparing \cup Taking,
                          call'[p].offer = call'[q].offer
                   PROVE  p = q
      BY DEF OwnOffers
    <3>2. p \in Robots /\ p # t /\ q # t
      BY <1>5, <3>1, Sets DEF Preparing, Taking
    <3> QED BY <1>5, <3>1, <3>2 DEF BInv, HandlersKnow, OwnOffers
  <2> QED BY <2>1, <2>2, <2>3, <2>4 DEF HandlersKnow
<1>9. BookSound'
  BY <1>1, <1>3, <1>6 DEF BInv, BookSound, ListedAsValidated, OneTable, Listed
<1>10. MonitorKnows'
  BY <1>1, MonitorUntouched DEF BInv, monitorVars
<1> QED BY <1>7, <1>8, <1>9, <1>10 DEF BInv

LEMMA GetOfferStatusMakerKeeps ==
  ASSUME BInv, NEW m \in Makers, GetOfferStatusMaker(m)
  PROVE  BInv'
<1> DEFINE o == offer_of[m]
<1>1. /\ pc[m] = "idle" /\ o # NULL /\ taken_offers[o] # NULL
      /\ Reply(m, o, taken_offers[o].taker) /\ OnlyHandlers
  BY DEF GetOfferStatusMaker, At
<1>2. m \in Robots /\ o \in Offers
  BY <1>1, Sets DEF BInv, TypeOK
<1>3. taken_offers[o].taker \in Takers
  BY <1>1, <1>2 DEF BInv, TypeOK, TakenOffer
<1> HIDE DEF o
<1>4. /\ pc' \in [Robots -> Steps] /\ call' \in [Robots -> Locals]
      /\ offer_of' \in [Robots -> Offers \cup {NULL}]
      /\ psbt_of' \in [Robots -> Takers \cup {NULL}]
  BY <1>1, <1>2, <1>3, ReplyTyped DEF BInv
<1>5. UNCHANGED <<bookVars, monitorVars, coins, published, faults>>
  BY <1>1 DEF OnlyHandlers
<1>6. TypeOK'
  BY <1>4, <1>5 DEF BInv, TypeOK, Locals, bookVars, monitorVars
<1>7. HandlersKnow'
  BY <1>1, <1>2, <1>5, HandlerEnds DEF BInv, Reply
<1>8. BookSound' /\ MonitorKnows'
  BY <1>5, BookUntouched, MonitorUntouched DEF BInv, bookVars, monitorVars
<1> QED BY <1>6, <1>7, <1>8 DEF BInv

-----------------------------------------------------------------------------
(* The bond monitor, the node, and what interrupts *)

LEMMA ListedBonds ==
  ASSUME TypeOK
  PROVE  AllBonds \subseteq MonitoringBond
<1>1. \A o \in Listed : active_maker_offers[o].robohash \in Makers
  BY DEF Listed, TypeOK, ActiveOffer
<1> QED BY <1>1 DEF AllBonds, MonitoringBond, Listed

LEMMA FaultTyped ==
  ASSUME TypeOK, Fault
  PROVE  faults' \in 0..MaxFaults
BY OfferBookAssumption, SMT DEF TypeOK, Fault

LEMMA MonitorStepKeeps ==
  ASSUME BInv, MonitorStep
  PROVE  BInv'
<1> USE DEF OnlyMonitor
<1>1. CASE FetchAllBonds
  <2>1. /\ snapshot' = AllBonds
        /\ UNCHANGED <<bookVars, violating, removing, coins, published, handlerVars, faults>>
    BY <1>1 DEF FetchAllBonds
  <2>2. TypeOK'
    BY <2>1, ListedBonds DEF BInv, TypeOK, bookVars, handlerVars
  <2>3. HandlersKnow' /\ BookSound' /\ MonitorKnows'
    BY <2>1, HandlersUntouched, BookUntouched, MonitorUntouched
       DEF BInv, bookVars, handlerVars
  <2> QED BY <2>2, <2>3 DEF BInv
<1>2. ASSUME NEW b \in MonitoringBond, ValidateBond(b) PROVE BInv'
  <2>1. /\ snapshot' = snapshot \ {b}
        /\ \/ violating' = violating
           \/ Violates(b) /\ violating' = violating \cup {b}
        /\ UNCHANGED <<bookVars, removing, coins, published, handlerVars, faults>>
    BY <1>2 DEF ValidateBond
  <2>2. TypeOK'
    BY <1>2, <2>1 DEF BInv, TypeOK, bookVars, handlerVars
  <2>3. HandlersKnow' /\ BookSound'
    BY <2>1, HandlersUntouched, BookUntouched DEF BInv, bookVars, handlerVars
  <2>4. MonitorKnows'
    BY <2>1 DEF BInv, MonitorKnows, Violates, Void
  <2> QED BY <2>2, <2>3, <2>4 DEF BInv
<1>3. ASSUME NEW b \in MonitoringBond, Publish(b) PROVE BInv'
  <2>1. /\ violating' \subseteq violating
        /\ coins' \in {coins, [coins EXCEPT ![b.robot] = "bond"]}
        /\ published' \in {published, published \cup {b.trade_id}}
        /\ removing' \in {removing, b}
        /\ UNCHANGED <<bookVars, snapshot, handlerVars, faults>>
    BY <1>3 DEF Publish
  <2>2. /\ b.robot \in Robots /\ b.trade_id \in Offers
    BY Sets DEF MonitoringBond
  <2>3. TypeOK'
    BY <2>1, <2>2 DEF BInv, TypeOK, CoinStates, bookVars, handlerVars
  <2>4. HandlersKnow' /\ BookSound'
    BY <2>1, HandlersUntouched, BookUntouched DEF BInv, bookVars, handlerVars
  <2>5. MonitorKnows'
    <3>1. \A r \in Robots : coins[r] # "unspent" => coins'[r] # "unspent"
      BY <2>1 DEF BInv, TypeOK
    <3>2. \A c \in violating : c.robot \in Robots
      BY Sets DEF BInv, TypeOK, MonitoringBond
    <3> QED BY <2>1, <3>1, <3>2 DEF BInv, MonitorKnows
  <2> QED BY <2>3, <2>4, <2>5 DEF BInv
<1>4. CASE RemoveViolatingBond
  <2> DEFINE o == removing.trade_id
  <2>1. /\ active_maker_offers' = [active_maker_offers EXCEPT ![o] = NULL]
        /\ removing # NULL /\ removing' = NULL
        /\ UNCHANGED <<maker_requests, taken_offers, issued, snapshot, violating,
                       coins, published, handlerVars, faults>>
    BY <1>4 DEF RemoveViolatingBond
  <2>2. o \in Offers
    BY <2>1 DEF BInv, TypeOK, MonitoringBond
  <2> HIDE DEF o
  <2>3. /\ active_maker_offers' \in [Offers -> ActiveOffer \cup {NULL}]
        /\ \A p \in Offers : active_maker_offers'[p] \in {NULL, active_maker_offers[p]}
        /\ BookSound'
    BY <2>1, <2>2, RowDeleted
  <2>4. TypeOK'
    BY <2>1, <2>3 DEF BInv, TypeOK, handlerVars
  <2>5. HandlersKnow'
    <3>1. pc' = pc /\ call' = call
      BY <2>1 DEF handlerVars
    <3>2. ASSUME NEW m \in Makers PROVE MakerKnows(m)'
      BY <2>1, <2>3, <3>1 DEF BInv, HandlersKnow, MakerKnows, Fresh
    <3>3. ASSUME NEW t \in Takers PROVE TakerKnows(t)'
      <4>1. pc[t] \in Taking => call[t].offer \in Offers
        BY DEF BInv, TypeOK, HandlersKnow, TakerKnows
      <4> QED BY <2>1, <2>3, <3>1, <4>1 DEF BInv, HandlersKnow, TakerKnows, Taking
    <3>4. OwnOffers'
      BY <3>1 DEF BInv, HandlersKnow, OwnOffers
    <3> QED BY <3>2, <3>3, <3>4 DEF HandlersKnow
  <2>6. MonitorKnows'
    BY <2>1, MonitorUntouched DEF BInv
  <2> QED BY <2>3, <2>4, <2>5, <2>6 DEF BInv
<1> QED BY <1>1, <1>2, <1>3, <1>4 DEF MonitorStep

(* Coins once spent are never unspent again. *)
LEMMA CoinStepKeeps ==
  ASSUME BInv, UNCHANGED <<bookVars, handlerVars, monitorVars, published, faults>>,
         coins' \in [Robots -> CoinStates],
         \A r \in Robots : coins[r] # "unspent" => coins'[r] # "unspent"
  PROVE  BInv'
<1>1. TypeOK'
  BY DEF BInv, TypeOK, bookVars, handlerVars, monitorVars
<1>2. HandlersKnow' /\ BookSound'
  BY HandlersUntouched, BookUntouched DEF BInv, bookVars, handlerVars
<1>3. MonitorKnows'
  <2>1. \A b \in violating : b.robot \in Robots
    BY Sets DEF BInv, TypeOK, MonitoringBond
  <2> QED BY <2>1 DEF BInv, MonitorKnows, monitorVars
<1> QED BY <1>1, <1>2, <1>3 DEF BInv

LEMMA CoinsBecomeKeeps ==
  ASSUME BInv, NEW r \in Robots, NEW states, NEW new \in CoinStates \ {"unspent"},
         CoinsBecome(r, states, new)
  PROVE  BInv'
<1>1. /\ coins' = [coins EXCEPT ![r] = new]
      /\ UNCHANGED <<bookVars, handlerVars, monitorVars, published, faults>>
  BY DEF CoinsBecome, OnlyCoins
<1>2. /\ coins' \in [Robots -> CoinStates]
      /\ \A q \in Robots : coins[q] # "unspent" => coins'[q] # "unspent"
  BY <1>1 DEF BInv, TypeOK
<1> QED BY <1>1, <1>2, CoinStepKeeps

LEMMA LockEscrowKeeps ==
  ASSUME BInv, NEW m \in Makers, NEW t \in Takers, LockEscrow(m, t)
  PROVE  BInv'
<1>1. /\ coins' = [coins EXCEPT ![m] = "spent", ![t] = "spent"]
      /\ UNCHANGED <<bookVars, handlerVars, monitorVars, published, faults>>
  BY DEF LockEscrow, OnlyCoins
<1>2. m \in Robots /\ t \in Robots
  BY Sets
<1>3. /\ coins' \in [Robots -> CoinStates]
      /\ \A q \in Robots : coins[q] # "unspent" => coins'[q] # "unspent"
  BY <1>1, <1>2 DEF BInv, TypeOK, CoinStates
<1> QED BY <1>1, <1>3, CoinStepKeeps

LEMMA LeaveKeeps ==
  ASSUME BInv, NEW r \in Robots, Leave(r)
  PROVE  BInv'
<1>1. Fail(r) /\ UNCHANGED <<bookVars, monitorVars, coins, published>>
  BY DEF Leave
<1>2. faults' \in 0..MaxFaults
  BY FaultTyped DEF BInv, Leave
<1> QED BY <1>1, <1>2, FailKeeps

LEMMA ValidateBondsFailsKeeps ==
  ASSUME BInv, ValidateBondsFails
  PROVE  BInv'
<1>1. faults' \in 0..MaxFaults
  BY FaultTyped DEF BInv, ValidateBondsFails
<1>2. /\ snapshot' = {} /\ violating' = {}
      /\ UNCHANGED <<bookVars, handlerVars, removing, coins, published>>
  BY DEF ValidateBondsFails
<1>3. TypeOK'
  BY <1>1, <1>2 DEF BInv, TypeOK, bookVars, handlerVars
<1>4. HandlersKnow' /\ BookSound' /\ MonitorKnows'
  BY <1>2, HandlersUntouched, BookUntouched DEF BInv, bookVars, handlerVars, MonitorKnows
<1> QED BY <1>3, <1>4 DEF BInv

LEMMA RestartKeeps ==
  ASSUME BInv, Restart
  PROVE  BInv'
<1>1. faults' \in 0..MaxFaults
  BY FaultTyped DEF BInv, Restart
<1>2. /\ pc' = [r \in Robots |-> "idle"] /\ call' = [r \in Robots |-> NoCall]
      /\ snapshot' = {} /\ violating' = {} /\ removing' = NULL
      /\ UNCHANGED <<bookVars, offer_of, psbt_of, coins, published>>
  BY DEF Restart
<1>3. NoCall \in Locals
  BY DEF NoCall, Locals
<1>4. TypeOK'
  BY <1>1, <1>2, <1>3 DEF BInv, TypeOK, Locals, Steps, bookVars
<1>5. HandlersKnow'
  BY <1>2, Sets DEF HandlersKnow, MakerKnows, TakerKnows, OwnOffers, Preparing, Taking
<1>6. BookSound' /\ MonitorKnows'
  BY <1>2, BookUntouched DEF BInv, bookVars, MonitorKnows
<1> QED BY <1>4, <1>5, <1>6 DEF BInv

LEMMA BInvStep == BInv /\ [Next]_vars => BInv'
<1> SUFFICES ASSUME BInv, [Next]_vars PROVE BInv'
  OBVIOUS
<1>1. ASSUME NEW m \in Makers, MakerStep(m) PROVE BInv'
  BY <1>1, ValidateMakerBondKeeps, SelectRequestKeeps, DeleteRequestKeeps,
     InsertOfferKeeps DEF MakerStep
<1>2. ASSUME NEW t \in Takers, TakerStep(t) PROVE BInv'
  BY <1>2, ValidateTakerBondKeeps, SelectOfferKeeps, DeleteOfferKeeps,
     InsertTakenKeeps DEF TakerStep
<1>3. ASSUME NEW r \in Robots, SpendCoins(r) \/ NoticeSpend(r) \/ MineSpend(r)
      PROVE  BInv'
  <2>1. {"spent", "noticed", "mined"} \subseteq CoinStates \ {"unspent"}
    BY DEF CoinStates
  <2> QED BY <1>3, <2>1, CoinsBecomeKeeps DEF SpendCoins, NoticeSpend, MineSpend
<1>4. CASE UNCHANGED vars
  <2>1. TypeOK'
    BY <1>4 DEF BInv, TypeOK, vars, bookVars, handlerVars, monitorVars
  <2>2. HandlersKnow' /\ BookSound' /\ MonitorKnows'
    BY <1>4, HandlersUntouched, BookUntouched, MonitorUntouched
       DEF BInv, vars, bookVars, handlerVars, monitorVars
  <2> QED BY <2>1, <2>2 DEF BInv
<1> QED BY <1>1, <1>2, <1>3, <1>4, ProcessOrderKeeps, SubmitMakerBondKeeps,
           GetOfferStatusMakerKeeps, SubmitTakerBondKeeps, MonitorStepKeeps,
           ValidateBondsFailsKeeps, LeaveKeeps, LockEscrowKeeps, RestartKeeps
        DEF Next

LEMMA BInvAlways == Spec => []BInv
<1> QED BY BInvInit, BInvStep, PTL DEF Spec

-----------------------------------------------------------------------------
(* Every variable of the offer book keeps its type. *)
THEOREM BookTyped == Spec => []TypeOK
<1>1. BInv => TypeOK
  BY DEF BInv
<1> QED BY <1>1, BInvAlways, PTL

(* handle_maker_bond lists an offer with the very terms its bond was validated
   against, however long the validation takes. *)
THEOREM ValidatedTerms == Spec => []ListedAsValidated
<1>1. BInv => ListedAsValidated
  BY DEF BInv, BookSound
<1> QED BY <1>1, BInvAlways, PTL

(* An offer is never in the order book and taken at once, whatever handlers and
   the monitor do to its row at the same time, and whenever they are cut short. *)
THEOREM ListedOrTaken == Spec => []OneTable
<1>1. BInv => OneTable
  BY DEF BInv, BookSound
<1> QED BY <1>1, BInvAlways, PTL

(* No bond is published while the coins it spends were left alone. *)
THEOREM OnlyForCause == Spec => PublishedForCause
<1> DEFINE Cause == \A b \in MonitoringBond :
                      removing' = b /\ removing # b => coins[b.robot] # "unspent"
<1>1. ASSUME BInv, [Next]_vars PROVE Cause
  <2>1. SUFFICES ASSUME NEW b \in MonitoringBond, removing' = b, removing # b
                 PROVE  coins[b.robot] # "unspent"
    OBVIOUS
  <2>2. b # NULL
    BY NullIsNoRow
  <2>3. PICK c \in MonitoringBond : Publish(c)
    <3>1. CASE UNCHANGED vars
      BY <2>1, <3>1 DEF vars, monitorVars
    <3>2. CASE MonitorStep
      BY <2>1, <2>2, <3>2 DEF MonitorStep, FetchAllBonds, ValidateBond,
         RemoveViolatingBond, OnlyMonitor
    <3>3. ASSUME NEW m \in Makers, MakerStep(m) PROVE FALSE
      BY <2>1, <3>3 DEF MakerStep, ValidateMakerBond, SelectRequest, DeleteRequest,
         InsertOffer, OnlyBook, OnlyHandlers, monitorVars
    <3>4. ASSUME NEW t \in Takers, TakerStep(t) PROVE FALSE
      BY <2>1, <3>4 DEF TakerStep, ValidateTakerBond, SelectOffer, DeleteOffer,
         InsertTaken, OnlyBook, OnlyHandlers, monitorVars
    <3>5. ASSUME NEW r \in Robots,
                 SpendCoins(r) \/ NoticeSpend(r) \/ MineSpend(r) \/ Leave(r)
          PROVE  FALSE
      BY <2>1, <3>5 DEF SpendCoins, NoticeSpend, MineSpend, Leave, CoinsBecome,
         OnlyCoins, monitorVars
    <3>6. CASE ValidateBondsFails \/ Restart
      BY <2>1, <2>2, <3>6 DEF ValidateBondsFails, Restart
    <3>7. ASSUME NEW m \in Makers, NEW t \in Takers, LockEscrow(m, t) PROVE FALSE
      BY <2>1, <3>7 DEF LockEscrow, OnlyCoins, monitorVars
    <3>8. ASSUME NEW m \in Makers, NEW buy \in BOOLEAN, NEW amount \in Amounts,
                 ProcessOrder(m, buy, amount)
          PROVE  FALSE
      BY <2>1, <3>8 DEF ProcessOrder, OnlyBook, monitorVars
    <3>9. ASSUME NEW m \in Makers, NEW bond \in Amounts, SubmitMakerBond(m, bond)
          PROVE  FALSE
      BY <2>1, <3>9 DEF SubmitMakerBond, OnlyHandlers, monitorVars
    <3>10. ASSUME NEW m \in Makers, GetOfferStatusMaker(m) PROVE FALSE
      BY <2>1, <3>10 DEF GetOfferStatusMaker, OnlyHandlers, monitorVars
    <3>11. ASSUME NEW t \in Takers, NEW o \in Offers, NEW bond \in Amounts,
                  SubmitTakerBond(t, o, bond)
           PROVE  FALSE
      BY <2>1, <3>11 DEF SubmitTakerBond, OnlyHandlers, monitorVars
    <3> QED BY <1>1, <3>1, <3>2, <3>3, <3>4, <3>5, <3>6, <3>7, <3>8, <3>9,
               <3>10, <3>11 DEF Next
  <2>4. b = c /\ c \in violating
    BY <2>1, <2>3 DEF Publish
  <2> QED BY <1>1, <2>4 DEF BInv, MonitorKnows
<1>2. [Next]_vars /\ BInv => [Cause]_vars
  BY <1>1
<1> QED BY <1>2, BInvAlways, PTL DEF Spec, PublishedForCause

-----------------------------------------------------------------------------
(* While no handler is cut short, an offer does not get lost. *)

Located(o) ==
  \/ o \in Listed \/ taken_offers[o] # NULL \/ o \in published
  \/ Moving(o) \/ BeforeListing(o)

RemovingIsPublished == removing # NULL => removing.trade_id \in published

LInv == BInv /\ NoOfferLost /\ RemovingIsPublished

LEMMA LocatedAll == NoOfferLost <=> \A o \in issued : Located(o)
BY DEF NoOfferLost, Located

(* The robot r does something else than moving or preparing an offer. *)
LEMMA OthersHoldOffers ==
  ASSUME LInv, NEW r \in Robots, pc[r] \notin Preparing \cup {"insert_taken"},
         \A q \in Robots \ {r} : pc'[q] = pc[q] /\ call'[q] = call[q],
         UNCHANGED <<active_maker_offers, taken_offers, published>>
  PROVE  \A o \in issued : Located(o)'
<1>1. ASSUME NEW o \in issued, BeforeListing(o) PROVE BeforeListing(o)'
  <2>1. PICK m \in Makers : call[m].offer = o /\ pc[m] \in Preparing
    BY <1>1 DEF BeforeListing, Preparing
  <2>2. pc'[m] = pc[m] /\ call'[m] = call[m]
    BY <2>1, Sets
  <2> QED BY <2>1, <2>2 DEF BeforeListing, Preparing
<1>2. ASSUME NEW o \in issued, Moving(o) PROVE Moving(o)'
  <2>1. PICK t \in Takers : pc[t] = "insert_taken" /\ call[t].offer = o
    BY <1>2 DEF Moving, At
  <2>2. pc'[t] = pc[t] /\ call'[t] = call[t]
    BY <2>1, Sets
  <2> QED BY <2>1, <2>2 DEF Moving, At
<1> QED BY <1>1, <1>2, LocatedAll DEF LInv, Located, Listed

(* The robot r keeps the one offer it has in its hands. *)
LEMMA HandsHoldOffers ==
  ASSUME LInv, NEW r \in Robots, NEW step,
         \A q \in Robots \ {r} : pc'[q] = pc[q] /\ call'[q] = call[q],
         pc'[r] = step, call'[r].offer = call[r].offer,
         \/ r \in Makers /\ step \in Preparing
         \/ r \in Takers /\ step = "insert_taken",
         UNCHANGED <<taken_offers, published>>,
         \A o \in Listed : o \in Listed' \/ o = call[r].offer
  PROVE  \A o \in issued : Located(o)'
<1>1. ASSUME NEW o \in issued, BeforeListing(o), o # call[r].offer PROVE BeforeListing(o)'
  <2>1. PICK m \in Makers : call[m].offer = o /\ pc[m] \in Preparing
    BY <1>1 DEF BeforeListing, Preparing
  <2>2. pc'[m] = pc[m] /\ call'[m] = call[m]
    BY <1>1, <2>1, Sets
  <2> QED BY <2>1, <2>2 DEF BeforeListing, Preparing
<1>2. ASSUME NEW o \in issued, Moving(o), o # call[r].offer PROVE Moving(o)'
  <2>1. PICK t \in Takers : pc[t] = "insert_taken" /\ call[t].offer = o
    BY <1>2 DEF Moving, At
  <2>2. pc'[t] = pc[t] /\ call'[t] = call[t]
    BY <1>2, <2>1, Sets
  <2> QED BY <2>1, <2>2 DEF Moving, At
<1>3. ASSUME NEW o \in issued, o = call[r].offer PROVE Moving(o)' \/ BeforeListing(o)'
  BY <1>3 DEF Moving, BeforeListing, At, Preparing
<1> QED BY <1>1, <1>2, <1>3, LocatedAll DEF LInv, Located

(* The offer that the robot r had in its hands is in a table now. *)
LEMMA TablesHoldOffers ==
  ASSUME LInv, NEW r \in Robots,
         \A q \in Robots \ {r} : pc'[q] = pc[q] /\ call'[q] = call[q],
         published' = published,
         \A o \in Offers : /\ active_maker_offers[o] # NULL => active_maker_offers'[o] # NULL
                           /\ taken_offers[o] # NULL => taken_offers'[o] # NULL,
         \/ active_maker_offers'[call[r].offer] # NULL
         \/ taken_offers'[call[r].offer] # NULL
  PROVE  \A o \in issued : Located(o)'
<1>1. ASSUME NEW o \in issued, BeforeListing(o), o # call[r].offer PROVE BeforeListing(o)'
  <2>1. PICK m \in Makers : call[m].offer = o /\ pc[m] \in Preparing
    BY <1>1 DEF BeforeListing, Preparing
  <2>2. pc'[m] = pc[m] /\ call'[m] = call[m]
    BY <1>1, <2>1, Sets
  <2> QED BY <2>1, <2>2 DEF BeforeListing, Preparing
<1>2. ASSUME NEW o \in issued, Moving(o), o # call[r].offer PROVE Moving(o)'
  <2>1. PICK t \in Takers : pc[t] = "insert_taken" /\ call[t].offer = o
    BY <1>2 DEF Moving, At
  <2>2. pc'[t] = pc[t] /\ call'[t] = call[t]
    BY <1>2, <2>1, Sets
  <2> QED BY <2>1, <2>2 DEF Moving, At
<1>3. issued \subseteq Offers
  BY DEF LInv, BInv, TypeOK
<1> QED BY <1>1, <1>2, <1>3, LocatedAll DEF LInv, Located, Listed

LEMMA MakerStepLocates ==
  ASSUME LInv, NEW m \in Makers, MakerStep(m)
  PROVE  \A o \in issued' : Located(o)'
<1>1. m \in Robots /\ TypeOK /\ MakerKnows(m) /\ call[m] \in Locals
  BY Sets DEF LInv, BInv, HandlersKnow, TypeOK, Locals
<1>2. CASE ValidateMakerBond(m)
  <2>1. /\ pc[m] = "validate_maker"
        /\ UNCHANGED <<active_maker_offers, taken_offers, published>>
    BY <1>2 DEF ValidateMakerBond, At, OnlyBook
  <2>2. pc[m] \notin Preparing \cup {"insert_taken"}
    BY <2>1 DEF Preparing
  <2>3. CASE Fail(m) /\ UNCHANGED issued
    <3>1. \A q \in Robots \ {m} : pc'[q] = pc[q] /\ call'[q] = call[q]
      BY <1>1, <2>3, ReplyTyped DEF Fail
    <3> QED BY <1>1, <2>1, <2>2, <2>3, <3>1, OthersHoldOffers
  <2>4. ASSUME NEW o \in Offers \ issued, issued' = issued \cup {o},
               Continue(m, "select_request", [call[m] EXCEPT !.offer = o])
        PROVE  \A p \in issued' : Located(p)'
    <3> DEFINE locals == [call[m] EXCEPT !.offer = o]
    <3>1. locals \in Locals /\ locals.offer = o /\ "select_request" \in Steps
      BY <1>1 DEF Locals, Steps
    <3>2. Continue(m, "select_request", locals)
      BY <2>4
    <3> HIDE DEF locals
    <3>3. /\ pc'[m] = "select_request" /\ call'[m] = locals
          /\ \A q \in Robots \ {m} : pc'[q] = pc[q] /\ call'[q] = call[q]
      BY <1>1, <3>1, <3>2, ContinueTyped
    <3>4. \A p \in issued : Located(p)'
      BY <1>1, <2>1, <2>2, <3>3, OthersHoldOffers
    <3>5. BeforeListing(o)'
      BY <3>1, <3>3 DEF BeforeListing, Preparing
    <3> QED BY <2>4, <3>4, <3>5 DEF Located
  <2> QED BY <1>2, <2>3, <2>4 DEF ValidateMakerBond, FreshIds
<1>3. CASE SelectRequest(m)
  <2>1. /\ pc[m] = "select_request"
        /\ UNCHANGED <<active_maker_offers, taken_offers, published, issued>>
    BY <1>3 DEF SelectRequest, At, OnlyHandlers, bookVars
  <2>2. maker_requests[m] \in Request /\ maker_requests[m] # NULL
    BY <1>1, <2>1, NullIsNoRow DEF MakerKnows
  <2> DEFINE locals == [call[m] EXCEPT !.row = maker_requests[m]]
  <2>3. locals \in Locals /\ locals.offer = call[m].offer /\ "delete_request" \in Steps
    BY <1>1, <2>2 DEF Locals, Steps
  <2>4. Continue(m, "delete_request", locals)
    BY <1>3, <2>2 DEF SelectRequest
  <2> HIDE DEF locals
  <2>5. /\ pc'[m] = "delete_request" /\ call'[m] = locals
        /\ \A q \in Robots \ {m} : pc'[q] = pc[q] /\ call'[q] = call[q]
    BY <1>1, <2>3, <2>4, ContinueTyped
  <2>6. "delete_request" \in Preparing /\ Listed' = Listed
    BY <2>1 DEF Preparing, Listed
  <2> QED BY <1>1, <2>1, <2>3, <2>5, <2>6, HandsHoldOffers
<1>4. CASE DeleteRequest(m)
  <2>1. /\ UNCHANGED <<active_maker_offers, taken_offers, published, issued>>
        /\ Continue(m, "insert_offer", call[m])
    BY <1>4 DEF DeleteRequest, OnlyBook
  <2>2. "insert_offer" \in Steps
    BY DEF Steps
  <2>3. /\ pc'[m] = "insert_offer" /\ call'[m] = call[m]
        /\ \A q \in Robots \ {m} : pc'[q] = pc[q] /\ call'[q] = call[q]
    BY <1>1, <2>1, <2>2, ContinueTyped
  <2>4. "insert_offer" \in Preparing /\ Listed' = Listed
    BY <2>1 DEF Preparing, Listed
  <2> QED BY <1>1, <2>1, <2>3, <2>4, HandsHoldOffers
<1>5. CASE InsertOffer(m)
  <2> DEFINE o == call[m].offer
             row == [is_buy_order |-> call[m].row.is_buy_order,
                     amount_sat |-> call[m].row.amount_sat,
                     robohash |-> m, bond |-> call[m].bond]
  <2>1. /\ pc[m] = "insert_offer"
        /\ active_maker_offers' = [active_maker_offers EXCEPT ![o] = row]
        /\ Reply(m, o, NULL)
        /\ UNCHANGED <<taken_offers, issued, published>>
    BY <1>5 DEF InsertOffer, At, OnlyBook
  <2>2. o \in Offers /\ row \in ActiveOffer
    <3>1. /\ call[m].bond \in Amounts /\ call[m].offer \in Offers
          /\ call[m].row \in Request
      BY <1>1, <2>1 DEF MakerKnows, Preparing
    <3> QED BY <3>1 DEF Request, ActiveOffer
  <2>3. row # NULL
    BY <2>2, NullIsNoRow
  <2> HIDE DEF row
  <2>4. /\ active_maker_offers'[o] = row
        /\ \A p \in Offers \ {o} : active_maker_offers'[p] = active_maker_offers[p]
    BY <1>1, <2>1, <2>2 DEF TypeOK
  <2>5. \A q \in Robots \ {m} : pc'[q] = pc[q] /\ call'[q] = call[q]
    BY <1>1, <2>1, <2>2, ReplyTyped
  <2>6. \A p \in Offers : active_maker_offers[p] # NULL => active_maker_offers'[p] # NULL
    BY <2>3, <2>4
  <2> QED BY <1>1, <2>1, <2>3, <2>4, <2>5, <2>6, TablesHoldOffers
<1> QED BY <1>2, <1>3, <1>4, <1>5 DEF MakerStep

LEMMA TakerStepLocates ==
  ASSUME LInv, NEW t \in Takers, TakerStep(t)
  PROVE  \A o \in issued' : Located(o)'
<1>1. t \in Robots /\ TypeOK /\ TakerKnows(t) /\ call[t] \in Locals
  BY Sets DEF LInv, BInv, HandlersKnow, TypeOK, Locals
<1>2. CASE ValidateTakerBond(t) \/ SelectOffer(t)
  <2>1. /\ pc[t] \notin Preparing \cup {"insert_taken"}
        /\ UNCHANGED <<active_maker_offers, taken_offers, published, issued>>
    BY <1>2 DEF ValidateTakerBond, SelectOffer, At, OnlyHandlers, bookVars, Preparing
  <2>2. \A q \in Robots \ {t} : pc'[q] = pc[q] /\ call'[q] = call[q]
    BY <1>1, <1>2 DEF ValidateTakerBond, SelectOffer, Continue, Fail, Reply, TypeOK
  <2> QED BY <1>1, <2>1, <2>2, OthersHoldOffers
<1>3. CASE DeleteOffer(t)
  <2>1. /\ active_maker_offers' = [active_maker_offers EXCEPT ![call[t].offer] = NULL]
        /\ Continue(t, "insert_taken", call[t])
        /\ UNCHANGED <<taken_offers, published, issued>>
    BY <1>3 DEF DeleteOffer, OnlyBook
  <2>2. "insert_taken" \in Steps
    BY DEF Steps
  <2>3. /\ pc'[t] = "insert_taken" /\ call'[t] = call[t]
        /\ \A q \in Robots \ {t} : pc'[q] = pc[q] /\ call'[q] = call[q]
    BY <1>1, <2>1, <2>2, ContinueTyped
  <2>4. \A o \in Listed : o \in Listed' \/ o = call[t].offer
    BY <1>1, <2>1 DEF Listed, TypeOK
  <2> QED BY <1>1, <2>1, <2>3, <2>4, HandsHoldOffers
<1>4. CASE InsertTaken(t)
  <2> DEFINE o == call[t].offer
             row == [maker |-> call[t].row.robohash, taker |-> t]
  <2>1. /\ pc[t] = "insert_taken"
        /\ taken_offers' = [taken_offers EXCEPT ![o] = row]
        /\ Reply(t, o, t)
        /\ UNCHANGED <<active_maker_offers, issued, published>>
    BY <1>4 DEF InsertTaken, At, OnlyBook
  <2>2. o \in Offers /\ row \in TakenOffer
    BY <1>1, <2>1 DEF TakerKnows, Taking, ActiveOffer, TakenOffer, TypeOK
  <2>3. row # NULL
    BY <2>2, NullIsNoRow
  <2> HIDE DEF row
  <2>4. /\ taken_offers'[o] = row
        /\ \A p \in Offers \ {o} : taken_offers'[p] = taken_offers[p]
    BY <1>1, <2>1, <2>2 DEF TypeOK
  <2>5. \A q \in Robots \ {t} : pc'[q] = pc[q] /\ call'[q] = call[q]
    BY <1>1, <2>1, <2>2, ReplyTyped
  <2>6. \A p \in Offers : taken_offers[p] # NULL => taken_offers'[p] # NULL
    BY <2>3, <2>4
  <2> QED BY <1>1, <2>1, <2>3, <2>4, <2>5, <2>6, TablesHoldOffers
<1> QED BY <1>2, <1>3, <1>4 DEF TakerStep

(* Steps that change neither table, nor what a handler has in its hands *)
LEMMA NothingMoves ==
  ASSUME LInv, published \subseteq published',
         UNCHANGED <<active_maker_offers, taken_offers, issued, pc, call>>
  PROVE  \A o \in issued' : Located(o)'
BY LocatedAll DEF LInv, Located, Listed, Moving, BeforeListing, At

LEMMA RowRemoved ==
  ASSUME LInv, RemoveViolatingBond
  PROVE  \A o \in issued' : Located(o)'
<1>1. /\ removing # NULL
      /\ active_maker_offers' =
           [active_maker_offers EXCEPT ![removing.trade_id] = NULL]
      /\ UNCHANGED <<taken_offers, issued, published, pc, call>>
  BY DEF RemoveViolatingBond, OnlyMonitor, handlerVars
<1>2. removing.trade_id \in published
  BY <1>1 DEF LInv, RemovingIsPublished
<1>3. \A o \in Listed : o \in Listed' \/ o \in published
  BY <1>1, <1>2 DEF Listed, LInv, BInv, TypeOK
<1> QED BY <1>1, <1>3, LocatedAll DEF LInv, Located, Moving, BeforeListing, At

LEMMA LInvStep ==
  ASSUME MaxFaults = 0
  PROVE  LInv /\ [Next]_vars => LInv'
<1> SUFFICES ASSUME LInv, [Next]_vars PROVE LInv'
  OBVIOUS
<1>1. BInv'
  BY BInvStep DEF LInv
<1>2. ~Fault
  BY SMT DEF Fault, LInv, BInv, TypeOK
<1> DEFINE Found == \A o \in issued' : Located(o)'
           Removal == removing' = removing /\ published \subseteq published'
<1>3. CASE UNCHANGED vars
  <2>1. Found
    BY <1>3, NothingMoves DEF vars, bookVars, handlerVars
  <2> QED BY <1>1, <1>3, <2>1, LocatedAll
        DEF LInv, NoOfferLost, Located, RemovingIsPublished, vars, monitorVars
<1>4. ASSUME NEW m \in Makers, MakerStep(m) PROVE Found /\ Removal
  <2>1. Found
    BY <1>4, MakerStepLocates
  <2>2. Removal
    BY <1>4 DEF MakerStep, ValidateMakerBond, SelectRequest, DeleteRequest,
       InsertOffer, OnlyBook, OnlyHandlers, monitorVars
  <2> QED BY <2>1, <2>2
<1>5. ASSUME NEW t \in Takers, TakerStep(t) PROVE Found /\ Removal
  <2>1. Found
    BY <1>5, TakerStepLocates
  <2>2. Removal
    BY <1>5 DEF TakerStep, ValidateTakerBond, SelectOffer, DeleteOffer,
       InsertTaken, OnlyBook, OnlyHandlers, monitorVars
  <2> QED BY <2>1, <2>2
<1>6. ASSUME NEW m \in Makers, NEW buy \in BOOLEAN, NEW amount \in Amounts,
             ProcessOrder(m, buy, amount)
      PROVE  Found /\ Removal
  <2>1. Found
    BY <1>6, NothingMoves DEF ProcessOrder, OnlyBook, handlerVars
  <2> QED BY <1>6, <2>1 DEF ProcessOrder, OnlyBook, monitorVars
<1>7. ASSUME NEW m \in Makers, NEW bond \in Amounts, SubmitMakerBond(m, bond)
      PROVE  Found /\ Removal
  <2>1. /\ m \in Robots /\ pc[m] \notin Preparing \cup {"insert_taken"}
        /\ UNCHANGED <<active_maker_offers, taken_offers, published, issued, removing>>
    BY <1>7, Sets DEF SubmitMakerBond, CanCall, At, OnlyHandlers, bookVars,
       monitorVars, Preparing
  <2>2. \A q \in Robots \ {m} : pc'[q] = pc[q] /\ call'[q] = call[q]
    BY <1>7, <2>1 DEF SubmitMakerBond, Continue, LInv, BInv, TypeOK
  <2> QED BY <2>1, <2>2, OthersHoldOffers
<1>8. ASSUME NEW t \in Takers, NEW o \in Offers, NEW bond \in Amounts,
             SubmitTakerBond(t, o, bond)
      PROVE  Found /\ Removal
  <2>1. /\ t \in Robots /\ pc[t] \notin Preparing \cup {"insert_taken"}
        /\ UNCHANGED <<active_maker_offers, taken_offers, published, issued, removing>>
    BY <1>8, Sets DEF SubmitTakerBond, CanCall, At, OnlyHandlers, bookVars,
       monitorVars, Preparing
  <2>2. \A q \in Robots \ {t} : pc'[q] = pc[q] /\ call'[q] = call[q]
    BY <1>8, <2>1 DEF SubmitTakerBond, Continue, LInv, BInv, TypeOK
  <2> QED BY <2>1, <2>2, OthersHoldOffers
<1>9. ASSUME NEW m \in Makers, GetOfferStatusMaker(m) PROVE Found /\ Removal
  <2>1. /\ m \in Robots /\ pc[m] \notin Preparing \cup {"insert_taken"}
        /\ UNCHANGED <<active_maker_offers, taken_offers, published, issued, removing>>
    BY <1>9, Sets DEF GetOfferStatusMaker, At, OnlyHandlers, bookVars,
       monitorVars, Preparing
  <2>2. \A q \in Robots \ {m} : pc'[q] = pc[q] /\ call'[q] = call[q]
    BY <1>9, <2>1 DEF GetOfferStatusMaker, Reply, LInv, BInv, TypeOK
  <2> QED BY <2>1, <2>2, OthersHoldOffers
<1>10. ASSUME NEW r \in Robots,
              SpendCoins(r) \/ NoticeSpend(r) \/ MineSpend(r)
       PROVE  Found /\ Removal
  <2>1. UNCHANGED <<bookVars, handlerVars, monitorVars, published>>
    BY <1>10 DEF SpendCoins, NoticeSpend, MineSpend, CoinsBecome, OnlyCoins
  <2>2. Found
    BY <2>1, NothingMoves DEF bookVars, handlerVars
  <2> QED BY <2>1, <2>2 DEF monitorVars
<1>11. ASSUME NEW m \in Makers, NEW t \in Takers, LockEscrow(m, t)
       PROVE  Found /\ Removal
  <2>1. UNCHANGED <<bookVars, handlerVars, monitorVars, published>>
    BY <1>11 DEF LockEscrow, OnlyCoins
  <2>2. Found
    BY <2>1, NothingMoves DEF bookVars, handlerVars
  <2> QED BY <2>1, <2>2 DEF monitorVars
<1>12. ASSUME MonitorStep PROVE Found /\ RemovingIsPublished'
  <2>1. CASE FetchAllBonds \/ \E b \in MonitoringBond : ValidateBond(b)
    <3>1. UNCHANGED <<bookVars, handlerVars, removing, published>>
      BY <2>1 DEF FetchAllBonds, ValidateBond, OnlyMonitor
    <3>2. Found
      BY <3>1, NothingMoves DEF bookVars, handlerVars
    <3> QED BY <3>1, <3>2 DEF LInv, RemovingIsPublished
  <2>2. ASSUME NEW b \in MonitoringBond, Publish(b)
        PROVE  Found /\ RemovingIsPublished'
    <3>1. /\ UNCHANGED <<bookVars, handlerVars>>
          /\ \/ UNCHANGED <<removing, published>>
             \/ published' = published \cup {b.trade_id} /\ removing' = b
      BY <2>2 DEF Publish, OnlyMonitor
    <3>2. Found
      BY <3>1, NothingMoves DEF bookVars, handlerVars
    <3> QED BY <3>1, <3>2 DEF LInv, RemovingIsPublished
  <2>3. CASE RemoveViolatingBond
    <3>1. removing' = NULL
      BY <2>3 DEF RemoveViolatingBond
    <3> QED BY <2>3, <3>1, RowRemoved DEF RemovingIsPublished
  <2> QED BY <1>12, <2>1, <2>2, <2>3 DEF MonitorStep
<1>13. Found /\ Removal => NoOfferLost' /\ RemovingIsPublished'
  BY DEF NoOfferLost, Located, LInv, RemovingIsPublished
<1>14. Found /\ RemovingIsPublished' => NoOfferLost' /\ RemovingIsPublished'
  BY DEF NoOfferLost, Located
<1>15. ~ValidateBondsFails /\ ~Restart /\ \A r \in Robots : ~Leave(r)
  BY <1>2 DEF ValidateBondsFails, Restart, Leave
<1> HIDE DEF Found, Removal
<1>16. CASE Next
  BY <1>4, <1>5, <1>6, <1>7, <1>8, <1>9, <1>10, <1>11, <1>12, <1>13,
     <1>14, <1>15, <1>16, <1>1 DEF Next, LInv
<1> QED BY <1>3, <1>16

(* Listed, taken, published or in the hands of the handler that lists or moves
   it: while no handler is cut short an offer does not get lost between the
   statement that deletes its row and the one that inserts it. *)
THEOREM OfferLocated ==
  ASSUME MaxFaults = 0
  PROVE  Spec => []NoOfferLost
<1>1. Init => LInv
  BY BInvInit DEF Init, LInv, NoOfferLost, RemovingIsPublished
<1>2. LInv /\ [Next]_vars => LInv'
  BY LInvStep
<1>3. LInv => NoOfferLost
  BY DEF LInv
<1> QED BY <1>1, <1>2, <1>3, PTL DEF Spec
=============================================================================

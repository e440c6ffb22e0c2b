---------------------------- MODULE TakenOffers ----------------------------
(***************************************************************************)
(* The taken_offers table of the coordinator's SQLite database             *)
(* (coordinator/src/database/mod.rs): one row for every offer that has a   *)
(* taker, from the taker's bond to the payout.                             *)
(*                                                                         *)
(* A column is a function on offers, and the columns that exist once for   *)
(* the maker and once for the taker are functions on offers and roles.     *)
(* The operators below are the SQL statements the settlement handlers and  *)
(* the background tasks run.  The database has no transactions in this     *)
(* code: every statement is awaited alone, so it is one atomic step, and   *)
(* anything may happen between two of them.                                *)
(*                                                                         *)
(* An UPDATE whose WHERE clause matches no row changes nothing.  The       *)
(* columns of a deleted row keep their last value here; no statement reads *)
(* or writes them again, and the properties use them as the record of how  *)
(* the trade ended.                                                        *)
(***************************************************************************)
EXTENDS TradeIds, Integers

CONSTANTS MakerOf,   \* robohash_maker of every row
          TakerOf    \* robohash_taker of every row

ASSUME TakenOffersAssumption ==
  /\ MakerOf \in [Offers -> Robots]
  /\ TakerOf \in [Offers -> Robots]

VARIABLES
  taken,                      \* offer ids that have a row
  signed_escrow_psbt,         \* has the role's signed escrow psbt been stored?
  escrow_psbt_is_confirmed,   \* 0 or 1
  happy,                      \* maker_happy and taker_happy: NULL or 1
  escrow_ongoing,             \* 0 or 1
  escrow_winner,              \* NULL or the winner's robohash
  payout_psbt,                \* NULL or the stored payout transaction
  partial_sig,                \* NULL or the payout the role's signature signs
  processing                  \* 0 or 1

tableVars ==
  <<taken, signed_escrow_psbt, escrow_psbt_is_confirmed, happy, escrow_ongoing,
    escrow_winner, payout_psbt, partial_sig, processing>>

Roles == {"maker", "taker"}

TableTypeOK ==
  /\ taken \subseteq Offers
  /\ signed_escrow_psbt \in [Offers -> [Roles -> BOOLEAN]]
  /\ escrow_psbt_is_confirmed \in [Offers -> {0, 1}]
  /\ happy \in [Offers -> [Roles -> {NULL, 1}]]
  /\ escrow_ongoing \in [Offers -> {0, 1}]
  /\ escrow_winner \in [Offers -> Robots \cup {NULL}]
  /\ payout_psbt \in [Offers -> Payouts \cup {NULL}]
  /\ partial_sig \in [Offers -> [Roles -> Payouts \cup {NULL}]]
  /\ processing \in [Offers -> {0, 1}]

(* A row as the taker's bond submission inserts it: nothing signed, nothing
   confirmed, no one happy. *)
TableInit ==
  /\ taken = Offers
  /\ signed_escrow_psbt = [o \in Offers |-> [role \in Roles |-> FALSE]]
  /\ escrow_psbt_is_confirmed = [o \in Offers |-> 0]
  /\ happy = [o \in Offers |-> [role \in Roles |-> NULL]]
  /\ escrow_ongoing = [o \in Offers |-> 0]
  /\ escrow_winner = [o \in Offers |-> NULL]
  /\ payout_psbt = [o \in Offers |-> NULL]
  /\ partial_sig = [o \in Offers |-> [role \in Roles |-> NULL]]
  /\ processing = [o \in Offers |-> 0]

-----------------------------------------------------------------------------
(* Reads *)

(* is_valid_robohash_in_table *)
IsParty(o, r) == o \in taken /\ r \in {MakerOf[o], TakerOf[o]}

(* is_maker_in_taken_offers: the maker's column wins if one robot is both *)
RoleOf(o, r) == IF r = MakerOf[o] THEN "maker" ELSE "taker"

(* Mutant: the flag of the confirmation monitor is not read *)
MayProceedAnyTime(o, r) == IsParty(o, r)

(* check_offer_and_confirmation: a party of the trade, and the escrow
   transaction flagged as confirmed *)
MayProceed(o, r) == IsParty(o, r) /\ escrow_psbt_is_confirmed[o] = 1

BothEscrowPsbtsSigned(o) == \A role \in Roles : signed_escrow_psbt[o][role]

(* Mutant: one happy trader is enough *)
OneHappy(o) == \E role \in Roles : happy[o][role] = 1

BothHappy(o) == \A role \in Roles : happy[o][role] = 1

BothPartialSigs(o) == \A role \in Roles : partial_sig[o][role] # NULL

UnconfirmedEscrowTxids == {o \in taken : escrow_psbt_is_confirmed[o] = 0}

(* Mutants: without the WHERE clause, and with a stricter one *)
AllAsOpen == taken
OpenIfNoOneHappy ==
  {o \in taken : escrow_ongoing[o] = 1 /\ \A role \in Roles : happy[o][role] # 1}

OpenEscrows == {o \in taken : escrow_ongoing[o] = 1}

-----------------------------------------------------------------------------
(* Updates *)

UpdateRow(column, o, value) ==
  IF o \in taken THEN [column EXCEPT ![o] = value] ELSE column

UpdateRole(column, o, role, value) ==
  IF o \in taken THEN [column EXCEPT ![o][role] = value] ELSE column

InsertSignedEscrowPsbt(o, role) ==
  /\ signed_escrow_psbt' = UpdateRole(signed_escrow_psbt, o, role, TRUE)
  /\ UNCHANGED <<taken, escrow_psbt_is_confirmed, happy, escrow_ongoing,
                 escrow_winner, payout_psbt, partial_sig, processing>>

SetConfirmed(o) ==
  /\ escrow_psbt_is_confirmed' = UpdateRow(escrow_psbt_is_confirmed, o, 1)
  /\ UNCHANGED <<taken, signed_escrow_psbt, happy, escrow_ongoing,
                 escrow_winner, payout_psbt, partial_sig, processing>>

SetTraderHappyField(o, role, flag) ==
  /\ happy' = UpdateRole(happy, o, role, BoolToSqlInt(flag))
  /\ UNCHANGED <<taken, signed_escrow_psbt, escrow_psbt_is_confirmed,
                 escrow_ongoing, escrow_winner, payout_psbt, partial_sig,
                 processing>>

SetEscrowOngoing(o) ==
  /\ escrow_ongoing' = UpdateRow(escrow_ongoing, o, 1)
  /\ UNCHANGED <<taken, signed_escrow_psbt, escrow_psbt_is_confirmed, happy,
                 escrow_winner, payout_psbt, partial_sig, processing>>

(* Mutant: the decided case stays open *)
ResolveEscrowLeftOpen(o, winner) ==
  /\ escrow_winner' = UpdateRow(escrow_winner, o, winner)
  /\ UNCHANGED <<taken, signed_escrow_psbt, escrow_psbt_is_confirmed, happy,
                 escrow_ongoing, payout_psbt, partial_sig, processing>>

ResolveEscrow(o, winner) ==
  /\ escrow_ongoing' = UpdateRow(escrow_ongoing, o, 0)
  /\ escrow_winner' = UpdateRow(escrow_winner, o, winner)
  /\ UNCHANGED <<taken, signed_escrow_psbt, escrow_psbt_is_confirmed, happy,
                 payout_psbt, partial_sig, processing>>

InsertPayoutPsbt(o, psbt) ==
  /\ payout_psbt' = UpdateRow(payout_psbt, o, psbt)
  /\ UNCHANGED <<taken, signed_escrow_psbt, escrow_psbt_is_confirmed, happy,
                 escrow_ongoing, escrow_winner, partial_sig, processing>>

InsertPartialSig(o, role, psbt) ==
  /\ partial_sig' = UpdateRole(partial_sig, o, role, psbt)
  /\ UNCHANGED <<taken, signed_escrow_psbt, escrow_psbt_is_confirmed, happy,
                 escrow_ongoing, escrow_winner, payout_psbt, processing>>

ToggleProcessing(o) ==
  /\ processing' = UpdateRow(processing, o, 1 - processing[o])
  /\ UNCHANGED <<taken, signed_escrow_psbt, escrow_psbt_is_confirmed, happy,
                 escrow_ongoing, escrow_winner, payout_psbt, partial_sig>>

DeleteCompleteOffer(o) ==
  /\ taken' = taken \ {o}
  /\ UNCHANGED <<signed_escrow_psbt, escrow_psbt_is_confirmed, happy,
                 escrow_ongoing, escrow_winner, payout_psbt, partial_sig,
                 processing>>
=============================================================================

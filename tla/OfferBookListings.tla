-------------------------- MODULE OfferBookListings --------------------------
(***************************************************************************)
(* How the tables, and the handlers that move a row from one to the next,  *)
(* represent the offers of module Listings: the refinement mapping under   *)
(* which OfferBook implements it.                                          *)
(***************************************************************************)
EXTENDS OfferBook

Drafting == {m \in Makers : pc[m] \in Preparing}
DraftOf(m) == [offer |-> call[m].offer, maker |-> m]
Drafts == {DraftOf(m) : m \in Drafting}

ListedBy ==
  [o \in Offers |-> IF active_maker_offers[o] = NULL
                    THEN NULL ELSE active_maker_offers[o].robohash]

Claiming == {t \in Takers : pc[t] \in {"delete_offer", "insert_taken"}}
ClaimOf(t) ==
  [offer |-> call[t].offer, maker |-> call[t].row.robohash, taker |-> t]
Claims == {ClaimOf(t) : t \in Claiming}

Book == INSTANCE Listings WITH
  given <- issued, drafts <- Drafts, listed <- ListedBy, claims <- Claims,
  taken <- taken_offers, withdrawn <- published

(* Every step of a handler, of the monitor and of a restart is a step in the
   life of one offer, or none: takers that hold the same row, a monitor that
   removes it under their hands, rounds and handlers that end early never show.
   An offer does not come back to the list, and no row leaves it unclaimed
   unless its bond was published. *)
ImplementsListings == Book!Spec

(* Several takers may hold the row of one offer, and the last of them is on
   record; but whoever that is, the maker they deal with stays the same. *)
MakerStays ==
  [][\A o \in Offers :
       taken_offers[o] # NULL =>
         /\ taken_offers'[o] # NULL
         /\ taken_offers'[o].maker = taken_offers[o].maker]_vars

(* The takers that can still replace the one on record are those that held the
   row when the first of them was recorded: no other gets hold of an offer that
   is taken, whatever its handlers and the monitor delete, and when. *)
NoLateTaker ==
  [][\A o \in Offers :
       taken_offers[o] # NULL =>
         {c \in Claims' : c.offer = o} \subseteq Claims]_vars
=============================================================================

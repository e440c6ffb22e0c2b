------------------------------- MODULE Listings -------------------------------
(***************************************************************************)
(* What the coordinator promises about the offers in its book, without     *)
(* handlers, requests, bonds' amounts, coins or the rounds of the monitor. *)
(* An id is given to one maker's offer, which is listed at most once.  A   *)
(* taker claims an offer while it is listed, so that several may; it is    *)
(* taken off the list only when somebody claims it, or when the maker's    *)
(* bond was published; and only who claimed it takes it, once it is off.   *)
(*                                                                         *)
(* OfferBook implements this: see module OfferBookListings.                *)
(***************************************************************************)
EXTENDS SqlValues

CONSTANTS Makers, Takers, Offers

VARIABLES
  given,      \* ids that were given to an offer
  drafts,     \* offers whose bond was accepted, that are not listed yet
  listed,     \* NULL or the maker of the listed offer
  claims,     \* offers as takers found them on the list
  taken,      \* NULL or the maker and the taker on record
  withdrawn   \* offers whose maker's bond was published

vars == <<given, drafts, listed, claims, taken, withdrawn>>

Draft == [offer : Offers, maker : Makers]
Claim == [offer : Offers, maker : Makers, taker : Takers]

Init ==
  /\ given = {} /\ drafts = {} /\ claims = {} /\ withdrawn = {}
  /\ listed = [o \in Offers |-> NULL]
  /\ taken = [o \in Offers |-> NULL]

GiveId(o, m) ==
  /\ o \notin given
  /\ given' = given \cup {o}
  /\ drafts' = drafts \cup {[offer |-> o, maker |-> m]}
  /\ UNCHANGED <<listed, claims, taken, withdrawn>>

List(d) ==
  /\ d \in drafts
  /\ drafts' = drafts \ {d}
  /\ listed' = [listed EXCEPT ![d.offer] = d.maker]
  /\ UNCHANGED <<given, claims, taken, withdrawn>>

(* Claims do not exclude one another: the list still shows the offer. *)
ClaimOffer(o, t) ==
  /\ listed[o] # NULL
  /\ claims' = claims \cup {[offer |-> o, maker |-> listed[o], taker |-> t]}
  /\ UNCHANGED <<given, drafts, listed, taken, withdrawn>>

Delist(o) ==
  /\ listed[o] # NULL
  /\ o \in withdrawn \/ \E c \in claims : c.offer = o
  /\ listed' = [listed EXCEPT ![o] = NULL]
  /\ UNCHANGED <<given, drafts, claims, taken, withdrawn>>

(* A second claim on the offer may replace the taker on record. *)
Take(c) ==
  /\ c \in claims
  /\ listed[c.offer] = NULL
  /\ claims' = claims \ {c}
  /\ taken' = [taken EXCEPT ![c.offer] = [maker |-> c.maker, taker |-> c.taker]]
  /\ UNCHANGED <<given, drafts, listed, withdrawn>>

(* No bond is published for an offer that was never listed. *)
Withdraw(o) ==
  /\ o \in given
  /\ \A d \in drafts : d.offer # o
  /\ withdrawn' = withdrawn \cup {o}
  /\ UNCHANGED <<given, drafts, listed, claims, taken>>

(* Errors, disconnects and restarts: what was on its way to a table is lost. *)
Forget ==
  /\ drafts' \in SUBSET drafts
  /\ claims' \in SUBSET claims
  /\ UNCHANGED <<given, listed, taken, withdrawn>>

Next ==
  \/ \E o \in Offers, m \in Makers : GiveId(o, m)
  \/ \E d \in Draft : List(d)
  \/ \E o \in Offers, t \in Takers : ClaimOffer(o, t)
  \/ \E o \in Offers : Delist(o) \/ Withdraw(o)
  \/ \E c \in Claim : Take(c)
  \/ Forget

Spec == Init /\ [][Next]_vars
=============================================================================

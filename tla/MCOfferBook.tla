----------------------------- MODULE MCOfferBook -----------------------------
(* OfferBook, for the check of its safety: nothing tells one maker, or one
   taker, from another. *)
EXTENDS OfferBookListings, TLC

RobotSymmetry == Permutations(Makers) \cup Permutations(Takers)
=============================================================================

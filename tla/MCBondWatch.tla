----------------------------- MODULE MCBondWatch -----------------------------
(* BondWatch with offers that have the same bond, and two transactions that
   spend one of its coins. *)
EXTENDS BondWatch, TLC

CONSTANTS bond, spend, rival, c1, c2

MCInputs == (bond :> {c1, c2}) @@ (spend :> {c1}) @@ (rival :> {c1})
MCBondOf == [o \in Offers |-> bond]
=============================================================================

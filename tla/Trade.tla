-------------------------------- MODULE Trade --------------------------------
(***************************************************************************)
(* What the coordinator promises about the trades it settles, without      *)
(* handlers, tasks, a database or a chain: the two traders agree to an     *)
(* escrow, the escrow is locked, and becomes final; only then they         *)
(* settle.  Each trader gives one consent to one payout, a payout needs    *)
(* both, and a trade is closed when it is paid.  A dispute gets a verdict  *)
(* only while it is open.                                                  *)
(*                                                                         *)
(* Settlement implements this: see Trades in module SettlementTrades.      *)
(***************************************************************************)
EXTENDS TradeIds

CONSTANTS MakerOf, TakerOf   \* the parties of every trade

VARIABLES
  agreed,     \* roles that agreed to the escrow
  locked,     \* trades whose escrow transaction is on its way, or in a block
  final,      \* trades whose escrow can no longer be undone
  consent,    \* NULL or the payout the role consented to
  disputed,   \* trades with an open dispute
  verdict,    \* NULL or the winner
  paid,       \* NULL or the payout that was made
  closed      \* trades that are over

vars == <<agreed, locked, final, consent, disputed, verdict, paid, closed>>

Roles == {"maker", "taker"}

Init ==
  /\ agreed = [o \in Offers |-> {}]
  /\ locked = {} /\ final = {} /\ disputed = {} /\ closed = {}
  /\ consent = [o \in Offers |-> [role \in Roles |-> NULL]]
  /\ verdict = [o \in Offers |-> NULL]
  /\ paid = [o \in Offers |-> NULL]

Agree(o, role) ==
  /\ o \notin closed
  /\ agreed' = [agreed EXCEPT ![o] = @ \cup {role}]
  /\ UNCHANGED <<locked, final, consent, disputed, verdict, paid, closed>>

Lock(o) ==
  /\ agreed[o] = Roles
  /\ locked' = locked \cup {o}
  /\ UNCHANGED <<agreed, final, consent, disputed, verdict, paid, closed>>

(* The escrow transaction may get lost, until it is final. *)
Drop(o) ==
  /\ o \notin final
  /\ locked' = locked \ {o}
  /\ UNCHANGED <<agreed, final, consent, disputed, verdict, paid, closed>>

Finalize(o) ==
  /\ o \in locked \ closed
  /\ final' = final \cup {o}
  /\ UNCHANGED <<agreed, locked, consent, disputed, verdict, paid, closed>>

Settling(o) == o \in final \ closed

Consent(o, role, payout) ==
  /\ Settling(o)
  /\ consent[o][role] = NULL
  /\ consent' = [consent EXCEPT ![o][role] = payout]
  /\ UNCHANGED <<agreed, locked, final, disputed, verdict, paid, closed>>

Dispute(o) ==
  /\ Settling(o)
  /\ disputed' = disputed \cup {o}
  /\ UNCHANGED <<agreed, locked, final, consent, verdict, paid, closed>>

Decide(o, winner) ==
  /\ Settling(o)
  /\ o \in disputed
  /\ winner \in {MakerOf[o], TakerOf[o]}
  /\ disputed' = disputed \ {o}
  /\ verdict' = [verdict EXCEPT ![o] = winner]
  /\ UNCHANGED <<agreed, locked, final, consent, paid, closed>>

Pay(o, payout) ==
  /\ o \in final \cap locked
  /\ \A role \in Roles : consent[o][role] = payout
  /\ paid[o] = NULL
  /\ paid' = [paid EXCEPT ![o] = payout]
  /\ UNCHANGED <<agreed, locked, final, consent, disputed, verdict, closed>>

Close(o) ==
  /\ paid[o] # NULL
  /\ closed' = closed \cup {o}
  /\ UNCHANGED <<agreed, locked, final, consent, disputed, verdict, paid>>

Next ==
  \E o \in Offers :
    \/ \E role \in Roles : Agree(o, role)
    \/ Lock(o)
    \/ Drop(o)
    \/ Finalize(o)
    \/ \E role \in Roles, payout \in Payouts : Consent(o, role, payout)
    \/ Dispute(o)
    \/ \E winner \in Robots : Decide(o, winner)
    \/ \E payout \in Payouts : Pay(o, payout)
    \/ Close(o)

Spec == Init /\ [][Next]_vars
=============================================================================

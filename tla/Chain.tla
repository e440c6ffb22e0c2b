------------------------------- MODULE Chain -------------------------------
(***************************************************************************)
(* The Bitcoin node the coordinator talks to over RPC, as far as the       *)
(* settlement of a trade sees it: the depth of every escrow locking        *)
(* transaction, and the transaction that spent its output.  The node is    *)
(* not part of the repository; it is modelled from the calls the code      *)
(* makes: broadcast (wallet/escrow_psbt.rs, wallet/payout_tx.rs) and       *)
(* get_raw_transaction_info (tx_confirmation_monitoring.rs).               *)
(***************************************************************************)
EXTENDS TradeIds, Integers

CONSTANTS MaxReorg,   \* longest chain of blocks a reorganisation removes
          MaxDepth    \* bound: depths are counted up to here

ASSUME ChainAssumption ==
  /\ MaxReorg \in Nat
  /\ MaxDepth \in Nat
  /\ MaxDepth > MaxReorg

VARIABLES
  depth,     \* per escrow transaction: Unknown, 0 in the mempool, else blocks
  spent_by   \* NULL or the payout transaction that spent the escrow output

chainVars == <<depth, spent_by>>

Unknown == -1

ChainTypeOK ==
  /\ depth \in [Offers -> Unknown..MaxDepth]
  /\ spent_by \in [Offers -> Payouts \cup {NULL}]

ChainInit ==
  /\ depth = [o \in Offers |-> Unknown]
  /\ spent_by = [o \in Offers |-> NULL]

Saturated(d) == IF d > MaxDepth THEN MaxDepth ELSE d

(* One more block.  It holds any of the transactions in the mempool. *)
Mine ==
  /\ \E mined \in SUBSET {o \in Offers : depth[o] = 0} :
       depth' = [o \in Offers |->
                   IF depth[o] > 0 \/ o \in mined
                   THEN Saturated(depth[o] + 1)
                   ELSE depth[o]]
  /\ UNCHANGED spent_by

(* A branch that is longer by one replaces the last k blocks.  A transaction
   buried deeper than k gains a block.  One in the removed blocks, or in the
   mempool, is anywhere in the new branch or in the mempool. *)
DepthsAfterReorg(o, k) ==
  IF depth[o] > k THEN {Saturated(depth[o] + 1)}
  ELSE IF depth[o] >= 0 THEN 0..k + 1
  ELSE {Unknown}

Reorg(k) ==
  /\ depth' \in [Offers -> Unknown..MaxDepth]
  /\ \A o \in Offers : depth'[o] \in DepthsAfterReorg(o, k)
  /\ UNCHANGED spent_by

(* A transaction leaves the mempool: one of its inputs was spent elsewhere, or
   the node dropped it. *)
Evict(o) ==
  /\ depth[o] = 0
  /\ depth' = [depth EXCEPT ![o] = Unknown]
  /\ UNCHANGED spent_by

ChainNext ==
  \/ Mine
  \/ \E k \in 1..MaxReorg : Reorg(k)
  \/ \E o \in Offers : Evict(o)

-----------------------------------------------------------------------------
(* What the coordinator's RPC calls do and return *)

BroadcastEscrowTx(o) ==
  /\ depth' = [depth EXCEPT ![o] = IF @ = Unknown THEN 0 ELSE @]
  /\ UNCHANGED spent_by

(* The output exists, and nothing has spent it (list_unspent, and the check
   the node makes on a transaction it is given). *)
EscrowUnspent(o) == depth[o] >= 0 /\ spent_by[o] = NULL

(* The node takes a transaction it already holds a second time. *)
AcceptsPayout(o, psbt) == EscrowUnspent(o) \/ spent_by[o] = psbt

BroadcastPayoutTx(o, psbt) ==
  /\ spent_by' = [spent_by EXCEPT ![o] = psbt]
  /\ UNCHANGED depth
=============================================================================

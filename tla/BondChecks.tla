----------------------------- MODULE BondChecks -----------------------------
(***************************************************************************)
(* The amounts of a bond transaction and what validate_bonds asks of them. *)
(* Its inputs exist, its signatures verify and an output pays the address  *)
(* of the coordinator: without these the bond is refused before.  Whether  *)
(* its coins are still unspent is the subject of BondWatch.                *)
(*                                                                         *)
(* Amounts are u64, and a difference below zero wraps around; U64Size is   *)
(* 2^64 in the code, and any value above all sums of an instance shows the *)
(* same.  (A build with overflow checks panics at the same places.)        *)
(***************************************************************************)
EXTENDS Integers

CONSTANTS BondInputs,  \* sums of the inputs of a bond
          BondFees,    \* what a bond leaves for the miner
          VSize,       \* virtual size of a bond, in bytes
          U64Size

ASSUME BondChecksAssumption ==
  /\ U64Size \in Nat
  /\ BondInputs \subseteq 1..(U64Size - 1)
  /\ BondFees \subseteq Nat
  /\ VSize \in Nat \ {0}

BondTx == [inputs : BondInputs, locked : Nat, change : Nat]

Difference(a, b) == (a - b) % U64Size

(* What somebody may submit when asked to lock an amount: a satoshi less than
   that, a fee too low, and more than its inputs hold. *)
BondTxs(amount) ==
  {tx \in
     {[inputs |-> inputs, locked |-> locked, change |-> inputs - locked - fee] :
        inputs \in BondInputs, locked \in {amount - 1, amount}, fee \in BondFees}
     \cup {[inputs |-> inputs, locked |-> amount, change |-> inputs] :
             inputs \in BondInputs} :
   tx.locked >= 0 /\ tx.change >= 0}

AllOutputs(tx) == tx.locked + tx.change

FeeRate(tx) == Difference(tx.inputs, AllOutputs(tx)) \div VSize

(* Mutant: validate_bonds does without testmempoolaccept *)
TakesAnyAmounts(tx) == TRUE

(* testmempoolaccept: the outputs are no more than the inputs *)
TakesAmounts(tx) == AllOutputs(tx) <= tx.inputs

(* validate_bonds, against the requirements of the bond *)
MeetsRequirements(tx, locking_amount, min_input_sum) ==
  /\ tx.inputs >= min_input_sum
  /\ tx.locked >= locking_amount
  /\ FeeRate(tx) >= 200
  /\ TakesAmounts(tx)
=============================================================================

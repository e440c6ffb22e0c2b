----------------------------- MODULE Settlement -----------------------------
(***************************************************************************)
(* The settlement of taken offers by the coordinator: from the taker's     *)
(* bond to the payout transaction, or to the decision of a dispute.        *)
(*                                                                         *)
(* The request handlers of coordinator/src/coordinator/mod.rs run          *)
(* concurrently with each other and with three background tasks.  A step   *)
(* of a handler ends at an await that reads or writes shared state, so     *)
(* every database statement and every call to the node is a step.  Reads   *)
(* of columns that never change while the row exists (the robohashes, the  *)
(* payout data), and reads of escrow_psbt_is_confirmed, which never goes   *)
(* back, are joined with the read that follows them: the row existing at   *)
(* the later read implies what the earlier one saw.                        *)
(*                                                                         *)
(* A trader is one run of the trader program: it makes one blocking call   *)
(* at a time, and it ends with the first call that fails.  So there is one *)
(* handler at most for each offer and robot.  When the trader goes away    *)
(* the server drops the handler at its await: Leave.                       *)
(***************************************************************************)
EXTENDS TakenOffers, Chain

CONSTANTS MinConf,    \* the code's 3 in "confirmations > 3"
          MaxFaults   \* bound: restarts and failures of the background tasks

ASSUME SettlementAssumption ==
  /\ MinConf \in Nat
  /\ MaxReorg <= MinConf
  /\ MaxDepth > MinConf
  /\ MaxFaults \in Nat
  /\ {"lost", "closed"} \cap (Payouts \cup {NULL}) = {}

VARIABLES
  pc,        \* per offer and robot: what the running handler does next
  held,      \* the payout the handler carries in a local variable
  answer,    \* what ended the robot's polling for the payout, NULL before
  to_query,  \* confirmation monitor: txids it has yet to ask the node about
  deep,      \* confirmation monitor: txids it found deep enough
  cases,     \* escrow command line: cases fetched and not yet decided
  faults

handlerVars == <<pc, held, answer>>
taskVars == <<to_query, deep, cases, faults>>
vars == <<tableVars, chainVars, handlerVars, taskVars>>

Steps ==
  {"idle",
   "store_escrow_psbt", "fetch_both_psbts", "broadcast_escrow",
   "set_happy", "set_unhappy", "set_ongoing",
   "fetch_payout", "toggle", "assemble", "insert_payout", "release",
   "fetch_winner",
   "store_sig", "aggregate", "broadcast_payout", "delete"}

Answers == Payouts \cup {NULL, "lost", "closed"}

HandlerTypeOK ==
  /\ pc \in [Offers -> [Robots -> Steps]]
  /\ held \in [Offers -> [Robots -> Payouts \cup {NULL}]]
  /\ answer \in [Offers -> [Robots -> Answers]]

TaskTypeOK ==
  /\ to_query \subseteq Offers
  /\ deep \subseteq Offers
  /\ cases \subseteq Offers
  /\ faults \in 0..MaxFaults

TypeOK == TableTypeOK /\ ChainTypeOK /\ HandlerTypeOK /\ TaskTypeOK

Init ==
  /\ TableInit
  /\ ChainInit
  /\ pc = [o \in Offers |-> [r \in Robots |-> "idle"]]
  /\ held = [o \in Offers |-> [r \in Robots |-> NULL]]
  /\ answer = [o \in Offers |-> [r \in Robots |-> NULL]]
  /\ to_query = {}
  /\ deep = {}
  /\ cases = {}
  /\ faults = 0

-----------------------------------------------------------------------------
(* How a handler goes on *)

Becomes(o, r, step, psbt) ==
  /\ pc' = [pc EXCEPT ![o][r] = step]
  /\ held' = [held EXCEPT ![o][r] = psbt]

Continue(o, r, step) == Becomes(o, r, step, NULL) /\ UNCHANGED answer

Carry(o, r, step, psbt) == Becomes(o, r, step, psbt) /\ UNCHANGED answer

(* The response leaves the trader where it was: it goes on or polls again. *)
Return(o, r) == Continue(o, r, "idle")

(* The response ends the trader's polling. *)
Reply(o, r, value) ==
  /\ Becomes(o, r, "idle", NULL)
  /\ answer' = [answer EXCEPT ![o][r] = value]

(* An error response: the trader program exits. *)
Fail(o, r) == Reply(o, r, "closed")

At(o, r, step) == pc[o][r] = step

CanCall(o, r) == At(o, r, "idle") /\ answer[o][r] # "closed"

OnlyHandlers == UNCHANGED <<tableVars, chainVars, taskVars>>
OnlyTable == UNCHANGED <<chainVars, taskVars>>
OnlyChain == UNCHANGED <<tableVars, taskVars>>

(* The trader disconnects, or its call is refused at once.  A handler that
   runs is dropped where it awaits. *)
Leave(o, r) ==
  /\ answer[o][r] # "closed"
  /\ Fail(o, r)
  /\ OnlyHandlers

-----------------------------------------------------------------------------
(* handle_signed_escrow_psbt *)

MaySubmitEscrowPsbt(o, r) ==
  IsParty(o, r) /\ ~signed_escrow_psbt[o][RoleOf(o, r)]

SubmitEscrowPsbt(o, r) ==
  /\ CanCall(o, r)
  /\ MaySubmitEscrowPsbt(o, r)
  /\ Continue(o, r, "store_escrow_psbt")
  /\ OnlyHandlers

StoreEscrowPsbt(o, r) ==
  /\ At(o, r, "store_escrow_psbt")
  /\ InsertSignedEscrowPsbt(o, RoleOf(o, r))
  /\ Continue(o, r, "fetch_both_psbts")
  /\ OnlyTable

(* Mutant: one signed psbt is enough *)
LocksWithOne(o) == \E role \in Roles : signed_escrow_psbt[o][role]
ReadyToLock(o) == BothEscrowPsbtsSigned(o)

(* Mutant: only the taker, who is expected to sign last, goes on *)
FetchBothAsTaker(o, r) ==
  /\ At(o, r, "fetch_both_psbts")
  /\ IF o \notin taken THEN Fail(o, r)
     ELSE IF ReadyToLock(o) /\ r = TakerOf[o]
          THEN Continue(o, r, "broadcast_escrow")
     ELSE Return(o, r)
  /\ OnlyHandlers

FetchBothEscrowPsbts(o, r) ==
  /\ At(o, r, "fetch_both_psbts")
  /\ IF o \notin taken THEN Fail(o, r)
     ELSE IF ReadyToLock(o) THEN Continue(o, r, "broadcast_escrow")
     ELSE Return(o, r)
  /\ OnlyHandlers

(* The psbts are not validated before they are stored, so combining and
   finalizing them may fail, as the call to the node may. *)
BroadcastEscrow(o, r) ==
  /\ At(o, r, "broadcast_escrow")
  /\ \/ BroadcastEscrowTx(o) /\ Return(o, r)
     \/ UNCHANGED chainVars /\ Fail(o, r)
  /\ OnlyChain

-----------------------------------------------------------------------------
(* handle_obligation_confirmation and initiate_escrow *)

ConfirmObligation(o, r) ==
  /\ CanCall(o, r)
  /\ MayProceed(o, r)
  /\ Continue(o, r, "set_happy")
  /\ OnlyHandlers

SetHappy(o, r) ==
  /\ At(o, r, "set_happy")
  /\ SetTraderHappyField(o, RoleOf(o, r), TRUE)
  /\ Return(o, r)
  /\ OnlyTable

RequestEscrow(o, r) ==
  /\ CanCall(o, r)
  /\ MayProceed(o, r)
  /\ Continue(o, r, "set_unhappy")
  /\ OnlyHandlers

SetUnhappy(o, r) ==
  /\ At(o, r, "set_unhappy")
  /\ SetTraderHappyField(o, RoleOf(o, r), FALSE)
  /\ Continue(o, r, "set_ongoing")
  /\ OnlyTable

SetOngoing(o, r) ==
  /\ At(o, r, "set_ongoing")
  /\ SetEscrowOngoing(o)
  /\ Return(o, r)
  /\ OnlyTable

-----------------------------------------------------------------------------
(* handle_final_payout: any robot may poll, the handler does not check that
   it is a party of the trade *)

(* Someone has not answered yet and no dispute is open. *)
AwaitingTraders(o) == ~BothHappy(o) /\ escrow_ongoing[o] = 0

PollFinalPayout(o, r) ==
  /\ At(o, r, "idle")
  /\ answer[o][r] = NULL
  /\ o \in taken
  /\ IF BothHappy(o) THEN Continue(o, r, "fetch_payout")
     ELSE IF AwaitingTraders(o) THEN Return(o, r)
     ELSE Continue(o, r, "fetch_winner")
  /\ OnlyHandlers

(* Mutant: the stored payout is not looked for *)
FetchNoPayout(o, r) ==
  /\ At(o, r, "fetch_payout")
  /\ IF o \notin taken THEN Fail(o, r) ELSE Continue(o, r, "toggle")
  /\ OnlyHandlers

FetchPayout(o, r) ==
  /\ At(o, r, "fetch_payout")
  /\ IF o \notin taken THEN Fail(o, r)
     ELSE IF payout_psbt[o] # NULL THEN Reply(o, r, payout_psbt[o])
     ELSE Continue(o, r, "toggle")
  /\ OnlyHandlers

(* Mutant: a lock that is only ever taken by the one who finds it free *)
LockBeforeAssembly(o, r) ==
  /\ At(o, r, "toggle")
  /\ IF o \notin taken
     THEN UNCHANGED tableVars /\ Fail(o, r)
     ELSE IF processing[o] = 0
     THEN ToggleProcessing(o) /\ Continue(o, r, "assemble")
     ELSE UNCHANGED tableVars /\ Return(o, r)
  /\ OnlyTable

(* toggle_processing returns the flag after the toggle.  The handler goes on
   if it reads 1, and answers NotReady if it reads 0. *)
ToggleBeforeAssembly(o, r) ==
  /\ At(o, r, "toggle")
  /\ ToggleProcessing(o)
  /\ IF o \notin taken THEN Fail(o, r)
     ELSE IF processing'[o] = 1 THEN Continue(o, r, "assemble")
     ELSE Return(o, r)
  /\ OnlyTable

(* The wallet shuffles the outputs and asks for the current fee, so two
   assemblies may give different transactions.  On an error the handler
   returns without toggling the flag back. *)
AssemblePayout(o, r) ==
  /\ At(o, r, "assemble")
  /\ \/ /\ EscrowUnspent(o)
        /\ \E psbt \in Payouts : Carry(o, r, "insert_payout", psbt)
     \/ Fail(o, r)
  /\ OnlyHandlers

InsertPayout(o, r) ==
  /\ At(o, r, "insert_payout")
  /\ InsertPayoutPsbt(o, held[o][r])
  /\ Carry(o, r, "release", held[o][r])
  /\ OnlyTable

ToggleAfterAssembly(o, r) ==
  /\ At(o, r, "release")
  /\ ToggleProcessing(o)
  /\ IF o \in taken THEN Reply(o, r, held[o][r]) ELSE Fail(o, r)
  /\ OnlyTable

(* The winner's poll panics: the script payout is not implemented. *)
FetchWinner(o, r) ==
  /\ At(o, r, "fetch_winner")
  /\ IF o \notin taken \/ escrow_winner[o] = r THEN Fail(o, r)
     ELSE IF escrow_winner[o] = NULL THEN Return(o, r)
     ELSE Reply(o, r, "lost")
  /\ OnlyHandlers

-----------------------------------------------------------------------------
(* handle_payout_signature *)

MaySubmitSignature(o, r) ==
  MayProceed(o, r) /\ partial_sig[o][RoleOf(o, r)] = NULL

(* A trader signs the transaction it was given. *)
SubmitPayoutSignature(o, r) ==
  /\ At(o, r, "idle")
  /\ answer[o][r] \in Payouts
  /\ MaySubmitSignature(o, r)
  /\ Carry(o, r, "store_sig", answer[o][r])
  /\ OnlyHandlers

StorePartialSig(o, r) ==
  /\ At(o, r, "store_sig")
  /\ InsertPartialSig(o, RoleOf(o, r), held[o][r])
  /\ Continue(o, r, "aggregate")
  /\ OnlyTable

(* Mutant: one of the signatures is checked *)
ValidForOne(o) ==
  /\ payout_psbt[o] # NULL
  /\ \E role \in Roles : partial_sig[o][role] = payout_psbt[o]

(* The aggregation verifies the result: it fails unless both partial
   signatures sign the transaction that is stored. *)
ValidAggregate(o) ==
  /\ payout_psbt[o] # NULL
  /\ \A role \in Roles : partial_sig[o][role] = payout_psbt[o]

(* Mutant: only the maker's handler aggregates *)
AggregateAsMaker(o, r) ==
  /\ At(o, r, "aggregate")
  /\ IF o \notin taken THEN Fail(o, r)
     ELSE IF ~BothPartialSigs(o) \/ r # MakerOf[o] THEN Return(o, r)
     ELSE IF ValidAggregate(o)
          THEN Carry(o, r, "broadcast_payout", payout_psbt[o])
     ELSE Fail(o, r)
  /\ OnlyHandlers

AggregateSigs(o, r) ==
  /\ At(o, r, "aggregate")
  /\ IF o \notin taken THEN Fail(o, r)
     ELSE IF ~BothPartialSigs(o) THEN Return(o, r)
     ELSE IF ValidAggregate(o)
          THEN Carry(o, r, "broadcast_payout", payout_psbt[o])
     ELSE Fail(o, r)
  /\ OnlyHandlers

(* Mutant: the result of the broadcast is ignored *)
BroadcastPayoutUnchecked(o, r) ==
  /\ At(o, r, "broadcast_payout")
  /\ \/ /\ AcceptsPayout(o, held[o][r])
        /\ BroadcastPayoutTx(o, held[o][r])
     \/ UNCHANGED chainVars
  /\ Continue(o, r, "delete")
  /\ OnlyChain

BroadcastPayout(o, r) ==
  /\ At(o, r, "broadcast_payout")
  /\ \/ /\ AcceptsPayout(o, held[o][r])
        /\ BroadcastPayoutTx(o, held[o][r])
        /\ Continue(o, r, "delete")
     \/ UNCHANGED chainVars /\ Fail(o, r)
  /\ OnlyChain

DeleteOffer(o, r) ==
  /\ At(o, r, "delete")
  /\ DeleteCompleteOffer(o)
  /\ Return(o, r)
  /\ OnlyTable

-----------------------------------------------------------------------------
(* update_transaction_confirmations: every 30 seconds one round over the
   unconfirmed escrow transactions.  It sleeps when both sets are empty. *)

Fault == faults < MaxFaults /\ faults' = faults + 1

MonitorFetch ==
  /\ to_query = {} /\ deep = {}
  /\ to_query' = UnconfirmedEscrowTxids
  /\ UNCHANGED <<tableVars, chainVars, handlerVars, deep, cases, faults>>

(* Mutants: the threshold itself, and only the first block past it *)
DeepAtThreshold(o) == depth[o] >= MinConf
DeepOnce(o) == depth[o] = MinConf + 1

DeepEnough(o) == depth[o] > MinConf

MonitorQuery(o) ==
  /\ o \in to_query
  /\ to_query' = to_query \ {o}
  /\ deep' = IF DeepEnough(o) THEN deep \cup {o} ELSE deep
  /\ UNCHANGED <<tableVars, chainVars, handlerVars, cases, faults>>

(* Any error but "not found" drops the whole round. *)
MonitorQueryFails ==
  /\ to_query # {}
  /\ Fault
  /\ to_query' = {} /\ deep' = {}
  /\ UNCHANGED <<tableVars, chainVars, handlerVars, cases>>

MonitorConfirm(o) ==
  /\ to_query = {}
  /\ o \in deep
  /\ SetConfirmed(o)
  /\ deep' = deep \ {o}
  /\ UNCHANGED <<chainVars, handlerVars, to_query, cases, faults>>

-----------------------------------------------------------------------------
(* escrow_cli_loop: fetches the open cases, then asks for a decision on one
   after the other *)

CliFetch ==
  /\ cases = {}
  /\ cases' = OpenEscrows
  /\ UNCHANGED <<tableVars, chainVars, handlerVars, to_query, deep, faults>>

CliDecide(o) ==
  /\ o \in cases
  /\ \E winner \in {MakerOf[o], TakerOf[o]} : ResolveEscrow(o, winner)
  /\ cases' = cases \ {o}
  /\ UNCHANGED <<chainVars, handlerVars, to_query, deep, faults>>

(* Reading the input failed: the case is left for a later round. *)
CliInputFails(o) ==
  /\ o \in cases
  /\ Fault
  /\ cases' = cases \ {o}
  /\ UNCHANGED <<tableVars, chainVars, handlerVars, to_query, deep>>

-----------------------------------------------------------------------------
(* The coordinator process ends and starts again: the database file and the
   chain survive, handlers and tasks do not.  Traders whose call was being
   handled see it fail; the others notice nothing. *)
Restart ==
  /\ Fault
  /\ pc' = [o \in Offers |-> [r \in Robots |-> "idle"]]
  /\ held' = [o \in Offers |-> [r \in Robots |-> NULL]]
  /\ answer' = [o \in Offers |-> [r \in Robots |->
                  IF At(o, r, "idle") THEN answer[o][r] ELSE "closed"]]
  /\ to_query' = {} /\ deep' = {} /\ cases' = {}
  /\ UNCHANGED <<tableVars, chainVars>>

-----------------------------------------------------------------------------
HandlerStep(o, r) ==
  \/ StoreEscrowPsbt(o, r)
  \/ FetchBothEscrowPsbts(o, r)
  \/ BroadcastEscrow(o, r)
  \/ SetHappy(o, r)
  \/ SetUnhappy(o, r)
  \/ SetOngoing(o, r)
  \/ FetchPayout(o, r)
  \/ ToggleBeforeAssembly(o, r)
  \/ AssemblePayout(o, r)
  \/ InsertPayout(o, r)
  \/ ToggleAfterAssembly(o, r)
  \/ FetchWinner(o, r)
  \/ StorePartialSig(o, r)
  \/ AggregateSigs(o, r)
  \/ BroadcastPayout(o, r)
  \/ DeleteOffer(o, r)

Call(o, r) ==
  \/ SubmitEscrowPsbt(o, r)
  \/ ConfirmObligation(o, r)
  \/ RequestEscrow(o, r)
  \/ PollFinalPayout(o, r)
  \/ SubmitPayoutSignature(o, r)

Monitor ==
  \/ MonitorFetch
  \/ \E o \in Offers : MonitorQuery(o) \/ MonitorConfirm(o)

Cli ==
  \/ CliFetch
  \/ \E o \in Offers : CliDecide(o)

Environment == ChainNext /\ UNCHANGED <<tableVars, handlerVars, taskVars>>

Next ==
  \/ \E o \in Offers, r \in Robots :
       Call(o, r) \/ HandlerStep(o, r) \/ Leave(o, r)
  \/ Monitor
  \/ MonitorQueryFails
  \/ Cli
  \/ \E o \in Offers : CliInputFails(o)
  \/ Restart
  \/ Environment

Spec == Init /\ [][Next]_vars

-----------------------------------------------------------------------------
(* Safety *)

(* The escrow locking transaction reaches the node only after both traders'
   signed psbts were stored: handle_signed_escrow_psbt, where the two handlers
   store and read in any order. *)
EscrowLockedByBoth ==
  \A o \in Offers : depth[o] # Unknown => BothEscrowPsbtsSigned(o)

(* A trader told that the escrow is confirmed can start the exchange: the
   flag, once set by the monitor from what the node said some time before, is
   never contradicted by a later reorganisation. *)
ConfirmedIsFinal ==
  \A o \in Offers : escrow_psbt_is_confirmed[o] = 1 => depth[o] > MaxReorg

(* No part of the settlement begins before the escrow is confirmed: no
   satisfaction, dispute, decision, payout or signature is on record, and no
   trader holds a payout to sign (check_offer_and_confirmation is made by
   three handlers; the polling handler relies on what they stored). *)
SettlementBegun(o) ==
  \/ \E role \in Roles : happy[o][role] = 1 \/ partial_sig[o][role] # NULL
  \/ escrow_ongoing[o] = 1
  \/ escrow_winner[o] # NULL
  \/ payout_psbt[o] # NULL
  \/ \E r \in Robots : answer[o][r] \in Payouts \cup {"lost"}

SettlementNeedsConfirmation ==
  \A o \in Offers : SettlementBegun(o) => escrow_psbt_is_confirmed[o] = 1

(* The escrow is spent only by a transaction that the maker and the taker both
   signed, whatever was assembled, stored and overwritten meanwhile. *)
PayoutAuthorised ==
  \A o \in Offers :
    spent_by[o] # NULL => \A role \in Roles : partial_sig[o][role] = spent_by[o]

(* The row, the only record of the escrow and its signatures, is deleted only
   after the payout was broadcast. *)
RowKeptUntilPaid ==
  \A o \in Offers : o \notin taken => spent_by[o] # NULL

(* The program of a trader of the offer ended, by itself or with a failed call. *)
Gone(o) == \E r \in {MakerOf[o], TakerOf[o]} : answer[o][r] = "closed"

(* Two signed psbts do not lie in the table with nobody to combine them, though
   each handler stores one and then looks for both, in any order: when the node
   does not have the escrow transaction, a handler is on its way to broadcast
   it, or a trader saw its call fail; or the node had it and dropped it. *)
Locking(o) ==
  \E r \in Robots : pc[o][r] \in {"fetch_both_psbts", "broadcast_escrow"}
Abandoned(o) ==
  /\ BothEscrowPsbtsSigned(o)
  /\ depth[o] = Unknown
  /\ ~Locking(o) /\ ~Gone(o)
LockNotAbandoned ==
  [][\A o \in Offers : Abandoned(o)' => Abandoned(o) \/ depth[o] # Unknown]_vars

(* The same for the two partial signatures, of which the table has no other
   reader: they were used for the payout, or a handler is about to use them, or
   a trader saw its call fail. *)
Paying(o) ==
  \E r \in Robots : pc[o][r] \in {"aggregate", "broadcast_payout"}
SignaturesAreUsed ==
  \A o \in Offers :
    BothPartialSigs(o) => spent_by[o] # NULL \/ Paying(o) \/ Gone(o)

(* The processing flag fails as a lock only while assemblies overlap: once a
   payout is on record and no handler is assembling one, the record stays, and
   whoever polls is given that payout. *)
AssemblySteps == {"toggle", "assemble", "insert_payout", "release"}
Settled(o) ==
  payout_psbt[o] # NULL /\ \A r \in Robots : pc[o][r] \notin AssemblySteps
PayoutSettled ==
  [][\A o \in Offers :
       Settled(o) =>
         /\ Settled(o)'
         /\ payout_psbt'[o] = payout_psbt[o]
         /\ \A r \in Robots :
              answer'[o][r] \in {answer[o][r], payout_psbt[o], "lost", "closed"}]_vars

(* The operator's decision is recorded only for a dispute that is open, though
   the command line works through cases it fetched earlier. *)
DecidedWhileOpen ==
  [][\A o \in Offers :
       escrow_winner'[o] # escrow_winner[o] => escrow_ongoing[o] = 1]_vars

-----------------------------------------------------------------------------
(* The inductive invariant: what the handlers and the tasks know while they
   are between two steps. *)

(* Handlers that run only for a confirmed escrow *)
LateSteps ==
  Steps \ {"idle", "store_escrow_psbt", "fetch_both_psbts", "broadcast_escrow"}

MonitorSound ==
  /\ \A o \in deep : depth[o] > MinConf
  /\ \A o \in Offers : escrow_psbt_is_confirmed[o] = 1 => depth[o] > MinConf

LockerSound ==
  \A o \in Offers, r \in Robots :
    At(o, r, "broadcast_escrow") => BothEscrowPsbtsSigned(o)

LateHandlersSound ==
  \A o \in Offers, r \in Robots :
    pc[o][r] \in LateSteps => escrow_psbt_is_confirmed[o] = 1

CasesSound ==
  \A o \in cases :
    /\ escrow_psbt_is_confirmed[o] = 1
    /\ o \in taken => escrow_ongoing[o] = 1

(* The signature a handler is about to store is not there yet, and no other
   robot stores one for the same role. *)
SignerSound(o, r) ==
  At(o, r, "store_sig") =>
    /\ r \in {MakerOf[o], TakerOf[o]}
    /\ held[o][r] \in Payouts
    /\ partial_sig[o][RoleOf(o, r)] = NULL

PayerSound(o, r) ==
  /\ At(o, r, "broadcast_payout") =>
       /\ held[o][r] \in Payouts
       /\ \A role \in Roles : partial_sig[o][role] = held[o][r]
  /\ At(o, r, "delete") => spent_by[o] # NULL

SignaturesSound ==
  \A o \in Offers, r \in Robots : SignerSound(o, r) /\ PayerSound(o, r)

(* Handlers that only the two traders have: their calls check the robohash. *)
TraderSteps ==
  {"store_escrow_psbt", "fetch_both_psbts", "broadcast_escrow", "store_sig",
   "aggregate", "broadcast_payout"}

TradersSound ==
  \A o \in Offers, r \in Robots :
    /\ pc[o][r] \in TraderSteps => r \in {MakerOf[o], TakerOf[o]}
    /\ answer[o][r] = "closed" => At(o, r, "idle")

IInv ==
  /\ TypeOK
  /\ MonitorSound
  /\ LockerSound /\ EscrowLockedByBoth
  /\ LateHandlersSound /\ CasesSound /\ SettlementNeedsConfirmation
  /\ SignaturesSound /\ PayoutAuthorised /\ RowKeptUntilPaid
  /\ TradersSound /\ SignaturesAreUsed
=============================================================================

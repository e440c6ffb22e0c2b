---------------------------- MODULE TradeProtocol ----------------------------
(***************************************************************************)
(* The settlement with the trader programs that call it                    *)
(* (trader/src/trading/mod.rs).  Settlement lets a robot make any call at  *)
(* any time; here a trader makes them in the order run_maker and run_taker *)
(* do: submit the signed escrow psbt, wait for the confirmation, then      *)
(* either confirm the exchange, poll for the payout and sign it, or, for   *)
(* the maker, request escrow and poll.  The taker program panics where the *)
(* maker requests escrow: that is a trader that leaves.                    *)
(***************************************************************************)
EXTENDS Settlement

VARIABLE stage   \* per offer and robot: how far the trader program is

protocolVars == <<vars, stage>>

Stages ==
  {"locking", "waiting", "exchanging", "satisfied", "disputing", "signed"}

ProtocolTypeOK == TypeOK /\ stage \in [Offers -> [Robots -> Stages]]

ProtocolInit ==
  /\ Init
  /\ stage = [o \in Offers |-> [r \in Robots |-> "locking"]]

Proceed(o, r, from, to) ==
  /\ stage[o][r] = from
  /\ stage' = [stage EXCEPT ![o][r] = to]

Locks(o, r) == SubmitEscrowPsbt(o, r) /\ Proceed(o, r, "locking", "waiting")

(* poll and fetch_escrow_confirmation_status: every two seconds, until the
   flag of the trader's escrow is set; then the exchange can begin. *)
SeesConfirmation(o, r) ==
  /\ CanCall(o, r)
  /\ MayProceed(o, r)
  /\ Proceed(o, r, "waiting", "exchanging")
  /\ UNCHANGED vars

Confirms(o, r) ==
  ConfirmObligation(o, r) /\ Proceed(o, r, "exchanging", "satisfied")

Disputes(o, r) ==
  /\ r = MakerOf[o]
  /\ RequestEscrow(o, r)
  /\ Proceed(o, r, "exchanging", "disputing")

(* poll_payout: every two seconds until the coordinator answers something
   other than NotReady and DecidingEscrow *)
Polls(o, r) ==
  /\ stage[o][r] \in {"satisfied", "disputing"}
  /\ PollFinalPayout(o, r)
  /\ UNCHANGED stage

(* The nonce is used up by the first signature, and the program ends after
   it was sent. *)
Signs(o, r) ==
  SubmitPayoutSignature(o, r) /\ Proceed(o, r, "satisfied", "signed")

Trader(o, r) ==
  \/ Locks(o, r)
  \/ SeesConfirmation(o, r)
  \/ Confirms(o, r)
  \/ Disputes(o, r)
  \/ Polls(o, r)
  \/ Signs(o, r)

Coordinator ==
  /\ \/ \E o \in Offers, r \in Robots : HandlerStep(o, r) \/ Leave(o, r)
     \/ Monitor
     \/ MonitorQueryFails
     \/ Cli
     \/ \E o \in Offers : CliInputFails(o)
     \/ Restart
     \/ Environment
  /\ UNCHANGED stage

ProtocolNext ==
  \/ \E o \in Offers, r \in Robots : Trader(o, r)
  \/ Coordinator

ProtocolSpec == ProtocolInit /\ [][ProtocolNext]_protocolVars

(* The executor runs every handler to its end, the tasks loop for ever with
   sleeps of seconds, the operator answers the prompt, a trader that waits
   for the confirmation or the payout polls every two seconds, and signs the
   payout it is given.
   Nothing makes a trader confirm or dispute, and nothing makes a block
   arrive. *)
ProtocolFairness ==
  /\ \A o \in Offers, r \in Robots :
       /\ WF_protocolVars(HandlerStep(o, r) /\ UNCHANGED stage)
       /\ WF_protocolVars(SeesConfirmation(o, r))
       /\ WF_protocolVars(Polls(o, r))
       /\ WF_protocolVars(Signs(o, r))
  /\ WF_protocolVars(Monitor /\ UNCHANGED stage)
  /\ WF_protocolVars(Cli /\ UNCHANGED stage)

FairSpec == ProtocolSpec /\ ProtocolFairness

-----------------------------------------------------------------------------
(* Safety *)

(* A trade that is in dispute is never paid out by the two traders' signatures
   as well: no payout is on record once a dispute was opened or decided.  It
   takes the handlers' reading of the two happy flags, and a trader program
   that either confirms or disputes. *)
DisputeExcludesPayout ==
  \A o \in Offers :
    escrow_ongoing[o] = 1 \/ escrow_winner[o] # NULL => payout_psbt[o] = NULL

(* The two traders are given the same payout transaction to sign; otherwise
   their partial signatures can never be aggregated.  The processing flag is
   there for this. *)
TradersGetSamePayout ==
  \A o \in Offers :
    answer[o][MakerOf[o]] \in Payouts /\ answer[o][TakerOf[o]] \in Payouts
      => answer[o][MakerOf[o]] = answer[o][TakerOf[o]]

-----------------------------------------------------------------------------
(* Liveness, under FairSpec *)

(* Two handlers store a signed psbt each and then look for both: at least one
   of them sees both and broadcasts, so the escrow transaction reaches the node
   unless a call fails.  (It may be dropped from the mempool later, and is not
   broadcast again.) *)
EscrowIsBroadcast ==
  \A o \in Offers :
    <>BothEscrowPsbtsSigned(o) => <>(depth[o] # Unknown \/ Gone(o))

(* The same for the partial signatures: once both are stored and fit the
   stored payout, the payout is broadcast unless a call fails. *)
PayoutIsBroadcast ==
  \A o \in Offers : ValidAggregate(o) ~> (spent_by[o] # NULL \/ Gone(o))

(* While both traders are satisfied and one of them polls, a payout gets
   stored: an assembly that failed and left the processing flag set does not
   lock the payout out for ever. *)
PayoutIsOffered ==
  \A o \in Offers, r \in Robots :
    (o \in taken /\ BothHappy(o) /\ answer[o][r] = NULL)
      ~> (payout_psbt[o] # NULL \/ ~BothHappy(o) \/ answer[o][r] # NULL)

(* A dispute that is open gets decided, unless the trade is paid first. *)
DisputeIsDecided ==
  \A o \in Offers :
    (escrow_ongoing[o] = 1) ~> (escrow_winner[o] # NULL \/ o \notin taken)

(* A trader that waits gets to exchange once its escrow is deep enough, though
   the monitor drops rounds and the coordinator may restart in between. *)
ExchangeBegins ==
  \A o \in Offers, r \in Robots :
    (depth[o] > MinConf /\ stage[o][r] = "waiting")
      ~> (stage[o][r] = "exchanging" \/ answer[o][r] = "closed")

(* The trader that lost the dispute and still polls is told so. *)
LoserIsTold ==
  \A o \in Offers : \A r \in {MakerOf[o], TakerOf[o]} :
    (escrow_winner[o] \notin {NULL, r} /\ answer[o][r] = NULL)
      ~> (answer[o][r] # NULL)
=============================================================================

----------------------------- MODULE MCContracts -----------------------------
(***************************************************************************)
(* The three contracts for TLC, one instance in each behaviour: the signed  *)
(* orders of VotingSystem, whose quotes and schedules are in MCVotingSystem, *)
(* its stakes, votes and tokens (one proposal, no orders), the rounds of     *)
(* Governance, and the escrows of OrderEscrow.  One clock unit of Governance *)
(* is one stage of a round, a 24-bit count is one of two bits, and a 128-bit *)
(* total one of eight.                                                       *)
(***************************************************************************)
EXTENDS MCVotingSystem

CONSTANTS Voters, NoOne, Merchants

VARIABLES
  play,
  time, params, roundCount, rounds, candidates, memberProposalCount, votes, coupons,
  subscriptionExpiresAt, balance, claims, granted, used, subscriptions,
  feeBps, escrows, memberPaidWei, ether, received

StakesOnly == INSTANCE VotingSystem WITH
  InitialTokens <- 11, SubscriptionTokenCost <- 6, VoteAmounts <- {2},
  TransferAmounts <- {4}, WithdrawAmounts <- {3}, Quotes <- {},
  Schedules <- OneSchedule, MaxOptions <- 2, MaxTime <- 4

Params(create, proposal, vote) ==
  [createFee |-> 5, proposalFee |-> 3, voteFee |-> 2, subscriptionFee |-> 7,
   proposalTime |-> 1, voteTime |-> 1, orderingTime |-> 1, subscriptionTime |-> 2,
   daily |-> [create |-> create, proposal |-> proposal, vote |-> vote]]
TwoParamSets == { Params(0, 1, 1), Params(1, 2, 0) }

\* Governance, OrderEscrow beside it (Gov!Escrows), and what is proved of the two.
Gov == INSTANCE GovernanceProofs WITH
  Members <- Voters, now <- time, ParamSets <- TwoParamSets, MaxRounds <- 1,
  DayKeys <- {2}, DayKeyRange <- 2, VoteRange <- 4, VoteCounts <- {1, 2},
  MaxClaims <- 1, MaxSubscriptions <- 1, MaxTime <- 3,
  Shops <- {"shop"}, Platform <- "platform", FeeRates <- {0, 300},
  Totals <- {1, 100, 257}, Payments <- {100}, AmountRange <- 256, MaxOrders <- 2, MaxPaid <- 200

ASSUME ContractsAssumption == Gov!ConstantsOK /\ Gov!Escrows!ConstantsOK

governanceVars ==
  <<time, params, roundCount, rounds, candidates, memberProposalCount, votes, coupons,
    subscriptionExpiresAt, balance, claims, granted, used, subscriptions>>
escrowVars == <<feeBps, escrows, memberPaidWei, ether, received>>

\* The contract that is not played begins in one way only.
ContractsInit ==
  /\ play \in {"orders", "stakes", "rounds", "escrows"} /\ Gov!Init /\ Gov!Escrows!Init
  /\ IF play = "stakes" THEN StakesOnly!Init ELSE Init
  /\ play # "rounds" => params = Params(0, 1, 1)
  /\ play # "escrows" => feeBps = 0
  /\ play # "orders" => signer = CHOOSE s \in Signers : TRUE
\* Stakes are in the first proposal, no signer matters to them, and members are
\* interchangeable: m1 is the first to spend.
OneProposal ==
  /\ ~exists'[p2] /\ UNCHANGED signer
  /\ token[m1] = token[m2] /\ token[m1] = 11 => token'[m2] = 11
\* Subscriptions touch no round: that they come before it is a bound.
SubscribesFirst == roundCount = 0 \/ UNCHANGED subscriptionExpiresAt

ContractsNext ==
  /\ UNCHANGED play
  /\ \/ play = "orders" /\ Next /\ UNCHANGED <<governanceVars, escrowVars>>
     \/ /\ play = "stakes" /\ StakesOnly!Next /\ OneProposal
        /\ UNCHANGED <<governanceVars, escrowVars>>
     \/ play = "rounds" /\ Gov!Next /\ SubscribesFirst /\ UNCHANGED <<vars, escrowVars>>
     \/ play = "escrows" /\ Gov!Escrows!Next /\ UNCHANGED <<vars, governanceVars>>
ContractsSpec == ContractsInit /\ [][ContractsNext]_<<play, vars, governanceVars, escrowVars>>

\* Voters, and merchants, may be renamed.
Renamings(S) == {[s \in S |-> f[s]] : f \in Bijection(S, S)}
VoterSymmetry == Renamings(Voters) \cup Renamings(Merchants)

(* Counts are the sums of the packed vote records, every coupon was claimed, *)
(* ether and used coupons are worth what was recorded (Governance), and what  *)
(* was paid into an open escrow is there unless another was overdrawn         *)
(* (OrderEscrow).                                                            *)
RecordsAddUp == Gov!RecordsAddUp

(* A round is an election, whatever is cancelled when (Governance).         *)
RoundsAreElections == Gov!RoundsAreElections
=============================================================================

------------------------------ MODULE MCBackend ------------------------------
(***************************************************************************)
(* What must come about in the backend, for TLC: in each behaviour either   *)
(* the orders of a round are paid (OrderLifecycle) or a round settles       *)
(* (ProposalRound), with the fairness of the one that is played.            *)
(***************************************************************************)
EXTENDS MCOrderLifecycle

CONSTANTS m1, m2, RoundWorkers,
          CreateFee, ProposalFee, VoteFee,
          WinnerProposalRefundBps, LoserProposalRefundBps, VoteRefundBps,
          WinnerBonusBps, LoserBonusBps,
          WinnerProposalPoints, WinnerVotePointsPerVote

VARIABLES
  play,
  now, row, options, votes, nextOption, tickets, points, paid, credited, settlements,
  roundWork

RoundMembers  == {m1, m2}
RoundStages(p, v, o, first, last) ==
  [proposal |-> p, vote |-> v, order |-> o, dayStart |-> first, dayEnd |-> last]
RoundSchedules == { RoundStages(1, 2, 3, 0, 9), RoundStages(2, 3, 4, 1, 9) }

Round == INSTANCE ProposalRound WITH
  work <- roundWork, Members <- RoundMembers, Creator <- m1, Merchants <- {"shop"},
  Workers <- RoundWorkers, Kinds <- {"add", "vote", "delete"}, Schedules <- RoundSchedules,
  CouponChoices <- {FALSE}, TicketChoices <- {FALSE}, VoteCounts <- {2},
  AdminStages <- {"ordering"}, Tickets <- 0, MaxOptions <- 1, MaxTime <- 3

roundVars == <<now, row, options, votes, nextOption, tickets, points, paid, credited,
               settlements, roundWork>>

BackendInit == play \in {"orders", "round"} /\ Init /\ Round!Init
\* Only a new request looks at the stage, and none has to come: it is enough to
\* close the ordering when no handler runs.
AtRest == \A w \in Workers : work[w] = Idle
BackendNext ==
  \/ /\ play = "orders" /\ Next /\ (ordering' # ordering => AtRest)
     /\ UNCHANGED <<play, roundVars>>
  \/ play = "round" /\ Round!Next /\ UNCHANGED <<play, vars>>

\* Fairness of OrderLifecycle and of ProposalRound; what is not played is not
\* enabled.
OrdersFairness ==
  LET Played(A) == play = "orders" /\ A
  IN  /\ \A w \in Workers : WF_vars(Played(HandlerStep(w)))
      /\ \A q \in Processors : WF_vars(Played(PayoutStep(q) \/ TransferFails(q)))
      /\ \A o \in 1..MaxOrders :
           /\ SF_vars(Played(\E batch \in SUBSET OrderIds :
                                 o \in batch /\ LoadBatch(AutoPayout, batch)))
           /\ SF_vars(Played(/\ payout[AutoPayout].at = "transfer"
                              /\ o \in payout[AutoPayout].batch
                              /\ SendNativeTransfer(AutoPayout)))
RoundFairness ==
  LET Played(A) == play = "round" /\ A
  IN  /\ WF_roundVars(Played(Round!Tick))
      /\ \A w \in RoundWorkers : /\ WF_roundVars(Played(Round!Begin(w)))
                                  /\ WF_roundVars(Played(Round!Step(w)))

BackendSpec ==
  /\ BackendInit /\ [][BackendNext]_<<play, vars, roundVars>>
  /\ OrdersFairness /\ RoundFairness

(* A round of today or of tomorrow with a vote settles (ProposalRound).     *)
RoundSettles == Round!RoundSettles
=============================================================================

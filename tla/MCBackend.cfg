\* Liveness of the backend.  Orders: two handlers add one payment, retried, to an
\* order and move it on; the processor and an admin pay out at once; a crash; and
\* whether the order is paid in the end.  Round: rounds of today and of tomorrow,
\* read again and again, settle.  When everything is paid, or a round is deleted
\* and the clock at its end, the system stops: deadlock is not an error here.
SPECIFICATION BackendSpec
CONSTANTS
  alice = alice
  Members = {alice}
  Payments = {p1}
  PayerOf <- Payer
  Price <- Prices
  Workers = {w1, w2}
  Processors = {auto, admin}
  AutoPayout = auto
  MaxOrders = 1
  MaxConfirms = 1
  MaxCrashes = 1
  MaxLost = 1
  m1 = m1
  m2 = m2
  RoundWorkers = {w1, w2}
  CreateFee = 100
  ProposalFee = 50
  VoteFee = 30
  WinnerProposalRefundBps = 9000
  LoserProposalRefundBps = 8000
  VoteRefundBps = 5000
  WinnerBonusBps = 1000
  LoserBonusBps = 500
  WinnerProposalPoints = 3
  WinnerVotePointsPerVote = 1
INVARIANTS
  AmountsArePaidFor
  PayoutsConfirmed
PROPERTIES
  ReadyIsPaid
  RoundSettles
CHECK_DEADLOCK FALSE

\* Two reads at the vote deadline settle the same round twice.
SPECIFICATION Spec
CONSTANTS
  m1 = m1
  m2 = m2
  Members = {m1, m2}
  Creator = m1
  Merchants = {a}
  Workers = {w1, w2}
  Kinds = {"add", "vote"}
  Schedules <- WithinToday
  CouponChoices = {FALSE}
  TicketChoices = {FALSE}
  VoteCounts = {2}
  AdminStages = {}
  Tickets = 0
  CreateFee = 100
  ProposalFee = 50
  VoteFee = 30
  WinnerProposalRefundBps = 9000
  LoserProposalRefundBps = 8000
  VoteRefundBps = 5000
  WinnerBonusBps = 1000
  LoserBonusBps = 500
  WinnerProposalPoints = 3
  WinnerVotePointsPerVote = 1
  MaxOptions = 1
  MaxTime = 4
INVARIANTS
  RewardsAppliedOnce
CHECK_DEADLOCK FALSE

\* Votes and settlement: two workers, votes that come in around the deadlines,
\* an admin that ends a stage early; or options added and deleted (MCRounds).
\* The clock stops at MaxTime and requests then change nothing: deadlock is not
\* an error here.
SPECIFICATION RoundsSpec
CONSTANTS
  m1 = m1
  m2 = m2
  Members = {m1, m2}
  Creator = m1
  Merchants = {a, b}
  Workers = {w1, w2}
  Kinds = {"add", "vote"}
  Schedules <- WithinToday
  CouponChoices = {FALSE}
  TicketChoices = {FALSE}
  VoteCounts = {1, 2}
  AdminStages = {"voting", "ordering"}
  Tickets = 1
  CreateFee = 100
  ProposalFee = 50
  VoteFee = 30
  WinnerProposalRefundBps = 9000
  LoserProposalRefundBps = 8000
  VoteRefundBps = 5000
  WinnerBonusBps = 1000
  LoserBonusBps = 500
  WinnerProposalPoints = 3
  WinnerVotePointsPerVote = 1
  MaxOptions = 3
  MaxTime = 3
INVARIANTS
  RefundsCovered
  TallyMatchesVotes
  FeesAndTickets
  OvershootBounded
  WinnerIsBest
SYMMETRY RowSymmetry
CHECK_DEADLOCK FALSE

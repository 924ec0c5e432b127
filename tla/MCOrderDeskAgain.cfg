SPECIFICATION DeskSpec
CONSTANTS
  Orders = {1, 2, 3}
  Proposals = {1, 2}
  ProposalOf <- MCProposalOf
  DetailOf = 1
  Payers = {"payouts"}
  Jobs = {1, 2, 3}
  MaxPresses = 2
  MaxDeeds = 0
  MaxMoves = 3
PROPERTIES PaidNotPaidAgain
CHECK_DEADLOCK FALSE

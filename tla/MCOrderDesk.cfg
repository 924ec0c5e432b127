SPECIFICATION DeskSpec
CONSTANTS
  Orders = {1, 2, 3}
  Proposals = {1, 2}
  ProposalOf <- MCProposalOf
  DetailOf = 1
  Payers = {"payouts", "second"}
  Jobs = {1, 2, 3}
  MaxPresses = 2
  MaxDeeds = 2
  MaxMoves = 3
INVARIANTS DeskIsSound NoDoubleWithoutTrouble
PROPERTIES PressReachesAll
CHECK_DEADLOCK FALSE

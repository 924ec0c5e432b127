\* One proposal whose orders are cancelled and placed again.
SPECIFICATION Spec
CONSTANTS
  m1 = m1
  m2 = m2
  p1 = p1
  p2 = p2
  Members = {m1, m2}
  Contract = contract
  Treasurer = treasurer
  Signers = {s1, s2}
  PlatformWallets = {w1}
  Proposals = {p1}
  Quotes <- OneRoundQuotes
  Schedules <- TwoSchedules
  InitialTokens = 5
  OptionTokenCost = 5
  SubscriptionTokenCost = 9
  SubscriptionDuration = 2
  VoteAmounts = {1}
  TransferAmounts = {}
  WithdrawAmounts = {1}
  MaxOptions = 1
  MaxTime = 5
INVARIANTS
  ActiveOrderRefundable
CHECK_DEADLOCK FALSE

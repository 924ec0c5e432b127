\* Orders: two overlapping proposals with one option each, two members, four signed
\* orders, a signer that may change.  Stakes: two members, two options, votes,
\* transfers, subscriptions, rewards and withdrawals of one proposal.  Governance:
\* one round of two members with coupons that change, counts of two bits and members
\* who cancel.  Escrows: two, with totals below, at and above what is paid in.  The
\* clock stops at MaxTime, so the system may stop: deadlock is not an error here.
SPECIFICATION ContractsSpec
CONSTANTS
  m1 = m1
  m2 = m2
  p1 = p1
  p2 = p2
  Members = {m1, m2}
  Contract = contract
  Treasurer = treasurer
  Signers = {s1, s2}
  PlatformWallets = {w1}
  Proposals = {p1, p2}
  Quotes <- TwoRoundQuotes
  Schedules <- TwoSchedules
  InitialTokens = 5
  OptionTokenCost = 5
  SubscriptionTokenCost = 9
  SubscriptionDuration = 2
  VoteAmounts = {1}
  TransferAmounts = {}
  WithdrawAmounts = {1}
  MaxOptions = 1
  MaxTime = 5
  Voters = {v1, v2}
  NoOne = none
  Merchants = {a, b}
INVARIANTS
  NativeSolvency
  PoolAccounting
  TokenSolvency
  WinnerIsFirstBest
  RecordsAddUp
PROPERTIES
  SettledIsFinal
  RoundsAreElections
SYMMETRY VoterSymmetry
CHECK_DEADLOCK FALSE

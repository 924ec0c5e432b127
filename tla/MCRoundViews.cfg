SPECIFICATION ViewsSpec
CONSTANTS
  Viewers = {m1, m2}
  Me = m1
  Author = m1
  Hidden = m0
  OptionsLimit = 3
  Owned = {0, 1}
  Fetches = {1, 2}
  Handlers = {1, 2}
  MaxPresses = 2
  MaxEvents = 3
PROPERTIES PageFollowsRound VoteStaysShown RefusedOnlyBehind
CHECK_DEADLOCK FALSE

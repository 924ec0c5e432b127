\* The bounds on what people do end the behaviours: deadlock is not an error here.
SPECIFICATION MCSpec
CONSTANTS
  Shops = {"s1", "s2"}
  Winner = "s1"
  Minutes = {1, 90, 91}
  Moments = {0, 100}
  Limits = {1, 11}
  Dishes = {1, 2}
  Costs = {1, 2}
  MaxQuantity = 2
  MaxRounds = 1
  MaxOrdered = 6
  MaxDay = 1
  MaxDeeds = 5
  MaxMoves = 2
  Tabs = {"a", "b"}
  Members = {"m1"}
  MaxReviews = 8
  MaxDishes = 1
INVARIANTS MinutesAreShown EarnedIsKept
PROPERTIES PaidRoundIsMade OrderedIsPaid ChargedIsShown
CHECK_DEADLOCK FALSE

\* Two synchronisations at once, one of which may fail or be cut off, follow one
\* round to which a member may link a round of his own.  A vote carries less than a
\* whole token, two of them carry more.
SPECIFICATION Spec
CONSTANTS
  Rounds = {1}
  Merchants = {a}
  Nobody = nobody
  Members = {m1, m2}
  Baskets = {b1}
  Unit = 4
  Amounts = {3}
  Syncers = {w1, w2}
  BatchSize = 2
  MaxBlocks = 5
  MaxOptions = 1
  MaxFaults = 1
INVARIANTS
  CursorSafe
  MirrorAgrees
  RewardsOnce
  NothingRefused
PROPERTIES
  FollowsTheLog
SYMMETRY Sym

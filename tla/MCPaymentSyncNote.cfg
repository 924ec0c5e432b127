SPECIFICATION MCSpec
CONSTANTS
  Tabs = {t1}
  Members = {1}
  Txs = {1, 2}
  Jobs = {1, 2}
  Flows = {"Vote"}
  MaxApplied = 2
  MaxMoves = 1
  NoTx = 0
  Nobody = 0

PROPERTY NotedUntilRecorded
CHECK_DEADLOCK FALSE

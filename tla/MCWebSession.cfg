SPECIFICATION SessionSpec
CONSTANTS
  SessionTabs = {t1}
  Wallets = {w1}
  Entrances = {"member", "admin"}
  MaxMembers = 2
  MaxTokens = 3
  NoWallet = nowallet
  MaxEvents = 3
  MaxLogins = 2
INVARIANTS ShownIsOwner
PROPERTIES VisitsSettle
CHECK_DEADLOCK FALSE

\* One desk in each behaviour, with the pages 1, 2 and 3.  The bounds on what people
\* do end the behaviours: deadlock is not an error here.
SPECIFICATION PagesSpec
CONSTANTS
  Tabs = {t1}
  Members = {1, 2}
  Txs = {1}
  Jobs = {1, 2}
  Flows = {"CreateOrder", "Order", "Checkpoint", "Renewal"}
  MaxApplied = 2
  MaxMoves = 1
  NoTx = 0
  Nobody = 0
  Desks = {"payments", "menu", "shop", "settings", "groups"}
  DeskPages = {1, 2, 3}
  MaxDeeds <- DeskDeeds
  Items = {1}
  Readers = {1, 2}
  Prices = {1, 9}
  MaxPrice = 5
  Editors = {1}
  Histories = {2}
  Reviewers = {3}
  MaxChanges = 2
  MaxDay = 2
  Ids = {1, 2, 3}
  Unclaimed = {2}
  LoginWallet = "login"
  Wallets = {"login", "other"}
  Profiles = {1, 2}
  Delisters = {3}
  Fees = {1}
  Minutes = {5, 6}
  Delays = {0, 1}
  Settings = {1}
  Payouts = {2}
  MaxSaves = 2
  GroupMembers = {1, 2}
  Groups = {1, 2}
  Names = {n1}
  MaxCodes = 2
  ListPages = {1, 2}
  DetailPages = {3}
INVARIANTS RetriesApplyOnce MenuIsTheLog OpenShopsAreWhole GroupsKeepDoors
PROPERTIES LedgerKept LostOnlyBehind
CHECK_DEADLOCK FALSE

------------------------------- MODULE MCPages -------------------------------
(***************************************************************************)
(* The pages of the web application that ask the server for a change, for   *)
(* TLC: in each behaviour one desk is played, the payments (PaymentSync),   *)
(* the menus, the shops, the settings or the groups, with a bound on how    *)
(* often people open a page, edit or press a button.  The other desks stay  *)
(* as they began.                                                           *)
(***************************************************************************)
EXTENDS MCPaymentSync

CONSTANTS
  DeskPages,   \* the pages of a desk, numbered
  Desks,       \* the desks that are played
  MaxDeeds,    \* bound on the deeds of people, by desk
  Items, Readers, Prices, MaxPrice, Editors, Histories, Reviewers, MaxChanges, MaxDay,
  Ids, Unclaimed, LoginWallet, Wallets, Profiles, Delisters,
  Fees, Minutes, Delays, Settings, Payouts, MaxSaves,
  GroupMembers, Groups, Names, MaxCodes, ListPages, DetailPages

DeskDeeds == [menu |-> 6, shop |-> 6, settings |-> 5, groups |-> 6]

VARIABLES
  desk, deeds, at, ask,
  day, menu, change, pending, due, crossed,
  shops, shown, listed, returned, overtaken, extra,
  params, copy, edited, saves, base,
  group, code, member, view

Menu     == INSTANCE ShopMenu WITH Pages <- DeskPages
Shop     == INSTANCE ShopProfile WITH Pages <- DeskPages
Platform == INSTANCE PlatformSettings WITH Pages <- DeskPages
Group    == INSTANCE GroupDesk WITH Pages <- DeskPages, Members <- GroupMembers

\* Every page of a desk is one of its pages, those of groups are of two kinds,
\* an owner has a wallet to connect, and no shop has the id that says there is none.
ASSUME DesksAssumption ==
  /\ Menu!MenuPages \cup Shop!ShopPages \subseteq DeskPages
  /\ Platform!SettingsPages \cup Group!GroupPages \subseteq DeskPages
  /\ ListPages \cap DetailPages = {}
  /\ Shop!NoWallet \notin Wallets \cup {LoginWallet}
  /\ Ids \subseteq Nat \ {Shop!Nothing}

paymentVars  == <<vars, tangled, moves>>
menuVars     == <<day, menu, change, pending, due, crossed>>
shopVars     == <<shops, shown, listed, returned, overtaken, extra>>
platformVars == <<params, copy, edited, saves, base>>
groupVars    == <<group, code, member, view>>
pageVars     == <<desk, deeds, at, ask, paymentVars, menuVars, shopVars, platformVars, groupVars>>

\* The desks that are not played begin in one way only; the members of groups
\* are interchangeable.
PagesInit ==
  /\ desk \in Desks /\ deeds = 0
  /\ MCInit /\ Menu!Init /\ Shop!Init /\ Platform!Init /\ Group!Init
  /\ params = CHOOSE p \in Platform!Params : p.fee # 0 /\ p.options = {p.minutes} /\ ~p.enabled
  /\ view[1].who = 1 /\ (view[2].who = 1 => view[3].who = 1)
  /\ desk # "groups" => view[2].who = 1

\* Readers of menus are interchangeable: of those that are free the first lists.
FreeReaderFirst == \A r \in Readers : due[r] = {} /\ due'[r] # {} =>
                     \A q \in 1..(r - 1) : due[q] # {}

Plays ==
  \/ /\ desk = "payments" /\ MCNext
     /\ UNCHANGED <<at, ask, menuVars, shopVars, platformVars, groupVars>>
  \/ /\ desk = "menu" /\ Menu!Next /\ FreeReaderFirst
     /\ UNCHANGED <<paymentVars, shopVars, platformVars, groupVars>>
  \/ /\ desk = "shop" /\ Shop!Next
     /\ UNCHANGED <<paymentVars, menuVars, platformVars, groupVars>>
  \/ /\ desk = "settings" /\ Platform!Next
     /\ UNCHANGED <<paymentVars, menuVars, shopVars, groupVars>>
  \/ /\ desk = "groups" /\ Group!Next
     /\ UNCHANGED <<paymentVars, menuVars, shopVars, platformVars>>

Deed ==
  \/ \E d \in DeskPages : \/ at[d] = "shut" /\ at'[d] # "shut"
                          \/ at[d] = "idle" /\ at'[d] = "asking"
  \/ UNCHANGED at /\ edited' # edited
  \/ UNCHANGED at /\ shops' # shops

PagesNext ==
  /\ Plays /\ UNCHANGED desk
  /\ IF Deed THEN deeds < MaxDeeds[desk] /\ deeds' = deeds + 1 ELSE UNCHANGED deeds

PagesSpec == PagesInit /\ [][PagesNext]_pageVars

(* The menu is what its changes leave in order (ShopMenu).                  *)
MenuInOrder == Menu!MenuInOrder

(* So it is unless two readers applied changes at once or an approval was    *)
(* under way at midnight (ShopMenu).                                        *)
MenuIsTheLog == Menu!MenuIsTheLog

(* A shop members can order from has a wallet and is the owner's only one,  *)
(* except for the cases that ShopProfile names.                             *)
OpenShopsAreWhole == Shop!OpenShopsAreWhole

(* Settings are undone only by a page that is behind (PlatformSettings).    *)
LostOnlyBehind == Platform!LostOnlyBehind

(* A living group keeps its owner and the codes its pages show (GroupDesk). *)
GroupsKeepDoors == Group!GroupsKeepDoors
=============================================================================

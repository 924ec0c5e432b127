---------------------------- MODULE Achievements ----------------------------
(***************************************************************************)
(* Reviews, points and titles (achievement-demo.ts): one record in the       *)
(* browser's local storage, which every tab reads and writes back whole.     *)
(* A review earns points, a title costs points, and what a page shows was    *)
(* read when it was last drawn.                                              *)
(*                                                                         *)
(* A handler reads the record, works on its copy and writes that: two tabs    *)
(* are two processes, so another one may write in between.  What a review    *)
(* or a dish says, and the house drawn for a shop, are left out.             *)
(***************************************************************************)
EXTENDS Naturals, Sequences, FiniteSetsExt, Functions

CONSTANTS Tabs, Members,
          MaxReviews, MaxDishes   \* bounds on the reviews and the dishes added

VARIABLES
  store,     \* the record: reviews of each member, dishes added, titles bought
  tab,       \* each tab: its page, its member, and the record as last drawn
  handler,   \* what each tab is about to write, if its handler is under way
  overtaken  \* history: a write has undone what another tab wrote meanwhile

vars == <<store, tab, handler, overtaken>>

\* REWARD_CATALOG, and getMemberPoints' 5 for a review.
Cost == [bronze |-> 20, silver |-> 45, gold |-> 80]
Rewards == DOMAIN Cost
PerReview == 5
Badges == {3, 6, 10}     \* a badge is known by its threshold

States == [comments : [Members -> 0..MaxReviews], menuRecords : 0..MaxDishes,
           redemptions : Seq([member : Members, reward : Rewards])]
EmptyState ==
  [comments |-> [m \in Members |-> 0], menuRecords |-> 0, redemptions |-> <<>>]
NoTab == [page |-> "none"]
Idle == [at |-> "idle"]

TypeOK ==
  /\ store \in States /\ overtaken \in BOOLEAN
  /\ \A t \in Tabs :
       \/ tab[t] = NoTab
       \/ /\ tab[t].page \in {"badges", "shop"}
          /\ tab[t].member \in Members /\ tab[t].seen \in States
  /\ \A t \in Tabs : handler[t] = Idle \/ handler[t].next \in States

Init ==
  /\ store = EmptyState /\ overtaken = FALSE
  /\ tab = [t \in Tabs |-> NoTab] /\ handler = [t \in Tabs |-> Idle]

----------------------------------------------------------------------------
(* What is made of a record. *)

MemberPoints(s, m) == PerReview * s.comments[m]
\* Where the record holds what a member bought, the latest first.
MemberRedemptions(s, m) == {k \in DOMAIN s.redemptions : s.redemptions[k].member = m}
SpentPoints(s, m) ==
  SumFunctionOnSet([k \in DOMAIN s.redemptions |-> Cost[s.redemptions[k].reward]],
                   MemberRedemptions(s, m))
\* getPersonalBadgeLevels and getCurrentMemberTitle, the title bought last.
Unlocked(s, m) == {b \in Badges : s.comments[m] >= b}
Titles(s, m) == {s.redemptions[k].reward : k \in MemberRedemptions(s, m)}
CurrentTitle(s, m) ==
  IF MemberRedemptions(s, m) = {} THEN "none"
  ELSE s.redemptions[Min(MemberRedemptions(s, m))].reward

----------------------------------------------------------------------------
(* The pages. *)

\* A page is opened by a member who is signed in, and drawn from the record.
Open(t, page, m) ==
  /\ tab[t] = NoTab
  /\ tab' = [tab EXCEPT ![t] = [page |-> page, member |-> m, seen |-> store]]
  /\ UNCHANGED <<store, handler, overtaken>>
Leave(t) ==
  /\ tab[t] # NoTab /\ handler[t] = Idle
  /\ tab' = [tab EXCEPT ![t] = NoTab] /\ UNCHANGED <<store, handler, overtaken>>

On(t, page) == tab[t].page = page /\ handler[t] = Idle

----------------------------------------------------------------------------
(* What a handler asks of the record. *)

Computes(t, next) ==
  /\ handler' = [handler EXCEPT ![t] = [at |-> "write", read |-> store, next |-> next]]
  /\ UNCHANGED <<store, tab, overtaken>>

AddDemoComment(t) ==
  /\ store.comments[tab[t].member] < MaxReviews
  /\ Computes(t, [store EXCEPT !.comments[tab[t].member] = @ + 1])
AddDemoMenuRecord(t) ==
  /\ store.menuRecords < MaxDishes
  /\ Computes(t, [store EXCEPT !.menuRecords = @ + 1])

\* redeemReward reads the record again, whatever the page shows; the same title can
\* be bought twice.
ShownCovers(t, reward) ==
  SpentPoints(tab[t].seen, tab[t].member) + Cost[reward] <= MemberPoints(tab[t].seen, tab[t].member)
Covers(t, reward) ==
  SpentPoints(store, tab[t].member) + Cost[reward] <= MemberPoints(store, tab[t].member)
RedeemReward(t, reward) ==
  /\ Covers(t, reward)
  /\ Computes(t, [store EXCEPT
       !.redemptions = <<[member |-> tab[t].member, reward |-> reward]>> \o @])

WriteDemoState(t) ==
  /\ store' = handler[t].next
  /\ overtaken' = (overtaken \/ handler[t].read # store)

----------------------------------------------------------------------------
(* The buttons.  Those of the titles are never disabled; anyone may add a dish. *)

HandleReviewSubmit(t) == On(t, "shop") /\ AddDemoComment(t)
HandleMenuSubmit(t) == On(t, "shop") /\ AddDemoMenuRecord(t)
HandleRedeem(t, reward) == On(t, "badges") /\ RedeemReward(t, reward)

\* refreshKey: when the handler is through its page is drawn from the record.
Summary(t) == [tab EXCEPT ![t].seen = store']
Write(t) ==
  /\ handler[t] # Idle /\ handler' = [handler EXCEPT ![t] = Idle]
  /\ WriteDemoState(t) /\ tab' = Summary(t)

Next == \E t \in Tabs :
  \/ \E m \in Members : Open(t, "badges", m) \/ Open(t, "shop", m)
  \/ Leave(t) \/ HandleReviewSubmit(t) \/ HandleMenuSubmit(t) \/ Write(t)
  \/ \E reward \in Rewards : HandleRedeem(t, reward)

Spec == Init /\ [][Next]_vars

----------------------------------------------------------------------------
(* Properties *)

\* Nobody spends points twice, from however many tabs, and a badge or a title that
\* a page shows is one its member still has, unless a tab has written over what
\* another wrote after it read (achievement-demo.ts:119-180).
EarnedIsKept ==
  \/ overtaken
  \/ /\ \A m \in Members : SpentPoints(store, m) <= MemberPoints(store, m)
     /\ \A t \in Tabs : tab[t] # NoTab =>
          LET m == tab[t].member  shown == CurrentTitle(tab[t].seen, m) IN
          /\ Unlocked(tab[t].seen, m) \subseteq Unlocked(store, m)
          /\ shown = "none" \/ shown \in Titles(store, m)
=============================================================================

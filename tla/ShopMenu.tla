------------------------------ MODULE ShopMenu ------------------------------
(***************************************************************************)
(* The menu of one shop: its owner asks for changes on the edit page, sees   *)
(* and withdraws them on the history page, an admin approves or rejects them *)
(* on the review page, and an approved change takes effect after the next    *)
(* midnight: whoever reads menus lists what is due and applies it, one change *)
(* in a transaction.                                                         *)
(***************************************************************************)
EXTENDS PageRequests, Sequences

CONSTANTS Items,
          Readers,      \* requests for menus the server handles at once
          Prices,       \* what an owner types, in units of the price
          MaxPrice,     \* the largest price the server's int64 can hold
          Editors, Histories, Reviewers,   \* the pages, one for each open tab
          MaxChanges, MaxDay

VARIABLES
  day,      \* midnights passed
  menu,     \* the price of each item on the menu, 0 if it is not on it
  change,   \* the requests for a change, by id
  pending,  \* the ids each page that lists requests shows as pending
  due,      \* the changes each reader has listed and not yet applied
  crossed   \* history: a reader listed what is due while another was at work, or an
            \* approval was written after the midnight it was meant for

readVars == <<due, crossed>>
menuVars == <<day, menu, change, pending, readVars>>
vars == <<requestVars, menuVars>>

\* Requests to create and to update an item differ in nothing the server does.
Actions == {"write", "delete"}
ListingPages == Histories \cup Reviewers
MenuPages == Editors \cup ListingPages

TypeOK ==
  /\ RequestsOK /\ day \in 0..MaxDay /\ menu \in [Items -> Nat]
  /\ \A i \in DOMAIN change :
       /\ change[i].act \in Actions /\ change[i].item \in Items
       /\ change[i].status \in
            {"pending", "withdrawn", "approved", "rejected", "applied"}
  /\ \A d \in ListingPages : pending[d] \subseteq DOMAIN change
  /\ \A r \in Readers : due[r] \subseteq DOMAIN change

Init ==
  /\ RequestsInit /\ day = 0 /\ menu = [it \in Items |-> 0] /\ change = <<>>
  /\ pending = [d \in ListingPages |-> {}]
  /\ due = [r \in Readers |-> {}] /\ crossed = FALSE

----------------------------------------------------------------------------
(* The server. *)

\* nextEffectiveMidnight: an approval is effective from the next midnight on.
SameMidnight(now) == now
NextMidnight(now) == now + 1

\* The order in which the scheduled changes are applied.
Later(i, j) ==
  \/ change[i].effective > change[j].effective
  \/ change[i].effective = change[j].effective /\ i > j

\* What a change leaves on the menu: the item as it is written, whether or not it
\* was there before, or nothing.
Leaves(i) == IF change[i].act = "delete" THEN 0 ELSE change[i].price

Due == {i \in DOMAIN change : change[i].status = "approved"
                              /\ change[i].effective <= day}
FirstOf(S) == CHOOSE i \in S : \A j \in S \ {i} : Later(j, i)
LastOf(S)  == CHOOSE i \in S : \A j \in S \ {i} : Later(i, j)

\* ApplyScheduledMenuChangeRequests: members who list shops and the pages of a menu
\* list what is due, then apply it one after the other, whether or not another
\* reader has applied it meanwhile.  The server can stop, or a write fail, in
\* between.
ListDue(r) ==
  /\ due[r] = {} /\ Due # {} /\ due' = [due EXCEPT ![r] = Due]
  /\ crossed' = (crossed \/ \E q \in Readers : due[q] # {})
  /\ UNCHANGED <<requestVars, day, menu, change, pending>>
ApplyNext(r) ==
  /\ due[r] # {}
  /\ LET i == FirstOf(due[r])
     IN /\ menu' = [menu EXCEPT ![change[i].item] = Leaves(i)]
        /\ change' = [change EXCEPT ![i].status = "applied"]
        /\ due' = [due EXCEPT ![r] = @ \ {i}]
  /\ UNCHANGED <<requestVars, day, pending, crossed>>
Stops(r) ==
  /\ due[r] # {} /\ due' = [due EXCEPT ![r] = {}]
  /\ UNCHANGED <<requestVars, day, menu, change, pending, crossed>>

\* CreateMenuChangeRequest: a price that does not fit is read as 0 and refused.
Creatable(x) == x.act = "delete" \/ x.price <= MaxPrice
Create(x) ==
  change' = Append(change, [act |-> x.act, item |-> x.item, price |-> x.price,
                            status |-> "pending", effective |-> 0])

\* Only a request that is still pending can be withdrawn or reviewed.
Undecided(i) == change[i].status = "pending"
Decide(i, status, effective) ==
  change' = [change EXCEPT ![i].status = status, ![i].effective = effective]

Acceptable(x) == IF x.what = "submit" THEN Creatable(x) ELSE Undecided(x.id)
Effect(x) ==
  CASE x.what = "submit"   -> Create(x)
    [] x.what = "withdraw" -> Decide(x.id, "withdrawn", 0)
    [] x.what = "approve"  -> Decide(x.id, "approved", NextMidnight(x.now))
    [] x.what = "reject"   -> Decide(x.id, "rejected", 0)

\* The handler of a review looks at the clock before it writes the decision.
LooksAtClock(d) ==
  /\ at[d] = "asking" /\ ask[d].what = "approve" /\ ~ask[d].timed
  /\ ask' = [ask EXCEPT ![d].timed = TRUE, ![d].now = day]
  /\ UNCHANGED <<at, menuVars>>
Timed(x) == x.what = "approve" => x.timed
PastMidnight(x) == x.what = "approve" /\ x.now # day

Midnight ==
  /\ day < MaxDay /\ day' = day + 1
  /\ UNCHANGED <<requestVars, menu, change, pending, readVars>>

----------------------------------------------------------------------------
(* The pages. *)

\* The edit page acts on none of what it reads.
Lists(d, shown) ==
  pending' = [e \in ListingPages |-> IF e = d THEN shown ELSE pending[e]]

Open(d)  == Opens(d) /\ Lists(d, {}) /\ UNCHANGED <<day, menu, change, readVars>>
Close(d) == Shuts(d) /\ UNCHANGED menuVars

\* The dashboards list the requests; that they apply what is due first is a
\* reader's work, which touches no pending request.
Refresh(d) ==
  /\ Reads(d) /\ Lists(d, {i \in DOMAIN change : Undecided(i)})
  /\ UNCHANGED <<day, menu, change, readVars>>
RefreshFails(d) == ReadsNothing(d) /\ UNCHANGED menuVars

\* handleSubmitMenuChange: the drafts the form lets through.
Drafts == {x \in [what : {"submit"}, act : Actions, item : Items, price : Prices \cup {0}] :
             (x.act = "delete") <=> (x.price = 0)}
Submit(d) ==
  /\ Len(change) < MaxChanges
  /\ \E x \in Drafts : Presses(d, x)
  /\ UNCHANGED menuVars

\* The buttons stand at the requests that are shown as pending.
Press(d, whats) ==
  /\ \E i \in pending[d], w \in whats :
       Presses(d, [what |-> w, id |-> i, timed |-> FALSE, now |-> 0])
  /\ UNCHANGED menuVars
Withdraw(d) == Press(d, {"withdraw"})
Review(d)   == Press(d, {"approve", "reject"})

\* A bound of the model: the server takes MaxChanges requests.
Fits(x) == x.what = "submit" => Len(change) < MaxChanges
Serve(d) ==
  /\ at[d] = "asking" /\ Acceptable(ask[d]) /\ Fits(ask[d]) /\ Timed(ask[d])
  /\ Effect(ask[d]) /\ crossed' = (crossed \/ PastMidnight(ask[d]))
  /\ UNCHANGED <<day, menu, pending, due>>
  /\ \/ Ends(d, "reading")
     \/ Ends(d, "idle")       \* the answer is lost
Refuse(d) ==
  /\ at[d] = "asking" /\ ~Acceptable(ask[d]) /\ Timed(ask[d])
  /\ Ends(d, "idle") /\ UNCHANGED menuVars
Unserved(d) == Ends(d, "idle") /\ UNCHANGED menuVars

Next ==
  \/ Midnight
  \/ \E r \in Readers : ListDue(r) \/ ApplyNext(r) \/ Stops(r)
  \/ \E d \in Editors : Submit(d)
  \/ \E d \in Histories : Withdraw(d)
  \/ \E d \in Reviewers : Review(d) \/ LooksAtClock(d)
  \/ \E d \in MenuPages : \/ Open(d) \/ Close(d) \/ Refresh(d) \/ RefreshFails(d)
                          \/ Serve(d) \/ Refuse(d) \/ Unserved(d)

Spec == Init /\ [][Next]_vars

----------------------------------------------------------------------------
(* Properties *)

\* The menu is what the changes that took effect leave when they are taken in
\* the order of their midnights and ids: the last approved change is in effect
\* (ApplyScheduledMenuChangeRequests; the pages say that an approved change is in
\* effect from the next midnight on, merchant-menu-manager.tsx:208).
MenuInOrder ==
  \A it \in Items :
    LET done == {i \in DOMAIN change : change[i].status = "applied"
                                       /\ change[i].item = it}
    IN menu[it] = IF done = {} THEN 0 ELSE Leaves(LastOf(done))

\* So it is as long as no two readers were at work at once and no approval was
\* under way at midnight, although readers stop halfway and two admins approve
\* from lists read earlier.  A reader who comes late writes a change over a later
\* one; an approval that is written after the midnight it was meant for may come
\* after a later change was applied (ApplyScheduledMenuChangeRequests,
\* handleAdminReviewMenuChange, nextEffectiveMidnight).
MenuIsTheLog == crossed \/ MenuInOrder

=============================================================================

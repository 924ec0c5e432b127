----------------------------- MODULE OrderDesk -----------------------------
(***************************************************************************)
(* The pages on which a merchant and the platform's admins work through the *)
(* orders of the rounds: the merchant's list and detail page (accept,       *)
(* complete) and the admin's payouts (pay from the treasury's wallet and    *)
(* record it, cancel).  A press acts on the rows as the page last read      *)
(* them, its requests are served in any order, and it ends with a refresh   *)
(* only if none failed.  A handler outlives its page: the links of the      *)
(* application unmount a page and leave its handlers running, a reload ends *)
(* them but not the requests already sent.                                  *)
(*                                                                          *)
(* One request is one step of the server (OrderLifecycle has the steps      *)
(* inside), and so is a payout by the background processor.  Which tab, and  *)
(* which boxes of the payouts, are on is chosen with the press.             *)
(***************************************************************************)
EXTENDS Naturals, FiniteSets, FiniteSetsExt

CONSTANTS Orders, Proposals, ProposalOf,
          DetailOf,     \* the proposal the merchant's detail page is about
          Payers,       \* tabs with the payouts page
          Jobs          \* handlers under way at once

\* A page knows a proposal from its orders.
ConstantsOK ==
  /\ ProposalOf \in [Orders -> Proposals] /\ DetailOf \in Proposals
  /\ \A p \in Proposals : \E o \in Orders : ProposalOf[o] = p
  /\ Proposals \cup Jobs \subseteq Nat /\ IsFiniteSet(Orders) /\ IsFiniteSet(Jobs)
  /\ Payers \cap {"list", "detail", "none"} = {}

VARIABLES
  order,   \* the status of each order in the database
  page,    \* what each page shows
  job,     \* the handlers under way
  sent     \* history: how often a payment for the order left the wallet

vars == <<order, page, job, sent>>

Pages == {"list", "detail"} \cup Payers
Statuses == {"received", "accepted", "completed", "ready", "paid"}
NoCopy == [o \in Orders |-> "unread"]
Fresh == [seen |-> NoCopy, pending |-> FALSE]
Free == [at |-> "free", on |-> "none", act |-> "none", todo |-> {}, bad |-> FALSE,
         live |-> "here", copy |-> NoCopy]

TypeOK ==
  /\ order \in [Orders -> Statuses] /\ sent \in [Orders -> Nat]
  /\ page \in [Pages -> [seen : [Orders -> Statuses] \cup {NoCopy}, pending : BOOLEAN]]
  /\ \A j \in Jobs :
       /\ job[j].at \in {"free", "ask", "sign", "mined", "sync", "refresh", "read"}
       /\ job[j].on \in Pages \cup {"none"} /\ job[j].todo \subseteq Orders
       /\ job[j].act \in {"none", "mount", "accept", "complete", "cancel", "pay"}
       /\ job[j].live \in {"here", "left", "gone"}

----------------------------------------------------------------------------
(* What a page shows. *)

Of(p) == {o \in Orders : ProposalOf[o] = p}

\* matchesOrderFilter: the tab a status belongs to.
Filters == {"all", "pending", "accepted", "completed", "payout", "settled"}
MatchesFilter(status, f) ==
  CASE f = "settled"   -> status = "paid"
    [] f = "pending"   -> status = "received"
    [] f = "accepted"  -> status = "accepted"
    [] f = "completed" -> status = "completed"
    [] f = "payout"    -> status = "ready"
    [] OTHER           -> TRUE

\* groupedOrders: the rows of a proposal under a tab.
Grouped(seen, p, f) ==
  {o \in Of(p) : seen # NoCopy /\ MatchesFilter(seen[o], f)}

\* formatAggregateOrderStatus, as the tab that counts a group of statuses.
Aggregate(statuses) ==
  IF "received" \in statuses THEN "pending" ELSE IF "accepted" \in statuses THEN "accepted"
  ELSE IF "completed" \in statuses THEN "completed"
  ELSE IF "ready" \in statuses THEN "payout" ELSE "settled"
\* The detail page's own copy of it.
DetailAggregate(statuses) ==
  IF "received" \in statuses THEN "pending"
  ELSE IF "accepted" \in statuses THEN "accepted"
  ELSE IF "completed" \in statuses THEN "completed"
  ELSE IF "ready" \in statuses THEN "payout" ELSE "settled"
\* The member's page takes the order that is least far, and the tab it comes under.
Progress == <<"received", "accepted", "completed", "ready", "paid">>
TabOf == <<"pending", "accepted", "completed", "payout", "settled">>
MemberAggregate(statuses) ==
  TabOf[Min({k \in DOMAIN Progress : Progress[k] \in statuses})]

\* statusTabs: the proposals a tab counts.
Counted(seen, f) ==
  {p \in Proposals : f = "all" \/ Aggregate({seen[o] : o \in Of(p)}) = f}

Before(act) == CASE act = "accept" -> "received" [] act = "complete" -> "accepted"
                 [] act = "cancel" -> "ready" [] act = "pay" -> "ready"
After(act) == CASE act = "accept" -> "accepted" [] act = "complete" -> "completed"
                [] act = "cancel" -> "completed" [] act = "pay" -> "paid"

\* The buttons of the list ask for every row listed, whatever its status;
\* those of the detail page only for the rows they are about.
OnList(p, f, act) ==
  LET rows == Grouped(page["list"].seen, p, f)
  IN IF \E o \in rows : page["list"].seen[o] = Before(act) THEN rows ELSE {}
OnDetail(act) == {o \in Of(DetailOf) : page["detail"].seen[o] = Before(act)}

\* groupedPayoutOrders, and the groups a selection can be of.
Payable(d, p) == {o \in Of(p) : page[d].seen[o] = "ready"}
Selections(d) == (SUBSET {p \in Proposals : Payable(d, p) # {}}) \ {{}}

----------------------------------------------------------------------------
(* Pages come and go. *)

FreeJobs == {j \in Jobs : job[j].at = "free"}
FirstFree == Min(FreeJobs)
JobsOf(d) == {j \in Jobs : job[j].on = d /\ job[j].at # "free"}
HereOn(d) == {j \in JobsOf(d) : job[j].live = "here"}

\* The effect of a page that is mounted: its first refresh.
Mounting(d) == [Free EXCEPT !.at = "refresh", !.on = d, !.act = "mount"]
MountList(js) == [js EXCEPT ![FirstFree] = Mounting("list")]
MountDetail(js) == [js EXCEPT ![FirstFree] = Mounting("detail")]
MountPayouts(js, d) == [js EXCEPT ![FirstFree] = Mounting(d)]
Mount(js, d) == CASE d = "list" -> MountList(js) [] d = "detail" -> MountDetail(js)
                  [] OTHER -> MountPayouts(js, d)

\* A link leads away and back: the handlers of the page that was left go on.
Return(d) ==
  /\ FreeJobs # {}
  /\ page' = [page EXCEPT ![d] = Fresh]
  /\ job' = Mount([j \in Jobs |-> IF j \in JobsOf(d) THEN [job[j] EXCEPT !.live = "left"] ELSE job[j]], d)
  /\ UNCHANGED <<order, sent>>

\* A reload: what was sent to the server is served, the rest is gone.
Reload(d) ==
  /\ FreeJobs # {}
  /\ page' = [page EXCEPT ![d] = Fresh]
  /\ job' = Mount([j \in Jobs |-> IF j \notin JobsOf(d) THEN job[j]
                                  ELSE IF job[j].at \in {"ask", "sync"}
                                  THEN [job[j] EXCEPT !.live = "gone"] ELSE Free], d)
  /\ UNCHANGED <<order, sent>>

----------------------------------------------------------------------------
(* Presses. *)

Asking(d, act, rows) == [Free EXCEPT !.at = "ask", !.on = d, !.act = act, !.todo = rows]
Pending(d) == page' = [page EXCEPT ![d].pending = TRUE]

\* The list starts a handler of its own for each row.
PressOnList(p, f, act) ==
  LET rows == OnList(p, f, act)
      jobs == {S \in SUBSET FreeJobs : Cardinality(S) = Cardinality(rows)}
  IN /\ ~page["list"].pending /\ rows # {} /\ jobs # {}
     /\ LET run == CHOOSE r \in [rows -> CHOOSE S \in jobs : TRUE] : \A a, b \in rows : r[a] = r[b] => a = b
        IN job' = [j \in Jobs |-> IF \E o \in rows : run[o] = j
                     THEN Asking("list", act, {o \in rows : run[o] = j}) ELSE job[j]]
     /\ Pending("list") /\ UNCHANGED <<order, sent>>

PressOne(d, rows, act) ==
  /\ ~page[d].pending /\ rows # {} /\ FreeJobs # {}
  /\ job' = [job EXCEPT ![FirstFree] = Asking(d, act, rows)]
  /\ Pending(d) /\ UNCHANGED <<order, sent>>

PressOnDetail(act) == PressOne("detail", OnDetail(act), act)
PressCancel(d, p) == PressOne(d, Payable(d, p), "cancel")

\* One group's button, or the button of the batch, from the boxes that are on.
RecordFirst(d, rows) == [Free EXCEPT !.at = "sync", !.on = d, !.act = "pay", !.todo = rows]
StartPay(d, rows) == [Free EXCEPT !.at = "sign", !.on = d, !.act = "pay", !.todo = rows]
PressPay(d, ps) ==
  /\ ~page[d].pending /\ ps \in Selections(d) /\ FreeJobs # {}
  /\ job' = [job EXCEPT ![FirstFree] = StartPay(d, UNION {Payable(d, p) : p \in ps})]
  /\ Pending(d) /\ UNCHANGED <<order, sent>>

----------------------------------------------------------------------------
(* Handlers.  The catch of a handler shows a message and frees the buttons.  *)

Caught(j) ==
  IF job[j].live = "here" THEN [page EXCEPT ![job[j].on].pending = FALSE] ELSE page
Fail(j) == page' = Caught(j) /\ job' = [job EXCEPT ![j] = Free]

\* The next group of a batch, the earliest first.
Group(j) == Of(Min({ProposalOf[o] : o \in job[j].todo})) \cap job[j].todo

\* Another wallet than the treasury's is connected, or the wallet says no.
WalletRefuses(j) == job[j].at = "sign" /\ Fail(j) /\ UNCHANGED <<order, sent>>
Send(j) ==
  /\ job[j].at = "sign"
  /\ sent' = [o \in Orders |-> IF o \in Group(j) THEN sent[o] + 1 ELSE sent[o]]
  /\ job' = [job EXCEPT ![j].at = "mined"]
  /\ UNCHANGED <<order, page>>
ReceiptSeen(j) ==
  job[j].at = "mined" /\ job' = [job EXCEPT ![j].at = "sync"] /\ UNCHANGED <<order, page, sent>>
ReceiptLost(j) == job[j].at = "mined" /\ Fail(j) /\ UNCHANGED <<order, sent>>

\* processAdminPayouts with the hash of a manual payment: all of the group, or none.
Recordable(j) == \A o \in Group(j) : order[o] = "ready"
Recorded(j) == [o \in Orders |-> IF o \in Group(j) THEN "paid" ELSE order[o]]
NextGroup(j) ==
  LET rest == job[j].todo \ Group(j) IN
  IF job[j].live = "gone" THEN Free
  ELSE [job[j] EXCEPT !.todo = rest, !.at = IF rest = {} THEN "refresh" ELSE "sign"]

Sync(j) ==
  /\ job[j].at = "sync" /\ UNCHANGED sent
  /\ IF Recordable(j)
     THEN /\ order' = Recorded(j)
          /\ job' = [job EXCEPT ![j] = NextGroup(j)] /\ UNCHANGED page
     ELSE Fail(j) /\ UNCHANGED order

\* The other handlers wait for all their requests, or the first that fails.
Served(o, act) == IF order[o] = Before(act) THEN [order EXCEPT ![o] = After(act)] ELSE order

\* As it would be with the requests one after the other.
OneByOne(j, o, bad) == IF bad THEN Free ELSE
  LET rest == job[j].todo \ {o} IN
  IF rest # {} THEN [job[j] EXCEPT !.todo = rest]
  ELSE IF job[j].live = "gone" THEN Free ELSE [job[j] EXCEPT !.todo = {}, !.at = "refresh"]
AfterOne(j, o, bad) ==
  LET rest == job[j].todo \ {o} IN
  IF rest # {} THEN [job[j] EXCEPT !.todo = rest, !.bad = bad]
  ELSE IF bad \/ job[j].live = "gone" THEN Free
  ELSE [job[j] EXCEPT !.todo = {}, !.at = "refresh"]

Answer(j, o, served, ok) ==
  /\ job[j].at = "ask" /\ o \in job[j].todo
  /\ order' = (IF served THEN Served(o, job[j].act) ELSE order)
  /\ job' = [job EXCEPT ![j] = AfterOne(j, o, job[j].bad \/ ~ok)]
  /\ page' = (IF ~ok /\ ~job[j].bad THEN Caught(j) ELSE page)
  /\ UNCHANGED sent

Serve(j) == \E o \in job[j].todo : Answer(j, o, TRUE, order[o] = Before(job[j].act))
Lose(j, o) == \E served \in BOOLEAN : Answer(j, o, served, FALSE)
LoseSync(j) ==
  /\ job[j].at = "sync" /\ Fail(j) /\ UNCHANGED sent
  /\ \/ UNCHANGED order
     \/ Recordable(j) /\ order' = Recorded(j)

\* The refresh at a handler's end, and of a page that is mounted.
Read(j) ==
  /\ job[j].at = "refresh"
  /\ job' = [job EXCEPT ![j].at = "read", ![j].copy = order]
  /\ UNCHANGED <<order, page, sent>>
OnlyFreed(j) ==
  IF job[j].live # "here" THEN page
  ELSE IF job[j].act = "mount" THEN [page EXCEPT ![job[j].on].seen = job[j].copy]
  ELSE [page EXCEPT ![job[j].on].pending = FALSE]
Refreshed(j) ==
  IF job[j].live # "here" THEN page
  ELSE [page EXCEPT ![job[j].on] = [seen |-> job[j].copy, pending |-> FALSE]]
Show(j) ==
  /\ job[j].at = "read"
  /\ page' = Refreshed(j) /\ job' = [job EXCEPT ![j] = Free]
  /\ UNCHANGED <<order, sent>>
RefreshFails(j) == job[j].at \in {"refresh", "read"} /\ Fail(j) /\ UNCHANGED <<order, sent>>

----------------------------------------------------------------------------
(* The round's creator confirms receipt; the background processor pays. *)

Confirm(o) ==
  /\ order[o] = "completed" /\ order' = [order EXCEPT ![o] = "ready"]
  /\ UNCHANGED <<page, job, sent>>

AutoPay(p) ==
  LET due == {o \in Of(p) : order[o] = "ready"} IN
  /\ due # {}
  /\ order' = [o \in Orders |-> IF o \in due THEN "paid" ELSE order[o]]
  /\ sent' = [o \in Orders |-> IF o \in due THEN sent[o] + 1 ELSE sent[o]]
  /\ UNCHANGED <<page, job>>

----------------------------------------------------------------------------
(* Init takes the orders in any state before they are paid; the pages are    *)
(* being opened.                                                            *)
Init ==
  /\ order \in [Orders -> Statuses \ {"paid"}] /\ sent = [o \in Orders |-> 0]
  /\ page = [d \in Pages |-> Fresh] /\ job = [j \in Jobs |-> Free]

Presses ==
  \/ \E act \in {"accept", "complete"} :
       \/ PressOnDetail(act)
       \/ \E p \in Proposals, f \in Filters : PressOnList(p, f, act)
  \/ \E d \in Payers :
       \/ \E p \in Proposals : PressCancel(d, p)
       \/ \E ps \in Selections(d) : PressPay(d, ps)

Moves ==
  \/ \E d \in Pages : Return(d) \/ Reload(d)
  \/ \E o \in Orders : Confirm(o)
  \/ \E p \in Proposals : AutoPay(p)
Breaks == \E j \in Jobs : ReceiptLost(j) \/ LoseSync(j) \/ RefreshFails(j)
Loses(o) == \E j \in Jobs : Lose(j, o)
Wallet == \E j \in Jobs : Send(j) \/ WalletRefuses(j)
Works(j) == ReceiptSeen(j) \/ Sync(j) \/ Serve(j) \/ Read(j) \/ Show(j)

Next ==
  \/ Presses \/ Moves \/ Breaks \/ Wallet
  \/ \E o \in Orders : Loses(o)
  \/ \E j \in Jobs : Works(j)

(* Not everything that could go on stands still: requests are served and     *)
(* answered, receipts seen.  The wallet may be left open for ever.           *)
Fairness == WF_vars(\E j \in Jobs : Works(j))
Spec == Init /\ [][Next]_vars /\ Fairness

----------------------------------------------------------------------------
(* Properties. *)

(* An order is marked as paid only after a payment for it left a wallet.     *)
PaidIsSent == \A o \in Orders : order[o] = "paid" => sent[o] > 0

(* Every group is counted by one tab, is listed under that tab, and has the  *)
(* same status on its detail page and on the member's.                       *)
TabsAgree ==
  page["list"].seen # NoCopy =>
    \A p \in Proposals :
      LET seen == page["list"].seen
          tabs == {f \in Filters \ {"all"} : p \in Counted(seen, f)}
      IN /\ Cardinality(tabs) = 1
         /\ \A f \in tabs : Grouped(seen, p, f) # {}
         /\ {DetailAggregate({seen[o] : o \in Of(p)}),
             MemberAggregate({seen[o] : o \in Of(p)})} \subseteq tabs

(* An order that was paid by hand is off the list at once, as the page says, *)
(* and is not paid from there again.                                         *)
PaidNotPaidAgain == [][\A o \in Orders : order[o] = "paid" => sent'[o] = sent[o]]_vars
=============================================================================

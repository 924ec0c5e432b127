---------------------------- MODULE MCOrderDesk ----------------------------
(***************************************************************************)
(* OrderDesk with history variables: the orders a request for which was     *)
(* lost, and whether a payment was in trouble - its handler ended without   *)
(* the refresh of its page, or another payer was about.  For TLC, from a    *)
(* few states of the orders, with bounds on what people do and on what      *)
(* breaks.                                                                  *)
(***************************************************************************)
EXTENDS Naturals

CONSTANTS Orders, Proposals, ProposalOf, DetailOf, Payers, Jobs,
          MaxPresses, MaxDeeds, MaxMoves

VARIABLES
  order, page, job,
  paidFor,   \* how often a payment for the order left the wallet
  used, presses, deeds, lost, trouble

Desk == INSTANCE OrderDesk WITH sent <- paidFor

ASSUME DeskAssumption == Desk!ConstantsOK

deskHistory == <<used, presses, deeds, lost, trouble>>

MCProposalOf == [o \in Orders |-> IF o = 3 THEN 2 ELSE 1]

\* A payment's handler ends without the refresh of its page.
EndsNow(j) == job[j].at # "free" /\ job'[j].at = "free"
Unrefreshed(j) ==
  /\ job[j].act = "pay" /\ EndsNow(j)
  /\ ~(job[j].at = "read" /\ job[j].live = "here" /\ page' = Desk!Refreshed(j))

\* An order is paid that another page lists, or will, or that another payer is to pay:
\* the background processor, or a second handler.
Lists(d, o) == page[d].seen[o] = "ready" \/ \E j \in Desk!JobsOf(d) : job[j].copy[o] = "ready"
Holds(j, o) == job[j].act = "pay" /\ o \in job[j].todo
PaysFrom(d, o) == \E j \in Desk!HereOn(d) : job[j].at = "sync" /\ o \in job[j].todo
PaidNow(o) == order[o] # "paid" /\ order'[o] = "paid"
Overlaps(o) ==
  \/ \E d \in Payers : PaidNow(o) /\ Lists(d, o) /\ (paidFor' # paidFor \/ ~PaysFrom(d, o))
  \/ \E j \in Jobs : PaidNow(o) /\ Holds(j, o) /\ paidFor' # paidFor
  \/ \E i, j \in Jobs : i # j /\ Holds(i, o) /\ Holds(j, o)

Troubles ==
  trouble' = (trouble \/ (\E j \in Jobs : Unrefreshed(j)) \/ \E o \in Orders : Overlaps(o))

\* Pages that are open and read, on orders in any state before they are paid.
DeskOpens(open) ==
  /\ order \in [Orders -> Desk!Statuses \ {"paid"}]
  /\ paidFor = [o \in Orders |-> 0] /\ job = [j \in Jobs |-> Desk!Free]
  /\ page = [d \in Desk!Pages |-> IF d \in open THEN [Desk!Fresh EXCEPT !.seen = order] ELSE Desk!Fresh]
  /\ trouble = FALSE

----------------------------------------------------------------------------
(* For TLC: the pages that are not open at first are not used. *)

Come == {[o \in Orders |-> "received"], [o \in Orders |-> "ready"],
         [o \in Orders |-> IF o = 1 THEN "accepted" ELSE IF o = 2 THEN "received" ELSE "completed"]}

DeskInit ==
  /\ used \in {{"list"}, {"detail"}, Payers, {"list", "detail"}} \cup {{CHOOSE d \in Payers : TRUE}}
  /\ order \in Come /\ DeskOpens(used)
  /\ presses = 0 /\ deeds = 0 /\ lost = {}

DeskNext ==
  /\ \/ Desk!Presses /\ presses' = presses + 1 /\ UNCHANGED <<deeds, lost>>
     \/ (Desk!Moves \/ Desk!Breaks) /\ deeds' = deeds + 1 /\ UNCHANGED <<presses, lost>>
     \/ \E o \in Orders : Desk!Loses(o) /\ lost' = lost \cup {o} /\ deeds' = deeds + 1 /\ UNCHANGED presses
     \/ (Desk!Wallet \/ \E j \in Jobs : Desk!Works(j)) /\ UNCHANGED <<presses, deeds, lost>>
  /\ \A j \in Jobs : job'[j].on \in used \cup {"none"}
  /\ UNCHANGED used /\ presses' <= MaxPresses /\ deeds' <= MaxDeeds
  /\ presses' + deeds' <= MaxMoves
  /\ Troubles

DeskSpec == DeskInit /\ [][DeskNext]_<<Desk!vars, deskHistory>> /\ Desk!Fairness

----------------------------------------------------------------------------
(* An order is marked as paid only after a payment for it has left a wallet, *)
(* (handleSingleManualPayout, processAdminPayouts, portal_handlers.go:520):  *)
(* one that reverts counts, for no receipt's status is read.  And a group    *)
(* is counted by the one tab that lists it and shows its status, as do the   *)
(* merchant's and the member's detail page (merchant-dashboard.tsx:89-126,   *)
(* 354-361, merchant-order-detail.tsx:241-248,                               *)
(* member-ordering-workspace.tsx:1612-1620).                                 *)
DeskIsSound == Desk!PaidIsSent /\ Desk!TabsAgree

(* Without trouble no order is paid twice: on a payouts page that is         *)
(* refreshed after every payment, pressing again finds the order gone        *)
(* (admin-payouts.tsx, handleBatchReleasePayout).                            *)
NoDoubleWithoutTrouble == (\E o \in Orders : paidFor[o] > 1) => trouble

(* A press reaches every row it was for: an order that a handler asked to be *)
(* accepted gets on although others of the press are refused.                *)
ToAccept(o) ==
  order[o] = "received" /\ \E j \in Jobs : job[j].act = "accept" /\ o \in job[j].todo
PressReachesAll == \A o \in Orders : ToAccept(o) ~> order[o] # "received" \/ o \in lost

(* What was paid by hand is not paid again (OrderDesk).                      *)
PaidNotPaidAgain == Desk!PaidNotPaidAgain
=============================================================================

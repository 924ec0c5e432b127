---------------------------- MODULE OrderLifecycle ----------------------------
(***************************************************************************)
(* The orders of one local round: members pay and top up, the merchant     *)
(* accepts and completes, the round's creator confirms receipt, and the    *)
(* platform pays the merchant, by hand (processAdminPayouts) or by the     *)
(* background processor (RunAutoPayoutProcessor).                          *)
(*                                                                         *)
(* Every status change reads the row, checks the transition and then       *)
(* updates it by id, outside any transaction; SaveOrder runs in one        *)
(* transaction (read committed, no lock) whose read of the existing order  *)
(* and whose commit are two steps.  The server may crash between any two   *)
(* steps: what it was doing is lost, the tables and the transfers stay.    *)
(* The statuses of old data (paid_local, merchant_confirmed) and orders    *)
(* without a transaction hash are left out.                                *)
(***************************************************************************)
EXTENDS Integers, Sequences, FiniteSets, Functions

CONSTANTS
  Members,
  Payments,       \* hashes of the members' payment transactions
  PayerOf, Price, \* who sent each payment, and the amount its request names
  Workers,        \* request handlers that may run at once
  Processors,     \* payouts under way at once: AutoPayout and the admins' requests
  AutoPayout,
  MaxOrders, MaxConfirms, MaxCrashes,
  MaxLost         \* the faults after which no more completion or transfer is lost

ASSUME OrderAssumption ==
  /\ PayerOf \in [Payments -> Members] /\ Price \in [Payments -> Nat \ {0}]
  /\ IsFiniteSet(Payments) /\ IsFiniteSet(Workers) /\ IsFiniteSet(Processors)
  /\ {MaxOrders, MaxConfirms, MaxCrashes, MaxLost} \subseteq Nat

VARIABLES
  ordering,   \* the round is in its ordering stage
  orders,     \* orders rows, by id
  pending,    \* pending_transactions rows: the order each payment ended in, 0 before
  work,       \* what each request handler is doing
  payout,     \* what each payout is doing
  saved,      \* history: how often each payment was added to an order
  overlapped, \* history: payments asked for again while a request of theirs ran
  unrecorded, \* history: how often a payment was added and not recorded as completed
  confirms,   \* history: confirmations written, by order
  sent,       \* history: transfers that paid for each order
  aborts,     \* history: payouts given up after their transfer
  crashes

repeats == <<saved, overlapped, unrecorded>>
history == <<repeats, confirms, sent, aborts, crashes>>
vars == <<ordering, orders, pending, work, payout, history>>

Idle == [at |-> "idle"]
OrderIds == DOMAIN orders
Statuses == {"payment_received", "merchant_accepted", "merchant_completed",
             "ready_for_payout", "platform_paid"}
Order == [member: Members, amount: Nat, items: Nat, status: Statuses, confirmed: BOOLEAN]
NoOrder == [amount |-> 0]

(* What a handler and a payout may be in the middle of.                     *)
Tasks ==
  {Idle} \cup [at: {"save"}, payment: Payments]
  \cup [at: {"commit"}, payment: Payments, order: {0}, row: {NoOrder}]
  \cup [at: {"commit"}, payment: Payments, order: OrderIds, row: Order]
  \cup [at: {"complete"}, payment: Payments, order: OrderIds]
  \cup [at: {"status"}, order: OrderIds, next: Statuses]
Payouts ==
  {Idle} \cup [at: {"transfer", "mark"}, batch: SUBSET OrderIds]
  \cup [at: {"paid"}, batch: SUBSET OrderIds, order: OrderIds]

TypeOK ==
  /\ ordering \in BOOLEAN
  /\ orders \in Seq(Order)
  /\ pending \in [Payments -> {0} \cup OrderIds]
  /\ work \in [Workers -> Tasks] /\ payout \in [Processors -> Payouts]
  /\ saved \in [Payments -> Nat] /\ overlapped \subseteq Payments
  /\ unrecorded \in [Payments -> Nat]
  /\ confirms \in [OrderIds -> Nat] /\ sent \in [OrderIds -> Nat]
  /\ aborts \in Nat /\ crashes \in 0..MaxCrashes

Init ==
  /\ ordering = TRUE
  /\ orders = <<>> /\ pending = [p \in Payments |-> 0]
  /\ work = [w \in Workers |-> Idle] /\ payout = [q \in Processors |-> Idle]
  /\ saved = [p \in Payments |-> 0] /\ overlapped = {} /\ unrecorded = [p \in Payments |-> 0]
  /\ confirms = <<>> /\ sent = <<>>
  /\ aborts = 0 /\ crashes = 0

-----------------------------------------------------------------------------
(* For TLC, completions and transfers are lost only while faults are few.   *)
MayLose == \A p \in Payments : unrecorded[p] + aborts + crashes < MaxLost

(* handleFinalizeOrder: a payment recorded as completed is answered from    *)
(* the order it ended in; any other, retried or not, goes on to Quote.      *)
NeverCompleted(p) == FALSE
AlreadyCompleted(p) == pending[p] # 0

Adding(p) == {w \in Workers : work[w].at \in {"save", "commit"} /\ work[w].payment = p}
Completing(p) == {w \in Workers : work[w].at = "complete" /\ work[w].payment = p}

FinalizeOrder(w, p) ==
  /\ work[w].at = "idle"
  /\ ~AlreadyCompleted(p) /\ ordering
  /\ work' = [work EXCEPT ![w] = [at |-> "save", payment |-> p]]
  /\ overlapped' = IF Adding(p) \cup Completing(p) = {} THEN overlapped ELSE overlapped \cup {p}
  /\ UNCHANGED <<ordering, orders, pending, payout, saved, unrecorded, confirms, sent,
                 aborts, crashes>>

(* The first read of SaveOrder's transaction: the member's latest order.    *)
Existing(m) ==
  {o \in OrderIds : /\ orders[o].member = m
                    /\ \A x \in OrderIds : orders[x].member = m => x <= o}

ReadExisting(w) ==
  LET p == work[w].payment
      found == Existing(PayerOf[p])
  IN /\ work[w].at = "save"
     /\ \/ /\ found = {}
           /\ work' = [work EXCEPT ![w] =
                [at |-> "commit", payment |-> p, order |-> 0, row |-> NoOrder]]
        \/ \E o \in found : work' = [work EXCEPT ![w] =
             IF orders[o].status = "payment_received"
             THEN [at |-> "commit", payment |-> p, order |-> o, row |-> orders[o]]
             ELSE Idle]
     /\ UNCHANGED <<ordering, orders, pending, payout, history>>

(* Its commit: Save writes back every column as read, status and times      *)
(* included; the items are read after the row is locked.                    *)
ToppedUp(row, items, amount) ==
  [row EXCEPT !.amount = @ + amount, !.items = items + amount,
              !.status = "payment_received"]

CommitOrder(w) ==
  LET p == work[w].payment
      old == work[w].order
      id == IF old = 0 THEN Len(orders) + 1 ELSE old
  IN /\ work[w].at = "commit"
     /\ id <= MaxOrders
     /\ IF old = 0
        THEN /\ orders' = Append(orders, [member |-> PayerOf[p], amount |-> Price[p],
                  items |-> Price[p], status |-> "payment_received", confirmed |-> FALSE])
             /\ confirms' = Append(confirms, 0) /\ sent' = Append(sent, 0)
        ELSE /\ orders' = [orders EXCEPT ![old] = ToppedUp(work[w].row, @.items, Price[p])]
             /\ UNCHANGED <<confirms, sent>>
     /\ saved' = [saved EXCEPT ![p] = @ + 1]
     /\ work' = [work EXCEPT ![w] = [at |-> "complete", payment |-> p, order |-> id]]
     /\ UNCHANGED <<ordering, pending, payout, overlapped, unrecorded, aborts, crashes>>

(* UpdatePendingTransaction, whose error is dropped: the payment may stay   *)
(* as if nothing had been done for it.                                      *)
CompletePayment(w) ==
  LET p == work[w].payment IN
  /\ work[w].at = "complete"
  /\ \/ /\ pending' = [pending EXCEPT ![p] = work[w].order]
        /\ UNCHANGED unrecorded
     \/ /\ MayLose /\ unrecorded' = [unrecorded EXCEPT ![p] = @ + 1]
        /\ UNCHANGED pending
  /\ work' = [work EXCEPT ![w] = Idle]
  /\ UNCHANGED <<ordering, orders, payout, saved, overlapped, confirms, sent, aborts, crashes>>

CloseOrdering ==
  /\ ordering /\ ordering' = FALSE
  /\ UNCHANGED <<orders, pending, work, payout, history>>

-----------------------------------------------------------------------------
(* The transitions of the merchant, the creator and the admin; the admin's  *)
(* platform_paid is only reached through a payout.                          *)
MayBecome(status, next) ==
  \/ status = "payment_received"   /\ next = "merchant_accepted"
  \/ status = "merchant_accepted"  /\ next = "merchant_completed"
  \/ status = "merchant_completed" /\ next = "ready_for_payout"
  \/ status = "ready_for_payout"   /\ next = "merchant_completed"

ReadStatus(w, o, next) ==
  /\ work[w].at = "idle"
  /\ MayBecome(orders[o].status, next)
  /\ next = "ready_for_payout" => confirms[o] < MaxConfirms
  /\ work' = [work EXCEPT ![w] = [at |-> "status", order |-> o, next |-> next]]
  /\ UNCHANGED <<ordering, orders, pending, payout, history>>

NoConfirmedAt(next) == FALSE
SetsConfirmedAt(next) == next = "ready_for_payout"

WriteStatus(w) ==
  LET o == work[w].order
      next == work[w].next
  IN /\ work[w].at = "status"
     /\ orders' = [orders EXCEPT ![o].status = next,
                                 ![o].confirmed = @ \/ SetsConfirmedAt(next)]
     /\ confirms' = IF next = "ready_for_payout" THEN [confirms EXCEPT ![o] = @ + 1]
                    ELSE confirms
     /\ work' = [work EXCEPT ![w] = Idle]
     /\ UNCHANGED <<ordering, pending, payout, repeats, sent, aborts, crashes>>

-----------------------------------------------------------------------------
(* A payout reads the orders ready for payout, transfers the sum of those   *)
(* chosen to the merchant, then marks them one by one.  The processor takes *)
(* the orders that are due, which needs a time of confirmation; the admin   *)
(* any.  An admin who pays from a wallet of his own and then reports the    *)
(* orders as paid takes the same steps.                                     *)
AllOrders == OrderIds
ReadyOrders == {o \in OrderIds : orders[o].status = "ready_for_payout"}

LoadBatch(q, batch) ==
  /\ payout[q].at = "idle"
  /\ batch # {} /\ batch \subseteq ReadyOrders
  /\ q = AutoPayout => \A o \in batch : orders[o].confirmed
  /\ payout' = [payout EXCEPT ![q] = [at |-> "transfer", batch |-> batch]]
  /\ UNCHANGED <<ordering, orders, pending, work, history>>

TransferFails(q) ==
  /\ payout[q].at = "transfer"
  /\ payout' = [payout EXCEPT ![q] = Idle]
  /\ UNCHANGED <<ordering, orders, pending, work, history>>

SentWith(batch) == [o \in OrderIds |-> sent[o] + (IF o \in batch THEN 1 ELSE 0)]
SendNativeTransfer(q) ==
  /\ payout[q].at = "transfer" /\ sent' = SentWith(payout[q].batch)
  /\ payout' = [payout EXCEPT ![q].at = "mark"]
  /\ UNCHANGED <<ordering, orders, pending, work, repeats, confirms, aborts, crashes>>

(* The node has taken the transaction and SendTransaction returns an error: *)
(* the transfer goes out, and the batch stays ready as if it had failed.    *)
TransferUnknown(q) ==
  /\ payout[q].at = "transfer" /\ sent' = SentWith(payout[q].batch)
  /\ payout' = [payout EXCEPT ![q] = Idle]
  /\ MayLose /\ aborts' = aborts + 1
  /\ UNCHANGED <<ordering, orders, pending, work, repeats, confirms, crashes>>

(* UpdateAdminOrderStatus for the next order of the batch, in whatever      *)
(* order they were asked for: the processor skips an order that is no       *)
(* longer ready; an admin's request gives up, the rest of the batch paid    *)
(* for but not marked.                                                      *)
RestOf(batch) == IF batch = {} THEN Idle ELSE [at |-> "mark", batch |-> batch]

CheckReady(q, o) ==
  LET rest == payout[q].batch \ {o}
      ready == o \in ReadyOrders
  IN /\ payout[q].at = "mark" /\ o \in payout[q].batch
     /\ payout' = [payout EXCEPT ![q] =
          IF ready THEN [at |-> "paid", batch |-> rest, order |-> o]
          ELSE IF q = AutoPayout THEN RestOf(rest) ELSE Idle]
     /\ aborts' = IF ready \/ q = AutoPayout THEN aborts ELSE aborts + 1
     /\ UNCHANGED <<ordering, orders, pending, work, repeats, confirms, sent, crashes>>

MarkPaid(q) ==
  /\ payout[q].at = "paid"
  /\ orders' = [orders EXCEPT ![payout[q].order].status = "platform_paid"]
  /\ payout' = [payout EXCEPT ![q] = RestOf(payout[q].batch)]
  /\ UNCHANGED <<ordering, pending, work, history>>

Crash ==
  /\ crashes < MaxCrashes /\ crashes' = crashes + 1
  /\ work' = [w \in Workers |-> Idle] /\ payout' = [q \in Processors |-> Idle]
  /\ unrecorded' = [p \in Payments |-> unrecorded[p] + Cardinality(Completing(p))]
  /\ UNCHANGED <<ordering, orders, pending, saved, overlapped, confirms, sent, aborts>>

HandlerStep(w) ==
  ReadExisting(w) \/ CommitOrder(w) \/ CompletePayment(w) \/ WriteStatus(w)
PayoutStep(q) ==
  \/ SendNativeTransfer(q) \/ TransferUnknown(q) \/ MarkPaid(q)
  \/ \E o \in OrderIds : CheckReady(q, o)

Next ==
  \/ \E w \in Workers :
       \/ \E p \in Payments : FinalizeOrder(w, p)
       \/ \E o \in OrderIds, next \in Statuses : ReadStatus(w, o, next)
       \/ HandlerStep(w)
  \/ \E q \in Processors :
       \/ \E batch \in SUBSET OrderIds : LoadBatch(q, batch)
       \/ TransferFails(q) \/ PayoutStep(q)
  \/ CloseOrdering \/ Crash

Spec == Init /\ [][Next]_vars

(* The processor runs every minute and an order it has not paid is due in   *)
(* every run from some time on; handlers and payouts that have begun go on; *)
(* the chain accepts a transfer that is tried again and again.              *)
Fairness ==
  /\ \A w \in Workers : WF_vars(HandlerStep(w))
  /\ \A q \in Processors : WF_vars(PayoutStep(q) \/ TransferFails(q))
  /\ \A o \in 1..MaxOrders :
       /\ SF_vars(\E batch \in SUBSET OrderIds : o \in batch /\ LoadBatch(AutoPayout, batch))
       /\ SF_vars(/\ payout[AutoPayout].at = "transfer" /\ o \in payout[AutoPayout].batch
                  /\ SendNativeTransfer(AutoPayout))
FairSpec == Spec /\ Fairness

-----------------------------------------------------------------------------
(* A payment is added to an order once, unless it is asked for again while  *)
(* a request of it runs, once more at most for each handler, or its order   *)
(* was saved and its completion was not, by a crash or a dropped error,     *)
(* once more for each time (handleFinalizeOrder, handlers.go:1054-1075).    *)
MayBeAdded(p) == unrecorded[p] + (IF p \in overlapped THEN Cardinality(Workers) ELSE 1)
RetriesBounded == \A p \in Payments : saved[p] <= MayBeAdded(p)

(* Stale writes may undo any status, and a top-up may lose another, but the *)
(* orders claim each payment that was recorded once, and once more only for *)
(* a retry as above (SaveOrder, postgres.go:1392-1542).                     *)
Recorded(p) == IF saved[p] = 0 THEN 0 ELSE MayBeAdded(p)
AmountsArePaidFor ==
  SumFunctionOnSet([o \in OrderIds |-> orders[o].amount], OrderIds)
    <= SumFunctionOnSet([p \in Payments |-> Recorded(p) * Price[p]], Payments)

(* The merchant is paid for an order only after its creator confirmed it,   *)
(* and each confirmation lets every payout process pay once, plus once for  *)
(* each crash and each payout given up after its transfer, because an order *)
(* of it was no longer ready or the transfer was taken for failed           *)
(* (processAdminPayouts, portal_handlers.go:520-601; RunAutoPayoutProcessor, *)
(* bootstrap.go:125-206; SendTransaction, client.go:141).                   *)
PayoutsConfirmed ==
  \A o \in OrderIds :
    /\ sent[o] > 0 => confirms[o] > 0
    /\ sent[o] <= Cardinality(Processors) * (confirms[o] + aborts + crashes)

(* An order ready for payout does not stay so: it is paid by the processor  *)
(* unless somebody takes it out of that state (bootstrap.go:145-190).       *)
ReadyIsPaid ==
  \A o \in 1..MaxOrders :
    (o \in OrderIds /\ o \in ReadyOrders) ~> (o \in OrderIds /\ o \notin ReadyOrders)

(* An order confirmed once is paid once: a payout refuses an order that is  *)
(* "not waiting for payout" (portal_handlers.go:554).                       *)
ConfirmedPaidOnce == \A o \in OrderIds : sent[o] <= confirms[o]
=============================================================================

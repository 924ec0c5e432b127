------------------------ MODULE OrderLifecycleProofs ------------------------
(***************************************************************************)
(* What holds of the orders of a round for any number of members, request  *)
(* handlers, payout processes, orders and crashes: the state is well       *)
(* typed, and no order is paid out unconfirmed, nor more often than its    *)
(* confirmations, the payouts given up and the crashes allow; a payment    *)
(* that is retried is added a bounded number of times, and what the orders *)
(* claim was paid.  At the end, of the desks in MCOrderDesk: what is       *)
(* marked as paid was sent, and without trouble once.                      *)
(***************************************************************************)
EXTENDS OrderLifecycle, MCOrderDesk, SequenceTheorems, FunctionTheorems, SumLemmas

(* The orders a payout has read and not yet dealt with.                     *)
InHand(q, o) ==
  \/ payout[q].at \in {"transfer", "mark", "paid"} /\ o \in payout[q].batch
  \/ payout[q].at = "paid" /\ o = payout[q].order

(* A payout may still pay for an order: it has read the order and not sent  *)
(* the transfer, or the order waits for payout and it has not read it.  A   *)
(* payout past its transfer can only mark the order.                        *)
MaySend(q, o) ==
  \/ payout[q].at = "transfer" /\ o \in payout[q].batch
  \/ o \in ReadyOrders /\ ~InHand(q, o)
Senders(o) == {q \in Processors : MaySend(q, o)}

NProcessors == Cardinality(Processors)
Allowed(o) == NProcessors * (confirms[o] + aborts + crashes)

(* Whoever pays for an order, or is about to, read it as confirmed.         *)
ConfirmedFirst(o) ==
  /\ o \in ReadyOrders => confirms[o] > 0
  /\ sent[o] > 0 => confirms[o] > 0
  /\ \A q \in Processors : InHand(q, o) => confirms[o] > 0

(* The transfers made and those that may still be made are all allowed for. *)
WithinAllowance(o) == sent[o] + Cardinality(Senders(o)) <= Allowed(o)

PayoutInv == \A o \in OrderIds : ConfirmedFirst(o) /\ WithinAllowance(o)
-----------------------------------------------------------------------------
(* What a typed task and a typed payout hold, by the step they are at.      *)
LEMMA TaskFields ==
  ASSUME TypeOK, NEW w \in Workers
  PROVE  /\ work[w].at \in {"save", "commit", "complete"} => work[w].payment \in Payments
         /\ work[w].at = "commit" =>
              \/ work[w].order = 0
              \/ work[w].order \in OrderIds /\ work[w].row \in Order
         /\ work[w].at \in {"complete", "status"} => work[w].order \in OrderIds
         /\ work[w].at = "status" => work[w].next \in Statuses
  BY DEF TypeOK, Tasks, Idle

LEMMA PayoutFields ==
  ASSUME TypeOK, NEW q \in Processors
  PROVE  /\ payout[q].at \in {"transfer", "mark", "paid"} => payout[q].batch \subseteq OrderIds
         /\ payout[q].at = "transfer" =>
              payout[q] = [at |-> "transfer", batch |-> payout[q].batch]
         /\ payout[q].at = "paid" => payout[q].order \in OrderIds
  BY DEF TypeOK, Payouts, Idle

(* Tasks and payouts stay typed when there are more orders.                 *)
LEMMA MoreOrders ==
  ASSUME OrderIds \subseteq OrderIds'
  PROVE  Tasks \subseteq Tasks' /\ Payouts \subseteq Payouts'
  BY DEF Tasks, Payouts, Order, NoOrder, Statuses, Idle

(* The orders are the first natural numbers.                                *)
LEMMA OrderIdsType ==
  ASSUME TypeOK
  PROVE  /\ OrderIds = 1..Len(orders) /\ Len(orders) \in Nat
         /\ orders \in [OrderIds -> Order]
         /\ confirms \in Seq(Nat) /\ Len(confirms) = Len(orders)
         /\ sent \in Seq(Nat) /\ Len(sent) = Len(orders)
<1>1. OrderIds = 1..Len(orders) /\ Len(orders) \in Nat /\ orders \in [OrderIds -> Order]
  BY DEF TypeOK, OrderIds
<1>2. confirms \in [1..Len(orders) -> Nat] /\ sent \in [1..Len(orders) -> Nat]
  BY <1>1 DEF TypeOK
<1>. QED  BY <1>1, <1>2

(* A row that is changed is still a row.                                    *)
LEMMA RowTyped ==
  ASSUME NEW r \in Order, NEW a \in Nat, NEW i \in Nat, NEW s \in Statuses, NEW c \in BOOLEAN
  PROVE  /\ [r EXCEPT !.status = s] \in Order
         /\ [r EXCEPT !.status = s, !.confirmed = c] \in Order
         /\ [r EXCEPT !.amount = a, !.items = i, !.status = s] \in Order
  BY DEF Order

(* An update by id keeps the table typed and its ids.                       *)
LEMMA RowUpdated ==
  ASSUME TypeOK, NEW o \in OrderIds, NEW r \in Order, orders' = [orders EXCEPT ![o] = r]
  PROVE  orders' \in Seq(Order) /\ OrderIds' = OrderIds
<1>1. orders \in Seq(Order) /\ o \in 1..Len(orders)
  BY OrderIdsType DEF TypeOK
<1>2. orders' \in Seq(Order)
  BY <1>1, ExceptSeq
<1>3. DOMAIN orders' = DOMAIN orders
  OBVIOUS
<1>. QED  BY <1>2, <1>3 DEF OrderIds

LEMMA InitTyped == Init => TypeOK
<1>. SUFFICES ASSUME Init PROVE TypeOK
  OBVIOUS
<1>1. orders \in Seq(Order) /\ OrderIds = {}
  BY DEF Init, OrderIds
<1>2. confirms \in [OrderIds -> Nat] /\ sent \in [OrderIds -> Nat]
  BY <1>1 DEF Init
<1>. QED  BY <1>1, <1>2, OrderAssumption DEF Init, TypeOK, Tasks, Payouts, Idle

(* The requests of a payment are finitely many, and one that adds it does   *)
(* not complete it yet.                                                     *)
NWorkers == Cardinality(Workers)

LEMMA RequestsFinite ==
  ASSUME NEW p
  PROVE  /\ NWorkers \in Nat
         /\ IsFiniteSet(Adding(p)) /\ Cardinality(Adding(p)) \in Nat
         /\ IsFiniteSet(Completing(p)) /\ Cardinality(Completing(p)) \in Nat
         /\ Cardinality(Adding(p)) <= NWorkers
         /\ IsFiniteSet(Adding(p)') /\ Cardinality(Adding(p))' \in Nat
         /\ IsFiniteSet(Completing(p)') /\ Cardinality(Completing(p))' \in Nat
<1>1. /\ Adding(p) \subseteq Workers /\ Adding(p)' \subseteq Workers
      /\ Completing(p) \subseteq Workers /\ Completing(p)' \subseteq Workers
  BY DEF Adding, Completing
<1>2. IsFiniteSet(Workers)
  BY OrderAssumption
<1>. QED  BY <1>1, <1>2, FS_Subset, FS_CardinalityType DEF NWorkers

(* Each action keeps the state typed.                                       *)
LEMMA StepTyped == TypeOK /\ [Next]_vars => TypeOK'
<1>. SUFFICES ASSUME TypeOK, [Next]_vars PROVE TypeOK'
  OBVIOUS
<1>. USE OrderAssumption
<1>1. ASSUME NEW w \in Workers, NEW p \in Payments, FinalizeOrder(w, p) PROVE TypeOK'
  <2>1. [at |-> "save", payment |-> p] \in Tasks
    BY DEF Tasks
  <2>2. /\ work' = [work EXCEPT ![w] = [at |-> "save", payment |-> p]]
        /\ UNCHANGED <<ordering, orders, pending, payout, saved, unrecorded, confirms, sent,
                        aborts, crashes>>
    BY <1>1 DEF FinalizeOrder
  <2>3. overlapped' \subseteq Payments
    BY <1>1 DEF FinalizeOrder, TypeOK
  <2>. QED  BY <2>1, <2>2, <2>3 DEF TypeOK, OrderIds, Tasks, Payouts
<1>2. ASSUME NEW w \in Workers, NEW o \in OrderIds, NEW next \in Statuses,
             ReadStatus(w, o, next)
      PROVE  TypeOK'
  <2>1. [at |-> "status", order |-> o, next |-> next] \in Tasks
    BY DEF Tasks
  <2>2. /\ work' = [work EXCEPT ![w] = [at |-> "status", order |-> o, next |-> next]]
        /\ UNCHANGED <<ordering, orders, pending, payout, history>>
    BY <1>2 DEF ReadStatus
  <2>. QED  BY <2>1, <2>2 DEF TypeOK, history, repeats, OrderIds, Tasks, Payouts
<1>3. ASSUME NEW w \in Workers, ReadExisting(w) PROVE TypeOK'
  <2>1. PICK t \in Tasks : work' = [work EXCEPT ![w] = t]
    <3>1. work[w].payment \in Payments
      BY <1>3, TaskFields DEF ReadExisting
    <3>2. Idle \in Tasks /\ \A o \in OrderIds :
            [at |-> "commit", payment |-> work[w].payment, order |-> o, row |-> orders[o]] \in Tasks
      BY <3>1, OrderIdsType DEF Tasks
    <3>3. [at |-> "commit", payment |-> work[w].payment, order |-> 0, row |-> NoOrder] \in Tasks
      BY <3>1 DEF Tasks
    <3>. QED  BY <1>3, <3>2, <3>3 DEF ReadExisting, Existing
  <2>2. UNCHANGED <<ordering, orders, pending, payout, history>>
    BY <1>3 DEF ReadExisting
  <2>. QED  BY <2>1, <2>2 DEF TypeOK, history, repeats, OrderIds, Tasks, Payouts
<1>4. ASSUME NEW w \in Workers, CommitOrder(w) PROVE TypeOK'
  <2>. DEFINE p == work[w].payment
              old == work[w].order
  <2>p. p \in Payments /\ Price[p] \in Nat /\ PayerOf[p] \in Members
    BY <1>4, TaskFields DEF CommitOrder
  <2>1. /\ orders' \in Seq(Order) /\ OrderIds \subseteq OrderIds'
        /\ confirms' \in [OrderIds' -> Nat] /\ sent' \in [OrderIds' -> Nat]
        /\ [at |-> "complete", payment |-> p,
             order |-> IF old = 0 THEN Len(orders) + 1 ELSE old] \in Tasks'
    <3>1. CASE old = 0
      <4>. DEFINE new == [member |-> PayerOf[p], amount |-> Price[p], items |-> Price[p],
                          status |-> "payment_received", confirmed |-> FALSE]
      <4>1. new \in Order
        BY <2>p DEF Order, Statuses
      <4>2. /\ orders' = Append(orders, new)
            /\ confirms' = Append(confirms, 0) /\ sent' = Append(sent, 0)
        BY <1>4, <3>1 DEF CommitOrder
      <4>. HIDE DEF new
      <4>3. orders' \in Seq(Order) /\ Len(orders') = Len(orders) + 1
        BY <4>1, <4>2 DEF TypeOK
      <4>4. OrderIds' = 1..(Len(orders) + 1)
        BY <4>3 DEF OrderIds
      <4>5. /\ confirms' \in Seq(Nat) /\ Len(confirms') = Len(orders) + 1
            /\ sent' \in Seq(Nat) /\ Len(sent') = Len(orders) + 1
        BY <4>2, OrderIdsType
      <4>6. confirms' \in [OrderIds' -> Nat] /\ sent' \in [OrderIds' -> Nat]
        BY <4>4, <4>5
      <4>7. OrderIds \subseteq OrderIds' /\ Len(orders) + 1 \in OrderIds'
        BY <4>4, OrderIdsType
      <4>. QED  BY <2>p, <3>1, <4>3, <4>6, <4>7 DEF Tasks
    <3>2. CASE old # 0
      <4>1. old \in OrderIds /\ work[w].row \in Order
        BY <1>4, <3>2, TaskFields DEF CommitOrder
      <4>2. orders[old].items \in Nat
        BY <4>1, OrderIdsType DEF Order
      <4>3. ToppedUp(work[w].row, orders[old].items, Price[p]) \in Order
        <5>1. /\ work[w].row.amount + Price[p] \in Nat /\ orders[old].items + Price[p] \in Nat
              /\ "payment_received" \in Statuses
          BY <2>p, <4>1, <4>2 DEF Order, Statuses
        <5>. HIDE DEF p, old
        <5>. QED  BY <4>1, <5>1, RowTyped DEF ToppedUp
      <4>4. /\ orders' = [orders EXCEPT ![old] =
                 ToppedUp(work[w].row, orders[old].items, Price[p])]
            /\ UNCHANGED <<confirms, sent>>
        BY <1>4, <3>2 DEF CommitOrder
      <4>5. orders' \in Seq(Order) /\ OrderIds' = OrderIds
        BY <4>1, <4>3, <4>4, RowUpdated
      <4>. QED  BY <2>p, <3>2, <4>1, <4>4, <4>5 DEF Tasks, TypeOK
    <3>. QED  BY <3>1, <3>2
  <2>2. /\ work' = [work EXCEPT ![w] = [at |-> "complete", payment |-> p,
              order |-> IF old = 0 THEN Len(orders) + 1 ELSE old]]
        /\ saved' = [saved EXCEPT ![p] = @ + 1]
        /\ UNCHANGED <<ordering, pending, payout, overlapped, unrecorded, aborts, crashes>>
    BY <1>4 DEF CommitOrder
  <2>. HIDE DEF p, old
  <2>3. work' \in [Workers -> Tasks'] /\ payout' \in [Processors -> Payouts']
    BY <2>1, <2>2, MoreOrders DEF TypeOK
  <2>4. pending' \in [Payments -> {0} \cup OrderIds'] /\ saved' \in [Payments -> Nat]
    BY <2>1, <2>2, <2>p DEF TypeOK
  <2>. QED  BY <2>1, <2>2, <2>3, <2>4 DEF TypeOK
<1>5. ASSUME NEW w \in Workers, CompletePayment(w) PROVE TypeOK'
  <2>1. work[w].payment \in Payments /\ work[w].order \in OrderIds
    BY <1>5, TaskFields DEF CompletePayment
  <2>2. /\ work' = [work EXCEPT ![w] = Idle]
        /\ UNCHANGED <<ordering, orders, payout, saved, overlapped, confirms, sent,
                        aborts, crashes>>
    BY <1>5 DEF CompletePayment
  <2>3. Idle \in Tasks
    BY DEF Tasks
  <2>4. pending' \in [Payments -> {0} \cup OrderIds]
    BY <1>5, <2>1 DEF CompletePayment, TypeOK
  <2>5. unrecorded' \in [Payments -> Nat]
    <3>1. unrecorded \in [Payments -> Nat]
      BY DEF TypeOK
    <3>2. \/ unrecorded' = unrecorded
          \/ unrecorded' = [unrecorded EXCEPT ![work[w].payment] = @ + 1]
      BY <1>5 DEF CompletePayment
    <3>. QED  BY ONLY <2>1, <3>1, <3>2
  <2>. QED  BY <2>2, <2>3, <2>4, <2>5 DEF TypeOK, OrderIds, Tasks, Payouts
<1>6. ASSUME NEW w \in Workers, WriteStatus(w) PROVE TypeOK'
  <2>. DEFINE o == work[w].order
              next == work[w].next
  <2>1. o \in OrderIds /\ next \in Statuses
    BY <1>6, TaskFields DEF WriteStatus
  <2>2. /\ orders' = [orders EXCEPT ![o] =
             [orders[o] EXCEPT !.status = next,
                               !.confirmed = @ \/ SetsConfirmedAt(next)]]
        /\ confirms' = (IF next = "ready_for_payout" THEN [confirms EXCEPT ![o] = @ + 1]
                         ELSE confirms)
        /\ work' = [work EXCEPT ![w] = Idle]
        /\ UNCHANGED <<ordering, pending, payout, saved, overlapped, unrecorded, sent, aborts, crashes>>
    <3>1. orders' = [orders EXCEPT ![o].status = next,
                                   ![o].confirmed = @ \/ SetsConfirmedAt(next)]
      BY <1>6 DEF WriteStatus
    <3>2. o \in DOMAIN orders
      BY <2>1 DEF OrderIds
    <3>. QED  BY <1>6, <2>1, <3>1, <3>2, OrderIdsType DEF WriteStatus, repeats
  <2>. HIDE DEF o, next
  <2>3. [orders[o] EXCEPT !.status = next, !.confirmed = @ \/ SetsConfirmedAt(next)] \in Order
    <3>1. orders[o] \in Order /\ (orders[o].confirmed \/ SetsConfirmedAt(next)) \in BOOLEAN
      BY <2>1, OrderIdsType DEF Order, SetsConfirmedAt
    <3>. QED  BY <2>1, <3>1, RowTyped
  <2>4. orders' \in Seq(Order) /\ OrderIds' = OrderIds
    BY <2>1, <2>2, <2>3, RowUpdated
  <2>5. confirms' \in [OrderIds -> Nat]
    BY <2>1, <2>2 DEF TypeOK
  <2>6. Idle \in Tasks /\ Tasks' = Tasks /\ Payouts' = Payouts
    BY <2>4 DEF Tasks, Payouts
  <2>. QED  BY <2>2, <2>4, <2>5, <2>6 DEF TypeOK
<1>7. ASSUME NEW q \in Processors, NEW batch \in SUBSET OrderIds, LoadBatch(q, batch)
      PROVE  TypeOK'
  <2>1. [at |-> "transfer", batch |-> batch] \in Payouts
    BY DEF Payouts
  <2>2. /\ payout' = [payout EXCEPT ![q] = [at |-> "transfer", batch |-> batch]]
        /\ UNCHANGED <<ordering, orders, pending, work, history>>
    BY <1>7 DEF LoadBatch
  <2>. QED  BY <2>1, <2>2 DEF TypeOK, history, repeats, OrderIds, Tasks, Payouts
<1>8. ASSUME NEW q \in Processors, TransferFails(q) PROVE TypeOK'
  <2>1. Idle \in Payouts
    BY DEF Payouts
  <2>. QED  BY <1>8, <2>1 DEF TransferFails, TypeOK, history, repeats, OrderIds, Tasks, Payouts
<1>9. ASSUME NEW q \in Processors, SendNativeTransfer(q) PROVE TypeOK'
  <2>. DEFINE b == payout[q].batch
  <2>1. b \in SUBSET OrderIds /\ payout[q] = [at |-> "transfer", batch |-> b]
    BY <1>9, PayoutFields DEF SendNativeTransfer
  <2>2. payout' = [payout EXCEPT ![q].at = "mark"]
    BY <1>9 DEF SendNativeTransfer
  <2>3. payout' = [payout EXCEPT ![q] = [at |-> "mark", batch |-> b]]
    <3>1. payout' = [payout EXCEPT ![q] = [payout[q] EXCEPT !.at = "mark"]]
      BY <2>2
    <3>2. [payout[q] EXCEPT !.at = "mark"] = [at |-> "mark", batch |-> b]
      BY <2>1
    <3>. QED  BY <3>1, <3>2
  <2>4. [at |-> "mark", batch |-> b] \in Payouts
    BY <2>1 DEF Payouts
  <2>5. /\ sent' = [o \in OrderIds |-> sent[o] + (IF o \in payout[q].batch THEN 1 ELSE 0)]
        /\ UNCHANGED <<ordering, orders, pending, work, saved, overlapped, unrecorded, confirms,
                        aborts, crashes>>
    BY <1>9 DEF SendNativeTransfer, SentWith, repeats
  <2>6. sent' \in [OrderIds -> Nat]
    BY <2>5 DEF TypeOK
  <2>. QED  BY <2>3, <2>4, <2>5, <2>6 DEF TypeOK, OrderIds, Tasks, Payouts
<1>10. ASSUME NEW q \in Processors, NEW o \in OrderIds, CheckReady(q, o) PROVE TypeOK'
  <2>1. payout[q].batch \subseteq OrderIds
    BY <1>10, PayoutFields DEF CheckReady
  <2>2. PICK y \in Payouts : payout' = [payout EXCEPT ![q] = y]
    BY <1>10, <2>1 DEF CheckReady, Payouts, RestOf
  <2>3. /\ aborts' \in Nat
        /\ UNCHANGED <<ordering, orders, pending, work, saved, overlapped, unrecorded, confirms,
                        sent, crashes>>
    BY <1>10 DEF CheckReady, TypeOK, repeats
  <2>. QED  BY <2>2, <2>3 DEF TypeOK, OrderIds, Tasks, Payouts
<1>11. ASSUME NEW q \in Processors, MarkPaid(q) PROVE TypeOK'
  <2>1. payout[q].batch \subseteq OrderIds /\ payout[q].order \in OrderIds
    BY <1>11, PayoutFields DEF MarkPaid
  <2>2. /\ orders' = [orders EXCEPT ![payout[q].order] =
                         [orders[payout[q].order] EXCEPT !.status = "platform_paid"]]
        /\ payout' = [payout EXCEPT ![q] = RestOf(payout[q].batch)]
        /\ UNCHANGED <<ordering, pending, work, history>>
    BY <1>11 DEF MarkPaid
  <2>3. [orders[payout[q].order] EXCEPT !.status = "platform_paid"] \in Order
    <3>1. orders[payout[q].order] \in Order /\ "platform_paid" \in Statuses
      BY <2>1, OrderIdsType DEF Statuses
    <3>. QED  BY <3>1, RowTyped
  <2>4. orders' \in Seq(Order) /\ OrderIds' = OrderIds
    BY <2>1, <2>2, <2>3, RowUpdated
  <2>5. RestOf(payout[q].batch) \in Payouts
    BY <2>1 DEF RestOf, Payouts
  <2>6. Tasks' = Tasks /\ Payouts' = Payouts
    BY <2>4 DEF Tasks, Payouts
  <2>. QED  BY <2>2, <2>4, <2>5, <2>6 DEF TypeOK, history, repeats
<1>12. ASSUME CloseOrdering PROVE TypeOK'
  BY <1>12 DEF CloseOrdering, TypeOK, history, repeats, OrderIds, Tasks, Payouts
<1>13. ASSUME Crash PROVE TypeOK'
  <2>1. Idle \in Tasks /\ Idle \in Payouts
    BY DEF Tasks, Payouts
  <2>2. unrecorded' \in [Payments -> Nat]
    BY <1>13, RequestsFinite DEF Crash, TypeOK
  <2>. QED  BY <1>13, <2>1, <2>2 DEF Crash, TypeOK, OrderIds, Tasks, Payouts
<1>14. ASSUME UNCHANGED vars PROVE TypeOK'
  BY <1>14 DEF vars, TypeOK, history, repeats, OrderIds, Tasks, Payouts
<1>15. ASSUME NEW q \in Processors, TransferUnknown(q) PROVE TypeOK'
  <2>1. /\ payout' = [payout EXCEPT ![q] = Idle] /\ aborts' = aborts + 1
        /\ sent' = [o \in OrderIds |-> sent[o] + (IF o \in payout[q].batch THEN 1 ELSE 0)]
        /\ UNCHANGED <<ordering, orders, pending, work, saved, overlapped, unrecorded, confirms,
                        crashes>>
    BY <1>15 DEF TransferUnknown, SentWith, repeats
  <2>2. Idle \in Payouts /\ sent' \in [OrderIds -> Nat]
    BY <2>1 DEF Payouts, TypeOK
  <2>. QED  BY <2>1, <2>2 DEF TypeOK, OrderIds, Tasks, Payouts
<1>. QED  BY <1>1, <1>2, <1>3, <1>4, <1>5, <1>6, <1>7, <1>8, <1>9, <1>10, <1>11, <1>12,
             <1>13, <1>14, <1>15 DEF Next, HandlerStep, PayoutStep

(* Every order, request and payout the handlers build is well typed: a top- *)
(* up or a status change never leaves a row, or a task holding a row read   *)
(* earlier, that is not an order of this round (SaveOrder, processAdmin-    *)
(* Payouts, RunAutoPayoutProcessor).                                        *)
THEOREM TypeCorrect == Spec => []TypeOK
<1>. QED  BY InitTyped, StepTyped, PTL DEF Spec
-----------------------------------------------------------------------------
LEMMA OneMore ==
  ASSUME NEW n \in Nat, NEW k \in Nat
  PROVE  n * (k + 1) = n * k + n /\ n * k \in Nat
  OBVIOUS

(* There are never more senders than processes.                             *)
LEMMA SendersBounded ==
  ASSUME NEW o
  PROVE  /\ NProcessors \in Nat
         /\ IsFiniteSet(Senders(o)) /\ Cardinality(Senders(o)) \in Nat
         /\ Cardinality(Senders(o)) <= NProcessors
         /\ IsFiniteSet(Senders(o)') /\ Cardinality(Senders(o))' \in Nat
         /\ Cardinality(Senders(o))' <= NProcessors
<1>1. Senders(o) \subseteq Processors /\ Senders(o)' \subseteq Processors
  BY DEF Senders
<1>2. IsFiniteSet(Processors)
  BY OrderAssumption
<1>. QED  BY <1>1, <1>2, FS_Subset, FS_CardinalityType DEF NProcessors

LEMMA CountersType ==
  ASSUME TypeOK, NEW o \in OrderIds
  PROVE  confirms[o] \in Nat /\ sent[o] \in Nat /\ aborts \in Nat /\ crashes \in Nat
  BY OrderAssumption DEF TypeOK

(* The allowance holds after a step that makes no transfer for the order    *)
(* and no new sender of it.                                                 *)
LEMMA NoNewSender ==
  ASSUME TypeOK, NEW o \in OrderIds, WithinAllowance(o),
         Senders(o)' \subseteq Senders(o), sent'[o] = sent[o],
         confirms'[o] = confirms[o], aborts' = aborts, crashes' = crashes
  PROVE  WithinAllowance(o)'
<1>1. Cardinality(Senders(o))' <= Cardinality(Senders(o))
  BY SendersBounded, FS_Subset
<1>2. Allowed(o)' = Allowed(o)
  BY DEF Allowed, NProcessors
<1>3. Allowed(o) \in Nat
  <2>1. confirms[o] + aborts + crashes \in Nat
    BY CountersType
  <2>. QED  BY <2>1, SendersBounded, OneMore DEF Allowed
<1>. QED  BY <1>1, <1>2, <1>3, SendersBounded, CountersType DEF WithinAllowance

(* It holds after a step that raises one of the three counters: every       *)
(* process may become a sender.                                             *)
LEMMA OneMoreReason ==
  ASSUME TypeOK, NEW o \in OrderIds, WithinAllowance(o), sent'[o] = sent[o],
         confirms'[o] + aborts' + crashes' = confirms[o] + aborts + crashes + 1
  PROVE  WithinAllowance(o)'
<1>. DEFINE k == confirms[o] + aborts + crashes
<1>1. k \in Nat
  BY CountersType
<1>2. Allowed(o) = NProcessors * k /\ Allowed(o)' = NProcessors * (k + 1)
  BY DEF Allowed, NProcessors
<1>3. Allowed(o)' = Allowed(o) + NProcessors /\ Allowed(o) \in Nat
  BY <1>1, <1>2, SendersBounded, OneMore
<1>. QED  BY <1>3, SendersBounded, CountersType DEF WithinAllowance

(* It holds after a transfer, which its sender will not repeat.             *)
LEMMA OneSent ==
  ASSUME TypeOK, NEW o \in OrderIds, WithinAllowance(o), NEW q \in Senders(o),
         Senders(o)' \subseteq Senders(o) \ {q}, sent'[o] = sent[o] + 1,
         confirms'[o] = confirms[o], aborts' = aborts, crashes' = crashes
  PROVE  WithinAllowance(o)'
<1>1. /\ IsFiniteSet(Senders(o) \ {q})
      /\ Cardinality(Senders(o) \ {q}) = Cardinality(Senders(o)) - 1
  BY SendersBounded, FS_RemoveElement
<1>2. Cardinality(Senders(o))' <= Cardinality(Senders(o)) - 1
  BY <1>1, FS_Subset
<1>3. Allowed(o)' = Allowed(o)
  BY DEF Allowed, NProcessors
<1>4. Allowed(o) \in Nat
  <2>1. confirms[o] + aborts + crashes \in Nat
    BY CountersType
  <2>. QED  BY <2>1, SendersBounded, OneMore DEF Allowed
<1>. QED  BY <1>2, <1>3, <1>4, SendersBounded, CountersType DEF WithinAllowance
(* A payout that does not move gains no order, and becomes no sender of one *)
(* that was not ready before.                                               *)
LEMMA SamePayout ==
  ASSUME NEW q, NEW o, payout'[q] = payout[q], o \in ReadyOrders' => o \in ReadyOrders
  PROVE  (InHand(q, o)' <=> InHand(q, o)) /\ (MaySend(q, o)' => MaySend(q, o))
<1>1. InHand(q, o)' <=> InHand(q, o)
  BY DEF InHand
<1>. QED  BY <1>1 DEF MaySend

(* What an order needs of a step that moves none of its counters.           *)
LEMMA Quiet ==
  ASSUME TypeOK, NEW o \in OrderIds, ConfirmedFirst(o), WithinAllowance(o),
         o \in ReadyOrders' => o \in ReadyOrders,
         \A q \in Processors : /\ InHand(q, o)' => InHand(q, o) \/ o \in ReadyOrders
                               /\ MaySend(q, o)' => MaySend(q, o),
         sent'[o] = sent[o], confirms'[o] = confirms[o],
         aborts' = aborts, crashes' = crashes
  PROVE  ConfirmedFirst(o)' /\ WithinAllowance(o)'
<1>1. ConfirmedFirst(o)'
  BY DEF ConfirmedFirst
<1>2. Senders(o)' \subseteq Senders(o)
  BY DEF Senders
<1>. QED  BY <1>1, <1>2, NoNewSender

(* The processes that do not take the step need no attention.               *)
LEMMA QuietBut ==
  ASSUME TypeOK, NEW o \in OrderIds, ConfirmedFirst(o), WithinAllowance(o),
         o \in ReadyOrders' => o \in ReadyOrders,
         NEW q \in Processors, \A r \in Processors \ {q} : payout'[r] = payout[r],
         InHand(q, o)' => InHand(q, o) \/ o \in ReadyOrders,
         MaySend(q, o)' => MaySend(q, o),
         sent'[o] = sent[o], confirms'[o] = confirms[o],
         aborts' = aborts, crashes' = crashes
  PROVE  ConfirmedFirst(o)' /\ WithinAllowance(o)'
<1>1. ASSUME NEW r \in Processors
      PROVE  /\ InHand(r, o)' => InHand(r, o) \/ o \in ReadyOrders
             /\ MaySend(r, o)' => MaySend(r, o)
  BY SamePayout
<1>. QED  BY <1>1, Quiet

LEMMA QuietHandlers ==
  ASSUME TypeOK, NEW o \in OrderIds, ConfirmedFirst(o), WithinAllowance(o),
         o \in ReadyOrders' => o \in ReadyOrders, payout' = payout,
         sent'[o] = sent[o], confirms'[o] = confirms[o],
         aborts' = aborts, crashes' = crashes
  PROVE  ConfirmedFirst(o)' /\ WithinAllowance(o)'
<1>1. ASSUME NEW r \in Processors
      PROVE  /\ InHand(r, o)' => InHand(r, o) \/ o \in ReadyOrders
             /\ MaySend(r, o)' => MaySend(r, o)
  BY SamePayout
<1>. QED  BY <1>1, Quiet

(* Nobody has an order in hand before it exists.                            *)
LEMMA NotInHandYet ==
  ASSUME TypeOK, NEW q \in Processors, NEW o, o \notin OrderIds
  PROVE  ~InHand(q, o)
  BY PayoutFields DEF InHand

LEMMA InitPayouts == Init => PayoutInv
<1>. SUFFICES ASSUME Init PROVE OrderIds = {}
  BY DEF PayoutInv
<1>. QED  BY DEF Init, OrderIds

(* Each action keeps the payouts confirmed and within their allowance.      *)
LEMMA StepPayouts == TypeOK /\ PayoutInv /\ [Next]_vars => PayoutInv'
<1>. SUFFICES ASSUME TypeOK, PayoutInv, [Next]_vars, NEW o \in OrderIds'
              PROVE  ConfirmedFirst(o)' /\ WithinAllowance(o)'
  BY DEF PayoutInv
<1>. USE OrderAssumption
<1>inv. o \in OrderIds => ConfirmedFirst(o) /\ WithinAllowance(o)
  BY DEF PayoutInv
<1>same. ASSUME UNCHANGED <<orders, payout, confirms, sent, aborts, crashes>>
         PROVE  ConfirmedFirst(o)' /\ WithinAllowance(o)'
  BY <1>inv, <1>same, QuietHandlers DEF OrderIds, ReadyOrders
<1>1. ASSUME NEW w \in Workers, NEW p \in Payments, FinalizeOrder(w, p)
      PROVE  ConfirmedFirst(o)' /\ WithinAllowance(o)'
  BY <1>same, <1>1 DEF FinalizeOrder
<1>2. ASSUME NEW w \in Workers, NEW x \in OrderIds, NEW next \in Statuses,
             ReadStatus(w, x, next)
      PROVE  ConfirmedFirst(o)' /\ WithinAllowance(o)'
  BY <1>same, <1>2 DEF ReadStatus, history, repeats
<1>3. ASSUME NEW w \in Workers, ReadExisting(w)
      PROVE  ConfirmedFirst(o)' /\ WithinAllowance(o)'
  BY <1>same, <1>3 DEF ReadExisting, history, repeats
<1>4. ASSUME NEW w \in Workers, CommitOrder(w)
      PROVE  ConfirmedFirst(o)' /\ WithinAllowance(o)'
  <2>u. payout' = payout /\ aborts' = aborts /\ crashes' = crashes
    BY <1>4 DEF CommitOrder
  <2>1. CASE work[w].order = 0
    <3>. DEFINE p == work[w].payment
                new == [member |-> PayerOf[p], amount |-> Price[p], items |-> Price[p],
                        status |-> "payment_received", confirmed |-> FALSE]
    <3>1. /\ orders' = Append(orders, new)
          /\ confirms' = Append(confirms, 0) /\ sent' = Append(sent, 0)
      BY <1>4, <2>1 DEF CommitOrder
    <3>2. new.status = "payment_received"
      OBVIOUS
    <3>. HIDE DEF new, p
    <3>3. /\ \A x \in OrderIds : /\ orders'[x] = orders[x]
                                 /\ confirms'[x] = confirms[x] /\ sent'[x] = sent[x]
          /\ OrderIds' = 1..(Len(orders) + 1) /\ orders'[Len(orders) + 1] = new
          /\ confirms'[Len(orders) + 1] = 0 /\ sent'[Len(orders) + 1] = 0
      <4>1. /\ orders \in Seq(Order) /\ confirms \in Seq(Nat) /\ sent \in Seq(Nat)
            /\ Len(confirms) = Len(orders) /\ Len(sent) = Len(orders)
            /\ Len(orders) \in Nat /\ OrderIds = 1..Len(orders)
        <5>1. orders \in Seq(Order) /\ Len(orders) \in Nat /\ OrderIds = 1..Len(orders)
          BY OrderIdsType DEF TypeOK, OrderIds
        <5>2. confirms \in [1..Len(orders) -> Nat] /\ sent \in [1..Len(orders) -> Nat]
          BY <5>1 DEF TypeOK
        <5>3. confirms \in Seq(Nat) /\ sent \in Seq(Nat)
          <6>1. \A n \in Nat : [1..n -> Nat] \subseteq Seq(Nat)
            OBVIOUS
          <6>. QED  BY ONLY <5>1, <5>2, <6>1
        <5>4. Len(confirms) = Len(orders) /\ Len(sent) = Len(orders)
          <6>1. DOMAIN confirms = 1..Len(confirms) /\ DOMAIN sent = 1..Len(sent)
                /\ Len(confirms) \in Nat /\ Len(sent) \in Nat
            BY <5>3, LenProperties
          <6>. QED  BY <5>1, <5>2, <6>1
        <5>. QED  BY <5>1, <5>3, <5>4
      <4>2. /\ DOMAIN orders' = 1..(Len(orders) + 1) /\ orders'[Len(orders) + 1] = new
            /\ \A x \in 1..Len(orders) : orders'[x] = orders[x]
        BY <3>1, <4>1
      <4>3. confirms'[Len(orders) + 1] = 0 /\ \A x \in 1..Len(orders) : confirms'[x] = confirms[x]
        BY <3>1, <4>1, AppendProperties
      <4>4. sent'[Len(orders) + 1] = 0 /\ \A x \in 1..Len(orders) : sent'[x] = sent[x]
        BY <3>1, <4>1, AppendProperties
      <4>. QED  BY <4>1, <4>2, <4>3, <4>4 DEF OrderIds
    <3>4. CASE o \in OrderIds
      <4>1. o \in ReadyOrders' => o \in ReadyOrders
        BY <3>3, <3>4 DEF ReadyOrders
      <4>. QED  BY <1>inv, <2>u, <3>3, <3>4, <4>1, QuietHandlers
    <3>5. CASE o \notin OrderIds
      <4>1. o = Len(orders) + 1
        BY <3>3, <3>5, OrderIdsType
      <4>2. o \notin ReadyOrders' /\ confirms'[o] = 0 /\ sent'[o] = 0
        BY <3>2, <3>3, <4>1 DEF ReadyOrders
      <4>3. ASSUME NEW q \in Processors PROVE ~InHand(q, o)' /\ ~MaySend(q, o)'
        <5>1. ~InHand(q, o)'
          <6>1. ~InHand(q, o)
            BY <3>5, NotInHandYet
          <6>. QED  BY <2>u, <6>1 DEF InHand
        <5>. QED  BY <4>2, <5>1 DEF InHand, MaySend
      <4>4. ConfirmedFirst(o)'
        BY <4>2, <4>3 DEF ConfirmedFirst
      <4>5. Senders(o)' = {}
        BY <4>3 DEF Senders
      <4>6. Allowed(o)' = NProcessors * (aborts + crashes)
        BY <2>u, <4>2, CountersType DEF Allowed, NProcessors, TypeOK
      <4>7. Allowed(o)' \in Nat
        <5>1. aborts + crashes \in Nat
          <6>1. aborts \in Nat /\ crashes \in 0..MaxCrashes
            BY DEF TypeOK
          <6>2. MaxCrashes \in Nat
            BY OrderAssumption
          <6>. QED  BY ONLY <6>1, <6>2
        <5>2. NProcessors \in Nat
          BY SendersBounded
        <5>3. NProcessors * (aborts + crashes) \in Nat
          BY ONLY <5>1, <5>2, OneMore
        <5>. QED  BY <4>6, <5>3
      <4>8. Cardinality(Senders(o))' = 0
        BY <4>5, FS_EmptySet
      <4>. QED  BY <4>2, <4>4, <4>7, <4>8 DEF WithinAllowance
    <3>. QED  BY <3>4, <3>5
  <2>2. CASE work[w].order # 0
    <3>1. orders' = [orders EXCEPT ![work[w].order] =
            ToppedUp(work[w].row, orders[work[w].order].items, Price[work[w].payment])]
      BY <1>4, <2>2 DEF CommitOrder
    <3>2. UNCHANGED <<confirms, sent>>
      BY <1>4, <2>2 DEF CommitOrder
    <3>3. OrderIds' = OrderIds
      BY <3>1 DEF OrderIds
    <3>4. work[w].row \in Order
      BY <1>4, <2>2, TaskFields DEF CommitOrder
    <3>5. \A i, a : ToppedUp(work[w].row, i, a).status = "payment_received"
      BY <3>4 DEF ToppedUp, Order
    <3>6. o \in ReadyOrders' => o \in ReadyOrders
      BY <3>1, <3>3, <3>5 DEF ReadyOrders, OrderIds
    <3>. QED  BY <1>inv, <2>u, <3>2, <3>3, <3>6, QuietHandlers
  <2>. QED  BY <2>1, <2>2
<1>5. ASSUME NEW w \in Workers, CompletePayment(w)
      PROVE  ConfirmedFirst(o)' /\ WithinAllowance(o)'
  BY <1>same, <1>5 DEF CompletePayment, history, repeats
<1>6. ASSUME NEW w \in Workers, WriteStatus(w)
      PROVE  ConfirmedFirst(o)' /\ WithinAllowance(o)'
  <2>. DEFINE x == work[w].order
              next == work[w].next
  <2>1. x \in OrderIds
    BY <1>6, TaskFields DEF WriteStatus
  <2>2. /\ orders' = [orders EXCEPT ![x] =
             [orders[x] EXCEPT !.status = next, !.confirmed = @ \/ SetsConfirmedAt(next)]]
        /\ confirms' = (IF next = "ready_for_payout" THEN [confirms EXCEPT ![x] = @ + 1]
                         ELSE confirms)
        /\ UNCHANGED <<payout, sent, aborts, crashes>>
    <3>1. orders' = [orders EXCEPT ![x].status = next,
                                   ![x].confirmed = @ \/ SetsConfirmedAt(next)]
      BY <1>6 DEF WriteStatus
    <3>2. x \in DOMAIN orders
      BY <2>1 DEF OrderIds
    <3>. QED  BY <1>6, <2>1, <3>1, <3>2, OrderIdsType DEF WriteStatus
  <2>3. orders[x] \in Order
    BY <2>1, OrderIdsType
  <2>. HIDE DEF x, next
  <2>4. OrderIds' = OrderIds /\ o \in OrderIds
    BY <2>2 DEF OrderIds
  <2>5. orders'[x].status = next /\ (o # x => orders'[o] = orders[o])
    BY <2>1, <2>2, <2>3, <2>4 DEF OrderIds, Order
  <2>6. CASE o = x /\ next = "ready_for_payout"
    <3>1. confirms'[o] = confirms[o] + 1 /\ sent'[o] = sent[o]
      BY <2>2, <2>4, <2>6 DEF TypeOK
    <3>2. confirms[o] \in Nat /\ aborts \in Nat /\ crashes \in Nat
      BY <2>4, CountersType
    <3>3. ConfirmedFirst(o)'
      BY <3>1, <3>2 DEF ConfirmedFirst
    <3>4. confirms'[o] + aborts' + crashes' = confirms[o] + aborts + crashes + 1
      BY <2>2, <3>1, <3>2
    <3>. QED  BY <1>inv, <2>4, <3>1, <3>3, <3>4, OneMoreReason
  <2>7. CASE ~(o = x /\ next = "ready_for_payout")
    <3>1. o \in ReadyOrders' => o \in ReadyOrders
      BY <2>4, <2>5, <2>7 DEF ReadyOrders
    <3>2. confirms'[o] = confirms[o]
      BY <2>2, <2>4, <2>7 DEF TypeOK
    <3>. QED  BY <1>inv, <2>2, <2>4, <3>1, <3>2, QuietHandlers
  <2>. QED  BY <2>6, <2>7
<1>7. ASSUME NEW q \in Processors, NEW batch \in SUBSET OrderIds, LoadBatch(q, batch)
      PROVE  ConfirmedFirst(o)' /\ WithinAllowance(o)'
  <2>1. /\ payout' = [payout EXCEPT ![q] = [at |-> "transfer", batch |-> batch]]
        /\ payout[q].at = "idle" /\ batch \subseteq ReadyOrders
        /\ UNCHANGED <<orders, confirms, sent, aborts, crashes>>
    BY <1>7 DEF LoadBatch, history, repeats
  <2>2. OrderIds' = OrderIds /\ ReadyOrders' = ReadyOrders
    BY <2>1 DEF OrderIds, ReadyOrders
  <2>3. payout'[q] = [at |-> "transfer", batch |-> batch]
    BY <2>1 DEF TypeOK
  <2>4. (InHand(q, o)' <=> o \in batch) /\ ~InHand(q, o)
    BY <2>1, <2>3 DEF InHand
  <2>5. MaySend(q, o)' => MaySend(q, o)
    BY <2>1, <2>2, <2>3, <2>4 DEF MaySend
  <2>6. \A r \in Processors \ {q} : payout'[r] = payout[r]
    BY <2>1 DEF TypeOK
  <2>. QED  BY <1>inv, <2>1, <2>2, <2>4, <2>5, <2>6, QuietBut
<1>8. ASSUME NEW q \in Processors, TransferFails(q)
      PROVE  ConfirmedFirst(o)' /\ WithinAllowance(o)'
  <2>1. /\ payout' = [payout EXCEPT ![q] = Idle] /\ payout[q].at = "transfer"
        /\ UNCHANGED <<orders, confirms, sent, aborts, crashes>>
    BY <1>8 DEF TransferFails, history, repeats
  <2>2. OrderIds' = OrderIds /\ ReadyOrders' = ReadyOrders
    BY <2>1 DEF OrderIds, ReadyOrders
  <2>3. payout'[q].at = "idle"
    BY <2>1 DEF TypeOK, Idle
  <2>4. ~InHand(q, o)' /\ (MaySend(q, o)' => MaySend(q, o))
    BY <2>1, <2>2, <2>3 DEF InHand, MaySend
  <2>5. \A r \in Processors \ {q} : payout'[r] = payout[r]
    BY <2>1 DEF TypeOK
  <2>. QED  BY <1>inv, <2>1, <2>2, <2>4, <2>5, QuietBut
<1>9. ASSUME NEW q \in Processors, SendNativeTransfer(q)
      PROVE  ConfirmedFirst(o)' /\ WithinAllowance(o)'
  <2>1. /\ payout' = [payout EXCEPT ![q].at = "mark"] /\ payout[q].at = "transfer"
        /\ sent' = [x \in OrderIds |-> sent[x] + (IF x \in payout[q].batch THEN 1 ELSE 0)]
        /\ UNCHANGED <<orders, confirms, aborts, crashes>>
    BY <1>9 DEF SendNativeTransfer, SentWith
  <2>2. OrderIds' = OrderIds /\ ReadyOrders' = ReadyOrders
    BY <2>1 DEF OrderIds, ReadyOrders
  <2>3. payout'[q].at = "mark" /\ payout'[q].batch = payout[q].batch
    <3>1. payout[q] = [at |-> "transfer", batch |-> payout[q].batch]
      BY <2>1, PayoutFields
    <3>2. payout' = [payout EXCEPT ![q] = [payout[q] EXCEPT !.at = "mark"]]
      BY <2>1
    <3>. QED  BY <3>1, <3>2 DEF TypeOK
  <2>4. (InHand(q, o)' <=> o \in payout[q].batch) /\ (InHand(q, o) <=> o \in payout[q].batch)
    BY <2>1, <2>3 DEF InHand
  <2>5. /\ MaySend(q, o)' <=> o \in ReadyOrders /\ o \notin payout[q].batch
        /\ o \in payout[q].batch => MaySend(q, o)
        /\ MaySend(q, o)' => MaySend(q, o)
    BY <2>1, <2>2, <2>3, <2>4 DEF MaySend
  <2>6. \A r \in Processors \ {q} : payout'[r] = payout[r]
    BY <2>1 DEF TypeOK
  <2>7. sent[o] \in Nat /\ o \in OrderIds
    BY <2>2, CountersType
  <2>8. CASE o \in payout[q].batch
    <3>1. sent'[o] = sent[o] + 1
      BY <2>1, <2>7, <2>8
    <3>2. q \in Senders(o) /\ Senders(o)' \subseteq Senders(o) \ {q}
      <4>1. ASSUME NEW r \in Processors \ {q} PROVE MaySend(r, o)' => MaySend(r, o)
        BY <2>2, <2>6, SamePayout
      <4>. QED  BY <2>5, <2>8, <4>1 DEF Senders
    <3>3. ConfirmedFirst(o)'
      <4>1. confirms[o] > 0
        BY <1>inv, <2>4, <2>7, <2>8 DEF ConfirmedFirst
      <4>. QED  BY <2>1, <4>1 DEF ConfirmedFirst
    <3>. QED  BY <1>inv, <2>1, <2>7, <3>1, <3>2, <3>3, OneSent
  <2>9. CASE o \notin payout[q].batch
    <3>1. sent'[o] = sent[o]
      BY <2>1, <2>7, <2>9
    <3>. QED  BY <1>inv, <2>1, <2>2, <2>4, <2>5, <2>6, <2>7, <3>1, QuietBut
  <2>. QED  BY <2>8, <2>9
<1>10. ASSUME NEW q \in Processors, NEW x \in OrderIds, CheckReady(q, x)
       PROVE  ConfirmedFirst(o)' /\ WithinAllowance(o)'
  <2>. DEFINE rest == payout[q].batch \ {x}
              y == IF x \in ReadyOrders THEN [at |-> "paid", batch |-> rest, order |-> x]
                   ELSE IF q = AutoPayout THEN RestOf(rest) ELSE Idle
  <2>1. /\ payout' = [payout EXCEPT ![q] = y]
        /\ payout[q].at = "mark" /\ x \in payout[q].batch
        /\ UNCHANGED <<orders, confirms, sent, crashes>>
    BY <1>10 DEF CheckReady
  <2>2. aborts' = (IF x \in ReadyOrders \/ q = AutoPayout THEN aborts ELSE aborts + 1)
    BY <1>10 DEF CheckReady
  <2>3. OrderIds' = OrderIds /\ ReadyOrders' = ReadyOrders /\ o \in OrderIds
    BY <2>1 DEF OrderIds, ReadyOrders
  <2>4. payout'[q] = y /\ \A r \in Processors \ {q} : payout'[r] = payout[r]
    BY <2>1 DEF TypeOK
  <2>5. InHand(q, o) <=> o \in payout[q].batch
    BY <2>1 DEF InHand
  <2>6. CASE x \in ReadyOrders \/ q = AutoPayout
    <3>1. InHand(q, o)' => InHand(q, o)
      BY <2>1, <2>4, <2>5, <2>6 DEF InHand, RestOf, Idle
    <3>2. InHand(q, o) => InHand(q, o)' \/ o \notin ReadyOrders
      BY <2>1, <2>4, <2>5, <2>6 DEF InHand, RestOf, Idle
    <3>3. payout'[q].at # "transfer"
      BY <2>4 DEF RestOf, Idle
    <3>4. MaySend(q, o)' => MaySend(q, o)
      BY <2>3, <3>2, <3>3 DEF MaySend
    <3>5. aborts' = aborts
      BY <2>2, <2>6
    <3>. QED  BY <1>inv, <2>1, <2>3, <2>4, <3>1, <3>4, <3>5, QuietBut
  <2>7. CASE ~(x \in ReadyOrders \/ q = AutoPayout)
    <3>1. payout'[q] = Idle /\ aborts' = aborts + 1
      BY <2>2, <2>4, <2>7
    <3>2. ~InHand(q, o)'
      BY <3>1 DEF InHand, Idle
    <3>3. ConfirmedFirst(o)'
      <4>1. \A r \in Processors : InHand(r, o)' => InHand(r, o)
        <5>1. \A r \in Processors \ {q} : InHand(r, o)' => InHand(r, o)
          BY <2>4 DEF InHand
        <5>. QED  BY <3>2, <5>1
      <4>. QED  BY <1>inv, <2>1, <2>3, <4>1 DEF ConfirmedFirst
    <3>4. confirms'[o] + aborts' + crashes' = confirms[o] + aborts + crashes + 1
      BY <2>1, <2>3, <3>1, CountersType
    <3>. QED  BY <1>inv, <2>1, <2>3, <3>3, <3>4, OneMoreReason
  <2>. QED  BY <2>6, <2>7
<1>11. ASSUME NEW q \in Processors, MarkPaid(q)
       PROVE  ConfirmedFirst(o)' /\ WithinAllowance(o)'
  <2>. DEFINE x == payout[q].order
  <2>1. /\ orders' = [orders EXCEPT ![x] = [orders[x] EXCEPT !.status = "platform_paid"]]
        /\ payout' = [payout EXCEPT ![q] = RestOf(payout[q].batch)] /\ payout[q].at = "paid"
        /\ UNCHANGED <<confirms, sent, aborts, crashes>>
    BY <1>11 DEF MarkPaid, history, repeats
  <2>2. x \in OrderIds /\ orders[x] \in Order
    BY <2>1, PayoutFields, OrderIdsType
  <2>3. OrderIds' = OrderIds /\ o \in OrderIds
    BY <2>1 DEF OrderIds
  <2>4. x \notin ReadyOrders' /\ (o \in ReadyOrders' => o \in ReadyOrders)
    BY <2>1, <2>2, <2>3 DEF ReadyOrders, OrderIds, Order
  <2>5. /\ payout'[q] = RestOf(payout[q].batch)
        /\ \A r \in Processors \ {q} : payout'[r] = payout[r]
    BY <2>1 DEF TypeOK
  <2>6. InHand(q, o) <=> o \in payout[q].batch \/ o = x
    BY <2>1 DEF InHand
  <2>. HIDE DEF x
  <2>7. (InHand(q, o)' <=> o \in payout[q].batch) /\ payout'[q].at # "transfer"
    BY <2>5 DEF InHand, RestOf, Idle
  <2>8. MaySend(q, o)' => MaySend(q, o)
    BY <2>4, <2>6, <2>7 DEF MaySend
  <2>. QED  BY <1>inv, <2>1, <2>3, <2>4, <2>5, <2>6, <2>7, <2>8, QuietBut
<1>12. ASSUME CloseOrdering PROVE ConfirmedFirst(o)' /\ WithinAllowance(o)'
  BY <1>same, <1>12 DEF CloseOrdering, history, repeats
<1>13. ASSUME Crash PROVE ConfirmedFirst(o)' /\ WithinAllowance(o)'
  <2>1. /\ payout' = [q \in Processors |-> Idle] /\ crashes' = crashes + 1
        /\ UNCHANGED <<orders, confirms, sent, aborts>>
    BY <1>13 DEF Crash
  <2>2. OrderIds' = OrderIds /\ ReadyOrders' = ReadyOrders /\ o \in OrderIds
    BY <2>1 DEF OrderIds, ReadyOrders
  <2>3. \A q \in Processors : ~InHand(q, o)'
    BY <2>1 DEF InHand, Idle
  <2>4. ConfirmedFirst(o)'
    BY <1>inv, <2>1, <2>2, <2>3 DEF ConfirmedFirst
  <2>5. confirms'[o] + aborts' + crashes' = confirms[o] + aborts + crashes + 1
    BY <2>1, <2>2, CountersType
  <2>. QED  BY <1>inv, <2>1, <2>2, <2>4, <2>5, OneMoreReason
<1>14. ASSUME UNCHANGED vars PROVE ConfirmedFirst(o)' /\ WithinAllowance(o)'
  BY <1>same, <1>14 DEF vars, history, repeats
<1>15. ASSUME NEW q \in Processors, TransferUnknown(q)
       PROVE  ConfirmedFirst(o)' /\ WithinAllowance(o)'
  <2>1. /\ payout' = [payout EXCEPT ![q] = Idle] /\ payout[q].at = "transfer"
        /\ sent' = [x \in OrderIds |-> sent[x] + (IF x \in payout[q].batch THEN 1 ELSE 0)]
        /\ aborts' = aborts + 1 /\ UNCHANGED <<orders, confirms, crashes>>
    BY <1>15 DEF TransferUnknown, SentWith
  <2>2. OrderIds' = OrderIds /\ ReadyOrders' = ReadyOrders /\ o \in OrderIds
    BY <2>1 DEF OrderIds, ReadyOrders
  <2>3. payout'[q] = Idle /\ \A r \in Processors \ {q} : payout'[r] = payout[r]
    BY <2>1 DEF TypeOK
  <2>4. (InHand(q, o) <=> o \in payout[q].batch) /\ ~InHand(q, o)'
    BY <2>1, <2>3 DEF InHand, Idle
  <2>5. /\ sent'[o] = sent[o] + (IF o \in payout[q].batch THEN 1 ELSE 0)
        /\ confirms'[o] + aborts' + crashes' = confirms[o] + aborts + crashes + 1
    BY <2>1, <2>2, CountersType
  <2>6. ConfirmedFirst(o)'
    <3>1. \A r \in Processors : InHand(r, o)' => InHand(r, o)
      BY <2>3, <2>4 DEF InHand
    <3>2. sent'[o] > 0 => sent[o] > 0 \/ InHand(q, o)
      BY <2>2, <2>4, <2>5, CountersType
    <3>. QED  BY <1>inv, <2>1, <2>2, <3>1, <3>2 DEF ConfirmedFirst
  <2>7. WithinAllowance(o)'
    <3>1. CASE o \notin payout[q].batch
      BY <1>inv, <2>2, <2>5, <3>1, CountersType, OneMoreReason
    <3>2. CASE o \in payout[q].batch
      <4>1. q \in Senders(o)
        BY <2>1, <3>2 DEF Senders, MaySend
      <4>2. Cardinality(Senders(o)) >= 1
        <5>1. Cardinality(Senders(o)) # 0
          BY <4>1, SendersBounded, FS_EmptySet
        <5>. QED  BY <5>1, SendersBounded
      <4>3. sent'[o] = sent[o] + 1 /\ sent[o] \in Nat
        BY <2>2, <2>5, <3>2, CountersType
      <4>. DEFINE k == confirms[o] + aborts + crashes
      <4>4. k \in Nat /\ Allowed(o) = NProcessors * k /\ Allowed(o)' = NProcessors * (k + 1)
        BY <2>2, <2>5, CountersType DEF Allowed, NProcessors
      <4>. HIDE DEF k
      <4>5. Allowed(o)' = Allowed(o) + NProcessors /\ Allowed(o) \in Nat
        BY <4>4, SendersBounded, OneMore
      <4>6. sent[o] + Cardinality(Senders(o)) <= Allowed(o)
        BY <1>inv, <2>2 DEF WithinAllowance
      <4>7. sent'[o] + Cardinality(Senders(o))' <= Allowed(o)'
        <5>1. sent[o] + 1 <= Allowed(o)
          BY <4>2, <4>3, <4>5, <4>6, SendersBounded
        <5>2. Cardinality(Senders(o))' <= NProcessors /\ Cardinality(Senders(o))' \in Nat
          BY SendersBounded
        <5>. QED  BY <4>3, <4>5, <5>1, <5>2, SendersBounded
      <4>. QED  BY <4>7 DEF WithinAllowance
    <3>. QED  BY <3>1, <3>2
  <2>. QED  BY <2>6, <2>7
<1>. QED  BY <1>1, <1>2, <1>3, <1>4, <1>5, <1>6, <1>7, <1>8, <1>9, <1>10, <1>11, <1>12,
             <1>13, <1>14, <1>15 DEF Next, HandlerStep, PayoutStep

(* The merchant is paid for an order only after its creator confirmed it,   *)
(* and however many payouts run at once, whatever they read before others   *)
(* wrote, no order is transferred more often than one payment per process   *)
(* for each confirmation, payout given up and crash (processAdminPayouts,   *)
(* RunAutoPayoutProcessor).                                                 *)
THEOREM PayoutsAreConfirmed == Spec => []PayoutsConfirmed
<1>1. TypeOK /\ PayoutInv => PayoutsConfirmed
  <2>. SUFFICES ASSUME TypeOK, PayoutInv, NEW o \in OrderIds
                PROVE  /\ sent[o] > 0 => confirms[o] > 0
                       /\ sent[o] <= Allowed(o)
    BY DEF PayoutsConfirmed, Allowed, NProcessors
  <2>1. ConfirmedFirst(o) /\ WithinAllowance(o)
    BY DEF PayoutInv
  <2>2. Allowed(o) \in Nat
    <3>1. confirms[o] + aborts + crashes \in Nat
      BY CountersType
    <3>. QED  BY <3>1, SendersBounded, OneMore DEF Allowed
  <2>. QED  BY <2>1, <2>2, SendersBounded, CountersType DEF ConfirmedFirst, WithinAllowance
<1>. QED  BY <1>1, InitTyped, StepTyped, InitPayouts, StepPayouts, PTL DEF Spec

-----------------------------------------------------------------------------
(* Payments: how often a retried one is added, and what the orders claim.   *)

(* As long as a payment is not recorded as completed, each time it was      *)
(* added is about to be recorded or was unrecorded; and those who are about to    *)
(* add it find room below the bound.                                        *)
RetriesLeft(p) ==
  /\ pending[p] = 0 => saved[p] <= unrecorded[p] + Cardinality(Completing(p))
  /\ saved[p] + Cardinality(Adding(p)) <= MayBeAdded(p)
RetryInv == \A p \in Payments : RetriesLeft(p)

(* A top-up that was read early may lower an amount, but never adds to it   *)
(* what was not paid: the items of an order are what all its payments       *)
(* bought, and no amount, in a row or read from one, exceeds them.          *)
AmountInv ==
  /\ \A o \in OrderIds : orders[o].amount <= orders[o].items
  /\ \A w \in Workers : work[w].at = "commit" /\ work[w].order # 0 =>
       work[w].row.amount <= orders[work[w].order].items
  /\ SumFunctionOnSet([o \in OrderIds |-> orders[o].items], OrderIds)
       = SumFunctionOnSet([p \in Payments |-> saved[p] * Price[p]], Payments)
-----------------------------------------------------------------------------
LEMMA BoundType ==
  ASSUME TypeOK, NEW p \in Payments
  PROVE  saved[p] \in Nat /\ unrecorded[p] \in Nat /\ MayBeAdded(p) \in Nat
<1>1. saved[p] \in Nat /\ unrecorded[p] \in Nat
  BY DEF TypeOK
<1>. QED  BY <1>1, RequestsFinite DEF MayBeAdded, NWorkers

(* The bound holds after a step that adds nothing and begins nothing.       *)
LEMMA NoNewRequest ==
  ASSUME TypeOK, NEW p \in Payments, RetriesLeft(p),
         Adding(p)' \subseteq Adding(p), Completing(p) \subseteq Completing(p)',
         pending'[p] = 0 => pending[p] = 0, saved'[p] = saved[p], unrecorded'[p] = unrecorded[p],
         p \in overlapped' <=> p \in overlapped
  PROVE  RetriesLeft(p)'
<1>1. /\ Cardinality(Adding(p))' <= Cardinality(Adding(p))
      /\ Cardinality(Completing(p)) <= Cardinality(Completing(p))'
  BY RequestsFinite, FS_Subset
<1>2. MayBeAdded(p)' = MayBeAdded(p)
  BY DEF MayBeAdded
<1>. QED  BY <1>1, <1>2, BoundType, RequestsFinite DEF RetriesLeft

(* The handlers that do not take the step stay where they are.              *)
LEMMA OtherRequests ==
  ASSUME TypeOK, NEW p, NEW w \in Workers, NEW t, work' = [work EXCEPT ![w] = t]
  PROVE  /\ work'[w] = t
         /\ Adding(p)' \ {w} = Adding(p) \ {w}
         /\ Completing(p)' \ {w} = Completing(p) \ {w}
<1>1. work'[w] = t /\ \A v \in Workers \ {w} : work'[v] = work[v]
  BY DEF TypeOK
<1>. QED  BY <1>1 DEF Adding, Completing

(* A handler that takes a step on something else than the payment.          *)
LEMMA OtherPayment ==
  ASSUME TypeOK, NEW p \in Payments, RetriesLeft(p), NEW w \in Workers, NEW t,
         work' = [work EXCEPT ![w] = t],
         t.at \in {"save", "commit"} => t.payment # p \/ w \in Adding(p),
         w \notin Completing(p),
         pending'[p] = 0 => pending[p] = 0, saved'[p] = saved[p], unrecorded'[p] = unrecorded[p],
         p \in overlapped' <=> p \in overlapped
  PROVE  RetriesLeft(p)'
<1>1. /\ work'[w] = t
      /\ Adding(p)' \ {w} = Adding(p) \ {w} /\ Completing(p)' \ {w} = Completing(p) \ {w}
  BY OtherRequests
<1>2. w \in Adding(p)' => w \in Adding(p)
  BY <1>1 DEF Adding
<1>3. Adding(p)' \subseteq Adding(p) /\ Completing(p) \subseteq Completing(p)'
  BY <1>1, <1>2
<1>. QED  BY <1>3, NoNewRequest

LEMMA InitRetries == Init => RetryInv
<1>. SUFFICES ASSUME Init, NEW p \in Payments PROVE RetriesLeft(p)
  BY DEF RetryInv
<1>1. saved[p] = 0 /\ unrecorded[p] = 0 /\ p \notin overlapped
  BY DEF Init
<1>2. Adding(p) = {}
  BY DEF Init, Adding, Idle
<1>3. Cardinality(Adding(p)) = 0
  BY <1>2, FS_EmptySet
<1>. QED  BY <1>1, <1>3, RequestsFinite DEF RetriesLeft, MayBeAdded

(* A request for a payment that is not recorded as completed.               *)
LEMMA RequestAdmitted ==
  ASSUME TypeOK, NEW p \in Payments, RetriesLeft(p), NEW w \in Workers, FinalizeOrder(w, p)
  PROVE  RetriesLeft(p)'
<1>1. /\ work' = [work EXCEPT ![w] = [at |-> "save", payment |-> p]]
      /\ work[w].at = "idle" /\ pending[p] = 0
      /\ UNCHANGED <<pending, saved, unrecorded>>
  BY DEF FinalizeOrder, AlreadyCompleted
<1>2. /\ work'[w] = [at |-> "save", payment |-> p]
      /\ Adding(p)' \ {w} = Adding(p) \ {w} /\ Completing(p)' \ {w} = Completing(p) \ {w}
  BY <1>1, OtherRequests
<1>3. w \notin Adding(p) /\ w \notin Completing(p) /\ w \in Adding(p)' /\ w \notin Completing(p)'
  BY <1>1, <1>2 DEF Adding, Completing
<1>4. Adding(p)' = Adding(p) \cup {w} /\ Completing(p)' = Completing(p)
  BY <1>2, <1>3
<1>5. saved[p] <= unrecorded[p] + Cardinality(Completing(p))
  BY <1>1 DEF RetriesLeft
<1>6. saved'[p] <= unrecorded'[p] + Cardinality(Completing(p))'
  BY <1>1, <1>4, <1>5
<1>7. CASE Adding(p) \cup Completing(p) = {}
  <2>1. Cardinality(Adding(p))' = 1 /\ Cardinality(Completing(p)) = 0
    <3>1. Adding(p)' = {w} /\ Completing(p) = {}
      BY <1>4, <1>7
    <3>. QED  BY <3>1, FS_Singleton, FS_EmptySet
  <2>2. overlapped' = overlapped
    BY <1>7 DEF FinalizeOrder
  <2>3. NWorkers >= 1
    <3>1. Cardinality(Adding(p))' <= NWorkers
      <4>1. Adding(p)' \subseteq Workers /\ IsFiniteSet(Workers)
        BY OrderAssumption DEF Adding
      <4>. QED  BY <4>1, FS_Subset DEF NWorkers
    <3>. QED  BY <2>1, <3>1, RequestsFinite
  <2>4. MayBeAdded(p)' >= unrecorded[p] + 1
    BY <1>1, <2>2, <2>3, BoundType, RequestsFinite DEF MayBeAdded, NWorkers
  <2>5. MayBeAdded(p)' \in Int
    BY <1>1, BoundType, RequestsFinite DEF MayBeAdded, NWorkers
  <2>. QED  BY <1>1, <1>5, <1>6, <2>1, <2>4, <2>5, BoundType DEF RetriesLeft
<1>8. CASE Adding(p) \cup Completing(p) # {}
  <2>1. p \in overlapped'
    BY <1>8 DEF FinalizeOrder
  <2>2. Cardinality(Adding(p))' + Cardinality(Completing(p)) <= NWorkers
    <3>1. Adding(p)' \cap Completing(p) = {}
      BY <1>2, <1>3, <1>4 DEF Adding, Completing
    <3>2. /\ Adding(p)' \cup Completing(p) \subseteq Workers /\ IsFiniteSet(Workers)
      BY OrderAssumption DEF Adding, Completing
    <3>3. Cardinality(Adding(p)' \cup Completing(p))
            = Cardinality(Adding(p)') + Cardinality(Completing(p))
              - Cardinality(Adding(p)' \cap Completing(p))
      BY RequestsFinite, FS_Union
    <3>4. Cardinality(Adding(p)' \cap Completing(p)) = 0
      BY <3>1, FS_EmptySet
    <3>5. Cardinality(Adding(p)' \cup Completing(p)) <= NWorkers
      BY <3>2, FS_Subset DEF NWorkers
    <3>. QED  BY <3>3, <3>4, <3>5, RequestsFinite
  <2>3. MayBeAdded(p)' = unrecorded[p] + NWorkers
    BY <1>1, <2>1 DEF MayBeAdded, NWorkers
  <2>. QED  BY <1>1, <1>5, <1>6, <2>2, <2>3, BoundType, RequestsFinite DEF RetriesLeft
<1>. QED  BY <1>7, <1>8

(* Each action keeps the retries that are left.                             *)
LEMMA StepRetries == TypeOK /\ RetryInv /\ [Next]_vars => RetryInv'
<1>. SUFFICES ASSUME TypeOK, RetryInv, [Next]_vars, NEW p \in Payments
              PROVE  RetriesLeft(p)'
  BY DEF RetryInv
<1>inv. RetriesLeft(p)
  BY DEF RetryInv
<1>same. ASSUME UNCHANGED <<work, pending, saved, overlapped, unrecorded>> PROVE RetriesLeft(p)'
  BY <1>inv, <1>same DEF RetriesLeft, MayBeAdded, Adding, Completing
<1>1. ASSUME NEW w \in Workers, NEW r \in Payments, FinalizeOrder(w, r)
      PROVE  RetriesLeft(p)'
  <2>1. CASE p = r
    BY <1>1, <1>inv, <2>1, RequestAdmitted
  <2>2. CASE p # r
    <3>1. /\ work' = [work EXCEPT ![w] = [at |-> "save", payment |-> r]]
          /\ work[w].at = "idle" /\ UNCHANGED <<pending, saved, unrecorded>>
          /\ p \in overlapped' <=> p \in overlapped
      BY <1>1, <2>2 DEF FinalizeOrder
    <3>2. w \notin Completing(p)
      BY <3>1 DEF Completing
    <3>. QED  BY <1>inv, <2>2, <3>1, <3>2, OtherPayment
  <2>. QED  BY <2>1, <2>2
<1>2. ASSUME NEW w \in Workers, NEW o \in OrderIds, NEW next \in Statuses,
             ReadStatus(w, o, next)
      PROVE  RetriesLeft(p)'
  <2>1. /\ work' = [work EXCEPT ![w] = [at |-> "status", order |-> o, next |-> next]]
        /\ work[w].at = "idle" /\ UNCHANGED <<pending, saved, overlapped, unrecorded>>
    BY <1>2 DEF ReadStatus, history, repeats
  <2>2. w \notin Completing(p)
    BY <2>1 DEF Completing
  <2>. QED  BY <1>inv, <2>1, <2>2, OtherPayment
<1>3. ASSUME NEW w \in Workers, ReadExisting(w) PROVE RetriesLeft(p)'
  <2>. DEFINE For(o, row) ==
         [at |-> "commit", payment |-> work[w].payment, order |-> o, row |-> row]
  <2>1. work[w].at = "save" /\ UNCHANGED <<pending, saved, overlapped, unrecorded>>
    BY <1>3 DEF ReadExisting, history, repeats
  <2>2. \/ work' = [work EXCEPT ![w] = Idle]
        \/ \E o, row : work' = [work EXCEPT ![w] = For(o, row)]
    BY <1>3 DEF ReadExisting
  <2>3. w \notin Completing(p) /\ (work[w].payment = p => w \in Adding(p))
    BY <2>1 DEF Adding, Completing
  <2>4. ASSUME work' = [work EXCEPT ![w] = Idle] PROVE RetriesLeft(p)'
    <3>1. Idle.at \notin {"save", "commit"}
      BY DEF Idle
    <3>. QED  BY <1>inv, <2>1, <2>3, <2>4, <3>1, OtherPayment
  <2>5. ASSUME NEW o, NEW row, work' = [work EXCEPT ![w] = For(o, row)]
        PROVE  RetriesLeft(p)'
    <3>1. For(o, row).at = "commit" /\ For(o, row).payment = work[w].payment
      OBVIOUS
    <3>. HIDE DEF For
    <3>. QED  BY <1>inv, <2>1, <2>3, <2>5, <3>1, OtherPayment
  <2>. QED  BY <2>2, <2>4, <2>5
<1>4. ASSUME NEW w \in Workers, CommitOrder(w) PROVE RetriesLeft(p)'
  <2>. DEFINE r == work[w].payment
  <2>1. PICK id : work' = [work EXCEPT ![w] = [at |-> "complete", payment |-> r, order |-> id]]
    BY <1>4 DEF CommitOrder
  <2>2. /\ work[w].at = "commit" /\ r \in Payments
        /\ saved' = [saved EXCEPT ![r] = @ + 1] /\ UNCHANGED <<pending, overlapped, unrecorded>>
    BY <1>4, TaskFields DEF CommitOrder
  <2>3. CASE p = r
    <3>1. /\ work'[w] = [at |-> "complete", payment |-> r, order |-> id]
          /\ Adding(p)' \ {w} = Adding(p) \ {w} /\ Completing(p)' \ {w} = Completing(p) \ {w}
      BY <2>1, OtherRequests
    <3>2. w \in Adding(p) /\ w \notin Completing(p) /\ w \notin Adding(p)' /\ w \in Completing(p)'
      BY <2>2, <2>3, <3>1 DEF Adding, Completing
    <3>3. Adding(p)' = Adding(p) \ {w} /\ Completing(p)' = Completing(p) \cup {w}
      BY <3>1, <3>2
    <3>4. /\ Cardinality(Adding(p))' = Cardinality(Adding(p)) - 1
          /\ Cardinality(Completing(p))' = Cardinality(Completing(p)) + 1
      BY <3>2, <3>3, RequestsFinite, FS_RemoveElement, FS_AddElement
    <3>5. saved'[p] = saved[p] + 1 /\ pending'[p] = pending[p] /\ unrecorded'[p] = unrecorded[p]
      BY <2>2, <2>3 DEF TypeOK
    <3>6. MayBeAdded(p)' = MayBeAdded(p)
      BY <2>2 DEF MayBeAdded
    <3>. HIDE DEF r
    <3>. QED  BY <1>inv, <3>4, <3>5, <3>6, BoundType, RequestsFinite DEF RetriesLeft
  <2>4. CASE p # r
    <3>1. saved'[p] = saved[p] /\ w \notin Completing(p)
      BY <2>2, <2>4 DEF TypeOK, Completing
    <3>. HIDE DEF r
    <3>. QED  BY <1>inv, <2>1, <2>2, <2>4, <3>1, OtherPayment
  <2>. QED  BY <2>3, <2>4
<1>5. ASSUME NEW w \in Workers, CompletePayment(w) PROVE RetriesLeft(p)'
  <2>. DEFINE r == work[w].payment
  <2>1. /\ work' = [work EXCEPT ![w] = Idle] /\ work[w].at = "complete"
        /\ UNCHANGED <<saved, overlapped>> /\ r \in Payments /\ work[w].order # 0
        /\ \/ pending' = [pending EXCEPT ![r] = work[w].order] /\ unrecorded' = unrecorded
           \/ pending' = pending /\ unrecorded' = [unrecorded EXCEPT ![r] = @ + 1]
    BY <1>5, TaskFields, OrderIdsType DEF CompletePayment
  <2>2. /\ work'[w] = Idle
        /\ Adding(p)' \ {w} = Adding(p) \ {w} /\ Completing(p)' \ {w} = Completing(p) \ {w}
    BY <2>1, OtherRequests
  <2>3. w \notin Adding(p) /\ w \notin Adding(p)' /\ w \notin Completing(p)'
    BY <2>1, <2>2 DEF Adding, Completing, Idle
  <2>4. Adding(p)' = Adding(p)
    BY <2>2, <2>3
  <2>5. CASE p # r
    <3>1. w \notin Completing(p) /\ pending'[p] = pending[p] /\ unrecorded'[p] = unrecorded[p]
      BY <2>1, <2>5 DEF Completing, TypeOK
    <3>2. Idle.at \notin {"save", "commit"}
      BY DEF Idle
    <3>. HIDE DEF r
    <3>. QED  BY <1>inv, <2>1, <3>1, <3>2, OtherPayment
  <2>6. CASE p = r /\ pending' = [pending EXCEPT ![r] = work[w].order] /\ unrecorded' = unrecorded
    <3>1. pending'[p] # 0
      BY <2>1, <2>6 DEF TypeOK
    <3>2. MayBeAdded(p)' = MayBeAdded(p)
      BY <2>1, <2>6 DEF MayBeAdded
    <3>. HIDE DEF r
    <3>. QED  BY <1>inv, <2>1, <2>4, <3>1, <3>2 DEF RetriesLeft
  <2>7. CASE p = r /\ pending' = pending /\ unrecorded' = [unrecorded EXCEPT ![r] = @ + 1]
    <3>1. w \in Completing(p) /\ unrecorded'[p] = unrecorded[p] + 1
      BY <2>1, <2>7 DEF Completing, TypeOK
    <3>2. Completing(p)' = Completing(p) \ {w}
      BY <2>2, <2>3
    <3>3. Cardinality(Completing(p))' = Cardinality(Completing(p)) - 1
      BY <3>1, <3>2, RequestsFinite, FS_RemoveElement
    <3>4. MayBeAdded(p)' = MayBeAdded(p) + 1
      BY <2>1, <3>1, BoundType, RequestsFinite DEF MayBeAdded, NWorkers
    <3>. HIDE DEF r
    <3>. QED  BY <1>inv, <2>1, <2>4, <2>7, <3>1, <3>3, <3>4, BoundType, RequestsFinite
                 DEF RetriesLeft
  <2>. QED  BY <2>1, <2>5, <2>6, <2>7
<1>6. ASSUME NEW w \in Workers, WriteStatus(w) PROVE RetriesLeft(p)'
  <2>1. /\ work' = [work EXCEPT ![w] = Idle] /\ work[w].at = "status"
        /\ UNCHANGED <<pending, saved, overlapped, unrecorded>>
    BY <1>6 DEF WriteStatus, repeats
  <2>2. w \notin Completing(p) /\ Idle.at \notin {"save", "commit"}
    BY <2>1 DEF Completing, Idle
  <2>. QED  BY <1>inv, <2>1, <2>2, OtherPayment
<1>7. ASSUME NEW q \in Processors, NEW batch \in SUBSET OrderIds, LoadBatch(q, batch)
      PROVE  RetriesLeft(p)'
  BY <1>same, <1>7 DEF LoadBatch, history, repeats
<1>8. ASSUME NEW q \in Processors, TransferFails(q) PROVE RetriesLeft(p)'
  BY <1>same, <1>8 DEF TransferFails, history, repeats
<1>9. ASSUME NEW q \in Processors, SendNativeTransfer(q) PROVE RetriesLeft(p)'
  BY <1>same, <1>9 DEF SendNativeTransfer, repeats
<1>10. ASSUME NEW q \in Processors, NEW o \in OrderIds, CheckReady(q, o) PROVE RetriesLeft(p)'
  BY <1>same, <1>10 DEF CheckReady, repeats
<1>11. ASSUME NEW q \in Processors, MarkPaid(q) PROVE RetriesLeft(p)'
  BY <1>same, <1>11 DEF MarkPaid, history, repeats
<1>12. ASSUME CloseOrdering PROVE RetriesLeft(p)'
  BY <1>same, <1>12 DEF CloseOrdering, history, repeats
<1>13. ASSUME Crash PROVE RetriesLeft(p)'
  <2>1. /\ UNCHANGED <<saved, pending, overlapped>>
        /\ unrecorded'[p] = unrecorded[p] + Cardinality(Completing(p))
    BY <1>13 DEF Crash
  <2>2. Adding(p)' = {} /\ Completing(p)' = {}
    BY <1>13 DEF Crash, Adding, Completing, Idle
  <2>3. Cardinality(Adding(p))' = 0 /\ Cardinality(Completing(p))' = 0
    BY <2>2, FS_EmptySet
  <2>4. MayBeAdded(p)' = MayBeAdded(p) + Cardinality(Completing(p))
    BY <2>1, BoundType, RequestsFinite DEF MayBeAdded, NWorkers
  <2>. QED  BY <1>inv, <2>1, <2>3, <2>4, BoundType, RequestsFinite DEF RetriesLeft
<1>14. ASSUME UNCHANGED vars PROVE RetriesLeft(p)'
  BY <1>same, <1>14 DEF vars, history, repeats
<1>15. ASSUME NEW q \in Processors, TransferUnknown(q) PROVE RetriesLeft(p)'
  BY <1>same, <1>15 DEF TransferUnknown, repeats
<1>. QED  BY <1>1, <1>2, <1>3, <1>4, <1>5, <1>6, <1>7, <1>8, <1>9, <1>10, <1>11, <1>12,
             <1>13, <1>14, <1>15 DEF Next, HandlerStep, PayoutStep

(* A payment that is retried while its first request runs, or whose         *)
(* completion was unrecorded, by a crash or a dropped error, is added again, but  *)
(* at most once for each handler and each loss (handleFinalizeOrder).       *)
THEOREM RetriesAreBounded == Spec => []RetriesBounded
<1>1. TypeOK /\ RetryInv => RetriesBounded
  <2>. SUFFICES ASSUME TypeOK, RetryInv, NEW p \in Payments PROVE saved[p] <= MayBeAdded(p)
    BY DEF RetriesBounded
  <2>1. RetriesLeft(p) /\ saved[p] \in Nat /\ MayBeAdded(p) \in Nat
    BY BoundType DEF RetryInv, TypeOK
  <2>. QED  BY <2>1, RequestsFinite DEF RetriesLeft
<1>. QED  BY <1>1, InitTyped, StepTyped, InitRetries, StepRetries, PTL DEF Spec
-----------------------------------------------------------------------------
ItemsOf == [o \in OrderIds |-> orders[o].items]
AmountsOf == [o \in OrderIds |-> orders[o].amount]
PaidBy == [p \in Payments |-> saved[p] * Price[p]]

LEMMA AmountsType ==
  ASSUME TypeOK
  PROVE  /\ IsFiniteSet(OrderIds) /\ IsFiniteSet(Payments)
         /\ \A o \in OrderIds : orders[o].amount \in Nat /\ orders[o].items \in Nat
         /\ \A p \in Payments : saved[p] \in Nat /\ Price[p] \in Nat /\ saved[p] * Price[p] \in Nat
<1>1. IsFiniteSet(OrderIds) /\ IsFiniteSet(Payments)
  BY OrderIdsType, OrderAssumption, FS_Interval
<1>2. ASSUME NEW o \in OrderIds PROVE orders[o].amount \in Nat /\ orders[o].items \in Nat
  <2>1. orders[o] \in Order
    BY OrderIdsType
  <2>. QED  BY <2>1 DEF Order
<1>3. ASSUME NEW p \in Payments
      PROVE  saved[p] \in Nat /\ Price[p] \in Nat /\ saved[p] * Price[p] \in Nat
  <2>1. saved[p] \in Nat /\ Price[p] \in Nat
    BY OrderAssumption DEF TypeOK
  <2>. QED  BY <2>1, OneMore
<1>. QED  BY <1>1, <1>2, <1>3

(* What is read or moved from one status to another keeps its amounts.      *)
LEMMA AmountsKept ==
  ASSUME TypeOK, AmountInv, OrderIds' = OrderIds, saved' = saved,
         \A o \in OrderIds : /\ orders'[o].amount = orders[o].amount
                             /\ orders'[o].items = orders[o].items,
         \A w \in Workers : work'[w].at = "commit" /\ work'[w].order # 0 =>
           \/ work'[w] = work[w]
           \/ work'[w].order \in OrderIds /\ work'[w].row = orders[work'[w].order]
  PROVE  AmountInv'
<1>1. \A o \in OrderIds' : orders'[o].amount <= orders'[o].items
  BY DEF AmountInv
<1>2. ASSUME NEW w \in Workers, work'[w].at = "commit", work'[w].order # 0
      PROVE  work'[w].row.amount <= orders'[work'[w].order].items
  <2>1. CASE work'[w] = work[w]
    <3>1. work[w].order \in OrderIds
      BY <1>2, <2>1, TaskFields
    <3>. QED  BY <1>2, <2>1, <3>1 DEF AmountInv
  <2>2. CASE work'[w].order \in OrderIds /\ work'[w].row = orders[work'[w].order]
    BY <2>2 DEF AmountInv
  <2>. QED  BY <1>2, <2>1, <2>2
<1>3. ItemsOf' = ItemsOf /\ PaidBy' = PaidBy
  BY DEF ItemsOf, PaidBy
<1>. QED  BY <1>1, <1>2, <1>3 DEF AmountInv, ItemsOf, PaidBy

LEMMA InitAmounts == Init => AmountInv
<1>. SUFFICES ASSUME Init PROVE AmountInv
  OBVIOUS
<1>1. OrderIds = {} /\ \A w \in Workers : work[w].at # "commit"
  BY DEF Init, OrderIds, Idle
<1>2. \A p \in Payments : PaidBy[p] = 0
  BY OrderAssumption DEF Init, PaidBy
<1>3. SumFunctionOnSet(PaidBy, Payments) = 0
  BY <1>2, SumZero, OrderAssumption
<1>4. SumFunctionOnSet(ItemsOf, OrderIds) = 0
  BY <1>1, SumEmpty
<1>. QED  BY <1>1, <1>3, <1>4 DEF AmountInv, ItemsOf, PaidBy

(* A commit adds the price of its payment to the items of one order.        *)
LEMMA CommitAmounts ==
  ASSUME TypeOK, AmountInv, NEW w \in Workers, CommitOrder(w), TypeOK'
  PROVE  AmountInv'
<1>. DEFINE p == work[w].payment
            old == work[w].order
<1>1. /\ p \in Payments /\ work[w].at = "commit" /\ saved' = [saved EXCEPT ![p] = @ + 1]
      /\ \E id : work' = [work EXCEPT ![w] = [at |-> "complete", payment |-> p, order |-> id]]
  BY TaskFields DEF CommitOrder
<1>2. Price[p] \in Nat /\ saved[p] \in Nat
  BY <1>1, AmountsType
<1>3. \A v \in Workers : work'[v].at = "commit" => v # w /\ work'[v] = work[v]
  BY <1>1 DEF TypeOK
<1>4. SumFunctionOnSet(PaidBy', Payments) = SumFunctionOnSet(PaidBy, Payments) + Price[p]
  <2>. HIDE DEF p
  <2>1. PaidBy'[p] = PaidBy[p] + Price[p]
    <3>1. saved'[p] = saved[p] + 1
      BY <1>1 DEF TypeOK
    <3>2. Price[p] * (saved[p] + 1) = Price[p] * saved[p] + Price[p]
      BY <1>2, OneMore
    <3>. QED  BY <1>1, <1>2, <3>1, <3>2 DEF PaidBy
  <2>2. \A r \in Payments \ {p} : PaidBy'[r] = PaidBy[r]
    BY <1>1 DEF PaidBy, TypeOK
  <2>3. IntValued(PaidBy, Payments) /\ IntValued(PaidBy', Payments)
    <3>1. \A r \in Payments : PaidBy[r] \in Int
      BY AmountsType DEF PaidBy
    <3>2. \A r \in Payments : PaidBy'[r] \in Int
      BY <1>1, <1>2, <2>1, <2>2, <3>1
    <3>. QED  BY <3>1, <3>2 DEF IntValued
  <2>4. SumFunctionOnSet(PaidBy', Payments)
          = SumFunctionOnSet(PaidBy, Payments) - PaidBy[p] + PaidBy'[p]
    BY <1>1, <2>2, <2>3, AmountsType, SumUpdate
  <2>5. SumFunctionOnSet(PaidBy, Payments) \in Int /\ PaidBy[p] \in Int
    BY <1>1, <2>3, AmountsType, SumStep DEF IntValued
  <2>. QED  BY <1>2, <2>1, <2>4, <2>5
<1>5. SumFunctionOnSet(ItemsOf, OrderIds) = SumFunctionOnSet(PaidBy, Payments)
  BY DEF AmountInv, ItemsOf, PaidBy
<1>6. IntValued(ItemsOf, OrderIds)
  BY AmountsType DEF IntValued, ItemsOf
<1>7. SumFunctionOnSet(ItemsOf, OrderIds) \in Int
  BY <1>6, AmountsType, SumStep
<1>8. ASSUME OrderIds \subseteq OrderIds', \A o \in OrderIds' : orders'[o].amount <= orders'[o].items,
             \A o \in OrderIds : orders'[o].items >= orders[o].items,
             SumFunctionOnSet(ItemsOf', OrderIds')
               = SumFunctionOnSet(ItemsOf, OrderIds) + Price[p]
      PROVE  AmountInv'
  <2>1. ASSUME NEW v \in Workers, work'[v].at = "commit", work'[v].order # 0
        PROVE  work'[v].row.amount <= orders'[work'[v].order].items
    <3>1. /\ work'[v] = work[v] /\ work[v].order \in OrderIds /\ work[v].row \in Order
          /\ work[v].row.amount <= orders[work[v].order].items
      BY <1>3, <2>1, TaskFields DEF AmountInv
    <3>2. work[v].row.amount \in Nat /\ orders[work[v].order].items \in Nat
      BY <3>1, AmountsType DEF Order
    <3>3. orders'[work[v].order].items \in Nat
      <4>1. \A o \in OrderIds' : orders'[o] \in Order
        BY OrderIdsType DEF TypeOK, OrderIds
      <4>. QED  BY <1>8, <3>1, <4>1 DEF Order
    <3>. QED  BY <1>8, <3>1, <3>2, <3>3
  <2>2. SumFunctionOnSet(ItemsOf', OrderIds') = SumFunctionOnSet(PaidBy', Payments)
    BY <1>4, <1>5, <1>8
  <2>. QED  BY <1>8, <2>1, <2>2 DEF AmountInv, ItemsOf, PaidBy
<1>9. CASE old = 0
  <2>. DEFINE n == Len(orders) + 1
              new == [member |-> PayerOf[p], amount |-> Price[p], items |-> Price[p],
                      status |-> "payment_received", confirmed |-> FALSE]
  <2>1. orders' = Append(orders, new)
    BY <1>9 DEF CommitOrder
  <2>2. new.amount = Price[p] /\ new.items = Price[p]
    OBVIOUS
  <2>. HIDE DEF new, p, old
  <2>3. /\ OrderIds' = 1..n /\ n \notin OrderIds /\ OrderIds' = OrderIds \cup {n}
        /\ \A o \in OrderIds : orders'[o] = orders[o]
        /\ orders'[n] = new
    <3>1. orders \in Seq(Order) /\ Len(orders) \in Nat /\ OrderIds = 1..Len(orders)
      BY OrderIdsType DEF TypeOK
    <3>2. /\ DOMAIN orders' = 1..(Len(orders) + 1) /\ orders'[Len(orders) + 1] = new
          /\ \A o \in 1..Len(orders) : orders'[o] = orders[o]
      BY ONLY <2>1, <3>1
    <3>. QED  BY ONLY <3>1, <3>2 DEF n, OrderIds
  <2>. HIDE DEF n
  <2>4. \A o \in OrderIds' : orders'[o].amount <= orders'[o].items
    BY <1>2, <2>2, <2>3 DEF AmountInv
  <2>5. \A o \in OrderIds : orders'[o].items >= orders[o].items
    BY <2>3, AmountsType
  <2>6. SumFunctionOnSet(ItemsOf', OrderIds')
          = SumFunctionOnSet(ItemsOf, OrderIds) + Price[p]
    <3>1. /\ ItemsOf'[n] = Price[p] /\ \A o \in OrderIds : ItemsOf'[o] = ItemsOf[o]
          /\ n \in OrderIds' /\ OrderIds' \ {n} = OrderIds
      BY <2>2, <2>3 DEF ItemsOf
    <3>2. IntValued(ItemsOf', OrderIds') /\ IsFiniteSet(OrderIds')
      <4>1. \A o \in OrderIds' : ItemsOf'[o] \in Int
        BY <1>2, <1>6, <2>3, <3>1 DEF IntValued
      <4>2. IsFiniteSet(OrderIds')
        BY <2>3, AmountsType, FS_AddElement
      <4>. QED  BY <4>1, <4>2 DEF IntValued
    <3>3. SumFunctionOnSet(ItemsOf', OrderIds')
            = Price[p] + SumFunctionOnSet(ItemsOf', OrderIds)
      BY <3>1, <3>2, SumStep
    <3>4. SumFunctionOnSet(ItemsOf, OrderIds) = SumFunctionOnSet(ItemsOf', OrderIds)
      BY <1>6, <3>1, AmountsType, SumAgree
    <3>. QED  BY <1>2, <1>7, <3>3, <3>4
  <2>. QED  BY <1>8, <2>3, <2>4, <2>5, <2>6
<1>10. CASE old # 0
  <2>1. old \in OrderIds /\ work[w].row \in Order
    BY <1>1, <1>10, TaskFields
  <2>2. orders' = [orders EXCEPT ![old] =
          ToppedUp(work[w].row, orders[old].items, Price[p])]
    BY <1>10 DEF CommitOrder
  <2>3. /\ ToppedUp(work[w].row, orders[old].items, Price[p]).amount
             = work[w].row.amount + Price[p]
        /\ ToppedUp(work[w].row, orders[old].items, Price[p]).items
             = orders[old].items + Price[p]
    BY <2>1 DEF ToppedUp, Order
  <2>4. work[w].row.amount <= orders[old].items /\ work[w].row.amount \in Nat
    BY <1>1, <1>10, <2>1 DEF AmountInv, Order
  <2>. HIDE DEF p, old
  <2>5. /\ OrderIds' = OrderIds /\ \A o \in OrderIds \ {old} : orders'[o] = orders[o]
        /\ orders'[old] = ToppedUp(work[w].row, orders[old].items, Price[p])
    BY <2>1, <2>2 DEF OrderIds
  <2>6. orders[old].items \in Nat
    BY <2>1, AmountsType
  <2>7. \A o \in OrderIds' : orders'[o].amount <= orders'[o].items
    BY <1>2, <2>3, <2>4, <2>5, <2>6 DEF AmountInv
  <2>8. \A o \in OrderIds : orders'[o].items >= orders[o].items
    BY <1>2, <2>3, <2>5, <2>6, AmountsType
  <2>9. SumFunctionOnSet(ItemsOf', OrderIds')
          = SumFunctionOnSet(ItemsOf, OrderIds) + Price[p]
    <3>1. /\ ItemsOf'[old] = ItemsOf[old] + Price[p] /\ ItemsOf[old] \in Nat
          /\ \A o \in OrderIds \ {old} : ItemsOf'[o] = ItemsOf[o]
      BY <2>1, <2>3, <2>5, <2>6 DEF ItemsOf
    <3>2. IntValued(ItemsOf', OrderIds)
      BY <1>2, <1>6, <3>1 DEF IntValued
    <3>3. SumFunctionOnSet(ItemsOf', OrderIds)
            = SumFunctionOnSet(ItemsOf, OrderIds) - ItemsOf[old] + ItemsOf'[old]
      BY <1>6, <2>1, <3>1, <3>2, AmountsType, SumUpdate
    <3>. QED  BY <1>2, <1>7, <2>5, <3>1, <3>3
  <2>. QED  BY <1>8, <2>5, <2>7, <2>8, <2>9
<1>. QED  BY <1>9, <1>10

(* Each action keeps the amounts paid for.                                  *)
LEMMA StepAmounts == TypeOK /\ TypeOK' /\ AmountInv /\ [Next]_vars => AmountInv'
<1>. SUFFICES ASSUME TypeOK, TypeOK', AmountInv, [Next]_vars PROVE AmountInv'
  OBVIOUS
<1>same. ASSUME orders' = orders, saved' = saved,
                \A w \in Workers : work'[w].at = "commit" => work'[w] = work[w]
         PROVE  AmountInv'
  BY <1>same, AmountsKept DEF OrderIds
<1>1. ASSUME NEW w \in Workers, NEW p \in Payments, FinalizeOrder(w, p) PROVE AmountInv'
  <2>1. \A v \in Workers : work'[v].at = "commit" => work'[v] = work[v]
    BY <1>1 DEF FinalizeOrder, TypeOK
  <2>. QED  BY <1>same, <1>1, <2>1 DEF FinalizeOrder
<1>2. ASSUME NEW w \in Workers, NEW o \in OrderIds, NEW next \in Statuses,
             ReadStatus(w, o, next)
      PROVE  AmountInv'
  <2>1. \A v \in Workers : work'[v].at = "commit" => work'[v] = work[v]
    BY <1>2 DEF ReadStatus, TypeOK
  <2>. QED  BY <1>same, <1>2, <2>1 DEF ReadStatus, history, repeats
<1>3. ASSUME NEW w \in Workers, ReadExisting(w) PROVE AmountInv'
  <2>. DEFINE For(o, row) ==
         [at |-> "commit", payment |-> work[w].payment, order |-> o, row |-> row]
  <2>1. UNCHANGED <<orders, saved>>
    BY <1>3 DEF ReadExisting, history, repeats
  <2>2. \/ work' = [work EXCEPT ![w] = Idle]
        \/ work' = [work EXCEPT ![w] = For(0, NoOrder)]
        \/ \E o \in OrderIds : work' = [work EXCEPT ![w] = For(o, orders[o])]
    BY <1>3 DEF ReadExisting, Existing
  <2>3. CASE work' = [work EXCEPT ![w] = Idle]
    <3>1. \A v \in Workers : work'[v].at = "commit" => work'[v] = work[v]
      BY <2>3 DEF Idle, TypeOK
    <3>. QED  BY <1>same, <2>1, <3>1
  <2>4. ASSUME NEW o, NEW row, work' = [work EXCEPT ![w] = For(o, row)],
               o # 0 => o \in OrderIds /\ row = orders[o]
        PROVE  AmountInv'
    <3>1. For(o, row).order = o /\ For(o, row).row = row
      OBVIOUS
    <3>. HIDE DEF For
    <3>2. \A v \in Workers : v # w => work'[v] = work[v]
      BY <2>4 DEF TypeOK
    <3>3. work'[w].order = o /\ work'[w].row = row
      BY <2>4, <3>1 DEF TypeOK
    <3>. QED  BY <2>1, <2>4, <3>2, <3>3, AmountsKept DEF OrderIds
  <2>5. CASE work' = [work EXCEPT ![w] = For(0, NoOrder)]
    <3>. HIDE DEF For
    <3>. QED  BY <2>4, <2>5
  <2>6. ASSUME NEW o \in OrderIds, work' = [work EXCEPT ![w] = For(o, orders[o])]
        PROVE  AmountInv'
    <3>. HIDE DEF For
    <3>. QED  BY <2>4, <2>6
  <2>. QED  BY <2>2, <2>3, <2>5, <2>6
<1>4. ASSUME NEW w \in Workers, CommitOrder(w) PROVE AmountInv'
  BY <1>4, CommitAmounts
<1>5. ASSUME NEW w \in Workers, CompletePayment(w) PROVE AmountInv'
  <2>1. \A v \in Workers : work'[v].at = "commit" => work'[v] = work[v]
    BY <1>5 DEF CompletePayment, Idle, TypeOK
  <2>. QED  BY <1>same, <1>5, <2>1 DEF CompletePayment
<1>6. ASSUME NEW w \in Workers, WriteStatus(w) PROVE AmountInv'
  <2>1. \A v \in Workers : work'[v].at = "commit" => work'[v] = work[v]
    BY <1>6 DEF WriteStatus, Idle, TypeOK
  <2>2. saved' = saved /\ work[w].order \in OrderIds
    BY <1>6, TaskFields DEF WriteStatus, repeats
  <2>3. /\ OrderIds' = OrderIds
        /\ \A o \in OrderIds : /\ orders'[o].amount = orders[o].amount
                               /\ orders'[o].items = orders[o].items
    <3>1. orders' = [orders EXCEPT ![work[w].order] =
            [orders[work[w].order] EXCEPT !.status = work[w].next,
                                          !.confirmed = @ \/ SetsConfirmedAt(work[w].next)]]
      <4>1. orders' = [orders EXCEPT ![work[w].order].status = work[w].next,
                         ![work[w].order].confirmed = @ \/ SetsConfirmedAt(work[w].next)]
        BY <1>6 DEF WriteStatus
      <4>2. work[w].order \in DOMAIN orders
        BY <2>2 DEF OrderIds
      <4>. QED  BY <2>2, <4>1, <4>2, OrderIdsType
    <3>2. \A o \in OrderIds : orders[o] \in Order
      BY OrderIdsType
    <3>. QED  BY <2>2, <3>1, <3>2 DEF OrderIds, Order
  <2>. QED  BY <2>1, <2>2, <2>3, AmountsKept
<1>7. ASSUME UNCHANGED <<orders, saved, work>> PROVE AmountInv'
  BY <1>same, <1>7
<1>8. ASSUME NEW q \in Processors, NEW batch \in SUBSET OrderIds, LoadBatch(q, batch)
      PROVE  AmountInv'
  BY <1>7, <1>8 DEF LoadBatch, history, repeats
<1>9. ASSUME NEW q \in Processors, TransferFails(q) PROVE AmountInv'
  BY <1>7, <1>9 DEF TransferFails, history, repeats
<1>10. ASSUME NEW q \in Processors, SendNativeTransfer(q) PROVE AmountInv'
  BY <1>7, <1>10 DEF SendNativeTransfer, repeats
<1>11. ASSUME NEW q \in Processors, NEW o \in OrderIds, CheckReady(q, o) PROVE AmountInv'
  BY <1>7, <1>11 DEF CheckReady, repeats
<1>12. ASSUME NEW q \in Processors, MarkPaid(q) PROVE AmountInv'
  <2>1. /\ orders' = [orders EXCEPT ![payout[q].order] =
                         [orders[payout[q].order] EXCEPT !.status = "platform_paid"]]
        /\ UNCHANGED <<work, saved>>
    BY <1>12 DEF MarkPaid, history, repeats
  <2>2. /\ OrderIds' = OrderIds
        /\ \A o \in OrderIds : /\ orders'[o].amount = orders[o].amount
                               /\ orders'[o].items = orders[o].items
    <3>1. \A o \in OrderIds : orders[o] \in Order
      BY OrderIdsType
    <3>. QED  BY <2>1, <3>1 DEF OrderIds, Order
  <2>. QED  BY <2>1, <2>2, AmountsKept
<1>13. ASSUME CloseOrdering PROVE AmountInv'
  BY <1>7, <1>13 DEF CloseOrdering, history, repeats
<1>14. ASSUME Crash PROVE AmountInv'
  <2>1. \A v \in Workers : work'[v].at # "commit"
    BY <1>14 DEF Crash, Idle
  <2>. QED  BY <1>same, <1>14, <2>1 DEF Crash
<1>15. ASSUME UNCHANGED vars PROVE AmountInv'
  BY <1>7, <1>15 DEF vars, history, repeats
<1>16. ASSUME NEW q \in Processors, TransferUnknown(q) PROVE AmountInv'
  BY <1>7, <1>16 DEF TransferUnknown, repeats
<1>. QED  BY <1>1, <1>2, <1>3, <1>4, <1>5, <1>6, <1>8, <1>9, <1>10, <1>11, <1>12, <1>13,
             <1>14, <1>15, <1>16 DEF Next, HandlerStep, PayoutStep

LEMMA TimesPrice ==
  ASSUME NEW m \in Nat, NEW n \in Nat, NEW k \in Nat, m <= n
  PROVE  m * k <= n * k /\ n * k \in Nat
  OBVIOUS

(* Stale writes may undo any status and lose a top-up, but the orders of a  *)
(* round claim each recorded payment once, and once more only for a retry   *)
(* while a request of it ran or after its completion was unrecorded, however many *)
(* handlers save at once and wherever the server crashes (SaveOrder).       *)
THEOREM AmountsArePaid == Spec => []AmountsArePaidFor
<1>1. TypeOK /\ RetryInv /\ AmountInv => AmountsArePaidFor
  <2>. SUFFICES ASSUME TypeOK, RetryInv, AmountInv PROVE AmountsArePaidFor
    OBVIOUS
  <2>1. /\ IntValued(AmountsOf, OrderIds) /\ IntValued(ItemsOf, OrderIds)
        /\ \A o \in OrderIds : AmountsOf[o] <= ItemsOf[o]
    BY AmountsType DEF IntValued, AmountsOf, ItemsOf, AmountInv
  <2>2. SumFunctionOnSet(AmountsOf, OrderIds) <= SumFunctionOnSet(ItemsOf, OrderIds)
    BY <2>1, AmountsType, SumLeq
  <2>. DEFINE claim == [p \in Payments |-> Recorded(p) * Price[p]]
  <2>3. ASSUME NEW p \in Payments
        PROVE  PaidBy[p] <= claim[p] /\ PaidBy[p] \in Int /\ claim[p] \in Int
    <3>1. saved[p] \in Nat /\ Price[p] \in Nat
      BY AmountsType
    <3>2. Recorded(p) \in Nat /\ saved[p] <= Recorded(p)
      <4>1. RetriesLeft(p) /\ MayBeAdded(p) \in Nat
        BY BoundType DEF RetryInv
      <4>2. saved[p] <= MayBeAdded(p)
        BY <3>1, <4>1, RequestsFinite DEF RetriesLeft
      <4>. QED  BY <3>1, <4>1, <4>2 DEF Recorded
    <3>3. saved[p] * Price[p] <= Recorded(p) * Price[p] /\ Recorded(p) * Price[p] \in Nat
      BY <3>1, <3>2, TimesPrice
    <3>4. saved[p] * Price[p] \in Nat
      BY AmountsType
    <3>. QED  BY <3>3, <3>4 DEF PaidBy
  <2>4. SumFunctionOnSet(PaidBy, Payments) <= SumFunctionOnSet(claim, Payments)
    <3>1. IntValued(PaidBy, Payments) /\ IntValued(claim, Payments)
      BY <2>3 DEF IntValued
    <3>. HIDE DEF claim
    <3>. QED  BY <2>3, <3>1, AmountsType, SumLeq
  <2>5. /\ SumFunctionOnSet(AmountsOf, OrderIds) \in Int
        /\ SumFunctionOnSet(PaidBy, Payments) \in Int
        /\ SumFunctionOnSet(claim, Payments) \in Int
    <3>1. IntValued(PaidBy, Payments) /\ IntValued(claim, Payments)
      BY <2>3 DEF IntValued
    <3>. HIDE DEF claim
    <3>. QED  BY <2>1, <3>1, AmountsType, SumStep
  <2>6. SumFunctionOnSet(ItemsOf, OrderIds) = SumFunctionOnSet(PaidBy, Payments)
    BY DEF AmountInv, ItemsOf, PaidBy
  <2>. QED  BY <2>2, <2>4, <2>5, <2>6 DEF AmountsArePaidFor, AmountsOf
<1>. QED  BY <1>1, InitTyped, StepTyped, InitRetries, StepRetries, InitAmounts, StepAmounts,
             PTL DEF Spec
-----------------------------------------------------------------------------
(* The desks of merchants and admins (MCOrderDesk): a payment's handler     *)
(* carries what it still has to pay, at most one handler keeps the buttons  *)
(* of a payouts page off, and without trouble a payment that left belongs   *)
(* to the one handler that still holds its order, or the order is paid and  *)
(* on no page that could pay it again.                                      *)
Ats == {"free", "ask", "sign", "mined", "sync", "refresh", "read"}
Acts == {"none", "mount", "accept", "complete", "cancel", "pay"}
Copies == [Orders -> Desk!Statuses] \cup {Desk!NoCopy}
JobRecords ==
  [at : Ats, on : Desk!Pages \cup {"none"}, act : Acts, todo : SUBSET Orders, bad : BOOLEAN,
   live : {"here", "left", "gone"}, copy : Copies]
DeskTypes ==
  /\ order \in [Orders -> Desk!Statuses] /\ paidFor \in [Orders -> Nat]
  /\ page \in [Desk!Pages -> [seen : Copies, pending : BOOLEAN]]
  /\ job \in [Jobs -> JobRecords]

(* What a handler at each of its steps still carries.                       *)
Fits(r) ==
  /\ r.at = "free" => r = Desk!Free
  /\ r.at = "ask" => r.act \in {"accept", "complete", "cancel"}
  /\ r.at \in {"sign", "mined", "sync"} => r.act = "pay"
  /\ r.at \in {"refresh", "read"} => r.todo = {} /\ r.act # "none"
  /\ r.at # "read" => r.copy = Desk!NoCopy
  /\ r.bad => r.at = "ask"
  /\ r.act = "pay" => r.on \in Payers /\ r.at # "ask"

(* The handler that keeps the buttons of a payouts page off.                *)
Busy(j, d) == job[j].at # "free" /\ job[j].on = d /\ job[j].live = "here" /\ ~job[j].bad
OneBusy ==
  \A d \in Payers, j \in Jobs : Busy(j, d) =>
    /\ \A i \in Jobs : Busy(i, d) => i = j
    /\ IF job[j].act = "mount" THEN page[d].seen = Desk!NoCopy ELSE page[d].pending

Sending(j, o) ==
  job[j].act = "pay" /\ job[j].at \in {"mined", "sync"} /\ o \in Desk!Group(j)
OnceEach ==
  \A o \in Orders :
    /\ paidFor[o] <= 1
    /\ paidFor[o] > 0 => order[o] = "paid" \/ \E j \in Jobs : Sending(j, o)
HeldOnce ==
  \A j \in Jobs, o \in Orders :
    Holds(j, o) /\ (\A i \in Jobs : Holds(i, o) => i = j) =>
      order[o] # "paid" /\ (paidFor[o] = 0 \/ Sending(j, o))
ListedUnpaid ==
  \A d \in Payers, o \in Orders :
    /\ page[d].seen[o] = "ready" /\ order[o] = "paid" =>
         \E j \in Jobs : Busy(j, d) /\ job[j].act = "pay"
    /\ \A j \in Jobs : Busy(j, d) /\ job[j].copy[o] = "ready" => order[o] # "paid"

DeskInv ==
  /\ DeskTypes /\ (\A j \in Jobs : Fits(job[j])) /\ OneBusy
  /\ trouble \/ (OnceEach /\ HeldOnce /\ ListedUnpaid)

LEMMA FirstIsFree ==
  ASSUME Desk!FreeJobs # {}
  PROVE  Desk!FirstFree \in Jobs /\ job[Desk!FirstFree].at = "free"
<1>1. PICK F : F = Desk!FreeJobs
  OBVIOUS
<1>2. F \in SUBSET Nat /\ F # {}
  BY <1>1, DeskAssumption DEF Desk!ConstantsOK, Desk!FreeJobs
<1>3. PICK a \in F : a \in Nat
  BY <1>2
<1>4. PICK B : B = {n \in F : n <= a}
  OBVIOUS
<1>5. PICK x \in B : \A y \in B : x <= y
  <2>1. B \subseteq F /\ a \in B /\ \A n \in B : n <= a
    BY <1>3, <1>4
  <2>2. B \in SUBSET (0..a)
    BY <1>2, <1>3, <2>1
  <2> QED BY <1>3, <2>1, <2>2, LeastExists
<1>6. x \in F /\ \A y \in F : x <= y
  <2>1. ASSUME NEW y \in F PROVE x <= y
    BY <1>2, <1>3, <1>4, <1>5, <2>1
  <2> QED BY <1>4, <1>5, <2>1
<1>7. Desk!FirstFree \in Desk!FreeJobs
  BY <1>1, <1>6 DEF Desk!FirstFree, Desk!Min
<1> QED BY <1>7 DEF Desk!FreeJobs

LEMMA FreeIsRecord ==
  /\ Desk!Free \in JobRecords /\ Fits(Desk!Free)
  /\ Desk!Free.at = "free" /\ Desk!Free.act = "none" /\ Desk!Free.todo = {}
  /\ Desk!Free.live = "here" /\ Desk!Free.copy = Desk!NoCopy /\ ~Desk!Free.bad
BY DEF Desk!Free, JobRecords, Fits, Ats, Acts, Copies

(* A handler goes on or ends; only its own page changes, and only when it   *)
(* no longer keeps the buttons off.                                         *)
LEMMA OneJobGoesOn ==
  ASSUME DeskTypes, \A j \in Jobs : Fits(job[j]), OneBusy,
         NEW j \in Jobs, NEW r \in JobRecords, Fits(r), job' = [job EXCEPT ![j] = r],
         order' \in [Orders -> Desk!Statuses], paidFor' \in [Orders -> Nat],
         page' \in [Desk!Pages -> [seen : Copies, pending : BOOLEAN]],
         \A d \in Desk!Pages : page'[d] # page[d] =>
           Busy(j, d) /\ (r.at = "free" \/ r.bad),
         \/ r.at = "free"
         \/ /\ job[j].at # "free" /\ r.on = job[j].on /\ r.live = job[j].live
            /\ r.act = job[j].act /\ (job[j].bad => r.bad)
  PROVE  DeskTypes' /\ (\A i \in Jobs : Fits(job'[i])) /\ OneBusy'
<1>1. job' \in [Jobs -> JobRecords] /\ job'[j] = r /\ \A i \in Jobs \ {j} : job'[i] = job[i]
  BY DEF DeskTypes
<1>2. DeskTypes'
  BY <1>1 DEF DeskTypes
<1>3. \A i \in Jobs : Fits(job'[i])
  BY <1>1
<1>4. ASSUME NEW i \in Jobs, NEW d \in Payers, Busy(i, d)'
      PROVE  Busy(i, d) /\ job'[i].act = job[i].act
  <2>1. CASE i = j
    BY <1>1, <1>4, <2>1 DEF Busy
  <2>2. CASE i # j
    BY <1>1, <1>4, <2>2 DEF Busy
  <2> QED BY <2>1, <2>2
<1>5. ASSUME NEW d \in Payers, NEW k \in Jobs, Busy(k, d)'
      PROVE  /\ \A i \in Jobs : Busy(i, d)' => i = k
             /\ IF job'[k].act = "mount" THEN page'[d].seen = Desk!NoCopy ELSE page'[d].pending
  <2>1. Busy(k, d) /\ job'[k].act = job[k].act
    BY <1>4, <1>5
  <2>2. \A i \in Jobs : Busy(i, d)' => i = k
    BY <1>4, <2>1 DEF OneBusy
  <2>3. page'[d] = page[d]
    <3>1. SUFFICES ASSUME page'[d] # page[d] PROVE FALSE
      OBVIOUS
    <3>2. Busy(j, d) /\ (r.at = "free" \/ r.bad)
      BY <3>1 DEF Desk!Pages
    <3>3. k = j
      BY <2>1, <3>2 DEF OneBusy
    <3> QED BY <1>1, <1>5, <3>2, <3>3 DEF Busy
  <2> QED BY <2>1, <2>2, <2>3 DEF OneBusy
<1>6. OneBusy'
  BY <1>5 DEF OneBusy
<1> QED BY <1>2, <1>3, <1>6

LEMMA DeskSets ==
  /\ Jobs \in SUBSET Nat /\ IsFiniteSet(Orders) /\ IsFiniteSet(Jobs)
  /\ Payers \cap {"list", "detail", "none"} = {} /\ Payers \subseteq Desk!Pages
  /\ ProposalOf \in [Orders -> Proposals] /\ Proposals \in SUBSET Nat
BY DeskAssumption DEF Desk!ConstantsOK, Desk!IsFiniteSet, IsFiniteSet, Desk!Pages

(* A handler ends and shows a message: what Fail does.                      *)
LEMMA FailKeeps ==
  ASSUME DeskTypes, \A j \in Jobs : Fits(job[j]), OneBusy,
         NEW j \in Jobs, job[j].at \notin {"free", "ask"}, Desk!Fail(j),
         order' \in [Orders -> Desk!Statuses], paidFor' \in [Orders -> Nat]
  PROVE  DeskTypes' /\ (\A i \in Jobs : Fits(job'[i])) /\ OneBusy'
<1>1. job[j] \in JobRecords /\ Fits(job[j])
  BY DEF DeskTypes
<1>2. ~job[j].bad
  BY <1>1 DEF Fits
<1>3. \/ page' = page
      \/ job[j].live = "here" /\ page' = [page EXCEPT ![job[j].on].pending = FALSE]
  BY DEF Desk!Fail, Desk!Caught
<1>4. page' \in [Desk!Pages -> [seen : Copies, pending : BOOLEAN]]
  BY <1>3 DEF DeskTypes
<1>5. ASSUME NEW d \in Desk!Pages, page'[d] # page[d]
      PROVE  Busy(j, d)
  BY <1>2, <1>3, <1>5 DEF DeskTypes, Busy
<1>6. job' = [job EXCEPT ![j] = Desk!Free]
  BY DEF Desk!Fail
<1> QED BY <1>4, <1>5, <1>6, FreeIsRecord, OneJobGoesOn

(* The steps of a handler that pays.                                        *)
LEMMA PayerKeeps ==
  ASSUME DeskTypes, \A j \in Jobs : Fits(job[j]), OneBusy, NEW j \in Jobs,
         Desk!Send(j) \/ Desk!ReceiptSeen(j) \/ Desk!Sync(j)
  PROVE  DeskTypes' /\ (\A i \in Jobs : Fits(job'[i])) /\ OneBusy'
<1>1. PICK r : r = job[j]
  OBVIOUS
<1>2. r \in JobRecords /\ Fits(r)
  BY <1>1 DEF DeskTypes
<1>3. CASE Desk!Send(j)
  <2>1. PICK q : q = [r EXCEPT !.at = "mined"]
    OBVIOUS
  <2>2. job' = [job EXCEPT ![j] = q] /\ order' = order /\ page' = page /\ r.at = "sign"
    BY <1>1, <1>3, <2>1 DEF Desk!Send, DeskTypes
  <2>3. q \in JobRecords /\ Fits(q) /\ q.on = r.on /\ q.live = r.live /\ q.act = r.act /\ q.bad = r.bad
    BY <1>2, <2>1, <2>2 DEF JobRecords, Fits, Ats
  <2>4. paidFor' \in [Orders -> Nat]
    BY <1>3 DEF Desk!Send, DeskTypes
  <2>5. order' \in [Orders -> Desk!Statuses] /\ page' \in [Desk!Pages -> [seen : Copies, pending : BOOLEAN]]
    BY <2>2 DEF DeskTypes
  <2> QED BY <1>1, <2>2, <2>3, <2>4, <2>5, OneJobGoesOn
<1>4. CASE Desk!ReceiptSeen(j)
  <2>1. PICK q : q = [r EXCEPT !.at = "sync"]
    OBVIOUS
  <2>2. job' = [job EXCEPT ![j] = q] /\ order' = order /\ page' = page /\ r.at = "mined" /\ paidFor' = paidFor
    BY <1>1, <1>4, <2>1 DEF Desk!ReceiptSeen, DeskTypes
  <2>3. q \in JobRecords /\ Fits(q) /\ q.on = r.on /\ q.live = r.live /\ q.act = r.act /\ q.bad = r.bad
    BY <1>2, <2>1, <2>2 DEF JobRecords, Fits, Ats
  <2>5. /\ order' \in [Orders -> Desk!Statuses] /\ paidFor' \in [Orders -> Nat]
        /\ page' \in [Desk!Pages -> [seen : Copies, pending : BOOLEAN]]
    BY <2>2 DEF DeskTypes
  <2> QED BY <1>1, <2>2, <2>3, <2>5, OneJobGoesOn
<1>5. CASE Desk!Sync(j)
  <2>1. r.at = "sync" /\ paidFor' = paidFor
    BY <1>1, <1>5 DEF Desk!Sync
  <2>2. paidFor' \in [Orders -> Nat]
    BY <2>1 DEF DeskTypes
  <2>3. CASE ~Desk!Recordable(j)
    <3>1. Desk!Fail(j) /\ order' = order
      BY <1>5, <2>3 DEF Desk!Sync
    <3>2. order' \in [Orders -> Desk!Statuses]
      BY <3>1 DEF DeskTypes
    <3> QED BY <1>1, <2>1, <2>2, <3>1, <3>2, FailKeeps
  <2>4. CASE Desk!Recordable(j)
    <3>1. PICK q : q = Desk!NextGroup(j)
      OBVIOUS
    <3>2. order' = Desk!Recorded(j) /\ job' = [job EXCEPT ![j] = q] /\ page' = page
      BY <1>5, <2>4, <3>1 DEF Desk!Sync
    <3>3. order' \in [Orders -> Desk!Statuses]
      BY <3>2 DEF Desk!Recorded, Desk!Statuses, DeskTypes
    <3>4. \/ q = Desk!Free
          \/ \E rest \in SUBSET Orders :
               q = [r EXCEPT !.todo = rest, !.at = IF rest = {} THEN "refresh" ELSE "sign"]
      <4>1. r.todo \ Desk!Group(j) \in SUBSET Orders
        BY <1>2 DEF JobRecords
      <4> QED BY <1>1, <3>1, <4>1 DEF Desk!NextGroup
    <3>5. CASE q = Desk!Free
      BY <2>2, <3>2, <3>3, <3>5, FreeIsRecord, OneJobGoesOn DEF DeskTypes
    <3>6. CASE \E rest \in SUBSET Orders :
                 q = [r EXCEPT !.todo = rest, !.at = IF rest = {} THEN "refresh" ELSE "sign"]
      <4>1. PICK rest \in SUBSET Orders :
              q = [r EXCEPT !.todo = rest, !.at = IF rest = {} THEN "refresh" ELSE "sign"]
        BY <3>6
      <4>2. q \in JobRecords /\ q.on = r.on /\ q.live = r.live /\ q.act = r.act /\ q.bad = r.bad
            /\ q.todo = rest /\ q.copy = r.copy /\ q.at = IF rest = {} THEN "refresh" ELSE "sign"
        BY <1>2, <4>1 DEF JobRecords, Ats
      <4>3. Fits(q)
        BY <1>2, <2>1, <4>2 DEF Fits
      <4>4. page' \in [Desk!Pages -> [seen : Copies, pending : BOOLEAN]]
        BY <3>2 DEF DeskTypes
      <4> QED BY <1>1, <2>1, <2>2, <3>2, <3>3, <4>2, <4>3, <4>4, OneJobGoesOn
    <3> QED BY <3>4, <3>5, <3>6
  <2> QED BY <2>3, <2>4
<1> QED BY <1>3, <1>4, <1>5

(* A refresh reads the orders and shows them.                               *)
LEMMA RefreshKeeps ==
  ASSUME DeskTypes, \A j \in Jobs : Fits(job[j]), OneBusy, NEW j \in Jobs,
         Desk!Read(j) \/ Desk!Show(j)
  PROVE  DeskTypes' /\ (\A i \in Jobs : Fits(job'[i])) /\ OneBusy'
<1>1. PICK r : r = job[j]
  OBVIOUS
<1>2. r \in JobRecords /\ Fits(r)
  BY <1>1 DEF DeskTypes
<1>3. order' = order /\ paidFor' = paidFor
  BY DEF Desk!Read, Desk!Show
<1>4. order' \in [Orders -> Desk!Statuses] /\ paidFor' \in [Orders -> Nat]
  BY <1>3 DEF DeskTypes
<1>5. CASE Desk!Read(j)
  <2>1. PICK q : q = [r EXCEPT !.at = "read", !.copy = order]
    OBVIOUS
  <2>2. job' = [job EXCEPT ![j] = q] /\ page' = page /\ r.at = "refresh"
    BY <1>1, <1>5, <2>1 DEF Desk!Read, DeskTypes
  <2>3. /\ q \in JobRecords /\ q.on = r.on /\ q.live = r.live /\ q.act = r.act /\ q.bad = r.bad
        /\ q.at = "read" /\ q.todo = r.todo
    BY <1>2, <2>1 DEF JobRecords, Ats, Copies, DeskTypes
  <2>4. Fits(q)
    BY <1>2, <2>2, <2>3 DEF Fits
  <2>5. page' \in [Desk!Pages -> [seen : Copies, pending : BOOLEAN]]
    BY <2>2 DEF DeskTypes
  <2> QED BY <1>1, <1>4, <2>2, <2>3, <2>4, <2>5, OneJobGoesOn
<1>6. CASE Desk!Show(j)
  <2>1. r.at = "read" /\ page' = Desk!Refreshed(j) /\ job' = [job EXCEPT ![j] = Desk!Free]
    BY <1>1, <1>6 DEF Desk!Show
  <2>2. \/ page' = page
        \/ r.live = "here" /\ page' = [page EXCEPT ![r.on] = [seen |-> r.copy, pending |-> FALSE]]
    BY <1>1, <2>1 DEF Desk!Refreshed
  <2>3. ~r.bad /\ r.copy \in Copies
    BY <1>2, <2>1 DEF Fits, JobRecords
  <2>4. page' \in [Desk!Pages -> [seen : Copies, pending : BOOLEAN]]
    <3>1. PICK s : s = [seen |-> r.copy, pending |-> FALSE]
      OBVIOUS
    <3>2. s \in [seen : Copies, pending : BOOLEAN]
      BY <2>3, <3>1
    <3>3. page' = page \/ page' = [page EXCEPT ![r.on] = s]
      BY <2>2, <3>1
    <3> QED BY <3>2, <3>3 DEF DeskTypes
  <2>5. ASSUME NEW d \in Desk!Pages, page'[d] # page[d]
        PROVE  Busy(j, d)
    <3>1. r.live = "here" /\ page' = [page EXCEPT ![r.on] = [seen |-> r.copy, pending |-> FALSE]]
      BY <2>2, <2>5
    <3>2. r.on = d
      BY <2>5, <3>1 DEF DeskTypes
    <3> QED BY <1>1, <2>1, <2>3, <3>1, <3>2 DEF Busy
  <2> QED BY <1>4, <2>1, <2>4, <2>5, FreeIsRecord, OneJobGoesOn
<1> QED BY <1>5, <1>6

LEMMA BreakKeeps ==
  ASSUME DeskTypes, \A j \in Jobs : Fits(job[j]), OneBusy, NEW j \in Jobs,
         \/ Desk!WalletRefuses(j) \/ Desk!ReceiptLost(j)
         \/ Desk!LoseSync(j) \/ Desk!RefreshFails(j)
  PROVE  DeskTypes' /\ (\A i \in Jobs : Fits(job'[i])) /\ OneBusy'
<1>1. Desk!Fail(j) /\ paidFor' = paidFor /\ job[j].at \notin {"free", "ask"}
  BY DEF Desk!WalletRefuses, Desk!ReceiptLost, Desk!LoseSync, Desk!RefreshFails
<1>2. order' = order \/ order' = Desk!Recorded(j)
  BY DEF Desk!WalletRefuses, Desk!ReceiptLost, Desk!LoseSync, Desk!RefreshFails
<1>3. order' \in [Orders -> Desk!Statuses] /\ paidFor' \in [Orders -> Nat]
  BY <1>1, <1>2 DEF DeskTypes, Desk!Recorded, Desk!Statuses
<1> QED BY <1>1, <1>3, FailKeeps

(* One request of a press is answered.                                      *)
LEMMA AnswerKeeps ==
  ASSUME DeskTypes, \A j \in Jobs : Fits(job[j]), OneBusy, NEW j \in Jobs,
         NEW o, NEW served \in BOOLEAN, NEW ok \in BOOLEAN, Desk!Answer(j, o, served, ok)
  PROVE  DeskTypes' /\ (\A i \in Jobs : Fits(job'[i])) /\ OneBusy'
<1>1. PICK r : r = job[j]
  OBVIOUS
<1>2. r \in JobRecords /\ Fits(r) /\ r.at = "ask" /\ o \in r.todo /\ paidFor' = paidFor
  BY <1>1 DEF DeskTypes, Desk!Answer
<1>3. PICK bad : bad = (r.bad \/ ~ok)
  OBVIOUS
<1>4. PICK q : q = Desk!AfterOne(j, o, bad)
  OBVIOUS
<1>5. job' = [job EXCEPT ![j] = q]
  BY <1>1, <1>3, <1>4 DEF Desk!Answer
<1>6. \/ page' = page
      \/ ~ok /\ ~r.bad /\ r.live = "here" /\ page' = [page EXCEPT ![r.on].pending = FALSE]
  BY <1>1 DEF Desk!Answer, Desk!Caught
<1>7. order' \in [Orders -> Desk!Statuses] /\ paidFor' \in [Orders -> Nat]
  <2>1. order' = order \/ order' = [order EXCEPT ![o] = Desk!After(r.act)]
    BY <1>1 DEF Desk!Answer, Desk!Served
  <2>2. Desk!After(r.act) \in Desk!Statuses
    BY <1>2 DEF Fits, Desk!After, Desk!Statuses
  <2> QED BY <1>2, <2>1, <2>2 DEF DeskTypes
<1>8. page' \in [Desk!Pages -> [seen : Copies, pending : BOOLEAN]]
  BY <1>6 DEF DeskTypes
<1>9. /\ q \in JobRecords /\ Fits(q)
      /\ q.at = "free" \/ (q.on = r.on /\ q.live = r.live /\ q.act = r.act /\ (r.bad => q.bad))
      /\ bad => q.at = "free" \/ q.bad
  <2>1. CASE q = Desk!Free
    BY <2>1, FreeIsRecord
  <2>2. CASE r.todo \ {o} # {} /\ q = [r EXCEPT !.todo = r.todo \ {o}, !.bad = bad]
    <3>1. /\ q \in JobRecords /\ q.on = r.on /\ q.live = r.live /\ q.act = r.act /\ q.bad = bad
          /\ q.at = r.at /\ q.copy = r.copy
      BY <1>2, <1>3, <2>2 DEF JobRecords
    <3>2. Fits(q)
      BY <1>2, <3>1 DEF Fits
    <3> QED BY <1>3, <3>1, <3>2
  <2>3. CASE ~bad /\ q = [r EXCEPT !.todo = {}, !.at = "refresh"]
    <3>1. /\ q \in JobRecords /\ q.on = r.on /\ q.live = r.live /\ q.act = r.act /\ q.bad = r.bad
          /\ q.at = "refresh" /\ q.copy = r.copy /\ q.todo = {}
      BY <1>2, <2>3 DEF JobRecords, Ats
    <3>2. Fits(q)
      BY <1>2, <1>3, <2>3, <3>1 DEF Fits
    <3> QED BY <2>3, <3>1, <3>2
  <2> QED BY <1>1, <1>4, <2>1, <2>2, <2>3 DEF Desk!AfterOne
<1>10. ASSUME NEW d \in Desk!Pages, page'[d] # page[d]
       PROVE  Busy(j, d) /\ (q.at = "free" \/ q.bad)
  BY <1>1, <1>2, <1>3, <1>6, <1>9, <1>10 DEF DeskTypes, Busy
<1> QED BY <1>1, <1>2, <1>5, <1>7, <1>8, <1>9, <1>10, OneJobGoesOn

(* Orders change, handlers and pages do not.                                *)
LEMMA OrdersKeep ==
  ASSUME DeskTypes, \A j \in Jobs : Fits(job[j]), OneBusy,
         \/ \E o \in Orders : Desk!Confirm(o)
         \/ \E p \in Proposals : Desk!AutoPay(p)
  PROVE  DeskTypes' /\ (\A i \in Jobs : Fits(job'[i])) /\ OneBusy'
<1>1. page' = page /\ job' = job
  BY DEF Desk!Confirm, Desk!AutoPay
<1>2. order' \in [Orders -> Desk!Statuses] /\ paidFor' \in [Orders -> Nat]
  <2>1. CASE \E o \in Orders : Desk!Confirm(o)
    BY <2>1 DEF Desk!Confirm, DeskTypes, Desk!Statuses
  <2>2. CASE \E p \in Proposals : Desk!AutoPay(p)
    <3>1. PICK p \in Proposals : Desk!AutoPay(p)
      BY <2>2
    <3>2. PICK due : due = {o \in Desk!Of(p) : order[o] = "ready"}
      OBVIOUS
    <3>3. /\ order' = [o \in Orders |-> IF o \in due THEN "paid" ELSE order[o]]
          /\ paidFor' = [o \in Orders |-> IF o \in due THEN paidFor[o] + 1 ELSE paidFor[o]]
      BY <3>1, <3>2 DEF Desk!AutoPay
    <3> QED BY <3>3 DEF DeskTypes, Desk!Statuses
  <2> QED BY <2>1, <2>2
<1> QED BY <1>1, <1>2 DEF DeskTypes, OneBusy, Busy

(* A press starts one handler.                                              *)
LEMMA PressKeeps ==
  ASSUME DeskTypes, \A j \in Jobs : Fits(job[j]), OneBusy, NEW d \in Desk!Pages, NEW j \in Jobs,
         NEW r \in JobRecords, Fits(r), r.at # "free", r.act # "mount", r.on = d, job[j].at = "free",
         job' = [job EXCEPT ![j] = r], Desk!Pending(d), UNCHANGED <<order, paidFor>>,
         d \in Payers => \A i \in Jobs : ~Busy(i, d)
  PROVE  DeskTypes' /\ (\A i \in Jobs : Fits(job'[i])) /\ OneBusy'
<1>1. job' \in [Jobs -> JobRecords] /\ job'[j] = r /\ \A i \in Jobs \ {j} : job'[i] = job[i]
  BY DEF DeskTypes
<1>2. /\ page' \in [Desk!Pages -> [seen : Copies, pending : BOOLEAN]] /\ page'[d].pending
      /\ \A e \in Desk!Pages \ {d} : page'[e] = page[e]
  BY DEF DeskTypes, Desk!Pending
<1>3. DeskTypes' /\ \A i \in Jobs : Fits(job'[i])
  BY <1>1, <1>2 DEF DeskTypes
<1>4. ASSUME NEW e \in Payers, NEW k \in Jobs, Busy(k, e)'
      PROVE  /\ \A i \in Jobs : Busy(i, e)' => i = k
             /\ IF job'[k].act = "mount" THEN page'[e].seen = Desk!NoCopy ELSE page'[e].pending
  <2>1. CASE e = d
    <3>1. \A i \in Jobs \ {j} : ~Busy(i, e)'
      BY <1>1, <2>1 DEF Busy
    <3> QED BY <1>1, <1>2, <1>4, <2>1, <3>1
  <2>2. CASE e # d
    <3>1. \A i \in Jobs : Busy(i, e)' => Busy(i, e) /\ job'[i].act = job[i].act
      <4>1. ~Busy(j, e)'
        BY <1>1, <2>2 DEF Busy
      <4> QED BY <1>1, <4>1 DEF Busy
    <3>2. page'[e] = page[e]
      BY <1>2, <2>2 DEF Desk!Pages
    <3> QED BY <1>4, <3>1, <3>2 DEF OneBusy
  <2> QED BY <2>1, <2>2
<1> QED BY <1>3, <1>4 DEF OneBusy

(* No button of a payouts page is pressed while a handler keeps them off,   *)
(* and before its mount has read the page lists nothing.                    *)
LEMMA NobodyBusy ==
  ASSUME DeskTypes, OneBusy, NEW d \in Payers, ~page[d].pending,
         NEW o \in Orders, page[d].seen[o] = "ready"
  PROVE  \A i \in Jobs : ~Busy(i, d)
<1>1. Desk!NoCopy[o] # "ready"
  BY DEF Desk!NoCopy
<1> QED BY <1>1 DEF OneBusy

LEMMA PayPressed ==
  ASSUME DeskTypes, \A j \in Jobs : Fits(job[j]), OneBusy, NEW d \in Payers,
         NEW ps, Desk!PressPay(d, ps)
  PROVE  \E j \in Jobs, r \in JobRecords :
           /\ job[j].at = "free" /\ job' = [job EXCEPT ![j] = r] /\ Desk!Pending(d)
           /\ Fits(r) /\ r.at = "sign" /\ r.act = "pay" /\ r.on = d /\ r.live = "here" /\ ~r.bad
           /\ \A o \in r.todo : page[d].seen[o] = "ready"
           /\ \A i \in Jobs : ~Busy(i, d)
           /\ UNCHANGED <<order, paidFor>>
<1>1. PICK rows : rows = UNION {Desk!Payable(d, p) : p \in ps}
  OBVIOUS
<1>2. ps \in Desk!Selections(d) /\ ~page[d].pending /\ Desk!FreeJobs # {}
  BY DEF Desk!PressPay
<1>3. rows \in SUBSET Orders /\ \A o \in rows : page[d].seen[o] = "ready"
  BY <1>1 DEF Desk!Payable, Desk!Of
<1>4. \E o \in Orders : page[d].seen[o] = "ready"
  <2>1. PICK p \in ps : TRUE
    BY <1>2 DEF Desk!Selections
  <2>2. Desk!Payable(d, p) # {}
    BY <1>2, <2>1 DEF Desk!Selections
  <2> QED BY <2>2 DEF Desk!Payable, Desk!Of
<1>5. \A i \in Jobs : ~Busy(i, d)
  BY <1>2, <1>4, NobodyBusy
<1>6. PICK r : r = Desk!StartPay(d, rows)
  OBVIOUS
<1>7. /\ r.at = "sign" /\ r.act = "pay" /\ r.on = d /\ r.live = "here" /\ ~r.bad /\ r.todo = rows
      /\ r.copy = Desk!NoCopy
  BY <1>6 DEF Desk!StartPay, Desk!Free
<1>8. r \in JobRecords
  BY <1>3, <1>6, DeskSets DEF Desk!StartPay, Desk!Free, JobRecords, Ats, Acts, Copies
<1>9. Fits(r)
  BY <1>7 DEF Fits
<1>10. job' = [job EXCEPT ![Desk!FirstFree] = r] /\ Desk!Pending(d) /\ UNCHANGED <<order, paidFor>>
  BY <1>1, <1>6 DEF Desk!PressPay, Desk!Pending
<1> QED BY <1>2, <1>3, <1>5, <1>7, <1>8, <1>9, <1>10, FirstIsFree

LEMMA OnePressed ==
  ASSUME DeskTypes, \A j \in Jobs : Fits(job[j]), OneBusy, NEW d \in Desk!Pages,
         NEW rows \in SUBSET Orders, NEW act \in {"accept", "complete", "cancel"}, Desk!PressOne(d, rows, act),
         d \in Payers => \A o \in rows : page[d].seen[o] = "ready"
  PROVE  \E j \in Jobs, r \in JobRecords :
           /\ job[j].at = "free" /\ job' = [job EXCEPT ![j] = r] /\ Desk!Pending(d)
           /\ Fits(r) /\ r.at = "ask" /\ r.act = act /\ r.on = d
           /\ d \in Payers => \A i \in Jobs : ~Busy(i, d)
           /\ UNCHANGED <<order, paidFor>>
<1>1. ~page[d].pending /\ rows # {} /\ Desk!FreeJobs # {}
  BY DEF Desk!PressOne
<1>2. d \in Payers => \A i \in Jobs : ~Busy(i, d)
  BY <1>1, NobodyBusy
<1>3. PICK r : r = Desk!Asking(d, act, rows)
  OBVIOUS
<1>4. r.at = "ask" /\ r.act = act /\ r.on = d /\ ~r.bad /\ r.todo = rows /\ r.copy = Desk!NoCopy
  BY <1>3 DEF Desk!Asking, Desk!Free
<1>5. r \in JobRecords
  BY <1>3 DEF Desk!Asking, Desk!Free, JobRecords, Ats, Acts, Copies
<1>6. Fits(r)
  BY <1>4 DEF Fits
<1>7. job' = [job EXCEPT ![Desk!FirstFree] = r] /\ Desk!Pending(d) /\ UNCHANGED <<order, paidFor>>
  BY <1>3 DEF Desk!PressOne
<1> QED BY <1>1, <1>2, <1>4, <1>5, <1>6, <1>7, FirstIsFree

(* The list starts a handler for each row: as many free ones are taken.     *)
LEMMA ListPressed ==
  ASSUME DeskTypes, NEW p, NEW f, NEW act, Desk!PressOnList(p, f, act)
  PROVE  \E T \in [Jobs -> SUBSET Orders], N \in SUBSET Jobs :
           /\ \A j \in N : job[j].at = "free"
           /\ job' = [j \in Jobs |-> IF j \in N THEN Desk!Asking("list", act, T[j]) ELSE job[j]]
<1>1. PICK rows : rows = Desk!OnList(p, f, act)
  OBVIOUS
<1>2. rows \in SUBSET Orders
  BY <1>1 DEF Desk!OnList, Desk!Grouped, Desk!Of
<1>3. PICK js : js = {S \in SUBSET Desk!FreeJobs : Desk!Cardinality(S) = Desk!Cardinality(rows)}
  OBVIOUS
<1>4. js # {}
  BY <1>1, <1>3 DEF Desk!PressOnList
<1>5. PICK S : S = CHOOSE T \in js : TRUE
  OBVIOUS
<1>6. S \in js
  BY <1>4, <1>5
<1>7. S \in SUBSET Jobs /\ (\A j \in S : job[j].at = "free") /\ Cardinality(S) = Cardinality(rows)
  BY <1>3, <1>6 DEF Desk!FreeJobs, Desk!Cardinality, Cardinality
<1>8. \E r \in [rows -> S] : \A a, b \in rows : r[a] = r[b] => a = b
  <2>1. IsFiniteSet(S) /\ IsFiniteSet(rows)
    BY <1>2, <1>7, DeskSets, FS_Subset
  <2>2. ExistsBijection(1..Cardinality(S), S) /\ ExistsBijection(1..Cardinality(rows), rows)
    BY <2>1, FS_CardinalityType
  <2>3. ExistsBijection(rows, S)
    <3>1. PICK I : I = 1..Cardinality(rows)
      OBVIOUS
    <3>2. ExistsBijection(I, S) /\ ExistsBijection(I, rows)
      BY <1>7, <2>2, <3>1
    <3>3. ExistsBijection(rows, I)
      BY <3>2, Fun_ExistsBijSymmetric
    <3> QED BY <3>2, <3>3, Fun_ExistsBijTransitive
  <2> QED BY <2>3 DEF ExistsBijection, Bijection, Injection, IsInjective
<1>9. PICK run : run = CHOOSE r \in [rows -> S] : \A a, b \in rows : r[a] = r[b] => a = b
  OBVIOUS
<1>10. run \in [rows -> S]
  BY <1>8, <1>9
<1>11. job' = [j \in Jobs |-> IF \E o \in rows : run[o] = j
                 THEN Desk!Asking("list", act, {o \in rows : run[o] = j}) ELSE job[j]]
  BY <1>1, <1>3, <1>5, <1>9 DEF Desk!PressOnList
<1>12. PICK N : N = {j \in Jobs : \E o \in rows : run[o] = j}
  OBVIOUS
<1>13. PICK T : T = [j \in Jobs |-> {o \in rows : run[o] = j}]
  OBVIOUS
<1>14. N \in SUBSET Jobs /\ (\A j \in N : job[j].at = "free") /\ T \in [Jobs -> SUBSET Orders]
  BY <1>2, <1>7, <1>10, <1>12, <1>13
<1>15. job' = [j \in Jobs |-> IF j \in N THEN Desk!Asking("list", act, T[j]) ELSE job[j]]
  BY <1>11, <1>12, <1>13
<1> QED BY <1>14, <1>15

LEMMA ListPressKeeps ==
  ASSUME DeskTypes, \A j \in Jobs : Fits(job[j]), OneBusy,
         NEW p, NEW f, NEW act \in {"accept", "complete"}, Desk!PressOnList(p, f, act)
  PROVE  DeskTypes' /\ (\A i \in Jobs : Fits(job'[i])) /\ OneBusy'
<1>1. PICK T \in [Jobs -> SUBSET Orders], N \in SUBSET Jobs :
        /\ \A j \in N : job[j].at = "free"
        /\ job' = [j \in Jobs |-> IF j \in N THEN Desk!Asking("list", act, T[j]) ELSE job[j]]
  BY ListPressed
<1>2. page' = [page EXCEPT !["list"].pending = TRUE] /\ UNCHANGED <<order, paidFor>>
  BY DEF Desk!PressOnList, Desk!Pending
<1>3. ASSUME NEW j \in N
      PROVE  /\ job'[j] \in JobRecords /\ Fits(job'[j]) /\ job'[j].on = "list"
  <2>1. PICK r : r = Desk!Asking("list", act, T[j])
    OBVIOUS
  <2>2. r.at = "ask" /\ r.act = act /\ r.on = "list" /\ ~r.bad /\ r.copy = Desk!NoCopy
    BY <2>1 DEF Desk!Asking, Desk!Free
  <2>3. r \in JobRecords
    BY <2>1 DEF Desk!Asking, Desk!Free, JobRecords, Ats, Acts, Copies, Desk!Pages
  <2>4. Fits(r)
    BY <2>2 DEF Fits
  <2>5. job'[j] = r
    BY <1>1, <2>1
  <2> QED BY <2>2, <2>3, <2>4, <2>5
<1>4. \A j \in Jobs \ N : job'[j] = job[j]
  BY <1>1
<1>5. job' \in [Jobs -> JobRecords] /\ \A i \in Jobs : Fits(job'[i])
  <2>1. \A j \in Jobs : job'[j] \in JobRecords
    BY <1>3, <1>4 DEF DeskTypes
  <2>2. job' = [j \in Jobs |-> job'[j]]
    BY <1>1
  <2> QED BY <1>3, <1>4, <2>1, <2>2
<1>6. /\ page' \in [Desk!Pages -> [seen : Copies, pending : BOOLEAN]]
      /\ \A e \in Payers : page'[e] = page[e] /\ e # "list"
  BY <1>2, DeskSets DEF DeskTypes
<1>7. \A e \in Payers, i \in Jobs : Busy(i, e)' => Busy(i, e) /\ job'[i] = job[i]
  BY <1>3, <1>4, <1>6 DEF Busy
<1>8. OneBusy'
  <2>1. ASSUME NEW e \in Payers, NEW k \in Jobs, Busy(k, e)'
        PROVE  /\ \A i \in Jobs : Busy(i, e)' => i = k
               /\ IF job'[k].act = "mount" THEN page'[e].seen = Desk!NoCopy ELSE page'[e].pending
    BY <1>6, <1>7, <2>1 DEF OneBusy
  <2> QED BY <2>1 DEF OneBusy
<1> QED BY <1>2, <1>5, <1>6, <1>8 DEF DeskTypes

(* A page that comes back is empty, its earlier handlers no longer show     *)
(* anything, and it has one that reads the orders.                          *)
Comes(d) ==
  \E m \in Jobs :
    /\ job[m].at = "free" /\ page' = [page EXCEPT ![d] = Desk!Fresh] /\ UNCHANGED <<order, paidFor>>
    /\ job' = [j \in Jobs |-> job'[j]] /\ job'[m] = Desk!Mounting(d)
    /\ \A j \in Jobs \ {m} :
         \/ job'[j] = job[j] /\ ~(job[j].at # "free" /\ job[j].on = d)
         \/ /\ job[j].at # "free" /\ job[j].on = d
            /\ \/ \E l \in {"left", "gone"} : job'[j] = [job[j] EXCEPT !.live = l]
               \/ job'[j] = Desk!Free

LEMMA MountsFirst ==
  ASSUME NEW d \in Desk!Pages, NEW js, js = [j \in Jobs |-> js[j]], Desk!FreeJobs # {},
         job' = Desk!Mount(js, d)
  PROVE  /\ job' = [j \in Jobs |-> job'[j]] /\ job'[Desk!FirstFree] = Desk!Mounting(d)
         /\ \A j \in Jobs \ {Desk!FirstFree} : job'[j] = js[j]
<1>1. PICK m \in Jobs : m = Desk!FirstFree
  BY FirstIsFree
<1>2. job' = [js EXCEPT ![m] = Desk!Mounting(d)]
  BY <1>1, DeskSets DEF Desk!Mount, Desk!MountList, Desk!MountDetail, Desk!MountPayouts
<1> QED BY <1>1, <1>2

LEMMA PageComes ==
  ASSUME DeskTypes, NEW d \in Desk!Pages, Desk!Return(d) \/ Desk!Reload(d)
  PROVE  Comes(d)
<1>1. /\ Desk!FreeJobs # {} /\ page' = [page EXCEPT ![d] = Desk!Fresh] /\ UNCHANGED <<order, paidFor>>
  BY DEF Desk!Return, Desk!Reload
<1>2. PICK m \in Jobs : m = Desk!FirstFree /\ job[m].at = "free"
  BY <1>1, FirstIsFree
<1>3. \A j \in Jobs : j \in Desk!JobsOf(d) <=> job[j].at # "free" /\ job[j].on = d
  BY DEF Desk!JobsOf
<1>4. CASE Desk!Return(d)
  <2>1. PICK js : js = [j \in Jobs |-> IF j \in Desk!JobsOf(d) THEN [job[j] EXCEPT !.live = "left"] ELSE job[j]]
    OBVIOUS
  <2>2. job' = Desk!Mount(js, d)
    BY <1>4, <2>1 DEF Desk!Return
  <2>3. js = [j \in Jobs |-> js[j]]
    BY <2>1
  <2>4. /\ job' = [j \in Jobs |-> job'[j]] /\ job'[m] = Desk!Mounting(d)
        /\ \A j \in Jobs \ {m} : job'[j] = js[j]
    BY <1>1, <1>2, <2>2, <2>3, MountsFirst
  <2>5. ASSUME NEW j \in Jobs \ {m}
        PROVE  \/ job'[j] = job[j] /\ ~(job[j].at # "free" /\ job[j].on = d)
               \/ /\ job[j].at # "free" /\ job[j].on = d
                  /\ \/ \E l \in {"left", "gone"} : job'[j] = [job[j] EXCEPT !.live = l]
                     \/ job'[j] = Desk!Free
    BY <1>3, <2>1, <2>4
  <2> QED BY <1>1, <1>2, <2>4, <2>5 DEF Comes
<1>5. CASE Desk!Reload(d)
  <2>1. PICK js : js = [j \in Jobs |-> IF j \notin Desk!JobsOf(d) THEN job[j]
                                       ELSE IF job[j].at \in {"ask", "sync"}
                                       THEN [job[j] EXCEPT !.live = "gone"] ELSE Desk!Free]
    OBVIOUS
  <2>2. job' = Desk!Mount(js, d)
    BY <1>5, <2>1 DEF Desk!Reload
  <2>3. js = [j \in Jobs |-> js[j]]
    BY <2>1
  <2>4. /\ job' = [j \in Jobs |-> job'[j]] /\ job'[m] = Desk!Mounting(d)
        /\ \A j \in Jobs \ {m} : job'[j] = js[j]
    BY <1>1, <1>2, <2>2, <2>3, MountsFirst
  <2>5. ASSUME NEW j \in Jobs \ {m}
        PROVE  \/ job'[j] = job[j] /\ ~(job[j].at # "free" /\ job[j].on = d)
               \/ /\ job[j].at # "free" /\ job[j].on = d
                  /\ \/ \E l \in {"left", "gone"} : job'[j] = [job[j] EXCEPT !.live = l]
                     \/ job'[j] = Desk!Free
    BY <1>3, <2>1, <2>4
  <2> QED BY <1>1, <1>2, <2>4, <2>5 DEF Comes
<1> QED BY <1>4, <1>5

LEMMA ComesKeeps ==
  ASSUME DeskTypes, \A j \in Jobs : Fits(job[j]), OneBusy, NEW d \in Desk!Pages, Comes(d)
  PROVE  DeskTypes' /\ (\A i \in Jobs : Fits(job'[i])) /\ OneBusy'
<1>1. PICK m \in Jobs :
        /\ job[m].at = "free" /\ page' = [page EXCEPT ![d] = Desk!Fresh] /\ UNCHANGED <<order, paidFor>>
        /\ job' = [j \in Jobs |-> job'[j]] /\ job'[m] = Desk!Mounting(d)
        /\ \A j \in Jobs \ {m} :
             \/ job'[j] = job[j] /\ ~(job[j].at # "free" /\ job[j].on = d)
             \/ /\ job[j].at # "free" /\ job[j].on = d
                /\ \/ \E l \in {"left", "gone"} : job'[j] = [job[j] EXCEPT !.live = l]
                   \/ job'[j] = Desk!Free
  BY DEF Comes
<1>2. PICK r : r = Desk!Mounting(d)
  OBVIOUS
<1>3. /\ r.at = "refresh" /\ r.act = "mount" /\ r.on = d /\ ~r.bad /\ r.copy = Desk!NoCopy /\ r.todo = {}
      /\ r \in JobRecords
  BY <1>2 DEF Desk!Mounting, Desk!Free, JobRecords, Ats, Acts, Copies
<1>4. Fits(r)
  BY <1>3 DEF Fits
<1>5. ASSUME NEW j \in Jobs \ {m}
      PROVE  /\ job'[j] \in JobRecords /\ Fits(job'[j]) /\ \A e \in Payers : Busy(j, e)' => e # d /\ job'[j] = job[j]
  <2>1. job[j] \in JobRecords /\ Fits(job[j])
    BY DEF DeskTypes
  <2>2. CASE job'[j] = job[j] /\ ~(job[j].at # "free" /\ job[j].on = d)
    BY <2>1, <2>2 DEF Busy
  <2>3. CASE job[j].at # "free" /\ job[j].on = d /\ \E l \in {"left", "gone"} : job'[j] = [job[j] EXCEPT !.live = l]
    <3>1. PICK l \in {"left", "gone"} : job'[j] = [job[j] EXCEPT !.live = l]
      BY <2>3
    <3>2. PICK q, s : q = job'[j] /\ s = job[j]
      OBVIOUS
    <3>3. q = [s EXCEPT !.live = l] /\ s \in JobRecords /\ Fits(s) /\ s.at # "free"
      BY <2>1, <2>3, <3>1, <3>2
    <3>4. /\ q \in JobRecords /\ q.at = s.at /\ q.on = s.on /\ q.act = s.act /\ q.todo = s.todo
          /\ q.bad = s.bad /\ q.copy = s.copy /\ q.live = l
      BY <3>3 DEF JobRecords
    <3>5. Fits(q)
      BY <3>3, <3>4 DEF Fits
    <3> QED BY <3>2, <3>4, <3>5 DEF Busy
  <2>4. CASE job'[j] = Desk!Free
    BY <2>4, FreeIsRecord DEF Busy
  <2> QED BY <1>1, <2>2, <2>3, <2>4
<1>6. job' \in [Jobs -> JobRecords] /\ \A i \in Jobs : Fits(job'[i])
  <2>1. \A j \in Jobs : job'[j] \in JobRecords /\ Fits(job'[j])
    BY <1>1, <1>2, <1>3, <1>4, <1>5
  <2> QED BY <1>1, <2>1
<1>7. Desk!Fresh \in [seen : Copies, pending : BOOLEAN] /\ Desk!Fresh.seen = Desk!NoCopy
  BY DEF Desk!Fresh, Copies
<1>8. /\ page' \in [Desk!Pages -> [seen : Copies, pending : BOOLEAN]] /\ page'[d].seen = Desk!NoCopy
      /\ \A e \in Desk!Pages \ {d} : page'[e] = page[e]
  BY <1>1, <1>7 DEF DeskTypes
<1>9. ASSUME NEW e \in Payers, NEW k \in Jobs, Busy(k, e)'
      PROVE  /\ \A i \in Jobs : Busy(i, e)' => i = k
             /\ IF job'[k].act = "mount" THEN page'[e].seen = Desk!NoCopy ELSE page'[e].pending
  <2>1. CASE e = d
    BY <1>1, <1>2, <1>3, <1>5, <1>8, <1>9, <2>1
  <2>2. CASE e # d
    <3>1. ~Busy(m, e)'
      BY <1>1, <1>2, <1>3, <2>2 DEF Busy
    <3>2. \A i \in Jobs : Busy(i, e)' => Busy(i, e) /\ job'[i] = job[i]
      <4>1. ASSUME NEW i \in Jobs, Busy(i, e)'
            PROVE  Busy(i, e) /\ job'[i] = job[i]
        <5>1. i # m /\ job'[i] = job[i]
          BY <1>5, <3>1, <4>1
        <5> QED BY <4>1, <5>1 DEF Busy
      <4> QED BY <4>1
    <3>3. page'[e] = page[e]
      BY <1>8, <2>2, DeskSets
    <3> QED BY <1>9, <3>2, <3>3 DEF OneBusy
  <2> QED BY <2>1, <2>2
<1> QED BY <1>1, <1>6, <1>8, <1>9 DEF DeskTypes, OneBusy

Paying == OnceEach /\ HeldOnce /\ ListedUnpaid

LEMMA GroupOf ==
  ASSUME NEW j
  PROVE  /\ Desk!Group(j) \subseteq job[j].todo
         /\ job'[j].todo = job[j].todo => Desk!Group(j)' = Desk!Group(j)
BY DEF Desk!Group

(* What a step without trouble cannot have done.                            *)
LEMMA NoTrouble ==
  ASSUME Troubles, ~trouble'
  PROVE  /\ ~trouble
         /\ \A j \in Jobs : job[j].act = "pay" /\ EndsNow(j) =>
              job[j].at = "read" /\ job[j].live = "here" /\ page' = Desk!Refreshed(j)
         /\ \A o \in Orders, i, j \in Jobs : Holds(i, o) /\ Holds(j, o) => i = j
         /\ \A o \in Orders : PaidNow(o) =>
              /\ \A d \in Payers : Lists(d, o) => paidFor' = paidFor /\ PaysFrom(d, o)
              /\ \A j \in Jobs : Holds(j, o) => paidFor' = paidFor
BY DEF Troubles, Unrefreshed, Overlaps

(* No order is paid, no payment leaves, nobody takes an order on.           *)
LEMMA QuietStep ==
  ASSUME Paying, paidFor' = paidFor,
         \A o \in Orders : order'[o] = "paid" <=> order[o] = "paid",
         \A o \in Orders, i, j \in Jobs : Holds(i, o) /\ Holds(j, o) => i = j,
         \A j \in Jobs, o \in Orders :
           (Holds(j, o)' => Holds(j, o)) /\ (Sending(j, o) => Sending(j, o)'),
         \A d \in Payers, o \in Orders : page'[d].seen[o] = "ready" /\ order[o] = "paid" =>
           /\ page[d].seen[o] = "ready"
           /\ \A j \in Jobs : Busy(j, d) /\ job[j].act = "pay" => Busy(j, d)' /\ job'[j].act = "pay",
         \A d \in Payers, o \in Orders, j \in Jobs :
           Busy(j, d)' /\ job'[j].copy[o] = "ready" => order[o] # "paid"
  PROVE  Paying'
<1>1. OnceEach'
  <2>1. ASSUME NEW o \in Orders
        PROVE  /\ paidFor'[o] <= 1
               /\ paidFor'[o] > 0 => order'[o] = "paid" \/ \E j \in Jobs : Sending(j, o)'
    <3>1. /\ paidFor[o] <= 1
          /\ paidFor[o] > 0 => order[o] = "paid" \/ \E j \in Jobs : Sending(j, o)
      BY DEF Paying, OnceEach
    <3> QED BY <3>1
  <2> QED BY <2>1 DEF OnceEach
<1>2. HeldOnce'
  <2>1. ASSUME NEW j \in Jobs, NEW o \in Orders, Holds(j, o)'
        PROVE  order'[o] # "paid" /\ (paidFor'[o] = 0 \/ Sending(j, o)')
    <3>1. Holds(j, o) /\ \A i \in Jobs : Holds(i, o) => i = j
      BY <2>1
    <3>2. order[o] # "paid" /\ (paidFor[o] = 0 \/ Sending(j, o))
      BY <3>1 DEF Paying, HeldOnce
    <3> QED BY <3>2
  <2> QED BY <2>1 DEF HeldOnce
<1>3. ListedUnpaid'
  <2>1. ASSUME NEW d \in Payers, NEW o \in Orders, page'[d].seen[o] = "ready", order'[o] = "paid"
        PROVE  \E j \in Jobs : Busy(j, d)' /\ job'[j].act = "pay"
    <3>1. order[o] = "paid" /\ page[d].seen[o] = "ready"
      BY <2>1
    <3>2. PICK j \in Jobs : Busy(j, d) /\ job[j].act = "pay"
      BY <3>1 DEF Paying, ListedUnpaid
    <3> QED BY <2>1, <3>1, <3>2
  <2>2. ASSUME NEW d \in Payers, NEW o \in Orders, NEW j \in Jobs, Busy(j, d)', job'[j].copy[o] = "ready"
        PROVE  order'[o] # "paid"
    BY <2>2
  <2> QED BY <2>1, <2>2 DEF ListedUnpaid
<1> QED BY <1>1, <1>2, <1>3 DEF Paying

(* One handler goes on that is not paying, or goes on paying.               *)
LEMMA QuietJob ==
  ASSUME DeskTypes, Paying, Troubles, ~trouble', paidFor' = paidFor,
         \A o \in Orders : order'[o] = "paid" <=> order[o] = "paid",
         NEW j \in Jobs, NEW r, job'[j] = r, \A i \in Jobs \ {j} : job'[i] = job[i],
         \/ r.act # "pay" /\ job[j].act # "pay"
         \/ /\ r.act = "pay" /\ job[j].act = "pay" /\ r.todo = job[j].todo
            /\ r.on = job[j].on /\ r.live = job[j].live /\ r.bad = job[j].bad /\ r.at # "free"
            /\ job[j].at \in {"mined", "sync"} => r.at \in {"mined", "sync"},
         \A d \in Payers, o \in Orders : page'[d].seen[o] = "ready" /\ order[o] = "paid" =>
           page[d].seen[o] = "ready",
         \A o \in Orders : r.copy[o] = "ready" => order[o] # "paid" \/ r = job[j]
  PROVE  Paying'
<1>1. job'[j] = r /\ \A i \in Jobs \ {j} : job'[i] = job[i]
  OBVIOUS
<1>2. \A o \in Orders, i, k \in Jobs : Holds(i, o) /\ Holds(k, o) => i = k
  BY NoTrouble
<1>3. ASSUME NEW i \in Jobs, NEW o \in Orders
      PROVE  (Holds(i, o)' => Holds(i, o)) /\ (Sending(i, o) => Sending(i, o)')
  <2>1. CASE i = j
    <3>1. job[j].act # "pay" /\ job'[j].act # "pay"
            => ~Sending(j, o) /\ ~Holds(j, o)'
      BY DEF Sending, Holds
    <3>2. CASE r.todo = job[j].todo
      <4>1. Desk!Group(j)' = Desk!Group(j)
        BY <1>1, <3>2, GroupOf
      <4> QED BY <1>1, <2>1, <3>1, <4>1 DEF Sending, Holds
    <3> QED BY <1>1, <2>1, <3>1, <3>2
  <2>2. CASE i # j
    <3>1. job'[i] = job[i]
      BY <1>1, <2>2
    <3>2. Desk!Group(i)' = Desk!Group(i)
      BY <3>1, GroupOf
    <3> QED BY <3>1, <3>2 DEF Sending, Holds
  <2> QED BY <2>1, <2>2
<1>4. ASSUME NEW d \in Payers, NEW i \in Jobs, Busy(i, d), job[i].act = "pay"
      PROVE  Busy(i, d)' /\ job'[i].act = "pay"
  <2>1. CASE i = j
    BY <1>1, <1>4, <2>1 DEF Busy
  <2>2. CASE i # j
    BY <1>1, <1>4, <2>2 DEF Busy
  <2> QED BY <2>1, <2>2
<1>5. ASSUME NEW d \in Payers, NEW o \in Orders, NEW i \in Jobs, Busy(i, d)', job'[i].copy[o] = "ready"
      PROVE  order[o] # "paid"
  <2>1. CASE job'[i] = job[i]
    <3>1. Busy(i, d)
      BY <1>5, <2>1 DEF Busy
    <3> QED BY <1>5, <2>1, <3>1 DEF Paying, ListedUnpaid
  <2>2. CASE job'[i] # job[i]
    BY <1>1, <1>5, <2>2
  <2> QED BY <2>1, <2>2
<1> QED BY <1>2, <1>3, <1>4, <1>5, QuietStep

(* Handlers that show, read, answer or fail.                                *)
LEMMA RefreshPaying ==
  ASSUME DeskTypes, \A i \in Jobs : Fits(job[i]), Paying, Troubles, ~trouble', NEW j \in Jobs,
         Desk!Read(j) \/ Desk!Show(j) \/ Desk!ReceiptSeen(j)
  PROVE  Paying'
<1>1. PICK r : r = job[j]
  OBVIOUS
<1>2. r \in JobRecords /\ Fits(r) /\ order' = order /\ paidFor' = paidFor
  BY <1>1 DEF DeskTypes, Desk!Read, Desk!Show, Desk!ReceiptSeen
<1>3. CASE Desk!Read(j)
  <2>1. PICK q : q = [r EXCEPT !.at = "read", !.copy = order]
    OBVIOUS
  <2>2. job' = [job EXCEPT ![j] = q] /\ page' = page /\ r.at = "refresh"
    BY <1>1, <1>3, <2>1 DEF Desk!Read, DeskTypes
  <2>3. /\ q.on = r.on /\ q.live = r.live /\ q.act = r.act /\ q.bad = r.bad
        /\ q.at = "read" /\ q.todo = r.todo /\ q.copy = order
    BY <1>2, <2>1 DEF JobRecords
  <2>4. \/ q.act # "pay" /\ job[j].act # "pay"
        \/ /\ q.act = "pay" /\ job[j].act = "pay" /\ q.todo = job[j].todo
           /\ q.on = job[j].on /\ q.live = job[j].live /\ q.bad = job[j].bad /\ q.at # "free"
           /\ job[j].at \in {"mined", "sync"} => q.at \in {"mined", "sync"}
    BY <1>1, <2>2, <2>3
  <2>5. \A o \in Orders : q.copy[o] = "ready" => order[o] # "paid" \/ q = job[j]
    BY <2>3
  <2>6. \A o \in Orders : order'[o] = "paid" <=> order[o] = "paid"
    BY <1>2
  <2>7. \A d \in Payers, o \in Orders : page'[d].seen[o] = "ready" /\ order[o] = "paid" =>
          page[d].seen[o] = "ready"
    BY <2>2
  <2>8. job'[j] = q /\ \A i \in Jobs \ {j} : job'[i] = job[i]
    BY <2>2 DEF DeskTypes
  <2> QED BY <1>2, <2>2, <2>4, <2>5, <2>6, <2>7, <2>8, QuietJob
<1>4. CASE Desk!ReceiptSeen(j)
  <2>1. PICK q : q = [r EXCEPT !.at = "sync"]
    OBVIOUS
  <2>2. job' = [job EXCEPT ![j] = q] /\ page' = page /\ r.at = "mined"
    BY <1>1, <1>4, <2>1 DEF Desk!ReceiptSeen, DeskTypes
  <2>3. /\ q.on = r.on /\ q.live = r.live /\ q.act = r.act /\ q.bad = r.bad
        /\ q.at = "sync" /\ q.todo = r.todo /\ q.copy = r.copy
    BY <1>2, <2>1 DEF JobRecords
  <2>4. \A o \in Orders : q.copy[o] # "ready"
    BY <1>2, <2>2, <2>3 DEF Fits, Desk!NoCopy
  <2>5. \/ q.act # "pay" /\ job[j].act # "pay"
        \/ /\ q.act = "pay" /\ job[j].act = "pay" /\ q.todo = job[j].todo
           /\ q.on = job[j].on /\ q.live = job[j].live /\ q.bad = job[j].bad /\ q.at # "free"
           /\ job[j].at \in {"mined", "sync"} => q.at \in {"mined", "sync"}
    BY <1>1, <2>2, <2>3
  <2>6. \A o \in Orders : q.copy[o] = "ready" => order[o] # "paid" \/ q = job[j]
    BY <2>4
  <2>7. \A o \in Orders : order'[o] = "paid" <=> order[o] = "paid"
    BY <1>2
  <2>8. \A d \in Payers, o \in Orders : page'[d].seen[o] = "ready" /\ order[o] = "paid" =>
          page[d].seen[o] = "ready"
    BY <2>2
  <2>9. job'[j] = q /\ \A i \in Jobs \ {j} : job'[i] = job[i]
    BY <2>2 DEF DeskTypes
  <2> QED BY <1>2, <2>2, <2>5, <2>6, <2>7, <2>8, <2>9, QuietJob
<1>5. CASE Desk!Show(j)
  <2>1. r.at = "read" /\ page' = Desk!Refreshed(j) /\ job' = [job EXCEPT ![j] = Desk!Free]
    BY <1>1, <1>5 DEF Desk!Show
  <2>2. r.todo = {} /\ ~r.bad
    BY <1>2, <2>1 DEF Fits
  <2>3. \/ page' = page /\ r.live # "here"
        \/ r.live = "here" /\ page' = [page EXCEPT ![r.on] = [seen |-> r.copy, pending |-> FALSE]]
    BY <1>1, <2>1 DEF Desk!Refreshed
  <2>4. /\ job' \in [Jobs -> {job'[i] : i \in Jobs}] /\ job'[j] = Desk!Free
        /\ \A i \in Jobs \ {j} : job'[i] = job[i]
    BY <2>1 DEF DeskTypes
  <2>5. ASSUME NEW d \in Payers, NEW o \in Orders, page'[d].seen[o] = "ready", order[o] = "paid"
        PROVE  /\ page[d].seen[o] = "ready"
               /\ r.act = "pay" => ~Busy(j, d)
    <3>0. d \in Desk!Pages
      BY DeskSets
    <3>1. CASE r.live = "here" /\ r.on = d
      <4>1. page'[d].seen = r.copy
        BY <2>3, <3>0, <3>1 DEF DeskTypes
      <4>2. Busy(j, d) /\ job[j].copy[o] = "ready"
        BY <1>1, <2>1, <2>2, <2>5, <3>1, <4>1 DEF Busy
      <4> QED BY <2>5, <4>2 DEF Paying, ListedUnpaid
    <3>2. CASE ~(r.live = "here" /\ r.on = d)
      <4>0. page \in [Desk!Pages -> [seen : Copies, pending : BOOLEAN]]
        BY DEF DeskTypes
      <4>1. page'[d] = page[d]
        BY <2>3, <3>0, <3>2, <4>0
      <4> QED BY <1>1, <2>5, <3>2, <4>1 DEF Busy
    <3> QED BY <3>1, <3>2
  <2>6. \A o \in Orders, i, k \in Jobs : Holds(i, o) /\ Holds(k, o) => i = k
    BY NoTrouble
  <2>7. ASSUME NEW i \in Jobs, NEW o \in Orders
        PROVE  (Holds(i, o)' => Holds(i, o)) /\ (Sending(i, o) => Sending(i, o)')
    <3>1. CASE i = j
      BY <1>1, <2>1, <2>4, <3>1, FreeIsRecord DEF Holds, Sending
    <3>2. CASE i # j
      <4>1. job'[i] = job[i]
        BY <2>4, <3>2
      <4>2. Desk!Group(i)' = Desk!Group(i)
        BY <4>1, GroupOf
      <4> QED BY <4>1, <4>2 DEF Holds, Sending
    <3> QED BY <3>1, <3>2
  <2>8. ASSUME NEW d \in Payers, NEW o \in Orders, page'[d].seen[o] = "ready", order[o] = "paid",
               NEW i \in Jobs, Busy(i, d), job[i].act = "pay"
        PROVE  Busy(i, d)' /\ job'[i].act = "pay"
    <3>1. i # j
      <4>1. i = j => r.act = "pay" /\ Busy(j, d)
        BY <1>1, <2>8
      <4>2. d \in Payers /\ o \in Orders /\ page'[d].seen[o] = "ready" /\ order[o] = "paid"
        BY <2>8
      <4> QED BY <2>5, <4>1, <4>2
    <3> QED BY <2>4, <2>8, <3>1 DEF Busy
  <2>9. ASSUME NEW d \in Payers, NEW o \in Orders, NEW i \in Jobs, Busy(i, d)', job'[i].copy[o] = "ready"
        PROVE  order[o] # "paid"
    <3>1. i # j
      BY <2>4, <2>9, FreeIsRecord DEF Busy
    <3>2. Busy(i, d) /\ job[i].copy[o] = "ready"
      BY <2>4, <2>9, <3>1 DEF Busy
    <3> QED BY <3>2 DEF Paying, ListedUnpaid
  <2>10. \A d \in Payers, o \in Orders : page'[d].seen[o] = "ready" /\ order[o] = "paid" =>
           /\ page[d].seen[o] = "ready"
           /\ \A i \in Jobs : Busy(i, d) /\ job[i].act = "pay" => Busy(i, d)' /\ job'[i].act = "pay"
    BY <2>5, <2>8
  <2>11. \A d \in Payers, o \in Orders, i \in Jobs :
           Busy(i, d)' /\ job'[i].copy[o] = "ready" => order[o] # "paid"
    BY <2>9
  <2> QED BY <1>2, <2>6, <2>7, <2>10, <2>11, QuietStep
<1> QED BY <1>3, <1>4, <1>5

(* A payment that fails is trouble; another handler's failure changes       *)
(* nothing that matters.                                                    *)
LEMMA BreakPaying ==
  ASSUME DeskTypes, \A i \in Jobs : Fits(job[i]), Paying, Troubles, ~trouble', NEW j \in Jobs,
         \/ Desk!WalletRefuses(j) \/ Desk!ReceiptLost(j)
         \/ Desk!LoseSync(j) \/ Desk!RefreshFails(j)
  PROVE  Paying'
<1>1. PICK r : r = job[j]
  OBVIOUS
<1>2. r \in JobRecords /\ Fits(r) /\ r.at # "free" /\ Desk!Fail(j) /\ paidFor' = paidFor
  BY <1>1 DEF DeskTypes, Desk!WalletRefuses, Desk!ReceiptLost, Desk!LoseSync, Desk!RefreshFails
<1>3. job' = [job EXCEPT ![j] = Desk!Free] /\ page' = Desk!Caught(j)
  BY <1>2 DEF Desk!Fail
<1>4. \/ page' = page
      \/ r.live = "here" /\ page' = [page EXCEPT ![r.on].pending = FALSE]
  BY <1>1, <1>3 DEF Desk!Caught
<1>5. EndsNow(j)
  BY <1>1, <1>2, <1>3, FreeIsRecord DEF EndsNow, DeskTypes
<1>6. \A d \in Payers : page'[d].seen = page[d].seen
  BY <1>4, DeskSets DEF DeskTypes
<1>7. CASE r.act = "pay"
  <2>1. r.at = "read" /\ r.live = "here" /\ page' = Desk!Refreshed(j)
    BY <1>1, <1>5, <1>7, NoTrouble
  <2>2. Desk!Show(j)
    BY <1>1, <1>2, <1>3, <2>1 DEF Desk!Show, Desk!WalletRefuses, Desk!ReceiptLost, Desk!LoseSync,
       Desk!RefreshFails
  <2> QED BY <2>2, RefreshPaying
<1>8. CASE r.act # "pay"
  <2>1. Desk!RefreshFails(j) /\ order' = order
    BY <1>1, <1>2, <1>8 DEF Fits, Desk!WalletRefuses, Desk!ReceiptLost, Desk!LoseSync, Desk!RefreshFails
  <2>2. \A o \in Orders : Desk!Free.copy[o] # "ready"
    BY FreeIsRecord DEF Desk!NoCopy
  <2>3. job'[j] = Desk!Free /\ \A i \in Jobs \ {j} : job'[i] = job[i]
    BY <1>3 DEF DeskTypes
  <2>4. Desk!Free.act # "pay" /\ job[j].act # "pay"
    BY <1>1, <1>8, FreeIsRecord
  <2>5. PICK q : q = Desk!Free
    OBVIOUS
  <2> QED BY <1>2, <1>6, <2>1, <2>2, <2>3, <2>4, <2>5, QuietJob
<1> QED BY <1>7, <1>8

LEMMA AnswerPaying ==
  ASSUME DeskTypes, \A i \in Jobs : Fits(job[i]), Paying, Troubles, ~trouble', NEW j \in Jobs,
         NEW o, NEW served \in BOOLEAN, NEW ok \in BOOLEAN, Desk!Answer(j, o, served, ok)
  PROVE  Paying'
<1>1. PICK r : r = job[j]
  OBVIOUS
<1>2. r \in JobRecords /\ Fits(r) /\ r.at = "ask" /\ o \in r.todo /\ paidFor' = paidFor
  BY <1>1 DEF DeskTypes, Desk!Answer
<1>3. PICK q : q = Desk!AfterOne(j, o, r.bad \/ ~ok)
  OBVIOUS
<1>4. job' = [job EXCEPT ![j] = q]
  BY <1>1, <1>3 DEF Desk!Answer
<1>5. \/ page' = page
      \/ r.live = "here" /\ page' = [page EXCEPT ![r.on].pending = FALSE]
  BY <1>1 DEF Desk!Answer, Desk!Caught
<1>6. \A d \in Payers : page'[d].seen = page[d].seen
  BY <1>5, DeskSets DEF DeskTypes
<1>7. \A p \in Orders : order'[p] = "paid" <=> order[p] = "paid"
  <2>1. \/ order' = order
        \/ order[o] = Desk!Before(r.act) /\ order' = [order EXCEPT ![o] = Desk!After(r.act)]
    BY <1>1 DEF Desk!Answer, Desk!Served
  <2>2. Desk!Before(r.act) # "paid" /\ Desk!After(r.act) # "paid"
    BY <1>2 DEF Fits, Desk!Before, Desk!After
  <2> QED BY <1>2, <2>1, <2>2 DEF DeskTypes
<1>8. r.act # "pay" /\ r.copy = Desk!NoCopy
  BY <1>2 DEF Fits
<1>9. q.act # "pay" /\ q.copy = Desk!NoCopy
  BY <1>1, <1>2, <1>3, <1>8, FreeIsRecord DEF Desk!AfterOne, JobRecords
<1>10. \A p \in Orders : q.copy[p] # "ready"
  BY <1>9 DEF Desk!NoCopy
<1>11. job'[j] = q /\ \A i \in Jobs \ {j} : job'[i] = job[i]
  BY <1>4 DEF DeskTypes
<1>12. job[j].act # "pay"
  BY <1>1, <1>8
<1> QED BY <1>2, <1>6, <1>7, <1>9, <1>10, <1>11, <1>12, QuietJob

(* A receipt is confirmed; the background processor pays what nobody else   *)
(* lists or holds, or there is trouble.                                     *)
LEMMA OrdersPaying ==
  ASSUME DeskTypes, Paying, Troubles, ~trouble',
         \/ \E o \in Orders : Desk!Confirm(o)
         \/ \E p \in Proposals : Desk!AutoPay(p)
  PROVE  Paying'
<1>1. page' = page /\ job' = job
  BY DEF Desk!Confirm, Desk!AutoPay
<1>2. \A j \in Jobs, o \in Orders : Holds(j, o)' = Holds(j, o) /\ Sending(j, o)' = Sending(j, o)
  BY <1>1 DEF Holds, Sending, Desk!Group
<1>3. \A j \in Jobs, d \in Payers : Busy(j, d)' = Busy(j, d)
  BY <1>1 DEF Busy
<1>4. \A o \in Orders, i, j \in Jobs : Holds(i, o) /\ Holds(j, o) => i = j
  BY NoTrouble
<1>5. CASE \E o \in Orders : Desk!Confirm(o)
  <2>1. paidFor' = paidFor /\ \A p \in Orders : order'[p] = "paid" <=> order[p] = "paid"
    BY <1>5 DEF Desk!Confirm, DeskTypes
  <2>2. \A d \in Payers, o \in Orders, j \in Jobs : Busy(j, d) /\ job[j].copy[o] = "ready" => order[o] # "paid"
    BY DEF Paying, ListedUnpaid
  <2> QED BY <1>1, <1>2, <1>3, <1>4, <2>1, <2>2, QuietStep
<1>6. CASE \E p \in Proposals : Desk!AutoPay(p)
  <2>1. PICK p \in Proposals : Desk!AutoPay(p)
    BY <1>6
  <2>2. PICK due : due = {o \in Desk!Of(p) : order[o] = "ready"}
    OBVIOUS
  <2>3. ASSUME NEW o \in Orders
        PROVE  /\ order'[o] = IF o \in due THEN "paid" ELSE order[o]
               /\ paidFor'[o] = IF o \in due THEN paidFor[o] + 1 ELSE paidFor[o]
    BY <2>1, <2>2 DEF Desk!AutoPay
  <2>4. ASSUME NEW o \in Orders, o \in due
        PROVE  /\ PaidNow(o) /\ paidFor' # paidFor
               /\ \A d \in Payers : ~Lists(d, o)
               /\ \A j \in Jobs : ~Holds(j, o)
    <3>1. order[o] = "ready" /\ order'[o] = "paid"
      BY <2>2, <2>3, <2>4
    <3>2. paidFor[o] \in Nat /\ paidFor'[o] = paidFor[o] + 1
      BY <2>3, <2>4 DEF DeskTypes
    <3>3. PaidNow(o) /\ paidFor' # paidFor
      BY <3>1, <3>2 DEF PaidNow
    <3> QED BY <3>3, NoTrouble
  <2>5. OnceEach'
    <3>1. ASSUME NEW o \in Orders
          PROVE  /\ paidFor'[o] <= 1
                 /\ paidFor'[o] > 0 => order'[o] = "paid" \/ \E j \in Jobs : Sending(j, o)'
      <4>1. /\ paidFor[o] <= 1 /\ paidFor[o] \in Nat
            /\ paidFor[o] > 0 => order[o] = "paid" \/ \E j \in Jobs : Sending(j, o)
        BY DEF Paying, OnceEach, DeskTypes
      <4>2. CASE o \in due
        <5>1. order[o] # "paid"
          BY <2>4, <4>2 DEF PaidNow
        <5>2. \A j \in Jobs : ~Sending(j, o)
          BY <2>4, <4>2, GroupOf DEF Sending, Holds
        <5> QED BY <2>3, <4>1, <4>2, <5>1, <5>2
      <4>3. CASE o \notin due
        BY <1>2, <2>3, <4>1, <4>3
      <4> QED BY <4>2, <4>3
    <3> QED BY <3>1 DEF OnceEach
  <2>6. HeldOnce'
    <3>1. ASSUME NEW j \in Jobs, NEW o \in Orders, Holds(j, o)
          PROVE  order'[o] # "paid" /\ (paidFor'[o] = 0 \/ Sending(j, o)')
      <4>1. o \notin due
        BY <2>4, <3>1
      <4>2. order[o] # "paid" /\ (paidFor[o] = 0 \/ Sending(j, o))
        BY <1>4, <3>1 DEF Paying, HeldOnce
      <4> QED BY <1>2, <2>3, <4>1, <4>2
    <3> QED BY <1>2, <3>1 DEF HeldOnce
  <2>7. ListedUnpaid'
    <3>1. ASSUME NEW d \in Payers, NEW o \in Orders, page[d].seen[o] = "ready", order'[o] = "paid"
          PROVE  \E j \in Jobs : Busy(j, d) /\ job[j].act = "pay"
      <4>1. o \notin due
        BY <2>4, <3>1 DEF Lists
      <4> QED BY <2>3, <3>1, <4>1 DEF Paying, ListedUnpaid
    <3>2. ASSUME NEW d \in Payers, NEW o \in Orders, NEW j \in Jobs, Busy(j, d), job[j].copy[o] = "ready"
          PROVE  order'[o] # "paid"
      <4>1. Lists(d, o)
        BY <3>2 DEF Lists, Busy, Desk!JobsOf
      <4>2. o \notin due
        BY <2>4, <4>1
      <4> QED BY <2>3, <3>2, <4>2 DEF Paying, ListedUnpaid
    <3> QED BY <1>1, <1>3, <3>1, <3>2 DEF ListedUnpaid
  <2> QED BY <2>5, <2>6, <2>7 DEF Paying
<1> QED BY <1>5, <1>6

(* A payment leaves the wallet: its handler is the only one that holds the  *)
(* group, so none had left before.                                          *)
LEMMA SendPaying ==
  ASSUME DeskTypes, \A i \in Jobs : Fits(job[i]), Paying, Troubles, ~trouble', NEW j \in Jobs,
         Desk!Send(j)
  PROVE  Paying'
<1>1. PICK r : r = job[j]
  OBVIOUS
<1>2. PICK G : G = Desk!Group(j)
  OBVIOUS
<1>3. PICK q : q = [r EXCEPT !.at = "mined"]
  OBVIOUS
<1>4. r \in JobRecords /\ r.at = "sign" /\ r.act = "pay" /\ G \subseteq r.todo
  <2>1. r \in JobRecords /\ r.at = "sign" /\ Fits(r)
    BY <1>1 DEF Desk!Send, DeskTypes
  <2> QED BY <1>1, <1>2, <2>1, GroupOf DEF Fits
<1>5. /\ q.at = "mined" /\ q.act = "pay" /\ q.todo = r.todo /\ q.on = r.on
      /\ q.live = r.live /\ q.bad = r.bad /\ q.copy = r.copy
  BY <1>3, <1>4 DEF JobRecords
<1>6. /\ job'[j] = q /\ \A i \in Jobs \ {j} : job'[i] = job[i]
      /\ order' = order /\ page' = page
      /\ \A o \in Orders : paidFor'[o] = IF o \in G THEN paidFor[o] + 1 ELSE paidFor[o]
  BY <1>1, <1>2, <1>3 DEF Desk!Send, DeskTypes
<1>7. \A i \in Jobs : job'[i].todo = job[i].todo /\ job'[i].act = job[i].act /\ job'[i].copy = job[i].copy
  BY <1>1, <1>4, <1>5, <1>6
<1>8. \A i \in Jobs : Desk!Group(i)' = Desk!Group(i)
  BY <1>7, GroupOf
<1>9. \A i \in Jobs, o \in Orders : Holds(i, o)' = Holds(i, o) /\ (Sending(i, o) => Sending(i, o)')
  BY <1>1, <1>4, <1>5, <1>6, <1>7, <1>8 DEF Holds, Sending
<1>10. \A i \in Jobs, d \in Payers : Busy(i, d)' = Busy(i, d)
  BY <1>1, <1>4, <1>5, <1>6 DEF Busy
<1>11. \A o \in Orders, i, k \in Jobs : Holds(i, o) /\ Holds(k, o) => i = k
  BY NoTrouble
<1>12. ASSUME NEW o \in Orders, o \in G
       PROVE  /\ Holds(j, o) /\ Sending(j, o)' /\ paidFor[o] = 0 /\ order[o] # "paid"
  <2>1. Holds(j, o) /\ ~Sending(j, o)
    BY <1>1, <1>4, <1>12 DEF Holds, Sending
  <2>2. Sending(j, o)'
    BY <1>2, <1>5, <1>6, <1>8, <1>12 DEF Sending
  <2> QED BY <1>11, <2>1, <2>2 DEF Paying, HeldOnce
<1>13. OnceEach'
  <2>1. ASSUME NEW o \in Orders
        PROVE  /\ paidFor'[o] <= 1
               /\ paidFor'[o] > 0 => order'[o] = "paid" \/ \E i \in Jobs : Sending(i, o)'
    <3>1. CASE o \in G
      BY <1>6, <1>12, <3>1
    <3>2. CASE o \notin G
      BY <1>6, <1>9, <3>2 DEF Paying, OnceEach
    <3> QED BY <3>1, <3>2
  <2> QED BY <2>1 DEF OnceEach
<1>14. HeldOnce'
  <2>1. ASSUME NEW i \in Jobs, NEW o \in Orders, Holds(i, o)
        PROVE  order'[o] # "paid" /\ (paidFor'[o] = 0 \/ Sending(i, o)')
    <3>1. CASE o \in G
      BY <1>6, <1>11, <1>12, <2>1, <3>1
    <3>2. CASE o \notin G
      <4>1. order[o] # "paid" /\ (paidFor[o] = 0 \/ Sending(i, o))
        BY <1>11, <2>1 DEF Paying, HeldOnce
      <4> QED BY <1>6, <1>9, <3>2, <4>1
    <3> QED BY <3>1, <3>2
  <2> QED BY <1>9, <2>1 DEF HeldOnce
<1>15. ListedUnpaid'
  BY <1>6, <1>7, <1>10 DEF Paying, ListedUnpaid
<1> QED BY <1>13, <1>14, <1>15 DEF Paying

(* A payment is recorded, from the page that lists it.                      *)
LEMMA SyncPaying ==
  ASSUME DeskTypes, \A i \in Jobs : Fits(job[i]), OneBusy, Paying, Troubles, ~trouble', NEW j \in Jobs,
         Desk!Sync(j)
  PROVE  Paying'
<1>1. PICK r : r = job[j]
  OBVIOUS
<1>2. PICK G : G = Desk!Group(j)
  OBVIOUS
<1>3. r \in JobRecords /\ r.at = "sync" /\ r.act = "pay" /\ r.copy = Desk!NoCopy /\ ~r.bad /\ G \subseteq r.todo
  <2>1. r \in JobRecords /\ r.at = "sync" /\ Fits(r)
    BY <1>1 DEF Desk!Sync, DeskTypes
  <2> QED BY <1>1, <1>2, <2>1, GroupOf DEF Fits
<1>4. ~EndsNow(j)
  BY <1>1, <1>3, NoTrouble
<1>5. Desk!Recordable(j) /\ order' = Desk!Recorded(j) /\ page' = page /\ paidFor' = paidFor
      /\ job' = [job EXCEPT ![j] = Desk!NextGroup(j)]
  <2>1. ~Desk!Fail(j)
    <3>1. Desk!Fail(j) => job'[j] = Desk!Free
      BY DEF Desk!Fail, DeskTypes
    <3> QED BY <1>1, <1>3, <1>4, <3>1, FreeIsRecord DEF EndsNow
  <2> QED BY <2>1 DEF Desk!Sync
<1>6. PICK q : q = Desk!NextGroup(j)
  OBVIOUS
<1>7. job'[j] = q /\ \A i \in Jobs \ {j} : job'[i] = job[i]
  BY <1>5, <1>6 DEF DeskTypes
<1>8. /\ q.at \in {"refresh", "sign"} /\ q.act = "pay" /\ q.todo = r.todo \ G /\ q.on = r.on
      /\ q.live = r.live /\ q.bad = r.bad /\ q.copy = r.copy
  <2>1. q.at # "free"
    BY <1>1, <1>3, <1>4, <1>7 DEF EndsNow
  <2>2. q = [r EXCEPT !.todo = r.todo \ G, !.at = IF r.todo \ G = {} THEN "refresh" ELSE "sign"]
    BY <1>1, <1>2, <1>6, <2>1, FreeIsRecord DEF Desk!NextGroup
  <2> QED BY <1>3, <2>2 DEF JobRecords
<1>9. \A o \in Orders : order'[o] = (IF o \in G THEN "paid" ELSE order[o]) /\ (o \in G => order[o] = "ready")
  BY <1>2, <1>5 DEF Desk!Recorded, Desk!Recordable
<1>10. \A o \in Orders, i, k \in Jobs : Holds(i, o) /\ Holds(k, o) => i = k
  BY NoTrouble
<1>11. \A o \in G : Holds(j, o)
  BY <1>1, <1>3 DEF Holds
<1>12. ASSUME NEW i \in Jobs, NEW o \in Orders
       PROVE  /\ Holds(i, o)' => Holds(i, o) /\ o \notin G
              /\ Sending(i, o) /\ o \notin G => Sending(i, o)'
  <2>1. CASE i = j
    BY <1>1, <1>2, <1>3, <1>7, <1>8, <2>1 DEF Holds, Sending
  <2>2. CASE i # j
    <3>1. job'[i] = job[i]
      BY <1>7, <2>2
    <3>2. Desk!Group(i)' = Desk!Group(i)
      BY <3>1, GroupOf
    <3>3. Holds(i, o) => o \notin G
      BY <1>10, <1>11, <2>2
    <3> QED BY <3>1, <3>2, <3>3 DEF Holds, Sending
  <2> QED BY <2>1, <2>2
<1>13. \A i \in Jobs, d \in Payers : Busy(i, d)' = Busy(i, d) /\ job'[i].act = job[i].act
  BY <1>1, <1>3, <1>7, <1>8 DEF Busy
<1>14. OnceEach'
  <2>1. ASSUME NEW o \in Orders
        PROVE  /\ paidFor'[o] <= 1
               /\ paidFor'[o] > 0 => order'[o] = "paid" \/ \E i \in Jobs : Sending(i, o)'
    <3>1. /\ paidFor'[o] <= 1
          /\ paidFor'[o] > 0 => order[o] = "paid" \/ \E i \in Jobs : Sending(i, o)
      BY <1>5 DEF Paying, OnceEach
    <3>2. CASE o \in G
      BY <1>9, <3>1, <3>2
    <3>3. CASE o \notin G
      BY <1>9, <1>12, <3>1, <3>3
    <3> QED BY <3>2, <3>3
  <2> QED BY <2>1 DEF OnceEach
<1>15. HeldOnce'
  <2>1. ASSUME NEW i \in Jobs, NEW o \in Orders, Holds(i, o)'
        PROVE  order'[o] # "paid" /\ (paidFor'[o] = 0 \/ Sending(i, o)')
    <3>1. Holds(i, o) /\ o \notin G
      BY <1>12, <2>1
    <3>2. order[o] # "paid" /\ (paidFor[o] = 0 \/ Sending(i, o))
      BY <1>10, <3>1 DEF Paying, HeldOnce
    <3> QED BY <1>5, <1>9, <1>12, <3>1, <3>2
  <2> QED BY <2>1 DEF HeldOnce
<1>16. ASSUME NEW d \in Payers, NEW o \in Orders, o \in G, Lists(d, o)
       PROVE  Busy(j, d)
  <2>1. PaidNow(o)
    BY <1>9, <1>16 DEF PaidNow
  <2>2. PaysFrom(d, o)
    BY <1>16, <2>1, NoTrouble
  <2>3. PICK i \in Jobs : job[i].on = d /\ job[i].live = "here" /\ job[i].at = "sync" /\ o \in job[i].todo
    BY <2>2 DEF PaysFrom, Desk!HereOn, Desk!JobsOf
  <2>4. job[i].act = "pay" /\ ~job[i].bad
    BY <2>3 DEF Fits
  <2>5. i = j
    BY <1>10, <1>11, <1>16, <2>3, <2>4 DEF Holds
  <2> QED BY <2>3, <2>4, <2>5 DEF Busy
<1>17. ListedUnpaid'
  <2>1. ASSUME NEW d \in Payers, NEW o \in Orders, page[d].seen[o] = "ready", order'[o] = "paid"
        PROVE  \E i \in Jobs : Busy(i, d) /\ job[i].act = "pay"
    <3>1. CASE o \in G
      BY <1>1, <1>3, <1>16, <2>1, <3>1 DEF Lists
    <3>2. CASE o \notin G
      BY <1>9, <2>1, <3>2 DEF Paying, ListedUnpaid
    <3> QED BY <3>1, <3>2
  <2>2. ASSUME NEW d \in Payers, NEW o \in Orders, NEW i \in Jobs, Busy(i, d), job'[i].copy[o] = "ready"
        PROVE  order'[o] # "paid"
    <3>1. i # j /\ job[i].copy[o] = "ready"
      <4>1. Desk!NoCopy[o] # "ready"
        BY DEF Desk!NoCopy
      <4> QED BY <1>3, <1>7, <1>8, <2>2, <4>1
    <3>2. Lists(d, o)
      BY <2>2, <3>1 DEF Lists, Busy, Desk!JobsOf
    <3>3. CASE o \in G
      <4>1. Busy(j, d)
        BY <1>16, <3>2, <3>3
      <4> QED BY <2>2, <3>1, <4>1 DEF OneBusy
    <3>4. CASE o \notin G
      BY <1>9, <2>2, <3>1, <3>4 DEF Paying, ListedUnpaid
    <3> QED BY <3>3, <3>4
  <2> QED BY <1>5, <1>13, <2>1, <2>2 DEF ListedUnpaid
<1> QED BY <1>14, <1>15, <1>17 DEF Paying

(* A payment is pressed on a page that lists the order: whoever sent a      *)
(* payment for it still holds it, or it is paid and off the page.           *)
LEMMA PayPressPaying ==
  ASSUME DeskTypes, \A i \in Jobs : Fits(job[i]), OneBusy, Paying, Troubles, ~trouble',
         NEW d \in Payers, NEW ps, Desk!PressPay(d, ps)
  PROVE  Paying'
<1>1. PICK j \in Jobs, r \in JobRecords :
        /\ job[j].at = "free" /\ job' = [job EXCEPT ![j] = r] /\ Desk!Pending(d)
        /\ Fits(r) /\ r.at = "sign" /\ r.act = "pay" /\ r.on = d /\ r.live = "here" /\ ~r.bad
        /\ \A o \in r.todo : page[d].seen[o] = "ready"
        /\ \A i \in Jobs : ~Busy(i, d)
        /\ UNCHANGED <<order, paidFor>>
  BY PayPressed
<1>2. job'[j] = r /\ \A i \in Jobs \ {j} : job'[i] = job[i]
  BY <1>1 DEF DeskTypes
<1>3. job[j] = Desk!Free /\ r.copy = Desk!NoCopy
  BY <1>1 DEF Fits
<1>4. \A e \in Payers : page'[e].seen = page[e].seen
  BY <1>1 DEF DeskTypes, Desk!Pending
<1>5. \A o \in Orders, i, k \in Jobs : Holds(i, o) /\ Holds(k, o) => i = k
  BY NoTrouble
<1>6. ASSUME NEW i \in Jobs, NEW o \in Orders
      PROVE  /\ i # j => Holds(i, o)' = Holds(i, o)
             /\ Sending(i, o) => Holds(i, o) /\ i # j /\ Sending(i, o)'
  <2>1. CASE i = j
    BY <1>1, <2>1 DEF Sending
  <2>2. CASE i # j
    <3>1. job'[i] = job[i]
      BY <1>2, <2>2
    <3>2. Desk!Group(i)' = Desk!Group(i)
      BY <3>1, GroupOf
    <3>3. Sending(i, o) => Holds(i, o)
      BY GroupOf DEF Sending, Holds
    <3> QED BY <2>2, <3>1, <3>2, <3>3 DEF Holds, Sending
  <2> QED BY <2>1, <2>2
<1>7. OnceEach'
  <2>1. ASSUME NEW o \in Orders
        PROVE  /\ paidFor'[o] <= 1
               /\ paidFor'[o] > 0 => order'[o] = "paid" \/ \E i \in Jobs : Sending(i, o)'
    <3>1. /\ paidFor[o] <= 1
          /\ paidFor[o] > 0 => order[o] = "paid" \/ \E i \in Jobs : Sending(i, o)
      BY DEF Paying, OnceEach
    <3> QED BY <1>1, <1>6, <3>1
  <2> QED BY <2>1 DEF OnceEach
<1>8. HeldOnce'
  <2>1. ASSUME NEW i \in Jobs, NEW o \in Orders, Holds(i, o)',
               \A k \in Jobs : Holds(k, o)' => k = i
        PROVE  order'[o] # "paid" /\ (paidFor'[o] = 0 \/ Sending(i, o)')
    <3>1. CASE i = j
      <4>1. o \in r.todo /\ page[d].seen[o] = "ready"
        BY <1>1, <1>2, <2>1, <3>1 DEF Holds
      <4>2. order[o] # "paid"
        BY <1>1, <4>1 DEF Paying, ListedUnpaid
      <4>3. \A k \in Jobs : ~Sending(k, o)
        BY <1>6, <2>1, <3>1
      <4>4. ~(paidFor[o] > 0) /\ paidFor[o] \in Nat
        BY <4>2, <4>3 DEF Paying, OnceEach, DeskTypes
      <4> QED BY <1>1, <4>2, <4>4
    <3>2. CASE i # j
      <4>1. Holds(i, o) /\ \A k \in Jobs : Holds(k, o) => k = i
        BY <1>5, <1>6, <2>1, <3>2
      <4>2. order[o] # "paid" /\ (paidFor[o] = 0 \/ Sending(i, o))
        BY <4>1 DEF Paying, HeldOnce
      <4> QED BY <1>1, <1>6, <4>2
    <3> QED BY <3>1, <3>2
  <2> QED BY <2>1 DEF HeldOnce
<1>9. ListedUnpaid'
  <2>1. ASSUME NEW e \in Payers, NEW o \in Orders, page'[e].seen[o] = "ready", order'[o] = "paid"
        PROVE  \E i \in Jobs : Busy(i, e)' /\ job'[i].act = "pay"
    <3>1. PICK i \in Jobs : Busy(i, e) /\ job[i].act = "pay"
      BY <1>1, <1>4, <2>1 DEF Paying, ListedUnpaid
    <3>2. job'[i] = job[i]
      BY <1>1, <1>2, <3>1 DEF Busy
    <3> QED BY <3>1, <3>2 DEF Busy
  <2>2. ASSUME NEW e \in Payers, NEW o \in Orders, NEW i \in Jobs, Busy(i, e)', job'[i].copy[o] = "ready"
        PROVE  order'[o] # "paid"
    <3>1. i # j
      <4>1. Desk!NoCopy[o] # "ready"
        BY DEF Desk!NoCopy
      <4> QED BY <1>2, <1>3, <2>2, <4>1
    <3>2. Busy(i, e) /\ job[i].copy[o] = "ready"
      BY <1>2, <2>2, <3>1 DEF Busy
    <3> QED BY <1>1, <3>2 DEF Paying, ListedUnpaid
  <2> QED BY <2>1, <2>2 DEF ListedUnpaid
<1> QED BY <1>7, <1>8, <1>9 DEF Paying

(* A press of another button starts handlers that ask the server.           *)
LEMMA OnePressPaying ==
  ASSUME DeskTypes, \A i \in Jobs : Fits(job[i]), OneBusy, Paying, Troubles, ~trouble',
         NEW d \in Desk!Pages,
         NEW rows \in SUBSET Orders, NEW act \in {"accept", "complete", "cancel"}, Desk!PressOne(d, rows, act),
         d \in Payers => \A o \in rows : page[d].seen[o] = "ready"
  PROVE  Paying'
<1>1. PICK j \in Jobs, r \in JobRecords :
        /\ job[j].at = "free" /\ job' = [job EXCEPT ![j] = r] /\ Desk!Pending(d)
        /\ Fits(r) /\ r.at = "ask" /\ r.act = act /\ r.on = d
        /\ UNCHANGED <<order, paidFor>>
  BY OnePressed
<1>2. job'[j] = r /\ \A i \in Jobs \ {j} : job'[i] = job[i]
  BY <1>1 DEF DeskTypes
<1>3. r.act # "pay" /\ job[j].act # "pay"
  BY <1>1, FreeIsRecord DEF Fits
<1>4. \A e \in Payers, o \in Orders : page'[e].seen[o] = "ready" /\ order[o] = "paid" => page[e].seen[o] = "ready"
  BY <1>1 DEF DeskTypes, Desk!Pending
<1>5. \A o \in Orders : r.copy[o] # "ready"
  BY <1>1 DEF Fits, Desk!NoCopy
<1>6. \A o \in Orders : order'[o] = "paid" <=> order[o] = "paid"
  BY <1>1
<1>7. \A o \in Orders : r.copy[o] = "ready" => order[o] # "paid" \/ r = job[j]
  BY <1>5
<1> QED BY <1>1, <1>2, <1>3, <1>4, <1>6, <1>7, QuietJob

LEMMA ListPressPaying ==
  ASSUME DeskTypes, \A i \in Jobs : Fits(job[i]), Paying, Troubles, ~trouble',
         NEW p, NEW f, NEW act \in {"accept", "complete"}, Desk!PressOnList(p, f, act)
  PROVE  Paying'
<1>1. PICK T \in [Jobs -> SUBSET Orders], N \in SUBSET Jobs :
        /\ \A j \in N : job[j].at = "free"
        /\ job' = [j \in Jobs |-> IF j \in N THEN Desk!Asking("list", act, T[j]) ELSE job[j]]
  BY ListPressed
<1>2. page' = [page EXCEPT !["list"].pending = TRUE] /\ order' = order /\ paidFor' = paidFor
  BY DEF Desk!PressOnList, Desk!Pending
<1>3. ASSUME NEW j \in N
      PROVE  job'[j].act = act /\ job'[j].copy = Desk!NoCopy /\ job[j].act = "none"
  <2>1. PICK r : r = Desk!Asking("list", act, T[j])
    OBVIOUS
  <2>2. r.act = act /\ r.copy = Desk!NoCopy
    BY <2>1 DEF Desk!Asking, Desk!Free
  <2>3. job[j] = Desk!Free
    BY <1>1 DEF Fits
  <2> QED BY <1>1, <2>1, <2>2, <2>3, FreeIsRecord
<1>4. \A j \in Jobs \ N : job'[j] = job[j]
  BY <1>1
<1>5. \A o \in Orders, i, k \in Jobs : Holds(i, o) /\ Holds(k, o) => i = k
  BY NoTrouble
<1>6. ASSUME NEW j \in Jobs, NEW o \in Orders
      PROVE  (Holds(j, o)' => Holds(j, o)) /\ (Sending(j, o) => Sending(j, o)')
  <2>1. CASE j \in N
    BY <1>3, <2>1 DEF Holds, Sending
  <2>2. CASE j \notin N
    <3>1. job'[j] = job[j]
      BY <1>4, <2>2
    <3>2. Desk!Group(j)' = Desk!Group(j)
      BY <3>1, GroupOf
    <3> QED BY <3>1, <3>2 DEF Holds, Sending
  <2> QED BY <2>1, <2>2
<1>7. ASSUME NEW d \in Payers, NEW o \in Orders, page'[d].seen[o] = "ready", order[o] = "paid"
      PROVE  /\ page[d].seen[o] = "ready"
             /\ \A j \in Jobs : Busy(j, d) /\ job[j].act = "pay" => Busy(j, d)' /\ job'[j].act = "pay"
  <2>1. page'[d] = page[d]
    BY <1>2, DeskSets DEF DeskTypes
  <2>2. ASSUME NEW j \in Jobs, Busy(j, d)
        PROVE  job'[j] = job[j]
    BY <1>1, <1>4, <2>2 DEF Busy
  <2> QED BY <1>7, <2>1, <2>2 DEF Busy
<1>8. ASSUME NEW d \in Payers, NEW o \in Orders, NEW j \in Jobs, Busy(j, d)', job'[j].copy[o] = "ready"
      PROVE  order[o] # "paid"
  <2>1. j \notin N
    <3>1. Desk!NoCopy[o] # "ready"
      BY DEF Desk!NoCopy
    <3> QED BY <1>3, <1>8, <3>1
  <2>2. job'[j] = job[j]
    BY <1>4, <2>1
  <2>3. Busy(j, d)
    BY <1>8, <2>2 DEF Busy
  <2> QED BY <1>8, <2>2, <2>3 DEF Paying, ListedUnpaid
<1> QED BY <1>2, <1>5, <1>6, <1>7, <1>8, QuietStep

(* A page comes again: a payment's handler that ends with its page is       *)
(* trouble, and one that goes on no longer keeps the buttons of a page.     *)
LEMMA ComesPaying ==
  ASSUME DeskTypes, \A i \in Jobs : Fits(job[i]), Paying, Troubles, ~trouble',
         NEW d \in Desk!Pages, Comes(d)
  PROVE  Paying'
<1>1. PICK m \in Jobs :
        /\ job[m].at = "free" /\ page' = [page EXCEPT ![d] = Desk!Fresh] /\ UNCHANGED <<order, paidFor>>
        /\ job' = [j \in Jobs |-> job'[j]] /\ job'[m] = Desk!Mounting(d)
        /\ \A j \in Jobs \ {m} :
             \/ job'[j] = job[j] /\ ~(job[j].at # "free" /\ job[j].on = d)
             \/ /\ job[j].at # "free" /\ job[j].on = d
                /\ \/ \E l \in {"left", "gone"} : job'[j] = [job[j] EXCEPT !.live = l]
                   \/ job'[j] = Desk!Free
  BY DEF Comes
<1>2. job'[m].act = "mount" /\ job'[m].copy = Desk!NoCopy /\ job[m] = Desk!Free
  <2>1. PICK r : r = Desk!Mounting(d)
    OBVIOUS
  <2>2. r.act = "mount" /\ r.copy = Desk!NoCopy
    BY <2>1 DEF Desk!Mounting, Desk!Free
  <2> QED BY <1>1, <2>1, <2>2 DEF Fits
<1>3. \A o \in Orders, i, k \in Jobs : Holds(i, o) /\ Holds(k, o) => i = k
  BY NoTrouble
<1>4. ASSUME NEW j \in Jobs \ {m}
      PROVE  \/ job'[j] = job[j] /\ ~(job[j].at # "free" /\ job[j].on = d)
             \/ /\ job[j].on = d /\ job'[j].live # "here" /\ job'[j].at = job[j].at
                /\ job'[j].act = job[j].act /\ job'[j].todo = job[j].todo
             \/ job[j].on = d /\ job'[j] = Desk!Free /\ (job[j].act = "pay" => job[j].at = "read")
  <2>1. PICK r : r = job[j]
    OBVIOUS
  <2>2. r \in JobRecords
    BY <2>1 DEF DeskTypes
  <2>3. CASE \E l \in {"left", "gone"} : job'[j] = [job[j] EXCEPT !.live = l]
    <3>1. PICK l \in {"left", "gone"} : job'[j] = [r EXCEPT !.live = l]
      BY <2>1, <2>3
    <3>2. PICK q : q = [r EXCEPT !.live = l]
      OBVIOUS
    <3>3. q.live = l /\ q.at = r.at /\ q.act = r.act /\ q.todo = r.todo
      BY <2>2, <3>2 DEF JobRecords
    <3> QED BY <1>1, <1>4, <2>1, <3>1, <3>2, <3>3
  <2>4. CASE job[j].at # "free" /\ job[j].on = d /\ job'[j] = Desk!Free
    <3>1. EndsNow(j)
      BY <2>4, FreeIsRecord DEF EndsNow
    <3>2. job[j].act = "pay" => job[j].at = "read"
      BY <3>1, NoTrouble
    <3> QED BY <2>4, <3>2
  <2> QED BY <1>1, <2>3, <2>4
<1>5. ASSUME NEW j \in Jobs, NEW o \in Orders
      PROVE  (Holds(j, o)' => Holds(j, o)) /\ (Sending(j, o) => Sending(j, o)')
  <2>1. CASE j = m
    BY <1>1, <1>2, <2>1, FreeIsRecord DEF Holds, Sending
  <2>2. CASE j # m /\ job'[j] = Desk!Free /\ (job[j].act = "pay" => job[j].at = "read")
    BY <2>2, FreeIsRecord DEF Holds, Sending
  <2>3. CASE job'[j].at = job[j].at /\ job'[j].act = job[j].act /\ job'[j].todo = job[j].todo
    <3>1. Desk!Group(j)' = Desk!Group(j)
      BY <2>3, GroupOf
    <3> QED BY <2>3, <3>1 DEF Holds, Sending
  <2> QED BY <1>4, <2>1, <2>2, <2>3
<1>6. ASSUME NEW e \in Payers, NEW o \in Orders, page'[e].seen[o] = "ready", order[o] = "paid"
      PROVE  /\ page[e].seen[o] = "ready"
             /\ \A j \in Jobs : Busy(j, e) /\ job[j].act = "pay" => Busy(j, e)' /\ job'[j].act = "pay"
  <2>1. e # d
    <3>1. e = d => page'[e].seen = Desk!NoCopy
      BY <1>1, DeskSets DEF DeskTypes, Desk!Fresh
    <3> QED BY <1>6, <3>1 DEF Desk!NoCopy
  <2>2. page'[e] = page[e]
    BY <1>1, <2>1, DeskSets DEF DeskTypes
  <2>3. ASSUME NEW j \in Jobs, Busy(j, e)
        PROVE  job'[j] = job[j]
    BY <1>1, <1>4, <2>1, <2>3 DEF Busy
  <2> QED BY <1>6, <2>2, <2>3 DEF Busy
<1>7. ASSUME NEW e \in Payers, NEW o \in Orders, NEW j \in Jobs, Busy(j, e)', job'[j].copy[o] = "ready"
      PROVE  order[o] # "paid"
  <2>1. Desk!NoCopy[o] # "ready"
    BY DEF Desk!NoCopy
  <2>2. job'[j] = job[j]
    BY <1>2, <1>4, <1>7, <2>1, FreeIsRecord DEF Busy
  <2>3. Busy(j, e)
    BY <1>7, <2>2 DEF Busy
  <2> QED BY <1>7, <2>2, <2>3 DEF Paying, ListedUnpaid
<1> QED BY <1>1, <1>3, <1>5, <1>6, <1>7, QuietStep

LEMMA PayPressKeeps ==
  ASSUME DeskTypes, \A i \in Jobs : Fits(job[i]), OneBusy, NEW d \in Payers,
         NEW ps, Desk!PressPay(d, ps)
  PROVE  DeskTypes' /\ (\A i \in Jobs : Fits(job'[i])) /\ OneBusy'
<1>1. PICK j \in Jobs, r \in JobRecords :
        /\ job[j].at = "free" /\ job' = [job EXCEPT ![j] = r] /\ Desk!Pending(d)
        /\ Fits(r) /\ r.at = "sign" /\ r.act = "pay" /\ r.on = d /\ r.live = "here" /\ ~r.bad
        /\ \A i \in Jobs : ~Busy(i, d)
        /\ UNCHANGED <<order, paidFor>>
  BY PayPressed
<1>2. d \in Desk!Pages
  BY DeskSets
<1> QED BY <1>1, <1>2, PressKeeps

LEMMA OnePressKeeps ==
  ASSUME DeskTypes, \A i \in Jobs : Fits(job[i]), OneBusy, NEW d \in Desk!Pages,
         NEW rows \in SUBSET Orders, NEW act \in {"accept", "complete", "cancel"}, Desk!PressOne(d, rows, act),
         d \in Payers => \A o \in rows : page[d].seen[o] = "ready"
  PROVE  DeskTypes' /\ (\A i \in Jobs : Fits(job'[i])) /\ OneBusy'
<1>1. PICK j \in Jobs, r \in JobRecords :
        /\ job[j].at = "free" /\ job' = [job EXCEPT ![j] = r] /\ Desk!Pending(d)
        /\ Fits(r) /\ r.at = "ask" /\ r.act = act /\ r.on = d
        /\ d \in Payers => \A i \in Jobs : ~Busy(i, d)
        /\ UNCHANGED <<order, paidFor>>
  BY OnePressed
<1>2. r.at # "free" /\ r.act # "mount"
  BY <1>1
<1> QED BY <1>1, <1>2, PressKeeps

(* One step of the desk, action by action.                                  *)
DeskBase == DeskTypes /\ (\A i \in Jobs : Fits(job[i])) /\ OneBusy

LEMMA DeskStep ==
  ASSUME DeskBase, Desk!Next
  PROVE  DeskBase' /\ (Paying /\ Troubles /\ ~trouble' => Paying')
<1>. SUFFICES /\ DeskTypes' /\ (\A i \in Jobs : Fits(job'[i])) /\ OneBusy'
              /\ Paying /\ Troubles /\ ~trouble' => Paying'
  BY DEF DeskBase
<1>0. DeskTypes /\ (\A i \in Jobs : Fits(job[i])) /\ OneBusy
  BY DEF DeskBase
<1>1. CASE \E act \in {"accept", "complete"} : Desk!PressOnDetail(act)
  <2>1. PICK act \in {"accept", "complete"} : Desk!PressOnDetail(act)
    BY <1>1
  <2>2. PICK rows \in SUBSET Orders : rows = Desk!OnDetail(act)
    BY DEF Desk!OnDetail, Desk!Of
  <2>3. Desk!PressOne("detail", rows, act) /\ "detail" \in Desk!Pages /\ "detail" \notin Payers
    BY <2>1, <2>2, DeskSets DEF Desk!PressOnDetail, Desk!Pages
  <2> QED BY <1>0, <2>3, OnePressKeeps, OnePressPaying
<1>2. CASE \E act \in {"accept", "complete"}, p \in Proposals, f \in Desk!Filters : Desk!PressOnList(p, f, act)
  BY <1>0, <1>2, ListPressKeeps, ListPressPaying
<1>3. CASE \E d \in Payers, p \in Proposals : Desk!PressCancel(d, p)
  <2>1. PICK d \in Payers, p \in Proposals : Desk!PressCancel(d, p)
    BY <1>3
  <2>2. PICK rows \in SUBSET Orders : rows = Desk!Payable(d, p)
    BY DEF Desk!Payable, Desk!Of
  <2>3. Desk!PressOne(d, rows, "cancel") /\ d \in Desk!Pages /\ \A o \in rows : page[d].seen[o] = "ready"
    BY <2>1, <2>2, DeskSets DEF Desk!PressCancel, Desk!Payable
  <2> QED BY <1>0, <2>3, OnePressKeeps, OnePressPaying
<1>4. CASE \E d \in Payers : \E ps \in Desk!Selections(d) : Desk!PressPay(d, ps)
  BY <1>0, <1>4, PayPressKeeps, PayPressPaying
<1>5. CASE \E d \in Desk!Pages : Desk!Return(d) \/ Desk!Reload(d)
  BY <1>0, <1>5, PageComes, ComesKeeps, ComesPaying
<1>6. CASE (\E o \in Orders : Desk!Confirm(o)) \/ (\E p \in Proposals : Desk!AutoPay(p))
  BY <1>0, <1>6, OrdersKeep, OrdersPaying
<1>7. CASE \E j \in Jobs : Desk!WalletRefuses(j) \/ Desk!ReceiptLost(j) \/ Desk!LoseSync(j) \/ Desk!RefreshFails(j)
  BY <1>0, <1>7, BreakKeeps, BreakPaying
<1>8. CASE \E j \in Jobs, o \in Orders : Desk!Lose(j, o)
  <2>1. PICK j \in Jobs, o \in Orders, served \in BOOLEAN : Desk!Answer(j, o, served, FALSE)
    BY <1>8 DEF Desk!Lose
  <2> QED BY <1>0, <2>1, AnswerKeeps, AnswerPaying
<1>9. CASE \E j \in Jobs : Desk!Serve(j)
  <2>1. PICK j \in Jobs : Desk!Serve(j)
    BY <1>9
  <2>2. PICK o : Desk!Answer(j, o, TRUE, order[o] = Desk!Before(job[j].act))
    BY <2>1 DEF Desk!Serve
  <2>3. PICK ok \in BOOLEAN : Desk!Answer(j, o, TRUE, ok)
    BY <2>2
  <2> QED BY <1>0, <2>3, AnswerKeeps, AnswerPaying
<1>10. CASE \E j \in Jobs : Desk!Send(j)
  BY <1>0, <1>10, PayerKeeps, SendPaying
<1>11. CASE \E j \in Jobs : Desk!Sync(j)
  BY <1>0, <1>11, PayerKeeps, SyncPaying
<1>12. CASE \E j \in Jobs : Desk!ReceiptSeen(j)
  BY <1>0, <1>12, PayerKeeps, RefreshPaying
<1>13. CASE \E j \in Jobs : Desk!Read(j) \/ Desk!Show(j)
  BY <1>0, <1>13, RefreshKeeps, RefreshPaying
<1> QED
  BY <1>1, <1>2, <1>3, <1>4, <1>5, <1>6, <1>7, <1>8, <1>9, <1>10, <1>11, <1>12, <1>13
  DEF Desk!Next, Desk!Presses, Desk!Moves, Desk!Breaks, Desk!Loses, Desk!Wallet, Desk!Works

LEMMA DeskInvKept ==
  ASSUME DeskInv, [Desk!Next /\ Troubles]_<<Desk!vars, trouble>>
  PROVE  DeskInv'
<1>1. DeskBase /\ (trouble \/ Paying)
  BY DEF DeskInv, DeskBase, Paying
<1>2. CASE Desk!Next /\ Troubles
  <2>1. DeskBase' /\ (Paying /\ ~trouble' => Paying')
    BY <1>1, <1>2, DeskStep
  <2>2. trouble => trouble'
    BY <1>2 DEF Troubles
  <2>3. trouble' \/ Paying'
    BY <1>1, <2>1, <2>2
  <2> QED BY <2>1, <2>3 DEF DeskInv, DeskBase, Paying
<1>3. CASE UNCHANGED <<Desk!vars, trouble>>
  <2>1. order' = order /\ paidFor' = paidFor /\ page' = page /\ job' = job /\ trouble' = trouble
    BY <1>3 DEF Desk!vars
  <2>2. DeskTypes' /\ OneBusy' /\ \A j \in Jobs : Fits(job'[j])
    BY <1>1, <2>1 DEF DeskBase, DeskTypes, OneBusy, Busy
  <2>3. ASSUME NEW j \in Jobs, NEW o \in Orders
        PROVE  Holds(j, o)' = Holds(j, o) /\ Sending(j, o)' = Sending(j, o)
    BY <2>1 DEF Holds, Sending, Desk!Group
  <2>4. \A j \in Jobs, d \in Payers : Busy(j, d)' = Busy(j, d)
    BY <2>1 DEF Busy
  <2>5. (OnceEach => OnceEach') /\ (HeldOnce => HeldOnce')
    BY <2>1, <2>3 DEF OnceEach, HeldOnce
  <2>6. ListedUnpaid => ListedUnpaid'
    BY <2>1, <2>4 DEF ListedUnpaid
  <2> QED BY <1>1, <2>1, <2>2, <2>5, <2>6 DEF DeskInv, DeskBase, Paying
<1> QED BY <1>2, <1>3

(* Pages opened on orders that are not yet paid.                            *)
LEMMA DeskInvOpens ==
  ASSUME NEW open, DeskOpens(open)
  PROVE  DeskInv
<1>1. /\ order \in [Orders -> Desk!Statuses \ {"paid"}] /\ paidFor = [o \in Orders |-> 0]
      /\ job = [j \in Jobs |-> Desk!Free]
      /\ page = [d \in Desk!Pages |-> IF d \in open THEN [Desk!Fresh EXCEPT !.seen = order] ELSE Desk!Fresh]
  BY DEF DeskOpens
<1>2. /\ Desk!Fresh \in [seen : Copies, pending : BOOLEAN]
      /\ [Desk!Fresh EXCEPT !.seen = order] \in [seen : Copies, pending : BOOLEAN]
  BY <1>1 DEF Desk!Fresh, Copies
<1>3. DeskTypes
  <2>1. order \in [Orders -> Desk!Statuses] /\ paidFor \in [Orders -> Nat]
    BY <1>1
  <2>2. page \in [Desk!Pages -> [seen : Copies, pending : BOOLEAN]]
    BY <1>1, <1>2
  <2>3. job \in [Jobs -> JobRecords]
    BY <1>1, FreeIsRecord
  <2> QED BY <2>1, <2>2, <2>3 DEF DeskTypes
<1>4. \A j \in Jobs : job[j] = Desk!Free
  BY <1>1
<1>5. \A j \in Jobs : Fits(job[j])
  BY <1>4, FreeIsRecord
<1>6. \A j \in Jobs, d \in Payers : ~Busy(j, d)
  BY <1>4, FreeIsRecord DEF Busy
<1>7. \A j \in Jobs, o \in Orders : ~Holds(j, o)
  BY <1>4, FreeIsRecord DEF Holds
<1>8. \A o \in Orders : order[o] # "paid" /\ paidFor[o] = 0
  BY <1>1
<1>9. OneBusy
  BY <1>6 DEF OneBusy
<1>10. OnceEach
  <2>1. ASSUME NEW o \in Orders
        PROVE  paidFor[o] <= 1 /\ ~(paidFor[o] > 0)
    BY <1>8
  <2> QED BY <2>1 DEF OnceEach
<1>11. HeldOnce
  BY <1>7 DEF HeldOnce
<1>12. ListedUnpaid
  BY <1>6, <1>8 DEF ListedUnpaid
<1> QED BY <1>3, <1>5, <1>9, <1>10, <1>11, <1>12 DEF DeskInv

(* Pages opened on unpaid orders, and any presses, moves and breaks after.  *)
DeskRuns ==
  (\E open \in SUBSET Desk!Pages : DeskOpens(open)) /\ [][Desk!Next /\ Troubles]_<<Desk!vars, trouble>>

(* Any number of orders, of pages and of handlers: while every payment's    *)
(* page was refreshed after it and nobody else paid what the page listed,   *)
(* no order is paid twice (admin-payouts.tsx, handleBatchReleasePayout).    *)
THEOREM NobodyIsPaidTwice == DeskRuns => []NoDoubleWithoutTrouble
<1>1. (\E open \in SUBSET Desk!Pages : DeskOpens(open)) => DeskInv
  BY DeskInvOpens
<1>2. DeskInv /\ [Desk!Next /\ Troubles]_<<Desk!vars, trouble>> => DeskInv'
  BY DeskInvKept
<1>3. DeskInv => NoDoubleWithoutTrouble
  <2>1. ASSUME DeskInv, ~trouble, NEW o \in Orders
        PROVE  ~(paidFor[o] > 1)
    BY <2>1 DEF DeskInv, OnceEach, DeskTypes
  <2> QED BY <2>1 DEF NoDoubleWithoutTrouble
<1> QED BY <1>1, <1>2, <1>3, PTL DEF DeskRuns

-----------------------------------------------------------------------------
(* A payment is recorded only by a handler that has sent it, and by the     *)
(* background processor as it sends.                                        *)
Dispatched == \A j \in Jobs, o \in Orders : Sending(j, o) => paidFor[o] > 0
PaidWasSent == \A o \in Orders : order[o] = "paid" => paidFor[o] > 0

LEMMA SentQuiet ==
  ASSUME Dispatched, PaidWasSent,
         \A o \in Orders : paidFor[o] > 0 => paidFor'[o] > 0,
         \A o \in Orders : order'[o] = "paid" => order[o] = "paid" \/ paidFor'[o] > 0,
         \A j \in Jobs, o \in Orders : Sending(j, o)' => Sending(j, o) \/ paidFor'[o] > 0
  PROVE  Dispatched' /\ PaidWasSent'
<1>1. Dispatched'
  BY DEF Dispatched
<1>2. PaidWasSent'
  BY DEF PaidWasSent
<1> QED BY <1>1, <1>2

(* A handler goes on that does not send.                                    *)
LEMMA SentJob ==
  ASSUME Dispatched, PaidWasSent, paidFor' = paidFor,
         \A o \in Orders : order'[o] = "paid" => order[o] = "paid" \/ paidFor[o] > 0,
         NEW j \in Jobs, \A i \in Jobs \ {j} : job'[i] = job[i],
         \/ job'[j].at \notin {"mined", "sync"}
         \/ job'[j].act # "pay"
         \/ job[j].at \in {"mined", "sync"} /\ job[j].act = "pay" /\ job'[j].todo = job[j].todo
  PROVE  Dispatched' /\ PaidWasSent'
<1>1. ASSUME NEW i \in Jobs, NEW o \in Orders, Sending(i, o)'
      PROVE  Sending(i, o)
  <2>1. CASE i = j
    <3>1. job[j].at \in {"mined", "sync"} /\ job[j].act = "pay" /\ job'[j].todo = job[j].todo
      BY <1>1, <2>1 DEF Sending
    <3>2. Desk!Group(j)' = Desk!Group(j)
      BY <3>1, GroupOf
    <3> QED BY <1>1, <2>1, <3>1, <3>2 DEF Sending
  <2>2. CASE i # j
    <3>1. job'[i] = job[i]
      BY <2>2
    <3>2. Desk!Group(i)' = Desk!Group(i)
      BY <3>1, GroupOf
    <3> QED BY <1>1, <3>1, <3>2 DEF Sending
  <2> QED BY <2>1, <2>2
<1> QED BY <1>1, SentQuiet

(* What a handler's request does to the orders, when its group is recorded. *)
LEMMA RecordedSent ==
  ASSUME Dispatched, NEW j \in Jobs, job[j].at = "sync", job[j].act = "pay",
         order' = order \/ order' = Desk!Recorded(j)
  PROVE  \A o \in Orders : order'[o] = "paid" => order[o] = "paid" \/ paidFor[o] > 0
<1>1. ASSUME NEW o \in Orders, o \in Desk!Group(j)
      PROVE  paidFor[o] > 0
  BY <1>1 DEF Dispatched, Sending
<1> QED BY <1>1 DEF Desk!Recorded

LEMMA SentKept ==
  ASSUME DeskBase, Dispatched, PaidWasSent, Desk!Next
  PROVE  Dispatched' /\ PaidWasSent'
<1>0. DeskTypes /\ (\A i \in Jobs : Fits(job[i])) /\ OneBusy
  BY DEF DeskBase
<1>1. ASSUME NEW d \in Desk!Pages, NEW rows \in SUBSET Orders, NEW act \in {"accept", "complete", "cancel"},
             Desk!PressOne(d, rows, act), d \in Payers => \A o \in rows : page[d].seen[o] = "ready"
      PROVE  Dispatched' /\ PaidWasSent'
  <2>1. PICK j \in Jobs, r \in JobRecords :
          /\ job' = [job EXCEPT ![j] = r] /\ r.at = "ask" /\ UNCHANGED <<order, paidFor>>
    BY <1>0, <1>1, OnePressed
  <2>2. job'[j].at = "ask" /\ \A i \in Jobs \ {j} : job'[i] = job[i]
    BY <1>0, <2>1 DEF DeskTypes
  <2> QED BY <2>1, <2>2, SentJob
<1>2. CASE \E act \in {"accept", "complete"} : Desk!PressOnDetail(act)
  <2>1. PICK act \in {"accept", "complete"} : Desk!PressOnDetail(act)
    BY <1>2
  <2>2. PICK rows \in SUBSET Orders : rows = Desk!OnDetail(act)
    BY DEF Desk!OnDetail, Desk!Of
  <2>3. Desk!PressOne("detail", rows, act) /\ "detail" \in Desk!Pages /\ "detail" \notin Payers
    BY <2>1, <2>2, DeskSets DEF Desk!PressOnDetail, Desk!Pages
  <2> QED BY <1>1, <2>3
<1>3. CASE \E act \in {"accept", "complete"}, p \in Proposals, f \in Desk!Filters : Desk!PressOnList(p, f, act)
  <2>1. PICK act \in {"accept", "complete"}, p \in Proposals, f \in Desk!Filters : Desk!PressOnList(p, f, act)
    BY <1>3
  <2>2. PICK T \in [Jobs -> SUBSET Orders], N \in SUBSET Jobs :
          job' = [j \in Jobs |-> IF j \in N THEN Desk!Asking("list", act, T[j]) ELSE job[j]]
    BY <1>0, <2>1, ListPressed
  <2>3. order' = order /\ paidFor' = paidFor
    BY <2>1 DEF Desk!PressOnList
  <2>4. ASSUME NEW j \in N
        PROVE  job'[j].at = "ask"
    <3>1. PICK r : r = Desk!Asking("list", act, T[j])
      OBVIOUS
    <3>2. r.at = "ask"
      BY <3>1 DEF Desk!Asking, Desk!Free
    <3> QED BY <2>2, <3>1, <3>2
  <2>5. ASSUME NEW j \in Jobs, NEW o \in Orders, Sending(j, o)'
        PROVE  Sending(j, o)
    <3>1. job'[j] = job[j]
      BY <2>2, <2>4, <2>5 DEF Sending
    <3>2. Desk!Group(j)' = Desk!Group(j)
      BY <3>1, GroupOf
    <3> QED BY <2>5, <3>1, <3>2 DEF Sending
  <2> QED BY <2>3, <2>5, SentQuiet
<1>4. CASE \E d \in Payers, p \in Proposals : Desk!PressCancel(d, p)
  <2>1. PICK d \in Payers, p \in Proposals : Desk!PressCancel(d, p)
    BY <1>4
  <2>2. PICK rows \in SUBSET Orders : rows = Desk!Payable(d, p)
    BY DEF Desk!Payable, Desk!Of
  <2>3. Desk!PressOne(d, rows, "cancel") /\ d \in Desk!Pages /\ \A o \in rows : page[d].seen[o] = "ready"
    BY <2>1, <2>2, DeskSets DEF Desk!PressCancel, Desk!Payable
  <2> QED BY <1>1, <2>3
<1>5. CASE \E d \in Payers : \E ps \in Desk!Selections(d) : Desk!PressPay(d, ps)
  <2>0. PICK d \in Payers : \E ps : Desk!PressPay(d, ps)
    BY <1>5
  <2>1. PICK ps : Desk!PressPay(d, ps)
    BY <2>0
  <2>2. PICK j \in Jobs, r \in JobRecords :
          /\ job' = [job EXCEPT ![j] = r] /\ r.at = "sign" /\ UNCHANGED <<order, paidFor>>
    BY <1>0, <2>1, PayPressed
  <2>3. job'[j].at = "sign" /\ \A i \in Jobs \ {j} : job'[i] = job[i]
    BY <1>0, <2>2 DEF DeskTypes
  <2> QED BY <2>2, <2>3, SentJob
<1>6. CASE \E d \in Desk!Pages : Desk!Return(d) \/ Desk!Reload(d)
  <2>1. PICK d \in Desk!Pages : Comes(d)
    BY <1>0, <1>6, PageComes
  <2>2. PICK m \in Jobs :
          /\ job'[m] = Desk!Mounting(d) /\ UNCHANGED <<order, paidFor>>
          /\ \A j \in Jobs \ {m} :
               \/ job'[j] = job[j]
               \/ \E l \in {"left", "gone"} : job'[j] = [job[j] EXCEPT !.live = l]
               \/ job'[j] = Desk!Free
    BY <2>1 DEF Comes
  <2>3. job'[m].at = "refresh"
    <3>1. PICK r : r = Desk!Mounting(d)
      OBVIOUS
    <3>2. r.at = "refresh"
      BY <3>1 DEF Desk!Mounting, Desk!Free
    <3> QED BY <2>2, <3>1, <3>2
  <2>4. ASSUME NEW j \in Jobs, NEW o \in Orders, Sending(j, o)'
        PROVE  Sending(j, o)
    <3>1. PICK r : r = job[j] /\ r \in JobRecords
      BY <1>0 DEF DeskTypes
    <3>2. j # m /\ job'[j] # Desk!Free
      BY <2>3, <2>4, FreeIsRecord DEF Sending
    <3>3. job'[j].at = r.at /\ job'[j].act = r.act /\ job'[j].todo = r.todo
      <4>1. CASE job'[j] = job[j]
        BY <3>1, <4>1
      <4>2. CASE job'[j] # job[j]
        <5>1. PICK l \in {"left", "gone"} : job'[j] = [r EXCEPT !.live = l]
          BY <2>2, <3>1, <3>2, <4>2
        <5>2. PICK q : q = [r EXCEPT !.live = l]
          OBVIOUS
        <5>3. q.at = r.at /\ q.act = r.act /\ q.todo = r.todo
          BY <3>1, <5>2 DEF JobRecords
        <5> QED BY <5>1, <5>2, <5>3
      <4> QED BY <4>1, <4>2
    <3>4. Desk!Group(j)' = Desk!Group(j)
      BY <3>1, <3>3, GroupOf
    <3> QED BY <2>4, <3>1, <3>3, <3>4 DEF Sending
  <2> QED BY <2>2, <2>4, SentQuiet
<1>7. CASE (\E o \in Orders : Desk!Confirm(o)) \/ (\E p \in Proposals : Desk!AutoPay(p))
  <2>1. job' = job
    BY <1>7 DEF Desk!Confirm, Desk!AutoPay
  <2>2. \A j \in Jobs, o \in Orders : Sending(j, o)' = Sending(j, o)
    BY <2>1 DEF Sending, Desk!Group
  <2>3. CASE \E o \in Orders : Desk!Confirm(o)
    <3>1. paidFor' = paidFor /\ \A p \in Orders : order'[p] = "paid" => order[p] = "paid"
      BY <1>0, <2>3 DEF Desk!Confirm, DeskTypes
    <3> QED BY <2>2, <3>1, SentQuiet
  <2>4. CASE \E p \in Proposals : Desk!AutoPay(p)
    <3>1. PICK p \in Proposals : Desk!AutoPay(p)
      BY <2>4
    <3>2. PICK due : due = {o \in Desk!Of(p) : order[o] = "ready"}
      OBVIOUS
    <3>3. \A o \in Orders :
            /\ order'[o] = (IF o \in due THEN "paid" ELSE order[o])
            /\ paidFor[o] \in Nat /\ paidFor'[o] = IF o \in due THEN paidFor[o] + 1 ELSE paidFor[o]
      BY <1>0, <3>1, <3>2 DEF Desk!AutoPay, DeskTypes
    <3>4. \A o \in Orders : (paidFor[o] > 0 => paidFor'[o] > 0) /\ (o \in due => paidFor'[o] > 0)
      BY <3>3
    <3> QED BY <2>2, <3>3, <3>4, SentQuiet
  <2> QED BY <1>7, <2>3, <2>4
<1>8. CASE \E j \in Jobs : Desk!WalletRefuses(j) \/ Desk!ReceiptLost(j) \/ Desk!LoseSync(j) \/ Desk!RefreshFails(j)
  <2>1. PICK j \in Jobs :
          Desk!WalletRefuses(j) \/ Desk!ReceiptLost(j) \/ Desk!LoseSync(j) \/ Desk!RefreshFails(j)
    BY <1>8
  <2>2. Desk!Fail(j) /\ paidFor' = paidFor
    BY <2>1 DEF Desk!WalletRefuses, Desk!ReceiptLost, Desk!LoseSync, Desk!RefreshFails
  <2>3. job'[j] = Desk!Free /\ \A i \in Jobs \ {j} : job'[i] = job[i]
    BY <1>0, <2>2 DEF Desk!Fail, DeskTypes
  <2>4. \A o \in Orders : order'[o] = "paid" => order[o] = "paid" \/ paidFor[o] > 0
    <3>1. CASE order' = order
      BY <3>1
    <3>2. CASE order' # order
      <4>1. job[j].at = "sync" /\ order' = Desk!Recorded(j)
        BY <2>1, <3>2 DEF Desk!WalletRefuses, Desk!ReceiptLost, Desk!LoseSync, Desk!RefreshFails
      <4>2. job[j].act = "pay"
        BY <1>0, <4>1 DEF Fits
      <4> QED BY <4>1, <4>2, RecordedSent
    <3> QED BY <3>1, <3>2
  <2>5. job'[j].at \notin {"mined", "sync"}
    BY <2>3, FreeIsRecord
  <2> QED BY <2>2, <2>3, <2>4, <2>5, SentJob
<1>9. ASSUME NEW j \in Jobs, NEW o, NEW served \in BOOLEAN, NEW ok \in BOOLEAN, Desk!Answer(j, o, served, ok)
      PROVE  Dispatched' /\ PaidWasSent'
  <2>1. PICK r : r = job[j]
    OBVIOUS
  <2>2. r \in JobRecords /\ r.at = "ask" /\ Fits(r) /\ o \in r.todo /\ paidFor' = paidFor
    BY <1>0, <1>9, <2>1 DEF DeskTypes, Desk!Answer
  <2>3. PICK q : q = Desk!AfterOne(j, o, r.bad \/ ~ok)
    OBVIOUS
  <2>4. job'[j] = q /\ \A i \in Jobs \ {j} : job'[i] = job[i]
    BY <1>0, <1>9, <2>1, <2>3 DEF Desk!Answer, DeskTypes
  <2>5. q.act # "pay"
    <3>1. r.act # "pay"
      BY <2>2 DEF Fits
    <3> QED BY <2>1, <2>2, <2>3, <3>1, FreeIsRecord DEF Desk!AfterOne, JobRecords
  <2>6. \A p \in Orders : order'[p] = "paid" => order[p] = "paid"
    <3>1. \/ order' = order
          \/ order' = [order EXCEPT ![o] = Desk!After(r.act)]
      BY <1>9, <2>1 DEF Desk!Answer, Desk!Served
    <3>2. Desk!After(r.act) # "paid"
      BY <2>2 DEF Fits, Desk!After
    <3> QED BY <1>0, <3>1, <3>2 DEF DeskTypes
  <2>7. job'[j].act # "pay"
    BY <2>4, <2>5
  <2> QED BY <2>2, <2>4, <2>6, <2>7, SentJob
<1>10. CASE \E j \in Jobs, o \in Orders : Desk!Lose(j, o)
  <2>1. PICK j \in Jobs, o \in Orders, served \in BOOLEAN : Desk!Answer(j, o, served, FALSE)
    BY <1>10 DEF Desk!Lose
  <2> QED BY <1>9, <2>1
<1>11. CASE \E j \in Jobs : Desk!Serve(j)
  <2>1. PICK j \in Jobs : Desk!Serve(j)
    BY <1>11
  <2>2. PICK o : Desk!Answer(j, o, TRUE, order[o] = Desk!Before(job[j].act))
    BY <2>1 DEF Desk!Serve
  <2>3. PICK ok \in BOOLEAN : Desk!Answer(j, o, TRUE, ok)
    BY <2>2
  <2> QED BY <1>9, <2>3
<1>12. CASE \E j \in Jobs : Desk!Send(j)
  <2>1. PICK j \in Jobs : Desk!Send(j)
    BY <1>12
  <2>2. PICK G : G = Desk!Group(j)
    OBVIOUS
  <2>3. /\ order' = order
        /\ \A o \in Orders : paidFor[o] \in Nat /\ paidFor'[o] = IF o \in G THEN paidFor[o] + 1 ELSE paidFor[o]
    BY <1>0, <2>1, <2>2 DEF Desk!Send, DeskTypes
  <2>4. /\ \A i \in Jobs \ {j} : job'[i] = job[i]
        /\ job'[j].todo = job[j].todo
    <3>1. PICK r : r = job[j] /\ r \in JobRecords
      BY <1>0 DEF DeskTypes
    <3>2. PICK q : q = [r EXCEPT !.at = "mined"]
      OBVIOUS
    <3>3. job'[j] = q /\ \A i \in Jobs \ {j} : job'[i] = job[i]
      BY <1>0, <2>1, <3>1, <3>2 DEF Desk!Send, DeskTypes
    <3>4. q.todo = r.todo
      BY <3>1, <3>2 DEF JobRecords
    <3> QED BY <3>1, <3>3, <3>4
  <2>5. \A o \in Orders : (paidFor[o] > 0 => paidFor'[o] > 0) /\ (o \in G => paidFor'[o] > 0)
    BY <2>3
  <2>6. ASSUME NEW i \in Jobs, NEW o \in Orders, Sending(i, o)'
        PROVE  Sending(i, o) \/ paidFor'[o] > 0
    <3>1. CASE i = j
      <4>1. Desk!Group(j)' = G
        BY <2>2, <2>4, GroupOf
      <4> QED BY <2>5, <2>6, <3>1, <4>1 DEF Sending
    <3>2. CASE i # j
      <4>1. job'[i] = job[i]
        BY <2>4, <3>2
      <4>2. Desk!Group(i)' = Desk!Group(i)
        BY <4>1, GroupOf
      <4> QED BY <2>6, <4>1, <4>2 DEF Sending
    <3> QED BY <3>1, <3>2
  <2> QED BY <2>3, <2>5, <2>6, SentQuiet
<1>13. CASE \E j \in Jobs : Desk!Sync(j)
  <2>1. PICK j \in Jobs : Desk!Sync(j)
    BY <1>13
  <2>2. job[j].at = "sync" /\ job[j].act = "pay" /\ paidFor' = paidFor
    BY <1>0, <2>1 DEF Desk!Sync, Fits
  <2>3. order' = order \/ order' = Desk!Recorded(j)
    BY <2>1 DEF Desk!Sync
  <2>4. \A o \in Orders : order'[o] = "paid" => order[o] = "paid" \/ paidFor[o] > 0
    BY <2>2, <2>3, RecordedSent
  <2>5. PICK r : r = job[j] /\ r \in JobRecords
    BY <1>0 DEF DeskTypes
  <2>6. PICK q : q = Desk!NextGroup(j)
    OBVIOUS
  <2>7. q.at \in {"free", "refresh", "sign"}
    <3>1. PICK G : G = Desk!Group(j)
      OBVIOUS
    <3>2. \/ q = Desk!Free
          \/ q = [r EXCEPT !.todo = r.todo \ G, !.at = IF r.todo \ G = {} THEN "refresh" ELSE "sign"]
      BY <2>5, <2>6, <3>1 DEF Desk!NextGroup
    <3> QED BY <2>5, <3>2, FreeIsRecord DEF JobRecords
  <2>8. (job'[j] = q \/ job'[j] = Desk!Free) /\ \A i \in Jobs \ {j} : job'[i] = job[i]
    BY <1>0, <2>1, <2>6 DEF Desk!Sync, Desk!Fail, DeskTypes
  <2>9. job'[j].at \notin {"mined", "sync"}
    BY <2>7, <2>8, FreeIsRecord
  <2> QED BY <2>2, <2>4, <2>8, <2>9, SentJob
<1>14. CASE \E j \in Jobs : Desk!ReceiptSeen(j) \/ Desk!Read(j) \/ Desk!Show(j)
  <2>1. PICK j \in Jobs : Desk!ReceiptSeen(j) \/ Desk!Read(j) \/ Desk!Show(j)
    BY <1>14
  <2>2. order' = order /\ paidFor' = paidFor /\ \A i \in Jobs \ {j} : job'[i] = job[i]
    BY <1>0, <2>1 DEF Desk!ReceiptSeen, Desk!Read, Desk!Show, DeskTypes
  <2>3. PICK r : r = job[j] /\ r \in JobRecords
    BY <1>0 DEF DeskTypes
  <2>4. \/ job'[j].at \notin {"mined", "sync"}
        \/ job[j].at \in {"mined", "sync"} /\ job[j].act = "pay" /\ job'[j].todo = job[j].todo
    <3>1. CASE Desk!Show(j)
      BY <1>0, <3>1, FreeIsRecord DEF Desk!Show, DeskTypes
    <3>2. CASE Desk!Read(j)
      <4>1. PICK q : q = [r EXCEPT !.at = "read", !.copy = order]
        OBVIOUS
      <4>2. job'[j] = q
        BY <1>0, <2>3, <3>2, <4>1 DEF Desk!Read, DeskTypes
      <4>3. q.at = "read"
        BY <2>3, <4>1 DEF JobRecords
      <4> QED BY <4>2, <4>3
    <3>3. CASE Desk!ReceiptSeen(j)
      <4>1. PICK q : q = [r EXCEPT !.at = "sync"]
        OBVIOUS
      <4>2. job'[j] = q /\ r.at = "mined" /\ r.act = "pay"
        BY <1>0, <2>3, <3>3, <4>1 DEF Desk!ReceiptSeen, DeskTypes, Fits
      <4>3. q.todo = r.todo
        BY <2>3, <4>1 DEF JobRecords
      <4> QED BY <2>3, <4>2, <4>3
    <3> QED BY <2>1, <3>1, <3>2, <3>3
  <2>5. \A o \in Orders : order'[o] = "paid" => order[o] = "paid" \/ paidFor[o] > 0
    BY <2>2
  <2> QED BY <2>2, <2>4, <2>5, SentJob
<1> QED
  BY <1>2, <1>3, <1>4, <1>5, <1>6, <1>7, <1>8, <1>10, <1>11, <1>12, <1>13, <1>14
  DEF Desk!Next, Desk!Presses, Desk!Moves, Desk!Breaks, Desk!Loses, Desk!Wallet, Desk!Works

(* A group that is counted has one tab, the same on every page.             *)
LEMMA GroupHasTab ==
  ASSUME NEW S \in SUBSET Desk!Statuses, S # {}
  PROVE  /\ Desk!Aggregate(S) \in Desk!Filters \ {"all"}
         /\ \E s \in S : Desk!MatchesFilter(s, Desk!Aggregate(S))
         /\ Desk!DetailAggregate(S) = Desk!Aggregate(S)
         /\ Desk!MemberAggregate(S) = Desk!Aggregate(S)
<1>1. PICK K : K = {k \in DOMAIN Desk!Progress : Desk!Progress[k] \in S}
  OBVIOUS
<1>2. \A k : k \in K <=> \/ k = 1 /\ "received" \in S
                         \/ k = 2 /\ "accepted" \in S
                         \/ k = 3 /\ "completed" \in S
                         \/ k = 4 /\ "ready" \in S
                         \/ k = 5 /\ "paid" \in S
  BY <1>1 DEF Desk!Progress
<1>3. Desk!MemberAggregate(S) = Desk!TabOf[Desk!Min(K)]
  BY <1>1 DEF Desk!MemberAggregate
<1>4. ASSUME NEW m \in K, \A k \in K : m <= k
      PROVE  Desk!Min(K) = m
  <2>1. \A k \in K : k \in Nat
    BY <1>2
  <2>2. Desk!Min(K) \in K /\ \A k \in K : Desk!Min(K) <= k
    BY <1>4 DEF Desk!Min
  <2>3. Desk!Min(K) <= m /\ m <= Desk!Min(K)
    BY <1>4, <2>2
  <2> QED BY <1>4, <2>1, <2>2, <2>3
<1>5. CASE "received" \in S
  <2>1. Desk!Aggregate(S) = "pending" /\ Desk!DetailAggregate(S) = "pending"
    BY <1>5 DEF Desk!Aggregate, Desk!DetailAggregate
  <2>2. Desk!Min(K) = 1
    BY <1>2, <1>4, <1>5
  <2>3. Desk!MemberAggregate(S) = "pending"
    BY <1>3, <2>2 DEF Desk!TabOf
  <2>4. Desk!MatchesFilter("received", "pending")
    BY DEF Desk!MatchesFilter
  <2> QED BY <1>5, <2>1, <2>3, <2>4 DEF Desk!Filters
<1>6. CASE "received" \notin S /\ "accepted" \in S
  <2>1. Desk!Aggregate(S) = "accepted" /\ Desk!DetailAggregate(S) = "accepted"
    BY <1>6 DEF Desk!Aggregate, Desk!DetailAggregate
  <2>2. Desk!Min(K) = 2
    BY <1>2, <1>4, <1>6
  <2>3. Desk!MemberAggregate(S) = "accepted"
    BY <1>3, <2>2 DEF Desk!TabOf
  <2>4. Desk!MatchesFilter("accepted", "accepted")
    BY DEF Desk!MatchesFilter
  <2> QED BY <1>6, <2>1, <2>3, <2>4 DEF Desk!Filters
<1>7. CASE S \cap {"received", "accepted"} = {} /\ "completed" \in S
  <2>1. Desk!Aggregate(S) = "completed" /\ Desk!DetailAggregate(S) = "completed"
    BY <1>7 DEF Desk!Aggregate, Desk!DetailAggregate
  <2>2. Desk!Min(K) = 3
    BY <1>2, <1>4, <1>7
  <2>3. Desk!MemberAggregate(S) = "completed"
    BY <1>3, <2>2 DEF Desk!TabOf
  <2>4. Desk!MatchesFilter("completed", "completed")
    BY DEF Desk!MatchesFilter
  <2> QED BY <1>7, <2>1, <2>3, <2>4 DEF Desk!Filters
<1>8. CASE S \cap {"received", "accepted", "completed"} = {} /\ "ready" \in S
  <2>1. Desk!Aggregate(S) = "payout" /\ Desk!DetailAggregate(S) = "payout"
    BY <1>8 DEF Desk!Aggregate, Desk!DetailAggregate
  <2>2. Desk!Min(K) = 4
    BY <1>2, <1>4, <1>8
  <2>3. Desk!MemberAggregate(S) = "payout"
    BY <1>3, <2>2 DEF Desk!TabOf
  <2>4. Desk!MatchesFilter("ready", "payout")
    BY DEF Desk!MatchesFilter
  <2> QED BY <1>8, <2>1, <2>3, <2>4 DEF Desk!Filters
<1>9. CASE S \cap {"received", "accepted", "completed", "ready"} = {}
  <2>0. "paid" \in S
    BY <1>9 DEF Desk!Statuses
  <2>1. Desk!Aggregate(S) = "settled" /\ Desk!DetailAggregate(S) = "settled"
    BY <1>9 DEF Desk!Aggregate, Desk!DetailAggregate
  <2>2. Desk!Min(K) = 5
    BY <1>2, <1>4, <1>9, <2>0
  <2>3. Desk!MemberAggregate(S) = "settled"
    BY <1>3, <2>2 DEF Desk!TabOf
  <2>4. Desk!MatchesFilter("paid", "settled")
    BY DEF Desk!MatchesFilter
  <2> QED BY <2>0, <2>1, <2>3, <2>4 DEF Desk!Filters
<1> QED BY <1>5, <1>6, <1>7, <1>8, <1>9

LEMMA TabsOfPage == DeskTypes => Desk!TabsAgree
<1>. DEFINE Seen == page["list"].seen
            Tabs(p) == {f \in Desk!Filters \ {"all"} : p \in Desk!Counted(Seen, f)}
            Of(p) == {Seen[o] : o \in Desk!Of(p)}
<1>1. ASSUME DeskTypes, Seen # Desk!NoCopy, NEW p \in Proposals
      PROVE  /\ Desk!Cardinality(Tabs(p)) = 1
             /\ \A f \in Tabs(p) : Desk!Grouped(Seen, p, f) # {}
             /\ {Desk!DetailAggregate(Of(p)), Desk!MemberAggregate(Of(p))} \subseteq Tabs(p)
  <2>0. PICK seen : seen = Seen
    OBVIOUS
  <2>1. seen \in [Orders -> Desk!Statuses]
    BY <1>1, <2>0 DEF DeskTypes, Copies, Desk!Pages
  <2>2. PICK S : S = Of(p)
    OBVIOUS
  <2>3. S \in SUBSET Desk!Statuses /\ S # {}
    <3>1. Desk!Of(p) \subseteq Orders /\ Desk!Of(p) # {}
      BY DeskAssumption DEF Desk!Of, Desk!ConstantsOK
    <3> QED BY <2>0, <2>1, <2>2, <3>1
  <2>4. PICK g : g = Desk!Aggregate(S)
    OBVIOUS
  <2>5. g \in Desk!Filters \ {"all"} /\ Tabs(p) = {g}
    <3>1. g \in Desk!Filters \ {"all"}
      BY <2>3, <2>4, GroupHasTab
    <3>2. \A f : p \in Desk!Counted(Seen, f) <=> f = "all" \/ g = f
      BY <2>2, <2>4 DEF Desk!Counted
    <3> QED BY <3>1, <3>2
  <2>6. Desk!Cardinality(Tabs(p)) = 1
    <3>1. Cardinality({g}) = 1
      BY FS_Singleton
    <3> QED BY <2>5, <3>1 DEF Desk!Cardinality, Cardinality
  <2>7. Desk!Grouped(Seen, p, g) # {}
    <3>1. PICK o \in Desk!Of(p) : Desk!MatchesFilter(seen[o], g)
      BY <2>0, <2>2, <2>3, <2>4, GroupHasTab
    <3> QED BY <1>1, <2>0, <3>1 DEF Desk!Grouped
  <2>8. Desk!DetailAggregate(S) = g /\ Desk!MemberAggregate(S) = g
    BY <2>3, <2>4, GroupHasTab
  <2> HIDE DEF Tabs, Of
  <2> QED BY <2>2, <2>5, <2>6, <2>7, <2>8
<1> QED BY <1>1 DEF Desk!TabsAgree

(* For any orders, pages and handlers, and with no word about trouble: what *)
(* is marked as paid was sent, and the tabs and pages agree on each group   *)
(* (portal_handlers.go:520-600, merchant-dashboard.tsx:89-126,              *)
(* merchant-order-detail.tsx:241-248).                                      *)
THEOREM DeskStaysSound == DeskRuns => []DeskIsSound
<1>1. (\E open \in SUBSET Desk!Pages : DeskOpens(open)) => DeskBase /\ Dispatched /\ PaidWasSent
  <2>1. ASSUME NEW open, DeskOpens(open)
        PROVE  DeskBase /\ Dispatched /\ PaidWasSent
    <3>1. DeskBase
      BY <2>1, DeskInvOpens DEF DeskInv, DeskBase
    <3>2. \A j \in Jobs : job[j] = Desk!Free
      BY <2>1 DEF DeskOpens
    <3>3. Dispatched
      BY <3>2, FreeIsRecord DEF Dispatched, Sending
    <3>4. PaidWasSent
      BY <2>1 DEF PaidWasSent, DeskOpens
    <3> QED BY <3>1, <3>3, <3>4
  <2> QED BY <2>1
<1>2. DeskBase /\ Dispatched /\ PaidWasSent /\ [Desk!Next /\ Troubles]_<<Desk!vars, trouble>>
        => (DeskBase /\ Dispatched /\ PaidWasSent)'
  <2>1. ASSUME DeskBase, Dispatched, PaidWasSent, Desk!Next
        PROVE  (DeskBase /\ Dispatched /\ PaidWasSent)'
    BY <2>1, DeskStep, SentKept
  <2>2. ASSUME DeskBase, Dispatched, PaidWasSent, UNCHANGED <<Desk!vars, trouble>>
        PROVE  (DeskBase /\ Dispatched /\ PaidWasSent)'
    <3>1. order' = order /\ paidFor' = paidFor /\ page' = page /\ job' = job
      BY <2>2 DEF Desk!vars
    <3>2. DeskBase'
      BY <2>2, <3>1 DEF DeskBase, DeskTypes, OneBusy, Busy
    <3>3. \A j \in Jobs, o \in Orders : Sending(j, o)' = Sending(j, o)
      BY <3>1 DEF Sending, Desk!Group
    <3>4. Dispatched' /\ PaidWasSent'
      BY <2>2, <3>1, <3>3 DEF Dispatched, PaidWasSent
    <3> QED BY <3>2, <3>4
  <2> QED BY <2>1, <2>2
<1>3. DeskBase /\ PaidWasSent => DeskIsSound
  BY TabsOfPage DEF DeskBase, PaidWasSent, DeskIsSound, Desk!PaidIsSent
<1> QED BY <1>1, <1>2, <1>3, PTL DEF DeskRuns

=============================================================================

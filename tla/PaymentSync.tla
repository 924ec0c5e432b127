----------------------------- MODULE PaymentSync -----------------------------
(***************************************************************************)
(* The pages of the web application on which a member pays: the ordering    *)
(* workspace, the subscription checkpoint and the subscription page.  A     *)
(* handler asks the wallet for a payment, waits for its receipt, which it   *)
(* does not read, notes the hash in the session storage of the tab,         *)
(* registers the transaction with the server and then sends the request the *)
(* payment is for.  When the last step fails the note stays, and the next   *)
(* page of the tab that is loaded sends the request again.  The server      *)
(* marks the transaction completed after the change, in a statement of its  *)
(* own whose failure it ignores.                                            *)
(*                                                                          *)
(* A handler goes on after its component was unmounted (a link of the       *)
(* application) and ends where it stands when the document is left (a       *)
(* reload, a login, a logout); what it has sent is then still served.       *)
(***************************************************************************)
EXTENDS Naturals, FiniteSets

CONSTANTS Tabs, Members, Txs, Jobs,
          Flows,       \* the handlers of this instance, a subset of AllFlows
          MaxApplied,  \* bound on how often one payment's request is applied
          NoTx, Nobody

AllFlows == {"CreateOrder", "AddOption", "Vote", "Order", "Checkpoint", "Renewal"}

ASSUME FlowsAssumption == Flows \subseteq AllFlows
ASSUME NoTxAssumption == NoTx \notin Txs
ASSUME NobodyAssumption == Nobody \notin Members
ASSUME MaxAppliedAssumption == MaxApplied \in Nat \ {0}

VARIABLES
  session,   \* session[t]: the member whose token lies in the tab's session storage
  page,      \* page[t]: the component that is mounted in the tab
  slot,      \* slot[t][k]: the payment noted as not yet synchronised, and what it is for
  job,       \* job[j]: a handler under way
  chain,     \* chain[x]: the payment x, once the wallet has sent it
  row,       \* row[x]: the server's pending transaction of x
  applied,   \* applied[x]: how often a request carrying x was applied
  recorded,  \* the <<payment, kind>> pairs of the requests that were applied
  held,      \* the <<member, kind>> pairs the server accepts only once
  closed     \* the kinds of request the server takes no longer

vars == <<session, page, slot, job, chain, row, applied, recorded, held, closed>>

----------------------------------------------------------------------------
(* What the handlers differ in.  free: without a usable treasury address    *)
(* the request is sent unpaid.  strict: a failed registration ends the      *)
(* handler.  leaves: success loads another document.                        *)

CreateOrder == [page |-> "workspace", key |-> "ordering", kind |-> "create_proposal",
                free |-> TRUE, strict |-> FALSE, leaves |-> TRUE]
AddOption   == [page |-> "workspace", key |-> "ordering", kind |-> "add_option",
                free |-> TRUE, strict |-> FALSE, leaves |-> FALSE]
Vote        == [page |-> "workspace", key |-> "ordering", kind |-> "vote",
                free |-> TRUE, strict |-> FALSE, leaves |-> FALSE]
Order       == [page |-> "workspace", key |-> "ordering", kind |-> "pay_order",
                free |-> TRUE, strict |-> TRUE, leaves |-> FALSE]
Checkpoint  == [page |-> "checkpoint", key |-> "subscription", kind |-> "subscribe",
                free |-> FALSE, strict |-> FALSE, leaves |-> TRUE]
Renewal     == [page |-> "subscription", key |-> "subscription", kind |-> "subscribe",
                free |-> FALSE, strict |-> FALSE, leaves |-> FALSE]

Flow == [CreateOrder |-> CreateOrder, AddOption |-> AddOption, Vote |-> Vote,
         Order |-> Order, Checkpoint |-> Checkpoint, Renewal |-> Renewal]

Keys  == {"ordering", "subscription"}
Kinds == {"create_proposal", "add_option", "vote", "pay_order", "subscribe"}
Once  == {"add_option", "vote"}
Pages == {Flow[f].page : f \in Flows}
KeyOf(p) == IF p = "workspace" THEN "ordering" ELSE "subscription"

\* The handler that a note's replay repeats: the request of that kind on this page.
ReplayOf(p, k) == CHOOSE f \in AllFlows : Flow[f].kind = k /\ (k = "subscribe" => Flow[f].page = p)

NoJob  == [step |-> "none"]
Away   == [at |-> "away", ready |-> FALSE, busy |-> FALSE, treasury |-> FALSE]
NoNote == [tx |-> NoTx, kind |-> "none"]
NoRow  == [state |-> "none", member |-> Nobody]
Unsent == [state |-> "none", by |-> Nobody, kind |-> "none"]

Running == {j \in Jobs : job[j] # NoJob}
Of(t)   == {j \in Running : job[j].tab = t}

\* The document of tab t is left: its handlers do not go on, what they sent is served.
\* (A question the wallet has not answered goes with the document.)
Sent == {"register", "check", "apply", "complete"}

\* The outcomes of a transaction the receipt is awaited for: it succeeded, or it was
\* reverted, replaced or cancelled.  Both end the waiting without an error.
Outcomes == {"mined", "failed"}

LeaveDocument(t) ==
  [j \in Jobs |-> IF j \notin Of(t) THEN job[j]
                  ELSE IF job[j].step \in Sent THEN [job[j] EXCEPT !.life = "dead"]
                  ELSE NoJob]

Release(j) ==
  IF job[j].life = "live" THEN [page EXCEPT ![job[j].tab].busy = FALSE] ELSE page

----------------------------------------------------------------------------
(* Pages and sessions. *)

\* A link of the application: another component is mounted, handlers stay.
Navigate(t, p) ==
  /\ session[t] # Nobody
  /\ page' = [page EXCEPT ![t] = [Away EXCEPT !.at = p]]
  /\ job' = [j \in Jobs |-> IF j \in Of(t) /\ job[j].life = "live"
                              THEN [job[j] EXCEPT !.life = "loose"] ELSE job[j]]
  /\ UNCHANGED <<session, slot, chain, row, applied, recorded, held, closed>>

\* A reload, or the address of a page: the document is loaded anew.
Reload(t, p) ==
  /\ session[t] # Nobody
  /\ page' = [page EXCEPT ![t] = [Away EXCEPT !.at = p]]
  /\ job' = LeaveDocument(t)
  /\ UNCHANGED <<session, slot, chain, row, applied, recorded, held, closed>>

\* Logging out removes the token and the wallet marks, and nothing else.
Logout(t) ==
  /\ session[t] # Nobody
  /\ session' = [session EXCEPT ![t] = Nobody]
  /\ page' = [page EXCEPT ![t] = Away]
  /\ job' = LeaveDocument(t)
  /\ UNCHANGED <<slot, chain, row, applied, recorded, held, closed>>

\* The tab is closed, and another one opened.
CloseTab(t) ==
  /\ session' = [session EXCEPT ![t] = Nobody]
  /\ page' = [page EXCEPT ![t] = Away]
  /\ slot' = [slot EXCEPT ![t] = [k \in Keys |-> NoNote]]
  /\ job' = LeaveDocument(t)
  /\ UNCHANGED <<chain, row, applied, recorded, held, closed>>

Login(t, m) ==
  /\ session[t] = Nobody
  /\ session' = [session EXCEPT ![t] = m]
  /\ UNCHANGED <<page, slot, job, chain, row, applied, recorded, held, closed>>

\* The first refresh has come back.  Without /contract (or, for a new order,
\* without the fees) the page goes on as if there were no treasury.
Mounted(t, treasury, j) ==
  LET p == page[t].at
      note == slot[t][KeyOf(p)]
      replay == note # NoNote
  IN /\ p # "away" /\ ~page[t].ready
     /\ page' = [page EXCEPT ![t] = [at |-> p, ready |-> TRUE, busy |-> replay,
                                      treasury |-> treasury]]
     /\ IF replay
          THEN /\ job[j] = NoJob
               /\ job' = [job EXCEPT ![j] =
                    [tab |-> t, flow |-> ReplayOf(p, note.kind), step |-> "check",
                     tx |-> note.tx, by |-> session[t], life |-> "live"]]
          ELSE UNCHANGED job
     /\ UNCHANGED <<session, slot, chain, row, applied, recorded, held, closed>>

LoadWorkspace(t)    == page[t].at = "workspace" /\ \E u \in BOOLEAN, j \in Jobs : Mounted(t, u, j)
LoadCheckpoint(t)   == page[t].at = "checkpoint" /\ \E u \in BOOLEAN, j \in Jobs : Mounted(t, u, j)
LoadSubscription(t) == page[t].at = "subscription" /\ \E u \in BOOLEAN, j \in Jobs : Mounted(t, u, j)

----------------------------------------------------------------------------
(* A handler. *)

\* The button is enabled while no action is pending.
Start(t, f, j) ==
  LET w == Flow[f] IN
  /\ page[t].at = w.page /\ page[t].ready /\ ~page[t].busy
  /\ job[j] = NoJob
  /\ page[t].treasury \/ w.free
  /\ page' = [page EXCEPT ![t].busy = TRUE]
  /\ job' = [job EXCEPT ![j] =
       [tab |-> t, flow |-> f, tx |-> NoTx, by |-> session[t], life |-> "live",
        step |-> IF page[t].treasury THEN "wallet" ELSE "check"]]
  /\ UNCHANGED <<session, slot, chain, row, applied, recorded, held, closed>>

\* The handler ends in its catch and finally: a message, the button enabled, the note kept.
EndFailed(j) ==
  /\ job' = [job EXCEPT ![j] = NoJob]
  /\ page' = Release(j)

\* No wallet, the wrong network, too little money, or the member declines.
WalletRefuses(j) ==
  /\ job[j].step = "wallet"
  /\ EndFailed(j)
  /\ UNCHANGED <<session, slot, chain, row, applied, recorded, held, closed>>

WalletSends(j, x) ==
  /\ job[j].step = "wallet"
  /\ chain[x] = Unsent
  /\ chain' = [chain EXCEPT ![x] = [state |-> "sent", by |-> job[j].by,
                                    kind |-> Flow[job[j].flow].kind]]
  /\ job' = [job EXCEPT ![j].step = "mining", ![j].tx = x]
  /\ UNCHANGED <<session, page, slot, row, applied, recorded, held, closed>>

Mine(x) ==
  /\ chain[x].state = "sent"
  /\ \E o \in Outcomes : chain' = [chain EXCEPT ![x].state = o]
  /\ UNCHANGED <<session, page, slot, job, row, applied, recorded, held, closed>>

ReceiptNotAwaited(j) ==
  /\ job[j].step = "mining"
  /\ slot' = [slot EXCEPT ![job[j].tab][Flow[job[j].flow].key] =
                [tx |-> job[j].tx, kind |-> Flow[job[j].flow].kind]]
  /\ job' = [job EXCEPT ![j].step = "register"]
  /\ UNCHANGED <<session, page, chain, row, applied, recorded, held, closed>>

\* The receipt is there, whatever it says: the hash is noted, whatever note was there
\* before.
ReceiptSeen(j) ==
  /\ job[j].step = "mining" /\ chain[job[j].tx].state \in Outcomes
  /\ slot' = [slot EXCEPT ![job[j].tab][Flow[job[j].flow].key] =
                [tx |-> job[j].tx, kind |-> Flow[job[j].flow].kind]]
  /\ job' = [job EXCEPT ![j].step = "register"]
  /\ UNCHANGED <<session, page, chain, row, applied, recorded, held, closed>>

\* Waiting for the receipt fails although the payment was sent: nothing is noted.
ReceiptLost(j) ==
  /\ job[j].step = "mining"
  /\ EndFailed(j)
  /\ UNCHANGED <<session, slot, chain, row, applied, recorded, held, closed>>

RegisteredRow(j) ==
  [row EXCEPT ![job[j].tx] =
     [state |-> IF @.state = "none" THEN "pending" ELSE @.state, member |-> job[j].by]]

\* POST /transactions is answered, or nobody waits for the answer any more.
Register(j) ==
  /\ job[j].step = "register"
  /\ row' = RegisteredRow(j)
  /\ job' = [job EXCEPT ![j] = IF @.life = "dead" THEN NoJob ELSE [@ EXCEPT !.step = "check"]]
  /\ UNCHANGED <<session, page, slot, chain, applied, recorded, held, closed>>

\* POST /transactions failed, before or after the server stored the row.
RegisterFails(j, stored) ==
  /\ job[j].step = "register" /\ job[j].life # "dead"
  /\ row' = IF stored THEN RegisteredRow(j) ELSE row
  /\ IF Flow[job[j].flow].strict
       THEN EndFailed(j)
       ELSE job' = [job EXCEPT ![j].step = "check"] /\ UNCHANGED page
  /\ UNCHANGED <<session, slot, chain, applied, recorded, held, closed>>

----------------------------------------------------------------------------
(* The server on a request that carries a payment's hash. *)

NeverCompleted(j) == FALSE

Completed(j) ==
  /\ job[j].tx # NoTx
  /\ row[job[j].tx] = [state |-> "completed", member |-> job[j].by]

Check(j) ==
  /\ job[j].step = "check"
  /\ job' = [job EXCEPT ![j].step = IF Completed(j) THEN "good" ELSE "apply"]
  /\ UNCHANGED <<session, page, slot, chain, row, applied, recorded, held, closed>>

\* The look-up fails, or the reading of what the completed transaction led to: the
\* handler goes on as if the transaction were not completed.
Overlook(j) ==
  /\ job[j].step = "check"
  /\ job' = [job EXCEPT ![j].step = "apply"]
  /\ UNCHANGED <<session, page, slot, chain, row, applied, recorded, held, closed>>

Applied(j) ==
  LET x == job[j].tx IN
  IF x = NoTx THEN UNCHANGED <<applied, recorded>>
  ELSE /\ applied' = [applied EXCEPT ![x] = IF @ < MaxApplied THEN @ + 1 ELSE @]
       /\ recorded' = recorded \cup {<<x, Flow[job[j].flow].kind>>}

Apply(j) ==
  LET what == <<job[j].by, Flow[job[j].flow].kind>> IN
  /\ job[j].step = "apply"
  /\ what[2] \notin closed /\ what \notin held
  /\ held' = IF what[2] \in Once THEN held \cup {what} ELSE held
  /\ Applied(j)
  /\ job' = [job EXCEPT ![j].step = "complete"]
  /\ UNCHANGED <<session, page, slot, chain, row, closed>>

\* The new round is stored, but one of its first options is refused; the subscription
\* is extended, but not logged: the request fails.
ApplyPartly(j) ==
  /\ job[j].step = "apply"
  /\ Flow[job[j].flow].kind \in {"create_proposal", "subscribe"} \ closed
  /\ Applied(j)
  /\ job' = [job EXCEPT ![j].step = "bad"]
  /\ UNCHANGED <<session, page, slot, chain, row, held, closed>>

Refuse(j) ==
  LET what == <<job[j].by, Flow[job[j].flow].kind>> IN
  /\ job[j].step = "apply"
  /\ what[2] \in closed \/ what \in held
  /\ job' = [job EXCEPT ![j].step = "bad"]
  /\ UNCHANGED <<session, page, slot, chain, row, applied, recorded, held, closed>>

\* Only a row that was registered for this member is updated.
Complete(j) ==
  LET x == job[j].tx IN
  /\ job[j].step = "complete"
  /\ row' = IF x # NoTx /\ row[x].state # "none" /\ row[x].member = job[j].by
              THEN [row EXCEPT ![x].state = "completed"] ELSE row
  /\ job' = [job EXCEPT ![j].step = "good"]
  /\ UNCHANGED <<session, page, slot, chain, applied, recorded, held, closed>>

\* The update fails, and its error is dropped: the request is answered all the same.
LeaveIncomplete(j) ==
  /\ job[j].step = "complete"
  /\ job' = [job EXCEPT ![j].step = "good"]
  /\ UNCHANGED <<session, page, slot, chain, row, applied, recorded, held, closed>>

\* A stage ends, or the member is no longer of the group: refused from now on.
Close(k) ==
  /\ k \in {Flow[f].kind : f \in Flows} \ (closed \cup {"subscribe"})
  /\ closed' = closed \cup {k}
  /\ UNCHANGED <<session, page, slot, job, chain, row, applied, recorded, held>>

----------------------------------------------------------------------------
(* The answer. *)

\* Success clears the note, whichever payment it holds by now.
Succeed(j) ==
  LET t == job[j].tab
      w == Flow[job[j].flow]
  IN /\ job[j].step = "good" /\ job[j].life # "dead"
     /\ slot' = [slot EXCEPT ![t][w.key] = NoNote]
     /\ IF w.leaves
          THEN /\ page' = [page EXCEPT ![t] = Away]
               /\ job' = [LeaveDocument(t) EXCEPT ![j] = NoJob]
          ELSE EndFailed(j)
     /\ UNCHANGED <<session, chain, row, applied, recorded, held, closed>>

Fail(j) ==
  /\ job[j].step = "bad" /\ job[j].life # "dead"
  /\ EndFailed(j)
  /\ UNCHANGED <<session, slot, chain, row, applied, recorded, held, closed>>

\* The connection breaks while the request is under way or being served.
LoseAnswer(j) ==
  /\ job[j].step \in {"check", "apply", "complete", "good", "bad"}
  /\ job[j].life # "dead"
  /\ page' = Release(j)
  /\ job' = [job EXCEPT ![j].life = "dead"]
  /\ UNCHANGED <<session, slot, chain, row, applied, recorded, held, closed>>

\* A request nobody waits for is done, never reached the server, or ended with the
\* server's process, wherever it stood.
Forget(j) ==
  /\ job[j] # NoJob /\ job[j].life = "dead"
  /\ job' = [job EXCEPT ![j] = NoJob]
  /\ UNCHANGED <<session, page, slot, chain, row, applied, recorded, held, closed>>
----------------------------------------------------------------------------
Init ==
  /\ session = [t \in Tabs |-> Nobody]
  /\ page = [t \in Tabs |-> Away]
  /\ slot = [t \in Tabs |-> [k \in Keys |-> NoNote]]
  /\ job = [j \in Jobs |-> NoJob]
  /\ chain = [x \in Txs |-> Unsent]
  /\ row = [x \in Txs |-> NoRow]
  /\ applied = [x \in Txs |-> 0]
  /\ recorded = {} /\ held = {} /\ closed = {}

Serve(j) ==
  \/ Check(j) \/ Overlook(j)
  \/ Apply(j) \/ ApplyPartly(j) \/ Refuse(j)
  \/ Complete(j) \/ LeaveIncomplete(j)
Receive(j) == Succeed(j) \/ Fail(j)
Registered(j) == Register(j) \/ \E stored \in BOOLEAN : RegisterFails(j, stored)
AwaitReceipt(j) == ReceiptSeen(j) \/ ReceiptLost(j)

Browse ==
  \E t \in Tabs :
    \/ \E p \in Pages : Navigate(t, p) \/ Reload(t, p)
    \/ Logout(t) \/ CloseTab(t)
    \/ \E m \in Members : Login(t, m)
    \/ LoadWorkspace(t) \/ LoadCheckpoint(t) \/ LoadSubscription(t)

Act ==
  \E j \in Jobs :
    \/ \E t \in Tabs, f \in Flows : Start(t, f, j)
    \/ WalletRefuses(j)
    \/ \E x \in Txs : WalletSends(j, x)
    \/ AwaitReceipt(j)
    \/ Registered(j)
    \/ Receive(j) \/ LoseAnswer(j) \/ Forget(j)

Next ==
  \/ Browse
  \/ Act
  \/ \E j \in Jobs : Serve(j)
  \/ \E x \in Txs : Mine(x)
  \/ \E k \in Kinds : Close(k)

Spec == Init /\ [][Next]_vars

----------------------------------------------------------------------------
(* Properties. *)

Notes == [tx : Txs \cup {NoTx}, kind : Kinds \cup {"none"}]
Steps == {"wallet", "mining", "register", "check", "apply", "complete", "good", "bad"}
JobRecords ==
  [tab : Tabs, flow : AllFlows, step : Steps, tx : Txs \cup {NoTx}, by : Members \cup {Nobody},
   life : {"live", "loose", "dead"}]

(* The variables have their types. *)
TypeOK ==
  /\ session \in [Tabs -> Members \cup {Nobody}]
  /\ page \in [Tabs -> [at : {"workspace", "checkpoint", "subscription", "away"},
                        ready : BOOLEAN, busy : BOOLEAN, treasury : BOOLEAN]]
  /\ slot \in [Tabs -> [Keys -> Notes]]
  /\ job \in [Jobs -> JobRecords \cup {NoJob}]
  /\ chain \in [Txs -> [state : {"none", "sent"} \cup Outcomes, by : Members \cup {Nobody},
                        kind : Kinds \cup {"none"}]]
  /\ row \in [Txs -> [state : {"none", "pending", "completed"}, member : Members \cup {Nobody}]]
  /\ applied \in [Txs -> 0 .. MaxApplied]
  /\ recorded \subseteq Txs \X Kinds
  /\ held \subseteq Members \X Kinds
  /\ closed \subseteq Kinds

(* The pages keep the ledger's promise: what the server records for a       *)
(* payment was sent by a wallet under that purpose and had its outcome      *)
(* before, however often requests are replayed, by whichever page of the    *)
(* tab.  That the outcome was success is not promised: the receipt's status *)
(* is never read.                                                           *)
Ledger ==
  INSTANCE PaymentLedger WITH
    decided <- {<<x, chain[x].kind>> : x \in {y \in Txs : chain[y].state \in Outcomes}},
    recorded <- recorded
LedgerKept == Ledger!Spec

(* The page says that the payment is being synchronised and asks to refresh *)
(* later: its note would stay until the server has recorded the payment.    *)
NotedUntilRecorded ==
  [][\A t \in Tabs, k \in Keys :
       \/ slot[t][k] \in {NoNote, slot'[t][k]}
       \/ <<slot[t][k].tx, slot[t][k].kind>> \in recorded
       \/ CloseTab(t)]_vars

=============================================================================

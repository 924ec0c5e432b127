----------------------------- MODULE PagesProofs -----------------------------
(***************************************************************************)
(* The pages of the web application that ask the server for a change, for   *)
(* any number of pages, members and requests.                               *)
(*                                                                         *)
(* PaymentSync implements PaymentLedger: whatever is left, lost, repeated   *)
(* or replayed, the server records for a payment only the purpose its money  *)
(* was sent for, and only once the payment had its outcome.  The promise is  *)
(* not inductive: a note or a handler that carried a payment to another      *)
(* purpose would break it later.  So the invariant says of each note and     *)
(* each handler that what it carries was bought for its purpose.  With the   *)
(* history of MCPaymentSync, retries are shown to be harmless: of each       *)
(* payment it is said who may still bring it to the server, and how often   *)
(* the server applied it at that point (RetryInv).                          *)
(*                                                                         *)
(* The desks of MCPages come after it, each with what it promises: the menu  *)
(* is the log of its changes (MenuInv), open shops are whole (ShopInv), the  *)
(* settings are lost only behind a page's back (SettingsInv), groups keep    *)
(* their doors (GroupInv).                                                  *)
(***************************************************************************)
EXTENDS MCPages, SumLemmas, SequenceTheorems


Places == {"workspace", "checkpoint", "subscription"}
Lives  == {"live", "loose", "dead"}
Asking == {"register", "check", "apply", "complete", "good", "bad"}

\* The purposes whose notes lie in the slot k.
KindsOf(k) == IF k = "ordering" THEN Kinds \ {"subscribe"} ELSE {"subscribe"}

\* The payment x left a wallet for the purpose k, and had an outcome.
Bought(x, k) == x \in Txs /\ chain[x].state # "none" /\ chain[x].kind = k
Decided(x, k) == Bought(x, k) /\ chain[x].state \in Outcomes

\* What a handler carries was bought for its purpose.
Fits(r) ==
  /\ r # NoJob => r.by \in Members
  /\ r.step = "mining" => Bought(r.tx, Flow[r.flow].kind)
  /\ r.step \in Asking => r.tx = NoTx \/ Decided(r.tx, Flow[r.flow].kind)
  /\ r.step = "register" => r.tx # NoTx

JobsInv == job \in [Jobs -> JobRecords \cup {NoJob}] /\ \A j \in Jobs : Fits(job[j])

NotesInv ==
  /\ slot \in [Tabs -> [Keys -> Notes]]
  /\ \A t \in Tabs, k \in Keys :
       slot[t][k] # NoNote => /\ slot[t][k].kind \in KindsOf(k)
                              /\ Decided(slot[t][k].tx, slot[t][k].kind)

\* Without a session no page of a member is open.
PagesInv ==
  /\ session \in [Tabs -> Members \cup {Nobody}]
  /\ page \in [Tabs -> [at : Places \cup {"away"}, ready : BOOLEAN, busy : BOOLEAN,
                        treasury : BOOLEAN]]
  /\ \A t \in Tabs : session[t] = Nobody => page[t].at = "away"

ChainInv ==
  /\ chain \in [Txs -> [state : {"none", "sent"} \cup Outcomes, by : Members \cup {Nobody},
                        kind : Kinds \cup {"none"}]]
  /\ \A x \in Txs : chain[x].state # "none" => chain[x].kind \in Kinds

RowsInv ==
  row \in [Txs -> [state : {"none", "pending", "completed"}, member : Members \cup {Nobody}]]

RecordsInv ==
  /\ applied \in [Txs -> 0 .. MaxApplied]
  /\ held \subseteq Members \X Kinds /\ closed \subseteq Kinds
  /\ recorded \subseteq Txs \X Kinds /\ \A p \in recorded : Decided(p[1], p[2])

IInv == PagesInv /\ JobsInv /\ NotesInv /\ ChainInv /\ RowsInv /\ RecordsInv

----------------------------------------------------------------------------
(* What the six handlers are, as far as the proof needs it.                 *)

LEMMA FlowsKnown ==
  \A f \in AllFlows : /\ Flow[f].page \in Places /\ Flow[f].key \in Keys
                      /\ Flow[f].kind \in KindsOf(Flow[f].key)
                      /\ Flow[f].kind \in Kinds
BY DEF AllFlows, Flow, CreateOrder, AddOption, Vote, Order, Checkpoint, Renewal,
       Places, Keys, Kinds, KindsOf

LEMMA PagesKnown == Pages \subseteq Places
BY FlowsKnown, FlowsAssumption DEF Pages

\* A note is replayed by a handler of its own purpose.
LEMMA ReplayKeepsKind ==
  ASSUME NEW p \in Places, NEW k \in KindsOf(KeyOf(p))
  PROVE  ReplayOf(p, k) \in AllFlows /\ Flow[ReplayOf(p, k)].kind = k
<1> DEFINE Right(f) == Flow[f].kind = k /\ (k = "subscribe" => Flow[f].page = p)
<1>1. \E f \in AllFlows : Right(f)
  <2>1. CASE p = "workspace"
    <3>1. k \in {"create_proposal", "add_option", "vote", "pay_order"}
      BY <2>1 DEF KindsOf, KeyOf, Kinds
    <3>2. Right("CreateOrder") \/ Right("AddOption") \/ Right("Vote") \/ Right("Order")
      BY <3>1 DEF Flow, CreateOrder, AddOption, Vote, Order
    <3> QED BY <3>2 DEF AllFlows
  <2>2. CASE p = "checkpoint"
    <3>1. Right("Checkpoint")
      BY <2>2 DEF KindsOf, KeyOf, Flow, Checkpoint
    <3> QED BY <3>1 DEF AllFlows
  <2>3. CASE p = "subscription"
    <3>1. Right("Renewal")
      BY <2>3 DEF KindsOf, KeyOf, Flow, Renewal
    <3> QED BY <3>1 DEF AllFlows
  <2> QED BY <2>1, <2>2, <2>3 DEF Places
<1>2. ReplayOf(p, k) = CHOOSE f \in AllFlows : Right(f)
  BY DEF ReplayOf
<1> QED BY <1>1, <1>2

----------------------------------------------------------------------------
(* What can become of a handler that is left, released or unanswered: it    *)
(* stays, ends, or goes on without its page or its document.                *)

Becomes(r, s) == s = r \/ s = NoJob \/ \E l \in Lives : s = [r EXCEPT !.life = l]

LEMMA BecomesFits ==
  ASSUME NEW r \in JobRecords \cup {NoJob}, NEW s, Becomes(r, s), Fits(r)
  PROVE  s \in JobRecords \cup {NoJob} /\ Fits(s)
<1>1. CASE s = r
  BY <1>1
<1>2. CASE s = NoJob
  BY <1>2 DEF Fits, NoJob, Asking
<1>3. ASSUME NEW l \in Lives, s = [r EXCEPT !.life = l], r \in JobRecords
      PROVE  s \in JobRecords /\ Fits(s)
  <2>1. s \in JobRecords /\ s.step = r.step /\ s.by = r.by /\ s.tx = r.tx /\ s.flow = r.flow
    BY <1>3 DEF JobRecords, Lives
  <2>2. r # NoJob
    BY <1>3 DEF JobRecords, NoJob, Steps
  <2> QED BY <2>1, <2>2 DEF Fits
<1>4. ASSUME NEW l \in Lives, s = [r EXCEPT !.life = l], r = NoJob
      PROVE  s = NoJob
  BY <1>4 DEF NoJob
<1> QED BY <1>1, <1>2, <1>3, <1>4 DEF Becomes

LEMMA LeavingBecomes ==
  ASSUME NEW t \in Tabs, NEW j \in Jobs
  PROVE  Becomes(job[j], LeaveDocument(t)[j])
BY DEF LeaveDocument, Becomes, Lives

----------------------------------------------------------------------------
(* What keeps the parts of the invariant.                                   *)

LEMMA PartsStay ==
  /\ PagesInv /\ UNCHANGED <<session, page>> => PagesInv'
  /\ JobsInv /\ UNCHANGED <<job, chain>> => JobsInv'
  /\ NotesInv /\ UNCHANGED <<slot, chain>> => NotesInv'
  /\ ChainInv /\ UNCHANGED chain => ChainInv'
  /\ RowsInv /\ UNCHANGED row => RowsInv'
  /\ RecordsInv /\ UNCHANGED <<applied, recorded, held, closed, chain>> => RecordsInv'
<1>1. PagesInv /\ UNCHANGED <<session, page>> => PagesInv'
  BY DEF PagesInv
<1>2. JobsInv /\ UNCHANGED <<job, chain>> => JobsInv'
  BY DEF JobsInv, Fits, Decided, Bought
<1>3. NotesInv /\ UNCHANGED <<slot, chain>> => NotesInv'
  BY DEF NotesInv, Decided, Bought
<1>4. ChainInv /\ UNCHANGED chain => ChainInv'
  BY DEF ChainInv
<1>5. RowsInv /\ UNCHANGED row => RowsInv'
  BY DEF RowsInv
<1>6. RecordsInv /\ UNCHANGED <<applied, recorded, held, closed, chain>> => RecordsInv'
  BY DEF RecordsInv, Decided, Bought
<1> QED BY <1>1, <1>2, <1>3, <1>4, <1>5, <1>6

\* No handler gets on, although some are left.
LEMMA JobsBecome ==
  ASSUME JobsInv, UNCHANGED chain, job' = [j \in Jobs |-> job'[j]],
         \A j \in Jobs : Becomes(job[j], job'[j])
  PROVE  JobsInv'
<1> SUFFICES ASSUME NEW j \in Jobs
             PROVE  job'[j] \in JobRecords \cup {NoJob} /\ Fits(job[j])'
  BY DEF JobsInv
<1>1. job'[j] \in JobRecords \cup {NoJob} /\ Fits(job'[j])
  BY BecomesFits DEF JobsInv
<1> QED BY <1>1 DEF Fits, Decided, Bought

\* One handler gets on.
LEMMA JobMoves ==
  ASSUME JobsInv, UNCHANGED chain, NEW j \in Jobs, NEW r \in JobRecords \cup {NoJob},
         Fits(r), job' = [job EXCEPT ![j] = r]
  PROVE  JobsInv'
<1>1. job' \in [Jobs -> JobRecords \cup {NoJob}]
  BY DEF JobsInv
<1> SUFFICES ASSUME NEW i \in Jobs PROVE Fits(job[i])'
  BY <1>1 DEF JobsInv
<1>2. Fits(job'[i])
  BY DEF JobsInv
<1> QED BY <1>2 DEF Fits, Decided, Bought

\* A note is only taken away.
LEMMA NotesGo ==
  ASSUME NotesInv, UNCHANGED chain, slot' \in [Tabs -> [Keys -> Notes]],
         \A t \in Tabs, k \in Keys : slot'[t][k] \in {slot[t][k], NoNote}
  PROVE  NotesInv'
BY DEF NotesInv, Decided, Bought

\* A page of the tab t changes.
LEMMA PageMoves ==
  ASSUME PagesInv, UNCHANGED session, NEW t \in Tabs,
         NEW q \in [at : Places \cup {"away"}, ready : BOOLEAN, busy : BOOLEAN, treasury : BOOLEAN],
         session[t] = Nobody => q.at = "away",
         page' = [page EXCEPT ![t] = q]
  PROVE  PagesInv'
BY DEF PagesInv

LEMMA ReleaseKeeps ==
  ASSUME PagesInv, UNCHANGED session, NEW j \in Jobs, job[j] \in JobRecords, page' = Release(j)
  PROVE  PagesInv'
<1>1. CASE job[j].life = "live"
  <2> DEFINE t == job[j].tab
             q == [page[t] EXCEPT !.busy = FALSE]
  <2>1. t \in Tabs
    BY DEF JobRecords
  <2>2. page' = [page EXCEPT ![t] = q]
    BY <1>1 DEF Release
  <2>3. /\ q \in [at : Places \cup {"away"}, ready : BOOLEAN, busy : BOOLEAN, treasury : BOOLEAN]
        /\ q.at = page[t].at
    BY <2>1 DEF PagesInv
  <2>4. session[t] = Nobody => q.at = "away"
    BY <2>1, <2>3 DEF PagesInv
  <2> HIDE DEF t, q
  <2> QED BY <2>1, <2>2, <2>3, <2>4, PageMoves
<1>2. CASE job[j].life # "live"
  BY <1>2, PartsStay DEF Release
<1> QED BY <1>1, <1>2

\* A handler that has a step is one.
LEMMA StepIsJob ==
  ASSUME JobsInv, NEW j \in Jobs, job[j].step \in Steps
  PROVE  job[j] \in JobRecords /\ job[j] # NoJob
BY DEF JobsInv, NoJob, Steps

LEMMA EndFits == NoJob \in JobRecords \cup {NoJob} /\ Fits(NoJob)
BY DEF Fits, NoJob, Asking

----------------------------------------------------------------------------
(* Leaving, logging in and out.                                             *)

LEMMA NavigateKeeps ==
  ASSUME IInv, NEW t \in Tabs, NEW p \in Pages, Navigate(t, p)
  PROVE  IInv'
<1>1. PagesInv'
  <2>1. p \in Places /\ session[t] # Nobody
    BY PagesKnown DEF Navigate
  <2> DEFINE q == [Away EXCEPT !.at = p]
  <2>2. q \in [at : Places \cup {"away"}, ready : BOOLEAN, busy : BOOLEAN, treasury : BOOLEAN]
    BY <2>1 DEF Away
  <2>3. page' = [page EXCEPT ![t] = q] /\ UNCHANGED session
    BY DEF Navigate
  <2> HIDE DEF q
  <2> QED BY <2>1, <2>2, <2>3, PageMoves DEF IInv
<1>2. JobsInv'
  <2>1. UNCHANGED chain /\ job' = [j \in Jobs |-> job'[j]]
    BY DEF Navigate
  <2>2. \A j \in Jobs : Becomes(job[j], job'[j])
    BY DEF Navigate, Becomes, Lives
  <2> QED BY <2>1, <2>2, JobsBecome DEF IInv
<1> QED BY <1>1, <1>2, PartsStay DEF IInv, Navigate

\* The document of the tab t is left.
LEMMA JobsLeft ==
  ASSUME JobsInv, UNCHANGED chain, NEW t \in Tabs, job' = LeaveDocument(t)
  PROVE  JobsInv'
<1>1. job' = [j \in Jobs |-> job'[j]]
  BY DEF LeaveDocument
<1>2. \A j \in Jobs : Becomes(job[j], job'[j])
  BY LeavingBecomes
<1> QED BY <1>1, <1>2, JobsBecome

LEMMA ReloadKeeps ==
  ASSUME IInv, NEW t \in Tabs, NEW p \in Pages, Reload(t, p)
  PROVE  IInv'
<1>1. PagesInv'
  <2>1. p \in Places /\ session[t] # Nobody
    BY PagesKnown DEF Reload
  <2> DEFINE q == [Away EXCEPT !.at = p]
  <2>2. q \in [at : Places \cup {"away"}, ready : BOOLEAN, busy : BOOLEAN, treasury : BOOLEAN]
    BY <2>1 DEF Away
  <2>3. page' = [page EXCEPT ![t] = q] /\ UNCHANGED session
    BY DEF Reload
  <2> HIDE DEF q
  <2> QED BY <2>1, <2>2, <2>3, PageMoves DEF IInv
<1>2. JobsInv'
  BY JobsLeft DEF IInv, Reload
<1> QED BY <1>1, <1>2, PartsStay DEF IInv, Reload

\* A session ends, and its page with it.
LEMMA SessionEnds ==
  ASSUME PagesInv, NEW t \in Tabs, session' = [session EXCEPT ![t] = Nobody],
         page' = [page EXCEPT ![t] = Away]
  PROVE  PagesInv'
BY DEF PagesInv, Away

LEMMA LogoutKeeps ==
  ASSUME IInv, NEW t \in Tabs, Logout(t)
  PROVE  IInv'
<1>1. PagesInv'
  BY SessionEnds DEF IInv, Logout
<1>2. JobsInv'
  BY JobsLeft DEF IInv, Logout
<1> QED BY <1>1, <1>2, PartsStay DEF IInv, Logout

LEMMA CloseTabKeeps ==
  ASSUME IInv, NEW t \in Tabs, CloseTab(t)
  PROVE  IInv'
<1>1. PagesInv'
  BY SessionEnds DEF IInv, CloseTab
<1>2. JobsInv'
  BY JobsLeft DEF IInv, CloseTab
<1>3. NotesInv'
  <2>1. slot' \in [Tabs -> [Keys -> Notes]]
    BY DEF IInv, NotesInv, CloseTab, Notes, NoNote
  <2>2. \A u \in Tabs, k \in Keys : slot'[u][k] \in {slot[u][k], NoNote}
    BY DEF IInv, NotesInv, CloseTab
  <2>3. UNCHANGED chain
    BY DEF CloseTab
  <2> QED BY <2>1, <2>2, <2>3, NotesGo DEF IInv
<1> QED BY <1>1, <1>2, <1>3, PartsStay DEF IInv, CloseTab

LEMMA LoginKeeps ==
  ASSUME IInv, NEW t \in Tabs, NEW m \in Members, Login(t, m)
  PROVE  IInv'
<1>1. PagesInv'
  BY NobodyAssumption DEF IInv, PagesInv, Login
<1> QED BY <1>1, PartsStay DEF IInv, Login

----------------------------------------------------------------------------
(* Handlers begin: by the replay of a note, or by a button.                 *)

LEMMA MountedKeeps ==
  ASSUME IInv, NEW t \in Tabs, NEW u \in BOOLEAN, NEW j \in Jobs, Mounted(t, u, j)
  PROVE  IInv'
<1> DEFINE p == page[t].at
           note == slot[t][KeyOf(p)]
           q == [at |-> p, ready |-> TRUE, busy |-> note # NoNote, treasury |-> u]
<1>1. /\ p \in Places /\ session[t] \in Members
      /\ page' = [page EXCEPT ![t] = q]
      /\ UNCHANGED <<session, slot, chain, row, applied, recorded, held, closed>>
  BY DEF IInv, PagesInv, Mounted
<1>2. PagesInv'
  <2>1. q \in [at : Places \cup {"away"}, ready : BOOLEAN, busy : BOOLEAN, treasury : BOOLEAN]
    BY <1>1
  <2>2. session[t] = Nobody => q.at = "away"
    BY <1>1, NobodyAssumption
  <2> HIDE DEF q
  <2> QED BY <1>1, <2>1, <2>2, PageMoves DEF IInv
<1>3. CASE note # NoNote
  <2> DEFINE f == ReplayOf(p, note.kind)
             r == [tab |-> t, flow |-> f, step |-> "check", tx |-> note.tx,
                   by |-> session[t], life |-> "live"]
  <2>1. job' = [job EXCEPT ![j] = r]
    BY <1>3 DEF Mounted
  <2>2. KeyOf(p) \in Keys
    BY DEF KeyOf, Keys
  <2>3. note.kind \in KindsOf(KeyOf(p)) /\ Decided(note.tx, note.kind) /\ note \in Notes
    BY <1>3, <2>2 DEF IInv, NotesInv
  <2>4. f \in AllFlows /\ Flow[f].kind = note.kind
    BY <1>1, <2>3, ReplayKeepsKind
  <2>5. r \in JobRecords
    BY <1>1, <2>3, <2>4 DEF JobRecords, Notes, Steps
  <2>6. Fits(r)
    BY <1>1, <2>3, <2>4 DEF Fits
  <2> HIDE DEF r
  <2>7. JobsInv'
    BY <1>1, <2>1, <2>5, <2>6, JobMoves DEF IInv
  <2> QED BY <1>1, <1>2, <2>7, PartsStay DEF IInv
<1>4. CASE note = NoNote
  <2>1. UNCHANGED job
    BY <1>4 DEF Mounted
  <2> QED BY <1>1, <1>2, <2>1, PartsStay DEF IInv
<1> QED BY <1>3, <1>4

LEMMA StartKeeps ==
  ASSUME IInv, NEW t \in Tabs, NEW f \in Flows, NEW j \in Jobs, Start(t, f, j)
  PROVE  IInv'
<1> DEFINE q == [page[t] EXCEPT !.busy = TRUE]
           r == [tab |-> t, flow |-> f, tx |-> NoTx, by |-> session[t], life |-> "live",
                 step |-> IF page[t].treasury THEN "wallet" ELSE "check"]
<1>1. /\ page' = [page EXCEPT ![t] = q] /\ job' = [job EXCEPT ![j] = r]
      /\ UNCHANGED <<session, slot, chain, row, applied, recorded, held, closed>>
  BY DEF Start
<1>2. f \in AllFlows /\ page[t].at \in Places
  BY FlowsAssumption, FlowsKnown DEF Start
<1>3. session[t] \in Members
  BY <1>2 DEF IInv, PagesInv, Places
<1>4. PagesInv'
  <2>1. /\ q \in [at : Places \cup {"away"}, ready : BOOLEAN, busy : BOOLEAN, treasury : BOOLEAN]
        /\ session[t] = Nobody => q.at = "away"
    BY <1>3, NobodyAssumption DEF IInv, PagesInv
  <2> HIDE DEF q
  <2> QED BY <1>1, <2>1, PageMoves DEF IInv
<1>5. JobsInv'
  <2>1. r \in JobRecords
    BY <1>2, <1>3 DEF JobRecords, Steps
  <2>2. Fits(r)
    BY <1>3 DEF Fits
  <2> HIDE DEF r
  <2> QED BY <1>1, <2>1, <2>2, JobMoves DEF IInv
<1> QED BY <1>1, <1>4, <1>5, PartsStay DEF IInv

----------------------------------------------------------------------------
(* The wallet and the receipt.                                              *)

\* A handler ends: nothing of what it carried was lost by others.
LEMMA EndKeeps ==
  ASSUME IInv, NEW j \in Jobs, job[j].step \in Steps, EndFailed(j), UNCHANGED <<session, chain>>
  PROVE  PagesInv' /\ JobsInv'
<1>1. job[j] \in JobRecords
  BY StepIsJob DEF IInv
<1>2. PagesInv'
  BY <1>1, ReleaseKeeps DEF IInv, EndFailed
<1>3. JobsInv'
  BY EndFits, JobMoves DEF IInv, EndFailed
<1> QED BY <1>2, <1>3

LEMMA WalletRefusesKeeps ==
  ASSUME IInv, NEW j \in Jobs, WalletRefuses(j)
  PROVE  IInv'
<1>1. PagesInv' /\ JobsInv'
  BY EndKeeps DEF WalletRefuses, Steps
<1> QED BY <1>1, PartsStay DEF IInv, WalletRefuses

LEMMA ReceiptLostKeeps ==
  ASSUME IInv, NEW j \in Jobs, ReceiptLost(j)
  PROVE  IInv'
<1>1. PagesInv' /\ JobsInv'
  BY EndKeeps DEF ReceiptLost, Steps
<1> QED BY <1>1, PartsStay DEF IInv, ReceiptLost

\* Payments are added to the chain and mined, never taken back.
ChainGrows ==
  \A x \in Txs, k \in Kinds : /\ Bought(x, k) => Bought(x, k)'
                              /\ Decided(x, k) => Decided(x, k)'

LEMMA GrowthKeeps ==
  ASSUME IInv, ChainGrows, UNCHANGED <<slot, applied, recorded, held, closed>>
  PROVE  /\ NotesInv' /\ RecordsInv'
         /\ \A j \in Jobs : job[j].flow \in AllFlows /\ job'[j] = job[j] => Fits(job[j])'
<1>1. NotesInv'
  <2>1. \A k \in Keys : KindsOf(k) \subseteq Kinds
    BY DEF KindsOf, Kinds
  <2> SUFFICES ASSUME NEW t \in Tabs, NEW k \in Keys, slot[t][k] # NoNote
               PROVE  Decided(slot[t][k].tx, slot[t][k].kind)'
    BY DEF IInv, NotesInv
  <2> DEFINE x == slot[t][k].tx
             w == slot[t][k].kind
  <2>2. Decided(x, w) /\ w \in Kinds /\ x \in Txs
    BY <2>1 DEF IInv, NotesInv, Decided, Bought
  <2>3. x' = x /\ w' = w
    OBVIOUS
  <2> QED BY <2>2, <2>3 DEF ChainGrows, Decided, Bought
<1>2. RecordsInv'
  <2> SUFFICES ASSUME NEW p \in recorded PROVE Decided(p[1], p[2])'
    BY DEF IInv, RecordsInv
  <2>1. p[1] \in Txs /\ p[2] \in Kinds /\ Decided(p[1], p[2])
    BY DEF IInv, RecordsInv
  <2> QED BY <2>1 DEF ChainGrows
<1>3. ASSUME NEW j \in Jobs, job[j].flow \in AllFlows, job'[j] = job[j]
      PROVE  Fits(job[j])'
  <2>1. Flow[job[j].flow].kind \in Kinds
    BY <1>3, FlowsKnown
  <2>2. Fits(job[j])
    BY DEF IInv, JobsInv
  <2> QED BY <1>3, <2>1, <2>2 DEF Fits, ChainGrows, Decided, Bought
<1> QED BY <1>1, <1>2, <1>3

LEMMA WalletSendsKeeps ==
  ASSUME IInv, NEW j \in Jobs, NEW x \in Txs, WalletSends(j, x)
  PROVE  IInv'
<1> DEFINE k == Flow[job[j].flow].kind
           c == [state |-> "sent", by |-> job[j].by, kind |-> k]
           r == [job[j] EXCEPT !.step = "mining", !.tx = x]
<1>1. /\ job[j] \in JobRecords /\ job[j].by \in Members
      /\ job[j].flow \in AllFlows /\ k \in Kinds
  BY StepIsJob, FlowsKnown DEF IInv, JobsInv, JobRecords, Fits, WalletSends, Steps
<1>2. /\ chain[x].state = "none" /\ chain' = [chain EXCEPT ![x] = c]
      /\ job' = [job EXCEPT ![j] = r]
      /\ UNCHANGED <<session, page, slot, row, applied, recorded, held, closed>>
  <2>1. job' = [job EXCEPT ![j] = r]
    BY DEF WalletSends
  <2>2. chain[x].state = "none" /\ chain' = [chain EXCEPT ![x] = c]
    BY DEF WalletSends, Unsent
  <2> QED BY <2>1, <2>2 DEF WalletSends
<1>3. ChainInv'
  <2>1. c \in [state : {"none", "sent"} \cup Outcomes, by : Members \cup {Nobody}, kind : Kinds \cup {"none"}]
    BY <1>1
  <2> HIDE DEF c
  <2>2. c.kind \in Kinds
    BY <1>1 DEF c
  <2> QED BY <1>2, <2>1, <2>2 DEF IInv, ChainInv
<1>4. ChainGrows
  BY <1>2 DEF ChainGrows, Bought, Decided, IInv, ChainInv
<1>5. JobsInv'
  <2>1. r \in JobRecords /\ r.step = "mining" /\ r.tx = x /\ r.flow = job[j].flow /\ r.by = job[j].by
    BY <1>1 DEF JobRecords, Steps
  <2>2. job' \in [Jobs -> JobRecords \cup {NoJob}] /\ job'[j] = r
    BY <1>2, <2>1 DEF IInv, JobsInv
  <2>3. Fits(job[j])'
    <3>1. chain'[x].state = "sent" /\ chain'[x].kind = k
      BY <1>2 DEF IInv, ChainInv
    <3> HIDE DEF r
    <3> QED BY <1>1, <2>1, <2>2, <3>1 DEF Fits, Asking, Bought, Decided
  <2>4. ASSUME NEW i \in Jobs, i # j PROVE Fits(job[i])'
    <3>1. job'[i] = job[i]
      BY <1>2, <2>4 DEF IInv, JobsInv
    <3>2. CASE job[i] = NoJob
      BY <3>1, <3>2 DEF Fits, NoJob, Asking
    <3>3. CASE job[i] \in JobRecords
      <4>1. job[i].flow \in AllFlows
        BY <3>3 DEF JobRecords
      <4> QED BY <1>2, <1>4, <3>1, <4>1, GrowthKeeps
    <3> QED BY <3>2, <3>3 DEF IInv, JobsInv
  <2> QED BY <2>2, <2>3, <2>4 DEF JobsInv
<1>6. NotesInv' /\ RecordsInv'
  BY <1>2, <1>4, GrowthKeeps
<1> QED BY <1>2, <1>3, <1>5, <1>6, PartsStay DEF IInv

LEMMA MineKeeps ==
  ASSUME IInv, NEW x \in Txs, Mine(x)
  PROVE  IInv'
<1>1. PICK o \in Outcomes :
        /\ chain' = [chain EXCEPT ![x].state = o] /\ chain[x].state = "sent"
        /\ UNCHANGED <<session, page, slot, job, row, applied, recorded, held, closed>>
  BY DEF Mine
<1>2. ChainInv'
  BY <1>1 DEF IInv, ChainInv, Outcomes
<1>3. ChainGrows
  BY <1>1 DEF ChainGrows, Bought, Decided, IInv, ChainInv, Outcomes
<1>4. JobsInv'
  <2>1. ASSUME NEW j \in Jobs PROVE Fits(job[j])'
    <3>1. CASE job[j] = NoJob
      BY <1>1, <3>1 DEF Fits, NoJob, Asking
    <3>2. CASE job[j] \in JobRecords
      <4>1. job[j].flow \in AllFlows
        BY <3>2 DEF JobRecords
      <4> QED BY <1>1, <1>3, <4>1, GrowthKeeps
    <3> QED BY <3>1, <3>2 DEF IInv, JobsInv
  <2> QED BY <1>1, <2>1 DEF IInv, JobsInv
<1>5. NotesInv' /\ RecordsInv'
  BY <1>1, <1>3, GrowthKeeps
<1> QED BY <1>1, <1>2, <1>4, <1>5, PartsStay DEF IInv

LEMMA ReceiptSeenKeeps ==
  ASSUME IInv, NEW j \in Jobs, ReceiptSeen(j)
  PROVE  IInv'
<1> DEFINE w == Flow[job[j].flow]
           n == [tx |-> job[j].tx, kind |-> w.kind]
           r == [job[j] EXCEPT !.step = "register"]
<1>1. /\ job[j] \in JobRecords /\ job[j].by \in Members /\ job[j].tab \in Tabs
      /\ w.key \in Keys /\ w.kind \in KindsOf(w.key) /\ w.kind \in Kinds
  BY StepIsJob, FlowsKnown DEF IInv, JobsInv, JobRecords, Fits, ReceiptSeen, Steps
<1>2. Decided(job[j].tx, w.kind) /\ job[j].tx # NoTx
  BY NoTxAssumption DEF IInv, JobsInv, Fits, ReceiptSeen, Decided, Bought
<1>3. /\ slot' = [slot EXCEPT ![job[j].tab][w.key] = n]
      /\ job' = [job EXCEPT ![j] = r]
      /\ UNCHANGED <<session, page, chain, row, applied, recorded, held, closed>>
  BY DEF ReceiptSeen, IInv, JobsInv
<1>4. JobsInv'
  <2>1. r \in JobRecords /\ r.step = "register" /\ r.tx = job[j].tx
        /\ r.flow = job[j].flow /\ r.by = job[j].by
    BY <1>1 DEF JobRecords, Steps
  <2>2. Fits(r)
    BY <1>1, <1>2, <2>1 DEF Fits
  <2> HIDE DEF r
  <2> QED BY <1>3, <2>1, <2>2, JobMoves DEF IInv
<1>5. NotesInv'
  <2>1. n \in Notes /\ n.kind = w.kind /\ n.tx = job[j].tx
    BY <1>1, <1>2 DEF Notes, Decided, Bought
  <2> HIDE DEF n
  <2>2. slot' \in [Tabs -> [Keys -> Notes]]
    BY <1>1, <1>3, <2>1 DEF IInv, NotesInv
  <2>3. ASSUME NEW t \in Tabs, NEW k \in Keys
        PROVE  slot'[t][k] = slot[t][k] \/ (k = w.key /\ slot'[t][k] = n)
    BY <1>1, <1>3 DEF IInv, NotesInv
  <2>4. ASSUME NEW t \in Tabs, NEW k \in Keys, slot'[t][k] # NoNote
        PROVE  slot'[t][k].kind \in KindsOf(k) /\ Decided(slot[t][k].tx, slot[t][k].kind)'
    <3>1. CASE slot'[t][k] = slot[t][k]
      BY <1>3, <2>4, <3>1 DEF IInv, NotesInv, Decided, Bought
    <3>2. CASE k = w.key /\ slot'[t][k] = n
      BY <1>1, <1>2, <1>3, <2>1, <3>2 DEF Decided, Bought
    <3> QED BY <2>3, <3>1, <3>2
  <2> QED BY <2>2, <2>4 DEF NotesInv
<1> QED BY <1>3, <1>4, <1>5, PartsStay DEF IInv

----------------------------------------------------------------------------
(* Registration, and the server.                                            *)

\* A handler that asks goes on asking, with what it carried.
LEMMA AskingMoves ==
  ASSUME JobsInv, UNCHANGED chain, NEW j \in Jobs, job[j].step \in Asking,
         NEW s \in Asking \ {"register"}, job' = [job EXCEPT ![j].step = s]
  PROVE  JobsInv'
<1> DEFINE r == [job[j] EXCEPT !.step = s]
<1>1. job[j] \in JobRecords /\ job[j] # NoJob
  BY StepIsJob DEF Asking, Steps
<1>2. job' = [job EXCEPT ![j] = r]
  OBVIOUS
<1>3. r \in JobRecords /\ r.step = s /\ r.tx = job[j].tx /\ r.flow = job[j].flow /\ r.by = job[j].by
  BY <1>1 DEF JobRecords, Steps, Asking
<1>4. Fits(job[j])
  BY DEF JobsInv
<1>5. Fits(r)
  BY <1>1, <1>3, <1>4 DEF Fits, Asking
<1> HIDE DEF r
<1> QED BY <1>2, <1>3, <1>5, JobMoves

LEMMA RegisteredRowTyped ==
  ASSUME RowsInv, JobsInv, NEW j \in Jobs, job[j].step = "register", row' = RegisteredRow(j)
  PROVE  RowsInv'
<1>1. job[j] \in JobRecords
  BY StepIsJob DEF Steps
<1>2. job[j].tx \in Txs /\ job[j].by \in Members \cup {Nobody}
  BY <1>1 DEF JobRecords, JobsInv, Fits
<1> QED BY <1>2 DEF RowsInv, RegisteredRow

LEMMA RegisterKeeps ==
  ASSUME IInv, NEW j \in Jobs, Register(j)
  PROVE  IInv'
<1>1. RowsInv'
  BY RegisteredRowTyped DEF IInv, Register
<1>2. JobsInv'
  <2>1. CASE job[j].life = "dead"
    <3>1. job' = [job EXCEPT ![j] = NoJob] /\ UNCHANGED chain
      BY <2>1 DEF Register
    <3> QED BY <3>1, EndFits, JobMoves DEF IInv
  <2>2. CASE job[j].life # "dead"
    <3>1. job' = [job EXCEPT ![j].step = "check"] /\ UNCHANGED chain
      BY <2>2 DEF Register
    <3> QED BY <3>1, AskingMoves DEF IInv, Register, Asking
  <2> QED BY <2>1, <2>2
<1> QED BY <1>1, <1>2, PartsStay DEF IInv, Register

LEMMA RegisterFailsKeeps ==
  ASSUME IInv, NEW j \in Jobs, NEW stored \in BOOLEAN, RegisterFails(j, stored)
  PROVE  IInv'
<1>1. RowsInv'
  BY RegisteredRowTyped, PartsStay DEF IInv, RegisterFails
<1>2. PagesInv' /\ JobsInv'
  <2>1. CASE Flow[job[j].flow].strict
    BY <2>1, EndKeeps DEF RegisterFails, Steps
  <2>2. CASE ~Flow[job[j].flow].strict
    BY <2>2, AskingMoves, PartsStay DEF IInv, RegisterFails, Asking
  <2> QED BY <2>1, <2>2
<1> QED BY <1>1, <1>2, PartsStay DEF IInv, RegisterFails

LEMMA CheckKeeps ==
  ASSUME IInv, NEW j \in Jobs, Check(j)
  PROVE  IInv'
<1>1. JobsInv'
  <2>1. CASE Completed(j)
    <3>1. job' = [job EXCEPT ![j].step = "good"] /\ UNCHANGED chain
      BY <2>1 DEF Check
    <3> QED BY <3>1, AskingMoves DEF IInv, Check, Asking
  <2>2. CASE ~Completed(j)
    <3>1. job' = [job EXCEPT ![j].step = "apply"] /\ UNCHANGED chain
      BY <2>2 DEF Check
    <3> QED BY <3>1, AskingMoves DEF IInv, Check, Asking
  <2> QED BY <2>1, <2>2
<1> QED BY <1>1, PartsStay DEF IInv, Check

LEMMA OverlookKeeps ==
  ASSUME IInv, NEW j \in Jobs, Overlook(j)
  PROVE  IInv'
<1>1. JobsInv'
  BY AskingMoves DEF IInv, Overlook, Asking
<1> QED BY <1>1, PartsStay DEF IInv, Overlook

\* What is applied is recorded under the purpose it was bought for.
LEMMA AppliedKeeps ==
  ASSUME IInv, NEW j \in Jobs, job[j].step = "apply", Applied(j),
         held' \subseteq Members \X Kinds, UNCHANGED <<chain, closed>>
  PROVE  RecordsInv'
<1> DEFINE x == job[j].tx
           k == Flow[job[j].flow].kind
<1>1. /\ job[j] \in JobRecords /\ x \in Txs \cup {NoTx} /\ k \in Kinds
      /\ x = NoTx \/ Decided(x, k)
  BY StepIsJob, FlowsKnown DEF IInv, JobsInv, JobRecords, Fits, Steps, Asking
<1>2. CASE x = NoTx
  <2>1. UNCHANGED <<applied, recorded>>
    BY <1>2 DEF Applied
  <2> QED BY <2>1 DEF IInv, RecordsInv, Decided, Bought
<1>3. CASE x # NoTx
  <2>1. /\ applied' = [applied EXCEPT ![x] = IF @ < MaxApplied THEN @ + 1 ELSE @]
        /\ recorded' = recorded \cup {<<x, k>>}
    BY <1>3 DEF Applied
  <2>2. applied' \in [Txs -> 0 .. MaxApplied]
    <3>1. ASSUME NEW n \in 0 .. MaxApplied
          PROVE  (IF n < MaxApplied THEN n + 1 ELSE n) \in 0 .. MaxApplied
      BY MaxAppliedAssumption
    <3>2. \A y \in Txs : applied[y] \in 0 .. MaxApplied
      BY DEF IInv, RecordsInv
    <3> QED BY <2>1, <3>1, <3>2 DEF IInv, RecordsInv
  <2>3. recorded' \subseteq Txs \X Kinds
    BY <1>1, <1>3, <2>1 DEF IInv, RecordsInv
  <2>4. ASSUME NEW p \in recorded' PROVE Decided(p[1], p[2])'
    <3>1. CASE p \in recorded
      <4>1. Decided(p[1], p[2])
        BY <3>1 DEF IInv, RecordsInv
      <4> QED BY <4>1 DEF Decided, Bought
    <3>2. CASE p = <<x, k>>
      <4>1. p[1] = x /\ p[2] = k
        BY <3>2
      <4>2. Decided(p[1], p[2])
        BY <1>1, <1>3, <4>1
      <4> QED BY <4>2 DEF Decided, Bought
    <3> QED BY <2>1, <3>1, <3>2
  <2> QED BY <2>2, <2>3, <2>4 DEF IInv, RecordsInv
<1> QED BY <1>2, <1>3

LEMMA ApplyKeeps ==
  ASSUME IInv, NEW j \in Jobs, Apply(j)
  PROVE  IInv'
<1>1. JobsInv'
  BY AskingMoves DEF IInv, Apply, Asking
<1>2. RecordsInv'
  <2>1. job[j] \in JobRecords /\ job[j].by \in Members /\ Flow[job[j].flow].kind \in Kinds
    BY StepIsJob, FlowsKnown DEF IInv, JobsInv, JobRecords, Fits, Apply, Steps
  <2>2. held' \subseteq Members \X Kinds
    BY <2>1 DEF IInv, RecordsInv, Apply
  <2> QED BY <2>2, AppliedKeeps DEF Apply
<1> QED BY <1>1, <1>2, PartsStay DEF IInv, Apply

LEMMA ApplyPartlyKeeps ==
  ASSUME IInv, NEW j \in Jobs, ApplyPartly(j)
  PROVE  IInv'
<1>1. JobsInv'
  BY AskingMoves DEF IInv, ApplyPartly, Asking
<1>2. RecordsInv'
  BY AppliedKeeps DEF ApplyPartly, IInv, RecordsInv
<1> QED BY <1>1, <1>2, PartsStay DEF IInv, ApplyPartly

LEMMA RefuseKeeps ==
  ASSUME IInv, NEW j \in Jobs, Refuse(j)
  PROVE  IInv'
<1>1. JobsInv'
  BY AskingMoves DEF IInv, Refuse, Asking
<1> QED BY <1>1, PartsStay DEF IInv, Refuse

LEMMA CompleteKeeps ==
  ASSUME IInv, NEW j \in Jobs, Complete(j)
  PROVE  IInv'
<1>1. JobsInv'
  BY AskingMoves DEF IInv, Complete, Asking
<1>2. RowsInv'
  BY DEF IInv, RowsInv, Complete
<1> QED BY <1>1, <1>2, PartsStay DEF IInv, Complete

LEMMA LeaveIncompleteKeeps ==
  ASSUME IInv, NEW j \in Jobs, LeaveIncomplete(j)
  PROVE  IInv'
<1>1. JobsInv'
  BY AskingMoves DEF IInv, LeaveIncomplete, Asking
<1> QED BY <1>1, PartsStay DEF IInv, LeaveIncomplete

LEMMA CloseKeeps ==
  ASSUME IInv, NEW k \in Kinds, Close(k)
  PROVE  IInv'
<1>1. RecordsInv'
  BY DEF IInv, RecordsInv, Close, Decided, Bought
<1> QED BY <1>1, PartsStay DEF IInv, Close

----------------------------------------------------------------------------
(* The answer.                                                              *)

LEMMA SucceedKeeps ==
  ASSUME IInv, NEW j \in Jobs, Succeed(j)
  PROVE  IInv'
<1> DEFINE t == job[j].tab
           w == Flow[job[j].flow]
<1>1. job[j] \in JobRecords /\ t \in Tabs /\ w.key \in Keys
  BY StepIsJob, FlowsKnown DEF IInv, JobRecords, Succeed, Steps
<1>2. NotesInv'
  <2>1. slot' = [slot EXCEPT ![t][w.key] = NoNote] /\ UNCHANGED chain
    BY DEF Succeed
  <2>2. slot' \in [Tabs -> [Keys -> Notes]]
    BY <2>1 DEF IInv, NotesInv, Notes, NoNote
  <2>3. \A u \in Tabs, k \in Keys : slot'[u][k] \in {slot[u][k], NoNote}
    BY <1>1, <2>1 DEF IInv, NotesInv
  <2> QED BY <2>1, <2>2, <2>3, NotesGo DEF IInv
<1>3. PagesInv' /\ JobsInv'
  <2>1. CASE w.leaves
    <3>1. page' = [page EXCEPT ![t] = Away] /\ job' = [LeaveDocument(t) EXCEPT ![j] = NoJob]
          /\ UNCHANGED <<session, chain>>
      BY <2>1 DEF Succeed
    <3>2. PagesInv'
      BY <1>1, <3>1 DEF IInv, PagesInv, Away
    <3>3. job' = [i \in Jobs |-> job'[i]]
      BY <3>1 DEF LeaveDocument
    <3>4. ASSUME NEW i \in Jobs PROVE Becomes(job[i], job'[i])
      <4>1. job'[i] = NoJob \/ job'[i] = LeaveDocument(t)[i]
        BY <3>1 DEF LeaveDocument
      <4>2. Becomes(job[i], LeaveDocument(t)[i])
        BY <1>1, LeavingBecomes
      <4> QED BY <4>1, <4>2 DEF Becomes
    <3> QED BY <3>1, <3>2, <3>3, <3>4, JobsBecome DEF IInv
  <2>2. CASE ~w.leaves
    BY <2>2, EndKeeps DEF Succeed, Steps
  <2> QED BY <2>1, <2>2
<1> QED BY <1>2, <1>3, PartsStay DEF IInv, Succeed

LEMMA FailKeeps ==
  ASSUME IInv, NEW j \in Jobs, Fail(j)
  PROVE  IInv'
<1>1. PagesInv' /\ JobsInv'
  BY EndKeeps DEF Fail, Steps
<1> QED BY <1>1, PartsStay DEF IInv, Fail

LEMMA LoseAnswerKeeps ==
  ASSUME IInv, NEW j \in Jobs, LoseAnswer(j)
  PROVE  IInv'
<1>1. PagesInv'
  BY StepIsJob, ReleaseKeeps DEF IInv, LoseAnswer, Steps
<1>2. JobsInv'
  <2>1. job' = [i \in Jobs |-> job'[i]] /\ UNCHANGED chain
    BY DEF LoseAnswer, IInv, JobsInv
  <2>2. \A i \in Jobs : Becomes(job[i], job'[i])
    BY DEF LoseAnswer, IInv, JobsInv, Becomes, Lives
  <2> QED BY <2>1, <2>2, JobsBecome DEF IInv
<1> QED BY <1>1, <1>2, PartsStay DEF IInv, LoseAnswer

LEMMA ForgetKeeps ==
  ASSUME IInv, NEW j \in Jobs, Forget(j)
  PROVE  IInv'
<1>1. JobsInv'
  BY EndFits, JobMoves DEF IInv, Forget
<1> QED BY <1>1, PartsStay DEF IInv, Forget

----------------------------------------------------------------------------
(* The invariant.                                                           *)

LEMMA InitHolds == Init => IInv
<1> SUFFICES ASSUME Init PROVE IInv
  OBVIOUS
<1>1. PagesInv
  BY DEF Init, PagesInv, Away
<1>2. JobsInv
  BY EndFits DEF Init, JobsInv
<1>3. NotesInv
  BY DEF Init, NotesInv, Notes, NoNote
<1>4. ChainInv
  BY DEF Init, ChainInv, Unsent
<1>5. RowsInv
  BY DEF Init, RowsInv, NoRow
<1>6. RecordsInv
  BY MaxAppliedAssumption DEF Init, RecordsInv
<1> QED BY <1>1, <1>2, <1>3, <1>4, <1>5, <1>6 DEF IInv

LEMMA NextKeeps == IInv /\ [Next]_vars => IInv'
<1> SUFFICES ASSUME IInv, [Next]_vars PROVE IInv'
  OBVIOUS
<1>1. CASE Browse
  <2>1. PICK t \in Tabs :
          \/ \E p \in Pages : Navigate(t, p) \/ Reload(t, p)
          \/ Logout(t) \/ CloseTab(t)
          \/ \E m \in Members : Login(t, m)
          \/ \E u \in BOOLEAN, j \in Jobs : Mounted(t, u, j)
    BY <1>1 DEF Browse, LoadWorkspace, LoadCheckpoint, LoadSubscription
  <2> QED BY <2>1, NavigateKeeps, ReloadKeeps, LogoutKeeps, CloseTabKeeps, LoginKeeps, MountedKeeps
<1>2. CASE Act
  <2>1. PICK j \in Jobs :
          \/ \E t \in Tabs, f \in Flows : Start(t, f, j)
          \/ WalletRefuses(j) \/ \E x \in Txs : WalletSends(j, x)
          \/ ReceiptSeen(j) \/ ReceiptLost(j)
          \/ Register(j) \/ \E stored \in BOOLEAN : RegisterFails(j, stored)
          \/ Succeed(j) \/ Fail(j) \/ LoseAnswer(j) \/ Forget(j)
    BY <1>2 DEF Act, AwaitReceipt, Registered, Receive
  <2> QED BY <2>1, StartKeeps, WalletRefusesKeeps, WalletSendsKeeps, ReceiptSeenKeeps,
             ReceiptLostKeeps, RegisterKeeps, RegisterFailsKeeps, SucceedKeeps, FailKeeps,
             LoseAnswerKeeps, ForgetKeeps
<1>3. CASE \E j \in Jobs : Serve(j)
  BY <1>3, CheckKeeps, OverlookKeeps, ApplyKeeps, ApplyPartlyKeeps, RefuseKeeps, CompleteKeeps,
     LeaveIncompleteKeeps DEF Serve
<1>4. CASE \E x \in Txs : Mine(x)
  BY <1>4, MineKeeps
<1>5. CASE \E k \in Kinds : Close(k)
  BY <1>5, CloseKeeps
<1>6. CASE UNCHANGED vars
  BY <1>6, PartsStay DEF IInv, vars
<1> QED BY <1>1, <1>2, <1>3, <1>4, <1>5, <1>6 DEF Next

(* What pages, notes and handlers carry was bought for its purpose, always. *)
THEOREM Invariant == Spec => []IInv
<1>1. Init => IInv
  BY InitHolds
<1>2. IInv /\ [Next]_vars => IInv'
  BY NextKeeps
<1> QED BY <1>1, <1>2, PTL DEF Spec

(* The variables of the payment pages and of the server's tables keep their *)
(* types.                                                                   *)
THEOREM TypeCorrect == Spec => []TypeOK
<1>1. IInv => TypeOK
  BY DEF IInv, PagesInv, JobsInv, NotesInv, ChainInv, RowsInv, RecordsInv, TypeOK, Places
<1> QED BY <1>1, Invariant, PTL

----------------------------------------------------------------------------
(* The refinement.                                                          *)

Concluded == {<<x, chain[x].kind>> : x \in {y \in Txs : chain[y].state \in Outcomes}}

LEMMA InitIsLedger == Init => Ledger!Init
BY DEF Init, Ledger!Init, Unsent, Outcomes

\* A step of a page or of the server that mines and applies nothing.
LEMMA QuietStep ==
  UNCHANGED <<chain, recorded>> => [Ledger!Next]_<<Concluded, recorded>>
BY DEF Concluded

\* The wallet has sent a payment: the ledger waits until it is in a block.
LEMMA SendStep ==
  ASSUME IInv, NEW j \in Jobs, NEW x \in Txs, WalletSends(j, x)
  PROVE  [Ledger!Next]_<<Concluded, recorded>>
<1>1. chain[x].state = "none"
  BY DEF WalletSends, Unsent
<1>2. /\ chain'[x].state = "sent" /\ \A y \in Txs \ {x} : chain'[y] = chain[y]
      /\ UNCHANGED recorded
  BY DEF IInv, ChainInv, WalletSends
<1>3. {y \in Txs : chain'[y].state \in Outcomes} = {y \in Txs : chain[y].state \in Outcomes}
  BY <1>1, <1>2 DEF Outcomes
<1>4. Concluded' = Concluded
  BY <1>1, <1>2, <1>3 DEF Concluded, Outcomes
<1> QED BY <1>2, <1>4

LEMMA MineStep ==
  ASSUME IInv, NEW x \in Txs, Mine(x)
  PROVE  Ledger!Next
<1>0. chain[x].state = "sent" /\ chain[x].kind \in Kinds /\ UNCHANGED recorded
  BY DEF Mine, IInv, ChainInv
<1> PICK k \in Kinds : k = chain[x].kind
  BY <1>0
<1>1. chain[x].state = "sent" /\ k = chain[x].kind /\ UNCHANGED recorded
  BY <1>0
<1>2. /\ chain'[x].state \in Outcomes /\ chain'[x].kind = k
      /\ \A y \in Txs \ {x} : chain'[y] = chain[y]
  BY DEF Mine, IInv, ChainInv
<1>3. ~ \E p \in Concluded : p[1] = x
  BY <1>1 DEF Concluded, Outcomes
<1>4. Concluded' = Concluded \cup {<<x, k>>}
  <2>1. ASSUME NEW p \in Concluded' PROVE p \in Concluded \cup {<<x, k>>}
    <3>1. PICK y \in Txs : chain'[y].state \in Outcomes /\ p = <<y, chain'[y].kind>>
      BY <2>1 DEF Concluded
    <3> QED BY <1>2, <3>1 DEF Concluded
  <2>2. ASSUME NEW p \in Concluded PROVE p \in Concluded'
    <3>1. PICK y \in Txs : chain[y].state \in Outcomes /\ p = <<y, chain[y].kind>>
      BY <2>2 DEF Concluded
    <3>2. y # x
      BY <1>1, <3>1 DEF Outcomes
    <3> QED BY <1>2, <3>1, <3>2 DEF Concluded
  <2>3. <<x, k>> \in Concluded'
    BY <1>2 DEF Concluded
  <2> QED BY <2>1, <2>2, <2>3
<1>5. Ledger!Decide(x, k)
  BY <1>1, <1>3, <1>4 DEF Ledger!Decide, Concluded
<1> QED BY <1>1, <1>5 DEF Ledger!Next

LEMMA ApplyStep ==
  ASSUME IInv, NEW j \in Jobs, job[j].step = "apply", Applied(j), UNCHANGED chain
  PROVE  [Ledger!Next]_<<Concluded, recorded>>
<1> DEFINE x == job[j].tx
           k == Flow[job[j].flow].kind
<1>1. x = NoTx \/ Decided(x, k)
  BY DEF IInv, JobsInv, Fits, Asking
<1>2. Concluded' = Concluded
  BY DEF Concluded
<1>3. CASE x = NoTx
  BY <1>2, <1>3 DEF Applied
<1>4. CASE x # NoTx
  <2>1. recorded' = recorded \cup {<<x, k>>}
    BY <1>4 DEF Applied
  <2>2. <<x, k>> \in Concluded
    BY <1>1, <1>4 DEF Concluded, Decided, Bought
  <2>3. CASE <<x, k>> \in recorded
    BY <1>2, <2>1, <2>3
  <2>4. CASE <<x, k>> \notin recorded
    <3>1. Ledger!Record(<<x, k>>)
      BY <1>2, <2>1, <2>2, <2>4 DEF Ledger!Record, Concluded
    <3> QED BY <2>2, <3>1 DEF Ledger!Next, Concluded
  <2> QED BY <2>3, <2>4
<1> QED BY <1>3, <1>4

LEMMA NextIsLedger == IInv /\ [Next]_vars => [Ledger!Next]_<<Concluded, recorded>>
<1> SUFFICES ASSUME IInv, [Next]_vars PROVE [Ledger!Next]_<<Concluded, recorded>>
  OBVIOUS
<1>1. CASE Browse
  <2>1. UNCHANGED <<chain, recorded>>
    BY <1>1 DEF Browse, Navigate, Reload, Logout, CloseTab, Login, LoadWorkspace,
                LoadCheckpoint, LoadSubscription, Mounted
  <2> QED BY <2>1, QuietStep
<1>2. CASE Act
  <2>1. PICK j \in Jobs :
          \/ \E x \in Txs : WalletSends(j, x)
          \/ UNCHANGED <<chain, recorded>>
    BY <1>2 DEF Act, Start, WalletRefuses, AwaitReceipt, ReceiptSeen, ReceiptLost,
                Registered, Register, RegisterFails, Receive, Succeed, Fail, LoseAnswer, Forget
  <2> QED BY <2>1, QuietStep, SendStep
<1>3. CASE \E j \in Jobs : Serve(j)
  <2>1. PICK j \in Jobs :
          \/ job[j].step = "apply" /\ Applied(j) /\ UNCHANGED chain
          \/ UNCHANGED <<chain, recorded>>
    BY <1>3 DEF Serve, Check, Overlook, Apply, ApplyPartly, Refuse, Complete, LeaveIncomplete
  <2> QED BY <2>1, QuietStep, ApplyStep
<1>4. CASE \E x \in Txs : Mine(x)
  BY <1>4, MineStep
<1>5. CASE \E k \in Kinds : Close(k)
  BY <1>5, QuietStep DEF Close
<1>6. CASE UNCHANGED vars
  BY <1>6, QuietStep DEF vars
<1> QED BY <1>1, <1>2, <1>3, <1>4, <1>5, <1>6 DEF Next

(* The pages implement the ledger: what the server records for a payment   *)
(* was sent under that purpose and had its outcome before, whatever is left, *)
(* lost or replayed, for any number of tabs, members and payments.  (It may  *)
(* have failed: the pages do not read how the transaction ended.)            *)
THEOREM LedgerIsKept == Spec => LedgerKept
<1>1. Init => Ledger!Init
  BY InitIsLedger
<1>2. IInv /\ [Next]_vars => [Ledger!Next]_<<Concluded, recorded>>
  BY NextIsLedger
<1> QED BY <1>1, <1>2, Invariant, PTL DEF Spec, LedgerKept, Ledger!Spec, Concluded

----------------------------------------------------------------------------
(* Retries.  A payment is asked about from its receipt on: before, nothing  *)
(* is noted, registered or applied (FreshInv).  While one request is under  *)
(* way for it at a time and of its own member (AloneInv), a registered      *)
(* payment is applied by the request that goes on to complete it (OnceInv). *)

Carries(j, x) == job[j] # NoJob /\ job[j].tx = x
At(j, x, s) == Carries(j, x) /\ job[j].step = s
Noted(x) == \E t \in Tabs, k \in Keys : slot[t][k] # NoNote /\ slot[t][k].tx = x
Unasked(x) == ~Noted(x) /\ row[x].state = "none" /\ applied[x] = 0

FreshInv(x) ==
  /\ chain[x].state = "none" => Unasked(x) /\ \A j \in Jobs : ~Carries(j, x)
  /\ \A j \in Jobs : At(j, x, "mining") => Unasked(x) /\ \A i \in Jobs : Carries(i, x) => i = j

AloneInv(x) ==
  /\ \A i, j \in UnderWay(x) : i = j
  /\ \A j \in Jobs : Carries(j, x) => job[j].by = chain[x].by
  /\ row[x].state # "none" => row[x].member = chain[x].by
  /\ \A j \in Jobs : At(j, x, "register") => applied[x] = 0

OnceInv(x) ==
  /\ row[x].state = "pending" =>
       applied[x] = 0 \/ (applied[x] = 1 /\ \E j \in Jobs : At(j, x, "complete"))
  /\ row[x].state = "completed" =>
       applied[x] <= 1 /\ \A j \in Jobs : ~At(j, x, "apply") /\ ~At(j, x, "complete")

\* So much of the payment x.
Retried(x) ==
  /\ FreshInv(x)
  /\ x \notin tangled => AloneInv(x) /\ OnceInv(x)

RetryInv ==
  /\ \A j \in Jobs : job[j].step = "wallet" => job[j].tx = NoTx
  /\ \A x \in Txs : Retried(x)

\* What the history says of a payment that is not in it after a step.
LEMMA Untangled ==
  ASSUME Tangle, NEW x \in Txs, x \notin tangled'
  PROVE  /\ x \notin tangled
         /\ (\A i, j \in UnderWay(x) : i = j)'
         /\ (\A j \in Jobs : Carries(j, x) => job[j].by = chain[x].by)'
BY DEF Tangle, Carries

LEMMA UnderWayIs ==
  ASSUME NEW x, NEW j \in Jobs, Carries(j, x),
         job[j].step \in {"register", "check", "apply", "complete"}
  PROVE  j \in UnderWay(x)
BY DEF UnderWay, Running, Carries

----------------------------------------------------------------------------
(* Steps that do nothing for the payment x: handlers go on without it, are  *)
(* left or end, and one that ends between a change and its completion is of *)
(* the history.                                                             *)

Rested(r, s) == s = r \/ (s = NoJob /\ r.step # "complete") \/ \E l \in Lives : s = [r EXCEPT !.life = l]

Rests(j, x) == /\ Carries(j, x)' => Carries(j, x) /\ job'[j].step = job[j].step
               /\ At(j, x, "complete") => At(j, x, "complete")' \/ x \in tangled'

LEMMA RestedRests ==
  ASSUME NEW j \in Jobs, job[j] \in JobRecords \cup {NoJob}, Rested(job[j], job'[j]), NEW x
  PROVE  Rests(j, x) /\ (job'[j].step = "wallet" => job[j].step = "wallet" /\ job'[j].tx = job[j].tx)
<1>1. CASE job'[j] = job[j]
  BY <1>1 DEF Rests, At, Carries
<1>2. CASE job'[j] = NoJob /\ job[j].step # "complete"
  BY <1>2 DEF Rests, At, Carries, NoJob
<1>3. ASSUME NEW l \in Lives, job'[j] = [job[j] EXCEPT !.life = l], job[j] \in JobRecords
      PROVE  Rests(j, x) /\ (job'[j].step = "wallet" => job[j].step = "wallet" /\ job'[j].tx = job[j].tx)
  <2>1. /\ job'[j] \in JobRecords /\ job'[j].step = job[j].step /\ job'[j].tx = job[j].tx
        /\ job[j].step \in Steps
    BY <1>3 DEF JobRecords, Lives
  <2>2. job[j] # NoJob /\ job'[j] # NoJob
    BY <2>1 DEF NoJob, Steps
  <2> QED BY <2>1, <2>2 DEF Rests, At, Carries
<1>4. ASSUME NEW l \in Lives, job'[j] = [job[j] EXCEPT !.life = l], job[j] = NoJob
      PROVE  job'[j] = job[j]
  BY <1>4 DEF NoJob
<1> QED BY <1>1, <1>2, <1>3, <1>4 DEF Rested

Quiet(x) ==
  /\ chain'[x].by = chain[x].by /\ chain'[x].kind = chain[x].kind
  /\ (chain'[x].state = "none" <=> chain[x].state = "none")
  /\ row'[x] = row[x] /\ applied'[x] = applied[x]
  /\ Noted(x)' => Noted(x)
  /\ \A j \in Jobs : Rests(j, x)

LEMMA QuietRetried ==
  ASSUME NEW x \in Txs, Retried(x), Quiet(x), Tangle
  PROVE  Retried(x)'
<1>1. FreshInv(x)'
  BY DEF Retried, FreshInv, Unasked, Quiet, Rests, At
<1>2. ASSUME x \notin tangled' PROVE AloneInv(x)'
  <2>1. x \notin tangled
    BY <1>2, Untangled
  <2>2. AloneInv(x)
    BY <2>1 DEF Retried
  <2>3. (row[x].state # "none" => row[x].member = chain[x].by)'
    BY <2>2 DEF AloneInv, Quiet
  <2>4. (\A j \in Jobs : At(j, x, "register") => applied[x] = 0)'
    BY <2>2 DEF AloneInv, Quiet, Rests, At
  <2> QED BY <1>2, <2>3, <2>4, Untangled DEF AloneInv
<1>3. ASSUME x \notin tangled' PROVE OnceInv(x)'
  <2>1. OnceInv(x)
    BY <1>3, Untangled DEF Retried, Quiet
  <2> QED BY <1>3, <2>1 DEF OnceInv, Quiet, Rests, At
<1> QED BY <1>1, <1>2, <1>3 DEF Retried

\* Handlers are left or end, notes go, and the payments and the server stay.
LEMMA LeftRetried ==
  ASSUME JobsInv, RetryInv, Tangle, UNCHANGED <<chain, row, applied>>,
         \A t \in Tabs, k \in Keys : slot'[t][k] \in {slot[t][k], NoNote},
         \A j \in Jobs :
           \/ Rested(job[j], job'[j])
           \/ job'[j] = NoJob /\ (\A x \in Txs : job[j].tx = x => x \in tangled')
  PROVE  RetryInv'
<1>1. ASSUME NEW j \in Jobs, NEW x \in Txs
      PROVE  Rests(j, x)
  <2>1. job[j] \in JobRecords \cup {NoJob}
    BY DEF JobsInv
  <2>2. CASE Rested(job[j], job'[j])
    BY <2>1, <2>2, RestedRests
  <2>3. CASE job'[j] = NoJob /\ (job[j].tx = x => x \in tangled')
    BY <2>3 DEF Rests, At, Carries
  <2> QED BY <2>2, <2>3
<1>2. ASSUME NEW x \in Txs PROVE Retried(x)'
  <2>1. Noted(x)' => Noted(x)
    BY DEF Noted
  <2>2. Quiet(x)
    BY <1>1, <2>1 DEF Quiet
  <2> QED BY <2>2, QuietRetried DEF RetryInv
<1>3. ASSUME NEW j \in Jobs, job'[j].step = "wallet" PROVE job'[j].tx = NoTx
  <2>1. job'[j] # NoJob /\ job[j] \in JobRecords \cup {NoJob}
    BY <1>3 DEF NoJob, JobsInv
  <2>2. job[j].step = "wallet" /\ job'[j].tx = job[j].tx
    BY <1>3, <2>1, RestedRests
  <2> QED BY <2>2 DEF RetryInv
<1> QED BY <1>2, <1>3 DEF RetryInv

----------------------------------------------------------------------------
(* One handler gets on with the payment x, which others only lie about.     *)

\* The handler j moves, the others do not.
LEMMA OthersRest ==
  ASSUME NEW j \in Jobs, \A i \in Jobs \ {j} : job'[i] = job[i],
         NEW x, ~Carries(j, x), ~Carries(j, x)'
  PROVE  \A i \in Jobs : Rests(i, x)
BY DEF Rests, At, Carries

\* A handler that asked about x is with the server, or has ended.
LEMMA AskedFresh ==
  ASSUME NEW x \in Txs, FreshInv(x), chain[x].state # "none", UNCHANGED chain,
         NEW j \in Jobs, Carries(j, x), job[j].step \in {"register", "check", "apply", "complete"},
         \A i \in Jobs \ {j} : job'[i] = job[i],
         Carries(j, x)' => job'[j].step \in {"check", "apply", "complete", "good", "bad"}
  PROVE  /\ FreshInv(x)'
         /\ AloneInv(x) =>
              /\ \A i \in Jobs : ~At(i, x, "register")'
              /\ \A i \in Jobs \ {j} : /\ ~At(i, x, "apply") /\ ~At(i, x, "complete")
                                       /\ ~At(i, x, "apply")' /\ ~At(i, x, "complete")'
<1>1. \A i \in Jobs : ~At(i, x, "mining")'
  <2> SUFFICES ASSUME NEW i \in Jobs, At(i, x, "mining")' PROVE FALSE
    OBVIOUS
  <2>1. i # j
    BY DEF At
  <2>2. At(i, x, "mining")
    BY <2>1 DEF At, Carries
  <2>3. j = i
    BY <2>2 DEF FreshInv
  <2> QED BY <2>1, <2>3
<1>2. FreshInv(x)'
  BY <1>1 DEF FreshInv
<1>3. ASSUME AloneInv(x), NEW i \in Jobs \ {j}, NEW s \in {"register", "apply", "complete"}
      PROVE  ~At(i, x, s) /\ ~At(i, x, s)'
  <2>1. ~At(i, x, s)
    <3> SUFFICES ASSUME At(i, x, s) PROVE FALSE
      OBVIOUS
    <3>1. i \in UnderWay(x) /\ j \in UnderWay(x)
      BY UnderWayIs DEF At
    <3> QED BY <1>3, <3>1 DEF AloneInv
  <2> QED BY <2>1 DEF At, Carries
<1>4. ~At(j, x, "register")'
  BY DEF At
<1> QED BY <1>2, <1>3, <1>4

\* The parts of what is said of a payment that the history does not give.
LEMMA RetriedBy ==
  ASSUME NEW x \in Txs, Tangle, FreshInv(x)',
         x \notin tangled' =>
           /\ (row[x].state # "none" => row[x].member = chain[x].by)'
           /\ (\A j \in Jobs : At(j, x, "register") => applied[x] = 0)'
           /\ OnceInv(x)'
  PROVE  Retried(x)'
BY Untangled DEF Retried, AloneInv

\* A handler serves one payment at a time: what it does is nothing to others.
LEMMA OneMoves ==
  ASSUME RetryInv, Tangle, NEW j \in Jobs, \A i \in Jobs \ {j} : job'[i] = job[i],
         job'[j].step = "wallet" => job'[j].tx = NoTx,
         NEW x, Retried(x)' \/ x \notin Txs,
         \A y \in Txs \ {x} : /\ chain'[y] = chain[y] /\ row'[y] = row[y]
                              /\ applied'[y] = applied[y]
                              /\ Noted(y)' => Noted(y)
                              /\ ~Carries(j, y) /\ ~Carries(j, y)'
  PROVE  RetryInv'
<1>1. ASSUME NEW y \in Txs \ {x} PROVE Retried(y)'
  <2>1. Quiet(y)
    BY OthersRest DEF Quiet
  <2> QED BY <2>1, QuietRetried DEF RetryInv
<1> QED BY <1>1 DEF RetryInv

----------------------------------------------------------------------------
\* What a handler that carries the payment x knows of it.
LEMMA CarriedKnown ==
  ASSUME IInv, NEW j \in Jobs, job[j].step \in Steps \ {"wallet"}, NEW x \in Txs, job[j].tx = x
  PROVE  /\ job[j] \in JobRecords /\ Carries(j, x) /\ chain[x].state # "none"
         /\ chain[x].kind = Flow[job[j].flow].kind
<1>1. job[j] \in JobRecords /\ job[j] # NoJob
  BY StepIsJob DEF IInv
<1>2. Fits(job[j])
  BY DEF IInv, JobsInv
<1>3. Bought(x, Flow[job[j].flow].kind)
  BY <1>1, <1>2, NoTxAssumption DEF Fits, Steps, Asking, Decided
<1> QED BY <1>1, <1>3 DEF Bought, Carries

LEMMA WalletSendsRetried ==
  ASSUME IInv, RetryInv, Tangle, NEW j \in Jobs, NEW x \in Txs, WalletSends(j, x)
  PROVE  RetryInv'
<1> DEFINE k == Flow[job[j].flow].kind
           r == [job[j] EXCEPT !.step = "mining", !.tx = x]
<1>1. /\ job[j] \in JobRecords /\ job[j].tx = NoTx /\ chain[x].state = "none"
      /\ Unasked(x) /\ \A i \in Jobs : ~Carries(i, x)
  <2>1. job[j] \in JobRecords /\ job[j].tx = NoTx
    BY StepIsJob DEF IInv, RetryInv, WalletSends, Steps
  <2>2. chain[x].state = "none"
    BY DEF WalletSends, Unsent
  <2> QED BY <2>1, <2>2 DEF RetryInv, Retried, FreshInv
<1>2. /\ job' = [job EXCEPT ![j] = r] /\ UNCHANGED <<slot, row, applied>>
      /\ chain'[x].state = "sent" /\ \A y \in Txs \ {x} : chain'[y] = chain[y]
  <2>1. job' = [job EXCEPT ![j] = r] /\ UNCHANGED <<slot, row, applied>>
    BY DEF WalletSends
  <2>2. chain'[x].state = "sent" /\ \A y \in Txs \ {x} : chain'[y] = chain[y]
    BY DEF WalletSends, IInv, ChainInv
  <2> QED BY <2>1, <2>2
<1>3. job'[j].step = "mining" /\ job'[j].tx = x /\ \A i \in Jobs \ {j} : job'[i] = job[i]
  <2>1. r.step = "mining" /\ r.tx = x
    BY <1>1 DEF JobRecords
  <2> HIDE DEF r
  <2> QED BY <1>2, <2>1 DEF IInv, JobsInv
<1>4. Unasked(x)'
  BY <1>1, <1>2 DEF Unasked, Noted
<1>5. FreshInv(x)'
  <2>1. \A i \in Jobs : Carries(i, x)' => i = j
    BY <1>1, <1>3 DEF Carries
  <2>2. chain'[x].state # "none"
    BY <1>2
  <2>3. ASSUME NEW i \in Jobs, At(i, x, "mining")'
        PROVE  \A l \in Jobs : Carries(l, x)' => l = i
    BY <2>1, <2>3 DEF At
  <2> QED BY <1>4, <2>2, <2>3 DEF FreshInv
<1>6. Retried(x)'
  <2>1. row'[x].state = "none" /\ applied'[x] = 0
    BY <1>4 DEF Unasked
  <2> QED BY <1>5, <2>1, RetriedBy DEF OnceInv
<1>7. ASSUME NEW y \in Txs \ {x} PROVE ~Carries(j, y) /\ ~Carries(j, y)'
  BY <1>1, <1>3, NoTxAssumption DEF Carries
<1>8. ASSUME NEW y \in Txs \ {x} PROVE Noted(y)' => Noted(y)
  BY <1>2 DEF Noted
<1>9. job'[j].step # "wallet"
  BY <1>3
<1> QED BY <1>2, <1>3, <1>6, <1>7, <1>8, <1>9, OneMoves

LEMMA ReceiptSeenRetried ==
  ASSUME IInv, RetryInv, Tangle, NEW j \in Jobs, ReceiptSeen(j)
  PROVE  RetryInv'
<1> DEFINE w == Flow[job[j].flow]
           r == [job[j] EXCEPT !.step = "register"]
<1>1. PICK x \in Txs : x = job[j].tx
  BY StepIsJob DEF IInv, JobsInv, Fits, ReceiptSeen, Steps, Bought
<1>2. job[j] \in JobRecords /\ Carries(j, x) /\ chain[x].state # "none" /\ At(j, x, "mining")
  BY <1>1, CarriedKnown DEF ReceiptSeen, Steps, At
<1>3. Unasked(x) /\ \A i \in Jobs : Carries(i, x) => i = j
  BY <1>2 DEF RetryInv, Retried, FreshInv
<1>4. PICK n : n = [tx |-> x, kind |-> w.kind]
  OBVIOUS
<1>5. /\ slot' = [slot EXCEPT ![job[j].tab][w.key] = n]
      /\ job' = [job EXCEPT ![j] = r] /\ UNCHANGED <<chain, row, applied>> /\ n.tx = x
  BY <1>1, <1>4 DEF ReceiptSeen
<1>6. job'[j].step = "register" /\ job'[j].tx = x /\ \A i \in Jobs \ {j} : job'[i] = job[i]
  <2>1. r.step = "register" /\ r.tx = x
    BY <1>1, <1>2 DEF JobRecords
  <2> HIDE DEF r
  <2> QED BY <1>5, <2>1 DEF IInv, JobsInv
<1>7. row'[x].state = "none" /\ applied'[x] = 0
  BY <1>3, <1>5 DEF Unasked
<1>8. FreshInv(x)'
  <2>1. \A i \in Jobs : ~At(i, x, "mining")'
    BY <1>3, <1>6 DEF At, Carries
  <2> QED BY <1>2, <1>5, <2>1 DEF FreshInv
<1>9. Retried(x)'
  BY <1>7, <1>8, RetriedBy DEF OnceInv
<1>10. ASSUME NEW y \in Txs \ {x} PROVE Noted(y)' => Noted(y)
  <2> SUFFICES ASSUME NEW t \in Tabs, NEW k \in Keys, slot'[t][k] # NoNote, slot'[t][k].tx = y
               PROVE  slot'[t][k] = slot[t][k]
    BY DEF Noted
  <2>1. slot \in [Tabs -> [Keys -> Notes]]
    BY DEF IInv, NotesInv
  <2>2. slot'[t][k] \in {slot[t][k], n}
    BY <1>5, <2>1
  <2> QED BY <1>5, <2>2
<1>11. ASSUME NEW y \in Txs \ {x} PROVE ~Carries(j, y) /\ ~Carries(j, y)'
  BY <1>1, <1>6 DEF Carries
<1> QED BY <1>5, <1>6, <1>9, <1>10, <1>11, OneMoves

\* A note is replayed: its payment is asked about already.
LEMMA MountedRetried ==
  ASSUME IInv, RetryInv, Tangle, NEW t \in Tabs, NEW u \in BOOLEAN, NEW j \in Jobs, Mounted(t, u, j)
  PROVE  RetryInv'
<1> DEFINE note == slot[t][KeyOf(page[t].at)]
<1>1. UNCHANGED <<slot, chain, row, applied>>
  BY DEF Mounted
<1>2. CASE note = NoNote
  <2>1. UNCHANGED job
    BY <1>2 DEF Mounted
  <2> QED BY <1>1, <2>1, LeftRetried DEF IInv, Rested
<1>3. CASE note # NoNote
  <2>1. KeyOf(page[t].at) \in Keys
    BY DEF KeyOf, Keys
  <2>2. PICK x \in Txs : x = note.tx
    BY <1>3, <2>1 DEF IInv, NotesInv, Decided, Bought
  <2>3. Noted(x) /\ chain[x].state # "none"
    BY <1>3, <2>1, <2>2 DEF Noted, IInv, NotesInv, Decided, Bought
  <2>4. PICK r : /\ r = [tab |-> t, flow |-> ReplayOf(page[t].at, note.kind), step |-> "check",
                         tx |-> x, by |-> session[t], life |-> "live"]
                 /\ job[j] = NoJob /\ job' = [job EXCEPT ![j] = r]
    BY <1>3, <2>2 DEF Mounted
  <2>5. r.step = "check" /\ r.tx = x
    BY <2>4
  <2>6. job'[j] = r /\ \A i \in Jobs \ {j} : job'[i] = job[i]
    BY <2>4 DEF IInv, JobsInv
  <2>7. Retried(x)
    BY DEF RetryInv
  <2>8. \A i \in Jobs : ~At(i, x, "mining")
    BY <2>3, <2>7 DEF Retried, FreshInv, Unasked
  <2>9. FreshInv(x)'
    <3>1. \A i \in Jobs : ~At(i, x, "mining")'
      BY <2>5, <2>6, <2>8 DEF At, Carries
    <3> QED BY <1>1, <2>3, <3>1 DEF FreshInv
  <2>10. ASSUME x \notin tangled'
         PROVE  /\ (row[x].state # "none" => row[x].member = chain[x].by)'
                /\ (\A i \in Jobs : At(i, x, "register") => applied[x] = 0)'
                /\ OnceInv(x)'
    <3>1. AloneInv(x) /\ OnceInv(x)
      BY <2>7, <2>10, Untangled DEF Retried
    <3>2. \A i \in Jobs \ {j} : \A s : At(i, x, s)' <=> At(i, x, s)
      BY <2>6 DEF At, Carries
    <3>3. \A s : ~At(j, x, s)
      BY <2>4 DEF At, Carries
    <3>4. ~At(j, x, "register")' /\ ~At(j, x, "apply")' /\ ~At(j, x, "complete")'
      BY <2>5, <2>6 DEF At
    <3> QED BY <1>1, <3>1, <3>2, <3>3, <3>4 DEF AloneInv, OnceInv
  <2>11. Retried(x)'
    BY <2>9, <2>10, RetriedBy
  <2>12. ASSUME NEW y \in Txs \ {x}
         PROVE  Noted(y)' => Noted(y) /\ ~Carries(j, y) /\ ~Carries(j, y)'
    BY <1>1, <2>4, <2>5, <2>6 DEF Noted, Carries
  <2>13. ASSUME NEW y \in Txs \ {x} PROVE ~Carries(j, y) /\ ~Carries(j, y)'
    BY <2>4, <2>5, <2>6 DEF Carries
  <2>14. ASSUME NEW y \in Txs \ {x} PROVE Noted(y)' => Noted(y)
    BY <1>1 DEF Noted
  <2> QED BY <1>1, <2>5, <2>6, <2>11, <2>13, <2>14, OneMoves
<1> QED BY <1>2, <1>3

\* A handler gets on without a payment.
LEMMA NoneMoves ==
  ASSUME RetryInv, Tangle, UNCHANGED <<chain, slot>>, NEW j \in Jobs,
         \A i \in Jobs \ {j} : job'[i] = job[i],
         job[j] # NoJob => job[j].tx = NoTx, job'[j] # NoJob => job'[j].tx = NoTx,
         \A y \in Txs : row'[y] = row[y] /\ applied'[y] = applied[y]
  PROVE  RetryInv'
<1>1. ASSUME NEW y \in Txs PROVE Retried(y)'
  <2>1. ~Carries(j, y) /\ ~Carries(j, y)'
    BY NoTxAssumption DEF Carries
  <2>2. \A i \in Jobs : Rests(i, y)
    BY <2>1, OthersRest
  <2>3. Quiet(y)
    BY <2>2 DEF Quiet, Noted
  <2> QED BY <2>3, QuietRetried DEF RetryInv
<1>2. job'[j].step = "wallet" => job'[j].tx = NoTx
  BY DEF NoJob
<1> QED BY <1>1, <1>2 DEF RetryInv

LEMMA StartRetried ==
  ASSUME IInv, RetryInv, Tangle, NEW t \in Tabs, NEW f \in Flows, NEW j \in Jobs, Start(t, f, j)
  PROVE  RetryInv'
<1>0. PICK s : s = IF page[t].treasury THEN "wallet" ELSE "check"
  OBVIOUS
<1>1. PICK r : r = [tab |-> t, flow |-> f, tx |-> NoTx, by |-> session[t], life |-> "live",
                    step |-> s]
  OBVIOUS
<1>2. r.tx = NoTx
  BY <1>1
<1>3. /\ job[j] = NoJob /\ job' = [job EXCEPT ![j] = r]
      /\ UNCHANGED <<slot, chain, row, applied>>
  BY <1>0, <1>1 DEF Start
<1>4. job'[j] = r /\ \A i \in Jobs \ {j} : job'[i] = job[i]
  BY <1>3 DEF IInv, JobsInv
<1> QED BY <1>2, <1>3, <1>4, NoneMoves

\* A handler that asked about the payment x gets on.
Onward(j, x) ==
  /\ job[j].step \in {"register", "check", "apply", "complete"} /\ job[j].tx = x
  /\ job'[j] # NoJob => job'[j].tx = x /\ job'[j].step \in {"check", "apply", "complete", "good", "bad"}
  /\ \A i \in Jobs \ {j} : job'[i] = job[i]

\* No other handler of x is where its request is served.
Single(j, x) ==
  /\ \A i \in Jobs : ~At(i, x, "register")'
  /\ \A i \in Jobs \ {j} : /\ ~At(i, x, "apply") /\ ~At(i, x, "complete")
                           /\ ~At(i, x, "apply")' /\ ~At(i, x, "complete")'

LEMMA AskingRetried ==
  ASSUME IInv, RetryInv, Tangle, UNCHANGED <<chain, slot>>, NEW j \in Jobs, NEW x \in Txs,
         Onward(j, x),
         \A y \in Txs \ {x} : row'[y] = row[y] /\ applied'[y] = applied[y],
         x \notin tangled' /\ AloneInv(x) /\ Single(j, x) =>
           /\ (row[x].state # "none" => row[x].member = chain[x].by)'
           /\ (OnceInv(x) => OnceInv(x)')
  PROVE  RetryInv'
<1>1. Carries(j, x) /\ chain[x].state # "none"
  BY CarriedKnown DEF Onward, Steps
<1>2. FreshInv(x)' /\ (AloneInv(x) => Single(j, x))
  <2>1. FreshInv(x)
    BY DEF RetryInv, Retried
  <2>2. Carries(j, x)' => job'[j].step \in {"check", "apply", "complete", "good", "bad"}
    BY DEF Onward, Carries
  <2> QED BY <1>1, <2>1, <2>2, AskedFresh DEF Onward, Single
<1>3. ASSUME x \notin tangled'
      PROVE  /\ (row[x].state # "none" => row[x].member = chain[x].by)'
             /\ (\A i \in Jobs : At(i, x, "register") => applied[x] = 0)'
             /\ OnceInv(x)'
  <2>1. AloneInv(x) /\ OnceInv(x)
    BY <1>3, Untangled DEF RetryInv, Retried
  <2>2. Single(j, x)
    BY <1>2, <2>1
  <2>3. (\A i \in Jobs : At(i, x, "register") => applied[x] = 0)'
    BY <2>2 DEF Single
  <2> QED BY <1>3, <2>1, <2>2, <2>3
<1>4. Retried(x)'
  BY <1>2, <1>3, RetriedBy
<1>5. ASSUME NEW y \in Txs \ {x} PROVE ~Carries(j, y) /\ ~Carries(j, y)'
  BY DEF Onward, Carries
<1>6. ASSUME NEW y \in Txs \ {x} PROVE Noted(y)' => Noted(y)
  BY DEF Noted
<1>7. job'[j].step # "wallet" /\ \A i \in Jobs \ {j} : job'[i] = job[i]
  BY DEF Onward, NoJob
<1> QED BY <1>4, <1>5, <1>6, <1>7, OneMoves

----------------------------------------------------------------------------
(* The requests that carry a payment. *)

\* A registration is served or fails, and the handler goes on or ends.
LEMMA RegisteredRetried ==
  ASSUME IInv, RetryInv, Tangle, UNCHANGED <<chain, slot, applied>>, NEW j \in Jobs,
         job[j].step = "register", row' \in {row, RegisteredRow(j)},
         NEW r \in {NoJob, [job[j] EXCEPT !.step = "check"]}, job' = [job EXCEPT ![j] = r]
  PROVE  RetryInv'
<1>1. PICK x \in Txs : x = job[j].tx
  BY StepIsJob DEF IInv, JobsInv, Fits, Asking, Steps, Decided, Bought
<1>2. job[j] \in JobRecords /\ Carries(j, x) /\ At(j, x, "register")
  BY <1>1, CarriedKnown DEF Steps, At
<1>3. r # NoJob => r.tx = x /\ r.step = "check"
  BY <1>1, <1>2 DEF JobRecords
<1>4. job'[j] = r /\ \A i \in Jobs \ {j} : job'[i] = job[i]
  BY DEF IInv, JobsInv
<1>5. Onward(j, x)
  BY <1>1, <1>3, <1>4 DEF Onward
<1>6. /\ \A y \in Txs \ {x} : row'[y] = row[y]
      /\ row'[x] = row[x] \/ row'[x].member = job[j].by
  <2>1. CASE row' = row
    BY <2>1
  <2>2. CASE row' = RegisteredRow(j)
    BY <1>1, <2>2 DEF RegisteredRow, IInv, RowsInv
  <2> QED BY <2>1, <2>2
<1>7. ASSUME AloneInv(x), Single(j, x)
      PROVE  (row[x].state # "none" => row[x].member = chain[x].by)' /\ OnceInv(x)'
  <2>1. (row[x].state # "none" => row[x].member = chain[x].by)'
    BY <1>2, <1>6, <1>7 DEF AloneInv
  <2>2. applied'[x] = 0
    BY <1>2, <1>7 DEF AloneInv
  <2>3. ~At(j, x, "apply")' /\ ~At(j, x, "complete")'
    BY <1>3, <1>4 DEF At, Carries
  <2>4. OnceInv(x)'
    BY <1>7, <2>2, <2>3 DEF OnceInv, Single
  <2> QED BY <2>1, <2>4
<1> QED BY <1>5, <1>6, <1>7, AskingRetried

LEMMA RegisterRetried ==
  ASSUME IInv, RetryInv, Tangle, NEW j \in Jobs, Register(j)
  PROVE  RetryInv'
<1>1. PICK r : r = IF job[j].life = "dead" THEN NoJob ELSE [job[j] EXCEPT !.step = "check"]
  OBVIOUS
<1>2. job' = [job EXCEPT ![j] = r] /\ row' = RegisteredRow(j)
  BY <1>1 DEF Register, IInv, JobsInv
<1>3. r \in {NoJob, [job[j] EXCEPT !.step = "check"]}
  BY <1>1
<1>4. job[j].step = "register" /\ UNCHANGED <<chain, slot, applied>>
  BY DEF Register
<1> QED BY <1>2, <1>3, <1>4, RegisteredRetried

LEMMA RegisterFailsRetried ==
  ASSUME IInv, RetryInv, Tangle, NEW j \in Jobs, NEW stored \in BOOLEAN, RegisterFails(j, stored)
  PROVE  RetryInv'
<1>1. job[j].step = "register" /\ UNCHANGED <<chain, slot, applied>> /\ row' \in {row, RegisteredRow(j)}
  BY DEF RegisterFails
<1>2. CASE job' = [job EXCEPT ![j] = NoJob]
  BY <1>1, <1>2, RegisteredRetried
<1>3. CASE job' = [job EXCEPT ![j] = [job[j] EXCEPT !.step = "check"]]
  BY <1>1, <1>3, RegisteredRetried
<1>4. job' = [job EXCEPT ![j].step = "check"] => job' = [job EXCEPT ![j] = [job[j] EXCEPT !.step = "check"]]
  BY DEF IInv, JobsInv
<1> QED BY <1>2, <1>3, <1>4 DEF RegisterFails, EndFailed

\* A request is served, and the handler gets to the step s.
LEMMA ServedMoves ==
  ASSUME IInv, RetryInv, Tangle, UNCHANGED <<chain, slot>>, NEW j \in Jobs,
         job[j].step \in {"check", "apply", "complete"}, NEW s \in {"apply", "complete", "good", "bad"},
         job' = [job EXCEPT ![j].step = s],
         \A y \in Txs \ {job[j].tx} : row'[y] = row[y] /\ applied'[y] = applied[y],
         \A x \in Txs : /\ x \notin tangled'
                        /\ job[j].tx = x /\ AloneInv(x) /\ Single(j, x)
                        /\ (\A t : At(j, x, t)' <=> t = s)
           => /\ (row[x].state # "none" => row[x].member = chain[x].by)'
              /\ (OnceInv(x) => OnceInv(x)')
  PROVE  RetryInv'
<1>0. PICK r : r = [job[j] EXCEPT !.step = s]
  OBVIOUS
<1>1. job[j] \in JobRecords /\ job[j] # NoJob
  BY StepIsJob DEF IInv, Steps
<1>2. r.step = s /\ r.tx = job[j].tx
  BY <1>0, <1>1 DEF JobRecords
<1>3. job'[j] = r /\ \A i \in Jobs \ {j} : job'[i] = job[i]
  BY <1>0 DEF IInv, JobsInv
<1>4. CASE job[j].tx = NoTx
  BY <1>2, <1>3, <1>4, NoTxAssumption, NoneMoves
<1>5. CASE job[j].tx # NoTx
  <2>1. PICK x \in Txs : x = job[j].tx
    BY <1>1, <1>5 DEF JobRecords
  <2>2. Onward(j, x)
    BY <1>2, <1>3, <2>1 DEF Onward
  <2>4. \A t : At(j, x, t)' <=> t = s
    BY <1>2, <1>3, <2>1 DEF At, Carries, NoJob
  <2>5. x \notin tangled' /\ AloneInv(x) /\ Single(j, x) =>
           /\ (row[x].state # "none" => row[x].member = chain[x].by)'
           /\ (OnceInv(x) => OnceInv(x)')
    BY <2>1, <2>4
  <2> QED BY <2>1, <2>2, <2>5, AskingRetried
<1> QED BY <1>4, <1>5

LEMMA CheckRetried ==
  ASSUME IInv, RetryInv, Tangle, NEW j \in Jobs, Check(j)
  PROVE  RetryInv'
<1>1. PICK s : s = IF Completed(j) THEN "good" ELSE "apply"
  OBVIOUS
<1>2. /\ job[j].step = "check" /\ s \in {"apply", "complete", "good", "bad"}
      /\ job' = [job EXCEPT ![j].step = s] /\ UNCHANGED <<chain, slot, row, applied>>
  BY <1>1 DEF Check
<1>3. ASSUME NEW x \in Txs, job[j].tx = x, AloneInv(x), Single(j, x), \A t : At(j, x, t)' <=> t = s
      PROVE  /\ (row[x].state # "none" => row[x].member = chain[x].by)'
             /\ OnceInv(x) => OnceInv(x)'
  <2>1. (row[x].state # "none" => row[x].member = chain[x].by)'
    BY <1>2, <1>3 DEF AloneInv
  <2>2. Carries(j, x) /\ ~At(j, x, "complete")
    BY <1>2, <1>3, CarriedKnown DEF Steps, At
  <2>3. ASSUME row[x].state = "completed" PROVE s = "good"
    <3>1. row[x] = [state |-> "completed", member |-> job[j].by]
      <4>1. row[x].member = job[j].by
        BY <1>3, <2>2, <2>3 DEF AloneInv
      <4>2. row[x] \in [state : {"none", "pending", "completed"}, member : Members \cup {Nobody}]
        BY DEF IInv, RowsInv
      <4> QED BY <2>3, <4>1, <4>2
    <3>2. Completed(j)
      BY <1>3, <3>1, NoTxAssumption DEF Completed
    <3> QED BY <1>1, <3>2
  <2>4. OnceInv(x) => OnceInv(x)'
    BY <1>2, <1>3, <2>2, <2>3 DEF OnceInv, Single
  <2> QED BY <2>1, <2>4
<1>4. \A y \in Txs : row'[y] = row[y] /\ applied'[y] = applied[y]
  BY <1>2
<1>5. job' = [job EXCEPT ![j].step = s] /\ UNCHANGED <<chain, slot>>
  BY <1>2
<1>6. job[j].step \in {"check", "apply", "complete"} /\ s \in {"apply", "complete", "good", "bad"}
  BY <1>2
<1>7. \A x \in Txs : /\ x \notin tangled'
                      /\ job[j].tx = x /\ AloneInv(x) /\ Single(j, x)
                      /\ (\A t : At(j, x, t)' <=> t = s)
        => /\ (row[x].state # "none" => row[x].member = chain[x].by)'
           /\ (OnceInv(x) => OnceInv(x)')
  BY <1>3
<1>8. CASE s = "good"
  BY <1>4, <1>5, <1>6, <1>7, <1>8, ServedMoves
<1>9. CASE s = "apply"
  BY <1>4, <1>5, <1>6, <1>7, <1>9, ServedMoves
<1> QED BY <1>1, <1>8, <1>9

LEMMA ApplyRetried ==
  ASSUME IInv, RetryInv, Tangle, NEW j \in Jobs, Apply(j)
  PROVE  RetryInv'
<1>1. /\ job[j].step = "apply" /\ job' = [job EXCEPT ![j].step = "complete"]
      /\ UNCHANGED <<chain, slot, row>> /\ Applied(j)
  BY DEF Apply
<1>2. /\ applied \in [Txs -> 0 .. MaxApplied] /\ MaxApplied \in Nat \ {0}
      /\ \A y \in Txs \ {job[j].tx} : applied'[y] = applied[y]
  BY <1>1, MaxAppliedAssumption DEF Applied, IInv, RecordsInv
<1>3. ASSUME NEW x \in Txs, job[j].tx = x, AloneInv(x), Single(j, x),
             \A t : At(j, x, t)' <=> t = "complete"
      PROVE  /\ (row[x].state # "none" => row[x].member = chain[x].by)'
             /\ OnceInv(x) => OnceInv(x)'
  <2>1. (row[x].state # "none" => row[x].member = chain[x].by)'
    BY <1>1, <1>3 DEF AloneInv
  <2>2. At(j, x, "apply") /\ ~At(j, x, "complete")
    BY <1>1, <1>3, CarriedKnown DEF Steps, At
  <2>3. applied[x] = 0 => applied'[x] = 1
    BY <1>1, <1>2, <1>3, NoTxAssumption DEF Applied
  <2>4. OnceInv(x) => OnceInv(x)'
    BY <1>1, <1>3, <2>2, <2>3 DEF OnceInv, Single
  <2> QED BY <2>1, <2>4
<1> QED BY <1>1, <1>2, <1>3, ServedMoves

\* The server slips with the payment that the handler j carries.
LEMMA SlipHistory ==
  ASSUME Tangle, NEW j \in Jobs, job[j].step \in Asking, Slips(j), NEW x \in Txs, job[j].tx = x
  PROVE  x \in tangled'
<1>1. j \in Running
  BY DEF Running, NoJob, Asking
<1> QED BY <1>1 DEF Tangle

LEMMA SlipRetried ==
  ASSUME IInv, RetryInv, Tangle, NEW j \in Jobs, Slips(j), UNCHANGED <<chain, slot>>,
         job[j].step \in {"check", "apply", "complete"}, NEW s \in {"apply", "good", "bad"},
         job' = [job EXCEPT ![j].step = s],
         \A y \in Txs \ {job[j].tx} : row'[y] = row[y] /\ applied'[y] = applied[y]
  PROVE  RetryInv'
<1>1. \A x \in Txs : job[j].tx = x => x \in tangled'
  BY SlipHistory DEF Asking
<1>2. CASE s = "apply"
  BY <1>1, <1>2, ServedMoves
<1>3. CASE s = "good"
  BY <1>1, <1>3, ServedMoves
<1>4. CASE s = "bad"
  BY <1>1, <1>4, ServedMoves
<1> QED BY <1>2, <1>3, <1>4

LEMMA OverlookRetried ==
  ASSUME IInv, RetryInv, Tangle, NEW j \in Jobs, Overlook(j)
  PROVE  RetryInv'
<1>1. CASE Completed(j)
  <2>1. /\ job[j].step = "check" /\ job' = [job EXCEPT ![j].step = "apply"]
        /\ UNCHANGED <<chain, slot, row, applied>> /\ Slips(j)
    BY <1>1 DEF Overlook, Slips
  <2> QED BY <2>1, SlipRetried
<1>2. CASE ~Completed(j)
  <2>1. Check(j)
    BY <1>2 DEF Check, Overlook
  <2> QED BY <2>1, CheckRetried
<1> QED BY <1>1, <1>2

LEMMA ApplyPartlyRetried ==
  ASSUME IInv, RetryInv, Tangle, NEW j \in Jobs, ApplyPartly(j)
  PROVE  RetryInv'
<1>1. /\ job[j].step = "apply" /\ job' = [job EXCEPT ![j].step = "bad"]
      /\ UNCHANGED <<chain, slot, row>> /\ Applied(j) /\ Slips(j)
  BY DEF ApplyPartly, Slips
<1>2. \A y \in Txs \ {job[j].tx} : applied'[y] = applied[y]
  BY <1>1 DEF Applied, IInv, RecordsInv
<1> QED BY <1>1, <1>2, SlipRetried

LEMMA LeaveIncompleteRetried ==
  ASSUME IInv, RetryInv, Tangle, NEW j \in Jobs, LeaveIncomplete(j)
  PROVE  RetryInv'
<1>1. /\ job[j].step = "complete" /\ job' = [job EXCEPT ![j].step = "good"]
      /\ UNCHANGED <<chain, slot, row, applied>> /\ Slips(j)
  BY DEF LeaveIncomplete, Slips
<1> QED BY <1>1, SlipRetried

LEMMA RefuseRetried ==
  ASSUME IInv, RetryInv, Tangle, NEW j \in Jobs, Refuse(j)
  PROVE  RetryInv'
<1>1. /\ job[j].step = "apply" /\ job' = [job EXCEPT ![j].step = "bad"]
      /\ UNCHANGED <<chain, slot, row, applied>>
  BY DEF Refuse
<1>2. ASSUME NEW x \in Txs, job[j].tx = x, AloneInv(x), Single(j, x),
             \A t : At(j, x, t)' <=> t = "bad"
      PROVE  /\ (row[x].state # "none" => row[x].member = chain[x].by)'
             /\ OnceInv(x) => OnceInv(x)'
  <2>1. (row[x].state # "none" => row[x].member = chain[x].by)'
    BY <1>1, <1>2 DEF AloneInv
  <2>2. ~At(j, x, "complete")
    BY <1>1 DEF At
  <2>3. OnceInv(x) => OnceInv(x)'
    BY <1>1, <1>2, <2>2 DEF OnceInv, Single
  <2> QED BY <2>1, <2>3
<1> QED BY <1>1, <1>2, ServedMoves

LEMMA CompleteRetried ==
  ASSUME IInv, RetryInv, Tangle, NEW j \in Jobs, Complete(j)
  PROVE  RetryInv'
<1>1. /\ job[j].step = "complete" /\ job' = [job EXCEPT ![j].step = "good"]
      /\ UNCHANGED <<chain, slot, applied>>
  BY DEF Complete
<1>2. \A y \in Txs \ {job[j].tx} : row'[y] = row[y]
  BY DEF Complete, IInv, RowsInv
<1>3. ASSUME NEW x \in Txs, job[j].tx = x, AloneInv(x), Single(j, x),
             \A t : At(j, x, t)' <=> t = "good"
      PROVE  /\ (row[x].state # "none" => row[x].member = chain[x].by)'
             /\ OnceInv(x) => OnceInv(x)'
  <2>1. Carries(j, x) /\ row[x] \in [state : {"none", "pending", "completed"}, member : Members \cup {Nobody}]
    BY <1>1, <1>3, CarriedKnown DEF Steps, IInv, RowsInv
  <2>2. IF row[x].state = "none" THEN row'[x] = row[x]
        ELSE row'[x].state = "completed" /\ row'[x].member = row[x].member
    BY <1>3, <2>1, NoTxAssumption DEF Complete, IInv, RowsInv, AloneInv
  <2>3. (row[x].state # "none" => row[x].member = chain[x].by)'
    BY <1>1, <1>3, <2>2 DEF AloneInv
  <2>4. ASSUME OnceInv(x), row[x].state # "none" PROVE applied[x] <= 1
    BY <2>1, <2>4 DEF OnceInv
  <2>5. OnceInv(x) => OnceInv(x)'
    BY <1>1, <1>3, <2>2, <2>4 DEF OnceInv, Single
  <2> QED BY <2>3, <2>5
<1> QED BY <1>1, <1>2, <1>3, ServedMoves

----------------------------------------------------------------------------
(* Steps that get on with no payment. *)

\* The documents of a tab are left: a request that is served stays.
LEMMA LeavingRests ==
  ASSUME NEW t \in Tabs, NEW j \in Jobs
  PROVE  Rested(job[j], LeaveDocument(t)[j])
BY DEF LeaveDocument, Rested, Lives, Sent

LEMMA EndRests ==
  ASSUME JobsInv, NEW j \in Jobs, job[j].step # "complete", job' = [job EXCEPT ![j] = NoJob]
  PROVE  \A i \in Jobs : Rested(job[i], job'[i])
BY DEF JobsInv, Rested

LEMMA BrowseRetried ==
  ASSUME IInv, RetryInv, Tangle, Browse
  PROVE  RetryInv'
<1>1. JobsInv
  BY DEF IInv
<1>2. ASSUME NEW t \in Tabs, job' = LeaveDocument(t) PROVE \A j \in Jobs : Rested(job[j], job'[j])
  BY <1>2, LeavingRests
<1>3. ASSUME UNCHANGED slot PROVE \A t \in Tabs, k \in Keys : slot'[t][k] \in {slot[t][k], NoNote}
  BY <1>3
<1>4. ASSUME NEW t \in Tabs, NEW p \in Pages, Navigate(t, p) PROVE RetryInv'
  <2>1. \A j \in Jobs : Rested(job[j], job'[j])
    BY <1>4 DEF Navigate, Rested, Lives
  <2>2. UNCHANGED <<slot, chain, row, applied>>
    BY <1>4 DEF Navigate
  <2> QED BY <1>1, <1>3, <2>1, <2>2, LeftRetried
<1>5. ASSUME NEW t \in Tabs, NEW p \in Pages, Reload(t, p) PROVE RetryInv'
  <2>1. UNCHANGED <<slot, chain, row, applied>> /\ job' = LeaveDocument(t)
    BY <1>5 DEF Reload
  <2> QED BY <1>1, <1>2, <1>3, <2>1, LeftRetried
<1>6. ASSUME NEW t \in Tabs, Logout(t) PROVE RetryInv'
  <2>1. UNCHANGED <<slot, chain, row, applied>> /\ job' = LeaveDocument(t)
    BY <1>6 DEF Logout
  <2> QED BY <1>1, <1>2, <1>3, <2>1, LeftRetried
<1>7. ASSUME NEW t \in Tabs, CloseTab(t) PROVE RetryInv'
  <2>1. UNCHANGED <<chain, row, applied>> /\ job' = LeaveDocument(t)
    BY <1>7 DEF CloseTab
  <2>2. \A u \in Tabs, k \in Keys : slot'[u][k] \in {slot[u][k], NoNote}
    BY <1>7 DEF CloseTab, IInv, NotesInv
  <2> QED BY <1>1, <1>2, <2>1, <2>2, LeftRetried
<1>8. ASSUME NEW t \in Tabs, NEW m \in Members, Login(t, m) PROVE RetryInv'
  <2>1. UNCHANGED <<slot, job, chain, row, applied>>
    BY <1>8 DEF Login
  <2>2. \A j \in Jobs : Rested(job[j], job'[j])
    BY <2>1 DEF Rested
  <2> QED BY <1>1, <1>3, <2>1, <2>2, LeftRetried
<1>9. ASSUME NEW t \in Tabs, LoadWorkspace(t) \/ LoadCheckpoint(t) \/ LoadSubscription(t)
      PROVE  RetryInv'
  BY <1>9, MountedRetried DEF LoadWorkspace, LoadCheckpoint, LoadSubscription
<1> QED BY <1>4, <1>5, <1>6, <1>7, <1>8, <1>9 DEF Browse

\* A handler ends without an answer, or with a refusal.
LEMMA EndedRetried ==
  ASSUME IInv, RetryInv, Tangle, NEW j \in Jobs,
         \/ WalletRefuses(j) \/ ReceiptLost(j) \/ Fail(j)
         \/ Forget(j) /\ job[j].step # "complete"
  PROVE  RetryInv'
<1>1. /\ job[j].step # "complete" /\ job' = [job EXCEPT ![j] = NoJob]
      /\ UNCHANGED <<slot, chain, row, applied>>
  BY DEF WalletRefuses, ReceiptLost, Fail, Forget, EndFailed
<1>2. \A i \in Jobs : Rested(job[i], job'[i])
  BY <1>1, EndRests DEF IInv
<1>3. \A t \in Tabs, k \in Keys : slot'[t][k] \in {slot[t][k], NoNote}
  BY <1>1
<1> QED BY <1>1, <1>2, <1>3, LeftRetried DEF IInv

\* The server stops between the change and its completion.
LEMMA ForgetRetried ==
  ASSUME IInv, RetryInv, Tangle, NEW j \in Jobs, Forget(j)
  PROVE  RetryInv'
<1>1. CASE job[j].step # "complete"
  BY <1>1, EndedRetried
<1>2. CASE job[j].step = "complete"
  <2>1. job' = [job EXCEPT ![j] = NoJob] /\ UNCHANGED <<slot, chain, row, applied>> /\ Slips(j)
    BY <1>2 DEF Forget, Slips
  <2>2. \A x \in Txs : job[j].tx = x => x \in tangled'
    BY <1>2, <2>1, SlipHistory DEF Asking
  <2>3. \A i \in Jobs :
          \/ Rested(job[i], job'[i])
          \/ job'[i] = NoJob /\ (\A x \in Txs : job[i].tx = x => x \in tangled')
    BY <2>1, <2>2 DEF IInv, JobsInv, Rested
  <2>4. \A t \in Tabs, k \in Keys : slot'[t][k] \in {slot[t][k], NoNote}
    BY <2>1
  <2> QED BY <2>1, <2>3, <2>4, LeftRetried DEF IInv
<1> QED BY <1>1, <1>2

LEMMA SucceedRetried ==
  ASSUME IInv, RetryInv, Tangle, NEW j \in Jobs, Succeed(j)
  PROVE  RetryInv'
<1>1. JobsInv /\ job[j] \in JobRecords /\ job[j].step = "good"
  BY StepIsJob DEF IInv, Succeed, Steps
<1>2. PICK t \in Tabs : t = job[j].tab
  BY <1>1 DEF JobRecords
<1>3. /\ UNCHANGED <<chain, row, applied>>
      /\ \/ job' = [LeaveDocument(t) EXCEPT ![j] = NoJob]
         \/ job' = [job EXCEPT ![j] = NoJob]
  BY <1>2 DEF Succeed, EndFailed
<1>4. \A u \in Tabs, k \in Keys : slot'[u][k] \in {slot[u][k], NoNote}
  <2>1. PICK q : q = Flow[job[j].flow].key
    OBVIOUS
  <2>2. slot' = [slot EXCEPT ![t][q] = NoNote]
    BY <1>2, <2>1 DEF Succeed
  <2> QED BY <2>2 DEF IInv, NotesInv
<1>5. ASSUME NEW i \in Jobs PROVE Rested(job[i], job'[i])
  <2>1. CASE job' = [job EXCEPT ![j] = NoJob]
    BY <1>1, <2>1, EndRests
  <2>2. CASE job' = [LeaveDocument(t) EXCEPT ![j] = NoJob]
    <3>1. (job'[i] = NoJob /\ i = j) \/ job'[i] = LeaveDocument(t)[i]
      BY <2>2 DEF LeaveDocument
    <3>2. CASE job'[i] = NoJob /\ i = j
      BY <1>1, <3>2 DEF Rested
    <3>3. CASE job'[i] = LeaveDocument(t)[i]
      BY <3>3, LeavingRests
    <3> QED BY <3>1, <3>2, <3>3
  <2> QED BY <1>3, <2>1, <2>2
<1> QED BY <1>1, <1>3, <1>4, <1>5, LeftRetried

LEMMA LoseAnswerRetried ==
  ASSUME IInv, RetryInv, Tangle, NEW j \in Jobs, LoseAnswer(j)
  PROVE  RetryInv'
<1>1. job' = [job EXCEPT ![j].life = "dead"] /\ UNCHANGED <<slot, chain, row, applied>>
  BY DEF LoseAnswer
<1>2. \A i \in Jobs : Rested(job[i], job'[i])
  <2> SUFFICES ASSUME NEW i \in Jobs PROVE Rested(job[i], job'[i])
    OBVIOUS
  <2>1. CASE i = j
    <3>1. job'[i] = [job[i] EXCEPT !.life = "dead"]
      BY <1>1, <2>1 DEF IInv, JobsInv
    <3> QED BY <3>1 DEF Rested, Lives
  <2>2. CASE i # j
    BY <1>1, <2>2 DEF IInv, JobsInv, Rested
  <2> QED BY <2>1, <2>2
<1>3. \A t \in Tabs, k \in Keys : slot'[t][k] \in {slot[t][k], NoNote}
  BY <1>1
<1> QED BY <1>1, <1>2, <1>3, LeftRetried DEF IInv

LEMMA MineRetried ==
  ASSUME IInv, RetryInv, Tangle, NEW x \in Txs, Mine(x)
  PROVE  RetryInv'
<1>1. UNCHANGED <<slot, job, row, applied>>
  BY DEF Mine
<1>2. ASSUME NEW y \in Txs PROVE Retried(y)'
  <2>1. /\ chain'[y].by = chain[y].by /\ chain'[y].kind = chain[y].kind
        /\ (chain'[y].state = "none" <=> chain[y].state = "none")
    BY DEF Mine, IInv, ChainInv, Outcomes
  <2>2. Quiet(y)
    BY <1>1, <2>1 DEF Quiet, Noted, Rests, At, Carries
  <2> QED BY <2>2, QuietRetried DEF RetryInv
<1> QED BY <1>1, <1>2 DEF RetryInv

\* Nothing the history is about changes.
LEMMA StillRetried ==
  ASSUME RetryInv, UNCHANGED <<slot, job, chain, row, applied>>, tangled \subseteq tangled'
  PROVE  RetryInv'
<1>2. ASSUME NEW x \in Txs PROVE Retried(x)'
  <2>1. FreshInv(x)' <=> FreshInv(x)
    BY DEF FreshInv, Unasked, Noted, At, Carries
  <2>2. AloneInv(x)' <=> AloneInv(x)
    BY DEF AloneInv, UnderWay, Running, At, Carries
  <2>3. OnceInv(x)' <=> OnceInv(x)
    BY DEF OnceInv, At, Carries
  <2> QED BY <2>1, <2>2, <2>3 DEF RetryInv, Retried
<1> QED BY <1>2 DEF RetryInv

LEMMA CloseRetried ==
  ASSUME RetryInv, Tangle, NEW k \in Kinds, Close(k)
  PROVE  RetryInv'
<1>1. UNCHANGED <<slot, job, chain, row, applied>> /\ tangled \subseteq tangled'
  BY DEF Close, Tangle
<1> QED BY <1>1, StillRetried

----------------------------------------------------------------------------
LEMMA InitRetried == Init /\ tangled = {} => RetryInv
<1> SUFFICES ASSUME Init PROVE RetryInv
  OBVIOUS
<1>1. \A j \in Jobs : job[j] = NoJob
  BY DEF Init
<1>2. ASSUME NEW x \in Txs PROVE Retried(x)
  <2>1. ~Noted(x)
    BY DEF Init, Noted
  <2>2. row[x].state = "none" /\ applied[x] = 0
    BY DEF Init, NoRow
  <2>3. FreshInv(x)
    BY <1>1, <2>1, <2>2 DEF FreshInv, Unasked, At, Carries
  <2>4. UnderWay(x) = {}
    BY <1>1 DEF UnderWay, Running
  <2>5. AloneInv(x) /\ OnceInv(x)
    BY <1>1, <2>2, <2>4 DEF AloneInv, OnceInv, At, Carries
  <2> QED BY <2>3, <2>5 DEF Retried
<1>3. \A j \in Jobs : job[j].step # "wallet"
  BY <1>1 DEF NoJob
<1> QED BY <1>2, <1>3 DEF RetryInv

LEMMA NextRetried == IInv /\ RetryInv /\ [Next /\ Tangle]_<<vars, tangled>> => RetryInv'
<1> SUFFICES ASSUME IInv, RetryInv, [Next /\ Tangle]_<<vars, tangled>> PROVE RetryInv'
  OBVIOUS
<1>1. CASE Browse /\ Tangle
  BY <1>1, BrowseRetried
<1>2. CASE Act /\ Tangle
  <2>1. PICK j \in Jobs :
          \/ \E t \in Tabs, f \in Flows : Start(t, f, j)
          \/ WalletRefuses(j)
          \/ \E x \in Txs : WalletSends(j, x)
          \/ AwaitReceipt(j)
          \/ Registered(j)
          \/ Receive(j) \/ LoseAnswer(j) \/ Forget(j)
    BY <1>2 DEF Act
  <2> QED BY <1>2, <2>1, StartRetried, EndedRetried, ForgetRetried, WalletSendsRetried, ReceiptSeenRetried,
             RegisterRetried, RegisterFailsRetried, SucceedRetried, LoseAnswerRetried
          DEF AwaitReceipt, Registered, Receive
<1>3. CASE (\E j \in Jobs : Serve(j)) /\ Tangle
  BY <1>3, CheckRetried, OverlookRetried, ApplyRetried, ApplyPartlyRetried, RefuseRetried,
     CompleteRetried, LeaveIncompleteRetried DEF Serve
<1>4. CASE (\E x \in Txs : Mine(x)) /\ Tangle
  BY <1>4, MineRetried
<1>5. CASE (\E k \in Kinds : Close(k)) /\ Tangle
  BY <1>5, CloseRetried
<1>6. CASE UNCHANGED <<vars, tangled>>
  BY <1>6, StillRetried DEF vars
<1> QED BY <1>1, <1>2, <1>3, <1>4, <1>5, <1>6 DEF Next

(* Retries are harmless, for any number of tabs, members, payments and      *)
(* handlers: a payment that was registered before its request was sent is   *)
(* applied at most once, however often answers are lost and pages reloaded, *)
(* unless two of its requests overlapped, another member replayed it, or    *)
(* the server slipped (it left the change uncompleted, or overlooked that   *)
(* it was completed).                                                       *)
THEOREM RetriesAreHarmless == HistorySpec => []RetriesApplyOnce
<1>1. Init /\ tangled = {} => IInv /\ RetryInv
  BY InitHolds, InitRetried
<1>2. IInv /\ RetryInv /\ [Next /\ Tangle]_<<vars, tangled>> => IInv' /\ RetryInv'
  <2> SUFFICES ASSUME IInv, RetryInv, [Next /\ Tangle]_<<vars, tangled>> PROVE IInv' /\ RetryInv'
    OBVIOUS
  <2>1. [Next]_vars
    BY DEF vars
  <2> QED BY <2>1, NextKeeps, NextRetried
<1>3. IInv /\ RetryInv => RetriesApplyOnce
  <2> SUFFICES ASSUME IInv, RetryInv, NEW x \in Txs, x \notin tangled, row[x].state # "none"
               PROVE  applied[x] <= 1
    BY DEF RetriesApplyOnce
  <2>1. row[x].state \in {"pending", "completed"}
    BY DEF IInv, RowsInv
  <2>2. OnceInv(x)
    BY DEF RetryInv, Retried
  <2> QED BY <2>1, <2>2 DEF OnceInv
<1> QED BY <1>1, <1>2, <1>3, PTL DEF HistorySpec

----------------------------------------------------------------------------
(* The menu of a shop (ShopMenu).                                           *)

(* A page that asks has the request it asks with.                           *)
MenuAsks ==
  Menu!Drafts \cup [what : {"withdraw", "approve", "reject"}, id : Nat, timed : BOOLEAN, now : Nat]

ChangeRecords ==
  [act : Menu!Actions, item : Items, price : Prices \cup {0}, effective : Nat,
   status : {"pending", "withdrawn", "approved", "rejected", "applied"}]

MenuTypes ==
  /\ day \in Nat /\ change \in Seq(ChangeRecords)
  /\ menu = [it \in Items |-> menu[it]]
  /\ due = [r \in Readers |-> due[r]]
  /\ \A r \in Readers : due[r] \subseteq DOMAIN change
  /\ pending = [d \in Menu!ListingPages |-> pending[d]]
  /\ \A d \in Menu!ListingPages : pending[d] \subseteq DOMAIN change
  /\ at = [d \in DeskPages |-> at[d]] /\ ask = [d \in DeskPages |-> ask[d]]
  /\ \A d \in DeskPages : at[d] = "asking" => ask[d] \in MenuAsks

(* While no two readers were at work at once and no approval was written    *)
(* late: what is applied comes before what is still to be applied, and what *)
(* a reader has listed before what it has not.                              *)
InEffect(i)  == change[i].status = "applied"
Approved(i) == change[i].status = "approved"
EffectsOf(it) == {i \in DOMAIN change : InEffect(i) /\ change[i].item = it}

OneReader == \A q, r \in Readers : due[q] # {} /\ due[r] # {} => q = r
AppliedFirst ==
  \A i \in DOMAIN change : InEffect(i) =>
    /\ change[i].effective <= day
    /\ \A j \in DOMAIN change : Approved(j) => Menu!Later(j, i)
ListedFirst ==
  \A r \in Readers : \A i \in due[r] :
    /\ Approved(i) /\ change[i].effective <= day
    /\ \A j \in DOMAIN change \ due[r] : Approved(j) => change[j].effective > change[i].effective
LastOnMenu ==
  \A it \in Items :
    \/ EffectsOf(it) = {} /\ menu[it] = 0
    \/ \E i \in EffectsOf(it) : /\ \A j \in EffectsOf(it) \ {i} : Menu!Later(i, j)
                                /\ menu[it] = Menu!Leaves(i)

InTurn == OneReader /\ AppliedFirst /\ ListedFirst /\ LastOnMenu

MenuInv ==
  /\ MenuTypes
  /\ crossed \/ InTurn

LEMMA MenuRequests ==
  ASSUME MenuTypes, NEW d
  PROVE  /\ d \in Menu!MenuPages => d \in DeskPages
         /\ \A i \in DOMAIN change : change[i] \in ChangeRecords /\ i \in Nat
         /\ DOMAIN change = 1..Len(change) /\ Len(change) \in Nat
<1>1. Menu!MenuPages \subseteq DeskPages
  BY DesksAssumption
<1>2. change \in Seq(ChangeRecords)
  BY DEF MenuTypes
<1>3. DOMAIN change = 1..Len(change) /\ Len(change) \in Nat
  BY <1>2
<1> HIDE DEF ChangeRecords
<1>4. \A i \in DOMAIN change : change[i] \in ChangeRecords /\ i \in Nat
  BY <1>2, <1>3
<1> QED BY <1>1, <1>3, <1>4

(* The requests in a row of the tables: a step that touches one or none.    *)
LEMMA OneDecided ==
  ASSUME MenuTypes, NEW i \in DOMAIN change, NEW r \in ChangeRecords,
         change' = [change EXCEPT ![i] = r]
  PROVE  /\ change' \in Seq(ChangeRecords) /\ DOMAIN change' = DOMAIN change
         /\ change'[i] = r /\ \A j \in DOMAIN change \ {i} : change'[j] = change[j]
<1>1. change \in Seq(ChangeRecords) /\ i \in 1..Len(change) /\ DOMAIN change = 1..Len(change)
  BY MenuRequests DEF MenuTypes
<1> HIDE DEF ChangeRecords
<1>2. /\ change' \in Seq(ChangeRecords) /\ Len(change') = Len(change)
      /\ \A j \in 1..Len(change) : change'[j] = IF j = i THEN r ELSE change[j]
  BY <1>1, ExceptSeq
<1>3. DOMAIN change' = 1..Len(change')
  BY <1>2
<1> QED BY <1>1, <1>2, <1>3

LEMMA OneAsked ==
  ASSUME MenuTypes, NEW r \in ChangeRecords, change' = Append(change, r)
  PROVE  /\ change' \in Seq(ChangeRecords) /\ DOMAIN change' = DOMAIN change \cup {Len(change) + 1}
         /\ Len(change) + 1 \notin DOMAIN change
         /\ change'[Len(change) + 1] = r /\ \A j \in DOMAIN change : change'[j] = change[j]
<1>1. change \in Seq(ChangeRecords) /\ DOMAIN change = 1..Len(change) /\ Len(change) \in Nat
  BY MenuRequests DEF MenuTypes
<1> HIDE DEF ChangeRecords
<1>2. /\ change' \in Seq(ChangeRecords) /\ Len(change') = Len(change) + 1
      /\ change'[Len(change) + 1] = r /\ \A j \in 1..Len(change) : change'[j] = change[j]
  BY <1>1
<1>3. DOMAIN change' = 1..Len(change')
  BY <1>2
<1> QED BY <1>1, <1>2, <1>3

(* Nothing of the menu changes.                                             *)
LEMMA SameMenu ==
  ASSUME MenuInv, UNCHANGED <<day, menu, change, due>>, crossed => crossed', MenuTypes'
  PROVE  MenuInv'
BY DEF MenuInv, InTurn, OneReader, AppliedFirst, ListedFirst, LastOnMenu, EffectsOf, InEffect, Approved,
       Menu!Later, Menu!Leaves

(* A request is taken in, or decided: what is newly approved takes effect   *)
(* after everything that was applied or is due.                             *)
LEMMA DecisionKeeps ==
  ASSUME MenuInv, MenuTypes', UNCHANGED <<day, menu, due>>, crossed => crossed', NEW i,
         DOMAIN change' = DOMAIN change \cup {i},
         i \in DOMAIN change => change[i].status = "pending",
         \A j \in DOMAIN change \ {i} : change'[j] = change[j],
         change'[i].status # "applied",
         change'[i].status = "approved" => crossed' \/ change'[i].effective = day + 1
  PROVE  MenuInv'
<1> SUFFICES ASSUME ~crossed, ~crossed'
             PROVE  InTurn'
  BY DEF MenuInv
<1>1. OneReader /\ AppliedFirst /\ ListedFirst /\ LastOnMenu /\ MenuTypes
  BY DEF MenuInv, InTurn
<1>2. \A j \in DOMAIN change : change[j] \in ChangeRecords /\ j \in Nat
  BY <1>1, MenuRequests
<1>3. \A j \in DOMAIN change : change[j].effective \in Nat
  BY <1>2 DEF ChangeRecords
<1>4. OneReader'
  BY <1>1 DEF OneReader
<1>5. \A j \in DOMAIN change' : InEffect(j)' => j \in DOMAIN change /\ j # i /\ InEffect(j) /\ change'[j] = change[j]
  BY DEF InEffect
<1>6. ASSUME NEW j \in DOMAIN change', InEffect(j)'
      PROVE  /\ change'[j].effective <= day'
             /\ \A k \in DOMAIN change' : Approved(k)' => Menu!Later(k, j)'
  <2>1. j \in DOMAIN change /\ j # i /\ InEffect(j) /\ change'[j] = change[j]
    BY <1>5, <1>6
  <2>2. change[j].effective <= day /\ change[j].effective \in Nat /\ day \in Nat
    BY <1>1, <1>3, <2>1 DEF AppliedFirst, MenuTypes
  <2>3. ASSUME NEW k \in DOMAIN change', Approved(k)'
        PROVE  Menu!Later(k, j)'
    <3>1. CASE k = i
      BY <2>1, <2>2, <2>3, <3>1 DEF Menu!Later, Approved
    <3>2. CASE k # i
      <4>1. k \in DOMAIN change /\ change'[k] = change[k] /\ Approved(k)
        BY <2>3, <3>2 DEF Approved
      <4>2. Menu!Later(k, j)
        BY <1>1, <2>1, <4>1 DEF AppliedFirst
      <4> QED BY <2>1, <4>1, <4>2 DEF Menu!Later
    <3> QED BY <3>1, <3>2
  <2> QED BY <2>1, <2>2, <2>3
<1>7. ListedFirst'
  <2> SUFFICES ASSUME NEW r \in Readers, NEW j \in due[r]
               PROVE  /\ Approved(j)' /\ change'[j].effective <= day
                      /\ \A k \in DOMAIN change' \ due[r] :
                           Approved(k)' => change'[k].effective > change'[j].effective
    BY DEF ListedFirst
  <2>1. Approved(j) /\ change[j].effective <= day /\ j \in DOMAIN change
    BY <1>1 DEF ListedFirst, MenuTypes
  <2>2. j # i /\ change'[j] = change[j]
    BY <2>1 DEF Approved
  <2>3. ASSUME NEW k \in DOMAIN change' \ due[r], Approved(k)'
        PROVE  change'[k].effective > change'[j].effective
    <3>1. CASE k = i
      <4>1. day \in Nat /\ change[j].effective \in Nat
        BY <1>1, <1>3, <2>1 DEF MenuTypes
      <4> QED BY <2>1, <2>2, <2>3, <3>1, <4>1 DEF Approved
    <3>2. CASE k # i
      <4>1. k \in DOMAIN change \ due[r] /\ change'[k] = change[k] /\ Approved(k)
        BY <2>3, <3>2 DEF Approved
      <4> QED BY <1>1, <2>2, <4>1 DEF ListedFirst
    <3> QED BY <3>1, <3>2
  <2> QED BY <2>1, <2>2, <2>3 DEF Approved
<1>8. LastOnMenu'
  <2> SUFFICES ASSUME NEW it \in Items
               PROVE  \/ EffectsOf(it)' = {} /\ menu[it] = 0
                      \/ \E j \in EffectsOf(it)' : /\ \A k \in EffectsOf(it)' \ {j} : Menu!Later(j, k)'
                                                   /\ menu[it] = Menu!Leaves(j)'
    BY DEF LastOnMenu
  <2>1. EffectsOf(it)' = EffectsOf(it)
    BY <1>5 DEF EffectsOf, InEffect
  <2>2. \A j \in EffectsOf(it) : change'[j] = change[j]
    BY <1>5, <2>1 DEF EffectsOf
  <2>3. /\ \A j, k \in EffectsOf(it) : Menu!Later(j, k) => Menu!Later(j, k)'
        /\ \A j \in EffectsOf(it) : Menu!Leaves(j)' = Menu!Leaves(j)
    BY <2>2 DEF Menu!Later, Menu!Leaves
  <2> QED BY <1>1, <2>1, <2>3 DEF LastOnMenu
<1> QED BY <1>4, <1>6, <1>7, <1>8 DEF AppliedFirst, InTurn

(* The first of the changes a reader has listed.                            *)
LEMMA FirstIsFirst ==
  ASSUME MenuTypes, NEW S \in SUBSET DOMAIN change, S # {}
  PROVE  /\ Menu!FirstOf(S) \in S
         /\ \A j \in S \ {Menu!FirstOf(S)} : Menu!Later(j, Menu!FirstOf(S))
<1> DEFINE R == {p \in S \X S : p[1] = p[2] \/ Menu!Later(p[2], p[1])}
<1>1. IsFiniteSet(S) /\ R \in SUBSET (S \X S)
  <2>1. IsFiniteSet(1..Len(change)) /\ DOMAIN change = 1..Len(change)
    BY MenuRequests, FS_Interval
  <2> QED BY <2>1, FS_Subset
<1>2. \A i \in S : change[i].effective \in Nat /\ i \in Nat
  BY MenuRequests DEF ChangeRecords
<1>3. \A i, j \in S : <<i, j>> \in R <=> (i = j \/ Menu!Later(j, i))
  OBVIOUS
<1>4. \A i, j \in S : <<i, j>> \in R \/ <<j, i>> \in R
  <2> SUFFICES ASSUME NEW i \in S, NEW j \in S
               PROVE  i = j \/ Menu!Later(j, i) \/ Menu!Later(i, j)
    BY <1>3
  <2>1. i \in Nat /\ j \in Nat /\ change[i].effective \in Nat /\ change[j].effective \in Nat
    BY <1>2
  <2> QED BY <2>1 DEF Menu!Later
<1>5. \A i, j, k \in S : <<i, j>> \in R /\ <<j, k>> \in R => <<i, k>> \in R
  BY <1>2, <1>3 DEF Menu!Later
<1> HIDE DEF R
<1>6. \E i \in S : \A j \in S : <<i, j>> \in R
  BY <1>1, <1>4, <1>5, BestExists
<1>7. \E i \in S : \A j \in S \ {i} : Menu!Later(j, i)
  BY <1>3, <1>6
<1> QED BY <1>7 DEF Menu!FirstOf

LEMMA ListDueKeeps ==
  ASSUME MenuInv, NEW r \in Readers, Menu!ListDue(r)
  PROVE  MenuInv'
<1>1. /\ due[r] = {} /\ due' = [due EXCEPT ![r] = Menu!Due]
      /\ crossed' = (crossed \/ \E q \in Readers : due[q] # {})
      /\ UNCHANGED <<at, ask, day, menu, change, pending>>
  BY DEF Menu!ListDue, Menu!requestVars
<1>2. MenuTypes /\ Menu!Due \subseteq DOMAIN change
  BY DEF MenuInv, Menu!Due
<1>3. due'[r] = Menu!Due /\ \A q \in Readers \ {r} : due'[q] = due[q]
  BY <1>1, <1>2 DEF MenuTypes
<1>4. MenuTypes'
  BY <1>1, <1>2, <1>3 DEF MenuTypes
<1>5. ASSUME ~crossed'
      PROVE  InTurn'
  <2>1. InTurn /\ \A q \in Readers : due[q] = {}
    BY <1>1, <1>5 DEF MenuInv
  <2>2. \A q \in Readers \ {r} : due'[q] = {}
    BY <1>3, <2>1
  <2>3. OneReader'
    BY <2>2 DEF OneReader
  <2>4. AppliedFirst' /\ LastOnMenu'
    BY <1>1, <2>1 DEF InTurn, AppliedFirst, LastOnMenu, EffectsOf, InEffect, Approved, Menu!Later, Menu!Leaves
  <2>5. ListedFirst'
    <3> SUFFICES ASSUME NEW i \in Menu!Due
                 PROVE  /\ Approved(i) /\ change[i].effective <= day
                        /\ \A j \in DOMAIN change \ Menu!Due :
                             Approved(j) => change[j].effective > change[i].effective
      BY <1>1, <1>3, <2>2 DEF ListedFirst, Approved
    <3>1. i \in DOMAIN change /\ Approved(i) /\ change[i].effective <= day
      BY DEF Menu!Due, Approved
    <3>2. ASSUME NEW j \in DOMAIN change \ Menu!Due, Approved(j)
          PROVE  change[j].effective > change[i].effective
      <4>1. ~(change[j].effective <= day)
        BY <3>2 DEF Menu!Due, Approved
      <4>2. change[j].effective \in Nat /\ change[i].effective \in Nat /\ day \in Nat
        BY <1>2, <3>1, MenuRequests DEF ChangeRecords, MenuTypes
      <4> QED BY <3>1, <4>1, <4>2
    <3> QED BY <3>1, <3>2
  <2> QED BY <2>3, <2>4, <2>5 DEF InTurn
<1> QED BY <1>4, <1>5 DEF MenuInv

LEMMA StopsKeeps ==
  ASSUME MenuInv, NEW r \in Readers, Menu!Stops(r)
  PROVE  MenuInv'
<1>1. /\ due' = [due EXCEPT ![r] = {}]
      /\ UNCHANGED <<at, ask, day, menu, change, pending, crossed>>
  BY DEF Menu!Stops, Menu!requestVars
<1>2. MenuTypes
  BY DEF MenuInv
<1>3. due'[r] = {} /\ \A q \in Readers \ {r} : due'[q] = due[q]
  BY <1>1, <1>2 DEF MenuTypes
<1>4. MenuTypes'
  BY <1>1, <1>2, <1>3 DEF MenuTypes
<1>5. ASSUME InTurn
      PROVE  InTurn'
  <2>1. OneReader' /\ ListedFirst'
    BY <1>1, <1>3, <1>5 DEF InTurn, OneReader, ListedFirst, Approved
  <2>2. AppliedFirst' /\ LastOnMenu'
    BY <1>1, <1>5 DEF InTurn, AppliedFirst, LastOnMenu, EffectsOf, InEffect, Approved, Menu!Later, Menu!Leaves
  <2> QED BY <2>1, <2>2 DEF InTurn
<1> QED BY <1>1, <1>4, <1>5 DEF MenuInv

LEMMA MidnightKeeps ==
  ASSUME MenuInv, Menu!Midnight
  PROVE  MenuInv'
<1>1. day' = day + 1 /\ UNCHANGED <<at, ask, menu, change, pending, due, crossed>>
  BY DEF Menu!Midnight, Menu!requestVars, Menu!readVars
<1>2. MenuTypes /\ day \in Nat
  BY DEF MenuInv, MenuTypes
<1>3. MenuTypes'
  BY <1>1, <1>2 DEF MenuTypes
<1>4. ASSUME InTurn
      PROVE  InTurn'
  <2>1. OneReader' /\ LastOnMenu'
    BY <1>1, <1>4 DEF InTurn, OneReader, LastOnMenu, EffectsOf, InEffect, Menu!Later, Menu!Leaves
  <2>2. \A i \in DOMAIN change : change[i].effective \in Nat
    BY <1>2, MenuRequests DEF ChangeRecords
  <2>3. \A i \in DOMAIN change : change[i].effective <= day => change[i].effective <= day'
    BY <1>1, <1>2, <2>2
  <2>4. AppliedFirst'
    BY <1>1, <1>4, <2>3 DEF InTurn, AppliedFirst, InEffect, Approved, Menu!Later
  <2>5. ListedFirst'
    BY <1>1, <1>2, <1>4, <2>3 DEF InTurn, ListedFirst, Approved, MenuTypes
  <2> QED BY <2>1, <2>4, <2>5 DEF InTurn
<1> QED BY <1>1, <1>3, <1>4 DEF MenuInv

(* A reader applies the first of what it has listed: it comes after all that *)
(* was applied before, and before all that is still to come.                *)
LEMMA ApplyNextKeeps ==
  ASSUME MenuInv, NEW r \in Readers, Menu!ApplyNext(r)
  PROVE  MenuInv'
<1>1. MenuTypes
  BY DEF MenuInv
<1>2. PICK i : i = Menu!FirstOf(due[r])
  OBVIOUS
<1>3. /\ due[r] # {} /\ menu' = [menu EXCEPT ![change[i].item] = Menu!Leaves(i)]
      /\ change' = [change EXCEPT ![i].status = "applied"]
      /\ due' = [due EXCEPT ![r] = @ \ {i}]
      /\ UNCHANGED <<at, ask, day, pending, crossed>>
  BY <1>2 DEF Menu!ApplyNext, Menu!requestVars
<1>4. /\ i \in due[r] /\ i \in DOMAIN change /\ \A j \in due[r] \ {i} : Menu!Later(j, i)
  BY <1>1, <1>2, <1>3, FirstIsFirst DEF MenuTypes
<1>5. PICK q \in ChangeRecords : q = [change[i] EXCEPT !.status = "applied"]
  BY <1>1, <1>4, MenuRequests DEF ChangeRecords
<1>6. /\ q.status = "applied" /\ q.effective = change[i].effective /\ q.item = change[i].item
      /\ q.act = change[i].act /\ q.price = change[i].price
  BY <1>1, <1>4, <1>5, MenuRequests DEF ChangeRecords
<1>7. change' = [change EXCEPT ![i] = q]
  BY <1>3, <1>5
<1>8. /\ change' \in Seq(ChangeRecords) /\ DOMAIN change' = DOMAIN change
      /\ change'[i] = q /\ \A j \in DOMAIN change \ {i} : change'[j] = change[j]
  BY <1>1, <1>4, <1>7, OneDecided
<1>9. due'[r] = due[r] \ {i} /\ \A x \in Readers \ {r} : due'[x] = due[x]
  BY <1>1, <1>3 DEF MenuTypes
<1>10. MenuTypes'
  <2>1. menu' = [it \in Items |-> menu'[it]] /\ due' = [x \in Readers |-> due'[x]]
    BY <1>1, <1>3 DEF MenuTypes
  <2>2. \A x \in Readers : due'[x] \subseteq DOMAIN change'
    BY <1>1, <1>8, <1>9 DEF MenuTypes
  <2>3. /\ day' \in Nat /\ pending' = [d \in Menu!ListingPages |-> pending'[d]]
        /\ \A d \in Menu!ListingPages : pending'[d] \subseteq DOMAIN change'
        /\ at' = [d \in DeskPages |-> at'[d]] /\ ask' = [d \in DeskPages |-> ask'[d]]
        /\ \A d \in DeskPages : at'[d] = "asking" => ask'[d] \in MenuAsks
    BY <1>1, <1>3, <1>8 DEF MenuTypes
  <2> QED BY <1>8, <2>1, <2>2, <2>3 DEF MenuTypes
<1>11. ASSUME InTurn
       PROVE  InTurn'
  <2>1. OneReader /\ AppliedFirst /\ ListedFirst /\ LastOnMenu
    BY <1>11 DEF InTurn
  <2>2. Approved(i) /\ change[i].effective <= day /\ change[i].effective \in Nat
    BY <1>1, <1>4, <2>1, MenuRequests DEF ListedFirst, ChangeRecords
  <2>3. \A j \in DOMAIN change : change'[j].effective = change[j].effective /\ change[j].effective \in Nat
    BY <1>1, <1>6, <1>8, MenuRequests DEF ChangeRecords
  <2>4. \A j, k \in DOMAIN change : Menu!Later(j, k)' <=> Menu!Later(j, k)
    BY <2>3 DEF Menu!Later
  <2>5. \A j \in DOMAIN change : /\ Approved(j)' <=> j # i /\ Approved(j)
                                 /\ InEffect(j)' <=> j = i \/ InEffect(j)
    BY <1>6, <1>8 DEF Approved, InEffect
  <2>6. \A j \in DOMAIN change : Approved(j) /\ j # i => Menu!Later(j, i)
    <3> SUFFICES ASSUME NEW j \in DOMAIN change, Approved(j), j # i
                 PROVE  Menu!Later(j, i)
      OBVIOUS
    <3>1. CASE j \in due[r]
      BY <1>4, <3>1
    <3>2. CASE j \notin due[r]
      BY <1>4, <2>1, <3>2 DEF ListedFirst, Menu!Later
    <3> QED BY <3>1, <3>2
  <2>7. OneReader'
    BY <1>9, <2>1 DEF OneReader
  <2>8. AppliedFirst'
    <3>1. ASSUME NEW j \in DOMAIN change, InEffect(j)'
          PROVE  /\ change'[j].effective <= day
                 /\ \A k \in DOMAIN change : Approved(k)' => Menu!Later(k, j)'
      BY <2>1, <2>2, <2>3, <2>4, <2>5, <2>6, <3>1 DEF AppliedFirst
    <3> QED BY <1>3, <1>8, <3>1 DEF AppliedFirst
  <2>9. ListedFirst'
    <3> SUFFICES ASSUME NEW x \in Readers, NEW j \in due'[x]
                 PROVE  /\ Approved(j)' /\ change'[j].effective <= day
                        /\ \A k \in DOMAIN change \ due'[x] :
                             Approved(k)' => change'[k].effective > change'[j].effective
      BY <1>3, <1>8 DEF ListedFirst
    <3>1. x = r /\ j \in due[r] /\ j # i
      BY <1>3, <1>9, <2>1 DEF OneReader
    <3>2. Approved(j) /\ change[j].effective <= day /\ j \in DOMAIN change
      BY <1>1, <2>1, <3>1 DEF ListedFirst, MenuTypes
    <3>3. ASSUME NEW k \in DOMAIN change \ due'[x], Approved(k)'
          PROVE  change'[k].effective > change'[j].effective
      <4>1. k # i /\ Approved(k) /\ k \in DOMAIN change \ due[r]
        BY <1>9, <2>5, <3>1, <3>3
      <4> QED BY <2>1, <2>3, <3>1, <3>2, <4>1 DEF ListedFirst
    <3> QED BY <2>3, <2>5, <3>1, <3>2, <3>3
  <2>10. LastOnMenu'
    <3> SUFFICES ASSUME NEW it \in Items
                 PROVE  \/ EffectsOf(it)' = {} /\ menu'[it] = 0
                        \/ \E j \in EffectsOf(it)' : /\ \A k \in EffectsOf(it)' \ {j} : Menu!Later(j, k)'
                                                     /\ menu'[it] = Menu!Leaves(j)'
      BY DEF LastOnMenu
    <3>1. \A j \in DOMAIN change : change'[j].item = change[j].item /\ Menu!Leaves(j)' = Menu!Leaves(j)
      BY <1>6, <1>8 DEF Menu!Leaves
    <3>2. CASE it = change[i].item
      <4>1. EffectsOf(it)' = EffectsOf(it) \cup {i}
        BY <1>4, <1>8, <2>5, <3>1, <3>2 DEF EffectsOf
      <4>2. menu'[it] = Menu!Leaves(i)
        BY <1>1, <1>3, <3>2 DEF MenuTypes
      <4>3. \A k \in EffectsOf(it) : Menu!Later(i, k)
        BY <1>4, <2>1, <2>2 DEF AppliedFirst, EffectsOf
      <4> QED BY <1>4, <2>4, <3>1, <4>1, <4>2, <4>3 DEF EffectsOf
    <3>3. CASE it # change[i].item
      <4>1. EffectsOf(it)' = EffectsOf(it)
        BY <1>8, <2>5, <3>1, <3>3 DEF EffectsOf
      <4>2. menu'[it] = menu[it]
        BY <1>1, <1>3, <3>3 DEF MenuTypes
      <4>3. EffectsOf(it) \subseteq DOMAIN change
        BY DEF EffectsOf
      <4> QED BY <2>1, <2>4, <3>1, <4>1, <4>2, <4>3 DEF LastOnMenu
    <3> QED BY <3>2, <3>3
  <2> QED BY <2>7, <2>8, <2>9, <2>10 DEF InTurn
<1> QED BY <1>3, <1>10, <1>11 DEF MenuInv

(* A page of the menu moves: it asks for nothing, or with a request of its. *)
LEMMA MenuPageMoves ==
  ASSUME MenuTypes, NEW d \in Menu!MenuPages, NEW where, NEW x,
         at' = [at EXCEPT ![d] = where], ask' = [ask EXCEPT ![d] = x],
         where = "asking" => x \in MenuAsks
  PROVE  /\ at' = [e \in DeskPages |-> at'[e]] /\ ask' = [e \in DeskPages |-> ask'[e]]
         /\ \A e \in DeskPages : at'[e] = "asking" => ask'[e] \in MenuAsks
<1>1. d \in DeskPages
  BY MenuRequests
<1>2. /\ at' = [e \in DeskPages |-> IF e = d THEN where ELSE at[e]]
      /\ ask' = [e \in DeskPages |-> IF e = d THEN x ELSE ask[e]]
  BY <1>1 DEF MenuTypes
<1>3. \A e \in DeskPages : at[e] = "asking" => ask[e] \in MenuAsks
  BY DEF MenuTypes
<1> QED BY <1>2, <1>3

(* It asks for nothing, whatever request its row may hold.                  *)
LEMMA MenuPageStays ==
  ASSUME MenuTypes, NEW d \in Menu!MenuPages, NEW where, where # "asking",
         at' = [at EXCEPT ![d] = where], UNCHANGED ask
  PROVE  /\ at' = [e \in DeskPages |-> at'[e]] /\ ask' = [e \in DeskPages |-> ask'[e]]
         /\ \A e \in DeskPages : at'[e] = "asking" => ask'[e] \in MenuAsks
<1>1. d \in DeskPages
  BY MenuRequests
<1>2. at' = [e \in DeskPages |-> IF e = d THEN where ELSE at[e]]
  BY <1>1 DEF MenuTypes
<1> QED BY <1>2 DEF MenuTypes

LEMMA MenuReadsKeep ==
  ASSUME MenuInv, NEW d \in Menu!MenuPages,
         Menu!Open(d) \/ Menu!Close(d) \/ Menu!Refresh(d) \/ Menu!RefreshFails(d)
  PROVE  MenuInv'
<1>1. MenuTypes
  BY DEF MenuInv
<1>2. UNCHANGED <<day, menu, change, due, crossed>>
  BY DEF Menu!Open, Menu!Close, Menu!Refresh, Menu!RefreshFails, Menu!menuVars, Menu!readVars
<1>3. \E where : where # "asking" /\ at' = [at EXCEPT ![d] = where] /\ UNCHANGED ask
  BY DEF Menu!Open, Menu!Close, Menu!Refresh, Menu!RefreshFails, Menu!Opens, Menu!Shuts, Menu!Reads,
         Menu!ReadsNothing
<1>4. /\ at' = [e \in DeskPages |-> at'[e]] /\ ask' = [e \in DeskPages |-> ask'[e]]
      /\ \A e \in DeskPages : at'[e] = "asking" => ask'[e] \in MenuAsks
  BY <1>1, <1>3, MenuPageStays
<1>5. /\ pending' = [e \in Menu!ListingPages |-> pending'[e]]
      /\ \A e \in Menu!ListingPages : pending'[e] \subseteq DOMAIN change
  <2>1. CASE UNCHANGED pending
    BY <1>1, <2>1 DEF MenuTypes
  <2>2. CASE \E S \in SUBSET DOMAIN change : Menu!Lists(d, S)
    <3>1. PICK S \in SUBSET DOMAIN change :
             pending' = [e \in Menu!ListingPages |-> IF e = d THEN S ELSE pending[e]]
      BY <2>2 DEF Menu!Lists
    <3> QED BY <1>1, <3>1 DEF MenuTypes
  <2>3. {} \in SUBSET DOMAIN change /\ {i \in DOMAIN change : Menu!Undecided(i)} \in SUBSET DOMAIN change
    OBVIOUS
  <2> QED BY <2>1, <2>2, <2>3 DEF Menu!Open, Menu!Close, Menu!Refresh, Menu!RefreshFails, Menu!menuVars
<1>6. MenuTypes'
  BY <1>1, <1>2, <1>4, <1>5 DEF MenuTypes
<1> QED BY <1>2, <1>6, SameMenu

LEMMA MenuPressesKeep ==
  ASSUME MenuInv,
         \/ \E d \in Editors : Menu!Submit(d)
         \/ \E d \in Histories : Menu!Withdraw(d)
         \/ \E d \in Reviewers : Menu!Review(d)
  PROVE  MenuInv'
<1>1. MenuTypes
  BY DEF MenuInv
<1>2. \E d \in Menu!MenuPages, x \in MenuAsks :
        at' = [at EXCEPT ![d] = "asking"] /\ ask' = [ask EXCEPT ![d] = x]
  <2>1. CASE \E d \in Editors : Menu!Submit(d)
    BY <2>1 DEF Menu!Submit, Menu!Presses, MenuAsks, Menu!MenuPages
  <2>2. CASE \E d \in Histories : Menu!Withdraw(d)
    <3> PICK d \in Histories : Menu!Withdraw(d)
      BY <2>2
    <3>1. PICK i \in pending[d] :
            Menu!Presses(d, [what |-> "withdraw", id |-> i, timed |-> FALSE, now |-> 0])
      BY DEF Menu!Withdraw, Menu!Press
    <3>2. i \in Nat /\ d \in Menu!MenuPages
      BY <1>1, <3>1, MenuRequests DEF MenuTypes, Menu!ListingPages, Menu!MenuPages
    <3>3. [what |-> "withdraw", id |-> i, timed |-> FALSE, now |-> 0] \in MenuAsks
      BY <3>2 DEF MenuAsks
    <3> QED BY <3>1, <3>2, <3>3 DEF Menu!Presses
  <2>3. CASE \E d \in Reviewers : Menu!Review(d)
    <3> PICK d \in Reviewers : Menu!Review(d)
      BY <2>3
    <3>1. PICK i \in pending[d], w \in {"approve", "reject"} :
            Menu!Presses(d, [what |-> w, id |-> i, timed |-> FALSE, now |-> 0])
      BY DEF Menu!Review, Menu!Press
    <3>2. i \in Nat /\ d \in Menu!MenuPages
      BY <1>1, <3>1, MenuRequests DEF MenuTypes, Menu!ListingPages, Menu!MenuPages
    <3>3. [what |-> w, id |-> i, timed |-> FALSE, now |-> 0] \in MenuAsks
      BY <3>1, <3>2 DEF MenuAsks
    <3> QED BY <3>1, <3>2, <3>3 DEF Menu!Presses
  <2> QED BY <2>1, <2>2, <2>3
<1>3. /\ at' = [e \in DeskPages |-> at'[e]] /\ ask' = [e \in DeskPages |-> ask'[e]]
      /\ \A e \in DeskPages : at'[e] = "asking" => ask'[e] \in MenuAsks
  BY <1>1, <1>2, MenuPageMoves
<1>4. UNCHANGED <<day, menu, change, pending, due, crossed>>
  BY DEF Menu!Submit, Menu!Withdraw, Menu!Review, Menu!Press, Menu!menuVars, Menu!readVars
<1>5. MenuTypes'
  BY <1>1, <1>3, <1>4 DEF MenuTypes
<1> QED BY <1>4, <1>5, SameMenu

(* What a request does to the requests for a change, if it is served.       *)
LEMMA EffectOfOne ==
  ASSUME MenuTypes, NEW x \in MenuAsks, Menu!Acceptable(x), Menu!Effect(x)
  PROVE  /\ change' \in Seq(ChangeRecords)
         /\ \/ change' = change
            \/ \E i : /\ DOMAIN change' = DOMAIN change \cup {i}
                      /\ i \in DOMAIN change => change[i].status = "pending"
                      /\ \A j \in DOMAIN change \ {i} : change'[j] = change[j]
                      /\ change'[i].status # "applied"
                      /\ change'[i].status = "approved" =>
                           Menu!PastMidnight(x) \/ change'[i].effective = day + 1
<1>1. change \in Seq(ChangeRecords) /\ day \in Nat
  BY DEF MenuTypes
<1>2. CASE x.what = "submit"
  <2>1. x.act \in Menu!Actions /\ x.item \in Items /\ x.price \in Prices \cup {0}
    BY <1>2 DEF MenuAsks, Menu!Drafts
  <2>2. PICK q \in ChangeRecords :
          q = [act |-> x.act, item |-> x.item, price |-> x.price, status |-> "pending", effective |-> 0]
    BY <2>1 DEF ChangeRecords
  <2>3. change' = Append(change, q) /\ q.status = "pending"
    BY <1>2, <2>2 DEF Menu!Effect, Menu!Create
  <2>4. /\ change' \in Seq(ChangeRecords) /\ DOMAIN change' = DOMAIN change \cup {Len(change) + 1}
        /\ Len(change) + 1 \notin DOMAIN change
        /\ change'[Len(change) + 1] = q /\ \A j \in DOMAIN change : change'[j] = change[j]
    BY <2>3, OneAsked
  <2> QED BY <2>3, <2>4
<1>3. CASE x.what # "submit"
  <2>1. x.what \in {"withdraw", "approve", "reject"}
    BY <1>3 DEF MenuAsks, Menu!Drafts
  <2>2. PICK i : i = x.id
    OBVIOUS
  <2>0. x.now \in Nat
    BY <1>3 DEF MenuAsks, Menu!Drafts
  <2>3. PICK s \in {"withdrawn", "approved", "rejected"}, n \in Nat :
          /\ change' = [change EXCEPT ![i].status = s, ![i].effective = n]
          /\ s = "approved" => Menu!PastMidnight(x) \/ n = day + 1
    <3>1. CASE x.what = "withdraw"
      BY <1>1, <2>0, <2>2, <3>1 DEF Menu!Effect, Menu!Decide, Menu!NextMidnight, Menu!PastMidnight
    <3>2. CASE x.what = "approve"
      <4>1. PICK n \in Nat : n = x.now + 1
        BY <2>0
      <4>2. change' = [change EXCEPT ![i].status = "approved", ![i].effective = n]
        BY <2>2, <3>2, <4>1 DEF Menu!Effect, Menu!Decide, Menu!NextMidnight
      <4>3. Menu!PastMidnight(x) \/ n = day + 1
        BY <3>2, <4>1 DEF Menu!PastMidnight
      <4> QED BY <4>2, <4>3
    <3>3. CASE x.what = "reject"
      BY <1>1, <2>0, <2>2, <3>3 DEF Menu!Effect, Menu!Decide, Menu!NextMidnight, Menu!PastMidnight
    <3> QED BY <2>1, <3>1, <3>2, <3>3
  <2>4. CASE i \notin DOMAIN change
    <3>1. change' = change
      BY <1>1, <2>3, <2>4
    <3> QED BY <1>1, <3>1
  <2>5. CASE i \in DOMAIN change
    <3>1. change[i] \in ChangeRecords /\ change[i].status = "pending"
      BY <1>3, <2>2, <2>5, MenuRequests DEF Menu!Acceptable, Menu!Undecided
    <3>3. PICK q : q = [change[i] EXCEPT !.status = s, !.effective = n]
      OBVIOUS
    <3>4. q \in ChangeRecords /\ q.status = s /\ q.effective = n
      BY <2>3, <3>1, <3>3 DEF ChangeRecords
    <3>5. change' = [change EXCEPT ![i] = q]
      BY <1>1, <2>3, <2>5, <3>3
    <3>6. /\ change' \in Seq(ChangeRecords) /\ DOMAIN change' = DOMAIN change
          /\ change'[i] = q /\ \A j \in DOMAIN change \ {i} : change'[j] = change[j]
      BY <2>5, <3>4, <3>5, OneDecided
    <3>7. /\ DOMAIN change' = DOMAIN change \cup {i}
          /\ change'[i].status # "applied"
          /\ change'[i].status = "approved" =>
               Menu!PastMidnight(x) \/ change'[i].effective = day + 1
      BY <2>3, <2>5, <3>4, <3>6
    <3> QED BY <3>1, <3>6, <3>7
  <2> QED BY <2>4, <2>5
<1> QED BY <1>2, <1>3

LEMMA MenuAnswersKeep ==
  ASSUME MenuInv, NEW d \in Menu!MenuPages, Menu!Serve(d) \/ Menu!Refuse(d) \/ Menu!Unserved(d)
  PROVE  MenuInv'
<1>1. MenuTypes /\ d \in DeskPages
  BY MenuRequests DEF MenuInv
<1>2. /\ at[d] = "asking"
      /\ \E where : where # "asking" /\ at' = [at EXCEPT ![d] = where] /\ ask' = [ask EXCEPT ![d] = Menu!NoAsk]
  BY DEF Menu!Serve, Menu!Refuse, Menu!Unserved, Menu!Ends
<1>3. /\ at' = [e \in DeskPages |-> at'[e]] /\ ask' = [e \in DeskPages |-> ask'[e]]
      /\ \A e \in DeskPages : at'[e] = "asking" => ask'[e] \in MenuAsks
  BY <1>1, <1>2, MenuPageMoves
<1>4. UNCHANGED <<day, menu, pending, due>>
  BY DEF Menu!Serve, Menu!Refuse, Menu!Unserved, Menu!menuVars, Menu!readVars
<1>5. CASE UNCHANGED <<change, crossed>>
  <2>1. MenuTypes'
    BY <1>1, <1>3, <1>4, <1>5 DEF MenuTypes
  <2> QED BY <1>4, <1>5, <2>1, SameMenu
<1>6. CASE Menu!Serve(d)
  <2>1. PICK x \in MenuAsks : x = ask[d]
    BY <1>1, <1>2 DEF MenuTypes
  <2>2. Menu!Acceptable(x) /\ Menu!Effect(x) /\ crossed' = (crossed \/ Menu!PastMidnight(x))
    BY <1>6, <2>1 DEF Menu!Serve
  <2>3. CASE \E i : /\ DOMAIN change' = DOMAIN change \cup {i}
                    /\ i \in DOMAIN change => change[i].status = "pending"
                    /\ \A j \in DOMAIN change \ {i} : change'[j] = change[j]
                    /\ change'[i].status # "applied"
                    /\ change'[i].status = "approved" =>
                         Menu!PastMidnight(x) \/ change'[i].effective = day + 1
    <3>1. change' \in Seq(ChangeRecords)
      BY <1>1, <2>2, EffectOfOne
    <3>2. MenuTypes'
      BY <1>1, <1>3, <1>4, <2>3, <3>1 DEF MenuTypes
    <3>3. crossed => crossed'
      BY <2>2
    <3>4. PICK i : /\ DOMAIN change' = DOMAIN change \cup {i}
                   /\ i \in DOMAIN change => change[i].status = "pending"
                   /\ \A j \in DOMAIN change \ {i} : change'[j] = change[j]
                   /\ change'[i].status # "applied"
                   /\ change'[i].status = "approved" => crossed' \/ change'[i].effective = day + 1
      BY <2>2, <2>3
    <3> QED BY <1>4, <3>2, <3>3, <3>4, DecisionKeeps
  <2>4. CASE UNCHANGED change
    <3>1. MenuTypes'
      BY <1>1, <1>3, <1>4, <2>4 DEF MenuTypes
    <3>2. crossed => crossed'
      BY <2>2
    <3> QED BY <1>4, <2>4, <3>1, <3>2, SameMenu
  <2> QED BY <1>1, <2>2, <2>3, <2>4, EffectOfOne
<1> QED BY <1>5, <1>6 DEF Menu!Serve, Menu!Refuse, Menu!Unserved, Menu!menuVars, Menu!readVars

(* The handler of an approval looks at the clock.                           *)
LEMMA ClockKeeps ==
  ASSUME MenuInv, NEW d \in Reviewers, Menu!LooksAtClock(d)
  PROVE  MenuInv'
<1>1. MenuTypes /\ d \in Menu!MenuPages
  BY DEF MenuInv, Menu!MenuPages, Menu!ListingPages
<1>2. d \in DeskPages
  BY <1>1, MenuRequests
<1>3. /\ at[d] = "asking" /\ ask[d].what = "approve" /\ UNCHANGED at
      /\ ask' = [ask EXCEPT ![d].timed = TRUE, ![d].now = day]
      /\ UNCHANGED <<day, menu, change, pending, due, crossed>>
  BY DEF Menu!LooksAtClock, Menu!menuVars, Menu!readVars
<1>4. PICK x : x = [ask[d] EXCEPT !.timed = TRUE, !.now = day]
  OBVIOUS
<1>5. x \in MenuAsks
  <2>1. ask[d] \in MenuAsks /\ day \in Nat
    BY <1>1, <1>2, <1>3 DEF MenuTypes
  <2>2. ask[d] \in [what : {"withdraw", "approve", "reject"}, id : Nat, timed : BOOLEAN, now : Nat]
    BY <1>3, <2>1 DEF MenuAsks, Menu!Drafts
  <2> QED BY <1>4, <2>1, <2>2 DEF MenuAsks
<1>6. at' = [at EXCEPT ![d] = "asking"] /\ ask' = [ask EXCEPT ![d] = x]
  BY <1>1, <1>2, <1>3, <1>4 DEF MenuTypes
<1>7. /\ at' = [e \in DeskPages |-> at'[e]] /\ ask' = [e \in DeskPages |-> ask'[e]]
      /\ \A e \in DeskPages : at'[e] = "asking" => ask'[e] \in MenuAsks
  BY <1>1, <1>5, <1>6, MenuPageMoves
<1>8. MenuTypes'
  BY <1>1, <1>3, <1>7 DEF MenuTypes
<1> QED BY <1>3, <1>8, SameMenu

LEMMA MenuStepsKeep ==
  ASSUME MenuInv, [Menu!Next]_(Menu!vars)
  PROVE  MenuInv'
<1>1. CASE UNCHANGED Menu!vars
  BY <1>1, SameMenu DEF Menu!vars, Menu!requestVars, Menu!menuVars, Menu!readVars, MenuInv, MenuTypes, InTurn, OneReader,
       AppliedFirst, ListedFirst, LastOnMenu, EffectsOf, InEffect, Approved, Menu!Later, Menu!Leaves
<1>2. CASE \E r \in Readers : Menu!ListDue(r) \/ Menu!ApplyNext(r) \/ Menu!Stops(r)
  BY <1>2, ListDueKeeps, ApplyNextKeeps, StopsKeeps
<1>3. CASE Menu!Midnight
  BY <1>3, MidnightKeeps
<1>4. CASE \/ \E d \in Editors : Menu!Submit(d)
           \/ \E d \in Histories : Menu!Withdraw(d)
           \/ \E d \in Reviewers : Menu!Review(d)
  BY <1>4, MenuPressesKeep
<1>5. CASE \E d \in Menu!MenuPages : \/ Menu!Open(d) \/ Menu!Close(d) \/ Menu!Refresh(d)
                                     \/ Menu!RefreshFails(d)
  BY <1>5, MenuReadsKeep
<1>6. CASE \E d \in Menu!MenuPages : Menu!Serve(d) \/ Menu!Refuse(d) \/ Menu!Unserved(d)
  BY <1>6, MenuAnswersKeep
<1>7. CASE \E d \in Reviewers : Menu!LooksAtClock(d)
  BY <1>7, ClockKeeps
<1> QED BY <1>1, <1>2, <1>3, <1>4, <1>5, <1>6, <1>7 DEF Menu!Next

LEMMA MenuBegins ==
  ASSUME Menu!Init
  PROVE  MenuInv
<1>1. /\ day = 0 /\ change = <<>> /\ menu = [it \in Items |-> 0] /\ due = [r \in Readers |-> {}]
      /\ pending = [d \in Menu!ListingPages |-> {}]
      /\ at = [d \in DeskPages |-> "shut"] /\ ask = [d \in DeskPages |-> Menu!NoAsk]
  BY DEF Menu!Init, Menu!RequestsInit
<1>2. DOMAIN change = {} /\ change \in Seq(ChangeRecords)
  BY <1>1
<1>3. MenuTypes
  BY <1>1, <1>2 DEF MenuTypes
<1>4. \A it \in Items : EffectsOf(it) = {}
  BY <1>2 DEF EffectsOf
<1>5. InTurn
  BY <1>1, <1>2, <1>4 DEF InTurn, OneReader, AppliedFirst, ListedFirst, LastOnMenu
<1> QED BY <1>3, <1>5 DEF MenuInv

(* The last change there is is the only one after all the others.           *)
LEMMA MenuFollowsLast ==
  ASSUME MenuInv
  PROVE  MenuIsTheLog
<1> SUFFICES ASSUME ~crossed, NEW it \in Items
             PROVE  menu[it] = IF EffectsOf(it) = {} THEN 0 ELSE Menu!Leaves(Menu!LastOf(EffectsOf(it)))
  BY DEF MenuIsTheLog, Menu!MenuIsTheLog, Menu!MenuInOrder, EffectsOf, InEffect
<1>1. LastOnMenu /\ MenuTypes
  BY DEF MenuInv, InTurn
<1>2. CASE EffectsOf(it) = {}
  BY <1>1, <1>2 DEF LastOnMenu
<1>3. CASE EffectsOf(it) # {}
  <2>1. PICK i \in EffectsOf(it) : /\ \A j \in EffectsOf(it) \ {i} : Menu!Later(i, j)
                                   /\ menu[it] = Menu!Leaves(i)
    BY <1>1, <1>3 DEF LastOnMenu
  <2>2. PICK k : k = Menu!LastOf(EffectsOf(it))
    OBVIOUS
  <2>3. k \in EffectsOf(it) /\ \A j \in EffectsOf(it) \ {k} : Menu!Later(k, j)
    BY <2>1, <2>2 DEF Menu!LastOf
  <2>4. /\ i \in Nat /\ k \in Nat /\ change[i].effective \in Nat /\ change[k].effective \in Nat
    BY <1>1, <2>1, <2>3, MenuRequests DEF EffectsOf, ChangeRecords
  <2>5. i = k
    BY <2>1, <2>3, <2>4 DEF Menu!Later
  <2> QED BY <1>3, <2>1, <2>2, <2>5
<1> QED BY <1>2, <1>3

(* The menu is what the changes that took effect leave in the order of their *)
(* midnights and ids, unless two readers of menus were at work at once or   *)
(* an approval was written after the midnight it was meant for: with any    *)
(* number of readers that stop halfway, of tabs and of admins who decide    *)
(* from lists read earlier (ApplyScheduledMenuChangeRequests,               *)
(* handleAdminReviewMenuChange).                                            *)
THEOREM MenuAlwaysIsTheLog == Menu!Spec => []MenuIsTheLog
<1>1. Menu!Init => MenuInv
  BY MenuBegins
<1>2. MenuInv /\ [Menu!Next]_(Menu!vars) => MenuInv'
  BY MenuStepsKeep
<1>3. MenuInv => MenuIsTheLog
  BY MenuFollowsLast
<1> QED BY <1>1, <1>2, <1>3, PTL DEF Menu!Spec

----------------------------------------------------------------------------
(* The shops of an owner (ShopProfile).                                     *)

ShopRecords ==
  [wallet : Wallets \cup {LoginWallet, Shop!NoWallet}, asked : BOOLEAN, delisted : BOOLEAN]

(* A request to change the wallet brings one, a review a verdict.           *)
FitToAsk(x) ==
  /\ x.what = "wallet" => x.wallet \in Wallets
  /\ x.what = "review" => x.approve \in BOOLEAN

ShopTypes ==
  /\ shops = [s \in DOMAIN shops |-> shops[s]] /\ DOMAIN shops \subseteq Ids
  /\ \A s \in DOMAIN shops : shops[s] \in ShopRecords

PagesFit ==
  /\ at = [d \in DeskPages |-> at[d]] /\ ask = [d \in DeskPages |-> ask[d]]
  /\ \A d \in DeskPages : at[d] = "asking" => FitToAsk(ask[d])

OneOpenShop ==
  /\ \A s \in Shop!Open \ returned : shops[s].wallet # Shop!NoWallet
  /\ \A s, t \in Shop!Open \ (returned \cup extra) : s = t

(* A save that will make a shop and was not overtaken has looked for an open *)
(* shop, and there is still none.                                           *)
ToMake(a, q) == a = "asking" /\ q.found /\ q.what = "save" /\ q.on = Shop!Nothing
StillNone ==
  /\ overtaken \subseteq Profiles
  /\ \A p \in overtaken : at[p] = "asking" /\ ask[p].found
  /\ \A p \in Profiles : ToMake(at[p], ask[p]) /\ p \notin overtaken => Shop!Open = {}

ShopInv == ShopTypes /\ PagesFit /\ OneOpenShop /\ StillNone

LEMMA Least == \A S : S \subseteq Nat /\ S # {} => \E m \in S : \A n \in S : m <= n
<1> SUFFICES ASSUME NEW S, S \subseteq Nat, S # {}
             PROVE  \E m \in S : \A n \in S : m <= n
  OBVIOUS
<1>1. PICK less : less = OpToRel(<, Nat)
  OBVIOUS
<1>2. PICK m \in S : \A n \in S : ~(<<n, m>> \in less)
  BY <1>1, NatLessThanWellFounded, WFMin
<1>3. \A n \in S : n < m => <<n, m>> \in less
  BY <1>1 DEF OpToRel
<1>4. ASSUME NEW n \in S
      PROVE  m <= n
  <2>1. m \in Int /\ n \in Int
    OBVIOUS
  <2>2. ~(n < m)
    BY <1>2, <1>3, Zenon
  <2> QED BY ONLY <2>1, <2>2
<1> QED BY <1>4

LEMMA ShopPagesAreDesks ==
  /\ Shop!ShopPages \subseteq DeskPages /\ Profiles \subseteq DeskPages
  /\ Shop!NoWallet \notin Wallets \cup {LoginWallet}
  /\ Ids \subseteq Nat \ {Shop!Nothing}
BY DesksAssumption DEF Shop!ShopPages

(* The server finds no open shop only if there is none.                     *)
LEMMA NothingIsNone ==
  ASSUME ShopTypes, Shop!First(Shop!Open) = Shop!Nothing
  PROVE  Shop!Open = {}
<1>1. Shop!Open \subseteq Ids
  BY DEF ShopTypes, Shop!Open, Shop!Owned
<1>2. SUFFICES ASSUME Shop!Open # {}
               PROVE  FALSE
  OBVIOUS
<1>3. \E m \in Shop!Open : \A n \in Shop!Open : m <= n
  BY <1>1, <1>2, Least, ShopPagesAreDesks
<1>4. Shop!Min(Shop!Open) \in Shop!Open
  BY <1>3 DEF Shop!Min
<1> QED BY <1>1, <1>2, <1>4, ShopPagesAreDesks DEF Shop!First

(* One shop is written over, if there is one.                               *)
LEMMA OneShop ==
  ASSUME ShopTypes, NEW i, NEW r, i \in DOMAIN shops => r \in ShopRecords,
         shops' = [shops EXCEPT ![i] = r]
  PROVE  /\ shops' = [s \in DOMAIN shops' |-> shops'[s]] /\ DOMAIN shops' = DOMAIN shops
         /\ \A s \in DOMAIN shops' : shops'[s] \in ShopRecords
         /\ \A s \in DOMAIN shops \ {i} : shops'[s] = shops[s]
         /\ i \in DOMAIN shops => shops'[i] = r
<1> HIDE DEF ShopRecords
<1>1. shops' = [s \in DOMAIN shops |-> IF s = i THEN r ELSE shops[s]]
  BY DEF ShopTypes
<1>2. \A s \in DOMAIN shops : shops[s] \in ShopRecords
  BY DEF ShopTypes
<1> QED BY <1>1, <1>2

(* A page of the shops moves, and asks for nothing.                         *)
LEMMA ShopPageMoves ==
  ASSUME PagesFit, NEW d \in DeskPages, NEW where, where # "asking",
         at' = [at EXCEPT ![d] = where], UNCHANGED ask \/ ask' = [ask EXCEPT ![d] = Shop!NoAsk]
  PROVE  /\ PagesFit' /\ at'[d] # "asking"
         /\ \A e \in DeskPages \ {d} : at'[e] = at[e] /\ ask'[e] = ask[e]
<1>2. at' = [e \in DeskPages |-> IF e = d THEN where ELSE at[e]]
  BY DEF PagesFit
<1>3. \/ ask' = [e \in DeskPages |-> IF e = d THEN Shop!NoAsk ELSE ask[e]]
      \/ ask' = ask
  BY DEF PagesFit
<1>4. /\ \A e \in DeskPages : at[e] = "asking" => FitToAsk(ask[e])
      /\ ask = [e \in DeskPages |-> ask[e]]
  BY DEF PagesFit
<1>5. \A e \in DeskPages \ {d} : at'[e] = at[e] /\ ask'[e] = ask[e]
  BY <1>2, <1>3
<1>6. at' = [e \in DeskPages |-> at'[e]] /\ ask' = [e \in DeskPages |-> ask'[e]] /\ at'[d] # "asking"
  BY <1>2, <1>3, <1>4
<1>7. \A e \in DeskPages : at'[e] = "asking" => FitToAsk(ask'[e])
  BY <1>4, <1>5, <1>6
<1> QED BY <1>5, <1>6, <1>7 DEF PagesFit, FitToAsk

(* What is open is what the shops say.                                      *)
LEMMA OpenIsSaid ==
  /\ \A s : s \in Shop!Open <=> s \in DOMAIN shops /\ ~shops[s].delisted /\ ~shops[s].asked
  /\ \A s : s \in Shop!Open' <=> s \in DOMAIN shops' /\ ~shops'[s].delisted /\ ~shops'[s].asked
BY DEF Shop!Open, Shop!Owned

(* The steps that touch no shop.                                            *)
LEMMA ShopsUntouched ==
  ASSUME ShopInv, UNCHANGED <<shops, returned, extra>>, NEW d \in Shop!ShopPages,
         \/ at[d] # "asking" /\ UNCHANGED overtaken
         \/ overtaken' = overtaken \ {d},
         \E where : where # "asking" /\ at' = [at EXCEPT ![d] = where]
                    /\ (UNCHANGED ask \/ ask' = [ask EXCEPT ![d] = Shop!NoAsk])
  PROVE  ShopInv'
<1>1. d \in DeskPages /\ ShopTypes /\ PagesFit /\ OneOpenShop /\ StillNone
  BY ShopPagesAreDesks DEF ShopInv
<1>2. /\ PagesFit' /\ at'[d] # "asking"
      /\ \A e \in DeskPages \ {d} : at'[e] = at[e] /\ ask'[e] = ask[e]
  BY <1>1, ShopPageMoves
<1>3. ShopTypes'
  BY <1>1 DEF ShopTypes, ShopRecords
<1>4. Shop!Open' = Shop!Open
  BY DEF Shop!Open, Shop!Owned
<1>5. OneOpenShop'
  BY <1>1, <1>4 DEF OneOpenShop
<1>6. overtaken \subseteq Profiles /\ overtaken' \subseteq overtaken
  BY <1>1 DEF StillNone
<1>7. StillNone'
  <2>1. ASSUME NEW p \in overtaken'
        PROVE  at'[p] = "asking" /\ ask'[p].found
    <3>1. p \in overtaken /\ p # d
      BY <1>1, <2>1 DEF StillNone
    <3>2. at'[p] = at[p] /\ ask'[p] = ask[p]
      BY <1>2, <1>6, <3>1, ShopPagesAreDesks
    <3> QED BY <1>1, <3>1, <3>2 DEF StillNone
  <2>2. ASSUME NEW p \in Profiles, ToMake(at'[p], ask'[p]), p \notin overtaken'
        PROVE  Shop!Open' = {}
    <3>1. p # d /\ p \in DeskPages
      BY <1>2, <2>2, ShopPagesAreDesks DEF ToMake
    <3>2. at'[p] = at[p] /\ ask'[p] = ask[p] /\ p \notin overtaken
      BY <1>2, <2>2, <3>1
    <3> QED BY <1>1, <1>4, <2>2, <3>2 DEF StillNone
  <2> QED BY <1>6, <2>1, <2>2 DEF StillNone, ToMake
<1> QED BY <1>2, <1>3, <1>5, <1>7 DEF ShopInv

(* A page asks for x, or what it asks for becomes x: its request has not    *)
(* found its shop before, and if it has now, it found none only if none is  *)
(* open.                                                                    *)
LEMMA ShopAsks ==
  ASSUME ShopInv, NEW d \in Shop!ShopPages, NEW x, FitToAsk(x),
         UNCHANGED <<shops, returned, extra, overtaken>>,
         at' = [at EXCEPT ![d] = "asking"], ask' = [ask EXCEPT ![d] = x],
         at[d] = "asking" => ~ask[d].found,
         ToMake("asking", x) => Shop!Open = {}
  PROVE  ShopInv'
<1>1. d \in DeskPages /\ ShopTypes /\ PagesFit /\ OneOpenShop /\ StillNone
  BY ShopPagesAreDesks DEF ShopInv
<1>2. /\ at' = [e \in DeskPages |-> IF e = d THEN "asking" ELSE at[e]]
      /\ ask' = [e \in DeskPages |-> IF e = d THEN x ELSE ask[e]]
  BY <1>1 DEF PagesFit
<1>3. \A e \in DeskPages \ {d} : at'[e] = at[e] /\ ask'[e] = ask[e]
  BY <1>2
<1>4. at'[d] = "asking" /\ ask'[d] = x
  BY <1>1, <1>2
<1>5. \A e \in DeskPages : at[e] = "asking" => FitToAsk(ask[e])
  BY <1>1 DEF PagesFit
<1>6. \A e \in DeskPages : at'[e] = "asking" => FitToAsk(ask'[e])
  BY <1>3, <1>4, <1>5
<1>7. at' = [e \in DeskPages |-> at'[e]] /\ ask' = [e \in DeskPages |-> ask'[e]]
  BY <1>2
<1>8. PagesFit'
  BY <1>6, <1>7 DEF PagesFit, FitToAsk
<1>9. ShopTypes'
  BY <1>1 DEF ShopTypes, ShopRecords
<1>10. Shop!Open' = Shop!Open
  BY DEF Shop!Open, Shop!Owned
<1>11. OneOpenShop'
  BY <1>1, <1>10 DEF OneOpenShop
<1>12. overtaken \subseteq Profiles /\ overtaken' = overtaken
  BY <1>1 DEF StillNone
<1>13. StillNone'
  <2>1. ASSUME NEW p \in overtaken'
        PROVE  at'[p] = "asking" /\ ask'[p].found
    <3>1. p \in overtaken /\ at[p] = "asking" /\ ask[p].found /\ p # d
      <4>1. p \in overtaken /\ at[p] = "asking" /\ ask[p].found
        BY <1>1, <2>1 DEF StillNone
      <4> QED BY <4>1
    <3>2. at'[p] = at[p] /\ ask'[p] = ask[p]
      BY <1>3, <1>12, <3>1, ShopPagesAreDesks
    <3> QED BY <3>1, <3>2
  <2>2. ASSUME NEW p \in Profiles, ToMake(at'[p], ask'[p]), p \notin overtaken'
        PROVE  Shop!Open' = {}
    <3>1. CASE p = d
      BY <1>4, <1>10, <2>2, <3>1
    <3>2. CASE p # d
      <4>1. at'[p] = at[p] /\ ask'[p] = ask[p] /\ p \notin overtaken
        BY <1>3, <2>2, <3>2, ShopPagesAreDesks
      <4> QED BY <1>1, <1>10, <2>2, <4>1 DEF StillNone
    <3> QED BY <3>1, <3>2
  <2> QED BY <1>12, <2>1, <2>2 DEF StillNone, ToMake
<1> QED BY <1>8, <1>9, <1>11, <1>13 DEF ShopInv

(* A button is pressed.                                                     *)
LEMMA ShopPressed ==
  ASSUME ShopInv, NEW d \in Shop!ShopPages, NEW x, Shop!Press(d, x), FitToAsk(x),
         x.what = "review" \/ ~x.found
  PROVE  ShopInv'
<1>1. /\ at[d] = "idle"
      /\ at' = [at EXCEPT ![d] = "asking"] /\ ask' = [ask EXCEPT ![d] = x]
      /\ UNCHANGED <<shops, returned, extra, overtaken>>
  BY DEF Shop!Press, Shop!Presses, Shop!shopVars, Shop!shopHistory
<1> QED BY <1>1, ShopAsks DEF ToMake

(* The server finds the shop of a request.                                  *)
LEMMA ShopFound ==
  ASSUME ShopInv, NEW d \in Profiles, Shop!Find(d)
  PROVE  ShopInv'
<1>1. d \in Shop!ShopPages /\ d \in DeskPages /\ ShopTypes /\ PagesFit
  BY ShopPagesAreDesks DEF ShopInv, Shop!ShopPages
<1>2. PICK s : s = Shop!Target(ask[d].what)
  OBVIOUS
<1>3. PICK x : x = [ask[d] EXCEPT !.found = TRUE, !.on = s]
  OBVIOUS
<1>4. /\ at[d] = "asking" /\ ~ask[d].found /\ UNCHANGED at
      /\ ask' = [ask EXCEPT ![d].found = TRUE, ![d].on = s]
      /\ UNCHANGED <<shops, returned, extra, overtaken>>
  BY <1>2 DEF Shop!Find, Shop!shopVars, Shop!shopHistory
<1>5. ask' = [ask EXCEPT ![d] = x] /\ at' = [at EXCEPT ![d] = "asking"]
  BY <1>1, <1>3, <1>4 DEF PagesFit
<1>6. FitToAsk(ask[d])
  BY <1>1, <1>4 DEF PagesFit
<1>7. x.what = ask[d].what /\ x.wallet = ask[d].wallet /\ x.approve = ask[d].approve
  BY <1>3
<1>8. FitToAsk(x)
  BY <1>6, <1>7 DEF FitToAsk
<1>9. ToMake("asking", x) => Shop!Open = {}
  BY <1>1, <1>2, <1>3, NothingIsNone DEF ToMake, Shop!Target
<1> QED BY <1>1, <1>4, <1>5, <1>8, <1>9, ShopAsks

(* The shops changed: every other request that has found its shop is        *)
(* overtaken.                                                               *)
LEMMA OthersOvertaken ==
  ASSUME PagesFit, NEW D, D \subseteq DeskPages, Shop!Overtakes(D),
         \A e \in DeskPages \ D : at'[e] = at[e] /\ ask'[e] = ask[e],
         \A d \in D : at'[d] # "asking"
  PROVE  StillNone'
<1>1. overtaken' = {p \in Profiles \ D : at[p] = "asking" /\ ask[p].found}
  BY DEF Shop!Overtakes
<1>2. \A p \in Profiles \ D : at'[p] = at[p] /\ ask'[p] = ask[p]
  BY ShopPagesAreDesks
<1>3. overtaken' \subseteq Profiles /\ \A p \in overtaken' : at'[p] = "asking" /\ ask'[p].found
  BY <1>1, <1>2
<1>4. \A p \in Profiles : ToMake(at'[p], ask'[p]) => p \in overtaken'
  BY <1>1, <1>2 DEF ToMake
<1> QED BY <1>3, <1>4 DEF StillNone, ToMake

(* A page's request is served: the page is idle or reads, and the others    *)
(* that have found their shops are overtaken.                               *)
LEMMA ShopServed ==
  ASSUME PagesFit, NEW d \in Shop!ShopPages, NEW where, where # "asking", Shop!Ends(d, where),
         Shop!Overtakes({d})
  PROVE  PagesFit' /\ StillNone'
<1>1. d \in DeskPages /\ at' = [at EXCEPT ![d] = where] /\ ask' = [ask EXCEPT ![d] = Shop!NoAsk]
  BY ShopPagesAreDesks DEF Shop!Ends
<1>2. /\ PagesFit' /\ at'[d] # "asking"
      /\ \A e \in DeskPages \ {d} : at'[e] = at[e] /\ ask'[e] = ask[e]
  BY <1>1, ShopPageMoves
<1>3. StillNone'
  <2>1. PICK D : D = {d}
    OBVIOUS
  <2>2. /\ D \subseteq DeskPages /\ Shop!Overtakes(D) /\ \A e \in D : at'[e] # "asking"
        /\ \A e \in DeskPages \ D : at'[e] = at[e] /\ ask'[e] = ask[e]
    BY <1>1, <1>2, <2>1
  <2> QED BY <2>2, OthersOvertaken
<1> QED BY <1>2, <1>3

(* One shop is changed: it stays open with a wallet, or is not open after,  *)
(* or is opened again because its request was returned.                     *)
LEMMA ShopChanged ==
  ASSUME ShopTypes, OneOpenShop, NEW i, NEW r, i \in DOMAIN shops => r \in ShopRecords,
         shops' = [shops EXCEPT ![i] = r], UNCHANGED extra,
         i \in DOMAIN shops =>
           \/ /\ r.asked = shops[i].asked /\ r.delisted = shops[i].delisted
              /\ r.wallet # Shop!NoWallet /\ returned' = returned
           \/ (r.asked \/ r.delisted) /\ returned' = returned
           \/ returned' = returned \cup {i},
         i \notin DOMAIN shops => returned \subseteq returned'
  PROVE  ShopTypes' /\ OneOpenShop'
<1>2. /\ shops' = [s \in DOMAIN shops' |-> shops'[s]] /\ DOMAIN shops' = DOMAIN shops
      /\ \A s \in DOMAIN shops' : shops'[s] \in ShopRecords
      /\ \A s \in DOMAIN shops \ {i} : shops'[s] = shops[s]
      /\ i \in DOMAIN shops => shops'[i] = r
  BY OneShop
<1>3. ShopTypes'
  BY <1>2 DEF ShopTypes, ShopRecords
<1>4. /\ \A s : s \in Shop!Open <=> s \in DOMAIN shops /\ ~shops[s].delisted /\ ~shops[s].asked
      /\ \A s : s \in Shop!Open' <=> s \in DOMAIN shops' /\ ~shops'[s].delisted /\ ~shops'[s].asked
  BY OpenIsSaid
<1>5. CASE i \notin DOMAIN shops
  <2>1. Shop!Open' = Shop!Open /\ \A s \in Shop!Open : shops'[s] = shops[s]
    BY <1>2, <1>4, <1>5
  <2> QED BY <1>3, <1>5, <2>1 DEF OneOpenShop
<1>6. CASE i \in DOMAIN shops
  <2>1. \A s \in Shop!Open' \ {i} : s \in Shop!Open /\ shops'[s] = shops[s]
    BY <1>2, <1>4
  <2>2. CASE /\ r.asked = shops[i].asked /\ r.delisted = shops[i].delisted
             /\ r.wallet # Shop!NoWallet /\ returned' = returned
    <3>1. \A s : s \in Shop!Open' <=> s \in Shop!Open
      <4>1. \A s \in DOMAIN shops : /\ shops'[s].asked = shops[s].asked
                                   /\ shops'[s].delisted = shops[s].delisted
        BY <1>2, <1>6, <2>2
      <4> QED BY <1>2, <1>4, <4>1
    <3> QED BY <1>2, <1>3, <1>6, <2>1, <2>2, <3>1 DEF OneOpenShop
  <2>3. CASE (r.asked \/ r.delisted) /\ returned' = returned
    <3>1. i \notin Shop!Open'
      BY <1>2, <1>4, <1>6, <2>3
    <3> QED BY <1>3, <2>1, <2>3, <3>1 DEF OneOpenShop
  <2>4. CASE returned' = returned \cup {i}
    BY <1>3, <2>1, <2>4 DEF OneOpenShop
  <2> QED BY <1>6, <2>2, <2>3, <2>4
<1> QED BY <1>5, <1>6

(* A shop comes to the owner: none was open, or it is an extra one.         *)
LEMMA ShopAdded ==
  ASSUME ShopTypes, OneOpenShop, NEW i \in Ids \ DOMAIN shops,
         shops' = [s \in DOMAIN shops \cup {i} |->
                     IF s = i THEN [Shop!NoShop EXCEPT !.wallet = LoginWallet] ELSE shops[s]],
         UNCHANGED returned, (Shop!Open = {} /\ extra' = extra) \/ extra' = extra \cup {i}
  PROVE  ShopTypes' /\ OneOpenShop'
<1>1. PICK r : r = [Shop!NoShop EXCEPT !.wallet = LoginWallet]
  OBVIOUS
<1>2. r \in ShopRecords /\ r.wallet = LoginWallet /\ ~r.asked /\ ~r.delisted
  BY <1>1 DEF Shop!NoShop, ShopRecords
<1> HIDE DEF ShopRecords
<1>3. /\ DOMAIN shops' = DOMAIN shops \cup {i} /\ shops'[i] = r
      /\ shops' = [s \in DOMAIN shops' |-> shops'[s]]
      /\ \A s \in DOMAIN shops : shops'[s] = shops[s]
  BY <1>1
<1>4. \A s \in DOMAIN shops' : shops'[s] \in ShopRecords
  BY <1>2, <1>3 DEF ShopTypes
<1>5. ShopTypes'
  BY <1>3, <1>4 DEF ShopTypes, ShopRecords
<1>6. \A s \in Shop!Open' : \/ s = i
                            \/ s \in Shop!Open /\ s \in DOMAIN shops /\ shops'[s] = shops[s]
  BY <1>3, OpenIsSaid
<1>7. \A s \in Shop!Open' \ returned' : shops'[s].wallet # Shop!NoWallet
  BY <1>2, <1>3, <1>6, ShopPagesAreDesks DEF OneOpenShop
<1>8. \A s, t \in Shop!Open' \ (returned' \cup extra') : s = t
  BY <1>6 DEF OneOpenShop
<1> QED BY <1>5, <1>7, <1>8 DEF OneOpenShop

LEMMA ShopServesSave ==
  ASSUME ShopInv, NEW d \in Profiles, Shop!ServeSave(d)
  PROVE  ShopInv'
<1>1. ShopTypes /\ PagesFit /\ OneOpenShop /\ StillNone /\ d \in Shop!ShopPages
  BY DEF ShopInv, Shop!ShopPages
<1>2. /\ at[d] = "asking" /\ ask[d].what = "save" /\ ask[d].found
      /\ Shop!Ends(d, "idle") /\ Shop!Overtakes({d}) /\ UNCHANGED returned
  BY DEF Shop!ServeSave, Shop!Served, Shop!AskedFor, Shop!Answer
<1>3. PagesFit' /\ StillNone'
  BY <1>1, <1>2, ShopServed
<1>4. CASE ask[d].on = Shop!Nothing
  <2>1. PICK i : /\ Shop!SaveAsNew(i)
                 /\ extra' = IF d \in overtaken THEN extra \cup {i} ELSE extra
    BY <1>4 DEF Shop!ServeSave
  <2>2. /\ i \in Ids \ DOMAIN shops
        /\ shops' = [s \in DOMAIN shops \cup {i} |->
                       IF s = i THEN [Shop!NoShop EXCEPT !.wallet = LoginWallet] ELSE shops[s]]
    BY <2>1 DEF Shop!SaveAsNew, Shop!Owned
  <2>3. d \notin overtaken => Shop!Open = {}
    BY <1>1, <1>2, <1>4 DEF StillNone, ToMake
  <2>4. ShopTypes' /\ OneOpenShop'
    BY <1>1, <1>2, <2>1, <2>2, <2>3, ShopAdded
  <2> QED BY <1>3, <2>4 DEF ShopInv
<1>5. CASE ask[d].on # Shop!Nothing
  <2>1. PICK i : i = ask[d].on
    OBVIOUS
  <2>2. shops' = [shops EXCEPT ![i].wallet = LoginWallet] /\ UNCHANGED extra
    BY <1>5, <2>1 DEF Shop!ServeSave, Shop!Rewire
  <2>3. PICK r : r = [shops[i] EXCEPT !.wallet = LoginWallet]
    OBVIOUS
  <2>4. i \in DOMAIN shops => /\ r \in ShopRecords /\ r.asked = shops[i].asked
                              /\ r.delisted = shops[i].delisted /\ r.wallet = LoginWallet
    BY <1>1, <2>3 DEF ShopTypes, ShopRecords
  <2>5. shops' = [shops EXCEPT ![i] = r] /\ LoginWallet # Shop!NoWallet
    BY <2>2, <2>3, ShopPagesAreDesks
  <2>6. ShopTypes' /\ OneOpenShop'
    BY <1>1, <1>2, <2>2, <2>4, <2>5, ShopChanged
  <2> QED BY <1>3, <2>6 DEF ShopInv
<1> QED BY <1>4, <1>5

LEMMA ShopServesOthers ==
  ASSUME ShopInv, NEW d \in Profiles, Shop!ServeWallet(d) \/ Shop!ServeUnlink(d) \/ Shop!ServeCancel(d)
  PROVE  ShopInv'
<1>1. ShopTypes /\ PagesFit /\ OneOpenShop /\ d \in Shop!ShopPages /\ d \in DeskPages
  BY ShopPagesAreDesks DEF ShopInv, Shop!ShopPages
<1>2. at[d] = "asking" /\ Shop!Ends(d, "idle") /\ Shop!Overtakes({d}) /\ UNCHANGED extra
  BY DEF Shop!ServeWallet, Shop!ServeUnlink, Shop!ServeCancel, Shop!Answer, Shop!Served, Shop!AskedFor
<1>3. PagesFit' /\ StillNone'
  BY <1>1, <1>2, ShopServed
<1>4. PICK i : i = ask[d].on
  OBVIOUS
<1>5. CASE Shop!ServeWallet(d)
  <2>1. PICK w \in Wallets : w = ask[d].wallet
    BY <1>1, <1>5 DEF Shop!ServeWallet, Shop!Served, Shop!AskedFor, PagesFit, FitToAsk
  <2>3. shops' = [shops EXCEPT ![i].wallet = w] /\ UNCHANGED returned
    BY <1>4, <1>5, <2>1 DEF Shop!ServeWallet, Shop!Rewire
  <2>4. PICK r : r = [shops[i] EXCEPT !.wallet = w]
    OBVIOUS
  <2>5. i \in DOMAIN shops => /\ r \in ShopRecords /\ r.asked = shops[i].asked
                              /\ r.delisted = shops[i].delisted /\ r.wallet = w
    BY <1>1, <2>4 DEF ShopTypes, ShopRecords
  <2>6. shops' = [shops EXCEPT ![i] = r] /\ w # Shop!NoWallet
    BY <2>3, <2>4, ShopPagesAreDesks
  <2>7. ShopTypes' /\ OneOpenShop'
    BY <1>1, <1>2, <2>3, <2>5, <2>6, ShopChanged
  <2> QED BY <1>3, <2>7 DEF ShopInv
<1>6. CASE Shop!ServeUnlink(d)
  <2>3. /\ shops' = [shops EXCEPT ![i].wallet = Shop!NoWallet, ![i].asked = TRUE] /\ UNCHANGED returned
    BY <1>4, <1>6 DEF Shop!ServeUnlink, Shop!Unlink
  <2>4. PICK r : r = [shops[i] EXCEPT !.wallet = Shop!NoWallet, !.asked = TRUE]
    OBVIOUS
  <2>5. i \in DOMAIN shops => r \in ShopRecords /\ r.asked
    BY <1>1, <2>4 DEF ShopTypes, ShopRecords
  <2>6. shops' = [shops EXCEPT ![i] = r]
    BY <1>1, <2>3, <2>4 DEF ShopTypes
  <2>7. ShopTypes' /\ OneOpenShop'
    BY <1>1, <1>2, <2>3, <2>5, <2>6, ShopChanged
  <2> QED BY <1>3, <2>7 DEF ShopInv
<1>7. CASE Shop!ServeCancel(d)
  <2>3. shops' = [shops EXCEPT ![i].asked = FALSE] /\ returned' = returned \cup {i}
    BY <1>4, <1>7 DEF Shop!ServeCancel, Shop!Cancel
  <2>4. PICK r : r = [shops[i] EXCEPT !.asked = FALSE]
    OBVIOUS
  <2>5. i \in DOMAIN shops => r \in ShopRecords
    BY <1>1, <2>4 DEF ShopTypes, ShopRecords
  <2>6. shops' = [shops EXCEPT ![i] = r]
    BY <2>3, <2>4
  <2>7. ShopTypes' /\ OneOpenShop'
    BY <1>1, <1>2, <2>3, <2>5, <2>6, ShopChanged
  <2> QED BY <1>3, <2>7 DEF ShopInv
<1> QED BY <1>5, <1>6, <1>7

LEMMA ShopServesReview ==
  ASSUME ShopInv, NEW d \in Delisters, Shop!ServeReview(d)
  PROVE  ShopInv'
<1>1. ShopTypes /\ PagesFit /\ OneOpenShop /\ d \in Shop!ShopPages /\ d \in DeskPages
  BY ShopPagesAreDesks DEF ShopInv, Shop!ShopPages
<1>2. PagesFit' /\ StillNone'
  <2>1. PICK where \in {"reading", "idle"} : Shop!Ends(d, where)
    BY DEF Shop!ServeReview
  <2>2. where # "asking" /\ Shop!Overtakes({d})
    BY DEF Shop!ServeReview
  <2> QED BY <1>1, <2>1, <2>2, ShopServed
<1>3. PICK a \in BOOLEAN : a = ask[d].approve
  BY <1>1 DEF Shop!ServeReview, Shop!AskedFor, PagesFit, FitToAsk
<1>4. PICK i : i = ask[d].on
  OBVIOUS
<1>5. /\ shops' = [shops EXCEPT ![i].asked = FALSE, ![i].delisted = a] /\ UNCHANGED extra
      /\ returned' = IF a THEN returned ELSE returned \cup {i}
  BY <1>3, <1>4 DEF Shop!ServeReview, Shop!Decide
<1>6. PICK r : r = [shops[i] EXCEPT !.asked = FALSE, !.delisted = a]
  OBVIOUS
<1>7. i \in DOMAIN shops => r \in ShopRecords /\ r.delisted = a
  BY <1>1, <1>3, <1>6 DEF ShopTypes, ShopRecords
<1>8. shops' = [shops EXCEPT ![i] = r]
  BY <1>1, <1>5, <1>6 DEF ShopTypes
<1>9. ShopTypes' /\ OneOpenShop'
  <2>1. CASE a
    BY <1>1, <1>5, <1>7, <1>8, <2>1, ShopChanged
  <2>2. CASE ~a
    BY <1>1, <1>5, <1>7, <1>8, <2>2, ShopChanged
  <2> QED BY <2>1, <2>2
<1> QED BY <1>2, <1>9 DEF ShopInv

(* What the owner asks without a page.                                      *)
LEMMA ShopAskedDirectly ==
  ASSUME ShopInv, \/ \E s \in Ids : Shop!ClaimMerchant(s)
                  \/ Shop!RequestMerchantDelist
  PROVE  ShopInv'
<1>1. ShopTypes /\ PagesFit /\ OneOpenShop
  BY DEF ShopInv
<1>2. UNCHANGED <<at, ask, returned>> /\ Shop!Overtakes({})
  BY DEF Shop!ClaimMerchant, Shop!RequestMerchantDelist, Shop!requestVars
<1>3. PagesFit'
  BY <1>1, <1>2 DEF PagesFit, FitToAsk
<1>4. StillNone'
  <2>1. PICK D : D = {}
    OBVIOUS
  <2>2. /\ D \subseteq DeskPages /\ Shop!Overtakes(D) /\ \A d \in D : at'[d] # "asking"
        /\ \A e \in DeskPages \ D : at'[e] = at[e] /\ ask'[e] = ask[e]
    BY <1>2, <2>1
  <2> QED BY <1>1, <2>2, OthersOvertaken
<1>5. ASSUME NEW s \in Ids, Shop!ClaimMerchant(s)
      PROVE  ShopTypes' /\ OneOpenShop'
  <2>1. /\ shops' = [t \in DOMAIN shops \cup {s} |->
                       IF t \in DOMAIN shops
                       THEN [shops[t] EXCEPT !.wallet = IF t = s THEN LoginWallet ELSE @]
                       ELSE [Shop!NoShop EXCEPT !.wallet = LoginWallet]]
        /\ extra' = IF s \in DOMAIN shops THEN extra ELSE extra \cup {s}
    BY <1>5 DEF Shop!ClaimMerchant, Shop!Owned
  <2>2. \A t \in DOMAIN shops : [shops[t] EXCEPT !.wallet = @] = shops[t]
    BY <1>1 DEF ShopTypes, ShopRecords
  <2>3. CASE s \in DOMAIN shops
    <3>1. PICK r : r = [shops[s] EXCEPT !.wallet = LoginWallet]
      OBVIOUS
    <3>2. /\ r \in ShopRecords /\ r.asked = shops[s].asked
          /\ r.delisted = shops[s].delisted /\ r.wallet = LoginWallet
      BY <1>1, <2>3, <3>1 DEF ShopTypes, ShopRecords
    <3>3. shops' = [shops EXCEPT ![s] = r]
      <4>1. DOMAIN shops \cup {s} = DOMAIN shops
        BY <2>3
      <4>2. shops' = [t \in DOMAIN shops |-> IF t = s THEN r ELSE shops[t]]
        <5>1. ASSUME NEW t \in DOMAIN shops
              PROVE  [shops[t] EXCEPT !.wallet = IF t = s THEN LoginWallet ELSE @]
                     = IF t = s THEN r ELSE shops[t]
          BY <2>2, <3>1
        <5> QED BY <2>1, <4>1, <5>1
      <4> QED BY <1>1, <4>2 DEF ShopTypes
    <3>4. UNCHANGED extra /\ LoginWallet # Shop!NoWallet
      BY <2>1, <2>3, ShopPagesAreDesks
    <3> QED BY <1>1, <1>2, <3>2, <3>3, <3>4, ShopChanged
  <2>4. CASE s \notin DOMAIN shops
    <3>1. ASSUME NEW t \in DOMAIN shops
          PROVE  [shops[t] EXCEPT !.wallet = IF t = s THEN LoginWallet ELSE @] = shops[t]
      BY <2>2, <2>4
    <3>2. shops' = [t \in DOMAIN shops \cup {s} |->
                      IF t = s THEN [Shop!NoShop EXCEPT !.wallet = LoginWallet] ELSE shops[t]]
      BY <2>1, <2>4, <3>1
    <3> QED BY <1>1, <1>2, <2>1, <2>4, <3>2, ShopAdded
  <2> QED BY <2>3, <2>4
<1>6. ASSUME Shop!RequestMerchantDelist
      PROVE  ShopTypes' /\ OneOpenShop'
  <2>1. PICK i : i = Shop!First(Shop!Owned)
    OBVIOUS
  <2>2. shops' = [shops EXCEPT ![i].asked = TRUE] /\ UNCHANGED extra
    BY <1>6, <2>1 DEF Shop!RequestMerchantDelist
  <2>3. PICK r : r = [shops[i] EXCEPT !.asked = TRUE]
    OBVIOUS
  <2>4. i \in DOMAIN shops => r \in ShopRecords /\ r.asked
    BY <1>1, <2>3 DEF ShopTypes, ShopRecords
  <2>5. shops' = [shops EXCEPT ![i] = r]
    BY <2>2, <2>3
  <2> QED BY <1>1, <1>2, <2>2, <2>4, <2>5, ShopChanged
<1> QED BY <1>3, <1>4, <1>5, <1>6 DEF ShopInv

LEMMA ShopStepsKeep ==
  ASSUME ShopInv, [Shop!Next]_(Shop!vars)
  PROVE  ShopInv'
<1>1. CASE UNCHANGED Shop!vars
  <2>1. UNCHANGED <<at, ask, shops, returned, overtaken, extra>>
    BY <1>1 DEF Shop!vars, Shop!requestVars, Shop!shopVars, Shop!shopHistory
  <2>2. ShopTypes' /\ PagesFit'
    BY <2>1 DEF ShopInv, ShopTypes, PagesFit, ShopRecords, FitToAsk
  <2>3. Shop!Open' = Shop!Open
    BY <2>1 DEF Shop!Open, Shop!Owned
  <2>4. OneOpenShop' /\ StillNone'
    BY <2>1, <2>3 DEF ShopInv, OneOpenShop, StillNone, ToMake
  <2> QED BY <2>2, <2>4 DEF ShopInv
<1>2. ASSUME NEW d \in Profiles,
             Shop!ServeSave(d) \/ Shop!ServeWallet(d) \/ Shop!ServeUnlink(d) \/ Shop!ServeCancel(d)
      PROVE  ShopInv'
  BY <1>2, ShopServesSave, ShopServesOthers
<1>3. ASSUME NEW d \in Delisters, Shop!ServeReview(d)
      PROVE  ShopInv'
  BY <1>3, ShopServesReview
<1>4. ASSUME NEW d \in Profiles, Shop!OpenProfile(d) \/ Shop!ReadProfile(d)
      PROVE  ShopInv'
  <2>1. \E where : where # "asking" /\ at' = [at EXCEPT ![d] = where] /\ UNCHANGED ask
    BY <1>4 DEF Shop!OpenProfile, Shop!ReadProfile, Shop!Opens, Shop!Reads
  <2>2. /\ UNCHANGED <<shops, returned, extra, overtaken>> /\ d \in Shop!ShopPages
        /\ at[d] # "asking"
    BY <1>4 DEF Shop!OpenProfile, Shop!ReadProfile, Shop!ShopPages, Shop!shopHistory, Shop!Opens,
         Shop!Reads, Shop!Reading
  <2> QED BY <2>1, <2>2, ShopsUntouched
<1>5. ASSUME NEW d \in Profiles, Shop!PressSave(d) \/ Shop!PressUnlink(d) \/ Shop!PressCancel(d)
      PROVE  ShopInv'
  <2>1. \E w \in {"save", "unlink", "cancel"} :
          Shop!Press(d, [what |-> w, found |-> FALSE, on |-> Shop!Nothing])
    BY <1>5 DEF Shop!PressSave, Shop!PressUnlink, Shop!PressCancel, Shop!Plain
  <2>2. PICK x : Shop!Press(d, x) /\ FitToAsk(x) /\ ~x.found
    BY <2>1 DEF FitToAsk
  <2>3. d \in Shop!ShopPages
    BY DEF Shop!ShopPages
  <2> QED BY <2>2, <2>3, ShopPressed
<1>6. ASSUME NEW d \in Profiles, Shop!PressWallet(d)
      PROVE  ShopInv'
  <2>1. PICK x : Shop!Press(d, x) /\ FitToAsk(x) /\ ~x.found
    BY <1>6 DEF Shop!PressWallet, FitToAsk
  <2>2. d \in Shop!ShopPages
    BY DEF Shop!ShopPages
  <2> QED BY <2>1, <2>2, ShopPressed
<1>7. ASSUME NEW d \in Delisters, Shop!OpenDelists(d) \/ Shop!ReadDelists(d)
      PROVE  ShopInv'
  <2>1. \E where : where # "asking" /\ at' = [at EXCEPT ![d] = where] /\ UNCHANGED ask
    BY <1>7 DEF Shop!OpenDelists, Shop!ReadDelists, Shop!Opens, Shop!Reads
  <2>2. /\ UNCHANGED <<shops, returned, extra, overtaken>> /\ d \in Shop!ShopPages
        /\ at[d] # "asking"
    BY <1>7 DEF Shop!OpenDelists, Shop!ReadDelists, Shop!ShopPages, Shop!shopHistory, Shop!Opens,
         Shop!Reads, Shop!Reading
  <2> QED BY <2>1, <2>2, ShopsUntouched
<1>8. ASSUME NEW d \in Delisters, Shop!PressReview(d)
      PROVE  ShopInv'
  <2>1. PICK x : Shop!Press(d, x) /\ FitToAsk(x) /\ x.what = "review"
    <3>1. PICK s \in listed[d], a \in BOOLEAN : Shop!Press(d, [what |-> "review", on |-> s, approve |-> a])
      BY <1>8 DEF Shop!PressReview
    <3> QED BY <3>1 DEF FitToAsk
  <2>2. d \in Shop!ShopPages
    BY DEF Shop!ShopPages
  <2> QED BY <2>1, <2>2, ShopPressed
<1>9. ASSUME NEW d \in Shop!ShopPages, Shop!ReadFails(d) \/ Shop!Close(d) \/ Shop!Fails(d)
      PROVE  ShopInv'
  <2>1. \E where : where # "asking" /\ at' = [at EXCEPT ![d] = where]
                   /\ (UNCHANGED ask \/ ask' = [ask EXCEPT ![d] = Shop!NoAsk])
    BY <1>9 DEF Shop!ReadFails, Shop!Close, Shop!Fails, Shop!Reads, Shop!ReadsNothing, Shop!Shuts, Shop!Ends
  <2>2. /\ UNCHANGED <<shops, returned, extra>>
        /\ \/ at[d] # "asking" /\ UNCHANGED overtaken
           \/ overtaken' = overtaken \ {d}
    BY <1>9 DEF Shop!ReadFails, Shop!Close, Shop!Fails, Shop!shopVars, Shop!shopHistory, Shop!Reads,
         Shop!ReadsNothing, Shop!Shuts, Shop!Reading
  <2> QED BY <2>1, <2>2, ShopsUntouched
<1>10. ASSUME NEW d \in Profiles, Shop!Find(d)
       PROVE  ShopInv'
  BY <1>10, ShopFound
<1>11. ASSUME \/ \E s \in Ids : Shop!ClaimMerchant(s)
              \/ Shop!RequestMerchantDelist
       PROVE  ShopInv'
  BY <1>11, ShopAskedDirectly
<1> QED BY <1>1, <1>2, <1>3, <1>4, <1>5, <1>6, <1>7, <1>8, <1>9, <1>10, <1>11 DEF Shop!Next

(* A shop that members can order from has a payout wallet, unless its       *)
(* request to be delisted was taken back or rejected; and beside those, the *)
(* claimed ones and those made by a save that another request overtook      *)
(* between its two statements, its owner has one: with any number of tabs   *)
(* of the owner and of admins (UpsertOwnedMerchantProfile,                  *)
(* UnlinkOwnedMerchant, CancelMerchantDelist, ClaimMerchant,                *)
(* ReviewMerchantDelist).                                                   *)
THEOREM OpenShopsStayWhole == Shop!Spec => []OpenShopsAreWhole
<1>1. Shop!Init => ShopInv
  <2> SUFFICES ASSUME Shop!Init
               PROVE  ShopInv
    OBVIOUS
  <2>1. /\ shops = [s \in {} |-> Shop!NoShop] /\ returned = {} /\ overtaken = {}
        /\ at = [d \in DeskPages |-> "shut"] /\ ask = [d \in DeskPages |-> Shop!NoAsk]
    BY DEF Shop!Init, Shop!RequestsInit
  <2>2. DOMAIN shops = {}
    BY <2>1
  <2>3. ShopTypes /\ PagesFit
    BY <2>1, <2>2 DEF ShopTypes, PagesFit
  <2>4. OneOpenShop /\ StillNone
    BY <2>1, <2>2, ShopPagesAreDesks DEF OneOpenShop, StillNone, Shop!Open, Shop!Owned
  <2> QED BY <2>3, <2>4 DEF ShopInv
<1>2. ShopInv /\ [Shop!Next]_(Shop!vars) => ShopInv'
  BY ShopStepsKeep
<1>3. ShopInv => OpenShopsAreWhole
  <2> SUFFICES ASSUME ShopInv
               PROVE  OpenShopsAreWhole
    OBVIOUS
  <2>1. OneOpenShop
    BY DEF ShopInv
  <2>2. PICK S : S = Shop!Open \ (returned \cup extra)
    OBVIOUS
  <2>3. Cardinality(S) <= 1
    <3>1. CASE S = {}
      BY <3>1, FS_EmptySet
    <3>2. CASE S # {}
      <4>1. PICK s : s \in S
        BY <3>2
      <4>2. S = {s}
        BY <2>1, <2>2, <4>1 DEF OneOpenShop
      <4>3. Cardinality({s}) = 1
        BY FS_Singleton
      <4> QED BY <4>2, <4>3
    <3> QED BY <3>1, <3>2
  <2>4. Shop!Cardinality(S) = Cardinality(S)
    BY DEF Shop!Cardinality, Cardinality
  <2> QED BY <2>1, <2>2, <2>3, <2>4 DEF OneOpenShop, OpenShopsAreWhole, Shop!OpenShopsAreWhole
<1> QED BY <1>1, <1>2, <1>3, PTL DEF Shop!Spec

----------------------------------------------------------------------------
(* The platform's settings (PlatformSettings).                              *)

(* A page's copy agrees with the parameters on what was not edited there.   *)
Agrees(c, p, fields) ==
  /\ c.fee = p.fee \/ "fee" \in fields
  /\ c.minutes = p.minutes \/ "minutes" \in fields
  /\ c.options = p.options \/ "options" \in fields
  /\ c.delay = p.delay \/ "delay" \in fields
  /\ c.enabled = p.enabled \/ "enabled" \in fields

SettingsTypes ==
  /\ params \in Platform!Params /\ params.minutes \in params.options /\ saves \in Nat
  /\ copy = [d \in Platform!SettingsPages |-> copy[d]]
  /\ edited = [d \in Platform!SettingsPages |-> edited[d]]
  /\ base = [d \in Platform!SettingsPages |-> base[d]]
  /\ at = [d \in DeskPages |-> at[d]] /\ ask = [d \in DeskPages |-> ask[d]]

(* What a page holds, and what it asks for.                                 *)
PageHolds(d) ==
  /\ copy[d] \in Platform!Params \cup {Platform!NoCopy} /\ base[d] \in 0..saves
  /\ "minutes" \in edited[d] => "options" \in edited[d]
  /\ copy[d] # Platform!NoCopy /\ base[d] = saves => Agrees(copy[d], params, edited[d])
  /\ at[d] = "asking" => /\ copy[d] # Platform!NoCopy
                         /\ ask[d].params = Platform!WithDefault(copy[d])

SettingsInv == SettingsTypes /\ \A d \in Platform!SettingsPages : PageHolds(d)

LEMMA SettingsPagesAreDesks == Platform!SettingsPages \subseteq DeskPages
BY DesksAssumption

LEMMA DefaultIsOffered ==
  ASSUME NEW p \in Platform!Params
  PROVE  /\ Platform!WithDefault(p) \in Platform!Params
         /\ Platform!WithDefault(p).minutes \in Platform!WithDefault(p).options
         /\ Platform!WithDefault(p).minutes = p.minutes /\ Platform!WithDefault(p).fee = p.fee
         /\ Platform!WithDefault(p).delay = p.delay /\ Platform!WithDefault(p).enabled = p.enabled
         /\ Platform!WithDefault(p).options = p.options \cup {p.minutes}
BY DEF Platform!WithDefault, Platform!Offered, Platform!Params

(* Only page d moves, and holds what a page holds.                          *)
LEMMA OnlyPage ==
  ASSUME SettingsInv, NEW d \in Platform!SettingsPages, SettingsTypes', PageHolds(d)',
         \A e \in Platform!SettingsPages \ {d} :
           copy'[e] = copy[e] /\ edited'[e] = edited[e] /\ base'[e] = base[e] /\ at'[e] = at[e] /\ ask'[e] = ask[e],
         (saves' = saves /\ params' = params) \/ saves' = saves + 1
  PROVE  SettingsInv'
<1> SUFFICES ASSUME NEW e \in Platform!SettingsPages \ {d}
             PROVE  PageHolds(e)'
  BY DEF SettingsInv
<1>1. PageHolds(e) /\ saves \in Nat
  BY DEF SettingsInv, SettingsTypes
<1>2. CASE saves' = saves /\ params' = params
  BY <1>1, <1>2 DEF PageHolds, Agrees, Platform!WithDefault, Platform!Offered
<1>3. CASE saves' = saves + 1
  <2>1. base'[e] # saves' /\ base'[e] \in 0..saves'
    <3>1. base[e] \in 0..saves /\ base'[e] = base[e]
      BY <1>1 DEF PageHolds
    <3> QED BY <1>1, <1>3, <3>1
  <2>2. /\ copy'[e] = copy[e] /\ edited'[e] = edited[e] /\ at'[e] = at[e] /\ ask'[e] = ask[e]
        /\ Platform!WithDefault(copy[e])' = Platform!WithDefault(copy[e])
    BY DEF Platform!WithDefault, Platform!Offered
  <2> QED BY <1>1, <2>1, <2>2 DEF PageHolds
<1> QED BY <1>2, <1>3

(* The request of a page moves; nothing of the settings does.               *)
LEMMA SettingsRest ==
  ASSUME SettingsInv, NEW d \in Platform!SettingsPages, UNCHANGED <<params, saves, copy, edited, base>>,
         NEW where, NEW x, at' = [at EXCEPT ![d] = where], UNCHANGED ask \/ ask' = [ask EXCEPT ![d] = x],
         where # "asking"
  PROVE  SettingsInv'
<1>1. d \in DeskPages
  BY SettingsPagesAreDesks
<1>2. SettingsTypes'
  BY <1>1 DEF SettingsInv, SettingsTypes
<1>3. \A e \in DeskPages : /\ at'[e] = IF e = d THEN where ELSE at[e]
                           /\ e # d => ask'[e] = ask[e]
  BY <1>1 DEF SettingsInv, SettingsTypes
<1>4. PageHolds(d)'
  BY <1>1, <1>3 DEF SettingsInv, PageHolds, Agrees
<1> QED BY <1>2, <1>3, <1>4, SettingsPagesAreDesks, OnlyPage

LEMMA SettingsOpen ==
  ASSUME SettingsInv, NEW d \in Platform!SettingsPages, Platform!Open(d)
  PROVE  SettingsInv'
<1>1. /\ at' = [at EXCEPT ![d] = "opening"] /\ UNCHANGED ask
      /\ copy' = [copy EXCEPT ![d] = Platform!NoCopy] /\ edited' = [edited EXCEPT ![d] = {}]
      /\ UNCHANGED <<params, saves, base>>
  BY DEF Platform!Open, Platform!Opens
<1>2. SettingsTypes /\ d \in DeskPages
  BY SettingsPagesAreDesks DEF SettingsInv
<1>3. SettingsTypes'
  BY <1>1, <1>2 DEF SettingsTypes
<1>4. /\ copy'[d] = Platform!NoCopy /\ edited'[d] = {} /\ at'[d] = "opening"
      /\ \A e \in Platform!SettingsPages \ {d} :
           copy'[e] = copy[e] /\ edited'[e] = edited[e] /\ at'[e] = at[e]
  BY <1>1, <1>2, SettingsPagesAreDesks DEF SettingsTypes
<1>5. PageHolds(d)'
  BY <1>1, <1>4 DEF SettingsInv, PageHolds
<1> QED BY <1>1, <1>3, <1>4, <1>5, OnlyPage

(* A page takes the parameters that are in force for its new copy.          *)
LEMMA SettingsTaken ==
  ASSUME SettingsInv, NEW d \in Platform!SettingsPages, NEW where, where # "asking",
         Platform!Takes(d), at' = [at EXCEPT ![d] = where],
         UNCHANGED ask \/ \E x : ask' = [ask EXCEPT ![d] = x],
         params' \in Platform!Params, params'.minutes \in params'.options,
         (saves' = saves /\ params' = params) \/ saves' = saves + 1
  PROVE  SettingsInv'
<1>1. /\ copy' = [copy EXCEPT ![d] = params'] /\ edited' = [edited EXCEPT ![d] = {}]
      /\ base' = [base EXCEPT ![d] = saves']
  BY DEF Platform!Takes
<1>2. SettingsTypes /\ d \in DeskPages
  BY SettingsPagesAreDesks DEF SettingsInv
<1>3. saves' \in Nat
  BY <1>2 DEF SettingsTypes
<1>4. SettingsTypes'
  BY <1>1, <1>2, <1>3 DEF SettingsTypes
<1>5. /\ copy'[d] = params' /\ edited'[d] = {} /\ base'[d] = saves' /\ at'[d] = where
      /\ \A e \in Platform!SettingsPages \ {d} :
           copy'[e] = copy[e] /\ edited'[e] = edited[e] /\ base'[e] = base[e] /\ at'[e] = at[e] /\ ask'[e] = ask[e]
  BY <1>1, <1>2, SettingsPagesAreDesks DEF SettingsTypes
<1>6. PageHolds(d)'
  BY <1>3, <1>5 DEF PageHolds, Agrees
<1> QED BY <1>4, <1>5, <1>6, OnlyPage

LEMMA SettingsEdited ==
  ASSUME SettingsInv, NEW d \in Platform!SettingsPages, NEW fields, NEW new \in Platform!Params,
         Platform!Edit(d, fields, new), "minutes" \in fields => "options" \in fields,
         copy[d] \in Platform!Params => Agrees(new, copy[d], fields)
  PROVE  SettingsInv'
<1>1. /\ at[d] = "idle" /\ copy[d] # Platform!NoCopy /\ copy' = [copy EXCEPT ![d] = new]
      /\ edited' = [edited EXCEPT ![d] = @ \cup fields]
      /\ UNCHANGED <<at, ask, params, saves, base>>
  BY DEF Platform!Edit, Platform!requestVars
<1>2. SettingsTypes /\ PageHolds(d)
  BY DEF SettingsInv
<1>3. SettingsTypes'
  BY <1>1, <1>2 DEF SettingsTypes
<1>4. /\ copy'[d] = new /\ edited'[d] = edited[d] \cup fields
      /\ \A e \in Platform!SettingsPages \ {d} : copy'[e] = copy[e] /\ edited'[e] = edited[e]
  BY <1>1, <1>2 DEF SettingsTypes
<1>5. copy[d] \in Platform!Params /\ Agrees(new, copy[d], fields)
  BY <1>1, <1>2 DEF PageHolds
<1>6. base[d] = saves => Agrees(new, params, edited[d] \cup fields)
  BY <1>1, <1>2, <1>5 DEF PageHolds, Agrees
<1>7. PageHolds(d)'
  BY <1>1, <1>2, <1>4, <1>6 DEF PageHolds
<1> QED BY <1>1, <1>3, <1>4, <1>7, OnlyPage

LEMMA SettingsEdits ==
  ASSUME SettingsInv, NEW d \in Platform!SettingsPages,
         \/ Platform!EditFee(d) \/ Platform!EditMinutes(d) \/ Platform!AddOption(d)
         \/ Platform!RemoveOption(d) \/ Platform!EditDelay(d) \/ Platform!Toggle(d)
  PROVE  SettingsInv'
<1>1. PICK c : c = copy[d]
  OBVIOUS
<1>2. c \in Platform!Params
  BY <1>1 DEF SettingsInv, PageHolds, Platform!EditFee, Platform!EditMinutes, Platform!AddOption,
         Platform!RemoveOption, Platform!EditDelay, Platform!Toggle, Platform!Edit
<1>3. CASE Platform!EditFee(d)
  <2>1. PICK fee \in Platform!ParsedFees : Platform!Edit(d, {"fee"}, [c EXCEPT !.fee = fee])
    BY <1>1, <1>3 DEF Platform!EditFee
  <2>2. [c EXCEPT !.fee = fee] \in Platform!Params /\ Agrees([c EXCEPT !.fee = fee], c, {"fee"})
    BY <1>2 DEF Platform!Params, Agrees
  <2> QED BY <1>1, <2>1, <2>2, SettingsEdited
<1>4. CASE Platform!EditMinutes(d)
  <2>1. PICK m \in Minutes : Platform!Edit(d, {"minutes", "options"}, [c EXCEPT !.minutes = m])
    BY <1>1, <1>4 DEF Platform!EditMinutes
  <2>2. [c EXCEPT !.minutes = m] \in Platform!Params /\ Agrees([c EXCEPT !.minutes = m], c, {"minutes", "options"})
    BY <1>2 DEF Platform!Params, Agrees
  <2> QED BY <1>1, <2>1, <2>2, SettingsEdited
<1>5. CASE Platform!AddOption(d)
  <2>1. PICK m \in Minutes : Platform!Edit(d, {"options"}, [c EXCEPT !.options = @ \cup {m}])
    BY <1>1, <1>5 DEF Platform!AddOption
  <2>2. /\ [c EXCEPT !.options = @ \cup {m}] \in Platform!Params
        /\ Agrees([c EXCEPT !.options = @ \cup {m}], c, {"options"})
    BY <1>2 DEF Platform!Params, Agrees
  <2> QED BY <1>1, <2>1, <2>2, SettingsEdited
<1>6. CASE Platform!RemoveOption(d)
  <2>1. PICK m : Platform!Edit(d, {"options"}, [c EXCEPT !.options = Platform!Offered(c) \ {m}])
    BY <1>1, <1>6 DEF Platform!RemoveOption
  <2>2. /\ [c EXCEPT !.options = Platform!Offered(c) \ {m}] \in Platform!Params
        /\ Agrees([c EXCEPT !.options = Platform!Offered(c) \ {m}], c, {"options"})
    BY <1>2 DEF Platform!Params, Platform!Offered, Agrees
  <2> QED BY <1>1, <2>1, <2>2, SettingsEdited
<1>7. CASE Platform!EditDelay(d)
  <2>1. PICK n \in Delays : Platform!Edit(d, {"delay"}, [c EXCEPT !.delay = n])
    BY <1>1, <1>7 DEF Platform!EditDelay
  <2>2. [c EXCEPT !.delay = n] \in Platform!Params /\ Agrees([c EXCEPT !.delay = n], c, {"delay"})
    BY <1>2 DEF Platform!Params, Agrees
  <2> QED BY <1>1, <2>1, <2>2, SettingsEdited
<1>8. CASE Platform!Toggle(d)
  <2>1. Platform!Edit(d, {"enabled"}, [c EXCEPT !.enabled = ~@])
    BY <1>1, <1>8 DEF Platform!Toggle
  <2>2. [c EXCEPT !.enabled = ~@] \in Platform!Params /\ Agrees([c EXCEPT !.enabled = ~@], c, {"enabled"})
    BY <1>2 DEF Platform!Params, Agrees
  <2> QED BY <1>1, <2>1, <2>2, SettingsEdited
<1> QED BY <1>3, <1>4, <1>5, <1>6, <1>7, <1>8

LEMMA SettingsSave ==
  ASSUME SettingsInv, NEW d \in Platform!SettingsPages, Platform!Save(d)
  PROVE  SettingsInv'
<1>1. PICK x : x = [what |-> "save", params |-> Platform!WithDefault(copy[d])]
  OBVIOUS
<1>2. /\ copy[d] # Platform!NoCopy /\ at' = [at EXCEPT ![d] = "asking"] /\ ask' = [ask EXCEPT ![d] = x]
      /\ UNCHANGED <<params, saves, copy, edited, base>>
  BY <1>1 DEF Platform!Save, Platform!Presses, Platform!SentBy, Platform!All, Platform!settingsVars
<1>3. SettingsTypes /\ PageHolds(d) /\ d \in DeskPages
  BY SettingsPagesAreDesks DEF SettingsInv
<1>4. SettingsTypes'
  BY <1>2, <1>3 DEF SettingsTypes
<1>5. ask'[d] = x /\ \A e \in Platform!SettingsPages \ {d} : at'[e] = at[e] /\ ask'[e] = ask[e]
  BY <1>2, <1>3, SettingsPagesAreDesks DEF SettingsTypes
<1>6. x.params = Platform!WithDefault(copy[d])
  BY <1>1
<1>7. PageHolds(d)'
  BY <1>2, <1>3, <1>5, <1>6 DEF PageHolds, Agrees, Platform!WithDefault, Platform!Offered
<1> QED BY <1>2, <1>4, <1>5, <1>7, OnlyPage

(* What a page's request leaves in the database.                            *)
LEMMA SettingsStored ==
  ASSUME SettingsInv, NEW d \in Platform!SettingsPages, Platform!Store(d)
  PROVE  /\ params' \in Platform!Params /\ params'.minutes \in params'.options /\ saves' = saves + 1
         /\ base[d] = saves => \A f \in DOMAIN params \ edited[d] : params'[f] = params[f]
<1>1. PICK c \in Platform!Params : c = copy[d]
  BY DEF SettingsInv, PageHolds, Platform!Store
<1>2. PICK s : s = Platform!WithDefault(c)
  OBVIOUS
<1>3. params' = Platform!WithDefault(s) /\ saves' = saves + 1
  BY <1>1, <1>2 DEF SettingsInv, PageHolds, Platform!Store
<1>4. /\ s \in Platform!Params /\ s.minutes = c.minutes /\ s.fee = c.fee /\ s.delay = c.delay
      /\ s.enabled = c.enabled /\ s.options = c.options \cup {c.minutes}
  BY <1>2, DefaultIsOffered
<1>5. /\ params' \in Platform!Params /\ params'.minutes \in params'.options
      /\ params'.minutes = c.minutes /\ params'.fee = c.fee /\ params'.delay = c.delay
      /\ params'.enabled = c.enabled /\ params'.options = c.options \cup {c.minutes}
  BY <1>3, <1>4, DefaultIsOffered
<1>6. ASSUME base[d] = saves, NEW f \in DOMAIN params \ edited[d]
      PROVE  params'[f] = params[f]
  <2>1. Agrees(c, params, edited[d]) /\ ("minutes" \in edited[d] => "options" \in edited[d])
    BY <1>1, <1>6 DEF SettingsInv, PageHolds, Platform!Store
  <2>2. params \in Platform!Params /\ params.minutes \in params.options
    BY DEF SettingsInv, SettingsTypes
  <2>3. f \in {"fee", "minutes", "options", "delay", "enabled"}
    BY <2>2 DEF Platform!Params
  <2>4. CASE f = "fee"
    BY <1>5, <2>1, <2>4 DEF Agrees
  <2>5. CASE f = "minutes"
    BY <1>5, <2>1, <2>5 DEF Agrees
  <2>6. CASE f = "delay"
    BY <1>5, <2>1, <2>6 DEF Agrees
  <2>7. CASE f = "enabled"
    BY <1>5, <2>1, <2>7 DEF Agrees
  <2>8. CASE f = "options"
    <3>1. c.options = params.options /\ c.minutes = params.minutes
      BY <2>1, <2>8 DEF Agrees
    <3>2. params'.options = params.options
      BY <1>5, <2>2, <3>1
    <3> QED BY <2>8, <3>2
  <2> QED BY <2>3, <2>4, <2>5, <2>6, <2>7, <2>8
<1> QED BY <1>3, <1>5, <1>6

LEMMA SettingsServed ==
  ASSUME SettingsInv, NEW d \in Platform!SettingsPages, Platform!Serve(d) \/ Platform!AnswerLost(d)
  PROVE  SettingsInv'
<1>1. Platform!Store(d)
  BY DEF Platform!Serve, Platform!AnswerLost
<1>2. params' \in Platform!Params /\ params'.minutes \in params'.options /\ saves' = saves + 1
  BY <1>1, SettingsStored
<1>3. PICK where \in {"reading", "idle"} :
        at' = [at EXCEPT ![d] = where] /\ ask' = [ask EXCEPT ![d] = Platform!NoAsk]
  BY DEF Platform!Serve, Platform!AnswerLost, Platform!Ends
<1>4. CASE Platform!Takes(d)
  BY <1>2, <1>3, <1>4, SettingsTaken
<1>5. CASE UNCHANGED <<copy, edited, base>>
  <2>1. SettingsTypes /\ PageHolds(d) /\ d \in DeskPages
    BY SettingsPagesAreDesks DEF SettingsInv
  <2>2. SettingsTypes'
    <3>1. /\ at' = [e \in DeskPages |-> at'[e]] /\ ask' = [e \in DeskPages |-> ask'[e]]
      <4>1. /\ at' = [e \in DeskPages |-> IF e = d THEN where ELSE at[e]]
            /\ ask' = [e \in DeskPages |-> IF e = d THEN Platform!NoAsk ELSE ask[e]]
        BY <1>3, <2>1 DEF SettingsTypes
      <4> QED BY <4>1
    <3>3. saves' \in Nat
      BY <1>2, <2>1 DEF SettingsTypes
    <3>2. /\ copy' = [e \in Platform!SettingsPages |-> copy'[e]]
          /\ edited' = [e \in Platform!SettingsPages |-> edited'[e]]
          /\ base' = [e \in Platform!SettingsPages |-> base'[e]]
      BY <1>5, <2>1 DEF SettingsTypes
    <3> QED BY <1>2, <3>1, <3>2, <3>3 DEF SettingsTypes
  <2>3. at'[d] = where /\ \A e \in Platform!SettingsPages \ {d} : at'[e] = at[e] /\ ask'[e] = ask[e]
    BY <1>3, <2>1, SettingsPagesAreDesks DEF SettingsTypes
  <2>4. base[d] \in 0..saves /\ saves \in Nat
    BY <2>1 DEF PageHolds, SettingsTypes
  <2>5. PageHolds(d)'
    BY <1>2, <1>5, <2>1, <2>3, <2>4 DEF PageHolds
  <2> QED BY <1>2, <1>5, <2>2, <2>3, <2>5, OnlyPage
<1> QED BY <1>4, <1>5 DEF Platform!Serve, Platform!AnswerLost

LEMMA SettingsStepsKeep ==
  ASSUME SettingsInv, [Platform!Next]_(Platform!vars)
  PROVE  SettingsInv'
<1>1. CASE UNCHANGED Platform!vars
  BY <1>1 DEF Platform!vars, Platform!requestVars, Platform!settingsVars, SettingsInv, SettingsTypes, PageHolds,
       Agrees, Platform!WithDefault, Platform!Offered
<1>2. ASSUME NEW d \in Platform!SettingsPages,
             \/ Platform!EditFee(d) \/ Platform!EditMinutes(d) \/ Platform!AddOption(d)
             \/ Platform!RemoveOption(d) \/ Platform!EditDelay(d) \/ Platform!Toggle(d)
      PROVE  SettingsInv'
  BY <1>2, SettingsEdits
<1>3. ASSUME NEW d \in Platform!SettingsPages, Platform!Serve(d) \/ Platform!AnswerLost(d)
      PROVE  SettingsInv'
  BY <1>3, SettingsServed
<1>4. ASSUME NEW d \in Platform!SettingsPages, Platform!Open(d) \/ Platform!Save(d)
      PROVE  SettingsInv'
  BY <1>4, SettingsOpen, SettingsSave
<1>5. ASSUME NEW d \in Platform!SettingsPages, Platform!Read(d)
      PROVE  SettingsInv'
  <2>1. at' = [at EXCEPT ![d] = "idle"] /\ UNCHANGED <<ask, params, saves>> /\ Platform!Takes(d)
    BY <1>5 DEF Platform!Read, Platform!Reads
  <2>2. params' \in Platform!Params /\ params'.minutes \in params'.options
    BY <2>1 DEF SettingsInv, SettingsTypes
  <2> QED BY <2>1, <2>2, SettingsTaken
<1>6. ASSUME NEW d \in Platform!SettingsPages,
             Platform!ReadFails(d) \/ Platform!Close(d) \/ Platform!Unserved(d)
      PROVE  SettingsInv'
  <2>1. \E where : where # "asking" /\ at' = [at EXCEPT ![d] = where]
                   /\ (UNCHANGED ask \/ ask' = [ask EXCEPT ![d] = Platform!NoAsk])
    BY <1>6 DEF Platform!ReadFails, Platform!Close, Platform!Unserved, Platform!ReadsNothing, Platform!Shuts,
           Platform!Ends
  <2>2. UNCHANGED <<params, saves, copy, edited, base>>
    BY <1>6 DEF Platform!ReadFails, Platform!Close, Platform!Unserved, Platform!settingsVars
  <2> QED BY <2>1, <2>2, SettingsRest
<1> QED BY <1>1, <1>2, <1>3, <1>4, <1>5, <1>6 DEF Platform!Next, Platform!SettingsPages

(* A step in which the parameters are saved serves the page that leaves off *)
(* asking.                                                                  *)
LEMMA SettingsSavedByOne ==
  ASSUME SettingsInv, Platform!Next, saves' > saves
  PROVE  \E d \in Platform!SettingsPages :
           /\ Platform!Store(d)
           /\ \A e \in Platform!SettingsPages \ {d} : at'[e] = at[e]
<1>1. saves \in Nat
  BY DEF SettingsInv, SettingsTypes
<1>2. PICK d \in Platform!SettingsPages : Platform!Serve(d) \/ Platform!AnswerLost(d)
  <2>1. saves' # saves
    BY <1>1
  <2> QED BY <2>1 DEF Platform!Next, Platform!EditFee, Platform!EditMinutes, Platform!AddOption,
             Platform!RemoveOption, Platform!EditDelay, Platform!Toggle, Platform!Edit, Platform!Open,
             Platform!Read, Platform!ReadFails, Platform!Close, Platform!Save, Platform!Unserved,
             Platform!settingsVars
<1>3. \E where : at' = [at EXCEPT ![d] = where]
  BY <1>2 DEF Platform!Serve, Platform!AnswerLost, Platform!Ends
<1>4. \A e \in Platform!SettingsPages \ {d} : at'[e] = at[e]
  BY <1>3, SettingsPagesAreDesks DEF SettingsInv, SettingsTypes
<1> QED BY <1>2, <1>4 DEF Platform!Serve, Platform!AnswerLost

(* A save changes a parameter that was not edited on its page only if the   *)
(* parameters were saved after the page read them: with any number of tabs, *)
(* of edits and of answers that are lost (handleSave, handleSaveAutoPayout). *)
THEOREM SettingsLostOnlyBehind == Platform!Spec => LostOnlyBehind
<1> DEFINE Kept == \A d \in Platform!SettingsPages :
                     (saves' > saves /\ at[d] = "asking" /\ at'[d] # "asking") =>
                       \/ base[d] < saves
                       \/ \A f \in DOMAIN params \ edited[d] : params'[f] = params[f]
<1>1. Platform!Init => SettingsInv
  <2> SUFFICES ASSUME Platform!Init
               PROVE  SettingsInv
    OBVIOUS
  <2>1. /\ at = [d \in DeskPages |-> "shut"] /\ ask = [d \in DeskPages |-> Platform!NoAsk] /\ saves = 0
        /\ copy = [d \in Platform!SettingsPages |-> Platform!NoCopy]
        /\ edited = [d \in Platform!SettingsPages |-> {}] /\ base = [d \in Platform!SettingsPages |-> 0]
    BY DEF Platform!Init, Platform!RequestsInit
  <2>2. params \in Platform!Params /\ params.minutes \in params.options
    BY DEF Platform!Init
  <2>3. SettingsTypes
    BY <2>1, <2>2 DEF SettingsTypes
  <2>4. \A d \in Platform!SettingsPages : PageHolds(d)
    BY <2>1, SettingsPagesAreDesks DEF PageHolds
  <2> QED BY <2>3, <2>4 DEF SettingsInv
<1>2. SettingsInv /\ [Platform!Next]_(Platform!vars) => SettingsInv'
  BY SettingsStepsKeep
<1>3. SettingsInv /\ [Platform!Next]_(Platform!vars) => [Kept]_(Platform!vars)
  <2> SUFFICES ASSUME SettingsInv, Platform!Next, NEW d \in Platform!SettingsPages,
                      saves' > saves, at[d] = "asking", at'[d] # "asking", ~(base[d] < saves)
               PROVE  \A f \in DOMAIN params \ edited[d] : params'[f] = params[f]
    OBVIOUS
  <2>1. Platform!Store(d)
    BY SettingsSavedByOne
  <2>2. base[d] = saves
    BY DEF SettingsInv, SettingsTypes, PageHolds
  <2> QED BY <2>1, <2>2, SettingsStored
<1>4. LostOnlyBehind <=> [][Kept]_(Platform!vars)
  BY DEF LostOnlyBehind, Platform!LostOnlyBehind
<1> HIDE DEF Kept
<1> QED BY <1>1, <1>2, <1>3, <1>4, PTL DEF Platform!Spec

----------------------------------------------------------------------------
(* Groups and their codes (GroupDesk).                                      *)

GroupRecord(r) == r = [state |-> r.state, owner |-> r.owner, name |-> r.name]
ViewRecord(r)  == r = [who |-> r.who, of |-> r.of, codes |-> r.codes, out |-> r.out]

GroupTypes ==
  /\ group = [g \in Groups |-> group[g]] /\ \A g \in Groups : GroupRecord(group[g])
  /\ member = [g \in Groups |-> member[g]]
  /\ view = [d \in Group!GroupPages |-> view[d]] /\ \A d \in Group!GroupPages : ViewRecord(view[d])
  /\ \E n \in Nat : code = [c \in 1..n |-> code[c]]

OwnersStay == \A g \in Groups : Group!Live(g) => group[g].owner \in member[g]
CodesLead ==
  \A d \in DetailPages : \A c \in view[d].codes : c \in DOMAIN code /\ code[c] = view[d].of

GroupInv == GroupTypes /\ OwnersStay /\ CodesLead

(* Codes are numbered, so that the next one is new.                         *)
LEMMA NextCodeIsNew ==
  ASSUME NEW n \in Nat, code = [c \in 1..n |-> code[c]]
  PROVE  DOMAIN code = 1..n /\ Group!NextCode = n + 1
<1>1. DOMAIN code = 1..n
  OBVIOUS
<1>2. Group!Cardinality(DOMAIN code) = Cardinality(DOMAIN code)
  BY DEF Group!Cardinality, Cardinality
<1>3. Cardinality(1..n) = n
  BY FS_Interval
<1> QED BY <1>1, <1>2, <1>3 DEF Group!NextCode

(* The latest code of a group is one of its codes.                          *)
LEMMA LatestLeads ==
  ASSUME GroupTypes, NEW g, NEW c \in Group!Latest(g)
  PROVE  c \in DOMAIN code /\ code[c] = g
<1>1. PICK n \in Nat : DOMAIN code = 1..n
  BY DEF GroupTypes
<1>2. PICK S : S = Group!CodesOf(g)
  OBVIOUS
<1>3. S # {} /\ c = Group!Max(S) /\ S \subseteq 1..n
  <2>1. S \subseteq 1..n
    BY <1>1, <1>2 DEF Group!CodesOf
  <2>2. S # {} /\ c \in {Group!Max(S)}
    BY <1>2 DEF Group!Latest
  <2> QED BY <2>1, <2>2
<1>4. IsFiniteSet(S)
  <2>1. IsFiniteSet(1..n)
    BY FS_Interval
  <2> QED BY <1>3, <2>1, FS_Subset
<1> DEFINE R == {p \in S \X S : p[1] >= p[2]}
<1>5. /\ R \in SUBSET (S \X S)
      /\ \A i, j \in S : <<i, j>> \in R <=> i >= j
  OBVIOUS
<1> HIDE DEF R
<1>6. \A i \in S : i \in Int
  BY <1>3
<1>7. \A i, j \in S : <<i, j>> \in R \/ <<j, i>> \in R
  <2>1. \A i, j \in S : i >= j \/ j >= i
    BY <1>6
  <2> QED BY <1>5, <2>1
<1>8. \A i, j, k \in S : <<i, j>> \in R /\ <<j, k>> \in R => <<i, k>> \in R
  BY <1>5, <1>6
<1>9. \E i \in S : \A j \in S : <<i, j>> \in R
  BY <1>3, <1>4, <1>5, <1>7, <1>8, BestExists
<1>10. \E i \in S : \A j \in S : i >= j
  BY <1>5, <1>9
<1>11. c \in S
  BY <1>3, <1>10 DEF Group!Max
<1> QED BY <1>2, <1>11 DEF Group!CodesOf

(* One group is written over, if it is one of the groups.                   *)
LEMMA OneGroup ==
  ASSUME GroupTypes, NEW i, NEW r, i \in Groups => GroupRecord(r), group' = [group EXCEPT ![i] = r]
  PROVE  /\ group' = [g \in Groups |-> group'[g]] /\ \A g \in Groups : GroupRecord(group'[g])
         /\ \A g \in Groups \ {i} : group'[g] = group[g]
         /\ i \in Groups => group'[i] = r
<1>1. group' = [g \in Groups |-> IF g = i THEN r ELSE group[g]]
  BY DEF GroupTypes
<1>2. \A g \in Groups : GroupRecord(group[g])
  BY DEF GroupTypes
<1> QED BY <1>1, <1>2

LEMMA OneMembership ==
  ASSUME GroupTypes, NEW i, NEW S, member' = [member EXCEPT ![i] = S]
  PROVE  /\ member' = [g \in Groups |-> member'[g]]
         /\ \A g \in Groups \ {i} : member'[g] = member[g]
         /\ i \in Groups => member'[i] = S
<1>1. member' = [g \in Groups |-> IF g = i THEN S ELSE member[g]]
  BY DEF GroupTypes
<1> QED BY <1>1

LEMMA GroupPruned ==
  ASSUME GroupInv, NEW g \in Groups, Group!Prune(g)
  PROVE  GroupInv'
<1>1. GroupTypes /\ OwnersStay /\ CodesLead
  BY DEF GroupInv
<1>2. PICK r : r = [group[g] EXCEPT !.state = "gone"]
  OBVIOUS
<1>3. GroupRecord(r) /\ r.state = "gone"
  BY <1>1, <1>2 DEF GroupTypes, GroupRecord
<1>4. /\ group' = [group EXCEPT ![g] = r] /\ member' = [member EXCEPT ![g] = {}]
      /\ UNCHANGED <<code, view>>
  BY <1>2 DEF Group!Prune
<1>5. /\ group' = [h \in Groups |-> group'[h]] /\ \A h \in Groups : GroupRecord(group'[h])
      /\ \A h \in Groups \ {g} : group'[h] = group[h]
      /\ group'[g] = r
  BY <1>1, <1>3, <1>4, OneGroup
<1>6. member' = [h \in Groups |-> member'[h]] /\ \A h \in Groups \ {g} : member'[h] = member[h]
  BY <1>1, <1>4, OneMembership
<1>7. GroupTypes'
  BY <1>1, <1>4, <1>5, <1>6 DEF GroupTypes
<1>8. OwnersStay'
  BY <1>1, <1>3, <1>5, <1>6 DEF OwnersStay, Group!Live
<1>9. CodesLead'
  BY <1>1, <1>4 DEF CodesLead
<1> QED BY <1>7, <1>8, <1>9 DEF GroupInv

LEMMA GroupCreated ==
  ASSUME GroupInv, NEW d \in Group!GroupPages, Group!CreateGroup(d)
  PROVE  GroupInv'
<1>1. GroupTypes /\ OwnersStay /\ CodesLead
  BY DEF GroupInv
<1>2. PICK i : i = Group!NextGroup
  OBVIOUS
<1>3. PICK r : r = [state |-> "live", owner |-> Group!Mine(d), name |-> ask[d].name]
  OBVIOUS
<1>4. GroupRecord(r) /\ r.owner = Group!Mine(d)
  BY <1>3 DEF GroupRecord
<1>5. /\ group' = [group EXCEPT ![i] = r] /\ member' = [member EXCEPT ![i] = {Group!Mine(d)}]
      /\ UNCHANGED <<code, view>>
  BY <1>2, <1>3 DEF Group!CreateGroup
<1>6. /\ group' = [h \in Groups |-> group'[h]] /\ \A h \in Groups : GroupRecord(group'[h])
      /\ \A h \in Groups \ {i} : group'[h] = group[h]
      /\ i \in Groups => group'[i] = r
  BY <1>1, <1>4, <1>5, OneGroup
<1>7. /\ member' = [h \in Groups |-> member'[h]] /\ \A h \in Groups \ {i} : member'[h] = member[h]
      /\ i \in Groups => member'[i] = {Group!Mine(d)}
  BY <1>1, <1>5, OneMembership
<1>8. GroupTypes'
  BY <1>1, <1>5, <1>6, <1>7 DEF GroupTypes
<1>9. OwnersStay'
  BY <1>1, <1>4, <1>6, <1>7 DEF OwnersStay, Group!Live
<1>10. CodesLead'
  BY <1>1, <1>5 DEF CodesLead
<1> QED BY <1>8, <1>9, <1>10 DEF GroupInv

LEMMA GroupRenamed ==
  ASSUME GroupInv, NEW d \in Group!GroupPages, Group!Rename(d)
  PROVE  GroupInv'
<1>1. GroupTypes /\ OwnersStay /\ CodesLead
  BY DEF GroupInv
<1>2. PICK i : i = ask[d].on
  OBVIOUS
<1>3. PICK r : r = [group[i] EXCEPT !.name = ask[d].name]
  OBVIOUS
<1>4. i \in Groups => GroupRecord(r) /\ r.owner = group[i].owner /\ r.state = group[i].state
  BY <1>1, <1>3 DEF GroupTypes, GroupRecord
<1>5. group' = [group EXCEPT ![i] = r] /\ UNCHANGED <<member, code, view>>
  BY <1>2, <1>3 DEF Group!Rename
<1>6. /\ group' = [h \in Groups |-> group'[h]] /\ \A h \in Groups : GroupRecord(group'[h])
      /\ \A h \in Groups \ {i} : group'[h] = group[h]
      /\ i \in Groups => group'[i] = r
  BY <1>1, <1>4, <1>5, OneGroup
<1>7. GroupTypes'
  BY <1>1, <1>5, <1>6 DEF GroupTypes
<1>8. \A h \in Groups : group'[h].owner = group[h].owner /\ group'[h].state = group[h].state
  BY <1>4, <1>6
<1>9. OwnersStay'
  BY <1>1, <1>5, <1>8 DEF OwnersStay, Group!Live
<1>10. CodesLead'
  BY <1>1, <1>5 DEF CodesLead
<1> QED BY <1>7, <1>9, <1>10 DEF GroupInv

(* Members come, and others than the owner go.                              *)
LEMMA MembersMove ==
  ASSUME GroupInv, NEW d \in Group!GroupPages, Group!AddMember(d) \/ Group!Remove(d)
  PROVE  GroupInv'
<1>1. GroupTypes /\ OwnersStay /\ CodesLead
  BY DEF GroupInv
<1>2. PICK i : i = ask[d].on
  OBVIOUS
<1>3. UNCHANGED <<group, code, view>>
  BY DEF Group!AddMember, Group!Remove
<1>4. PICK S : /\ member' = [member EXCEPT ![i] = S]
               /\ i \in Groups /\ Group!Live(i) /\ group[i].owner \in member[i] => group[i].owner \in S
  <2>1. CASE Group!AddMember(d)
    <3>1. member' = [member EXCEPT ![i] = @ \cup {Group!Mine(d)}]
      BY <1>2, <2>1 DEF Group!AddMember
    <3>2. PICK S : S = member[i] \cup {Group!Mine(d)}
      OBVIOUS
    <3>3. member' = [member EXCEPT ![i] = S]
      BY <3>1, <3>2
    <3>4. group[i].owner \in member[i] => group[i].owner \in S
      BY <3>2
    <3> QED BY <3>3, <3>4
  <2>2. CASE Group!Remove(d)
    <3>1. /\ member' = [member EXCEPT ![i] = @ \ {ask[d].member}]
          /\ group[i].owner # ask[d].member
      BY <1>2, <2>2 DEF Group!Remove, Group!Removable, Group!Owns
    <3>2. PICK S : S = member[i] \ {ask[d].member}
      OBVIOUS
    <3>3. member' = [member EXCEPT ![i] = S]
      BY <3>1, <3>2
    <3>4. group[i].owner \in member[i] => group[i].owner \in S
      BY <3>1, <3>2
    <3> QED BY <3>3, <3>4
  <2> QED BY <2>1, <2>2
<1>5. /\ member' = [h \in Groups |-> member'[h]] /\ \A h \in Groups \ {i} : member'[h] = member[h]
      /\ i \in Groups => member'[i] = S
  BY <1>1, <1>4, OneMembership
<1>6. GroupTypes'
  BY <1>1, <1>3, <1>5 DEF GroupTypes
<1>7. OwnersStay'
  BY <1>1, <1>3, <1>4, <1>5 DEF OwnersStay, Group!Live
<1>8. CodesLead'
  BY <1>1, <1>3 DEF CodesLead
<1> QED BY <1>6, <1>7, <1>8 DEF GroupInv

LEMMA CodeStored ==
  ASSUME GroupInv, NEW d \in Group!GroupPages, Group!StoreCode(d)
  PROVE  GroupInv'
<1>1. GroupTypes /\ OwnersStay /\ CodesLead
  BY DEF GroupInv
<1>2. PICK n \in Nat : code = [c \in 1..n |-> code[c]]
  BY <1>1 DEF GroupTypes
<1>3. DOMAIN code = 1..n /\ Group!NextCode = n + 1
  BY <1>2, NextCodeIsNew
<1>4. /\ code' = [c \in DOMAIN code \cup {n + 1} |-> IF c = n + 1 THEN ask[d].on ELSE code[c]]
      /\ UNCHANGED <<group, member, view>>
  BY <1>3 DEF Group!StoreCode, Group!MakeCode
<1>5. 1..n \cup {n + 1} = 1..(n + 1) /\ n + 1 \in Nat
  OBVIOUS
<1>6. code' = [c \in 1..(n + 1) |-> code'[c]] /\ \A c \in DOMAIN code : c \in DOMAIN code' /\ code'[c] = code[c]
  BY <1>3, <1>4, <1>5
<1>7. GroupTypes'
  BY <1>1, <1>4, <1>5, <1>6 DEF GroupTypes
<1>8. OwnersStay'
  BY <1>1, <1>4 DEF OwnersStay, Group!Live
<1>9. CodesLead'
  BY <1>1, <1>4, <1>6 DEF CodesLead
<1> QED BY <1>7, <1>8, <1>9 DEF GroupInv

(* A page shows something else: codes of its group, if it is a page of one. *)
LEMMA ViewMoves ==
  ASSUME GroupInv, NEW d \in Group!GroupPages, NEW r, view' = [view EXCEPT ![d] = r],
         ViewRecord(r), UNCHANGED <<group, code, member>>,
         d \in DetailPages => \A c \in r.codes : c \in DOMAIN code /\ code[c] = r.of
  PROVE  GroupInv'
<1>1. GroupTypes /\ OwnersStay /\ CodesLead
  BY DEF GroupInv
<1>2. view' = [e \in Group!GroupPages |-> IF e = d THEN r ELSE view[e]]
  BY <1>1 DEF GroupTypes
<1>3. \A e \in Group!GroupPages : ViewRecord(view'[e])
  BY <1>1, <1>2 DEF GroupTypes
<1>4. GroupTypes'
  BY <1>1, <1>2, <1>3 DEF GroupTypes
<1>5. OwnersStay'
  BY <1>1 DEF OwnersStay, Group!Live
<1>6. \A e \in DetailPages : e \in Group!GroupPages
  BY DEF Group!GroupPages
<1>7. CodesLead'
  BY <1>1, <1>2, <1>6 DEF CodesLead
<1> QED BY <1>4, <1>5, <1>7 DEF GroupInv

LEMMA GroupsAreRead ==
  ASSUME GroupInv, NEW d \in Group!GroupPages,
         \/ d \in ListPages /\ (Group!OpenList(d) \/ Group!ReadList(d))
         \/ d \in DetailPages /\ (Group!OpenDetail(d) \/ Group!ReadDetail(d))
  PROVE  GroupInv'
<1>1. GroupTypes /\ ViewRecord(view[d])
  BY DEF GroupInv, GroupTypes
<1>2. UNCHANGED <<group, code, member>>
  BY DEF Group!OpenList, Group!ReadList, Group!OpenDetail, Group!ReadDetail
<1>3. CASE Group!OpenList(d) /\ d \in ListPages
  <2>1. PICK r : r = Group!Blank(Group!Mine(d))
    OBVIOUS
  <2>2. ViewRecord(r) /\ r.codes = {}
    BY <2>1 DEF Group!Blank, ViewRecord
  <2>3. view' = [view EXCEPT ![d] = r]
    BY <1>3, <2>1 DEF Group!OpenList
  <2> QED BY <1>2, <2>2, <2>3, ViewMoves
<1>4. CASE Group!OpenDetail(d)
  <2>1. PICK g \in Groups : view' = [view EXCEPT ![d] = [Group!Blank(Group!Mine(d)) EXCEPT !.of = g]]
    BY <1>4 DEF Group!OpenDetail
  <2>2. PICK r : r = [Group!Blank(Group!Mine(d)) EXCEPT !.of = g]
    OBVIOUS
  <2>3. ViewRecord(r) /\ r.codes = {}
    BY <2>2 DEF Group!Blank, ViewRecord
  <2>4. view' = [view EXCEPT ![d] = r]
    BY <2>1, <2>2
  <2> QED BY <1>2, <2>3, <2>4, ViewMoves
<1>5. CASE Group!ReadList(d) /\ d \in ListPages
  <2>1. PICK S : view' = [view EXCEPT ![d].codes = S]
    BY <1>5 DEF Group!ReadList
  <2>2. PICK r : r = [view[d] EXCEPT !.codes = S]
    OBVIOUS
  <2>3. ViewRecord(r)
    BY <1>1, <2>2 DEF ViewRecord
  <2>4. view' = [view EXCEPT ![d] = r] /\ d \notin DetailPages
    BY <1>5, <2>1, <2>2, DesksAssumption
  <2> QED BY <1>2, <2>3, <2>4, ViewMoves
<1>6. CASE Group!ReadDetail(d)
  <2>1. PICK g, S, T : /\ g = view[d].of /\ S = Group!Latest(g)
                       /\ view' = [view EXCEPT ![d].codes = S, ![d].out = T]
    BY <1>6 DEF Group!ReadDetail
  <2>2. PICK r : r = [view[d] EXCEPT !.codes = S, !.out = T]
    OBVIOUS
  <2>3. ViewRecord(r) /\ r.codes = S /\ r.of = g
    BY <1>1, <2>1, <2>2 DEF ViewRecord
  <2>4. view' = [view EXCEPT ![d] = r]
    BY <1>1, <2>1, <2>2 DEF GroupTypes
  <2>5. \A c \in S : c \in DOMAIN code /\ code[c] = g
    BY <1>1, <2>1, LatestLeads
  <2> QED BY <1>2, <2>3, <2>4, <2>5, ViewMoves
<1> QED BY <1>3, <1>4, <1>5, <1>6

LEMMA GroupStepsKeep ==
  ASSUME GroupInv, [Group!Next]_(Group!vars)
  PROVE  GroupInv'
<1>1. CASE UNCHANGED <<group, code, member, view>>
  BY <1>1 DEF GroupInv, GroupTypes, GroupRecord, ViewRecord, OwnersStay, CodesLead, Group!Live
<1>2. CASE \E g \in Groups : Group!Prune(g)
  BY <1>2, GroupPruned
<1>3. CASE \E d \in Group!GroupPages :
             \/ Group!CreateGroup(d) \/ Group!StoreCode(d) \/ Group!AddMember(d)
             \/ Group!Rename(d) \/ Group!Remove(d)
  BY <1>3, GroupCreated, CodeStored, MembersMove, GroupRenamed
<1>4. CASE \/ \E d \in ListPages : Group!OpenList(d) \/ Group!ReadList(d)
           \/ \E d \in DetailPages : Group!OpenDetail(d) \/ Group!ReadDetail(d)
  <2>1. ListPages \cup DetailPages = Group!GroupPages
    BY DEF Group!GroupPages
  <2> QED BY <1>4, <2>1, GroupsAreRead
<1>5. CASE \/ \E d \in ListPages : Group!PressCreate(d) \/ Group!PressJoin(d)
           \/ \E d \in DetailPages : Group!PressRename(d) \/ Group!PressInvite(d) \/ Group!PressRemove(d)
  BY <1>1, <1>5 DEF Group!PressCreate, Group!PressJoin, Group!PressRename, Group!PressInvite,
       Group!PressRemove, Group!Press, Group!groupVars
<1>6. CASE \E d \in Group!GroupPages :
             \/ Group!FindCode(d) \/ Group!FindInvite(d) \/ Group!Fails(d) \/ Group!Close(d)
             \/ Group!ReadFails(d)
  BY <1>1, <1>6 DEF Group!FindCode, Group!FindInvite, Group!Fails, Group!Close, Group!ReadFails, Group!groupVars
<1>7. CASE UNCHANGED Group!vars
  BY <1>1, <1>7 DEF Group!vars, Group!groupVars
<1> QED BY <1>2, <1>3, <1>4, <1>5, <1>6, <1>7 DEF Group!Next

(* A living group keeps its owner, and a code a member copied from a page   *)
(* leads to that page's group: whatever codes, members and pages there are, *)
(* and although codes are made without a lock (CreateInvite,                *)
(* RemoveGroupMember, GetInviteByCode).                                     *)
THEOREM GroupsAlwaysKeepDoors == Group!Spec => []GroupsKeepDoors
<1>1. Group!Init => GroupInv
  <2> SUFFICES ASSUME Group!Init
               PROVE  GroupInv
    OBVIOUS
  <2>1. /\ group = [g \in Groups |-> Group!Free] /\ code = [c \in {} |-> Group!NoGroup]
        /\ member = [g \in Groups |-> {}]
        /\ view \in [Group!GroupPages -> {Group!Blank(m) : m \in GroupMembers}]
    BY DEF Group!Init
  <2>2. \A g \in Groups : GroupRecord(group[g]) /\ group[g].state = "free"
    BY <2>1 DEF Group!Free, GroupRecord
  <2>3. \A d \in Group!GroupPages : ViewRecord(view[d]) /\ view[d].codes = {}
    BY <2>1 DEF Group!Blank, ViewRecord
  <2>4. code = [c \in 1..0 |-> code[c]]
    BY <2>1
  <2>5. GroupTypes
    BY <2>1, <2>2, <2>3, <2>4 DEF GroupTypes
  <2>6. OwnersStay /\ CodesLead
    BY <2>2, <2>3 DEF OwnersStay, CodesLead, Group!Live, Group!GroupPages
  <2> QED BY <2>5, <2>6 DEF GroupInv
<1>2. GroupInv /\ [Group!Next]_(Group!vars) => GroupInv'
  BY GroupStepsKeep
<1>3. GroupInv => GroupsKeepDoors
  BY DEF GroupInv, OwnersStay, CodesLead, GroupsKeepDoors, Group!GroupsKeepDoors
<1> QED BY <1>1, <1>2, <1>3, PTL DEF Group!Spec
=============================================================================

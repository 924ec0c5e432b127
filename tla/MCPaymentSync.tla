---------------------------- MODULE MCPaymentSync ----------------------------
(***************************************************************************)
(* PaymentSync with a history variable: the payments of which two requests  *)
(* were under way at once, or a request was sent by another member than the *)
(* one whose page made the payment, or with which the server slipped.       *)
(***************************************************************************)
EXTENDS PaymentSync

CONSTANT MaxMoves   \* bound on how often documents and pages are left

VARIABLES tangled,  \* the payments meant above
          moves     \* how often a document or page was left

UnderWay(x) == {j \in Running : job[j].tx = x /\ job[j].step \in {"register", "check", "apply", "complete"}}

\* Handlers, hashes and members are numbered; which number is taken is of no
\* importance, so the lowest is.
InOrder ==
  /\ \A j \in Jobs : job[j] = NoJob /\ job'[j] # NoJob => \A i \in Jobs : i < j => job[i] # NoJob
  /\ \A x \in Txs : chain[x] # chain'[x] => \A y \in Txs : y < x => chain[y] # Unsent
  /\ \A t \in Tabs : session'[t] # session[t] /\ moves = 0 => session'[t] \in {Nobody, 1}

\* The server slips: it applies a request and leaves the transaction uncompleted, or
\* overlooks that it is completed.
Slips(j) ==
  \/ ApplyPartly(j) \/ LeaveIncomplete(j)
  \/ Forget(j) /\ job[j].step = "complete"
  \/ Overlook(j) /\ Completed(j)

\* What a step adds to the history.
Tangle ==
  tangled' = tangled \cup
    {x \in Txs :
       \/ \E i, j \in UnderWay(x)' : i # j
       \/ \E j \in Jobs : job'[j] # NoJob /\ job'[j].tx = x /\ job'[j].by # chain'[x].by
       \/ \E j \in Running : job[j].tx = x /\ Slips(j)}

\* PaymentSync and its history, without the bounds below.
HistorySpec == Init /\ tangled = {} /\ [][Next /\ Tangle]_<<vars, tangled>>

MCInit == Init /\ tangled = {} /\ moves = 0

MCNext ==
  /\ Next /\ Tangle
  /\ moves' = moves + (IF \E t \in Tabs : page[t].at # "away" /\ ~page'[t].ready THEN 1 ELSE 0)
  /\ moves' <= MaxMoves
  /\ InOrder

MCSpec == MCInit /\ [][MCNext]_<<vars, tangled, moves>>

(* Retries are harmless: a payment that was registered before its request   *)
(* was sent is applied once, however often answers are lost and pages       *)
(* reloaded, unless two of its requests overlapped, another member replayed *)
(* it, or the server slipped: it stopped, failed or could not write between *)
(* the change and its completion, or could not read that it was completed.  *)
RetriesApplyOnce ==
  \A x \in Txs : x \notin tangled /\ row[x].state # "none" => applied[x] <= 1
=============================================================================

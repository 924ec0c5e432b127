---------------------------- MODULE PaymentLedger ----------------------------
(***************************************************************************)
(* What the member pages promise about payments, apart from how they keep   *)
(* the promise: a wallet sends the payment, its outcome is known, and only  *)
(* then is what was bought with it recorded, never for another purpose than *)
(* the one it was sent for.  Whether the outcome was a good one is not part *)
(* of the promise: nobody reads it.                                         *)
(***************************************************************************)
CONSTANTS Txs,      \* payments, named by the hash of their transaction
          Kinds     \* what a payment may be for

VARIABLES decided,  \* the payments with an outcome, each with its purpose
          recorded  \* the payments whose purpose the server has recorded

Decide(x, k) ==
  /\ ~ \E p \in decided : p[1] = x
  /\ decided' = decided \cup {<<x, k>>}
  /\ UNCHANGED recorded

Record(p) ==
  /\ p \in decided \ recorded
  /\ recorded' = recorded \cup {p}
  /\ UNCHANGED decided

Init == decided = {} /\ recorded = {}

Next ==
  \/ \E x \in Txs, k \in Kinds : Decide(x, k)
  \/ \E p \in decided : Record(p)

Spec == Init /\ [][Next]_<<decided, recorded>>
=============================================================================

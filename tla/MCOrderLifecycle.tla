-------------------------- MODULE MCOrderLifecycle --------------------------
(***************************************************************************)
(* Instances of OrderLifecycle for TLC.  One payment that may be retried   *)
(* is enough: added twice it makes a second order or tops up the first.    *)
(***************************************************************************)
EXTENDS OrderLifecycle, TLC

CONSTANT alice

Payer == [p \in Payments |-> alice]
Prices == [p \in Payments |-> 2]

WorkerSymmetry == Permutations(Workers)
=============================================================================

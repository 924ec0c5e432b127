------------------------------ MODULE EventLog ------------------------------
(***************************************************************************)
(* What a follower of the chain promises, without cursor, batches and      *)
(* retries: blocks are only ever added at the end, and those taken in are  *)
(* the first ones, each once and none left out.                            *)
(***************************************************************************)
EXTENDS Integers, Sequences

VARIABLES
  log,    \* the blocks of the chain
  taken   \* which of them have been taken in

vars == <<log, taken>>

Init == log = <<>> /\ taken = {}

Mine ==
  /\ \E b \in DOMAIN log' : log' = Append(log, log'[b])
  /\ UNCHANGED taken

Follow ==
  /\ \E n \in DOMAIN log \ taken : taken' = 1..n
  /\ UNCHANGED log

Next == Mine \/ Follow

Spec == Init /\ [][Next]_vars
=============================================================================

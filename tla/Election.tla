------------------------------ MODULE Election ------------------------------
(***************************************************************************)
(* What an on-chain round promises its members, without clock, fees or     *)
(* packing: candidates are listed before anybody votes, each voter casts   *)
(* one ballot that is never changed, and the round is decided once, for    *)
(* the candidate with the most votes, the earliest of them on a tie.  A    *)
(* cancelled round takes no ballots and is never won.                      *)
(***************************************************************************)
EXTENDS Naturals, Functions

CONSTANTS Rounds, Voters, Counts   \* Counts: votes one ballot may carry

VARIABLES
  stage,    \* "none", "open", "cancelled", "failed" or "elected"
  listed,   \* number of candidates
  ballots,  \* the ballot of each voter; candidate = 0 before it is cast
  winner    \* 0 until elected

electionVars == <<stage, listed, ballots, winner>>

NoBallot == [candidate |-> 0, count |-> 0]
HasVoted(r, v) == ballots[r][v] # NoBallot
NobodyVoted(r) == \A v \in Voters : ~HasVoted(r, v)

VotesFor(r, c) ==
  SumFunctionOnSet([v \in Voters |-> ballots[r][v].count],
                   {v \in Voters : ballots[r][v].candidate = c})

Wins(r, c) ==
  /\ c \in 1..listed[r]
  /\ \A d \in 1..listed[r] :
       \/ VotesFor(r, c) > VotesFor(r, d)
       \/ VotesFor(r, c) = VotesFor(r, d) /\ c <= d

Init ==
  /\ stage = [r \in Rounds |-> "none"] /\ listed = [r \in Rounds |-> 0]
  /\ ballots = [r \in Rounds |-> [v \in Voters |-> NoBallot]]
  /\ winner = [r \in Rounds |-> 0]

Open(r, n) ==
  /\ stage[r] = "none"
  /\ stage' = [stage EXCEPT ![r] = "open"] /\ listed' = [listed EXCEPT ![r] = n]
  /\ UNCHANGED <<ballots, winner>>

Nominate(r) ==
  /\ stage[r] \in {"open", "cancelled"} /\ NobodyVoted(r)
  /\ listed' = [listed EXCEPT ![r] = @ + 1]
  /\ UNCHANGED <<stage, ballots, winner>>

Cast(r, v, c, n) ==
  /\ stage[r] = "open" /\ ~HasVoted(r, v) /\ c \in 1..listed[r]
  /\ ballots' = [ballots EXCEPT ![r][v] = [candidate |-> c, count |-> n]]
  /\ UNCHANGED <<stage, listed, winner>>

Cancel(r) ==
  /\ stage[r] = "open" /\ NobodyVoted(r)
  /\ stage' = [stage EXCEPT ![r] = "cancelled"]
  /\ UNCHANGED <<listed, ballots, winner>>

Fail(r) ==
  /\ stage[r] \in {"open", "cancelled"} /\ NobodyVoted(r)
  /\ stage' = [stage EXCEPT ![r] = "failed"]
  /\ UNCHANGED <<listed, ballots, winner>>

Elect(r, c) ==
  /\ stage[r] = "open" /\ ~NobodyVoted(r) /\ Wins(r, c)
  /\ stage' = [stage EXCEPT ![r] = "elected"]
  /\ winner' = [winner EXCEPT ![r] = c]
  /\ UNCHANGED <<listed, ballots>>

Next ==
  \E r \in Rounds :
    \/ \E n \in 1..2 : Open(r, n)
    \/ Nominate(r) \/ Cancel(r) \/ Fail(r)
    \/ \E v \in Voters, c \in 1..listed[r], n \in Counts : Cast(r, v, c, n)
    \/ \E c \in 1..listed[r] : Elect(r, c)

Spec == Init /\ [][Next]_electionVars
=============================================================================

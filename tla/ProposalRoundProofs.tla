------------------------ MODULE ProposalRoundProofs ------------------------
(***************************************************************************)
(* What concurrent requests on a local round leave exact, for any number of *)
(* members, merchants and requests under way: votes and fees of an option   *)
(* are those recorded for it, no option has more votes from the time of the *)
(* voting than the winner, the limits of options are exceeded by at most    *)
(* one for each further request, the rows explain every fee, and            *)
(* settlements, however many run, are covered by what was paid.  And of the *)
(* pages of a round (MCRoundViews): an up-to-date page is refused what it   *)
(* paid for in the named cases only.                                        *)
(***************************************************************************)
EXTENDS ProposalRound, MCRoundViews, SumLemmas

(* A record of the tables or of a worker, by its fields.                    *)
IsRow(r) == r = [exists |-> r.exists, sched |-> r.sched, coupon |-> r.coupon,
                 winner |-> r.winner, rewards |-> r.rewards, failed |-> r.failed]
IsOption(o) == o = [merchant |-> o.merchant, proposer |-> o.proposer, fee |-> o.fee,
                    ticket |-> o.ticket, votes |-> o.votes, collected |-> o.collected]
IsWork(r) == r = [at |-> r.at, req |-> r.req, view |-> r.view]

(* Identifiers are given out once, and only to options that exist.          *)
OptionsInv ==
  /\ nextOption \in Nat \ {0}
  /\ options = [i \in DOMAIN options |-> options[i]]
  /\ DOMAIN options \subseteq 1..(nextOption - 1)
  /\ \A i \in DOMAIN options : IsOption(options[i])

VotesInv ==
  /\ IsFiniteSet(votes)
  /\ \A v \in votes : v.count \in Int /\ v.fee \in Int /\ v.option \in 1..(nextOption - 1)

WorkInv ==
  /\ work = [w \in Workers |-> work[w]]
  /\ \A w \in Workers :
       /\ IsWork(work[w])
       /\ work[w].at = "commit" /\ work[w].req.kind = "vote" =>
            work[w].req.count \in Int /\ work[w].req.option \in 1..(nextOption - 1)

(* The workers that passed the check and will add an option.                *)
Adding(r) == r.at = "commit" /\ r.req.kind = "add"
Adders == {w \in Workers : Adding(work[w])}
AddersOf(m) == {w \in Workers : Adding(work[w]) /\ work[w].req.member = m}
OptionsOf(m) == {i \in DOMAIN options : options[i].proposer = m}

(* From the moment the limit is reached nobody passes the check any more:   *)
(* what is there and what is still to come stay within the bound.           *)
Room(O, A, limit) ==
  Cardinality(O) >= limit =>
    Cardinality(O) + Cardinality(A) <= limit + Cardinality(Workers) - 1

LimitInv ==
  /\ Room(DOMAIN options, Adders, MaxOptions)
  /\ \A m \in Members : Room(OptionsOf(m), AddersOf(m), MaxPerMember)

IInv == IsRow(row) /\ OptionsInv /\ VotesInv /\ WorkInv /\ LimitInv /\ TallyMatchesVotes

----------------------------------------------------------------------------
(* Counting options and adders.                                             *)

LEMMA WorkersFinite == IsFiniteSet(Workers) /\ Cardinality(Workers) \in Nat \ {0}
BY RoundAssumption, FS_CardinalityType, FS_EmptySet

LEMMA RoomShrinks ==
  ASSUME NEW O, NEW P \in SUBSET O, NEW A \in SUBSET Workers, NEW B \in SUBSET A,
         NEW limit \in Nat, IsFiniteSet(O), Room(O, A, limit)
  PROVE  Room(P, B, limit)
<1>1. IsFiniteSet(A)
  BY WorkersFinite, FS_Subset
<1>2. /\ IsFiniteSet(P) /\ Cardinality(P) <= Cardinality(O)
      /\ IsFiniteSet(B) /\ Cardinality(B) <= Cardinality(A)
  BY <1>1, FS_Subset
<1>3. {Cardinality(O), Cardinality(P), Cardinality(A), Cardinality(B)} \subseteq Nat
  BY <1>1, <1>2, FS_CardinalityType
<1>4. CASE Cardinality(O) >= limit
  BY <1>2, <1>3, <1>4, WorkersFinite DEF Room
<1>5. CASE Cardinality(O) < limit
  BY <1>2, <1>3, <1>5, WorkersFinite DEF Room
<1> QED BY <1>3, <1>4, <1>5

LEMMA RoomEmpty ==
  ASSUME NEW A, NEW limit \in Nat \ {0}
  PROVE  Room({}, A, limit)
BY FS_EmptySet DEF Room

(* An adder stores its option: one more option, one adder less.             *)
LEMMA RoomFills ==
  ASSUME NEW O, NEW o, o \notin O, NEW A \in SUBSET Workers, NEW w \in A,
         NEW limit \in Nat, IsFiniteSet(O), Room(O, A, limit)
  PROVE  Room(O \cup {o}, A \ {w}, limit)
<1>1. IsFiniteSet(A) /\ Cardinality(A) <= Cardinality(Workers)
  BY WorkersFinite, FS_Subset
<1>2. Cardinality(O \cup {o}) = Cardinality(O) + 1
  BY FS_AddElement
<1>3. Cardinality(A \ {w}) = Cardinality(A) - 1
  BY <1>1, FS_RemoveElement
<1>4. {Cardinality(O), Cardinality(A)} \subseteq Nat
  BY <1>1, FS_CardinalityType
<1> QED BY <1>1, <1>2, <1>3, <1>4, WorkersFinite DEF Room

LEMMA OptionsFinite ==
  ASSUME OptionsInv
  PROVE  IsFiniteSet(DOMAIN options) /\ \A m : IsFiniteSet(OptionsOf(m))
<1>1. IsFiniteSet(1..(nextOption - 1))
  BY FS_Interval DEF OptionsInv
<1>2. IsFiniteSet(DOMAIN options)
  BY <1>1, FS_Subset DEF OptionsInv
<1>3. \A m : OptionsOf(m) \subseteq DOMAIN options
  BY DEF OptionsOf
<1> QED BY <1>2, <1>3, FS_Subset

----------------------------------------------------------------------------
(* A worker moves on; what it is about to commit, if anything, is not an    *)
(* option.                                                                  *)

Moves(w) ==
  /\ work' = [x \in Workers |-> work'[x]]
  /\ \A x \in Workers \ {w} : work'[x] = work[x]
  /\ IsWork(work'[w])

LEMMA IdleIsWork ==
  /\ IsWork(Idle) /\ Idle.at = "idle"
  /\ IsWork(Answering) /\ Answering.at = "reread"
  /\ IsWork(Loading) /\ Loading.at = "load"
BY DEF IsWork, Idle, Answering, Loading

(* Nobody sets out to add.                                                  *)
LEMMA FewerAdders ==
  ASSUME IInv, DOMAIN options' = DOMAIN options,
         \A i \in DOMAIN options : options'[i].proposer = options[i].proposer,
         Adders' \subseteq Adders, \A m : AddersOf(m)' \subseteq AddersOf(m)
  PROVE  LimitInv'
<1>1. Room(DOMAIN options, Adders', MaxOptions)
  <2>1. Room(DOMAIN options, Adders, MaxOptions) /\ IsFiniteSet(DOMAIN options)
    BY OptionsFinite DEF IInv, LimitInv
  <2>2. Adders \in SUBSET Workers /\ MaxOptions \in Nat
    BY RoundAssumption DEF Adders
  <2> QED BY <2>1, <2>2, RoomShrinks
<1>2. ASSUME NEW m \in Members
      PROVE  Room(OptionsOf(m), AddersOf(m)', MaxPerMember)
  <2>1. Room(OptionsOf(m), AddersOf(m), MaxPerMember) /\ IsFiniteSet(OptionsOf(m))
    BY OptionsFinite DEF IInv, LimitInv
  <2>2. AddersOf(m) \in SUBSET Workers /\ AddersOf(m)' \in SUBSET AddersOf(m)
    BY DEF AddersOf
  <2>3. MaxPerMember \in Nat
    BY DEF MaxPerMember
  <2> QED BY <2>1, <2>2, <2>3, RoomShrinks
<1>3. \A m \in Members : OptionsOf(m)' = OptionsOf(m)
  BY DEF OptionsOf
<1> QED BY <1>1, <1>2, <1>3 DEF LimitInv, MaxPerMember

(* Nothing of options and votes changes, and nobody sets out to add.        *)
LEMMA QuietStep ==
  ASSUME IInv, NEW w \in Workers, Moves(w), work'[w].at # "commit",
         UNCHANGED <<options, votes, nextOption>>, IsRow(row)'
  PROVE  IInv'
<1>1. OptionsInv' /\ VotesInv' /\ TallyMatchesVotes'
  BY DEF IInv, OptionsInv, VotesInv, TallyMatchesVotes
<1>2. WorkInv'
  BY DEF IInv, WorkInv, Moves
<1>3. Adders' \subseteq Adders /\ \A m : AddersOf(m)' \subseteq AddersOf(m)
  BY DEF Adders, AddersOf, Adding, Moves
<1>4. LimitInv'
  BY <1>3, FewerAdders
<1> QED BY <1>1, <1>2, <1>4 DEF IInv

----------------------------------------------------------------------------
(* The steps that leave options and votes alone.                            *)

Quiet(w) ==
  /\ Moves(w) /\ work'[w].at # "commit"
  /\ UNCHANGED <<options, votes, nextOption>> /\ IsRow(row)'

LEMMA CreateQuiet ==
  ASSUME IInv, NEW w \in Workers, NEW s, NEW c, Create(w, s, c)
  PROVE  Quiet(w)
<1>1. IsRow(row)'
  BY DEF Create, NoRow, IsRow
<1>2. work' = [work EXCEPT ![w] = Answering]
  BY DEF Create
<1> QED BY <1>1, <1>2, IdleIsWork DEF Quiet, Moves, IInv, WorkInv, Create

LEMMA RefreshMoves ==
  ASSUME NEW w \in Workers, Refresh(w) \/ ReadWinner(w) \/ FixWinner(w)
  PROVE  \E t : /\ IsWork(t) /\ t.at \in {"settle", "load", "tally", "fix"}
               /\ work' = [work EXCEPT ![w] = t]
<1>1. \E a, v : /\ a \in {"settle", "load", "tally", "fix"}
               /\ work' = [work EXCEPT ![w] = [at |-> a, req |-> NoRequest, view |-> v]]
  <2> DEFINE T(a, v) == [at |-> a, req |-> NoRequest, view |-> v]
             Done == \E a, v : /\ a \in {"settle", "load", "tally", "fix"}
                               /\ work' = [work EXCEPT ![w] = T(a, v)]
  <2>1. [Idle EXCEPT !.at = "settle"] = T("settle", NoRequest) /\ Loading = T("load", NoRequest)
    BY DEF Idle, Loading
  <2>2. ASSUME NEW r, Refreshed(w, r)
        PROVE  Done
    <3>1. \/ work' = [work EXCEPT ![w] = T("settle", NoRequest)]
          \/ work' = [work EXCEPT ![w] = T("load", NoRequest)]
      BY <2>1, <2>2 DEF Refreshed
    <3> QED BY <3>1
  <2>3. CASE Refresh(w)
    <3>1. Refreshed(w, row) \/ work' = [work EXCEPT ![w] = T("tally", [copy |-> row])]
      BY <2>3 DEF Refresh
    <3> QED BY <2>2, <3>1
  <2>4. CASE ReadWinner(w)
    <3>1. \/ Refreshed(w, work[w].view.copy) \/ work' = [work EXCEPT ![w] = T("load", NoRequest)]
          \/ work' = [work EXCEPT ![w] = T("fix", [copy |-> work[w].view.copy, best |-> BestOption])]
      BY <2>1, <2>4 DEF ReadWinner
    <3> QED BY <2>2, <3>1
  <2>5. CASE FixWinner(w)
    BY <2>2, <2>5 DEF FixWinner
  <2> QED BY <2>3, <2>4, <2>5
<1> QED BY <1>1 DEF IsWork

LEMMA RefreshQuiet ==
  ASSUME IInv, NEW w \in Workers, Refresh(w) \/ ReadWinner(w) \/ FixWinner(w)
  PROVE  Quiet(w)
<1>1. row' = row \/ \E b : row' = [row EXCEPT !.winner = b]
  BY DEF Refresh, ReadWinner, FixWinner
<1>2. IsRow(row)'
  BY <1>1 DEF IInv, IsRow
<1>3. Moves(w) /\ work'[w].at # "commit"
  BY RefreshMoves DEF Moves, IInv, WorkInv
<1> QED BY <1>2, <1>3 DEF Quiet, Refresh, ReadWinner, FixWinner

LEMMA NotFoundQuiet ==
  ASSUME IInv, NEW w \in Workers, NotFound(w)
  PROVE  Quiet(w)
BY IdleIsWork DEF Quiet, Moves, IInv, WorkInv, NotFound, IsRow

LEMMA LoadForSettlementQuiet ==
  ASSUME IInv, NEW w \in Workers, LoadForSettlement(w)
  PROVE  Quiet(w)
<1>1. \E v : \E a \in {"apply", "load"} :
        work' = [work EXCEPT ![w] = [at |-> a, req |-> NoRequest, view |-> v]]
  BY DEF LoadForSettlement
<1>2. Moves(w) /\ work'[w].at # "commit"
  BY <1>1 DEF Moves, IsWork, IInv, WorkInv
<1> QED BY <1>2 DEF Quiet, LoadForSettlement, IInv, IsRow

LEMMA ApplySettlementQuiet ==
  ASSUME IInv, NEW w \in Workers, ApplySettlement(w)
  PROVE  Quiet(w)
<1>1. row' = row \/ \E f : row' = [row EXCEPT !.rewards = TRUE, !.failed = f]
  BY DEF ApplySettlement
<1>2. IsRow(row)'
  BY <1>1 DEF IsRow, IInv
<1>3. Moves(w) /\ work'[w].at # "commit"
  BY IdleIsWork DEF ApplySettlement, Moves, IInv, WorkInv
<1> QED BY <1>2, <1>3 DEF Quiet, ApplySettlement

LEMMA CheckDeletableQuiet ==
  ASSUME IInv, NEW w \in Workers, CheckDeletable(w)
  PROVE  Quiet(w)
<1>1. \/ work' = [work EXCEPT ![w] = Idle]
      \/ \E v : work' = [work EXCEPT ![w] = [at |-> "erase", req |-> work[w].req, view |-> v]]
  BY DEF CheckDeletable
<1>2. Moves(w) /\ work'[w].at # "commit"
  BY <1>1, IdleIsWork DEF Moves, IsWork, IInv, WorkInv
<1> QED BY <1>2 DEF Quiet, CheckDeletable, IInv, IsRow

LEMMA ReadBestOptionQuiet ==
  ASSUME IInv, NEW w \in Workers, ReadBestOption(w)
  PROVE  Quiet(w)
<1>1. \E v : work' = [work EXCEPT ![w] = [at |-> "advance", req |-> NoRequest, view |-> v]]
  BY DEF ReadBestOption
<1>2. Moves(w) /\ work'[w].at # "commit"
  BY <1>1 DEF Moves, IsWork, IInv, WorkInv
<1> QED BY <1>2 DEF Quiet, ReadBestOption, IInv, IsRow

LEMMA AdvanceToOrderingQuiet ==
  ASSUME IInv, NEW w \in Workers, AdvanceToOrdering(w)
  PROVE  Quiet(w)
<1>1. row' = row \/ \E t, b : row' = [row EXCEPT !.sched.vote = t, !.winner = b]
  BY DEF AdvanceToOrdering
<1>2. IsRow(row)'
  BY <1>1 DEF IsRow, IInv
<1> QED BY <1>2, IdleIsWork DEF Quiet, AdvanceToOrdering, Moves, IInv, WorkInv

LEMMA AdvanceProposalStageQuiet ==
  ASSUME IInv, NEW w \in Workers, NEW stage, AdvanceProposalStage(w, stage)
  PROVE  Quiet(w)
<1>1. \E t : row' = [row EXCEPT !.sched.proposal = t] \/ row' = [row EXCEPT !.sched.order = t]
  BY DEF AdvanceProposalStage
<1>2. IsRow(row)'
  BY <1>1 DEF IsRow, IInv
<1> QED BY <1>2, IdleIsWork DEF Quiet, AdvanceProposalStage, Moves, IInv, WorkInv

----------------------------------------------------------------------------
(* The steps that change options, votes or who will add.                    *)

LEMMA LoadKeeps ==
  ASSUME IInv, NEW w \in Workers, Load(w)
  PROVE  IInv'
<1>1. CASE work' = [work EXCEPT ![w] = Idle]
  <2>1. Moves(w) /\ work'[w].at # "commit"
    BY <1>1, IdleIsWork DEF Moves, IInv, WorkInv
  <2>2. UNCHANGED <<options, votes, nextOption>> /\ IsRow(row)'
    BY DEF Load, IInv, IsRow
  <2> QED BY <2>1, <2>2, QuietStep
<1>2. ASSUME NEW req \in Requests, Allowed(req),
             work' = [work EXCEPT ![w] = [at |-> "commit", req |-> req, view |-> NoRequest]]
      PROVE  IInv'
  <2>1. UNCHANGED <<options, votes, nextOption, row>>
    BY DEF Load
  <2>2. IsRow(row)' /\ OptionsInv' /\ VotesInv' /\ TallyMatchesVotes'
    BY <2>1 DEF IInv, IsRow, OptionsInv, VotesInv, TallyMatchesVotes
  <2>3. /\ work = [x \in Workers |-> work[x]] /\ work'[w].at = "commit" /\ work'[w].req = req
        /\ Moves(w)
    BY <1>2 DEF IInv, WorkInv, Moves, IsWork
  <2>4. WorkInv'
    <3>1. req.kind = "vote" => req.count \in Int /\ req.option \in 1..(nextOption - 1)
      <4> SUFFICES ASSUME req.kind = "vote"
                   PROVE  req.count \in Int /\ req.option \in 1..(nextOption - 1)
        OBVIOUS
      <4>1. req.count \in VoteCounts
        BY DEF Requests
      <4>2. req.option \in DOMAIN options
        BY <1>2 DEF Allowed, MayVote
      <4> QED BY <4>1, <4>2, RoundAssumption DEF IInv, OptionsInv
    <3> QED BY <2>1, <2>3, <3>1 DEF IInv, WorkInv, Moves
  <2>5. LimitInv'
    <3>1. CASE req.kind # "add"
      <4>1. Adders' \subseteq Adders /\ \A m : AddersOf(m)' \subseteq AddersOf(m)
        BY <2>3, <3>1 DEF Adders, AddersOf, Adding, Moves
      <4> QED BY <2>1, <4>1, FewerAdders
    <3>2. CASE req.kind = "add"
      <4>1. /\ Cardinality(DOMAIN options) < MaxOptions
            /\ Cardinality(OptionsOf(req.member)) < MaxPerMember
        BY <1>2, <3>2 DEF Allowed, MayAdd, OptionLimit, OptionsOf
      <4>2. Cardinality(DOMAIN options) \in Nat /\ \A m : Cardinality(OptionsOf(m)) \in Nat
        BY OptionsFinite, FS_CardinalityType DEF IInv
      <4>3. Room(DOMAIN options, Adders', MaxOptions)
        BY <4>1, <4>2, RoundAssumption DEF Room
      <4>4. ASSUME NEW m \in Members
            PROVE  Room(OptionsOf(m), AddersOf(m)', MaxPerMember)
        <5>1. CASE m = req.member
          BY <4>1, <4>2, <5>1 DEF Room, MaxPerMember
        <5>2. CASE m # req.member
          <6>1. AddersOf(m)' \subseteq AddersOf(m)
            BY <2>3, <5>2 DEF AddersOf, Adding, Moves
          <6> QED BY <6>1, RoomShrinks, OptionsFinite DEF IInv, LimitInv, AddersOf, MaxPerMember
        <5> QED BY <5>1, <5>2
      <4> QED BY <4>3, <4>4, <2>1 DEF LimitInv, MaxPerMember, OptionsOf
    <3> QED BY <3>1, <3>2
  <2> QED BY <2>2, <2>4, <2>5 DEF IInv
<1> QED BY <1>1, <1>2 DEF Load

LEMMA TickKeeps ==
  ASSUME IInv, Tick
  PROVE  IInv'
BY DEF IInv, Tick, IsRow, OptionsInv, VotesInv, WorkInv, LimitInv, TallyMatchesVotes, Room,
       Adders, AddersOf, OptionsOf, Adding

(* A deleted round has neither options nor votes.                           *)
LEMMA DeleteKeeps ==
  ASSUME IInv, NEW w \in Workers, DeleteProposalByCreator(w)
  PROVE  IInv'
<1>1. /\ options' = <<>> /\ votes' = {} /\ UNCHANGED nextOption
      /\ row' = [row EXCEPT !.exists = FALSE] /\ work' = [work EXCEPT ![w] = Idle]
  BY DEF DeleteProposalByCreator
<1>2. DOMAIN options' = {}
  BY <1>1
<1>3. IsRow(row)'
  BY <1>1 DEF IInv, IsRow
<1>4. OptionsInv' /\ TallyMatchesVotes'
  BY <1>1, <1>2 DEF IInv, OptionsInv, TallyMatchesVotes
<1>5. VotesInv'
  BY <1>1, FS_EmptySet DEF VotesInv
<1>6. WorkInv'
  BY <1>1, IdleIsWork DEF IInv, WorkInv
<1>7. LimitInv'
  <2>1. \A m \in Members : OptionsOf(m)' = {}
    BY <1>2 DEF OptionsOf
  <2>2. Room({}, Adders', MaxOptions)
    BY RoomEmpty, RoundAssumption
  <2>3. \A m \in Members : Room({}, AddersOf(m)', MaxPerMember)
    BY RoomEmpty DEF MaxPerMember
  <2> QED BY <2>1, <2>2, <2>3, <1>2 DEF LimitInv, MaxPerMember
<1> QED BY <1>3, <1>4, <1>5, <1>6, <1>7 DEF IInv

----------------------------------------------------------------------------
(* What the votes V add up to for the option i.                             *)

For(V, i)    == {v \in V : v.option = i}
Counts(V, i) == Total([v \in For(V, i) |-> v.count])
FeesOf(V, i) == Total([v \in For(V, i) |-> v.fee])

LEMMA TallyByOption ==
  TallyMatchesVotes <=> \A i \in DOMAIN options : /\ options[i].votes = Counts(votes, i)
                                                  /\ options[i].collected = FeesOf(votes, i)
BY DEF TallyMatchesVotes, Counts, FeesOf, For

LEMMA NoVotesYet ==
  ASSUME NEW V, NEW i, For(V, i) = {}
  PROVE  Counts(V, i) = 0 /\ FeesOf(V, i) = 0
<1>1. /\ Counts(V, i) = SumFunctionOnSet([v \in {} |-> v.count], {})
      /\ FeesOf(V, i) = SumFunctionOnSet([v \in {} |-> v.fee], {})
  BY DEF Counts, FeesOf, Total, SumFunction
<1> QED BY <1>1, SumEmpty

LEMMA OneVoteMore ==
  ASSUME NEW V, IsFiniteSet(V), NEW x, x \notin V, NEW i,
         \A v \in V \cup {x} : v.count \in Int /\ v.fee \in Int
  PROVE  /\ x.option = i => /\ Counts(V \cup {x}, i) = Counts(V, i) + x.count
                            /\ FeesOf(V \cup {x}, i) = FeesOf(V, i) + x.fee
         /\ x.option # i => /\ Counts(V \cup {x}, i) = Counts(V, i)
                            /\ FeesOf(V \cup {x}, i) = FeesOf(V, i)
<1>1. CASE x.option # i
  <2>1. For(V \cup {x}, i) = For(V, i)
    BY <1>1 DEF For
  <2> QED BY <1>1, <2>1 DEF Counts, FeesOf
<1>2. CASE x.option = i
  <2> DEFINE S == For(V, i)
  <2>1. For(V \cup {x}, i) = S \cup {x} /\ x \notin S /\ S \subseteq V
    BY <1>2 DEF For
  <2>2. IsFiniteSet(S)
    BY <2>1, FS_Subset
  <2> HIDE DEF S
  <2>3. Counts(V \cup {x}, i) = Counts(V, i) + x.count
    <3> DEFINE g == [v \in S \cup {x} |-> v.count]
               f == [v \in S |-> v.count]
    <3>1. /\ Counts(V \cup {x}, i) = SumFunctionOnSet(g, S \cup {x})
          /\ Counts(V, i) = SumFunctionOnSet(f, S)
      BY <2>1 DEF Counts, Total, SumFunction, S
    <3>2. IntValued(g, S \cup {x})
      BY <2>1 DEF IntValued
    <3>3. \A v \in S : g[v] = f[v]
      OBVIOUS
    <3>4. g[x] = x.count
      OBVIOUS
    <3> HIDE DEF f, g
    <3>5. SumFunctionOnSet(g, S \cup {x}) = SumFunctionOnSet(f, S) + g[x]
      BY <2>1, <2>2, <3>2, <3>3, SumOneMore
    <3> QED BY <3>1, <3>4, <3>5
  <2>4. FeesOf(V \cup {x}, i) = FeesOf(V, i) + x.fee
    <3> DEFINE g == [v \in S \cup {x} |-> v.fee]
               f == [v \in S |-> v.fee]
    <3>1. /\ FeesOf(V \cup {x}, i) = SumFunctionOnSet(g, S \cup {x})
          /\ FeesOf(V, i) = SumFunctionOnSet(f, S)
      BY <2>1 DEF FeesOf, Total, SumFunction, S
    <3>2. IntValued(g, S \cup {x})
      BY <2>1 DEF IntValued
    <3>3. \A v \in S : g[v] = f[v]
      OBVIOUS
    <3>4. g[x] = x.fee
      OBVIOUS
    <3> HIDE DEF f, g
    <3>5. SumFunctionOnSet(g, S \cup {x}) = SumFunctionOnSet(f, S) + g[x]
      BY <2>1, <2>2, <3>2, <3>3, SumOneMore
    <3> QED BY <3>1, <3>4, <3>5
  <2> QED BY <1>2, <2>3, <2>4
<1> QED BY <1>1, <1>2

----------------------------------------------------------------------------
(* A vote is recorded, and counted for its option if that is still there.   *)

LEMMA VoteOnOption ==
  ASSUME NEW o, IsOption(o), NEW count, NEW fee
  PROVE  /\ IsOption(WithVote(o, count, fee))
         /\ WithVote(o, count, fee).proposer = o.proposer
         /\ WithVote(o, count, fee).fee = o.fee /\ WithVote(o, count, fee).ticket = o.ticket
         /\ WithVote(o, count, fee).votes = o.votes + count
         /\ WithVote(o, count, fee).collected = o.collected + fee
<1> DEFINE q == [o EXCEPT !.votes = @ + count]
           r == [o EXCEPT !.votes = @ + count, !.collected = @ + fee]
<1>1. /\ IsOption(q) /\ q.proposer = o.proposer /\ q.fee = o.fee /\ q.ticket = o.ticket
      /\ q.votes = o.votes + count /\ q.collected = o.collected
  BY DEF IsOption
<1>2. /\ IsOption([q EXCEPT !.collected = @ + fee])
      /\ [q EXCEPT !.collected = @ + fee].proposer = o.proposer
      /\ [q EXCEPT !.collected = @ + fee].fee = o.fee
      /\ [q EXCEPT !.collected = @ + fee].ticket = o.ticket
      /\ [q EXCEPT !.collected = @ + fee].votes = o.votes + count
      /\ [q EXCEPT !.collected = @ + fee].collected = o.collected + fee
  <2> HIDE DEF q
  <2> QED BY <1>1 DEF IsOption
<1>3. r = [q EXCEPT !.collected = @ + fee]
  BY DEF IsOption
<1>4. WithVote(o, count, fee) = r
  BY DEF WithVote, Counted
<1> QED BY <1>2, <1>3, <1>4

LEMMA RecordVoteKeeps ==
  ASSUME IInv, NEW w \in Workers, RecordVote(w)
  PROVE  IInv'
<1> DEFINE req == work[w].req
           m   == req.member
           i   == req.option
           fee == VoteFeeFor(req)
<1>1. /\ work[w].at = "commit" /\ req.kind = "vote"
      /\ UNCHANGED <<row, nextOption>>
  BY DEF RecordVote
<1>2. CASE ~(FirstVote(m) /\ (req.ticket => tickets[m].vote > 0))
  <2>1. work' = [work EXCEPT ![w] = Idle] /\ UNCHANGED <<options, votes>>
    BY <1>2 DEF RecordVote
  <2>2. Moves(w) /\ work'[w].at # "commit" /\ IsRow(row)'
    BY <1>1, <2>1, IdleIsWork DEF Moves, IInv, WorkInv, IsRow
  <2> QED BY <1>1, <2>1, <2>2, QuietStep
<1>3. CASE FirstVote(m) /\ (req.ticket => tickets[m].vote > 0)
  <2> DEFINE x == [member |-> m, option |-> i, count |-> req.count, fee |-> fee,
                   ticket |-> req.ticket, late |-> VotingOver]
  <2>1. /\ votes' = votes \cup {x}
        /\ work' = [work EXCEPT ![w] = Answering]
        /\ options' = IF i \notin DOMAIN options THEN options
                      ELSE [options EXCEPT ![i] = WithVote(@, req.count, fee)]
    BY <1>3 DEF RecordVote
  <2>2. req.count \in Int /\ i \in 1..(nextOption - 1) /\ fee \in Int
    <3>1. req.count \in Int /\ i \in 1..(nextOption - 1)
      BY <1>1 DEF IInv, WorkInv
    <3>2. VoteFee \in Int
      BY RoundAssumption
    <3> QED BY <3>1, <3>2 DEF VoteFeeFor
  <2>3. /\ x \notin votes /\ x.option = i /\ x.count = req.count /\ x.fee = fee
        /\ x.count \in Int /\ x.fee \in Int
    BY <1>3, <2>2 DEF FirstVote
  <2>4. /\ options' = [j \in DOMAIN options' |-> options'[j]]
        /\ DOMAIN options' = DOMAIN options
        /\ \A j \in DOMAIN options :
             /\ IsOption(options'[j]) /\ options'[j].proposer = options[j].proposer
             /\ j # i => options'[j] = options[j]
             /\ j = i => /\ options'[j].votes = options[j].votes + req.count
                         /\ options'[j].collected = options[j].collected + fee
    BY <2>1, VoteOnOption DEF IInv, OptionsInv
  <2> HIDE DEF x, fee
  <2>5. OptionsInv' /\ IsRow(row)'
    BY <1>1, <2>4 DEF IInv, OptionsInv, IsRow
  <2>6. VotesInv'
    BY <1>1, <2>1, <2>2, <2>3, FS_AddElement DEF IInv, VotesInv
  <2>7. Moves(w) /\ work'[w].at # "commit"
    BY <2>1, IdleIsWork DEF Moves, IInv, WorkInv
  <2>8. WorkInv'
    BY <1>1, <2>7 DEF Moves, IInv, WorkInv
  <2>9. LimitInv'
    <3>1. Adders' \subseteq Adders /\ \A n : AddersOf(n)' \subseteq AddersOf(n)
      BY <2>7 DEF Adders, AddersOf, Adding, Moves
    <3> QED BY <2>4, <3>1, FewerAdders
  <2>10. TallyMatchesVotes'
    <3>1. IsFiniteSet(votes) /\ \A v \in votes \cup {x} : v.count \in Int /\ v.fee \in Int
      BY <2>3 DEF IInv, VotesInv
    <3>2. ASSUME NEW j \in DOMAIN options
          PROVE  /\ options'[j].votes = Counts(votes \cup {x}, j)
                 /\ options'[j].collected = FeesOf(votes \cup {x}, j)
      <4>1. options[j].votes = Counts(votes, j) /\ options[j].collected = FeesOf(votes, j)
        BY TallyByOption DEF IInv
      <4>2. /\ i = j => /\ Counts(votes \cup {x}, j) = Counts(votes, j) + req.count
                        /\ FeesOf(votes \cup {x}, j) = FeesOf(votes, j) + fee
            /\ i # j => /\ Counts(votes \cup {x}, j) = Counts(votes, j)
                        /\ FeesOf(votes \cup {x}, j) = FeesOf(votes, j)
        BY <2>3, <3>1, OneVoteMore
      <4> QED BY <2>4, <4>1, <4>2
    <3> QED BY <2>1, <2>4, <3>2 DEF TallyMatchesVotes, Counts, FeesOf, For
  <2> QED BY <2>5, <2>6, <2>8, <2>9, <2>10 DEF IInv
<1> QED BY <1>2, <1>3

----------------------------------------------------------------------------
(* An option is stored under an identifier nobody voted for yet, and takes   *)
(* the place its worker had been counted for.                               *)

LEMMA InsertKeeps ==
  ASSUME IInv, NEW w \in Workers, InsertProposalOption(w)
  PROVE  IInv'
<1> DEFINE req == work[w].req
           m   == req.member
           o   == nextOption
<1>1. /\ work[w].at = "commit" /\ req.kind = "add"
      /\ UNCHANGED <<row, votes>>
  BY DEF InsertProposalOption
<1>2. CASE ~MerchantIndex(req.merchant)
  <2>1. work' = [work EXCEPT ![w] = Idle] /\ UNCHANGED <<options, nextOption>>
    BY <1>2 DEF InsertProposalOption
  <2>2. Moves(w) /\ work'[w].at # "commit" /\ IsRow(row)'
    BY <1>1, <2>1, IdleIsWork DEF Moves, IInv, WorkInv, IsRow
  <2> QED BY <1>1, <2>1, <2>2, QuietStep
<1>3. CASE MerchantIndex(req.merchant)
  <2> DEFINE used == UsesProposalTicket(req)
             q    == [merchant |-> req.merchant, proposer |-> m,
                      fee |-> IF used THEN 0 ELSE ProposalFee,
                      ticket |-> used, votes |-> 0, collected |-> 0]
  <2>1. /\ options' = [i \in DOMAIN options \cup {o} |->
                         IF i \in DOMAIN options THEN options[i] ELSE q]
        /\ nextOption' = o + 1
        /\ work' = [work EXCEPT ![w] = Answering]
    BY <1>3 DEF InsertProposalOption
  <2>2. IsOption(q) /\ q.proposer = m /\ q.votes = 0 /\ q.collected = 0
    BY DEF IsOption
  <2> HIDE DEF q
  <2>3. o \in Nat \ {0} /\ o \notin DOMAIN options
    BY DEF IInv, OptionsInv
  <2>4. /\ options' = [i \in DOMAIN options' |-> options'[i]]
        /\ DOMAIN options' = DOMAIN options \cup {o}
        /\ options'[o] = q /\ \A i \in DOMAIN options : options'[i] = options[i]
    BY <2>1, <2>3
  <2>5. OptionsInv' /\ IsRow(row)'
    BY <1>1, <2>1, <2>2, <2>3, <2>4 DEF IInv, OptionsInv, IsRow
  <2>6. VotesInv'
    BY <1>1, <2>1, <2>3 DEF IInv, VotesInv
  <2>7. Moves(w) /\ work'[w].at # "commit"
    BY <2>1, IdleIsWork DEF Moves, IInv, WorkInv
  <2>8. WorkInv'
    BY <2>1, <2>3, <2>7 DEF Moves, IInv, WorkInv
  <2>9. LimitInv'
    <3>1. Room(DOMAIN options \cup {o}, Adders', MaxOptions)
      <4>1. w \in Adders /\ Adders \in SUBSET Workers /\ Adders' = Adders \ {w}
        BY <1>1, <2>7 DEF Adders, Adding, Moves
      <4>2. Room(DOMAIN options, Adders, MaxOptions) /\ IsFiniteSet(DOMAIN options)
        BY OptionsFinite DEF IInv, LimitInv
      <4>3. MaxOptions \in Nat
        BY RoundAssumption
      <4>4. Room(DOMAIN options \cup {o}, Adders \ {w}, MaxOptions)
        BY <2>3, <4>1, <4>2, <4>3, RoomFills
      <4> QED BY <4>1, <4>4
    <3>2. ASSUME NEW n \in Members
          PROVE  Room(OptionsOf(n)', AddersOf(n)', MaxPerMember)
      <4>1. /\ Room(OptionsOf(n), AddersOf(n), MaxPerMember)
            /\ IsFiniteSet(OptionsOf(n)) /\ MaxPerMember \in Nat
            /\ AddersOf(n) \in SUBSET Workers
        BY OptionsFinite DEF IInv, LimitInv, AddersOf, MaxPerMember
      <4>2. CASE n = m
        <5>1. w \in AddersOf(n) /\ AddersOf(n)' = AddersOf(n) \ {w}
          BY <1>1, <2>7, <4>2 DEF AddersOf, Adding, Moves
        <5>2. OptionsOf(n)' = OptionsOf(n) \cup {o} /\ o \notin OptionsOf(n)
          BY <2>2, <2>3, <2>4, <4>2 DEF OptionsOf
        <5>3. Room(OptionsOf(n) \cup {o}, AddersOf(n) \ {w}, MaxPerMember)
          BY <4>1, <5>1, <5>2, RoomFills
        <5> QED BY <5>1, <5>2, <5>3
      <4>3. CASE n # m
        <5>1. AddersOf(n)' \in SUBSET AddersOf(n)
          BY <2>7 DEF AddersOf, Adding, Moves
        <5>2. OptionsOf(n)' = OptionsOf(n)
          BY <2>2, <2>3, <2>4, <4>3 DEF OptionsOf
        <5>3. Room(OptionsOf(n), AddersOf(n)', MaxPerMember)
          BY <4>1, <5>1, RoomShrinks
        <5> QED BY <5>2, <5>3
      <4> QED BY <4>2, <4>3
    <3> QED BY <2>4, <3>1, <3>2 DEF LimitInv, MaxPerMember
  <2>10. TallyMatchesVotes'
    <3>1. For(votes, o) = {}
      BY <2>3 DEF For, IInv, VotesInv
    <3>2. ASSUME NEW j \in DOMAIN options \cup {o}
          PROVE  /\ options'[j].votes = Counts(votes, j)
                 /\ options'[j].collected = FeesOf(votes, j)
      BY <2>2, <2>4, <3>1, NoVotesYet, TallyByOption DEF IInv
    <3> QED BY <1>1, <2>4, <3>2 DEF TallyMatchesVotes, Counts, FeesOf, For
  <2> QED BY <2>5, <2>6, <2>8, <2>9, <2>10 DEF IInv
<1> QED BY <1>2, <1>3

----------------------------------------------------------------------------
LEMMA InitInv ==
  ASSUME Init
  PROVE  IInv
<1>1. IsRow(row)
  BY DEF Init, NoRow, IsRow
<1>2. DOMAIN options = {}
  BY DEF Init
<1>3. OptionsInv /\ TallyMatchesVotes
  BY <1>2 DEF Init, OptionsInv, TallyMatchesVotes
<1>4. VotesInv
  BY FS_EmptySet DEF Init, VotesInv
<1>5. WorkInv
  BY IdleIsWork DEF Init, WorkInv
<1>6. LimitInv
  <2>1. \A m \in Members : OptionsOf(m) = {}
    BY <1>2 DEF OptionsOf
  <2>2. Room({}, Adders, MaxOptions)
    BY RoomEmpty, RoundAssumption
  <2>3. \A m \in Members : Room({}, AddersOf(m), MaxPerMember)
    BY RoomEmpty DEF MaxPerMember
  <2> QED BY <1>2, <2>1, <2>2, <2>3 DEF LimitInv, MaxPerMember
<1> QED BY <1>1, <1>3, <1>4, <1>5, <1>6 DEF IInv

LEMMA StepKeeps ==
  ASSUME IInv, [Next]_vars
  PROVE  IInv'
<1>1. CASE Tick
  BY <1>1, TickKeeps
<1>2. ASSUME NEW w \in Workers, Quiet(w)
      PROVE  IInv'
  BY <1>2, QuietStep DEF Quiet
<1>3. ASSUME NEW w \in Workers, NEW s \in Schedules, NEW c \in CouponChoices, Create(w, s, c)
      PROVE  IInv'
  BY <1>2, <1>3, CreateQuiet
<1>4. ASSUME NEW w \in Workers, Begin(w) \/ ReadBestOption(w)
      PROVE  IInv'
  BY <1>2, <1>4, RefreshQuiet, ReadBestOptionQuiet DEF Begin
<1>5. ASSUME NEW w \in Workers, NEW stage \in AdminStages, AdvanceProposalStage(w, stage)
      PROVE  IInv'
  BY <1>2, <1>5, AdvanceProposalStageQuiet
<1>6. ASSUME NEW w \in Workers, Step(w)
      PROVE  IInv'
  <2>1. CASE Reread(w) \/ ReadWinner(w) \/ FixWinner(w) \/ NotFound(w)
    BY <1>2, <2>1, RefreshQuiet, NotFoundQuiet DEF Reread
  <2>2. CASE LoadForSettlement(w) \/ ApplySettlement(w)
    BY <1>2, <2>2, LoadForSettlementQuiet, ApplySettlementQuiet
  <2>3. CASE CheckDeletable(w) \/ AdvanceToOrdering(w)
    BY <1>2, <2>3, CheckDeletableQuiet, AdvanceToOrderingQuiet
  <2>4. CASE Load(w)
    BY <2>4, LoadKeeps
  <2>5. CASE InsertProposalOption(w)
    BY <2>5, InsertKeeps
  <2>6. CASE RecordVote(w)
    BY <2>6, RecordVoteKeeps
  <2>7. CASE DeleteProposalByCreator(w)
    BY <2>7, DeleteKeeps
  <2> QED BY <1>6, <2>1, <2>2, <2>3, <2>4, <2>5, <2>6, <2>7 DEF Step
<1>7. CASE UNCHANGED vars
  BY <1>7 DEF vars, IInv, IsRow, OptionsInv, VotesInv, WorkInv, LimitInv, TallyMatchesVotes, Room,
       Adders, AddersOf, OptionsOf, Adding
<1> QED BY <1>1, <1>3, <1>4, <1>5, <1>6, <1>7 DEF Next

(* What the theorems below rest on.                                         *)
THEOREM Invariant == Spec => []IInv
<1>1. Init => IInv
  BY InitInv
<1>2. IInv /\ [Next]_vars => IInv'
  BY StepKeeps
<1> QED BY <1>1, <1>2, PTL DEF Spec

(* Votes and fees of each option are exactly those of the votes recorded    *)
(* for it, however the requests overlap (postgres.go:1315-1368).            *)
THEOREM TalliesAreExact == Spec => []TallyMatchesVotes
<1>1. IInv => TallyMatchesVotes
  BY DEF IInv
<1> QED BY <1>1, Invariant, PTL

(* The limits of options for a round and for a member are exceeded by at    *)
(* most one for each further request (service/proposal.go:146-181).         *)
THEOREM OvershootIsLimited == Spec => []OvershootBounded
<1>1. ASSUME NEW O, NEW A \in SUBSET Workers, NEW limit \in Nat, IsFiniteSet(O),
             Room(O, A, limit)
      PROVE  Cardinality(O) <= limit + (Cardinality(Workers) - 1)
  <2>1. Cardinality(O) \in Nat /\ Cardinality(A) \in Nat
    BY <1>1, WorkersFinite, FS_Subset, FS_CardinalityType
  <2> QED BY <1>1, <2>1, WorkersFinite DEF Room
<1>2. ASSUME IInv
      PROVE  OvershootBounded
  <2>1. Cardinality(DOMAIN options) <= MaxOptions + (Cardinality(Workers) - 1)
    BY <1>1, <1>2, OptionsFinite, RoundAssumption DEF IInv, LimitInv, Adders
  <2>2. ASSUME NEW m \in Members
        PROVE  Cardinality(OptionsOf(m)) <= MaxPerMember + (Cardinality(Workers) - 1)
    BY <1>1, <1>2, OptionsFinite DEF IInv, LimitInv, AddersOf, MaxPerMember
  <2> QED BY <2>1, <2>2 DEF OvershootBounded, OptionsOf
<1> QED BY <1>2, Invariant, PTL

----------------------------------------------------------------------------
(* What the rows say a member paid and used.                                *)

OptionsBy(O, m)     == {i \in DOMAIN O : O[i].proposer = m}
OptionFees(O, m)    == Total([i \in OptionsBy(O, m) |-> O[i].fee])
OptionTickets(O, m) == Cardinality({i \in OptionsBy(O, m) : O[i].ticket})
CastBy(V, m)        == {v \in V : v.member = m}
CastFees(V, m)      == Total([v \in CastBy(V, m) |-> v.fee])
CastTickets(V, m)   == Cardinality({v \in CastBy(V, m) : v.ticket})
CreationFee(r, m)   == IF m = Creator /\ ~r.coupon THEN CreateFee ELSE 0

Explained ==
  \A m \in Members :
    /\ paid[m] = CreationFee(row, m) + OptionFees(options, m) + CastFees(votes, m)
    /\ tickets[m].proposal + OptionTickets(options, m) = Tickets
    /\ tickets[m].vote + CastTickets(votes, m) = Tickets

IsSched(s) == s = [proposal |-> s.proposal, vote |-> s.vote, order |-> s.order,
                   dayStart |-> s.dayStart, dayEnd |-> s.dayEnd]

(* Until the round is created nobody has done anything.                     *)
Blank == row.sched.dayEnd = 0
Untouched ==
  /\ row = NoRow /\ options = <<>> /\ votes = {}
  /\ work = [w \in Workers |-> Idle]
  /\ paid = [m \in Members |-> 0]
  /\ tickets = [m \in Members |-> [proposal |-> Tickets, vote |-> Tickets]]

FeesInv ==
  /\ now \in Nat /\ IsSched(row.sched)
  /\ Blank => Untouched
  /\ paid \in [Members -> Int]
  /\ tickets \in [Members -> [proposal: Int, vote: Int]]
  /\ \A i \in DOMAIN options : options[i].fee \in Int
  /\ \A w \in Workers :
       work[w].at = "commit" /\ work[w].req.kind \in {"add", "vote"} =>
         work[w].req.member \in Members
  /\ row.exists => Explained

LEMMA ExplainedIsFeesAndTickets == (row.exists => Explained) <=> FeesAndTickets
BY DEF Explained, FeesAndTickets, OptionsBy, OptionFees, OptionTickets, CastBy, CastFees,
       CastTickets, CreationFee

(* The rows of a new round say nothing.                                     *)
LEMMA NothingYet ==
  ASSUME NEW m
  PROVE  /\ OptionFees(<<>>, m) = 0 /\ OptionTickets(<<>>, m) = 0
         /\ CastFees({}, m) = 0 /\ CastTickets({}, m) = 0
<1>1. OptionsBy(<<>>, m) = {} /\ CastBy({}, m) = {}
  BY DEF OptionsBy, CastBy
<1>2. /\ OptionTickets(<<>>, m) = Cardinality({}) /\ CastTickets({}, m) = Cardinality({})
  BY <1>1 DEF OptionTickets, CastTickets
<1>3. /\ OptionFees(<<>>, m) = SumFunctionOnSet([i \in {} |-> <<>>[i].fee], {})
      /\ CastFees({}, m) = SumFunctionOnSet([v \in {} |-> v.fee], {})
  BY <1>1 DEF OptionFees, CastFees, Total, SumFunction
<1> QED BY <1>2, <1>3, SumEmpty, FS_EmptySet

(* Votes for an option change neither who proposed it nor what that cost.   *)
LEMMA SameOptions ==
  ASSUME NEW O, NEW P, DOMAIN P = DOMAIN O, NEW m,
         \A i \in DOMAIN O : /\ P[i].proposer = O[i].proposer
                             /\ P[i].fee = O[i].fee /\ P[i].ticket = O[i].ticket
  PROVE  OptionFees(P, m) = OptionFees(O, m) /\ OptionTickets(P, m) = OptionTickets(O, m)
<1> DEFINE S == OptionsBy(O, m)
<1>1. OptionsBy(P, m) = S /\ S \subseteq DOMAIN O
  BY DEF OptionsBy
<1> HIDE DEF S
<1>2. [i \in S |-> P[i].fee] = [i \in S |-> O[i].fee]
  BY <1>1
<1>3. {i \in S : P[i].ticket} = {i \in S : O[i].ticket}
  BY <1>1
<1> QED BY <1>1, <1>2, <1>3 DEF OptionFees, OptionTickets, S

LEMMA OneOptionMore ==
  ASSUME NEW O, NEW P, NEW x, x \notin DOMAIN O, DOMAIN P = DOMAIN O \cup {x},
         \A i \in DOMAIN O : P[i] = O[i], IsFiniteSet(DOMAIN O),
         \A i \in DOMAIN P : P[i].fee \in Int, NEW m
  PROVE  /\ P[x].proposer = m =>
              /\ OptionFees(P, m) = OptionFees(O, m) + P[x].fee
              /\ OptionTickets(P, m) = OptionTickets(O, m) + (IF P[x].ticket THEN 1 ELSE 0)
         /\ P[x].proposer # m => /\ OptionFees(P, m) = OptionFees(O, m)
                                 /\ OptionTickets(P, m) = OptionTickets(O, m)
<1> DEFINE S == OptionsBy(O, m)
           f == [i \in S |-> O[i].fee]
           g == [i \in OptionsBy(P, m) |-> P[i].fee]
           B == {i \in S : O[i].ticket}
<1>1. S \subseteq DOMAIN O /\ x \notin S /\ IsFiniteSet(S)
  BY FS_Subset DEF OptionsBy
<1>2. IsFiniteSet(B) /\ x \notin B /\ B \subseteq S
  BY <1>1, FS_Subset
<1>3. CASE P[x].proposer # m
  <2>1. OptionsBy(P, m) = S
    BY <1>3 DEF OptionsBy
  <2>2. g = f
    BY <2>1, <1>1
  <2>3. {i \in OptionsBy(P, m) : P[i].ticket} = B
    BY <2>1, <1>1
  <2> QED BY <1>3, <2>1, <2>2, <2>3 DEF OptionFees, OptionTickets
<1>4. CASE P[x].proposer = m
  <2>1. OptionsBy(P, m) = S \cup {x}
    BY <1>4 DEF OptionsBy
  <2>2. /\ DOMAIN g = S \cup {x} /\ g[x] = P[x].fee /\ IntValued(g, S \cup {x})
        /\ \A i \in S : g[i] = f[i]
    BY <2>1, <1>1 DEF IntValued
  <2>3. /\ OptionFees(P, m) = SumFunctionOnSet(g, S \cup {x})
        /\ OptionFees(O, m) = SumFunctionOnSet(f, S)
    BY <2>1 DEF OptionFees, Total, SumFunction
  <2>4. {i \in OptionsBy(P, m) : P[i].ticket} = IF P[x].ticket THEN B \cup {x} ELSE B
    BY <2>1, <1>1
  <2>5. OptionTickets(P, m) = OptionTickets(O, m) + (IF P[x].ticket THEN 1 ELSE 0)
    <3>1. OptionTickets(O, m) = Cardinality(B)
      BY DEF OptionTickets
    <3>2. OptionTickets(P, m) = Cardinality(IF P[x].ticket THEN B \cup {x} ELSE B)
      BY <2>4 DEF OptionTickets
    <3> HIDE DEF B
    <3>3. Cardinality(B) \in Nat /\ Cardinality(B \cup {x}) = Cardinality(B) + 1
      BY <1>2, FS_AddElement, FS_CardinalityType
    <3> QED BY <3>1, <3>2, <3>3
  <2> HIDE DEF f, g, S
  <2>6. SumFunctionOnSet(g, S \cup {x}) = SumFunctionOnSet(f, S) + g[x]
    BY <1>1, <2>2, SumOneMore
  <2> QED BY <1>4, <2>2, <2>3, <2>5, <2>6
<1> QED BY <1>3, <1>4

LEMMA OneCastMore ==
  ASSUME NEW V, IsFiniteSet(V), NEW x, x \notin V,
         \A v \in V \cup {x} : v.fee \in Int, NEW m
  PROVE  /\ x.member = m =>
              /\ CastFees(V \cup {x}, m) = CastFees(V, m) + x.fee
              /\ CastTickets(V \cup {x}, m) = CastTickets(V, m) + (IF x.ticket THEN 1 ELSE 0)
         /\ x.member # m => /\ CastFees(V \cup {x}, m) = CastFees(V, m)
                            /\ CastTickets(V \cup {x}, m) = CastTickets(V, m)
<1> DEFINE S == CastBy(V, m)
           f == [v \in S |-> v.fee]
           g == [v \in CastBy(V \cup {x}, m) |-> v.fee]
           B == {v \in S : v.ticket}
<1>1. S \subseteq V /\ x \notin S /\ IsFiniteSet(S)
  BY FS_Subset DEF CastBy
<1>2. IsFiniteSet(B) /\ x \notin B /\ B \subseteq S
  BY <1>1, FS_Subset
<1>3. CASE x.member # m
  <2>1. CastBy(V \cup {x}, m) = S
    BY <1>3 DEF CastBy
  <2> QED BY <1>3, <2>1 DEF CastFees, CastTickets
<1>4. CASE x.member = m
  <2>1. CastBy(V \cup {x}, m) = S \cup {x}
    BY <1>4 DEF CastBy
  <2>2. /\ DOMAIN g = S \cup {x} /\ g[x] = x.fee /\ IntValued(g, S \cup {x})
        /\ \A v \in S : g[v] = f[v]
    BY <2>1, <1>1 DEF IntValued
  <2>3. /\ CastFees(V \cup {x}, m) = SumFunctionOnSet(g, S \cup {x})
        /\ CastFees(V, m) = SumFunctionOnSet(f, S)
    BY <2>1 DEF CastFees, Total, SumFunction
  <2>4. {v \in CastBy(V \cup {x}, m) : v.ticket} = IF x.ticket THEN B \cup {x} ELSE B
    BY <2>1
  <2>5. CastTickets(V \cup {x}, m) = CastTickets(V, m) + (IF x.ticket THEN 1 ELSE 0)
    <3>1. CastTickets(V, m) = Cardinality(B)
      BY DEF CastTickets
    <3>2. CastTickets(V \cup {x}, m) = Cardinality(IF x.ticket THEN B \cup {x} ELSE B)
      BY <2>4 DEF CastTickets
    <3> HIDE DEF B
    <3>3. Cardinality(B) \in Nat /\ Cardinality(B \cup {x}) = Cardinality(B) + 1
      BY <1>2, FS_AddElement, FS_CardinalityType
    <3> QED BY <3>1, <3>2, <3>3
  <2> HIDE DEF f, g, S
  <2>6. SumFunctionOnSet(g, S \cup {x}) = SumFunctionOnSet(f, S) + g[x]
    BY <1>1, <2>2, SumOneMore
  <2> QED BY <1>4, <2>2, <2>3, <2>5, <2>6
<1> QED BY <1>3, <1>4

(* What options, votes and tickets say is a number.                         *)
LEMMA SumsAreNumbers ==
  ASSUME IInv, FeesInv, NEW m
  PROVE  /\ OptionFees(options, m) \in Int /\ CastFees(votes, m) \in Int
         /\ OptionTickets(options, m) \in Nat /\ CastTickets(votes, m) \in Nat
<1>1. IsFiniteSet(OptionsBy(options, m)) /\ IsFiniteSet(CastBy(votes, m))
  BY OptionsFinite, FS_Subset DEF IInv, VotesInv, OptionsBy, CastBy
<1>2. OptionTickets(options, m) \in Nat /\ CastTickets(votes, m) \in Nat
  <2>1. /\ IsFiniteSet({i \in OptionsBy(options, m) : options[i].ticket})
        /\ IsFiniteSet({v \in CastBy(votes, m) : v.ticket})
    BY <1>1, FS_Subset
  <2> QED BY <2>1, FS_CardinalityType DEF OptionTickets, CastTickets
<1>3. OptionFees(options, m) \in Int
  <2> DEFINE S == OptionsBy(options, m)
             f == [i \in S |-> options[i].fee]
  <2>1. IntValued(f, S)
    BY DEF IntValued, FeesInv, OptionsBy
  <2>2. OptionFees(options, m) = SumFunctionOnSet(f, S)
    BY DEF OptionFees, Total, SumFunction
  <2> HIDE DEF f, S
  <2> QED BY <1>1, <2>1, <2>2, SumStep DEF S
<1>4. CastFees(votes, m) \in Int
  <2> DEFINE S == CastBy(votes, m)
             f == [v \in S |-> v.fee]
  <2>1. IntValued(f, S)
    BY DEF IntValued, IInv, VotesInv, CastBy
  <2>2. CastFees(votes, m) = SumFunctionOnSet(f, S)
    BY DEF CastFees, Total, SumFunction
  <2> HIDE DEF f, S
  <2> QED BY <1>1, <2>1, <2>2, SumStep DEF S
<1> QED BY <1>2, <1>3, <1>4

(* Nothing but Create happens before the round is created.                  *)
LEMMA BlankStands ==
  ASSUME FeesInv, Blank, NEW w \in Workers
  PROVE  /\ ~Begin(w) /\ ~ReadBestOption(w) /\ ~Step(w)
         /\ \A stage : ~AdvanceProposalStage(w, stage)
<1>1. row.exists = FALSE /\ work[w] = Idle
  BY DEF FeesInv, Untouched, NoRow
<1>2. Idle.at = "idle"
  BY DEF Idle
<1>3. ~Begin(w) /\ ~ReadBestOption(w) /\ \A stage : ~AdvanceProposalStage(w, stage)
  BY <1>1 DEF Begin, Refresh, ReadBestOption, AdvanceProposalStage
<1>4. /\ ~Reread(w) /\ ~ReadWinner(w) /\ ~FixWinner(w) /\ ~NotFound(w)
      /\ ~LoadForSettlement(w) /\ ~ApplySettlement(w) /\ ~Load(w)
  BY <1>1, <1>2 DEF Reread, ReadWinner, FixWinner, NotFound, LoadForSettlement, ApplySettlement, Load
<1>5. /\ ~InsertProposalOption(w) /\ ~RecordVote(w) /\ ~CheckDeletable(w)
      /\ ~DeleteProposalByCreator(w) /\ ~AdvanceToOrdering(w)
  BY <1>1, <1>2 DEF InsertProposalOption, RecordVote, CheckDeletable, DeleteProposalByCreator,
     AdvanceToOrdering
<1> QED BY <1>3, <1>4, <1>5 DEF Step

(* The steps of a request that neither pay nor spend.                       *)
RowKept ==
  /\ IsSched(row'.sched) /\ row'.sched.dayEnd = row.sched.dayEnd
  /\ row'.coupon = row.coupon /\ (row'.exists => row.exists)

MembersKnown ==
  \A w \in Workers : work[w].at = "commit" /\ work[w].req.kind \in {"add", "vote"} =>
                       work[w].req.member \in Members

LEMMA FreeStep ==
  ASSUME FeesInv, ~Blank, RowKept, MembersKnown',
         UNCHANGED <<now, options, votes, paid, tickets>>
  PROVE  FeesInv'
<1>1. row'.exists => Explained'
  BY DEF FeesInv, Explained, RowKept, CreationFee
<1>2. ~Blank'
  BY DEF Blank, RowKept
<1> QED BY <1>1, <1>2 DEF FeesInv, RowKept, MembersKnown

LEMMA QuietIsKnown ==
  ASSUME FeesInv, NEW w \in Workers, Moves(w), work'[w].at # "commit"
  PROVE  MembersKnown'
BY DEF FeesInv, MembersKnown, Moves

LEMMA SameRow ==
  ASSUME FeesInv, row' = row
  PROVE  RowKept
BY DEF FeesInv, RowKept

(* The row through the steps that change it.                                *)
LEMMA RowStays ==
  ASSUME IInv, FeesInv, NEW w \in Workers, NEW stage,
         \/ Refresh(w) \/ ReadWinner(w) \/ FixWinner(w)
         \/ ApplySettlement(w) \/ AdvanceToOrdering(w) \/ AdvanceProposalStage(w, stage)
  PROVE  RowKept
<1>1. \/ row' = row
      \/ \E b : row' = [row EXCEPT !.winner = b]
      \/ \E f : row' = [row EXCEPT !.rewards = TRUE, !.failed = f]
      \/ \E t, b : row' = [row EXCEPT !.sched.vote = t, !.winner = b]
      \/ \E t : row' = [row EXCEPT !.sched.proposal = t] \/ row' = [row EXCEPT !.sched.order = t]
  <2>1. CASE Refresh(w) \/ ReadWinner(w) \/ FixWinner(w)
    BY <2>1 DEF Refresh, ReadWinner, FixWinner
  <2>2. CASE ApplySettlement(w)
    BY <2>2 DEF ApplySettlement
  <2>3. CASE AdvanceToOrdering(w)
    BY <2>3 DEF AdvanceToOrdering
  <2>4. CASE AdvanceProposalStage(w, stage)
    BY <2>4 DEF AdvanceProposalStage
  <2> QED BY <2>1, <2>2, <2>3, <2>4
<1>2. IsRow(row) /\ IsSched(row.sched)
  BY DEF IInv, FeesInv
<1>3. row'.coupon = row.coupon /\ row'.exists = row.exists
  BY <1>1, <1>2 DEF IsRow
<1>4. \/ row'.sched = row.sched
      \/ \E t : \/ row'.sched = [row.sched EXCEPT !.vote = t]
                \/ row'.sched = [row.sched EXCEPT !.proposal = t]
                \/ row'.sched = [row.sched EXCEPT !.order = t]
  BY <1>1, <1>2 DEF IsRow
<1>5. IsSched(row'.sched) /\ row'.sched.dayEnd = row.sched.dayEnd
  BY <1>2, <1>4 DEF IsSched
<1> QED BY <1>3, <1>5 DEF RowKept

LEMMA RefreshFree ==
  ASSUME IInv, FeesInv, ~Blank, NEW w \in Workers,
         Refresh(w) \/ ReadWinner(w) \/ FixWinner(w)
  PROVE  FeesInv'
<1>1. Quiet(w)
  BY RefreshQuiet
<1>2. RowKept
  BY RowStays
<1> QED BY <1>1, <1>2, QuietIsKnown, FreeStep DEF Quiet, Refresh, ReadWinner, FixWinner, moneyVars

LEMMA ApplySettlementFree ==
  ASSUME IInv, FeesInv, ~Blank, NEW w \in Workers, ApplySettlement(w)
  PROVE  FeesInv'
<1>1. Quiet(w)
  BY ApplySettlementQuiet
<1>2. RowKept
  BY RowStays
<1>3. UNCHANGED <<now, options, votes, paid, tickets>>
  BY DEF ApplySettlement
<1> QED BY <1>1, <1>2, <1>3, QuietIsKnown, FreeStep DEF Quiet

LEMMA AdvanceFree ==
  ASSUME IInv, FeesInv, ~Blank, NEW w \in Workers, NEW stage,
         AdvanceToOrdering(w) \/ AdvanceProposalStage(w, stage)
  PROVE  FeesInv'
<1>1. Quiet(w)
  BY AdvanceToOrderingQuiet, AdvanceProposalStageQuiet
<1>2. RowKept
  BY RowStays
<1>3. UNCHANGED <<now, options, votes, paid, tickets>>
  BY DEF AdvanceToOrdering, AdvanceProposalStage, moneyVars
<1> QED BY <1>1, <1>2, <1>3, QuietIsKnown, FreeStep DEF Quiet

LEMMA ReadFree ==
  ASSUME IInv, FeesInv, ~Blank, NEW w \in Workers,
         NotFound(w) \/ LoadForSettlement(w) \/ CheckDeletable(w) \/ ReadBestOption(w)
  PROVE  FeesInv'
<1>1. Quiet(w)
  BY NotFoundQuiet, LoadForSettlementQuiet, CheckDeletableQuiet, ReadBestOptionQuiet
<1>2. UNCHANGED <<now, row, options, votes, paid, tickets>>
  BY DEF NotFound, LoadForSettlement, CheckDeletable, ReadBestOption, moneyVars
<1> QED BY <1>1, <1>2, SameRow, QuietIsKnown, FreeStep DEF Quiet

LEMMA LoadFree ==
  ASSUME IInv, FeesInv, ~Blank, NEW w \in Workers, Load(w)
  PROVE  FeesInv'
<1>1. UNCHANGED <<now, row, options, votes, paid, tickets>>
  BY DEF Load, moneyVars
<1>2. MembersKnown'
  <2>1. CASE work' = [work EXCEPT ![w] = Idle]
    <3>1. Moves(w) /\ work'[w].at # "commit"
      BY <2>1, IdleIsWork DEF Moves, IInv, WorkInv
    <3> QED BY <3>1, QuietIsKnown
  <2>2. ASSUME NEW req \in Requests,
               work' = [work EXCEPT ![w] = [at |-> "commit", req |-> req, view |-> NoRequest]]
        PROVE  MembersKnown'
    <3>1. req.member \in Members
      <4>1. Creator \in Members
        BY RoundAssumption
      <4> QED BY <4>1 DEF Requests
    <3>2. work'[w].req = req /\ \A x \in Workers \ {w} : work'[x] = work[x]
      BY <2>2 DEF IInv, WorkInv
    <3> QED BY <3>1, <3>2 DEF MembersKnown, FeesInv
  <2> QED BY <2>1, <2>2 DEF Load
<1> QED BY <1>1, <1>2, SameRow, FreeStep

(* The creation fee is paid, unless the coupon paid it.                     *)
LEMMA CreateExplained ==
  ASSUME IInv, FeesInv, NEW w \in Workers, NEW s \in Schedules, NEW c, Create(w, s, c)
  PROVE  FeesInv'
<1> DEFINE used == c /\ Tickets > 0
<1>1. /\ row = NoRow /\ now < s.dayEnd
      /\ row' = [NoRow EXCEPT !.exists = TRUE, !.sched = s, !.coupon = used]
      /\ paid' = [paid EXCEPT ![Creator] = @ + (IF used THEN 0 ELSE CreateFee)]
      /\ work' = [work EXCEPT ![w] = Answering]
      /\ UNCHANGED <<now, options, votes, tickets>>
  BY DEF Create
<1>2. row'.sched = s /\ row'.coupon = used
  BY <1>1 DEF NoRow
<1>3. IsSched(s) /\ s.dayEnd \in Nat /\ Creator \in Members /\ CreateFee \in Int /\ Tickets \in Nat
  BY RoundAssumption DEF IsSched
<1>4. Untouched
  BY <1>1 DEF FeesInv, Blank, NoRow
<1>5. ~Blank'
  BY <1>1, <1>2, <1>3 DEF Blank, FeesInv
<1>6. paid' \in [Members -> Int] /\ \A m \in Members : paid'[m] = CreationFee(row', m)
  <2>1. PICK k \in Int : k = IF used THEN 0 ELSE CreateFee
    BY <1>3
  <2>2. paid = [m \in Members |-> 0] /\ paid' = [paid EXCEPT ![Creator] = @ + k]
    BY <1>1, <1>4, <2>1 DEF Untouched
  <2>3. \A m \in Members : CreationFee(row', m) = IF m = Creator THEN k ELSE 0
    BY <1>2, <2>1 DEF CreationFee
  <2> QED BY <1>3, <2>2, <2>3
<1>7. Explained'
  <2> SUFFICES ASSUME NEW m \in Members
               PROVE  /\ paid'[m] = CreationFee(row', m) + OptionFees(options', m)
                                    + CastFees(votes', m)
                      /\ tickets'[m].proposal + OptionTickets(options', m) = Tickets
                      /\ tickets'[m].vote + CastTickets(votes', m) = Tickets
    BY DEF Explained
  <2>1. options' = <<>> /\ votes' = {} /\ tickets' = [x \in Members |-> [proposal |-> Tickets, vote |-> Tickets]]
    BY <1>1, <1>4 DEF Untouched
  <2>2. /\ OptionFees(options', m) = 0 /\ OptionTickets(options', m) = 0
        /\ CastFees(votes', m) = 0 /\ CastTickets(votes', m) = 0
    BY <2>1, NothingYet
  <2>3. paid'[m] \in Int /\ paid'[m] = CreationFee(row', m)
    BY <1>6
  <2>4. tickets'[m].proposal = Tickets /\ tickets'[m].vote = Tickets
    BY <2>1
  <2> QED BY <1>3, <2>2, <2>3, <2>4
<1>8. MembersKnown'
  BY <1>1, <1>4, IdleIsWork DEF MembersKnown, Untouched
<1> QED BY <1>1, <1>2, <1>3, <1>5, <1>6, <1>7, <1>8 DEF FeesInv, MembersKnown

(* An option costs its proposer the fee, or a ticket.                       *)
LEMMA InsertExplained ==
  ASSUME IInv, FeesInv, ~Blank, NEW w \in Workers, InsertProposalOption(w)
  PROVE  FeesInv'
<1> DEFINE req == work[w].req
           p   == req.member
           o   == nextOption
<1>1. /\ work[w].at = "commit" /\ req.kind = "add"
      /\ UNCHANGED <<now, row, votes>>
  BY DEF InsertProposalOption
<1>2. CASE ~MerchantIndex(req.merchant)
  <2>1. work' = [work EXCEPT ![w] = Idle] /\ UNCHANGED <<options, tickets, paid>>
    BY <1>2 DEF InsertProposalOption
  <2>2. Moves(w) /\ work'[w].at # "commit"
    BY <2>1, IdleIsWork DEF Moves, IInv, WorkInv
  <2> QED BY <1>1, <2>1, <2>2, QuietIsKnown, SameRow, FreeStep
<1>3. CASE MerchantIndex(req.merchant)
  <2> DEFINE used == UsesProposalTicket(req)
             fee  == IF used THEN 0 ELSE ProposalFee
             q    == [merchant |-> req.merchant, proposer |-> p, fee |-> fee,
                      ticket |-> used, votes |-> 0, collected |-> 0]
  <2>1. /\ options' = [i \in DOMAIN options \cup {o} |->
                         IF i \in DOMAIN options THEN options[i] ELSE q]
        /\ tickets' = TicketSpent(p, used)
        /\ paid' = [paid EXCEPT ![p] = @ + fee]
        /\ work' = [work EXCEPT ![w] = Answering]
    BY <1>3 DEF InsertProposalOption
  <2>2. /\ q.proposer = p /\ q.fee = fee /\ (q.ticket <=> used)
        /\ fee \in Int /\ p \in Members
    <3>1. q.proposer = p /\ q.fee = fee /\ q.ticket = used
      OBVIOUS
    <3>2. fee \in Int
      BY RoundAssumption
    <3>3. p \in Members
      BY <1>1 DEF FeesInv
    <3> QED BY <3>1, <3>2, <3>3
  <2>3. tickets' = IF used THEN [tickets EXCEPT ![p].proposal = @ - 1] ELSE tickets
    BY <2>1 DEF TicketSpent
  <2> HIDE DEF q, fee, used
  <2>4. /\ tickets' \in [Members -> [proposal: Int, vote: Int]]
        /\ \A m \in Members : tickets'[m].vote = tickets[m].vote
        /\ \A m \in Members \ {p} : tickets'[m].proposal = tickets[m].proposal
        /\ tickets'[p].proposal = tickets[p].proposal - (IF used THEN 1 ELSE 0)
    <3>1. tickets \in [Members -> [proposal: Int, vote: Int]]
      BY DEF FeesInv
    <3> QED BY <2>2, <2>3, <3>1
  <2>5. /\ paid' \in [Members -> Int] /\ paid'[p] = paid[p] + fee
        /\ \A m \in Members \ {p} : paid'[m] = paid[m]
    BY <2>1, <2>2 DEF FeesInv
  <2>6. o \notin DOMAIN options /\ IsFiniteSet(DOMAIN options)
    BY OptionsFinite DEF IInv, OptionsInv
  <2>7. /\ DOMAIN options' = DOMAIN options \cup {o} /\ options'[o] = q
        /\ \A i \in DOMAIN options : options'[i] = options[i]
    BY <2>1, <2>6
  <2>8. \A i \in DOMAIN options' : options'[i].fee \in Int
    BY <2>2, <2>7 DEF FeesInv
  <2>9. row'.exists => Explained'
    <3> SUFFICES ASSUME row.exists, NEW m \in Members
                 PROVE  /\ paid'[m] = CreationFee(row, m) + OptionFees(options', m)
                                      + CastFees(votes, m)
                        /\ tickets'[m].proposal + OptionTickets(options', m) = Tickets
                        /\ tickets'[m].vote + CastTickets(votes, m) = Tickets
      BY <1>1 DEF Explained
    <3>1. /\ paid[m] = CreationFee(row, m) + OptionFees(options, m) + CastFees(votes, m)
          /\ tickets[m].proposal + OptionTickets(options, m) = Tickets
          /\ tickets[m].vote + CastTickets(votes, m) = Tickets
      BY DEF FeesInv, Explained
    <3>2. /\ p = m => /\ OptionFees(options', m) = OptionFees(options, m) + fee
                      /\ OptionTickets(options', m)
                           = OptionTickets(options, m) + (IF used THEN 1 ELSE 0)
          /\ p # m => /\ OptionFees(options', m) = OptionFees(options, m)
                      /\ OptionTickets(options', m) = OptionTickets(options, m)
      <4>1. /\ options'[o].proposer = p /\ options'[o].fee = fee
            /\ (options'[o].ticket <=> used)
        BY <2>2, <2>7
      <4>2. /\ options'[o].proposer = m =>
                 /\ OptionFees(options', m) = OptionFees(options, m) + options'[o].fee
                 /\ OptionTickets(options', m)
                      = OptionTickets(options, m) + (IF options'[o].ticket THEN 1 ELSE 0)
            /\ options'[o].proposer # m =>
                 /\ OptionFees(options', m) = OptionFees(options, m)
                 /\ OptionTickets(options', m) = OptionTickets(options, m)
        BY <2>6, <2>7, <2>8, OneOptionMore
      <4> QED BY <4>1, <4>2
    <3>3. /\ OptionFees(options, m) \in Int /\ CastFees(votes, m) \in Int
          /\ OptionTickets(options, m) \in Nat /\ CreationFee(row, m) \in Int
      BY SumsAreNumbers, RoundAssumption DEF CreationFee
    <3>4. tickets[m].proposal \in Int
      BY DEF FeesInv
    <3>5. CASE p = m
      <4>1. PICK k \in {0, 1} : k = IF used THEN 1 ELSE 0
        OBVIOUS
      <4>2. /\ OptionFees(options', m) = OptionFees(options, m) + fee
            /\ OptionTickets(options', m) = OptionTickets(options, m) + k
            /\ paid'[m] = paid[m] + fee /\ tickets'[m].vote = tickets[m].vote
            /\ tickets'[m].proposal = tickets[m].proposal - k
        BY <2>4, <2>5, <3>2, <3>5, <4>1
      <4> QED BY <2>2, <3>1, <3>3, <3>4, <4>2
    <3>6. CASE p # m
      BY <2>4, <2>5, <3>1, <3>2, <3>6
    <3> QED BY <3>5, <3>6
  <2>10. Moves(w) /\ work'[w].at # "commit"
    BY <2>1, IdleIsWork DEF Moves, IInv, WorkInv
  <2>11. MembersKnown'
    BY <2>10, QuietIsKnown
  <2>12. ~Blank'
    BY <1>1 DEF Blank
  <2> QED BY <1>1, <2>4, <2>5, <2>8, <2>9, <2>11, <2>12 DEF FeesInv, MembersKnown
<1> QED BY <1>2, <1>3

(* A vote costs its fee, and a ticket if it was asked to use one.           *)
LEMMA VoteExplained ==
  ASSUME IInv, FeesInv, ~Blank, NEW w \in Workers, RecordVote(w)
  PROVE  FeesInv'
<1> DEFINE req == work[w].req
           p   == req.member
           i   == req.option
           fee == VoteFeeFor(req)
<1>1. /\ work[w].at = "commit" /\ req.kind = "vote"
      /\ UNCHANGED <<now, row>>
  BY DEF RecordVote
<1>2. CASE ~(FirstVote(p) /\ (req.ticket => tickets[p].vote > 0))
  <2>1. work' = [work EXCEPT ![w] = Idle] /\ UNCHANGED <<options, votes, tickets, paid>>
    BY <1>2 DEF RecordVote
  <2>2. Moves(w) /\ work'[w].at # "commit"
    BY <2>1, IdleIsWork DEF Moves, IInv, WorkInv
  <2> QED BY <1>1, <2>1, <2>2, QuietIsKnown, SameRow, FreeStep
<1>3. CASE FirstVote(p) /\ (req.ticket => tickets[p].vote > 0)
  <2> DEFINE x == [member |-> p, option |-> i, count |-> req.count, fee |-> fee,
                   ticket |-> req.ticket, late |-> VotingOver]
  <2>1. /\ tickets' = IF req.ticket THEN [tickets EXCEPT ![p].vote = @ - 1] ELSE tickets
        /\ votes' = votes \cup {x}
        /\ paid' = [paid EXCEPT ![p] = @ + fee]
        /\ work' = [work EXCEPT ![w] = Answering]
        /\ options' = IF i \notin DOMAIN options THEN options
                      ELSE [options EXCEPT ![i] = WithVote(@, req.count, fee)]
    BY <1>3 DEF RecordVote
  <2>2. p \in Members /\ fee \in Int
    <3>1. req.count \in Int /\ p \in Members
      BY <1>1 DEF IInv, WorkInv, FeesInv
    <3>2. VoteFee \in Int
      BY RoundAssumption
    <3> QED BY <3>1, <3>2 DEF VoteFeeFor
  <2>3. x \notin votes /\ x.member = p /\ x.fee = fee /\ x.ticket = req.ticket
    BY <1>3 DEF FirstVote
  <2>4. /\ DOMAIN options' = DOMAIN options
        /\ \A j \in DOMAIN options : /\ options'[j].proposer = options[j].proposer
                                     /\ options'[j].fee = options[j].fee
                                     /\ options'[j].ticket = options[j].ticket
    BY <2>1, VoteOnOption DEF IInv, OptionsInv
  <2> HIDE DEF x, fee
  <2>5. /\ tickets' \in [Members -> [proposal: Int, vote: Int]]
        /\ \A m \in Members : tickets'[m].proposal = tickets[m].proposal
        /\ \A m \in Members \ {p} : tickets'[m].vote = tickets[m].vote
        /\ tickets'[p].vote = tickets[p].vote - (IF req.ticket THEN 1 ELSE 0)
    <3>1. tickets \in [Members -> [proposal: Int, vote: Int]]
      BY DEF FeesInv
    <3> QED BY <2>1, <2>2, <3>1
  <2>6. /\ paid' \in [Members -> Int] /\ paid'[p] = paid[p] + fee
        /\ \A m \in Members \ {p} : paid'[m] = paid[m]
    BY <2>1, <2>2 DEF FeesInv
  <2>7. \A j \in DOMAIN options' : options'[j].fee \in Int
    BY <2>4 DEF FeesInv
  <2>8. row'.exists => Explained'
    <3> SUFFICES ASSUME row.exists, NEW m \in Members
                 PROVE  /\ paid'[m] = CreationFee(row, m) + OptionFees(options', m)
                                      + CastFees(votes', m)
                        /\ tickets'[m].proposal + OptionTickets(options', m) = Tickets
                        /\ tickets'[m].vote + CastTickets(votes', m) = Tickets
      BY <1>1 DEF Explained
    <3>1. /\ paid[m] = CreationFee(row, m) + OptionFees(options, m) + CastFees(votes, m)
          /\ tickets[m].proposal + OptionTickets(options, m) = Tickets
          /\ tickets[m].vote + CastTickets(votes, m) = Tickets
      BY DEF FeesInv, Explained
    <3>2. /\ p = m => /\ CastFees(votes', m) = CastFees(votes, m) + fee
                      /\ CastTickets(votes', m)
                           = CastTickets(votes, m) + (IF req.ticket THEN 1 ELSE 0)
          /\ p # m => /\ CastFees(votes', m) = CastFees(votes, m)
                      /\ CastTickets(votes', m) = CastTickets(votes, m)
      <4>1. IsFiniteSet(votes) /\ \A v \in votes \cup {x} : v.fee \in Int
        BY <2>2, <2>3 DEF IInv, VotesInv
      <4>2. /\ x.member = m =>
                 /\ CastFees(votes \cup {x}, m) = CastFees(votes, m) + x.fee
                 /\ CastTickets(votes \cup {x}, m)
                      = CastTickets(votes, m) + (IF x.ticket THEN 1 ELSE 0)
            /\ x.member # m => /\ CastFees(votes \cup {x}, m) = CastFees(votes, m)
                               /\ CastTickets(votes \cup {x}, m) = CastTickets(votes, m)
        BY <2>3, <4>1, OneCastMore
      <4> QED BY <2>1, <2>3, <4>2
    <3>3. /\ OptionFees(options', m) = OptionFees(options, m)
          /\ OptionTickets(options', m) = OptionTickets(options, m)
      BY <2>4, SameOptions
    <3>4. /\ OptionFees(options, m) \in Int /\ CastFees(votes, m) \in Int
          /\ CastTickets(votes, m) \in Nat /\ CreationFee(row, m) \in Int
      BY SumsAreNumbers, RoundAssumption DEF CreationFee
    <3>5. tickets[m].vote \in Int
      BY DEF FeesInv
    <3>6. CASE p = m
      <4>1. PICK k \in {0, 1} : k = IF req.ticket THEN 1 ELSE 0
        OBVIOUS
      <4>2. /\ CastFees(votes', m) = CastFees(votes, m) + fee
            /\ CastTickets(votes', m) = CastTickets(votes, m) + k
            /\ paid'[m] = paid[m] + fee /\ tickets'[m].proposal = tickets[m].proposal
            /\ tickets'[m].vote = tickets[m].vote - k
        BY <2>5, <2>6, <3>2, <3>6, <4>1
      <4> QED BY <2>2, <3>1, <3>3, <3>4, <3>5, <4>2
    <3>7. CASE p # m
      BY <2>5, <2>6, <3>1, <3>2, <3>3, <3>7
    <3> QED BY <3>6, <3>7
  <2>9. Moves(w) /\ work'[w].at # "commit"
    BY <2>1, IdleIsWork DEF Moves, IInv, WorkInv
  <2>10. MembersKnown'
    BY <2>9, QuietIsKnown
  <2>11. ~Blank'
    BY <1>1 DEF Blank
  <2> QED BY <1>1, <2>5, <2>6, <2>7, <2>8, <2>10, <2>11 DEF FeesInv, MembersKnown
<1> QED BY <1>2, <1>3

LEMMA EraseExplained ==
  ASSUME IInv, FeesInv, ~Blank, NEW w \in Workers, DeleteProposalByCreator(w)
  PROVE  FeesInv'
<1>1. /\ row' = [row EXCEPT !.exists = FALSE] /\ options' = <<>>
      /\ work' = [work EXCEPT ![w] = Idle] /\ UNCHANGED <<now, tickets, paid>>
  BY DEF DeleteProposalByCreator
<1>2. row'.exists = FALSE /\ row'.sched = row.sched
  BY <1>1 DEF IInv, IsRow
<1>3. Moves(w) /\ work'[w].at # "commit"
  BY <1>1, IdleIsWork DEF Moves, IInv, WorkInv
<1>4. MembersKnown'
  BY <1>3, QuietIsKnown
<1>5. DOMAIN options' = {}
  BY <1>1
<1> QED BY <1>1, <1>2, <1>4, <1>5 DEF FeesInv, MembersKnown, Blank

LEMMA FeesKept ==
  ASSUME IInv, FeesInv, [Next]_vars
  PROVE  FeesInv'
<1>1. CASE Tick
  <2>1. now' \in Nat
    BY <1>1 DEF Tick, FeesInv
  <2> QED BY <1>1, <2>1 DEF Tick, moneyVars, FeesInv, Blank, Untouched, Explained
<1>2. CASE UNCHANGED vars
  BY <1>2 DEF vars, moneyVars, FeesInv, Blank, Untouched, Explained
<1>3. ASSUME NEW w \in Workers, NEW s \in Schedules, NEW c \in CouponChoices, Create(w, s, c)
      PROVE  FeesInv'
  BY <1>3, CreateExplained
<1>4. ASSUME NEW w \in Workers, Begin(w) \/ ReadBestOption(w)
      PROVE  FeesInv'
  <2>1. ~Blank
    BY <1>4, BlankStands
  <2> QED BY <1>4, <2>1, RefreshFree, ReadFree DEF Begin
<1>5. ASSUME NEW w \in Workers, NEW stage \in AdminStages, AdvanceProposalStage(w, stage)
      PROVE  FeesInv'
  <2>1. ~Blank
    BY <1>5, BlankStands
  <2> QED BY <1>5, <2>1, AdvanceFree
<1>6. ASSUME NEW w \in Workers, Step(w)
      PROVE  FeesInv'
  <2>1. ~Blank
    BY <1>6, BlankStands
  <2>2. CASE Reread(w) \/ ReadWinner(w) \/ FixWinner(w)
    BY <2>1, <2>2, RefreshFree DEF Reread
  <2>3. CASE NotFound(w) \/ LoadForSettlement(w) \/ CheckDeletable(w)
    BY <2>1, <2>3, ReadFree
  <2>4. CASE ApplySettlement(w)
    BY <2>1, <2>4, ApplySettlementFree
  <2>5. CASE AdvanceToOrdering(w)
    BY <2>1, <2>5, AdvanceFree
  <2>6. CASE Load(w)
    BY <2>1, <2>6, LoadFree
  <2>7. CASE InsertProposalOption(w)
    BY <2>1, <2>7, InsertExplained
  <2>8. CASE RecordVote(w)
    BY <2>1, <2>8, VoteExplained
  <2>9. CASE DeleteProposalByCreator(w)
    BY <2>1, <2>9, EraseExplained
  <2> QED BY <1>6, <2>2, <2>3, <2>4, <2>5, <2>6, <2>7, <2>8, <2>9 DEF Step
<1> QED BY <1>1, <1>2, <1>3, <1>4, <1>5, <1>6 DEF Next

(* The rows explain what was paid from the creation on.                     *)
LEMMA FeesAreExplained == Spec => []FeesInv
<1>1. ASSUME Init
      PROVE  FeesInv
  <2>1. DOMAIN options = {} /\ row.exists = FALSE
    BY <1>1 DEF Init, NoRow
  <2>2. IsSched(row.sched)
    BY <1>1 DEF Init, NoRow, IsSched
  <2>3. Untouched
    BY <1>1 DEF Init, Untouched
  <2>4. \A w \in Workers : work[w].at # "commit"
    BY <1>1, IdleIsWork DEF Init
  <2>5. paid \in [Members -> Int] /\ tickets \in [Members -> [proposal: Int, vote: Int]]
    BY <1>1, RoundAssumption DEF Init
  <2> QED BY <1>1, <2>1, <2>2, <2>3, <2>4, <2>5 DEF FeesInv, Init
<1>2. IInv /\ FeesInv /\ [Next]_vars => FeesInv'
  BY FeesKept
<1> QED BY <1>1, <1>2, Invariant, PTL DEF Spec

(* While a round exists its rows explain every fee paid and every ticket    *)
(* used, however the requests overlap: a refused insert or vote takes       *)
(* neither (postgres.go:1253-1368).                                         *)
THEOREM RowsExplainFees == Spec => []FeesAndTickets
<1>1. FeesInv => FeesAndTickets
  BY ExplainedIsFeesAndTickets DEF FeesInv
<1> QED BY <1>1, FeesAreExplained, PTL

----------------------------------------------------------------------------
(* What a settlement pays out, against what the members paid.  Shares are   *)
(* whole numbers of basis points and rounded down.                          *)

LEMMA Division ==
  ASSUME NEW x \in Nat
  PROVE  /\ x \div 10000 \in Nat
         /\ 10000 * (x \div 10000) <= x /\ x < 10000 * (x \div 10000) + 10000
OBVIOUS

LEMMA Times ==
  ASSUME NEW a \in Nat, NEW b \in Nat, NEW p \in Nat
  PROVE  /\ a * p \in Nat /\ b * p \in Nat /\ (a + b) * p = a * p + b * p
OBVIOUS

LEMMA Share ==
  ASSUME NEW a \in Nat, NEW p \in Rates
  PROVE  a * p \in Nat /\ a * p <= a * 10000
BY DEF Rates

LEMMA BpsBounds ==
  ASSUME NEW a \in Nat, NEW p \in Rates
  PROVE  Bps(a, p) \in Nat /\ Bps(a, p) <= a
<1>1. PICK x \in Nat : x = a * p /\ x <= a * 10000
  BY Share
<1>2. x \div 10000 \in Nat /\ 10000 * (x \div 10000) <= x
  BY Division
<1>3. Bps(a, p) = x \div 10000
  BY <1>1 DEF Bps
<1>4. PICK X \in Nat : X = x \div 10000
  BY <1>2
<1>5. x <= a * 10000
  BY <1>1
<1>6. X <= a
  BY <1>2, <1>4, <1>5
<1> QED BY <1>3, <1>4, <1>6

(* Rounding down favours the whole.  *)
LEMMA BpsParts ==
  ASSUME NEW a \in Nat, NEW b \in Nat, NEW p \in Rates
  PROVE  /\ Bps(a, p) + Bps(b, p) <= Bps(a + b, p)
         /\ Bps(a + b, p) <= Bps(a, p) + b
<1>1. PICK x \in Nat : x = a * p
  BY Share
<1>2. PICK y \in Nat : y = b * p /\ y <= b * 10000
  BY Share
<1>3. (a + b) * p = x + y
  BY <1>1, <1>2 DEF Rates
<1>4. Bps(a, p) = x \div 10000 /\ Bps(b, p) = y \div 10000 /\ Bps(a + b, p) = (x + y) \div 10000
  BY <1>1, <1>2, <1>3 DEF Bps
<1>5. PICK X \in Nat : X = x \div 10000 /\ 10000 * X <= x /\ x < 10000 * X + 10000
  BY Division
<1>6. PICK Y \in Nat : Y = y \div 10000 /\ 10000 * Y <= y /\ y < 10000 * Y + 10000
  BY Division
<1>7. PICK Z \in Nat : Z = (x + y) \div 10000 /\ 10000 * Z <= x + y /\ x + y < 10000 * Z + 10000
  BY Division
<1>8. X + Y <= Z
  BY <1>5, <1>6, <1>7
<1>9. y <= b * 10000
  BY <1>2
<1>10. Z <= X + b
  BY <1>5, <1>7, <1>9
<1> QED BY <1>4, <1>5, <1>6, <1>7, <1>8, <1>10

(* Rounded shares add up to at most the share of the sum.                   *)
LEMMA SharesAddUp ==
  ASSUME NEW S, IsFiniteSet(S), NEW f, NatValued(f, S), NEW p \in Rates,
         NEW g, \A x \in S : g[x] = Bps(f[x], p)
  PROVE  SumFunctionOnSet(g, S) <= Bps(SumFunctionOnSet(f, S), p)
<1> DEFINE G == {T \in SUBSET S : SumFunctionOnSet(g, T) <= Bps(SumFunctionOnSet(f, T), p)}
<1>1. IntValued(g, S) /\ IntValued(f, S)
  <2>1. ASSUME NEW x \in S
        PROVE  g[x] \in Int /\ f[x] \in Int
    <3>1. PICK a \in Nat : a = f[x]
      BY DEF NatValued
    <3>2. Bps(a, p) \in Nat
      BY BpsBounds, Zenon
    <3> QED BY <3>1, <3>2
  <2> QED BY <2>1 DEF IntValued
<1>2. {} \in G
  <2>1. 0 \in Nat
    OBVIOUS
  <2>2. Bps(0, p) \in Nat /\ Bps(0, p) <= 0
    BY ONLY <2>1, p \in Rates, BpsBounds, Zenon
  <2> QED BY <2>2, SumEmpty
<1>3. ASSUME NEW T \in SUBSET S, T # {}, \A x \in T : T \ {x} \in G
      PROVE  T \in G
  <2>1. PICK x \in T : TRUE
    BY <1>3
  <2>2. /\ IsFiniteSet(T) /\ IntValued(g, T) /\ IntValued(f, T) /\ NatValued(f, T)
        /\ IsFiniteSet(T \ {x}) /\ NatValued(f, T \ {x})
    BY <1>1, FS_Subset DEF IntValued, NatValued
  <2>3. PICK A \in Nat : A = SumFunctionOnSet(f, T \ {x})
    BY <2>2, SumNat
  <2>4. PICK B \in Int : B = SumFunctionOnSet(g, T \ {x})
    BY <2>2, SumStep
  <2>5. PICK a \in Nat : a = f[x]
    BY DEF NatValued
  <2>6. SumFunctionOnSet(f, T) = a + A /\ SumFunctionOnSet(g, T) = Bps(a, p) + B
    BY <2>2, <2>3, <2>4, <2>5, SumStep
  <2>7. B <= Bps(A, p)
    BY <1>3, <2>3, <2>4
  <2>8. Bps(a, p) + Bps(A, p) <= Bps(a + A, p)
    BY ONLY a \in Nat, A \in Nat, p \in Rates, BpsParts, Zenon
  <2>10. a + A \in Nat
    OBVIOUS
  <2>11. Bps(a, p) \in Nat /\ Bps(A, p) \in Nat /\ Bps(a + A, p) \in Nat
    BY ONLY a \in Nat, A \in Nat, a + A \in Nat, <2>10, p \in Rates, BpsBounds, Zenon
  <2>9. Bps(a, p) + B <= Bps(a + A, p)
    BY <2>7, <2>8, <2>11
  <2> QED BY <2>6, <2>9
<1> HIDE DEF G
<1>4. \A T \in SUBSET S : T \in G
  BY ONLY IsFiniteSet(S), <1>2, <1>3, SubsetInduction
<1> QED BY <1>4 DEF G

(* What is zero need not be summed.                                         *)
LEMMA SumOfPart ==
  ASSUME NEW S, IsFiniteSet(S), NEW T \in SUBSET S, NEW f, NEW g, IntValued(g, T),
         \A x \in S : f[x] = IF x \in T THEN g[x] ELSE 0
  PROVE  IntValued(f, S) /\ SumFunctionOnSet(f, S) = SumFunctionOnSet(g, T)
<1>1. IntValued(f, S) /\ IntValued(f, T)
  BY DEF IntValued
<1>2. IsFiniteSet(T) /\ IsFiniteSet(S \ T) /\ T \cap (S \ T) = {} /\ T \cup (S \ T) = S
  BY FS_Subset
<1>3. SumFunctionOnSet(f, S) = SumFunctionOnSet(f, T) + SumFunctionOnSet(f, S \ T)
  BY <1>1, <1>2, SumApart
<1>4. SumFunctionOnSet(f, S \ T) = 0
  BY <1>2, SumZero
<1>5. SumFunctionOnSet(f, T) = SumFunctionOnSet(g, T) /\ SumFunctionOnSet(f, T) \in Int
  BY <1>1, <1>2, SumAgree, SumStep
<1> QED BY <1>1, <1>3, <1>4, <1>5

(* Totals class by class.                                                   *)
LEMMA TotalByClass ==
  ASSUME NEW r, NEW I, IsFiniteSet(I), IntValued(r, I),
         NEW M, IsFiniteSet(M), NEW o, \A i \in I : o[i] \in M,
         NEW q, \A m \in M : q[m] = Total([i \in {j \in I : o[j] = m} |-> r[i]])
  PROVE  IntValued(q, M) /\ SumFunctionOnSet(q, M) = SumFunctionOnSet(r, I)
<1> DEFINE C(m) == {i \in I : o[i] = m}
           c == [m \in M |-> SumFunctionOnSet(r, C(m))]
<1>1. IntValued(c, M) /\ SumFunctionOnSet(c, M) = SumFunctionOnSet(r, I)
  BY SumByClass
<1>2. ASSUME NEW m \in M
      PROVE  c[m] = q[m]
  <2> DEFINE f == [i \in C(m) |-> r[i]]
  <2>1. IsFiniteSet(C(m)) /\ IntValued(f, C(m))
    BY FS_Subset DEF IntValued
  <2>2. \A i \in C(m) : f[i] = r[i]
    OBVIOUS
  <2>3. q[m] = SumFunctionOnSet(f, C(m))
    BY DEF Total, SumFunction
  <2> HIDE DEF f
  <2>4. SumFunctionOnSet(f, C(m)) = SumFunctionOnSet(r, C(m))
    BY <2>1, <2>2, SumAgree
  <2> QED BY <2>3, <2>4
<1> HIDE DEF c
<1>3. SumFunctionOnSet(c, M) = SumFunctionOnSet(q, M)
  BY <1>1, <1>2, SumAgree
<1>4. IntValued(q, M)
  BY <1>1, <1>2 DEF IntValued
<1> QED BY <1>1, <1>3, <1>4

(* The rows P are the rows O, or what became of them later.                 *)
Older(O, P) ==
  /\ DOMAIN O \subseteq DOMAIN P
  /\ \A i \in DOMAIN O :
       /\ O[i].proposer = P[i].proposer /\ O[i].fee = P[i].fee
       /\ O[i].collected \in Nat /\ O[i].collected <= P[i].collected

RowsInv ==
  /\ paid \in [Members -> Nat]
  /\ \A i \in DOMAIN options :
       options[i].proposer \in Members /\ options[i].fee \in Nat /\ options[i].collected \in Nat
  /\ \A v \in votes : v.member \in Members /\ v.fee \in Nat

(* Every rate a settlement applies is one.                                  *)
LEMMA SettlesRates ==
  /\ VoteRefundBps \in Rates
  /\ \A b \in BOOLEAN : /\ (IF b THEN WinnerProposalRefundBps ELSE LoserProposalRefundBps) \in Rates
                        /\ (IF b THEN WinnerBonusBps ELSE LoserBonusBps) \in Rates
<1>1. \A bps \in {WinnerProposalRefundBps, LoserProposalRefundBps, VoteRefundBps,
                 WinnerBonusBps, LoserBonusBps} : bps \in Rates
  BY RoundAssumption
<1> QED BY <1>1

(* An option returns at most its fee and what voters paid for it, less what *)
(* the voters are refunded, however old the sum is from which it is reckoned.*)
LEMMA OptionReturns ==
  ASSUME NEW o, o.fee \in Nat, o.collected \in Nat, NEW b \in BOOLEAN,
         NEW c \in Nat, o.collected <= c
  PROVE  /\ OptionCredit(o, b) \in Nat
         /\ OptionCredit(o, b) + VoteRefund(c) <= o.fee + c
<1> DEFINE p == IF b THEN WinnerProposalRefundBps ELSE LoserProposalRefundBps
           q == IF b THEN WinnerBonusBps ELSE LoserBonusBps
<1>1. p \in Rates /\ q \in Rates /\ VoteRefundBps \in Rates
  BY SettlesRates
<1>2. PICK x \in Nat : x = o.collected
  OBVIOUS
<1>3. PICK d \in Nat : c = x + d
  <2>1. c - x \in Nat /\ c = x + (c - x)
    BY <1>2
  <2> QED BY <2>1
<1>4. PICK y \in Nat : y = VoteRefund(x) /\ y <= x
  BY <1>1, <1>2, BpsBounds DEF VoteRefund
<1>5. PICK z \in Nat : z = VoteRefund(c) /\ z <= y + d
  <2>1. Bps(c, VoteRefundBps) \in Nat
    BY <1>1, BpsBounds
  <2>2. Bps(x + d, VoteRefundBps) <= Bps(x, VoteRefundBps) + d
    BY <1>1, BpsParts
  <2> QED BY <1>3, <1>4, <2>1, <2>2 DEF VoteRefund
<1>6. PICK r \in Nat : r = x - y
  BY <1>4
<1> HIDE DEF p, q
<1>7. PICK s \in Nat : s = Bps(r, q) /\ s <= r
  BY <1>1, BpsBounds
<1>8. PICK t \in Nat : t = Bps(o.fee, p) /\ t <= o.fee
  BY <1>1, BpsBounds
<1>9. OptionCredit(o, b) = t + s
  BY <1>2, <1>4, <1>6, <1>7, <1>8 DEF OptionCredit, Bonus, p, q
<1>10. t + s \in Nat /\ t + s + z <= o.fee + c
  BY <1>3, <1>4, <1>5, <1>6, <1>7, <1>8
<1> QED BY <1>5, <1>9, <1>10

(* What each settlement pays out, and what the members paid.                *)
OptionFee(n) == IF n \in DOMAIN options THEN options[n].fee ELSE 0

LEMMA FeesByOption ==
  ASSUME IInv, RowsInv
  PROVE  LET N == 1..(nextOption - 1)
             f == [v \in votes |-> v.fee]
             g == [v \in votes |-> VoteRefund(v.fee)]
             F == [n \in N |-> FeesOf(votes, n)]
             G == [n \in N |-> Total([v \in For(votes, n) |-> VoteRefund(v.fee)])]
         IN  /\ IsFiniteSet(N) /\ NatValued(F, N) /\ NatValued(G, N)
             /\ SumFunctionOnSet(F, N) = SumFunctionOnSet(f, votes)
             /\ SumFunctionOnSet(G, N) = SumFunctionOnSet(g, votes)
             /\ \A n \in N : G[n] <= VoteRefund(F[n])
<1> DEFINE N == 1..(nextOption - 1)
           f == [v \in votes |-> v.fee]
           g == [v \in votes |-> VoteRefund(v.fee)]
           F == [n \in N |-> FeesOf(votes, n)]
           G == [n \in N |-> Total([v \in For(votes, n) |-> VoteRefund(v.fee)])]
           o == [v \in votes |-> v.option]
<1>1. IsFiniteSet(votes) /\ IsFiniteSet(N) /\ \A v \in votes : o[v] \in N
  BY FS_Interval DEF IInv, VotesInv, OptionsInv
<1>2. NatValued(f, votes)
  BY DEF NatValued, RowsInv
<1>3. NatValued(g, votes)
  <2>1. ASSUME NEW v \in votes
        PROVE  g[v] \in Nat
    <3>1. v.fee \in Nat
      BY DEF RowsInv
    <3>2. PICK a \in Nat : a = v.fee
      BY <3>1
    <3>3. Bps(a, VoteRefundBps) \in Nat
      BY SettlesRates, BpsBounds
    <3> QED BY <3>2, <3>3 DEF VoteRefund
  <2> QED BY <2>1 DEF NatValued
<1>4. IntValued(f, votes) /\ IntValued(g, votes)
  BY <1>2, <1>3 DEF IntValued, NatValued
<1>5. \A n \in N : {v \in votes : o[v] = n} = For(votes, n)
  BY DEF For
<1>6. \A n \in N : F[n] = Total([v \in {w \in votes : o[w] = n} |-> f[v]])
  <2>1. ASSUME NEW n \in N
        PROVE  F[n] = Total([v \in {w \in votes : o[w] = n} |-> f[v]])
    <3>1. [v \in For(votes, n) |-> f[v]] = [v \in For(votes, n) |-> v.fee]
      BY DEF For
    <3> QED BY <1>5, <3>1 DEF FeesOf
  <2> QED BY <2>1
<1>7. \A n \in N : G[n] = Total([v \in {w \in votes : o[w] = n} |-> g[v]])
  <2>1. ASSUME NEW n \in N
        PROVE  G[n] = Total([v \in {w \in votes : o[w] = n} |-> g[v]])
    <3>1. [v \in For(votes, n) |-> g[v]] = [v \in For(votes, n) |-> VoteRefund(v.fee)]
      BY DEF For
    <3> QED BY <1>5, <3>1
  <2> QED BY <2>1
<1>8. ASSUME NEW n \in N
      PROVE  F[n] \in Nat /\ G[n] \in Nat /\ G[n] <= VoteRefund(F[n])
  <2> DEFINE S == For(votes, n)
             a == [v \in S |-> v.fee]
             b == [v \in S |-> VoteRefund(v.fee)]
  <2>1. IsFiniteSet(S) /\ S \subseteq votes
    BY <1>1, FS_Subset DEF For
  <2>2. NatValued(a, S) /\ NatValued(b, S)
    BY <1>2, <1>3, <2>1 DEF NatValued
  <2>3. F[n] = SumFunctionOnSet(a, S) /\ G[n] = SumFunctionOnSet(b, S)
    BY DEF FeesOf, Total, SumFunction
  <2>4. \A v \in S : b[v] = Bps(a[v], VoteRefundBps)
    BY DEF VoteRefund
  <2> HIDE DEF S, a, b, F, G
  <2>5. SumFunctionOnSet(b, S) <= Bps(SumFunctionOnSet(a, S), VoteRefundBps)
    BY <2>1, <2>2, <2>4, SettlesRates, SharesAddUp
  <2> QED BY <2>1, <2>2, <2>3, <2>5, SumNat DEF VoteRefund
<1>9. NatValued(F, N) /\ NatValued(G, N)
  BY <1>8 DEF NatValued
<1> HIDE DEF N, f, g, F, G, o
<1>10. SumFunctionOnSet(F, N) = SumFunctionOnSet(f, votes)
  BY <1>1, <1>4, <1>6, TotalByClass
<1>11. SumFunctionOnSet(G, N) = SumFunctionOnSet(g, votes)
  BY <1>1, <1>4, <1>7, TotalByClass
<1> QED BY <1>1, <1>8, <1>9, <1>10, <1>11 DEF N, f, g, F, G

(* The sum over members of what each gets of three kinds.                   *)
LEMMA ThreeKinds ==
  ASSUME NEW a, NEW b, NEW c, NEW q,
         IntValued(a, Members), IntValued(b, Members), IntValued(c, Members),
         \A m \in Members : q[m] = a[m] + b[m] + c[m]
  PROVE  /\ IntValued(q, Members)
         /\ SumFunctionOnSet(q, Members) =
              SumFunctionOnSet(a, Members) + SumFunctionOnSet(b, Members) + SumFunctionOnSet(c, Members)
<1> DEFINE d == [m \in Members |-> a[m] + b[m]]
<1>1. IsFiniteSet(Members)
  BY RoundAssumption
<1>2. IntValued(d, Members) /\ \A m \in Members : d[m] = a[m] + b[m] /\ q[m] = d[m] + c[m]
  BY DEF IntValued
<1>3. IntValued(q, Members)
  BY DEF IntValued
<1> HIDE DEF d
<1>4. SumFunctionOnSet(d, Members) = SumFunctionOnSet(a, Members) + SumFunctionOnSet(b, Members)
  BY <1>1, <1>2, SumPlus
<1>5. SumFunctionOnSet(q, Members) = SumFunctionOnSet(d, Members) + SumFunctionOnSet(c, Members)
  BY <1>1, <1>2, SumPlus
<1> QED BY <1>3, <1>4, <1>5

LEMMA CreatorsShare ==
  ASSUME NEW fee \in Nat, NEW a, \A m \in Members : a[m] = IF m = Creator THEN fee ELSE 0
  PROVE  IntValued(a, Members) /\ SumFunctionOnSet(a, Members) = fee
<1> DEFINE g == [m \in {Creator} |-> fee]
<1>1. /\ IsFiniteSet(Members) /\ {Creator} \in SUBSET Members
      /\ IntValued(g, {Creator}) /\ g[Creator] = fee
      /\ \A m \in Members : a[m] = IF m \in {Creator} THEN g[m] ELSE 0
  BY RoundAssumption DEF IntValued
<1>2. IsFiniteSet({Creator}) /\ {Creator} \ {Creator} = {}
  BY FS_Singleton
<1> HIDE DEF g
<1>3. IntValued(a, Members) /\ SumFunctionOnSet(a, Members) = SumFunctionOnSet(g, {Creator})
  BY <1>1, SumOfPart
<1>4. SumFunctionOnSet(g, {Creator}) = g[Creator] + SumFunctionOnSet(g, {Creator} \ {Creator})
  BY <1>1, <1>2, SumStep
<1>5. SumFunctionOnSet(g, {}) = 0
  BY SumEmpty
<1> QED BY <1>1, <1>2, <1>3, <1>4, <1>5

(* Who proposed and who voted: everything belongs to a member.              *)
LEMMA OfOptions ==
  ASSUME NEW O, IsFiniteSet(DOMAIN O), NEW r, IntValued(r, DOMAIN O),
         \A i \in DOMAIN O : O[i].proposer \in Members,
         NEW q, \A m \in Members : q[m] = Total([i \in {j \in DOMAIN O : O[j].proposer = m} |-> r[i]])
  PROVE  IntValued(q, Members) /\ SumFunctionOnSet(q, Members) = SumFunctionOnSet(r, DOMAIN O)
<1> DEFINE D == DOMAIN O
           o == [i \in D |-> O[i].proposer]
<1>1. IsFiniteSet(Members) /\ \A i \in D : o[i] \in Members
  BY RoundAssumption
<1>2. ASSUME NEW m \in Members
      PROVE  q[m] = Total([i \in {j \in D : o[j] = m} |-> r[i]])
  <2>1. {j \in D : o[j] = m} = {j \in D : O[j].proposer = m}
    OBVIOUS
  <2> QED BY <2>1
<1> HIDE DEF o
<1> QED BY <1>1, <1>2, TotalByClass

LEMMA OfVotes ==
  ASSUME IsFiniteSet(votes), NEW r, IntValued(r, votes), \A v \in votes : v.member \in Members,
         NEW q, \A m \in Members : q[m] = Total([v \in {w \in votes : w.member = m} |-> r[v]])
  PROVE  IntValued(q, Members) /\ SumFunctionOnSet(q, Members) = SumFunctionOnSet(r, votes)
<1> DEFINE o == [v \in votes |-> v.member]
<1>1. IsFiniteSet(Members) /\ \A v \in votes : o[v] \in Members
  BY RoundAssumption
<1>2. ASSUME NEW m \in Members
      PROVE  q[m] = Total([v \in {w \in votes : o[w] = m} |-> r[v]])
  <2>1. {w \in votes : o[w] = m} = {w \in votes : w.member = m}
    OBVIOUS
  <2> QED BY <2>1
<1> HIDE DEF o
<1> QED BY <1>1, <1>2, TotalByClass

(* The sums run over finite sets.                                           *)
LEMMA IndicesFinite ==
  ASSUME IInv
  PROVE  /\ IsFiniteSet(votes) /\ IsFiniteSet(1..(nextOption - 1))
         /\ DOMAIN options \in SUBSET (1..(nextOption - 1)) /\ IsFiniteSet(DOMAIN options)
         /\ IsFiniteSet(Members) /\ CreateFee \in Nat
<1>1. IsFiniteSet(Members) /\ CreateFee \in Nat
  BY RoundAssumption
<1>2. IsFiniteSet(1..(nextOption - 1))
  BY FS_Interval DEF IInv, OptionsInv
<1>3. DOMAIN options \in SUBSET (1..(nextOption - 1)) /\ IsFiniteSet(votes)
  BY DEF IInv, OptionsInv, VotesInv
<1> QED BY <1>1, <1>2, <1>3, FS_Subset

(* The members paid the creation fee or its coupon, the options and the votes.*)
LEMMA WhatWasPaid ==
  ASSUME IInv, FeesInv, RowsInv, row.exists
  PROVE  LET N == 1..(nextOption - 1)
             F == [n \in N |-> FeesOf(votes, n)]
             A == [n \in N |-> OptionFee(n)]
         IN  /\ NatValued(A, N)
             /\ Worth = CreateFee + SumFunctionOnSet(A, N) + SumFunctionOnSet(F, N)
<1> DEFINE N == 1..(nextOption - 1)
           F == [n \in N |-> FeesOf(votes, n)]
           A == [n \in N |-> OptionFee(n)]
           f == [v \in votes |-> v.fee]
           r == [i \in DOMAIN options |-> options[i].fee]
           k == IF row.coupon THEN 0 ELSE CreateFee
           a == [m \in Members |-> CreationFee(row, m)]
           b == [m \in Members |-> OptionFees(options, m)]
           c == [m \in Members |-> CastFees(votes, m)]
<1>1. /\ IsFiniteSet(votes) /\ IsFiniteSet(N) /\ DOMAIN options \in SUBSET N
      /\ IsFiniteSet(DOMAIN options) /\ IsFiniteSet(Members) /\ CreateFee \in Nat
  BY IndicesFinite
<1>2. SumFunctionOnSet(F, N) = SumFunctionOnSet(f, votes) /\ SumFunctionOnSet(F, N) \in Int
  <2>1. SumFunctionOnSet(F, N) = SumFunctionOnSet(f, votes) /\ NatValued(F, N)
    BY FeesByOption
  <2> HIDE DEF F, N
  <2> QED BY <1>1, <2>1, SumNat
<1>3. IntValued(f, votes) /\ IntValued(r, DOMAIN options) /\ NatValued(A, N)
  BY DEF IntValued, NatValued, RowsInv, OptionFee
<1>4. SumFunctionOnSet(A, N) = SumFunctionOnSet(r, DOMAIN options) /\ SumFunctionOnSet(A, N) \in Int
  <2>1. \A n \in N : A[n] = IF n \in DOMAIN options THEN r[n] ELSE 0
    BY DEF OptionFee
  <2> HIDE DEF A, r, N
  <2> QED BY <1>1, <1>3, <2>1, SumOfPart, SumNat
<1>5. IntValued(a, Members) /\ SumFunctionOnSet(a, Members) = k
  <2>1. k \in Nat /\ \A m \in Members : a[m] = IF m = Creator THEN k ELSE 0
    BY <1>1 DEF CreationFee
  <2> HIDE DEF a, k
  <2> QED BY <2>1, CreatorsShare
<1>6. IntValued(b, Members) /\ SumFunctionOnSet(b, Members) = SumFunctionOnSet(r, DOMAIN options)
  <2>1. ASSUME NEW m \in Members
        PROVE  b[m] = Total([i \in {j \in DOMAIN options : options[j].proposer = m} |-> r[i]])
    <3>1. [i \in OptionsBy(options, m) |-> options[i].fee] = [i \in OptionsBy(options, m) |-> r[i]]
      BY DEF OptionsBy
    <3> QED BY <3>1 DEF OptionFees, OptionsBy
  <2>2. \A i \in DOMAIN options : options[i].proposer \in Members
    BY DEF RowsInv
  <2> HIDE DEF b, r
  <2> QED BY <1>1, <1>3, <2>1, <2>2, OfOptions
<1>7. IntValued(c, Members) /\ SumFunctionOnSet(c, Members) = SumFunctionOnSet(f, votes)
  <2>1. ASSUME NEW m \in Members
        PROVE  c[m] = Total([v \in {w \in votes : w.member = m} |-> f[v]])
    <3>1. [v \in CastBy(votes, m) |-> v.fee] = [v \in CastBy(votes, m) |-> f[v]]
      BY DEF CastBy
    <3> QED BY <3>1 DEF CastFees, CastBy
  <2>2. \A v \in votes : v.member \in Members
    BY DEF RowsInv
  <2> HIDE DEF c, f
  <2> QED BY <1>1, <1>3, <2>1, <2>2, OfVotes
<1>8. \A m \in Members : paid[m] = a[m] + b[m] + c[m]
  BY DEF FeesInv, Explained
<1>9. Total(paid) = SumFunctionOnSet(paid, Members)
  BY DEF Total, SumFunction, RowsInv
<1> HIDE DEF a, b, c, A, F, f, r, N
<1>10. SumFunctionOnSet(paid, Members) = k + SumFunctionOnSet(A, N) + SumFunctionOnSet(F, N)
  BY <1>2, <1>4, <1>5, <1>6, <1>7, <1>8, ThreeKinds
<1>11. Worth = CreateFee + SumFunctionOnSet(A, N) + SumFunctionOnSet(F, N)
  BY <1>1, <1>2, <1>4, <1>9, <1>10 DEF Worth
<1> QED BY <1>3, <1>11 DEF A, F, N

(* A settlement pays the creation fee back, options by the view it loaded,  *)
(* and every vote.                                                          *)
LEMMA WhatIsCredited ==
  ASSUME IInv, RowsInv, NEW view, Older(view.options, options)
  PROVE  LET N == 1..(nextOption - 1)
             E == DOMAIN view.options
             G == [n \in N |-> Total([v \in For(votes, n) |-> VoteRefund(v.fee)])]
             C == [n \in N |-> IF n \in E THEN OptionCredit(view.options[n], n = view.winner) ELSE 0]
             q == [m \in Members |-> CreditTo(view, m)]
         IN  /\ NatValued(C, N) /\ IntValued(q, Members)
             /\ SumFunctionOnSet(q, Members) =
                  CreateFee + SumFunctionOnSet(C, N) + SumFunctionOnSet(G, N)
<1> DEFINE N == 1..(nextOption - 1)
           O == view.options
           E == DOMAIN O
           G == [n \in N |-> Total([v \in For(votes, n) |-> VoteRefund(v.fee)])]
           C == [n \in N |-> IF n \in E THEN OptionCredit(O[n], n = view.winner) ELSE 0]
           q == [m \in Members |-> CreditTo(view, m)]
           g == [v \in votes |-> VoteRefund(v.fee)]
           r == [i \in E |-> OptionCredit(O[i], i = view.winner)]
           a == [m \in Members |-> IF m = Creator THEN CreateFee ELSE 0]
           b == [m \in Members |-> Total([i \in {j \in E : O[j].proposer = m} |-> r[i]])]
           c == [m \in Members |-> Total([v \in {w \in votes : w.member = m} |-> g[v]])]
<1>1. /\ IsFiniteSet(votes) /\ IsFiniteSet(N) /\ E \in SUBSET N /\ E \subseteq DOMAIN options
      /\ IsFiniteSet(Members) /\ CreateFee \in Nat
  BY IndicesFinite DEF Older
<1>2. IsFiniteSet(E)
  BY <1>1, FS_Subset
<1>3. ASSUME NEW i \in E
      PROVE  r[i] \in Nat /\ O[i].proposer \in Members
  <2>1. /\ O[i].proposer \in Members /\ O[i].fee \in Nat /\ O[i].collected \in Nat
    BY <1>1 DEF Older, RowsInv
  <2>2. PICK o : o = O[i]
    OBVIOUS
  <2>3. o.fee \in Nat /\ o.collected \in Nat /\ o.collected <= o.collected
    BY <2>1, <2>2
  <2>4. OptionCredit(o, i = view.winner) \in Nat
    BY <2>3, OptionReturns
  <2> QED BY <2>1, <2>2, <2>4
<1>4. IntValued(r, E) /\ NatValued(C, N)
  <2>1. ASSUME NEW n \in N
        PROVE  C[n] \in Nat
    <3>1. CASE n \in E
      BY <1>3, <3>1
    <3>2. CASE n \notin E
      BY <3>2
    <3> QED BY <3>1, <3>2
  <2>2. \A i \in E : r[i] \in Int
    BY <1>3
  <2> HIDE DEF r, C
  <2> QED BY <2>1, <2>2 DEF IntValued, NatValued
<1>5. IntValued(g, votes)
  <2>1. ASSUME NEW v \in votes
        PROVE  g[v] \in Int
    <3>1. PICK x \in Nat : x = v.fee
      BY DEF RowsInv
    <3>2. Bps(x, VoteRefundBps) \in Nat
      BY SettlesRates, BpsBounds
    <3> QED BY <3>1, <3>2 DEF VoteRefund
  <2> QED BY <2>1 DEF IntValued
<1>6. SumFunctionOnSet(G, N) = SumFunctionOnSet(g, votes) /\ SumFunctionOnSet(G, N) \in Int
  <2>1. SumFunctionOnSet(G, N) = SumFunctionOnSet(g, votes) /\ NatValued(G, N)
    BY FeesByOption
  <2> HIDE DEF G, N
  <2> QED BY <1>1, <2>1, SumNat
<1>7. SumFunctionOnSet(C, N) = SumFunctionOnSet(r, E) /\ SumFunctionOnSet(C, N) \in Int
  <2>1. \A n \in N : C[n] = IF n \in E THEN r[n] ELSE 0
    OBVIOUS
  <2> HIDE DEF C, r, N, E
  <2> QED BY <1>1, <1>4, <2>1, SumOfPart, SumNat
<1>8. IntValued(a, Members) /\ SumFunctionOnSet(a, Members) = CreateFee
  BY <1>1, CreatorsShare
<1>9. IntValued(b, Members) /\ SumFunctionOnSet(b, Members) = SumFunctionOnSet(r, E)
  <2>1. /\ \A m \in Members : b[m] = Total([i \in {j \in DOMAIN O : O[j].proposer = m} |-> r[i]])
        /\ \A i \in DOMAIN O : O[i].proposer \in Members
    BY <1>3
  <2> HIDE DEF b, r, O
  <2> QED BY <1>2, <1>4, <2>1, OfOptions
<1>10. IntValued(c, Members) /\ SumFunctionOnSet(c, Members) = SumFunctionOnSet(g, votes)
  <2>1. /\ \A m \in Members : c[m] = Total([v \in {w \in votes : w.member = m} |-> g[v]])
        /\ \A v \in votes : v.member \in Members
    BY DEF RowsInv
  <2> HIDE DEF c, g
  <2> QED BY <1>1, <1>5, <2>1, OfVotes
<1>11. ASSUME NEW m \in Members
       PROVE  q[m] = a[m] + b[m] + c[m]
  <2> DEFINE S == {j \in E : O[j].proposer = m}
             V == {w \in votes : w.member = m}
  <2>1. [i \in S |-> OptionCredit(O[i], i = view.winner)] = [i \in S |-> r[i]]
    OBVIOUS
  <2>2. [v \in V |-> VoteRefund(v.fee)] = [v \in V |-> g[v]]
    OBVIOUS
  <2>3. CreditTo(view, m) = (IF m = Creator THEN CreateFee ELSE 0)
           + Total([i \in S |-> OptionCredit(O[i], i = view.winner)])
           + Total([v \in V |-> VoteRefund(v.fee)])
    BY DEF CreditTo
  <2>4. /\ a[m] = (IF m = Creator THEN CreateFee ELSE 0)
        /\ b[m] = Total([i \in S |-> r[i]]) /\ c[m] = Total([v \in V |-> g[v]])
    OBVIOUS
  <2> HIDE DEF S, V, r, g, a, b, c
  <2> QED BY <2>1, <2>2, <2>3, <2>4
<1> HIDE DEF a, b, c, C, G, g, r, N, q, E
<1>12. /\ IntValued(q, Members)
       /\ SumFunctionOnSet(q, Members) =
            CreateFee + SumFunctionOnSet(C, N) + SumFunctionOnSet(G, N)
  BY <1>6, <1>7, <1>8, <1>9, <1>10, <1>11, ThreeKinds
<1> QED BY <1>4, <1>12 DEF C, G, N, q, E

(* One settlement pays out at most what the round is worth.                 *)
LEMMA SettlementCovered ==
  ASSUME IInv, FeesInv, RowsInv, row.exists, NEW view, Older(view.options, options)
  PROVE  LET q == [m \in Members |-> CreditTo(view, m)]
         IN  IntValued(q, Members) /\ SumFunctionOnSet(q, Members) <= Worth
<1> DEFINE N == 1..(nextOption - 1)
           O == view.options
           F == [n \in N |-> FeesOf(votes, n)]
           A == [n \in N |-> OptionFee(n)]
           G == [n \in N |-> Total([v \in For(votes, n) |-> VoteRefund(v.fee)])]
           C == [n \in N |-> IF n \in DOMAIN O THEN OptionCredit(O[n], n = view.winner) ELSE 0]
           q == [m \in Members |-> CreditTo(view, m)]
           x == [n \in N |-> C[n] + G[n]]
           y == [n \in N |-> A[n] + F[n]]
<1>1. IsFiniteSet(N) /\ CreateFee \in Nat
  BY IndicesFinite
<1>2. NatValued(F, N) /\ NatValued(G, N) /\ \A n \in N : G[n] <= VoteRefund(F[n])
  BY FeesByOption
<1>3. /\ NatValued(A, N)
      /\ Worth = CreateFee + SumFunctionOnSet(A, N) + SumFunctionOnSet(F, N)
  BY WhatWasPaid
<1>4. /\ NatValued(C, N) /\ IntValued(q, Members)
      /\ SumFunctionOnSet(q, Members) = CreateFee + SumFunctionOnSet(C, N) + SumFunctionOnSet(G, N)
  BY WhatIsCredited
<1>5. ASSUME NEW n \in N
      PROVE  C[n] + G[n] <= A[n] + F[n]
  <2>1. PICK k \in Nat : k = F[n]
    BY <1>2 DEF NatValued
  <2>2. PICK g \in Nat : g = G[n] /\ g <= VoteRefund(k)
    BY <1>2, <2>1 DEF NatValued
  <2>3. CASE n \in DOMAIN O
    <3>1. PICK o : o = O[n]
      OBVIOUS
    <3>2. /\ n \in DOMAIN options /\ o.fee = options[n].fee /\ o.fee \in Nat
          /\ o.collected \in Nat /\ o.collected <= options[n].collected
      BY <2>3, <3>1 DEF Older, RowsInv
    <3>3. options[n].collected = k
      BY <2>1, <3>2, TallyByOption DEF IInv
    <3>4. /\ OptionCredit(o, n = view.winner) \in Nat
          /\ OptionCredit(o, n = view.winner) + VoteRefund(k) <= o.fee + k
      BY <3>2, <3>3, OptionReturns
    <3>5. VoteRefund(k) \in Nat
      BY SettlesRates, BpsBounds DEF VoteRefund
    <3>6. A[n] = o.fee /\ C[n] = OptionCredit(o, n = view.winner)
      BY <2>3, <3>1, <3>2 DEF OptionFee
    <3> QED BY <2>1, <2>2, <3>2, <3>4, <3>5, <3>6
  <2>4. CASE n \notin DOMAIN O
    <3>1. VoteRefund(k) \in Nat /\ VoteRefund(k) <= k
      BY SettlesRates, BpsBounds DEF VoteRefund
    <3>2. C[n] = 0 /\ A[n] \in Nat
      BY <1>3, <2>4 DEF NatValued
    <3> QED BY <2>1, <2>2, <3>1, <3>2
  <2> QED BY <2>3, <2>4
<1> HIDE DEF F, A, G, C, q, N, O
<1>6. IntValued(A, N) /\ IntValued(F, N) /\ IntValued(C, N) /\ IntValued(G, N)
  BY <1>2, <1>3, <1>4 DEF IntValued, NatValued
<1>7. /\ IntValued(x, N) /\ IntValued(y, N) /\ \A n \in N : x[n] <= y[n]
      /\ \A n \in N : x[n] = C[n] + G[n] /\ y[n] = A[n] + F[n]
  BY <1>5, <1>6 DEF IntValued
<1> HIDE DEF x, y
<1>8. /\ SumFunctionOnSet(x, N) = SumFunctionOnSet(C, N) + SumFunctionOnSet(G, N)
      /\ SumFunctionOnSet(y, N) = SumFunctionOnSet(A, N) + SumFunctionOnSet(F, N)
  BY <1>1, <1>6, <1>7, SumPlus
<1>9. SumFunctionOnSet(x, N) <= SumFunctionOnSet(y, N)
  BY <1>1, <1>7, SumLeq
<1>10. /\ SumFunctionOnSet(C, N) \in Int /\ SumFunctionOnSet(G, N) \in Int
       /\ SumFunctionOnSet(A, N) \in Int /\ SumFunctionOnSet(F, N) \in Int
  BY <1>1, <1>6, SumStep
<1>11. SumFunctionOnSet(q, Members) <= Worth
  BY <1>1, <1>3, <1>4, <1>8, <1>9, <1>10
<1> QED BY <1>4, <1>11 DEF q

(* What a round is worth only grows, and so does what all settlements may   *)
(* have paid out.                                                           *)
LEMMA WorthNat ==
  ASSUME RowsInv
  PROVE  Worth \in Nat /\ Total(paid) = SumFunctionOnSet(paid, Members)
<1>1. Total(paid) = SumFunctionOnSet(paid, Members) /\ NatValued(paid, Members)
  BY DEF Total, SumFunction, RowsInv, NatValued
<1>2. IsFiniteSet(Members) /\ CreateFee \in Nat
  BY RoundAssumption
<1>3. Total(paid) \in Nat
  BY <1>1, <1>2, SumNat
<1> QED BY <1>1, <1>2, <1>3 DEF Worth

LEMMA AtLeastAsMuch ==
  ASSUME NEW n \in Nat, NEW a \in Nat, NEW b \in Nat, a <= b
  PROVE  n * a <= n * b /\ n * a \in Nat /\ (n + 1) * a = n * a + a
<1>1. PICK c \in Nat : b = a + c
  <2>1. b - a \in Nat /\ b = a + (b - a)
    OBVIOUS
  <2> QED BY <2>1
<1>2. n * (a + c) = n * a + n * c /\ n * a \in Nat /\ n * c \in Nat
  OBVIOUS
<1> QED BY <1>1, <1>2

(* The invariant: what was credited is covered, and what a settlement has   *)
(* loaded is what the options were.                                         *)
Covered ==
  /\ credited \in [Members -> Int]
  /\ SumFunctionOnSet(credited, Members) <= settlements * Worth

CreditInv ==
  /\ RowsInv
  /\ settlements \in Nat
  /\ Blank => credited = [m \in Members |-> 0] /\ settlements = 0
  /\ \A w \in Workers :
       work[w].at = "commit" /\ work[w].req.kind = "vote" => work[w].req.count \in Nat \ {0}
  /\ row.exists => Covered
  /\ row.exists => \A w \in Workers : work[w].at = "apply" => Older(work[w].view.options, options)

----------------------------------------------------------------------------
(* The steps that credit nothing.                                           *)

LEMMA OlderStill ==
  ASSUME NEW O, NEW P, NEW Q, Older(O, P), Older(P, Q),
         \A i \in DOMAIN P : P[i].collected \in Nat /\ Q[i].collected \in Nat
  PROVE  Older(O, Q)
<1>1. DOMAIN O \subseteq DOMAIN P /\ DOMAIN P \subseteq DOMAIN Q
  BY DEF Older
<1>2. ASSUME NEW i \in DOMAIN O
      PROVE  /\ O[i].proposer = Q[i].proposer /\ O[i].fee = Q[i].fee
             /\ O[i].collected \in Nat /\ O[i].collected <= Q[i].collected
  <2>1. PICK a \in Nat : a = O[i].collected
    BY DEF Older
  <2>2. PICK b \in Nat : b = P[i].collected
    BY <1>1
  <2>3. PICK c \in Nat : c = Q[i].collected
    BY <1>1
  <2>4. a <= b /\ b <= c
    BY <1>1, <2>1, <2>2, <2>3 DEF Older
  <2> QED BY <1>1, <2>1, <2>3, <2>4 DEF Older
<1> QED BY <1>1, <1>2 DEF Older

(* What the members pay makes the round worth more.                         *)
LEMMA WorthGrows ==
  ASSUME RowsInv, RowsInv', row'.coupon = row.coupon, settlements \in Nat,
         \A m \in Members : paid[m] <= paid'[m], Covered, UNCHANGED <<credited, settlements>>
  PROVE  Covered'
<1>1. IsFiniteSet(Members)
  BY RoundAssumption
<1>2. IntValued(paid, Members) /\ IntValued(paid', Members) /\ IntValued(credited, Members)
  BY DEF RowsInv, IntValued, Covered
<1>3. SumFunctionOnSet(paid, Members) <= SumFunctionOnSet(paid', Members)
  BY <1>1, <1>2, SumLeq
<1>4. PICK k \in Nat : k = IF row.coupon THEN CreateFee ELSE 0
  BY RoundAssumption
<1>5. PICK a \in Nat : a = Worth
  BY WorthNat
<1>6. PICK b \in Nat : b = Worth'
  <2>1. Total(paid') = SumFunctionOnSet(paid', Members) /\ NatValued(paid', Members)
    BY DEF Total, SumFunction, RowsInv, NatValued
  <2>2. Total(paid') \in Nat
    BY <1>1, <2>1, SumNat
  <2> QED BY <1>4, <2>2 DEF Worth
<1>7. /\ SumFunctionOnSet(paid, Members) = Total(paid)
      /\ SumFunctionOnSet(paid', Members) = Total(paid')
  BY DEF Total, SumFunction, RowsInv
<1>8. Worth = Total(paid) + k /\ Worth' = Total(paid') + k
  BY <1>4 DEF Worth
<1>9. SumFunctionOnSet(paid, Members) \in Int /\ SumFunctionOnSet(paid', Members) \in Int
  BY <1>1, <1>2, SumStep
<1>10. a <= b
  BY <1>3, <1>5, <1>6, <1>7, <1>8, <1>9
<1>11. settlements * a <= settlements * b /\ settlements * a \in Nat
  BY <1>10, AtLeastAsMuch
<1>12. settlements * b \in Nat
  BY AtLeastAsMuch
<1>13. SumFunctionOnSet(credited, Members) \in Int
  BY <1>1, <1>2, SumStep
<1>14. SumFunctionOnSet(credited, Members) <= settlements * b
  BY <1>5, <1>11, <1>12, <1>13 DEF Covered
<1> QED BY <1>6, <1>14 DEF Covered

(* A vote about to be recorded counts at least once.                        *)
Votes(r) == r.at = "commit" /\ r.req.kind = "vote" => r.req.count \in Nat \ {0}

LEMMA NothingCredited ==
  ASSUME CreditInv, ~Blank, RowKept, NEW w \in Workers, Moves(w), Votes(work'[w]),
         RowsInv', \A m \in Members : paid[m] <= paid'[m], Older(options, options'),
         UNCHANGED <<credited, settlements>>,
         work'[w].at = "apply" => Older(work'[w].view.options, options')
  PROVE  CreditInv'
<1>1. ~Blank'
  BY DEF Blank, RowKept
<1>2. \A x \in Workers : Votes(work'[x])
  BY DEF Moves, CreditInv, Votes
<1>3. row'.exists => Covered'
  BY WorthGrows DEF RowKept, CreditInv
<1>4. ASSUME row'.exists, NEW x \in Workers, work'[x].at = "apply"
      PROVE  Older(work'[x].view.options, options')
  <2>1. CASE x = w
    BY <1>4, <2>1
  <2>2. CASE x # w
    <3>1. work'[x] = work[x] /\ row.exists
      BY <1>4, <2>2 DEF Moves, RowKept
    <3>2. Older(work[x].view.options, options)
      BY <1>4, <3>1 DEF CreditInv
    <3>3. \A i \in DOMAIN options : options[i].collected \in Nat /\ options'[i].collected \in Nat
      BY DEF CreditInv, RowsInv, Older
    <3> QED BY <3>1, <3>2, <3>3, OlderStill
  <2> QED BY <2>1, <2>2
<1> QED BY <1>1, <1>2, <1>3, <1>4 DEF CreditInv, Votes

LEMMA AsOldAsItself ==
  ASSUME RowsInv
  PROVE  Older(options, options)
BY DEF Older, RowsInv

LEMMA StandsStill ==
  ASSUME CreditInv, ~Blank, RowKept, NEW w \in Workers, Moves(w), Votes(work'[w]),
         UNCHANGED <<options, votes, paid, credited, settlements>>,
         work'[w].at = "apply" => Older(work'[w].view.options, options)
  PROVE  CreditInv'
<1>1. RowsInv /\ RowsInv'
  BY DEF CreditInv, RowsInv
<1>2. Older(options, options')
  BY <1>1, AsOldAsItself
<1>3. \A m \in Members : paid[m] <= paid'[m]
  BY <1>1 DEF RowsInv
<1> QED BY <1>1, <1>2, <1>3, NothingCredited

LEMMA WorkerMoves ==
  ASSUME IInv, NEW w \in Workers, NEW r, IsWork(r), work' = [work EXCEPT ![w] = r]
  PROVE  Moves(w) /\ work'[w] = r
BY DEF IInv, WorkInv, Moves

LEMMA RefreshCreditsNothing ==
  ASSUME IInv, FeesInv, CreditInv, ~Blank, NEW w \in Workers, NEW stage,
         \/ Refresh(w) \/ ReadWinner(w) \/ FixWinner(w)
         \/ AdvanceToOrdering(w) \/ AdvanceProposalStage(w, stage)
  PROVE  CreditInv'
<1>1. RowKept
  BY RowStays
<1>2. PICK r : /\ IsWork(r) /\ r.at \in {"settle", "load", "tally", "fix", "reread"}
               /\ work' = [work EXCEPT ![w] = r]
  <2>1. CASE Refresh(w) \/ ReadWinner(w) \/ FixWinner(w)
    BY <2>1, RefreshMoves
  <2>2. CASE AdvanceToOrdering(w) \/ AdvanceProposalStage(w, stage)
    BY <2>2, IdleIsWork DEF AdvanceToOrdering, AdvanceProposalStage
  <2> QED BY <2>1, <2>2
<1>3. /\ Moves(w) /\ work'[w].at # "commit" /\ work'[w].at # "apply"
  BY <1>2, WorkerMoves
<1>4. UNCHANGED <<options, votes, paid, credited, settlements>>
  BY DEF Refresh, ReadWinner, FixWinner, AdvanceToOrdering, AdvanceProposalStage, moneyVars
<1> QED BY <1>1, <1>3, <1>4, StandsStill DEF Votes

LEMMA ReadCreditsNothing ==
  ASSUME IInv, FeesInv, CreditInv, ~Blank, NEW w \in Workers,
         NotFound(w) \/ LoadForSettlement(w) \/ CheckDeletable(w) \/ ReadBestOption(w)
  PROVE  CreditInv'
<1>1. Quiet(w)
  BY NotFoundQuiet, LoadForSettlementQuiet, CheckDeletableQuiet, ReadBestOptionQuiet
<1>2. UNCHANGED <<row, options, votes, paid, credited, settlements>>
  BY DEF NotFound, LoadForSettlement, CheckDeletable, ReadBestOption, moneyVars
<1>3. work'[w].at = "apply" => work'[w].view.options = options
  <2>1. CASE NotFound(w) \/ CheckDeletable(w) \/ ReadBestOption(w)
    <3>1. \E r : r.at # "apply" /\ work' = [work EXCEPT ![w] = r]
      BY <2>1, IdleIsWork DEF NotFound, CheckDeletable, ReadBestOption
    <3> QED BY <3>1 DEF IInv, WorkInv
  <2>2. CASE LoadForSettlement(w)
    <3>1. \E a : work' = [work EXCEPT ![w] = [at |-> a, req |-> NoRequest,
                    view |-> [winner |-> row.winner, options |-> options, total |-> TotalVotes]]]
      BY <2>2 DEF LoadForSettlement
    <3> QED BY <3>1 DEF IInv, WorkInv
  <2> QED BY <2>1, <2>2
<1>4. Older(options, options)
  BY AsOldAsItself DEF CreditInv
<1> QED BY <1>1, <1>2, <1>3, <1>4, SameRow, StandsStill DEF Quiet, Votes

LEMMA LoadCreditsNothing ==
  ASSUME IInv, FeesInv, CreditInv, ~Blank, NEW w \in Workers, Load(w)
  PROVE  CreditInv'
<1>1. UNCHANGED <<row, options, votes, paid, credited, settlements>>
  BY DEF Load, moneyVars
<1>2. Moves(w) /\ Votes(work'[w]) /\ work'[w].at # "apply"
  <2>1. CASE work' = [work EXCEPT ![w] = Idle]
    BY <2>1, IdleIsWork, WorkerMoves DEF Votes
  <2>2. ASSUME NEW req \in Requests,
               work' = [work EXCEPT ![w] = [at |-> "commit", req |-> req, view |-> NoRequest]]
        PROVE  Moves(w) /\ Votes(work'[w]) /\ work'[w].at # "apply"
    <3> DEFINE r == [at |-> "commit", req |-> req, view |-> NoRequest]
    <3>1. IsWork(r) /\ r.at = "commit" /\ r.req = req
      BY DEF IsWork
    <3> HIDE DEF r
    <3>2. Moves(w) /\ work'[w] = r
      BY <2>2, <3>1, WorkerMoves DEF r
    <3>3. req.kind = "vote" => req.count \in Nat \ {0}
      <4> SUFFICES ASSUME req.kind = "vote" PROVE req.count \in VoteCounts
        BY RoundAssumption
      <4> QED BY DEF Requests
    <3> QED BY <3>1, <3>2, <3>3 DEF Votes
  <2> QED BY <2>1, <2>2 DEF Load
<1> QED BY <1>1, <1>2, SameRow, StandsStill

(* A new option and a new vote are paid for.                                *)
LEMMA InsertCreditsNothing ==
  ASSUME IInv, FeesInv, CreditInv, ~Blank, NEW w \in Workers, InsertProposalOption(w)
  PROVE  CreditInv'
<1> DEFINE req == work[w].req
           p   == req.member
           o   == nextOption
<1>1. /\ work[w].at = "commit" /\ req.kind = "add"
      /\ UNCHANGED <<now, row, votes, credited, settlements>>
  BY DEF InsertProposalOption
<1>2. RowKept
  BY <1>1, SameRow
<1>3. CASE ~MerchantIndex(req.merchant)
  <2>1. work' = [work EXCEPT ![w] = Idle] /\ UNCHANGED <<options, paid>>
    BY <1>3 DEF InsertProposalOption
  <2>2. Moves(w) /\ work'[w].at = "idle"
    BY <2>1, IdleIsWork, WorkerMoves
  <2> QED BY <1>1, <1>2, <2>1, <2>2, StandsStill DEF Votes
<1>4. CASE MerchantIndex(req.merchant)
  <2> DEFINE used == UsesProposalTicket(req)
             fee  == IF used THEN 0 ELSE ProposalFee
             q    == [merchant |-> req.merchant, proposer |-> p, fee |-> fee,
                      ticket |-> used, votes |-> 0, collected |-> 0]
  <2>1. /\ options' = [i \in DOMAIN options \cup {o} |->
                         IF i \in DOMAIN options THEN options[i] ELSE q]
        /\ paid' = [paid EXCEPT ![p] = @ + fee]
        /\ work' = [work EXCEPT ![w] = Answering]
    BY <1>4 DEF InsertProposalOption
  <2>2. fee \in Nat /\ p \in Members
    <3>1. ProposalFee \in Nat
      BY RoundAssumption
    <3>2. p \in Members
      BY <1>1 DEF FeesInv
    <3> QED BY <3>1, <3>2
  <2>3. q.proposer = p /\ q.fee = fee /\ q.collected = 0
    OBVIOUS
  <2> HIDE DEF q, fee, used
  <2>4. Moves(w) /\ work'[w].at = "reread"
    BY <2>1, IdleIsWork, WorkerMoves
  <2>5. RowsInv
    BY DEF CreditInv
  <2>6. paid' \in [Members -> Nat] /\ \A m \in Members : paid[m] <= paid'[m]
    BY <2>1, <2>2, <2>5 DEF RowsInv
  <2>7. /\ DOMAIN options' = DOMAIN options \cup {o}
        /\ \A i \in DOMAIN options : options'[i] = options[i]
        /\ o \notin DOMAIN options => options'[o] = q
    BY <2>1
  <2>8. RowsInv'
    BY <1>1, <2>2, <2>3, <2>5, <2>6, <2>7 DEF RowsInv
  <2>9. Older(options, options')
    BY <2>5, <2>7 DEF Older, RowsInv
  <2> QED BY <1>1, <1>2, <2>4, <2>6, <2>8, <2>9, NothingCredited DEF Votes
<1> QED BY <1>3, <1>4

LEMMA VoteCreditsNothing ==
  ASSUME IInv, FeesInv, CreditInv, ~Blank, NEW w \in Workers, RecordVote(w)
  PROVE  CreditInv'
<1> DEFINE req == work[w].req
           p   == req.member
           i   == req.option
           fee == VoteFeeFor(req)
<1>1. /\ work[w].at = "commit" /\ req.kind = "vote"
      /\ UNCHANGED <<now, row, credited, settlements>>
  BY DEF RecordVote
<1>2. RowKept
  BY <1>1, SameRow
<1>3. CASE ~(FirstVote(p) /\ (req.ticket => tickets[p].vote > 0))
  <2>1. work' = [work EXCEPT ![w] = Idle] /\ UNCHANGED <<options, votes, paid>>
    BY <1>3 DEF RecordVote
  <2>2. Moves(w) /\ work'[w].at = "idle"
    BY <2>1, IdleIsWork, WorkerMoves
  <2> QED BY <1>1, <1>2, <2>1, <2>2, StandsStill DEF Votes
<1>4. CASE FirstVote(p) /\ (req.ticket => tickets[p].vote > 0)
  <2> DEFINE x == [member |-> p, option |-> i, count |-> req.count, fee |-> fee,
                   ticket |-> req.ticket, late |-> VotingOver]
  <2>1. /\ votes' = votes \cup {x}
        /\ paid' = [paid EXCEPT ![p] = @ + fee]
        /\ work' = [work EXCEPT ![w] = Answering]
        /\ options' = IF i \notin DOMAIN options THEN options
                      ELSE [options EXCEPT ![i] = WithVote(@, req.count, fee)]
    BY <1>4 DEF RecordVote
  <2>2. p \in Members /\ fee \in Nat
    <3>1. req.count \in Nat \ {0} /\ p \in Members
      BY <1>1 DEF CreditInv, FeesInv
    <3>2. PICK k \in Nat : k = req.count - (IF req.ticket THEN 1 ELSE 0)
      <4>1. req.count - 1 \in Nat /\ req.count - 0 \in Nat
        BY <3>1
      <4> QED BY <4>1
    <3>3. PICK c \in Nat : c = VoteFee
      BY RoundAssumption
    <3>4. k * c \in Nat
      OBVIOUS
    <3> QED BY <3>1, <3>2, <3>3, <3>4 DEF VoteFeeFor
  <2>3. x.member = p /\ x.fee = fee
    OBVIOUS
  <2> HIDE DEF x, fee
  <2>4. Moves(w) /\ work'[w].at = "reread"
    BY <2>1, IdleIsWork, WorkerMoves
  <2>5. RowsInv /\ \A j \in DOMAIN options : IsOption(options[j])
    BY DEF CreditInv, IInv, OptionsInv
  <2>6. paid' \in [Members -> Nat] /\ \A m \in Members : paid[m] <= paid'[m]
    BY <2>1, <2>2, <2>5 DEF RowsInv
  <2>7. /\ DOMAIN options' = DOMAIN options
        /\ \A j \in DOMAIN options :
             /\ options'[j].proposer = options[j].proposer /\ options'[j].fee = options[j].fee
             /\ \/ options'[j].collected = options[j].collected
                \/ options'[j].collected = options[j].collected + fee
    BY <2>1, <2>5, VoteOnOption
  <2>8. ASSUME NEW j \in DOMAIN options
        PROVE  options'[j].collected \in Nat /\ options[j].collected <= options'[j].collected
    <3>1. PICK c \in Nat : c = options[j].collected
      BY <2>5 DEF RowsInv
    <3> QED BY <2>2, <2>7, <3>1
  <2>9. RowsInv'
    BY <2>1, <2>2, <2>3, <2>5, <2>6, <2>7, <2>8 DEF RowsInv
  <2>10. Older(options, options')
    BY <2>5, <2>7, <2>8 DEF Older, RowsInv
  <2> QED BY <1>1, <1>2, <2>4, <2>6, <2>9, <2>10, NothingCredited DEF Votes
<1> QED BY <1>3, <1>4

(* A settlement may add what the round is worth to what was credited.       *)
LEMMA ApplyCovered ==
  ASSUME IInv, FeesInv, CreditInv, ~Blank, NEW w \in Workers, ApplySettlement(w)
  PROVE  CreditInv'
<1> DEFINE view == work[w].view
           q    == [m \in Members |-> CreditTo(view, m)]
<1>1. /\ work[w].at = "apply" /\ work' = [work EXCEPT ![w] = Loading]
      /\ UNCHANGED <<options, votes, paid>> /\ settlements' = settlements + 1
      /\ IF view.total = 0 THEN credited' = credited
         ELSE credited' = [m \in Members |-> credited[m] + CreditTo(view, m)]
  BY DEF ApplySettlement
<1>2. RowKept /\ row'.exists = row.exists
  <2>1. row' = row \/ \E f : row' = [row EXCEPT !.rewards = TRUE, !.failed = f]
    BY DEF ApplySettlement
  <2>2. row'.exists = row.exists
    BY <2>1 DEF IInv, IsRow
  <2> QED BY <2>2, RowStays
<1>3. Moves(w) /\ work'[w].at = "load"
  BY <1>1, IdleIsWork, WorkerMoves
<1>4. RowsInv /\ RowsInv' /\ settlements \in Nat /\ settlements' \in Nat
  BY <1>1 DEF CreditInv, RowsInv
<1>5. ~Blank'
  BY <1>2 DEF Blank, RowKept
<1>6. \A x \in Workers :
        work'[x].at = "commit" /\ work'[x].req.kind = "vote" => work'[x].req.count \in Nat \ {0}
  BY <1>3 DEF Moves, CreditInv
<1>7. row'.exists => \A x \in Workers : work'[x].at = "apply" => Older(work'[x].view.options, options')
  BY <1>1, <1>2, <1>3 DEF Moves, CreditInv
<1>8. ASSUME row.exists
      PROVE  Covered'
  <2>1. PICK a \in Nat : a = Worth
    BY <1>4, WorthNat
  <2>2. Worth' = Worth
    BY <1>1, <1>2 DEF Worth, RowKept
  <2>3. /\ credited \in [Members -> Int]
        /\ SumFunctionOnSet(credited, Members) <= settlements * a
    BY <1>8, <2>1 DEF CreditInv, Covered
  <2>4. IsFiniteSet(Members) /\ IntValued(credited, Members)
    BY <2>3, RoundAssumption DEF IntValued
  <2>5. SumFunctionOnSet(credited, Members) \in Int
    BY <2>4, SumStep
  <2>6. settlements' * a = settlements * a + a /\ settlements * a \in Nat
    BY <1>1, <1>4, AtLeastAsMuch
  <2>7. CASE view.total = 0
    <3>1. credited' = credited
      BY <1>1, <2>7
    <3> QED BY <2>1, <2>2, <2>3, <2>5, <2>6, <3>1 DEF Covered
  <2>8. CASE view.total # 0
    <3>1. Older(view.options, options)
      BY <1>1, <1>8 DEF CreditInv
    <3>2. IntValued(q, Members) /\ SumFunctionOnSet(q, Members) <= a
      BY <1>4, <1>8, <2>1, <3>1, SettlementCovered
    <3>3. \A m \in Members : q[m] = CreditTo(view, m)
      OBVIOUS
    <3>4. credited' = [m \in Members |-> credited[m] + CreditTo(view, m)]
      BY <1>1, <2>8
    <3> HIDE DEF q, view
    <3>5. /\ credited' \in [Members -> Int] /\ IntValued(credited', Members)
          /\ \A m \in Members : credited'[m] = credited[m] + q[m]
      BY <2>3, <3>2, <3>3, <3>4 DEF IntValued
    <3>6. SumFunctionOnSet(credited', Members)
            = SumFunctionOnSet(credited, Members) + SumFunctionOnSet(q, Members)
      BY <2>4, <3>2, <3>5, SumPlus
    <3>7. SumFunctionOnSet(q, Members) \in Int
      BY <2>4, <3>2, SumStep
    <3>8. SumFunctionOnSet(credited', Members) <= settlements' * a
      BY <2>1, <2>3, <2>5, <2>6, <3>2, <3>6, <3>7
    <3> QED BY <2>1, <2>2, <3>5, <3>8 DEF Covered
  <2> QED BY <2>7, <2>8
<1> QED BY <1>2, <1>4, <1>5, <1>6, <1>7, <1>8 DEF CreditInv

(* A round begins with nothing credited; a deleted one is not reckoned.     *)
LEMMA CreateCreditsNothing ==
  ASSUME IInv, FeesInv, CreditInv, NEW w \in Workers, NEW s \in Schedules, NEW c, Create(w, s, c)
  PROVE  CreditInv'
<1> DEFINE used == c /\ Tickets > 0
<1>1. /\ row = NoRow /\ now < s.dayEnd
      /\ row' = [NoRow EXCEPT !.exists = TRUE, !.sched = s, !.coupon = used]
      /\ paid' = [paid EXCEPT ![Creator] = @ + (IF used THEN 0 ELSE CreateFee)]
      /\ work' = [work EXCEPT ![w] = Answering]
      /\ UNCHANGED <<now, options, votes, credited, settlements>>
  BY DEF Create
<1>2. row'.sched = s
  BY <1>1 DEF NoRow
<1>3. IsSched(s) /\ s.dayEnd \in Nat /\ Creator \in Members /\ CreateFee \in Nat /\ IsFiniteSet(Members)
  BY RoundAssumption DEF IsSched
<1>4. Blank /\ Untouched
  BY <1>1 DEF FeesInv, Blank, NoRow
<1>5. ~Blank'
  BY <1>1, <1>2, <1>3 DEF Blank, FeesInv
<1>6. credited = [m \in Members |-> 0] /\ settlements = 0
  BY <1>4 DEF CreditInv
<1>7. RowsInv'
  <2>1. PICK k \in Nat : k = IF used THEN 0 ELSE CreateFee
    BY <1>3
  <2>2. paid = [m \in Members |-> 0] /\ paid' = [paid EXCEPT ![Creator] = @ + k]
    BY <1>1, <1>4, <2>1 DEF Untouched
  <2>3. paid' \in [Members -> Nat]
    BY <1>3, <2>2
  <2>4. DOMAIN options' = {} /\ votes' = {}
    BY <1>1, <1>4 DEF Untouched
  <2> QED BY <2>3, <2>4 DEF RowsInv
<1>8. Covered'
  <2>1. Worth' \in Nat
    <3>1. NatValued(paid', Members) /\ Total(paid') = SumFunctionOnSet(paid', Members)
      BY <1>7 DEF RowsInv, NatValued, Total, SumFunction
    <3>2. Total(paid') \in Nat
      BY <1>3, <3>1, SumNat
    <3> QED BY <1>3, <3>2 DEF Worth
  <2>2. \A m \in Members : credited[m] = 0
    BY <1>6
  <2>3. SumFunctionOnSet(credited, Members) = 0
    BY <1>3, <2>2, SumZero
  <2>4. settlements' * Worth' = 0
    BY <1>1, <1>6, <2>1
  <2> QED BY <1>1, <1>6, <2>3, <2>4 DEF Covered
<1>9. \A x \in Workers : work'[x].at \in {"idle", "reread"}
  BY <1>1, <1>4, IdleIsWork DEF Untouched
<1> QED BY <1>1, <1>5, <1>6, <1>7, <1>8, <1>9 DEF CreditInv

LEMMA EraseCredits ==
  ASSUME IInv, FeesInv, CreditInv, ~Blank, NEW w \in Workers, DeleteProposalByCreator(w)
  PROVE  CreditInv'
<1>1. /\ row' = [row EXCEPT !.exists = FALSE] /\ options' = <<>> /\ votes' = {}
      /\ work' = [work EXCEPT ![w] = Idle] /\ UNCHANGED <<paid, settlements>>
  BY DEF DeleteProposalByCreator
<1>2. row'.exists = FALSE /\ row'.sched = row.sched
  BY <1>1 DEF IInv, IsRow
<1>3. Moves(w) /\ work'[w].at = "idle"
  BY <1>1, IdleIsWork, WorkerMoves
<1>4. DOMAIN options' = {}
  BY <1>1
<1> QED BY <1>1, <1>2, <1>3, <1>4 DEF CreditInv, RowsInv, Blank, Moves

LEMMA CreditsKept ==
  ASSUME IInv, FeesInv, CreditInv, [Next]_vars
  PROVE  CreditInv'
<1>1. CASE Tick \/ UNCHANGED vars
  <2>1. UNCHANGED <<row, options, votes, paid, credited, settlements, work>>
    BY <1>1 DEF Tick, vars, moneyVars
  <2>2. RowsInv' /\ (Blank' <=> Blank) /\ (row'.exists => Covered')
    BY <2>1 DEF CreditInv, RowsInv, Blank, Covered, Worth
  <2> QED BY <2>1, <2>2 DEF CreditInv
<1>2. ASSUME NEW w \in Workers, NEW s \in Schedules, NEW c \in CouponChoices, Create(w, s, c)
      PROVE  CreditInv'
  BY <1>2, CreateCreditsNothing
<1>3. ASSUME NEW w \in Workers, Begin(w) \/ ReadBestOption(w)
      PROVE  CreditInv'
  <2>1. ~Blank
    BY <1>3, BlankStands
  <2> QED BY <1>3, <2>1, RefreshCreditsNothing, ReadCreditsNothing DEF Begin
<1>4. ASSUME NEW w \in Workers, NEW stage \in AdminStages, AdvanceProposalStage(w, stage)
      PROVE  CreditInv'
  <2>1. ~Blank
    BY <1>4, BlankStands
  <2> QED BY <1>4, <2>1, RefreshCreditsNothing
<1>5. ASSUME NEW w \in Workers, Step(w)
      PROVE  CreditInv'
  <2>1. ~Blank
    BY <1>5, BlankStands
  <2>2. CASE Reread(w) \/ ReadWinner(w) \/ FixWinner(w) \/ AdvanceToOrdering(w)
    BY <2>1, <2>2, RefreshCreditsNothing DEF Reread
  <2>3. CASE NotFound(w) \/ LoadForSettlement(w) \/ CheckDeletable(w)
    BY <2>1, <2>3, ReadCreditsNothing
  <2>4. CASE ApplySettlement(w)
    BY <2>1, <2>4, ApplyCovered
  <2>5. CASE Load(w)
    BY <2>1, <2>5, LoadCreditsNothing
  <2>6. CASE InsertProposalOption(w)
    BY <2>1, <2>6, InsertCreditsNothing
  <2>7. CASE RecordVote(w)
    BY <2>1, <2>7, VoteCreditsNothing
  <2>8. CASE DeleteProposalByCreator(w)
    BY <2>1, <2>8, EraseCredits
  <2> QED BY <1>5, <2>2, <2>3, <2>4, <2>5, <2>6, <2>7, <2>8 DEF Step
<1> QED BY <1>1, <1>2, <1>3, <1>4, <1>5 DEF Next

(* What is credited is covered, at every time.                              *)
LEMMA CreditsAreCovered == Spec => []CreditInv
<1>1. ASSUME Init
      PROVE  CreditInv
  <2>1. DOMAIN options = {} /\ votes = {} /\ row.exists = FALSE
    BY <1>1 DEF Init, NoRow
  <2>2. \A w \in Workers : work[w].at # "commit"
    BY <1>1, IdleIsWork DEF Init
  <2>3. RowsInv
    BY <1>1, <2>1 DEF Init, RowsInv
  <2> QED BY <1>1, <2>1, <2>2, <2>3 DEF CreditInv, Init
<1>2. IInv /\ FeesInv /\ CreditInv /\ [Next]_vars => CreditInv'
  BY CreditsKept
<1> QED BY <1>1, <1>2, Invariant, FeesAreExplained, PTL DEF Spec

(* However many reads settle a round at its vote deadline, each of them pays*)
(* out at most what the members paid, and the creation fee that a coupon    *)
(* spared the creator (applyLocalSettlementRewards, postgres.go:3882-3986). *)
THEOREM RefundsAreCovered == Spec => []RefundsCovered
<1>1. CreditInv => RefundsCovered
  BY DEF CreditInv, Covered, RefundsCovered, Total, SumFunction
<1> QED BY <1>1, CreditsAreCovered, PTL

-----------------------------------------------------------------------------
(* The winner against the votes from before the voting was over.  A worker  *)
(* that is about to fix a winner, or an admin's change about to store one,  *)
(* holds the best option of some time after the last of these votes.        *)
Early(V) == {v \in V : ~v.late}
EarlyCount(V, i) == Counts(Early(V), i)
Best(O, V, b) ==
  /\ b \in DOMAIN O
  /\ \A i \in DOMAIN O : EarlyCount(V, i) <= O[b].votes

Over(n, r) == n >= r.sched.vote

Holds(r, n, q, O, V) ==
  /\ r.at = "tally" => Over(n, q)
  /\ r.at = "fix" => Over(n, q) /\ Best(O, V, r.view.best)
  /\ r.at = "advance" => /\ r.view.time \in Nat /\ r.view.time <= n
                         /\ r.view.best # 0 => Best(O, V, r.view.best)

Wins ==
  /\ row.sched.vote \in Nat
  /\ row.winner # 0 => Over(now, row) /\ Best(options, votes, row.winner)
  /\ \A w \in Workers : Holds(work[w], now, row, options, votes)

WinnerInv ==
  /\ \A v \in votes : v.count \in Nat /\ v.late \in BOOLEAN
  /\ row.exists => Wins

LEMMA WinsIsBest ==
  ASSUME WinnerInv
  PROVE  WinnerIsBest
<1>1. \A i : EarlyCount(votes, i) = OnTime(i)
  <2> TAKE i
  <2>1. For(Early(votes), i) = {v \in votes : v.option = i /\ ~v.late}
    BY DEF For, Early
  <2> QED BY <2>1 DEF EarlyCount, Counts, OnTime
<1> QED BY <1>1 DEF WinnerInv, Wins, Best, WinnerIsBest

(* Counts are numbers, and those of fewer votes are smaller.                *)
LEMMA CountsAreNumbers ==
  ASSUME NEW V, IsFiniteSet(V), \A v \in V : v.count \in Nat, NEW U \in SUBSET V, NEW i
  PROVE  /\ Counts(U, i) \in Nat /\ Counts(V, i) \in Nat
         /\ Counts(U, i) <= Counts(V, i)
<1> DEFINE A == For(U, i)
           B == For(V, i) \ A
           C == For(V, i)
           f == [v \in C |-> v.count]
           g == [v \in A |-> v.count]
<1>1. A \subseteq C /\ C \subseteq V /\ A \cup B = C /\ A \cap B = {}
  BY DEF For
<1>2. IsFiniteSet(A) /\ IsFiniteSet(B) /\ IsFiniteSet(C)
  BY <1>1, FS_Subset
<1>3. NatValued(f, A) /\ NatValued(f, B) /\ NatValued(f, C) /\ NatValued(g, A)
  BY <1>1 DEF NatValued
<1>4. IntValued(f, A \cup B) /\ IntValued(f, A) /\ IntValued(g, A) /\ \A v \in A : g[v] = f[v]
  BY <1>1, <1>3 DEF NatValued, IntValued
<1>5. Counts(V, i) = SumFunctionOnSet(f, C) /\ Counts(U, i) = SumFunctionOnSet(g, A)
  BY DEF Counts, Total, SumFunction
<1> HIDE DEF A, B, C, f, g
<1>6. SumFunctionOnSet(g, A) = SumFunctionOnSet(f, A)
  BY <1>2, <1>4, SumAgree
<1>7. /\ SumFunctionOnSet(f, A) \in Nat /\ SumFunctionOnSet(f, B) \in Nat
      /\ SumFunctionOnSet(f, C) \in Nat
  BY <1>2, <1>3, SumNat
<1>8. SumFunctionOnSet(f, A \cup B) = SumFunctionOnSet(f, A) + SumFunctionOnSet(f, B)
  BY <1>1, <1>2, <1>4, SumApart
<1>9. PICK a, b \in Nat : /\ a = SumFunctionOnSet(f, A) /\ b = SumFunctionOnSet(f, B)
  BY <1>7
<1>10. Counts(V, i) = a + b /\ Counts(U, i) = a
  BY <1>1, <1>5, <1>6, <1>8, <1>9
<1> QED BY ONLY <1>10, a \in Nat, b \in Nat

LEMMA TalliesAreNumbers ==
  ASSUME IInv, WinnerInv
  PROVE  \A i \in DOMAIN options : /\ options[i].votes \in Nat /\ EarlyCount(votes, i) \in Nat
                                   /\ EarlyCount(votes, i) <= options[i].votes
<1>1. IsFiniteSet(votes) /\ Early(votes) \in SUBSET votes /\ \A v \in votes : v.count \in Nat
  BY DEF IInv, VotesInv, WinnerInv, Early
<1>2. \A i \in DOMAIN options : options[i].votes = Counts(votes, i)
  BY TallyByOption DEF IInv
<1> QED BY <1>1, <1>2, CountsAreNumbers DEF EarlyCount

(* ORDER BY weighted_votes DESC, id ASC.                                    *)
LEMMA BestIsBest ==
  ASSUME IInv, WinnerInv
  PROVE  DOMAIN options # {} \/ BestOption # 0 => Best(options, votes, BestOption)
<1> DEFINE D == DOMAIN options
           Ahead(i, j) == \/ options[i].votes > options[j].votes
                          \/ options[i].votes = options[j].votes /\ i <= j
           R == {p \in D \X D : Ahead(p[1], p[2])}
<1>1. CASE D = {}
  BY <1>1 DEF BestOption
<1>2. CASE D # {}
  <2>1. /\ \A i \in D : i \in Nat /\ options[i].votes \in Nat
        /\ IsFiniteSet(D)
    BY TalliesAreNumbers, OptionsFinite DEF IInv, OptionsInv
  <2>2. \A i, j \in D : <<i, j>> \in R <=> Ahead(i, j)
    OBVIOUS
  <2>3. /\ \A i, j \in D : Ahead(i, j) \/ Ahead(j, i)
        /\ \A i, j, k \in D : Ahead(i, j) /\ Ahead(j, k) => Ahead(i, k)
    BY <2>1
  <2>4. R \in SUBSET (D \X D)
    OBVIOUS
  <2>5. \E i \in D : \A j \in D : Ahead(i, j)
    <3> HIDE DEF R, D, Ahead
    <3>1. IsFiniteSet(D) /\ D # {}
      BY <1>2, <2>1
    <3>2. \A i, j \in D : <<i, j>> \in R \/ <<j, i>> \in R
      BY <2>2, <2>3
    <3>3. \A i, j, k \in D : <<i, j>> \in R /\ <<j, k>> \in R => <<i, k>> \in R
      BY ONLY <2>2, <2>3
    <3>4. \E i \in D : \A j \in D : <<i, j>> \in R
      BY ONLY <2>4, <3>1, <3>2, <3>3, BestExists
    <3> QED BY <2>2, <3>4
  <2>6. BestOption \in D /\ \A j \in D : Ahead(BestOption, j)
    BY <1>2, <2>5 DEF BestOption
  <2>7. \A j \in D : options[j].votes <= options[BestOption].votes
    BY <2>1, <2>6
  <2>8. \A j \in D : EarlyCount(votes, j) <= options[BestOption].votes
    BY <2>1, <2>6, <2>7, TalliesAreNumbers
  <2> QED BY <2>6, <2>8 DEF Best
<1> QED BY <1>1, <1>2

(* A step that takes nothing from the best options, and leaves the clock    *)
(* and the deadline on the side they are on, keeps what the others hold.    *)
LEMMA OthersHold ==
  ASSUME WinnerInv, row.exists, NEW w \in Workers, Moves(w),
         now \in Nat, now' \in Nat, now <= now', row'.sched.vote \in Nat,
         Over(now, row) => Over(now', row'),
         \A b : Best(options, votes, b) => Best(options', votes', b),
         \A v \in votes' : v.count \in Nat /\ v.late \in BOOLEAN,
         row'.winner # 0 => Over(now', row') /\ Best(options', votes', row'.winner),
         Holds(work'[w], now', row', options', votes')
  PROVE  WinnerInv'
<1>1. ASSUME NEW x \in Workers, x # w
      PROVE  Holds(work'[x], now', row', options', votes')
  <2>1. PICK r : r = work[x] /\ r = work'[x]
    BY <1>1 DEF Moves
  <2>2. Holds(r, now, row, options, votes)
    BY <2>1 DEF WinnerInv, Wins
  <2>3. r.view.time \in Nat /\ r.view.time <= now => r.view.time <= now'
    OBVIOUS
  <2>4. Holds(r, now', row', options', votes')
    BY <2>2, <2>3 DEF Holds
  <2> QED BY <2>1, <2>4
<1>2. \A x \in Workers : Holds(work'[x], now', row', options', votes')
  BY <1>1
<1> QED BY <1>2 DEF WinnerInv, Wins

(* The same for a step that changes neither options, votes nor deadline.    *)
LEMMA NothingTaken ==
  ASSUME FeesInv, WinnerInv, NEW w \in Workers, Moves(w), row'.exists => row.exists,
         UNCHANGED <<now, options, votes>>,
         row.exists => row'.sched.vote = row.sched.vote,
         row.exists /\ row'.winner # 0 =>
           row'.winner = row.winner \/ (Over(now, row) /\ Best(options, votes, row'.winner)),
         row.exists => Holds(work'[w], now, row, options, votes)
  PROVE  WinnerInv'
<1>1. CASE ~row'.exists
  BY <1>1 DEF WinnerInv
<1>2. CASE row'.exists
  <2>1. row.exists /\ now \in Nat /\ row'.sched.vote \in Nat /\ now <= now'
    BY <1>2 DEF FeesInv, WinnerInv, Wins
  <2>2. Over(now, row) <=> Over(now', row')
    BY <2>1 DEF Over
  <2>3. row'.winner # 0 => Over(now', row') /\ Best(options', votes', row'.winner)
    BY <2>1, <2>2 DEF WinnerInv, Wins
  <2>4. Holds(work'[w], now', row', options', votes')
    BY <2>1, <2>2 DEF Holds
  <2>5. \A v \in votes' : v.count \in Nat /\ v.late \in BOOLEAN
    BY DEF WinnerInv
  <2> QED BY <2>1, <2>2, <2>3, <2>4, <2>5, OthersHold
<1> QED BY <1>1, <1>2

(* A worker that is not about to decide a winner holds nothing.             *)
LEMMA HoldsNothing ==
  ASSUME NEW r, r.at \notin {"tally", "fix", "advance"}, NEW n, NEW q, NEW O, NEW V
  PROVE  Holds(r, n, q, O, V)
BY DEF Holds

(* Reading the round, reading the best option and storing it.               *)
LEMMA RefreshWins ==
  ASSUME IInv, FeesInv, WinnerInv, NEW w \in Workers, Refresh(w) \/ ReadWinner(w) \/ FixWinner(w)
  PROVE  WinnerInv'
<1>1. Moves(w)
  BY RefreshQuiet DEF Quiet
<1>2. UNCHANGED <<now, options, votes>>
  BY DEF Refresh, ReadWinner, FixWinner
<1>3. IsRow(row) /\ work = [x \in Workers |-> work[x]]
  BY DEF IInv, WorkInv
<1>4. CASE Refresh(w)
  <2>1. row' = row /\ row.exists
    BY <1>4 DEF Refresh
  <2>2. CASE WinnerDue(row) /\ DOMAIN options # {}
    <3>1. Over(now, row)
      BY <2>2 DEF WinnerDue, VoteDue, Over
    <3>2. work' = [work EXCEPT ![w] = [at |-> "tally", req |-> NoRequest, view |-> [copy |-> row]]]
      BY <1>4, <2>2 DEF Refresh
    <3>3. Holds(work'[w], now, row, options, votes)
      BY <1>3, <3>1, <3>2 DEF Holds
    <3> QED BY <1>1, <1>2, <2>1, <3>3, NothingTaken
  <2>3. CASE ~(WinnerDue(row) /\ DOMAIN options # {})
    <3>1. work'[w].at \in {"settle", "load"}
      BY <1>3, <1>4, <2>3 DEF Refresh, Refreshed, Idle, Loading
    <3> QED BY <1>1, <1>2, <2>1, <3>1, HoldsNothing, NothingTaken
  <2> QED BY <2>2, <2>3
<1>5. CASE ReadWinner(w)
  <2>1. row' = row
    BY <1>5 DEF ReadWinner
  <2>2. CASE DOMAIN options # {} /\ TotalVotes # 0
    <3>1. PICK r : /\ r = [at |-> "fix", req |-> NoRequest, view |-> [copy |-> work[w].view.copy, best |-> BestOption]]
                   /\ work' = [work EXCEPT ![w] = r]
      BY <1>5, <2>2 DEF ReadWinner
    <3>2. work'[w] = r /\ r.at = "fix" /\ r.view.best = BestOption
      BY <1>3, <3>1
    <3>3. Best(options, votes, BestOption)
      BY <2>2, BestIsBest
    <3>4. row.exists => Over(now, row)
      BY <1>5 DEF ReadWinner, WinnerInv, Wins, Holds
    <3>5. row.exists => Holds(work'[w], now, row, options, votes)
      BY <3>2, <3>3, <3>4 DEF Holds
    <3> QED BY <1>1, <1>2, <2>1, <3>5, NothingTaken
  <2>3. CASE ~(DOMAIN options # {} /\ TotalVotes # 0)
    <3>1. work'[w].at \in {"settle", "load"}
      BY <1>3, <1>5, <2>3 DEF ReadWinner, Refreshed, Idle, Loading
    <3> QED BY <1>1, <1>2, <2>1, <3>1, HoldsNothing, NothingTaken
  <2> QED BY <2>2, <2>3
<1>6. CASE FixWinner(w)
  <2>1. row' = IF row.exists THEN [row EXCEPT !.winner = work[w].view.best] ELSE row
    BY <1>6 DEF FixWinner
  <2>2. /\ row'.exists = row.exists /\ row'.sched = row.sched
        /\ row.exists => row'.winner = work[w].view.best
    BY <1>3, <2>1 DEF IsRow
  <2>3. row.exists => Over(now, row) /\ Best(options, votes, work[w].view.best)
    BY <1>6 DEF FixWinner, WinnerInv, Wins, Holds
  <2>4. work'[w].at \in {"settle", "load"}
    BY <1>3, <1>6 DEF FixWinner, Refreshed, Idle, Loading
  <2> QED BY <1>1, <1>2, <2>2, <2>3, <2>4, HoldsNothing, NothingTaken
<1> QED BY <1>4, <1>5, <1>6

(* The steps that look at a round, settle it, or move another deadline.     *)
LEMMA LooksWin ==
  ASSUME IInv, FeesInv, WinnerInv, NEW w \in Workers, NEW stage,
         \/ NotFound(w) \/ LoadForSettlement(w) \/ CheckDeletable(w) \/ Load(w)
         \/ ApplySettlement(w) \/ AdvanceProposalStage(w, stage)
  PROVE  WinnerInv'
<1>1. IsRow(row) /\ IsSched(row.sched) /\ work = [x \in Workers |-> work[x]]
  BY DEF IInv, WorkInv, FeesInv
<1>2. UNCHANGED <<now, options, votes>>
  BY DEF NotFound, LoadForSettlement, CheckDeletable, Load, ApplySettlement, AdvanceProposalStage
<1>3. Moves(w) /\ work'[w].at \notin {"tally", "fix", "advance"}
  <2>1. PICK r : /\ IsWork(r) /\ r.at \notin {"tally", "fix", "advance"}
                 /\ work' = [work EXCEPT ![w] = r]
    <3>1. CASE NotFound(w) \/ ApplySettlement(w) \/ AdvanceProposalStage(w, stage)
      BY <3>1, IdleIsWork DEF NotFound, ApplySettlement, AdvanceProposalStage
    <3>2. CASE LoadForSettlement(w) \/ CheckDeletable(w) \/ Load(w)
      <4>1. \/ work' = [work EXCEPT ![w] = Idle]
            \/ \E a, q, v : /\ a \in {"apply", "load", "erase", "commit"}
                           /\ work' = [work EXCEPT ![w] = [at |-> a, req |-> q, view |-> v]]
        BY <3>2 DEF LoadForSettlement, CheckDeletable, Load
      <4> QED BY <4>1, IdleIsWork DEF IsWork
    <3> QED BY <3>1, <3>2
  <2> QED BY <2>1, WorkerMoves
<1>4. /\ row'.exists = row.exists /\ row'.winner = row.winner
      /\ row'.sched.vote = row.sched.vote
  <2>1. \/ row' = row
        \/ \E f : row' = [row EXCEPT !.rewards = TRUE, !.failed = f]
        \/ \E t : row' = [row EXCEPT !.sched.proposal = t] \/ row' = [row EXCEPT !.sched.order = t]
    BY DEF NotFound, LoadForSettlement, CheckDeletable, Load, ApplySettlement, AdvanceProposalStage
  <2>2. row'.exists = row.exists /\ row'.winner = row.winner
    BY <1>1, <2>1 DEF IsRow
  <2>3. \/ row'.sched = row.sched
        \/ \E t : row'.sched = [row.sched EXCEPT !.proposal = t] \/ row'.sched = [row.sched EXCEPT !.order = t]
    BY <1>1, <2>1 DEF IsRow
  <2> QED BY <1>1, <2>2, <2>3 DEF IsSched
<1> QED BY <1>2, <1>3, <1>4, HoldsNothing, NothingTaken

(* The admin ends the voting with the best option read before.              *)
LEMMA AdvanceWins ==
  ASSUME IInv, FeesInv, WinnerInv, NEW w \in Workers, ReadBestOption(w) \/ AdvanceToOrdering(w)
  PROVE  WinnerInv'
<1>1. IsRow(row) /\ IsSched(row.sched) /\ now \in Nat /\ work = [x \in Workers |-> work[x]]
  BY DEF IInv, WorkInv, FeesInv
<1>2. UNCHANGED <<now, options, votes>> /\ Moves(w)
  BY ReadBestOptionQuiet, AdvanceToOrderingQuiet DEF ReadBestOption, AdvanceToOrdering, Quiet
<1>3. CASE ReadBestOption(w)
  <2>1. row' = row
    BY <1>3 DEF ReadBestOption
  <2>2. PICK r : /\ r = [at |-> "advance", req |-> NoRequest, view |-> [best |-> BestOption, time |-> now]]
                 /\ work' = [work EXCEPT ![w] = r]
    BY <1>3 DEF ReadBestOption
  <2>3. work'[w] = r /\ r.at = "advance" /\ r.view.best = BestOption /\ r.view.time = now
    BY <1>1, <2>2
  <2>4. Holds(work'[w], now, row, options, votes)
    BY <1>1, <2>3, BestIsBest DEF Holds
  <2> QED BY <1>2, <2>1, <2>4, NothingTaken
<1>4. CASE AdvanceToOrdering(w)
  <2>1. work'[w].at = "reread" /\ work[w].at = "advance"
    BY <1>1, <1>4, IdleIsWork DEF AdvanceToOrdering
  <2>2. CASE ~row.exists
    <3>1. row' = row
      BY <1>4, <2>2 DEF AdvanceToOrdering
    <3> QED BY <1>2, <2>2, <3>1, NothingTaken
  <2>3. CASE row.exists
    <3>1. PICK t \in Nat : t = work[w].view.time
      BY <2>1, <2>3 DEF WinnerInv, Wins, Holds
    <3>2. t <= now /\ (work[w].view.best # 0 => Best(options, votes, work[w].view.best))
      BY <2>1, <2>3, <3>1 DEF WinnerInv, Wins, Holds
    <3>3. row' = [row EXCEPT !.sched.vote = Before(t), !.winner = work[w].view.best]
      BY <1>4, <2>3, <3>1 DEF AdvanceToOrdering
    <3>4. row'.winner = work[w].view.best /\ row'.sched = [row.sched EXCEPT !.vote = Before(t)]
      BY <1>1, <3>3 DEF IsRow
    <3>5. row'.sched.vote = Before(t)
      BY <1>1, <3>4 DEF IsSched
    <3>6. Before(t) \in Nat /\ Before(t) <= now
      BY <1>1, <3>1, <3>2 DEF Before
    <3>7. Over(now', row') /\ now' \in Nat /\ now <= now'
      BY <1>1, <1>2, <3>5, <3>6 DEF Over
    <3>8. \A v \in votes' : v.count \in Nat /\ v.late \in BOOLEAN
      BY <1>2 DEF WinnerInv
    <3> QED BY <1>1, <1>2, <2>1, <2>3, <3>2, <3>4, <3>5, <3>6, <3>7, <3>8, HoldsNothing, OthersHold
  <2> QED BY <2>2, <2>3
<1> QED BY <1>3, <1>4

(* A new option has no votes.                                               *)
LEMMA InsertWins ==
  ASSUME IInv, FeesInv, WinnerInv, NEW w \in Workers, InsertProposalOption(w)
  PROVE  WinnerInv'
<1> DEFINE o == nextOption
<1>1. UNCHANGED <<now, row, votes>> /\ work = [x \in Workers |-> work[x]] /\ now \in Nat
  BY DEF InsertProposalOption, IInv, WorkInv, FeesInv
<1>2. Moves(w) /\ work'[w].at \in {"reread", "idle"}
  <2>1. work' = [work EXCEPT ![w] = Answering] \/ work' = [work EXCEPT ![w] = Idle]
    BY DEF InsertProposalOption
  <2> QED BY <2>1, IdleIsWork, WorkerMoves
<1>3. \A b : Best(options, votes, b) => Best(options', votes', b)
  <2>1. CASE options' = options
    BY <1>1, <2>1
  <2>2. CASE options' # options
    <3>1. /\ DOMAIN options' = DOMAIN options \cup {o}
          /\ \A i \in DOMAIN options : options'[i] = options[i]
      BY <2>2 DEF InsertProposalOption
    <3>2. EarlyCount(votes, o) = 0
      <4>1. For(Early(votes), o) = {}
        BY DEF IInv, VotesInv, OptionsInv, For, Early
      <4> QED BY <4>1, NoVotesYet DEF EarlyCount
    <3>3. ASSUME NEW b, Best(options, votes, b)
          PROVE  Best(options', votes, b)
      <4>1. b \in DOMAIN options /\ options[b].votes \in Nat
        BY <3>3, TalliesAreNumbers DEF Best
      <4>2. EarlyCount(votes, o) <= options[b].votes
        BY <3>2, <4>1
      <4> QED BY <3>1, <3>3, <4>1, <4>2 DEF Best
    <3> QED BY <1>1, <3>3
  <2> QED BY <2>1, <2>2
<1>4. CASE row.exists
  <2>1. Over(now, row) => Over(now', row')
    BY <1>1
  <2>2. row'.winner # 0 => Over(now', row') /\ Best(options', votes', row'.winner)
    BY <1>1, <1>3, <1>4 DEF WinnerInv, Wins
  <2>3. Holds(work'[w], now', row', options', votes')
    BY <1>2, HoldsNothing
  <2>4. /\ \A v \in votes' : v.count \in Nat /\ v.late \in BOOLEAN
        /\ row'.sched.vote \in Nat /\ now' \in Nat /\ now <= now'
    BY <1>1, <1>4 DEF WinnerInv, Wins
  <2> QED BY <1>1, <1>2, <1>3, <1>4, <2>1, <2>2, <2>3, <2>4, OthersHold
<1>5. CASE ~row.exists
  BY <1>1, <1>5 DEF WinnerInv
<1> QED BY <1>4, <1>5

(* Votes only add to what an option has; as long as one is in time nobody   *)
(* holds a best option yet.                                                 *)
LEMMA VoteWins ==
  ASSUME IInv, FeesInv, CreditInv, WinnerInv, NEW w \in Workers, RecordVote(w)
  PROVE  WinnerInv'
<1> DEFINE req == work[w].req
           i   == req.option
           fee == VoteFeeFor(req)
<1>1. /\ UNCHANGED <<now, row>> /\ work = [x \in Workers |-> work[x]] /\ now \in Nat
      /\ work[w].at = "commit" /\ req.kind = "vote"
  BY DEF RecordVote, IInv, WorkInv, FeesInv
<1>2. CASE ~(FirstVote(req.member) /\ (req.ticket => tickets[req.member].vote > 0))
  <2>1. work' = [work EXCEPT ![w] = Idle] /\ UNCHANGED <<options, votes>>
    BY <1>2 DEF RecordVote
  <2>2. Moves(w) /\ work'[w].at = "idle"
    BY <2>1, IdleIsWork, WorkerMoves
  <2> QED BY <1>1, <2>1, <2>2, HoldsNothing, NothingTaken
<1>3. CASE FirstVote(req.member) /\ (req.ticket => tickets[req.member].vote > 0)
  <2> DEFINE x == [member |-> req.member, option |-> i, count |-> req.count, fee |-> fee,
                   ticket |-> req.ticket, late |-> VotingOver]
  <2>1. /\ votes' = votes \cup {x}
        /\ work' = [work EXCEPT ![w] = Answering]
        /\ options' = IF i \notin DOMAIN options THEN options
                      ELSE [options EXCEPT ![i] = WithVote(@, req.count, fee)]
    BY <1>3 DEF RecordVote
  <2>2. req.count \in Nat
    BY <1>1 DEF CreditInv
  <2>3. /\ VotingOver => x.late = TRUE
        /\ ~VotingOver => x.late = FALSE
        /\ x.count = req.count
    OBVIOUS
  <2>4. \A j \in DOMAIN options : IsOption(options[j])
    BY DEF IInv, OptionsInv
  <2> HIDE DEF x, fee
  <2>5. Moves(w) /\ work'[w].at = "reread"
    BY <2>1, IdleIsWork, WorkerMoves
  <2>6. Holds(work'[w], now', row', options', votes')
    BY <2>5, HoldsNothing
  <2>7. \A v \in votes' : v.count \in Nat /\ v.late \in BOOLEAN
    BY <2>1, <2>2, <2>3 DEF WinnerInv
  <2>8. CASE ~row.exists
    BY <1>1, <2>7, <2>8 DEF WinnerInv
  <2>9. CASE row.exists /\ ~VotingOver
    <3>1. ~Over(now, row) /\ \A u \in Workers : work[u].at # "advance"
      BY <2>9 DEF VotingOver, VoteDue, Over
    <3>2. row.winner = 0 /\ \A u \in Workers : work[u].at \notin {"tally", "fix", "advance"}
      BY <2>9, <3>1 DEF WinnerInv, Wins, Holds
    <3>3. \A u \in Workers : work'[u].at \notin {"tally", "fix", "advance"}
      BY <2>5, <3>2 DEF Moves
    <3>4. \A u \in Workers : Holds(work'[u], now', row', options', votes')
      BY <3>3, HoldsNothing
    <3> QED BY <1>1, <2>7, <2>9, <3>2, <3>4 DEF WinnerInv, Wins
  <2>10. CASE row.exists /\ VotingOver
    <3>1. Early(votes') = Early(votes)
      BY <2>1, <2>3, <2>10 DEF Early
    <3>2. /\ DOMAIN options' = DOMAIN options
          /\ \A j \in DOMAIN options : /\ options[j].votes \in Nat /\ options'[j].votes \in Nat
                                       /\ options[j].votes <= options'[j].votes
      <4>1. /\ DOMAIN options' = DOMAIN options
            /\ \A j \in DOMAIN options :
                 /\ j # i => options'[j] = options[j]
                 /\ j = i => options'[j].votes = options[j].votes + req.count
        BY <2>1, <2>4, VoteOnOption
      <4>2. ASSUME NEW j \in DOMAIN options
            PROVE  /\ options[j].votes \in Nat /\ options'[j].votes \in Nat
                   /\ options[j].votes <= options'[j].votes
        <5>1. PICK a, b \in Nat : a = options[j].votes /\ b = req.count
          BY <2>2, TalliesAreNumbers
        <5> QED BY <4>1, <5>1
      <4> QED BY <4>1, <4>2
    <3>3. ASSUME NEW b, Best(options, votes, b)
          PROVE  Best(options', votes', b)
      <4>1. \A j \in DOMAIN options : EarlyCount(votes', j) = EarlyCount(votes, j)
        BY <3>1 DEF EarlyCount
      <4>2. \A j \in DOMAIN options : EarlyCount(votes, j) \in Nat
        BY TalliesAreNumbers
      <4>3. b \in DOMAIN options /\ \A j \in DOMAIN options : EarlyCount(votes, j) <= options[b].votes
        BY <3>3 DEF Best
      <4>4. \A j \in DOMAIN options : EarlyCount(votes, j) <= options'[b].votes
        BY <3>2, <4>2, <4>3
      <4> QED BY <3>2, <4>1, <4>3, <4>4 DEF Best
    <3>4. row'.winner # 0 => Over(now', row') /\ Best(options', votes', row'.winner)
      BY <1>1, <2>10, <3>3 DEF WinnerInv, Wins
    <3>5. row'.sched.vote \in Nat /\ now' \in Nat /\ now <= now' /\ (Over(now, row) => Over(now', row'))
      BY <1>1, <2>10 DEF WinnerInv, Wins
    <3> QED BY <1>1, <2>5, <2>6, <2>7, <2>10, <3>3, <3>4, <3>5, OthersHold
  <2> QED BY <2>8, <2>9, <2>10
<1> QED BY <1>2, <1>3

(* A round begins without a winner.                                         *)
LEMMA CreateWins ==
  ASSUME IInv, FeesInv, WinnerInv, NEW w \in Workers, NEW s \in Schedules, NEW c, Create(w, s, c)
  PROVE  WinnerInv'
<1>1. /\ row = NoRow /\ row' = [NoRow EXCEPT !.exists = TRUE, !.sched = s, !.coupon = c /\ Tickets > 0]
      /\ work' = [work EXCEPT ![w] = Answering] /\ UNCHANGED votes
  BY DEF Create
<1>2. row'.winner = 0 /\ row'.sched = s
  BY <1>1 DEF NoRow
<1>3. s.vote \in Nat
  BY RoundAssumption
<1>4. Untouched
  BY <1>1 DEF FeesInv, Blank, NoRow
<1>5. \A x \in Workers : work'[x].at \in {"idle", "reread"}
  BY <1>1, <1>4, IdleIsWork DEF Untouched
<1>6. \A x \in Workers : Holds(work'[x], now', row', options', votes')
  BY <1>5, HoldsNothing
<1> QED BY <1>1, <1>2, <1>3, <1>6 DEF WinnerInv, Wins

LEMMA WinsKept ==
  ASSUME IInv, FeesInv, CreditInv, WinnerInv, [Next]_vars
  PROVE  WinnerInv'
<1>1. CASE Tick
  <2>1. now \in Nat /\ now' = now + 1 /\ UNCHANGED <<row, options, votes, work>>
    BY <1>1 DEF Tick, FeesInv
  <2>2. CASE ~row.exists
    BY <2>1, <2>2 DEF WinnerInv
  <2>3. CASE row.exists
    <3>1. row.sched.vote \in Nat
      BY <2>3 DEF WinnerInv, Wins
    <3>2. Over(now, row) => Over(now', row)
      BY <2>1, <3>1 DEF Over
    <3>3. ASSUME NEW x \in Workers
          PROVE  Holds(work[x], now', row, options, votes)
      <4>1. Holds(work[x], now, row, options, votes)
        BY <2>3 DEF WinnerInv, Wins
      <4>2. work[x].view.time \in Nat /\ work[x].view.time <= now => work[x].view.time <= now'
        BY <2>1
      <4> QED BY <3>2, <4>1, <4>2 DEF Holds
    <3> QED BY <2>1, <2>3, <3>1, <3>2, <3>3 DEF WinnerInv, Wins
  <2> QED BY <2>2, <2>3
<1>2. CASE UNCHANGED vars
  BY <1>2 DEF vars, WinnerInv, Wins
<1>3. ASSUME NEW w \in Workers, NEW s \in Schedules, NEW c \in CouponChoices, Create(w, s, c)
      PROVE  WinnerInv'
  BY <1>3, CreateWins
<1>4. ASSUME NEW w \in Workers, Begin(w) \/ ReadBestOption(w)
      PROVE  WinnerInv'
  BY <1>4, RefreshWins, AdvanceWins DEF Begin
<1>5. ASSUME NEW w \in Workers, NEW stage \in AdminStages, AdvanceProposalStage(w, stage)
      PROVE  WinnerInv'
  BY <1>5, LooksWin
<1>6. ASSUME NEW w \in Workers, DeleteProposalByCreator(w)
      PROVE  WinnerInv'
  <2>1. row' = [row EXCEPT !.exists = FALSE] /\ votes' = {} /\ IsRow(row)
    BY <1>6 DEF DeleteProposalByCreator, IInv
  <2> QED BY <2>1 DEF WinnerInv, IsRow
<1>7. ASSUME NEW w \in Workers, Step(w)
      PROVE  WinnerInv'
  <2>1. CASE Reread(w) \/ ReadWinner(w) \/ FixWinner(w)
    BY <2>1, RefreshWins DEF Reread
  <2>2. CASE NotFound(w) \/ LoadForSettlement(w) \/ CheckDeletable(w) \/ Load(w) \/ ApplySettlement(w)
    BY <2>2, LooksWin
  <2>3. CASE AdvanceToOrdering(w)
    BY <2>3, AdvanceWins
  <2>4. CASE InsertProposalOption(w)
    BY <2>4, InsertWins
  <2>5. CASE RecordVote(w)
    BY <2>5, VoteWins
  <2>6. CASE DeleteProposalByCreator(w)
    BY <1>6, <2>6
  <2> QED BY <1>7, <2>1, <2>2, <2>3, <2>4, <2>5, <2>6 DEF Step
<1> QED BY <1>1, <1>2, <1>3, <1>4, <1>5, <1>7 DEF Next

(* No option has more votes from before the voting was over than the winner *)
(* has, whatever reads fix a winner over another's and whenever votes that  *)
(* were let through are recorded (postgres.go:3829-3872, 3518-3550).        *)
THEOREM WinnersAreBest == Spec => []WinnerIsBest
<1>1. Init => WinnerInv
  BY DEF Init, NoRow, WinnerInv
<1>2. IInv /\ FeesInv /\ CreditInv /\ WinnerInv /\ [Next]_vars => WinnerInv'
  BY WinsKept
<1>3. WinnerInv => WinnerIsBest
  BY WinsIsBest
<1> QED BY <1>1, <1>2, <1>3, Invariant, FeesAreExplained, CreditsAreCovered, PTL DEF Spec

-----------------------------------------------------------------------------
(* What pages offer of a round (RoundViews): a handler whose page was up to *)
(* date is promised that the server takes what it asks.                     *)
IsRound(r) == r = [options |-> r.options, votes |-> r.votes, winner |-> r.winner,
                   failed |-> r.failed, orders |-> r.orders]

IsTask(r) == r = [kind |-> r.kind, ballot |-> r.ballot, at |-> r.at, left |-> r.left, live |-> r.live,
                  current |-> r.current, phase |-> r.phase]

\* The round has a winner, or will have one as soon as it is read.
Chosen(r) == IF r.winner \/ r.failed THEN r.winner ELSE r.votes # {}

ClockInv ==
  /\ phase \in 0..3 /\ IsRound(round)
  /\ round.winner \in BOOLEAN /\ round.failed \in BOOLEAN
  /\ round.orders = [m \in Viewers |-> round.orders[m]]

(* A copy that says the round came to nothing was read of one that had.     *)
CopyFits(c, r) == c.there /\ c.status = "failed" => r.failed

CopiesInv ==
  /\ CopyFits(seen, round)
  /\ fetch = [f \in Fetches |-> fetch[f]]
  /\ \A f \in Fetches : /\ fetch[f] = [at |-> fetch[f].at, copy |-> fetch[f].copy, for |-> fetch[f].for]
                        /\ CopyFits(fetch[f].copy, round)

(* What the server will say to what is asked, if the clock does not move.   *)
VotePromised(r, p, x) ==
  r.kind = "vote" /\ r.at \in {"pay", "ask"} /\ r.phase = p => (p = 1 /\ Me \notin x.votes) \/ x.failed
OrderPromised(r, p, x) ==
  r.kind = "order" /\ r.at \in {"sign", "pay", "ask"} /\ r.phase = p => p = 2 /\ Chosen(x)
ConfirmPromised(r, x) ==
  r.kind = "confirm" /\ r.at \in {"pay", "ask"} => Author = Me /\ \A m \in r.left : x.orders[m] = Views!Completed
Promised(r, p, x) == VotePromised(r, p, x) /\ OrderPromised(r, p, x) /\ ConfirmPromised(r, x)

TasksInv ==
  /\ handler = [h \in Handlers |-> handler[h]]
  /\ \A h \in Handlers :
       /\ IsTask(handler[h]) /\ handler[h].phase \in 0..phase /\ handler[h].left \subseteq Viewers
       /\ handler[h].current => /\ \A g \in Handlers \ {h} : handler[g] = Views!Free
                                /\ Promised(handler[h], phase, round)

ViewsInv == ClockInv /\ CopiesInv /\ TasksInv

\* The server refuses what was promised only for one of these reasons.
Justified(h) ==
  Views!Refused(h) =>
    \/ ~handler[h].current \/ phase # handler[h].phase \/ ~standing.inGroup
    \/ handler[h].kind = "vote" /\ (round.failed \/ ~Views!Votable(handler[h].ballot))

(* What a step by others may do to the round.                               *)
Harmless(x, y) ==
  /\ x.failed => y.failed
  /\ Chosen(x) => Chosen(y)
  /\ Me \in y.votes => Me \in x.votes
  /\ \A m \in Viewers : x.orders[m] = Views!Completed => y.orders[m] = Views!Completed

LEMMA HarmlessKeepsPromises ==
  ASSUME NEW x, NEW y, NEW r, NEW p, Harmless(x, y), Promised(r, p, x), r.left \subseteq Viewers
  PROVE  Promised(r, p, y)
<1>1. VotePromised(r, p, y)
  BY DEF Promised, VotePromised, Harmless
<1>2. OrderPromised(r, p, y)
  BY DEF Promised, OrderPromised, Harmless
<1>3. ConfirmPromised(r, y)
  BY DEF Promised, ConfirmPromised, Harmless
<1> QED BY <1>1, <1>2, <1>3 DEF Promised

LEMMA SamePromise ==
  ASSUME NEW r, NEW s, NEW p, NEW q, NEW y, Promised(r, p, y), q = p \/ r.phase # q,
         s.kind = r.kind, s.at = r.at, s.left = r.left, s.phase = r.phase
  PROVE  Promised(s, q, y)
<1>1. VotePromised(s, q, y)
  BY DEF Promised, VotePromised
<1>2. OrderPromised(s, q, y)
  BY DEF Promised, OrderPromised
<1>3. ConfirmPromised(s, y)
  BY DEF Promised, ConfirmPromised
<1> QED BY <1>1, <1>2, <1>3 DEF Promised

(* A read that fixes the winner.                                            *)
LEMMA SettledIs ==
  ASSUME ClockInv, NEW y, y = Views!Settled(round)
  PROVE  /\ IsRound(y) /\ y.winner \in BOOLEAN /\ y.failed \in BOOLEAN
         /\ y.options = round.options /\ y.votes = round.votes /\ y.orders = round.orders
         /\ phase < 2 => y = round
         /\ ~(phase < 2) => y.winner = Chosen(round) /\ (y.winner \/ y.failed)
         /\ Harmless(round, y)
<1>1. PICK r : r = round
  OBVIOUS
<1>2. IsRound(r) /\ r.winner \in BOOLEAN /\ r.failed \in BOOLEAN
  BY <1>1 DEF ClockInv
<1>3. y = IF phase < 2 \/ r.winner \/ r.failed THEN r
          ELSE [r EXCEPT !.winner = r.votes # {}, !.failed = r.votes = {}]
  BY <1>1 DEF Views!Settled
<1>4. CASE phase < 2 \/ r.winner \/ r.failed
  <2>1. y = r
    BY <1>3, <1>4
  <2>2. Harmless(round, y)
    BY <1>1, <2>1 DEF Harmless
  <2> QED BY <1>1, <1>2, <1>4, <2>1, <2>2 DEF Chosen
<1>5. CASE ~(phase < 2 \/ r.winner \/ r.failed)
  <2>1. y = [options |-> r.options, votes |-> r.votes, winner |-> r.votes # {},
             failed |-> r.votes = {}, orders |-> r.orders]
    BY <1>2, <1>3, <1>5 DEF IsRound
  <2>2. /\ IsRound(y) /\ y.winner = (r.votes # {}) /\ y.failed = (r.votes = {})
        /\ y.options = r.options /\ y.votes = r.votes /\ y.orders = r.orders
    BY <2>1 DEF IsRound
  <2>3. y.winner = Chosen(r) /\ Chosen(y) = Chosen(r)
    BY <1>2, <1>5, <2>2 DEF Chosen
  <2>4. Harmless(r, y)
    BY <1>5, <2>2, <2>3 DEF Harmless
  <2> QED BY <1>1, <1>2, <1>5, <2>2, <2>3, <2>4
<1> QED BY <1>4, <1>5

-----------------------------------------------------------------------------
(* Steps that leave the handlers alone, or rest them.                       *)
Rested(r, s) == s = r \/ s = Views!Free \/ s = [r EXCEPT !.live = FALSE]

LEMMA FreeIs ==
  /\ IsTask(Views!Free) /\ Views!Free.current = FALSE /\ Views!Free.phase = 0
  /\ Views!Free.left = {} /\ Views!Free.at = "idle"
BY DEF Views!Free, IsTask

LEMMA TasksRest ==
  ASSUME ViewsInv, handler' = [h \in Handlers |-> handler'[h]],
         \A h \in Handlers : Rested(handler[h], handler'[h]),
         phase' \in {phase, phase + 1}, Harmless(round, round')
  PROVE  TasksInv' /\ \A h \in Handlers : Justified(h)
<1>1. phase \in 0..3
  BY DEF ViewsInv, ClockInv
<1>2. ASSUME NEW h \in Handlers
      PROVE  /\ IsTask(handler'[h]) /\ handler'[h].phase \in 0..phase' /\ handler'[h].left \subseteq Viewers
             /\ handler'[h].current => /\ \A g \in Handlers \ {h} : handler'[g] = Views!Free
                                       /\ Promised(handler'[h], phase', round')
             /\ handler'[h].at = handler[h].at \/ handler'[h].at = "idle"
  <2>1. PICK r, s, f : r = handler[h] /\ s = handler'[h] /\ f = Views!Free
    OBVIOUS
  <2>2. IsTask(r) /\ r.phase \in 0..phase /\ r.left \subseteq Viewers
    BY <2>1 DEF ViewsInv, TasksInv
  <2>3. IsTask(f) /\ f.current = FALSE /\ f.phase = 0 /\ f.left = {} /\ f.at = "idle"
    BY <2>1, FreeIs
  <2>4. s = r \/ s = f \/ s = [r EXCEPT !.live = FALSE]
    BY <2>1 DEF Rested
  <2>5. \/ s = f
        \/ /\ IsTask(s) /\ s.kind = r.kind /\ s.at = r.at /\ s.left = r.left
           /\ s.current = r.current /\ s.phase = r.phase
    BY <2>2, <2>4 DEF IsTask
  <2>6. IsTask(s) /\ s.phase \in 0..phase' /\ s.left \subseteq Viewers /\ (s.at = r.at \/ s.at = "idle")
    BY <1>1, <2>2, <2>3, <2>5
  <2>7. ASSUME s.current
        PROVE  /\ \A g \in Handlers \ {h} : handler'[g] = Views!Free
               /\ Promised(s, phase', round')
    <3>1. /\ s.kind = r.kind /\ s.at = r.at /\ s.left = r.left /\ s.phase = r.phase /\ r.current
      BY <2>3, <2>5, <2>7
    <3>2. /\ \A g \in Handlers \ {h} : handler[g] = Views!Free
          /\ Promised(r, phase, round)
      BY <2>1, <3>1 DEF ViewsInv, TasksInv
    <3>3. ASSUME NEW g \in Handlers \ {h}
          PROVE  handler'[g] = Views!Free
      <4>1. handler[g] = f /\ Rested(f, handler'[g])
        BY <2>1, <3>2
      <4>2. f = [kind |-> f.kind, ballot |-> f.ballot, at |-> f.at, left |-> f.left, live |-> FALSE,
                 current |-> f.current, phase |-> f.phase]
        BY <2>1 DEF Views!Free
      <4>3. [f EXCEPT !.live = FALSE] = f
        BY <4>2
      <4> QED BY <2>1, <4>1, <4>3 DEF Rested
    <3>4. PICK x, y, p : x = round /\ y = round' /\ p = phase
      OBVIOUS
    <3>5. Promised(r, p, y)
      BY <2>2, <3>2, <3>4, HarmlessKeepsPromises
    <3>6. PICK q : q = phase'
      OBVIOUS
    <3>7. q = p \/ r.phase # q
      BY <1>1, <2>2, <3>4, <3>6
    <3>8. Promised(s, q, y)
      BY <3>1, <3>5, <3>7, SamePromise
    <3> QED BY <3>3, <3>4, <3>6, <3>8
  <2> QED BY <2>1, <2>6, <2>7
<1>3. TasksInv'
  BY <1>2 DEF TasksInv
<1>4. ASSUME NEW h \in Handlers
      PROVE  Justified(h)
  BY <1>2 DEF Justified, Views!Refused
<1> QED BY <1>3, <1>4

(* A handler that is at something is the only one, if any is promised       *)
(* anything: its next step leaves the others unpromised.                    *)
LEMMA TaskMoves ==
  ASSUME ViewsInv, NEW h \in Handlers, NEW r, handler[h].at # "idle",
         handler' = [handler EXCEPT ![h] = r], phase' = phase,
         IsTask(r), r.phase = handler[h].phase, r.left \subseteq handler[h].left,
         r.current => handler[h].current,
         handler[h].current => Promised(r, phase, round'),
         Views!Refused(h) => Justified(h)
  PROVE  TasksInv' /\ \A g \in Handlers : Justified(g)
<1>1. /\ handler' = [g \in Handlers |-> handler'[g]] /\ handler'[h] = r
      /\ \A g \in Handlers \ {h} : handler'[g] = handler[g]
  BY DEF ViewsInv, TasksInv
<1>2. ASSUME NEW g \in Handlers \ {h}
      PROVE  ~handler[g].current
  BY FreeIs DEF ViewsInv, TasksInv
<1>3. ASSUME NEW g \in Handlers
      PROVE  /\ IsTask(handler'[g]) /\ handler'[g].phase \in 0..phase' /\ handler'[g].left \subseteq Viewers
             /\ handler'[g].current => /\ \A k \in Handlers \ {g} : handler'[k] = Views!Free
                                       /\ Promised(handler'[g], phase', round')
  <2>1. CASE g = h
    <3>1. IsTask(r) /\ r.phase \in 0..phase' /\ r.left \subseteq Viewers
      BY DEF ViewsInv, TasksInv
    <3>2. ASSUME r.current
          PROVE  /\ \A k \in Handlers \ {h} : handler'[k] = Views!Free
                 /\ Promised(r, phase', round')
      BY <1>1, <3>2 DEF ViewsInv, TasksInv
    <3> QED BY <1>1, <2>1, <3>1, <3>2
  <2>2. CASE g # h
    BY <1>1, <1>2, <2>2 DEF ViewsInv, TasksInv
  <2> QED BY <2>1, <2>2
<1>4. TasksInv'
  BY <1>1, <1>3 DEF TasksInv
<1>5. ASSUME NEW g \in Handlers
      PROVE  Justified(g)
  <2>1. CASE g = h
    BY <2>1 DEF Justified
  <2>2. CASE g # h
    BY <1>1, <2>2 DEF Justified, Views!Refused
  <2> QED BY <2>1, <2>2
<1> QED BY <1>4, <1>5

(* Copies, of a round that has only gone on.                                *)
LEMMA CopiesStay ==
  ASSUME ViewsInv, round.failed => round'.failed, CopyFits(seen', round'),
         fetch' = [f \in Fetches |-> fetch'[f]],
         \A f \in Fetches :
           /\ fetch'[f] = [at |-> fetch'[f].at, copy |-> fetch'[f].copy, for |-> fetch'[f].for]
           /\ \/ fetch'[f].copy = fetch[f].copy \/ fetch'[f].copy = Views!NoCopy
              \/ CopyFits(fetch'[f].copy, round')
  PROVE  CopiesInv'
<1>1. ~Views!NoCopy.there
  BY DEF Views!NoCopy
<1>2. ASSUME NEW f \in Fetches
      PROVE  CopyFits(fetch'[f].copy, round')
  BY <1>1 DEF ViewsInv, CopiesInv, CopyFits
<1> QED BY <1>2 DEF CopiesInv

LEMMA SameCopies ==
  ASSUME ViewsInv, round.failed => round'.failed, UNCHANGED <<seen, fetch>>
  PROVE  CopiesInv'
<1>1. CopyFits(seen', round')
  BY DEF ViewsInv, CopiesInv, CopyFits
<1> QED BY <1>1, CopiesStay DEF ViewsInv, CopiesInv

\* One refresh is begun, goes on or ends.
LEMMA OneRefresh ==
  ASSUME ViewsInv, NEW f \in Fetches, NEW r, fetch' = [fetch EXCEPT ![f] = r],
         r = [at |-> r.at, copy |-> r.copy, for |-> r.for],
         r.copy = fetch[f].copy \/ r.copy = Views!NoCopy \/ CopyFits(r.copy, round'),
         round.failed => round'.failed, CopyFits(seen', round')
  PROVE  CopiesInv'
<1>1. /\ fetch' = [g \in Fetches |-> fetch'[g]] /\ fetch'[f] = r
      /\ \A g \in Fetches \ {f} : fetch'[g] = fetch[g]
  BY DEF ViewsInv, CopiesInv
<1>2. ASSUME NEW g \in Fetches
      PROVE  /\ fetch'[g] = [at |-> fetch'[g].at, copy |-> fetch'[g].copy, for |-> fetch'[g].for]
             /\ \/ fetch'[g].copy = fetch[g].copy \/ fetch'[g].copy = Views!NoCopy
                \/ CopyFits(fetch'[g].copy, round')
  <2>1. CASE g = f
    BY <1>1, <2>1
  <2>2. CASE g # f
    BY <1>1, <2>2 DEF ViewsInv, CopiesInv
  <2> QED BY <2>1, <2>2
<1> QED BY <1>1, <1>2, CopiesStay

LEMMA OpenIs == /\ Views!Open = [at |-> Views!Open.at, copy |-> Views!Open.copy, for |-> Views!Open.for]
                /\ Views!Open.copy = Views!NoCopy
BY DEF Views!Open

(* What the server answers about the round.                                 *)
LEMMA CopyIs ==
  ASSUME ClockInv, NEW c, c = Views!Copy
  PROVE  /\ c.there /\ c.createdBy = Hidden /\ c.by = Author /\ c.orders = round.orders
         /\ c.voted = (Me \in round.votes)
         /\ c.winner = IF phase < 2 THEN round.winner ELSE Chosen(round)
         /\ phase \in {2, 3} /\ ~c.winner => c.status = "failed"
         /\ c.status = "failed" => phase \in {2, 3} /\ Views!Settled(round).failed
<1>1. PICK y : y = Views!Settled(round)
  OBVIOUS
<1>2. /\ y.votes = round.votes /\ y.orders = round.orders /\ (phase < 2 => y = round)
      /\ ~(phase < 2) => y.winner = Chosen(round) /\ (y.winner \/ y.failed)
  BY <1>1, SettledIs
<1>3. /\ c.there /\ c.createdBy = Hidden /\ c.by = Author /\ c.orders = y.orders
      /\ c.voted = (Me \in y.votes) /\ c.winner = y.winner /\ c.status = Views!Status(y, phase)
  BY <1>1 DEF Views!Copy, Views!Anonymized
<1>4. phase \in {0, 1, 2, 3}
  BY DEF ClockInv
<1>5. phase \in {2, 3} /\ ~y.winner => c.status = "failed"
  BY <1>2, <1>3 DEF Views!Status
<1>6. c.status = "failed" => phase \in {2, 3} /\ y.failed
  BY <1>3, <1>4 DEF Views!Status
<1>7. c.winner = IF phase < 2 THEN round.winner ELSE Chosen(round)
  BY <1>2, <1>3
<1> QED BY <1>1, <1>2, <1>3, <1>5, <1>6, <1>7

-----------------------------------------------------------------------------
(* Pages, refreshes and the clock.                                          *)
Kept == ViewsInv' /\ \A h \in Handlers : Justified(h)

LEMMA NobodyMoves ==
  ASSUME ViewsInv, handler' = handler
  PROVE  /\ handler' = [h \in Handlers |-> handler'[h]]
         /\ \A h \in Handlers : Rested(handler[h], handler'[h])
BY DEF ViewsInv, TasksInv, Rested

LEMMA HarmlessToItself ==
  ASSUME NEW x
  PROVE  Harmless(x, x)
BY DEF Harmless

LEMMA NothingSaid ==
  ASSUME NEW r
  PROVE  CopyFits(Views!NoCopy, r)
BY DEF CopyFits, Views!NoCopy

LEMMA SameRound ==
  ASSUME ViewsInv, UNCHANGED <<phase, round>>
  PROVE  ClockInv'
BY DEF ViewsInv, ClockInv

LEMMA MountKeeps ==
  ASSUME ViewsInv, NEW stage, NEW detail, Views!Mount(stage, detail)
  PROVE  Kept
<1>1. seen' = Views!NoCopy /\ UNCHANGED <<phase, round>>
  BY DEF Views!Mount
<1>2. PICK g : g = CHOOSE f \in Fetches : TRUE
  OBVIOUS
<1>3. fetch' = [f \in Fetches |-> IF f = g THEN [at |-> "asked", copy |-> Views!NoCopy, for |-> 0]
                                          ELSE Views!Open]
  BY <1>2 DEF Views!Mount, Views!Ask, Views!NoFetches
<1>4. ASSUME NEW f \in Fetches
      PROVE  /\ fetch'[f] = [at |-> fetch'[f].at, copy |-> fetch'[f].copy, for |-> fetch'[f].for]
             /\ fetch'[f].copy = Views!NoCopy
  BY <1>3, OpenIs
<1>5. CopiesInv'
  <2>1. fetch' = [f \in Fetches |-> fetch'[f]]
    BY <1>3
  <2>2. CopyFits(seen', round')
    BY <1>1, NothingSaid
  <2> QED BY <1>1, <1>4, <2>1, <2>2, CopiesStay
<1>6. handler' = [h \in Handlers |-> IF handler[h].at = "await" THEN Views!Free
                                     ELSE [handler[h] EXCEPT !.live = FALSE]]
  BY DEF Views!Mount
<1>7. /\ handler' = [h \in Handlers |-> handler'[h]]
      /\ \A h \in Handlers : Rested(handler[h], handler'[h])
  BY <1>6 DEF Rested
<1>8. Harmless(round, round')
  BY <1>1, HarmlessToItself
<1>9. TasksInv' /\ \A h \in Handlers : Justified(h)
  BY <1>1, <1>7, <1>8, TasksRest
<1> QED BY <1>1, <1>5, <1>9, SameRound DEF Kept, ViewsInv

LEMMA VisitKeeps ==
  ASSUME ViewsInv, NEW stage, NEW detail, Views!Visit(stage, detail)
  PROVE  Kept
BY MountKeeps DEF Views!Visit

LEMMA RedirectKeeps ==
  ASSUME ViewsInv, Views!Redirect
  PROVE  Kept
BY MountKeeps DEF Views!Redirect

(* What happens to the round.                                               *)
LEMMA RoundGoesOn ==
  ASSUME ClockInv, NEW y, round' = y, phase' = phase, IsRound(y),
         y.winner \in BOOLEAN, y.failed \in BOOLEAN, y.orders = [m \in Viewers |-> y.orders[m]]
  PROVE  ClockInv'
BY DEF ClockInv

LEMMA RoundSettled ==
  ASSUME ClockInv, round' = Views!Settled(round), phase' = phase
  PROVE  ClockInv' /\ Harmless(round, round') /\ (round.failed => round'.failed)
<1>1. PICK y : y = Views!Settled(round)
  OBVIOUS
<1>2. /\ IsRound(y) /\ y.winner \in BOOLEAN /\ y.failed \in BOOLEAN
      /\ y.orders = round.orders /\ Harmless(round, y)
  BY <1>1, SettledIs
<1>3. y.orders = [m \in Viewers |-> y.orders[m]]
  BY <1>2 DEF ClockInv
<1>4. ClockInv'
  BY <1>1, <1>2, <1>3, RoundGoesOn
<1> QED BY <1>1, <1>2, <1>4 DEF Harmless

LEMMA RefreshReadKeeps ==
  ASSUME ViewsInv, NEW f \in Fetches, Views!RefreshRead(f)
  PROVE  Kept
<1>1. ClockInv /\ phase' = phase /\ round' = Views!Settled(round) /\ UNCHANGED <<seen, handler>>
  BY DEF ViewsInv, Views!RefreshRead
<1>2. ClockInv' /\ Harmless(round, round') /\ (round.failed => round'.failed)
  BY <1>1, RoundSettled
<1>3. PICK c, q : c = Views!Sent /\ q = fetch[f]
  OBVIOUS
<1>4. CopyFits(c, round')
  BY <1>1, <1>3, CopyIs, NothingSaid DEF CopyFits, Views!Sent
<1>5. q = [at |-> q.at, copy |-> q.copy, for |-> q.for]
  BY <1>3 DEF ViewsInv, CopiesInv
<1>6. PICK r : r = [at |-> "read", copy |-> c, for |-> q.for]
  OBVIOUS
<1>7. fetch' = [fetch EXCEPT ![f] = r]
  <2>1. fetch' = [fetch EXCEPT ![f] = [[q EXCEPT !.at = "read"] EXCEPT !.copy = c]]
    BY <1>3 DEF Views!RefreshRead, ViewsInv, CopiesInv
  <2>2. PICK p : p = [at |-> "read", copy |-> q.copy, for |-> q.for]
    OBVIOUS
  <2>3. [q EXCEPT !.at = "read"] = p
    BY <1>5, <2>2
  <2>4. [p EXCEPT !.copy = c] = r
    BY <1>6, <2>2
  <2> QED BY <2>1, <2>3, <2>4
<1>8. CopyFits(seen', round')
  BY <1>1, <1>2 DEF ViewsInv, CopiesInv, CopyFits
<1>9. CopiesInv'
  BY <1>2, <1>4, <1>6, <1>7, <1>8, OneRefresh
<1>10. TasksInv' /\ \A h \in Handlers : Justified(h)
  BY <1>1, <1>2, NobodyMoves, TasksRest
<1> QED BY <1>2, <1>9, <1>10 DEF Kept, ViewsInv

LEMMA EndsKeeps ==
  ASSUME ViewsInv, NEW f \in Fetches, Views!Ends(f), CopyFits(seen', round)
  PROVE  Kept
<1>1. UNCHANGED <<phase, round>> /\ fetch' = [fetch EXCEPT ![f] = Views!Open]
  BY DEF Views!Ends
<1>2. CopiesInv'
  BY <1>1, OpenIs, OneRefresh
<1>3. PICK h : h = fetch[f].for
  OBVIOUS
<1>4. handler' = IF h = 0 THEN handler ELSE [handler EXCEPT ![h] = Views!Free]
  BY <1>3 DEF Views!Ends
<1>5. handler = [k \in Handlers |-> handler[k]]
  BY DEF ViewsInv, TasksInv
<1>6. /\ handler' = [k \in Handlers |-> handler'[k]]
      /\ \A k \in Handlers : Rested(handler[k], handler'[k])
  BY <1>4, <1>5 DEF Rested
<1>7. Harmless(round, round')
  BY <1>1, HarmlessToItself
<1>8. TasksInv' /\ \A k \in Handlers : Justified(k)
  BY <1>1, <1>6, <1>7, TasksRest
<1> QED BY <1>1, <1>2, <1>8, SameRound DEF Kept, ViewsInv

LEMMA RefreshAnswersKeeps ==
  ASSUME ViewsInv, NEW f \in Fetches, Views!RefreshAnswers(f)
  PROVE  Kept
<1>1. CopyFits(seen', round)
  BY DEF Views!RefreshAnswers, ViewsInv, CopiesInv
<1> QED BY <1>1, EndsKeeps DEF Views!RefreshAnswers

LEMMA RefreshFailsKeeps ==
  ASSUME ViewsInv, NEW f \in Fetches, Views!RefreshFails(f)
  PROVE  Kept
<1>1. CopyFits(seen', round)
  BY DEF Views!RefreshFails, ViewsInv, CopiesInv
<1> QED BY <1>1, EndsKeeps DEF Views!RefreshFails

LEMMA AskKeeps ==
  ASSUME ViewsInv, NEW f \in Fetches, NEW h, fetch' = Views!Ask(fetch, f, h), UNCHANGED <<round, seen>>
  PROVE  CopiesInv'
<1>1. PICK r : r = [at |-> "asked", copy |-> Views!NoCopy, for |-> h]
  OBVIOUS
<1>2. fetch' = [fetch EXCEPT ![f] = r]
  BY <1>1 DEF Views!Ask
<1>3. CopyFits(seen', round')
  BY DEF ViewsInv, CopiesInv
<1> QED BY <1>1, <1>2, <1>3, OneRefresh

LEMMA PollKeeps ==
  ASSUME ViewsInv, NEW f \in Fetches, Views!Poll(f)
  PROVE  Kept
<1>1. UNCHANGED <<phase, round, seen, handler>> /\ fetch' = Views!Ask(fetch, f, 0)
  BY DEF Views!Poll
<1>2. CopiesInv'
  BY <1>1, AskKeeps
<1>3. Harmless(round, round')
  BY <1>1, HarmlessToItself
<1>4. TasksInv' /\ \A k \in Handlers : Justified(k)
  BY <1>1, <1>3, NobodyMoves, TasksRest
<1> QED BY <1>1, <1>2, <1>4, SameRound DEF Kept, ViewsInv

LEMMA ClockKeeps ==
  ASSUME ViewsInv, Views!Tick
  PROVE  Kept
<1>1. phase' = phase + 1 /\ phase < 3 /\ UNCHANGED <<round, seen, fetch, handler>>
  BY DEF Views!Tick
<1>2. ClockInv'
  BY <1>1 DEF ViewsInv, ClockInv
<1>3. CopiesInv'
  BY <1>1, SameCopies
<1>4. Harmless(round, round')
  BY <1>1, HarmlessToItself
<1>5. TasksInv' /\ \A k \in Handlers : Justified(k)
  BY <1>1, <1>4, NobodyMoves, TasksRest
<1> QED BY <1>2, <1>3, <1>5 DEF Kept, ViewsInv

LEMMA StandingKeeps ==
  ASSUME ViewsInv, Views!StandingChanges
  PROVE  Kept
<1>1. UNCHANGED <<phase, round, seen, fetch, handler>>
  BY DEF Views!StandingChanges
<1>2. CopiesInv' /\ ClockInv'
  BY <1>1, SameCopies, SameRound
<1>3. Harmless(round, round')
  BY <1>1, HarmlessToItself
<1>4. TasksInv' /\ \A k \in Handlers : Justified(k)
  BY <1>1, <1>3, NobodyMoves, TasksRest
<1> QED BY <1>2, <1>4 DEF Kept, ViewsInv

LEMMA HarmlessKeeps ==
  ASSUME ViewsInv, NEW y, Views!Elsewhere(y), Harmless(round, y), IsRound(y),
         y.winner \in BOOLEAN, y.failed \in BOOLEAN, y.orders = [m \in Viewers |-> y.orders[m]]
  PROVE  Kept
<1>1. round' = y /\ UNCHANGED <<phase, seen, fetch, handler>>
  BY DEF Views!Elsewhere
<1>2. ClockInv'
  BY <1>1, RoundGoesOn DEF ViewsInv
<1>3. CopiesInv'
  BY <1>1, SameCopies DEF Harmless
<1>4. Harmless(round, round')
  BY <1>1
<1>5. TasksInv' /\ \A k \in Handlers : Justified(k)
  BY <1>1, <1>4, NobodyMoves, TasksRest
<1> QED BY <1>2, <1>3, <1>5 DEF Kept, ViewsInv

LEMMA OthersKeep ==
  ASSUME ViewsInv, NEW m \in Viewers, Views!Others(m)
  PROVE  Kept
<1>1. PICK r : r = round
  OBVIOUS
<1>2. /\ IsRound(r) /\ r.winner \in BOOLEAN /\ r.failed \in BOOLEAN
      /\ r.orders = [k \in Viewers |-> r.orders[k]]
  BY <1>1 DEF ViewsInv, ClockInv
<1>3. CASE Views!OtherProposes(m)
  <2>1. PICK o : o = [r.options EXCEPT ![m] = @ + 1]
    OBVIOUS
  <2>2. PICK y : y = [options |-> o, votes |-> r.votes, winner |-> r.winner, failed |-> r.failed, orders |-> r.orders]
    OBVIOUS
  <2>3. y = [r EXCEPT !.options = o]
    BY <1>2, <2>2 DEF IsRound
  <2>4. Views!Elsewhere(y)
    BY <1>1, <1>3, <2>1, <2>3 DEF Views!OtherProposes
  <2>5. IsRound(y) /\ Harmless(r, y)
    BY <2>2 DEF IsRound, Harmless, Chosen
  <2> QED BY <1>1, <1>2, <2>2, <2>4, <2>5, HarmlessKeeps
<1>4. CASE Views!OtherVotes(m)
  <2>1. PICK v : v = r.votes \cup {m}
    OBVIOUS
  <2>2. PICK y : y = [options |-> r.options, votes |-> v, winner |-> r.winner, failed |-> r.failed, orders |-> r.orders]
    OBVIOUS
  <2>3. y = [r EXCEPT !.votes = v]
    BY <1>2, <2>2 DEF IsRound
  <2>4. Views!Elsewhere(y) /\ m # Me
    BY <1>1, <1>4, <2>1, <2>3 DEF Views!OtherVotes
  <2>5. IsRound(y) /\ Harmless(r, y)
    BY <2>1, <2>2, <2>4 DEF IsRound, Harmless, Chosen
  <2> QED BY <1>1, <1>2, <2>2, <2>4, <2>5, HarmlessKeeps
<1>5. CASE Views!OtherOrders(m)
  <2>1. PICK x : x = Views!Settled(round)
    OBVIOUS
  <2>2. /\ IsRound(x) /\ x.winner \in BOOLEAN /\ x.failed \in BOOLEAN /\ x.orders = r.orders
        /\ Harmless(r, x)
    BY <1>1, <2>1, SettledIs DEF ViewsInv
  <2>3. PICK o : o = [r.orders EXCEPT ![m] = Views!Received]
    OBVIOUS
  <2>4. PICK y : y = [options |-> x.options, votes |-> x.votes, winner |-> x.winner, failed |-> x.failed, orders |-> o]
    OBVIOUS
  <2>5. y = [x EXCEPT !.orders = o]
    BY <2>2, <2>4 DEF IsRound
  <2>6. Views!Elsewhere(y) /\ r.orders[m] = 0
    <3>1. Views!Elsewhere([x EXCEPT !.orders[m] = Views!Received]) /\ r.orders[m] = 0
      BY <1>1, <1>5, <2>1 DEF Views!OtherOrders
    <3> QED BY <2>2, <2>3, <2>5, <3>1
  <2>7. o = [k \in Viewers |-> o[k]] /\ \A k \in Viewers : r.orders[k] = Views!Completed => o[k] = Views!Completed
    BY <1>2, <2>3, <2>6 DEF Views!Completed
  <2>8. IsRound(y) /\ Harmless(r, y)
    BY <2>2, <2>4, <2>7 DEF IsRound, Harmless, Chosen
  <2> QED BY <1>1, <2>2, <2>4, <2>6, <2>7, <2>8, HarmlessKeeps
<1>6. CASE Views!OrderAdvances(m)
  <2>1. PICK o : o = [r.orders EXCEPT ![m] = @ + 1]
    OBVIOUS
  <2>2. PICK y : y = [options |-> r.options, votes |-> r.votes, winner |-> r.winner, failed |-> r.failed, orders |-> o]
    OBVIOUS
  <2>3. y = [r EXCEPT !.orders = o]
    BY <1>2, <2>2 DEF IsRound
  <2>4. Views!Elsewhere(y) /\ r.orders[m] \in {Views!Received, Views!Accepted, Views!Ready}
    BY <1>1, <1>6, <2>1, <2>3 DEF Views!OrderAdvances
  <2>5. o = [k \in Viewers |-> o[k]] /\ \A k \in Viewers : r.orders[k] = Views!Completed => o[k] = Views!Completed
    BY <1>2, <2>1, <2>4 DEF Views!Completed, Views!Received, Views!Accepted, Views!Ready
  <2>6. IsRound(y) /\ Harmless(r, y)
    BY <2>2, <2>5 DEF IsRound, Harmless, Chosen
  <2> QED BY <1>1, <1>2, <2>2, <2>4, <2>5, <2>6, HarmlessKeeps
<1> QED BY <1>3, <1>4, <1>5, <1>6 DEF Views!Others

-----------------------------------------------------------------------------
(* Presses.                                                                 *)
LEMMA PressKeeps ==
  ASSUME ViewsInv, NEW h \in Handlers, NEW kind, NEW ballot, NEW at, NEW left,
         Views!Press(h, kind, ballot, at, left),
         left \subseteq Viewers, at # "refused",
         \A r : r.kind = kind /\ r.at = at /\ r.left = left /\ Views!UpToDate => Promised(r, phase, round)
  PROVE  Kept
<1>1. UNCHANGED <<phase, round, seen, fetch>> /\ handler[h] = Views!Free
  BY DEF Views!Press
<1>2. CopiesInv'
  BY <1>1, SameCopies
<1>3. PICK fresh : fresh = (Views!UpToDate /\ \A k \in Handlers : handler[k] = Views!Free)
  OBVIOUS
<1>4. PICK r : r = [kind |-> kind, ballot |-> ballot, at |-> at, left |-> left, live |-> TRUE, phase |-> phase, current |-> fresh]
  OBVIOUS
<1>5. handler' = [g \in Handlers |-> IF g # h THEN [handler[g] EXCEPT !.current = FALSE] ELSE r]
  BY <1>3, <1>4 DEF Views!Press
<1>6. IsTask(r) /\ r.phase = phase /\ r.left = left /\ r.at = at /\ r.kind = kind /\ r.current = fresh
  BY <1>4 DEF IsTask
<1>7. ASSUME NEW g \in Handlers
      PROVE  /\ IsTask(handler'[g]) /\ handler'[g].phase \in 0..phase' /\ handler'[g].left \subseteq Viewers
             /\ handler'[g].current => /\ \A k \in Handlers \ {g} : handler'[k] = Views!Free
                                       /\ Promised(handler'[g], phase', round')
             /\ handler'[g].at = handler[g].at \/ handler'[g].at = at
  <2>1. CASE g = h
    <3>1. handler'[g] = r /\ phase \in 0..phase'
      BY <1>1, <1>5, <2>1 DEF ViewsInv, ClockInv
    <3>2. ASSUME fresh
          PROVE  /\ \A k \in Handlers \ {g} : handler'[k] = Views!Free
                 /\ Promised(r, phase', round')
      <4>1. Promised(r, phase, round)
        BY <1>3, <1>6, <3>2
      <4>2. ASSUME NEW k \in Handlers \ {g}
            PROVE  handler'[k] = Views!Free
        <5>1. PICK f : f = Views!Free
          OBVIOUS
        <5>2. handler'[k] = [f EXCEPT !.current = FALSE]
          BY <1>3, <1>5, <2>1, <3>2, <5>1
        <5>3. f = [kind |-> f.kind, ballot |-> f.ballot, at |-> f.at, left |-> f.left, live |-> f.live,
                   current |-> FALSE, phase |-> f.phase]
          BY <5>1 DEF Views!Free
        <5> QED BY <5>1, <5>2, <5>3
      <4> QED BY <1>1, <4>1, <4>2
    <3> QED BY <1>6, <3>1, <3>2
  <2>2. CASE g # h
    <3>1. PICK q : q = handler[g]
      OBVIOUS
    <3>2. IsTask(q) /\ q.phase \in 0..phase /\ q.left \subseteq Viewers
      BY <3>1 DEF ViewsInv, TasksInv
    <3>3. handler'[g] = [q EXCEPT !.current = FALSE]
      BY <1>5, <2>2, <3>1
    <3>4. /\ IsTask(handler'[g]) /\ handler'[g].phase = q.phase /\ handler'[g].left = q.left
          /\ handler'[g].at = q.at /\ handler'[g].current = FALSE
      BY <3>2, <3>3 DEF IsTask
    <3> QED BY <1>1, <3>1, <3>2, <3>4
  <2> QED BY <2>1, <2>2
<1>8. handler' = [g \in Handlers |-> handler'[g]]
  BY <1>5
<1>9. TasksInv'
  BY <1>7, <1>8 DEF TasksInv
<1>10. ASSUME NEW g \in Handlers
       PROVE  Justified(g)
  BY <1>7 DEF Justified, Views!Refused
<1> QED BY <1>1, <1>2, <1>9, <1>10, SameRound DEF Kept, ViewsInv

LEMMA StageIs ==
  ASSUME ClockInv, NEW c
  PROVE  /\ phase = 0 => Views!StageForProposal(c) = "proposal"
         /\ phase = 1 => Views!StageForProposal(c) = "voting"
         /\ phase = 2 /\ c.winner => Views!StageForProposal(c) = "ordering"
         /\ phase = 3 /\ c.winner => Views!StageForProposal(c) = "submitted"
BY DEF Views!StageForProposal

LEMMA PressOptionKeeps ==
  ASSUME ViewsInv, NEW h \in Handlers, Views!PressOption(h)
  PROVE  Kept
<1>1. \A r : r.kind = "option" => Promised(r, phase, round)
  BY DEF Promised, VotePromised, OrderPromised, ConfirmPromised
<1>2. Views!Press(h, "option", "none", "pay", {})
  BY DEF Views!PressOption
<1> QED BY <1>1, <1>2, PressKeeps

LEMMA PressVoteKeeps ==
  ASSUME ViewsInv, NEW h \in Handlers, Views!PressVote(h)
  PROVE  Kept
<1>1. page.stage = "voting" /\ ~seen.voted
  BY DEF Views!PressVote, Views!OffersVote, Views!OnDetail, Views!HasCurrentMemberVote
<1>2. PICK ballot \in Views!Ballots : Views!Press(h, "vote", ballot, "pay", {})
  BY DEF Views!PressVote
<1>3. ClockInv /\ CopyFits(seen, round)
  BY DEF ViewsInv, CopiesInv
<1>4. ASSUME Views!UpToDate
      PROVE  (phase = 1 /\ Me \notin round.votes) \/ round.failed
  <2>1. /\ seen.there /\ seen.voted = (Me \in round.votes)
        /\ phase \in {2, 3} /\ ~seen.winner => seen.status = "failed"
    BY <1>3, <1>4, CopyIs DEF Views!UpToDate
  <2>2. Views!StageForProposal(seen) \in {"voting", "none"}
    BY <1>1, <1>4 DEF Views!UpToDate
  <2>3. phase \in {1, 2, 3} /\ (phase \in {2, 3} => ~seen.winner)
    BY <1>3, <2>2, StageIs DEF ClockInv
  <2>4. CASE phase = 1
    BY <1>1, <2>1, <2>4
  <2>5. CASE phase \in {2, 3}
    BY <1>3, <2>1, <2>3, <2>5 DEF CopyFits
  <2> QED BY <2>3, <2>4, <2>5
<1>5. \A r : r.kind = "vote" /\ Views!UpToDate => Promised(r, phase, round)
  BY <1>4 DEF Promised, VotePromised, OrderPromised, ConfirmPromised
<1> QED BY <1>2, <1>5, PressKeeps

LEMMA PressOrderKeeps ==
  ASSUME ViewsInv, NEW h \in Handlers, Views!PressOrder(h)
  PROVE  Kept
<1>1. page.stage = "ordering" /\ seen.winner
  BY DEF Views!PressOrder, Views!OffersOrder, Views!OnDetail
<1>2. Views!Press(h, "order", "none", "sign", {})
  BY DEF Views!PressOrder
<1>3. ClockInv
  BY DEF ViewsInv
<1>4. ASSUME Views!UpToDate
      PROVE  phase = 2 /\ Chosen(round)
  <2>1. Views!StageForProposal(seen) \in {"ordering", "none"}
    BY <1>1, <1>4 DEF Views!UpToDate
  <2>2. phase = 2
    BY <1>1, <1>3, <2>1, StageIs DEF ClockInv
  <2>3. seen.winner = Chosen(round)
    BY <1>3, <1>4, <2>2, CopyIs DEF Views!UpToDate
  <2> QED BY <1>1, <2>2, <2>3
<1>5. \A r : r.kind = "order" /\ Views!UpToDate => Promised(r, phase, round)
  BY <1>4 DEF Promised, VotePromised, OrderPromised, ConfirmPromised
<1> QED BY <1>2, <1>5, PressKeeps

LEMMA PressConfirmKeeps ==
  ASSUME ViewsInv, NEW h \in Handlers, Views!PressConfirm(h)
  PROVE  Kept
<1>1. PICK left : left = Views!Confirmable(seen)
  OBVIOUS
<1>2. Views!Press(h, "confirm", "none", "ask", left) /\ Views!IsCreator(seen)
  BY <1>1 DEF Views!PressConfirm, Views!OffersConfirm, Views!CanConfirm
<1>3. left \subseteq Viewers /\ \A m \in left : seen.orders[m] = Views!Completed
  BY <1>1 DEF Views!Confirmable
<1>4. ASSUME Views!UpToDate
      PROVE  Author = Me /\ \A m \in left : round.orders[m] = Views!Completed
  <2>1. seen.createdBy = Hidden /\ seen.by = Author /\ seen.orders = round.orders
    BY <1>4, CopyIs DEF Views!UpToDate, ViewsInv
  <2>2. Hidden \notin Viewers
    BY ViewsAssumption DEF Views!ConstantsOK
  <2> QED BY <1>2, <1>3, <2>1, <2>2 DEF Views!IsCreator
<1>5. \A r : r.kind = "confirm" /\ r.left = left /\ Views!UpToDate => Promised(r, phase, round)
  BY <1>4 DEF Promised, VotePromised, OrderPromised, ConfirmPromised
<1> QED BY <1>2, <1>3, <1>5, PressKeeps

-----------------------------------------------------------------------------
(* Handlers.                                                                *)
LEMMA TaskIs ==
  ASSUME ViewsInv, NEW h \in Handlers, NEW q, q = handler[h]
  PROVE  /\ IsTask(q) /\ q.phase \in 0..phase /\ q.left \subseteq Viewers
         /\ q.current => Promised(q, phase, round)
BY DEF ViewsInv, TasksInv

LEMMA GoesKeeps ==
  ASSUME ViewsInv, NEW h \in Handlers, NEW at, Views!Goes(h, at), phase' = phase,
         handler[h].at \in {"sign", "pay", "ask", "done"},
         at \in {"pay", "ask", "done", "await", "refused", "lost"},
         at \in {"pay", "ask"} =>
           /\ Harmless(round, round')
           /\ handler[h].at \in {"pay", "ask"} \/ (handler[h].kind = "order" /\ handler[h].at = "sign"),
         Views!Refused(h) => Justified(h)
  PROVE  TasksInv' /\ \A g \in Handlers : Justified(g)
<1>1. PICK q : q = handler[h]
  OBVIOUS
<1>2. /\ IsTask(q) /\ q.phase \in 0..phase /\ q.left \subseteq Viewers
      /\ q.current => Promised(q, phase, round)
  BY <1>1, TaskIs
<1>3. PICK r : r = [kind |-> q.kind, ballot |-> q.ballot, at |-> at, left |-> q.left, live |-> q.live,
                    current |-> q.current, phase |-> q.phase]
  OBVIOUS
<1>4. [q EXCEPT !.at = at] = r
  BY <1>2, <1>3 DEF IsTask
<1>5. handler' = [handler EXCEPT ![h] = r]
  BY <1>1, <1>4 DEF Views!Goes
<1>6. IsTask(r) /\ r.kind = q.kind /\ r.at = at /\ r.left = q.left /\ r.current = q.current /\ r.phase = q.phase
  BY <1>3 DEF IsTask
<1>7. ASSUME q.current
      PROVE  Promised(r, phase, round')
  <2>1. CASE at \in {"pay", "ask"}
    <3>1. PICK x, y, p : x = round /\ y = round' /\ p = phase
      OBVIOUS
    <3>2. Promised(q, p, y)
      BY <1>2, <1>7, <2>1, <3>1, HarmlessKeepsPromises
    <3>3. q.at \in {"pay", "ask"} \/ (q.kind = "order" /\ q.at = "sign")
      BY <1>1, <2>1
    <3>4. VotePromised(r, p, y)
      BY <1>6, <3>2, <3>3 DEF Promised, VotePromised
    <3>5. OrderPromised(r, p, y)
      BY <1>6, <2>1, <3>2, <3>3 DEF Promised, OrderPromised
    <3>6. ConfirmPromised(r, y)
      BY <1>6, <3>2, <3>3 DEF Promised, ConfirmPromised
    <3> QED BY <3>1, <3>4, <3>5, <3>6 DEF Promised
  <2>2. CASE at \notin {"pay", "ask"}
    BY <1>6, <2>2 DEF Promised, VotePromised, OrderPromised, ConfirmPromised
  <2> QED BY <2>1, <2>2
<1> QED BY <1>1, <1>5, <1>6, <1>7, TaskMoves

\* The handler's next state, for its refusals.
LEMMA NextAt ==
  ASSUME ViewsInv, NEW h \in Handlers, NEW at, Views!Goes(h, at)
  PROVE  handler'[h].at = at
<1>1. PICK q : q = handler[h]
  OBVIOUS
<1>2. IsTask(q) /\ handler = [g \in Handlers |-> handler[g]]
  BY <1>1 DEF ViewsInv, TasksInv
<1>3. handler'[h] = [q EXCEPT !.at = at]
  BY <1>1, <1>2 DEF Views!Goes
<1> QED BY <1>2, <1>3 DEF IsTask

LEMMA SignOrderKeeps ==
  ASSUME ViewsInv, NEW h \in Handlers, Views!SignOrder(h)
  PROVE  Kept
<1>1. PICK at : at = IF standing.inGroup /\ phase = 2 /\ round.winner THEN "pay" ELSE "refused"
  OBVIOUS
<1>2. /\ handler[h].kind = "order" /\ handler[h].at = "sign" /\ Views!Goes(h, at)
      /\ round' = Views!Settled(round) /\ UNCHANGED <<phase, seen, fetch>>
  BY <1>1 DEF Views!SignOrder, Views!At, Views!KeepPage
<1>3. ClockInv' /\ Harmless(round, round') /\ (round.failed => round'.failed)
  BY <1>2, RoundSettled DEF ViewsInv
<1>4. CopiesInv'
  BY <1>2, <1>3, SameCopies
<1>5. ~Views!Refused(h)
  BY <1>2 DEF Views!Refused
<1>6. TasksInv' /\ \A g \in Handlers : Justified(g)
  BY <1>1, <1>2, <1>3, <1>5, GoesKeeps
<1> QED BY <1>3, <1>4, <1>6 DEF Kept, ViewsInv

LEMMA QuietStepKeeps ==
  ASSUME ViewsInv, NEW h \in Handlers, NEW at, Views!Goes(h, at), UNCHANGED <<phase, round, seen, fetch>>,
         handler[h].at \in {"sign", "pay", "ask", "done"}, at \in {"ask", "lost"},
         at = "ask" => handler[h].at = "pay"
  PROVE  Kept
<1>1. CopiesInv'
  BY SameCopies
<1>2. Harmless(round, round')
  BY HarmlessToItself
<1>3. ~Views!Refused(h)
  BY NextAt DEF Views!Refused
<1>4. TasksInv' /\ \A g \in Handlers : Justified(g)
  BY <1>2, <1>3, GoesKeeps
<1> QED BY <1>1, <1>4, SameRound DEF Kept, ViewsInv

LEMMA PaysKeeps ==
  ASSUME ViewsInv, NEW h \in Handlers, Views!Pays(h) \/ Views!RefusesPayment(h)
  PROVE  Kept
<1>1. CASE Views!Pays(h)
  BY <1>1, QuietStepKeeps DEF Views!Pays, Views!KeepPage
<1>2. CASE Views!RefusesPayment(h)
  BY <1>2, QuietStepKeeps DEF Views!RefusesPayment, Views!KeepPage
<1> QED BY <1>1, <1>2

LEMMA LoseAnswerKeeps ==
  ASSUME ViewsInv, NEW h \in Handlers, Views!LoseAnswer(h)
  PROVE  Kept
BY QuietStepKeeps DEF Views!LoseAnswer, Views!KeepPage

LEMMA AddProposalOptionKeeps ==
  ASSUME ViewsInv, NEW h \in Handlers, Views!AddProposalOption(h)
  PROVE  Kept
<1>1. PICK x : x = Views!Settled(round)
  OBVIOUS
<1>2. /\ IsRound(x) /\ x.winner \in BOOLEAN /\ x.failed \in BOOLEAN /\ x.orders = round.orders
      /\ Harmless(round, x)
  BY <1>1, SettledIs DEF ViewsInv
<1>3. PICK may : may = (/\ standing.inGroup
                       /\ Views!OptionCount(round) < OptionsLimit /\ round.options[Me] < Views!MaxPerMember)
  OBVIOUS
<1>4. PICK at : at = IF may THEN "done" ELSE "refused"
  OBVIOUS
<1>5. PICK o : o = [x.options EXCEPT ![Me] = @ + 1]
  OBVIOUS
<1>6. PICK z : z = [options |-> o, votes |-> x.votes, winner |-> x.winner, failed |-> x.failed, orders |-> x.orders]
  OBVIOUS
<1>7. z = [x EXCEPT !.options = o]
  BY <1>2, <1>6 DEF IsRound
<1>8. /\ handler[h].kind = "option" /\ handler[h].at = "ask" /\ Views!Goes(h, at)
      /\ round' = IF may THEN z ELSE x
      /\ UNCHANGED <<phase, seen, fetch>>
  BY <1>1, <1>3, <1>4, <1>5, <1>7 DEF Views!AddProposalOption, Views!At, Views!KeepPage
<1>9. PICK y : y = IF may THEN z ELSE x
  OBVIOUS
<1>10. /\ IsRound(y) /\ y.winner = x.winner /\ y.failed = x.failed /\ y.orders = x.orders
  BY <1>2, <1>6, <1>9 DEF IsRound
<1>11. ClockInv'
  BY <1>2, <1>8, <1>9, <1>10, RoundGoesOn DEF ViewsInv, ClockInv
<1>12. CopiesInv'
  BY <1>2, <1>8, <1>9, <1>10, SameCopies DEF Harmless
<1>13. ~Views!Refused(h)
  BY <1>8 DEF Views!Refused
<1>14. TasksInv' /\ \A g \in Handlers : Justified(g)
  BY <1>4, <1>8, <1>13, GoesKeeps
<1> QED BY <1>11, <1>12, <1>14 DEF Kept, ViewsInv

LEMMA VoteProposalKeeps ==
  ASSUME ViewsInv, NEW h \in Handlers, Views!VoteProposal(h)
  PROVE  Kept
<1>1. PICK x : x = Views!Settled(round)
  OBVIOUS
<1>2. /\ IsRound(x) /\ x.winner \in BOOLEAN /\ x.failed \in BOOLEAN /\ x.orders = round.orders
      /\ Harmless(round, x)
  BY <1>1, SettledIs DEF ViewsInv
<1>3. PICK may : may = (/\ standing.inGroup /\ phase = 1 /\ Me \notin round.votes
                       /\ Views!Votable(handler[h].ballot))
  OBVIOUS
<1>4. PICK at : at = IF may THEN "done" ELSE "refused"
  OBVIOUS
<1>5. PICK v : v = x.votes \cup {Me}
  OBVIOUS
<1>6. PICK z : z = [options |-> x.options, votes |-> v, winner |-> x.winner, failed |-> x.failed, orders |-> x.orders]
  OBVIOUS
<1>7. z = [x EXCEPT !.votes = v]
  BY <1>2, <1>6 DEF IsRound
<1>8. /\ handler[h].kind = "vote" /\ handler[h].at = "ask" /\ Views!Goes(h, at)
      /\ round' = IF may THEN z ELSE x
      /\ seen' = IF may /\ handler[h].live THEN Views!Anonymized(z) ELSE seen
      /\ UNCHANGED <<phase, fetch>>
  BY <1>1, <1>3, <1>4, <1>5, <1>7 DEF Views!VoteProposal, Views!At
<1>9. PICK y : y = IF may THEN z ELSE x
  OBVIOUS
<1>10. /\ IsRound(y) /\ y.winner = x.winner /\ y.failed = x.failed /\ y.orders = x.orders
  BY <1>2, <1>6, <1>9 DEF IsRound
<1>11. ClockInv'
  BY <1>2, <1>8, <1>9, <1>10, RoundGoesOn DEF ViewsInv, ClockInv
<1>12. round.failed => round'.failed
  BY <1>2, <1>8, <1>9, <1>10 DEF Harmless
<1>13. CopyFits(seen', round')
  <2>1. CASE may /\ handler[h].live
    <3>1. phase = 1 /\ seen' = Views!Anonymized(z)
      BY <1>3, <1>8, <2>1
    <3>2. Views!Anonymized(z).status = Views!Status(z, phase)
      BY DEF Views!Anonymized
    <3>3. Views!Status(z, phase) = "voting"
      BY <3>1 DEF Views!Status
    <3> QED BY <3>1, <3>2, <3>3 DEF CopyFits
  <2>2. CASE ~(may /\ handler[h].live)
    BY <1>8, <1>12, <2>2 DEF ViewsInv, CopiesInv, CopyFits
  <2> QED BY <2>1, <2>2
<1>14. CopiesInv'
  BY <1>8, <1>12, <1>13, CopiesStay DEF ViewsInv, CopiesInv
<1>15. Justified(h)
  <2>1. SUFFICES ASSUME Views!Refused(h), handler[h].current, phase = handler[h].phase,
                        standing.inGroup, Views!Votable(handler[h].ballot)
                 PROVE  round.failed
    BY <1>8 DEF Justified
  <2>2. ~may
    BY <1>4, <1>8, <2>1, NextAt DEF Views!Refused
  <2>3. Promised(handler[h], phase, round)
    BY <2>1, TaskIs
  <2> QED BY <1>3, <1>8, <2>1, <2>2, <2>3 DEF Promised, VotePromised
<1>16. TasksInv' /\ \A g \in Handlers : Justified(g)
  BY <1>4, <1>8, <1>15, GoesKeeps
<1> QED BY <1>11, <1>14, <1>16 DEF Kept, ViewsInv

LEMMA FinalizeOrderKeeps ==
  ASSUME ViewsInv, NEW h \in Handlers, Views!FinalizeOrder(h)
  PROVE  Kept
<1>1. PICK x : x = Views!Settled(round)
  OBVIOUS
<1>2. /\ IsRound(x) /\ x.winner \in BOOLEAN /\ x.failed \in BOOLEAN /\ x.orders = round.orders
      /\ Harmless(round, x) /\ (~(phase < 2) => x.winner = Chosen(round))
  BY <1>1, SettledIs DEF ViewsInv
<1>3. PICK may : may = (standing.inGroup /\ phase = 2 /\ x.winner)
  OBVIOUS
<1>4. PICK at : at = IF may THEN "done" ELSE "refused"
  OBVIOUS
<1>5. PICK o : o = [x.orders EXCEPT ![Me] = Views!Received]
  OBVIOUS
<1>6. PICK z : z = [options |-> x.options, votes |-> x.votes, winner |-> x.winner, failed |-> x.failed, orders |-> o]
  OBVIOUS
<1>7. z = [x EXCEPT !.orders = o]
  BY <1>2, <1>6 DEF IsRound
<1>8. /\ handler[h].kind = "order" /\ handler[h].at = "ask" /\ Views!Goes(h, at)
      /\ round' = IF may THEN z ELSE x
      /\ UNCHANGED <<phase, seen, fetch>>
  BY <1>1, <1>3, <1>4, <1>5, <1>7 DEF Views!FinalizeOrder, Views!At, Views!KeepPage
<1>9. PICK y : y = IF may THEN z ELSE x
  OBVIOUS
<1>10. IsRound(y) /\ y.winner = x.winner /\ y.failed = x.failed /\ y.orders = [m \in Viewers |-> y.orders[m]]
  <2>1. x.orders = [m \in Viewers |-> x.orders[m]]
    BY <1>2 DEF ViewsInv, ClockInv
  <2>2. o = [m \in Viewers |-> o[m]]
    BY <1>5, <2>1
  <2> QED BY <1>2, <1>6, <1>9, <2>1, <2>2 DEF IsRound
<1>11. ClockInv'
  BY <1>2, <1>8, <1>9, <1>10, RoundGoesOn DEF ViewsInv
<1>12. CopiesInv'
  BY <1>2, <1>8, <1>9, <1>10, SameCopies DEF Harmless
<1>13. Justified(h)
  <2>1. SUFFICES ASSUME Views!Refused(h), handler[h].current, phase = handler[h].phase,
                        standing.inGroup
                 PROVE  FALSE
    BY DEF Justified
  <2>2. ~may
    BY <1>4, <1>8, <2>1, NextAt DEF Views!Refused
  <2>3. Promised(handler[h], phase, round)
    BY <2>1, TaskIs
  <2>4. phase = 2 /\ Chosen(round)
    BY <1>8, <2>1, <2>3 DEF Promised, OrderPromised
  <2>5. ~(phase < 2)
    BY <2>4
  <2>6. x.winner = Chosen(round)
    BY <1>2, <2>5, Zenon
  <2>7. x.winner
    BY <2>4, <2>6, Zenon
  <2> QED BY <1>3, <2>1, <2>2, <2>4, <2>7
<1>14. TasksInv' /\ \A g \in Handlers : Justified(g)
  BY <1>4, <1>8, <1>13, GoesKeeps
<1> QED BY <1>11, <1>12, <1>14 DEF Kept, ViewsInv

LEMMA ConfirmMemberOrderKeeps ==
  ASSUME ViewsInv, NEW h \in Handlers, NEW m \in Viewers, Views!ConfirmMemberOrder(h, m)
  PROVE  Kept
<1>1. PICK x, q : x = round /\ q = handler[h]
  OBVIOUS
<1>2. /\ IsRound(x) /\ x.winner \in BOOLEAN /\ x.failed \in BOOLEAN
      /\ x.orders = [k \in Viewers |-> x.orders[k]]
  BY <1>1 DEF ViewsInv, ClockInv
<1>3. IsTask(q) /\ q.left \subseteq Viewers /\ (q.current => Promised(q, phase, x))
  BY <1>1, TaskIs
<1>4. PICK may : may = (Author = Me /\ x.orders[m] = Views!Completed)
  OBVIOUS
<1>5. PICK rest : rest = q.left \ {m}
  OBVIOUS
<1>6. PICK at : at = IF ~may THEN "refused" ELSE IF rest = {} THEN "done" ELSE "ask"
  OBVIOUS
<1>7. PICK o : o = [x.orders EXCEPT ![m] = Views!Ready]
  OBVIOUS
<1>8. PICK z : z = [options |-> x.options, votes |-> x.votes, winner |-> x.winner, failed |-> x.failed, orders |-> o]
  OBVIOUS
<1>9. z = [x EXCEPT !.orders = o]
  BY <1>2, <1>8 DEF IsRound
<1>10. PICK r : r = [kind |-> q.kind, ballot |-> q.ballot, at |-> at, left |-> rest, live |-> q.live,
                     current |-> q.current, phase |-> q.phase]
  OBVIOUS
<1>11. [[q EXCEPT !.left = rest] EXCEPT !.at = at] = r
  <2>1. PICK p : p = [kind |-> q.kind, ballot |-> q.ballot, at |-> q.at, left |-> rest, live |-> q.live,
                      current |-> q.current, phase |-> q.phase]
    OBVIOUS
  <2>2. [q EXCEPT !.left = rest] = p
    BY <1>3, <2>1 DEF IsTask
  <2>3. [p EXCEPT !.at = at] = r
    BY <1>10, <2>1
  <2> QED BY <2>2, <2>3
<1>12. /\ q.kind = "confirm" /\ q.at = "ask" /\ m \in q.left
       /\ round' = IF may THEN z ELSE x
       /\ UNCHANGED <<phase, seen, fetch>>
  BY <1>1, <1>4, <1>7, <1>9 DEF Views!ConfirmMemberOrder, Views!At, Views!KeepPage
<1>13. handler' = [handler EXCEPT ![h] = r]
  <2>1. handler = [g \in Handlers |-> handler[g]]
    BY DEF ViewsInv, TasksInv
  <2>2. handler' = [handler EXCEPT ![h].left = rest, ![h].at = at]
    BY <1>1, <1>4, <1>5, <1>6 DEF Views!ConfirmMemberOrder
  <2>3. handler' = [handler EXCEPT ![h] = [[q EXCEPT !.left = rest] EXCEPT !.at = at]]
    BY <1>1, <2>1, <2>2
  <2> QED BY <1>11, <2>3
<1>14. /\ IsTask(r) /\ r.kind = "confirm" /\ r.at = at /\ r.left = rest
       /\ r.current = q.current /\ r.phase = q.phase
  BY <1>10, <1>12 DEF IsTask
<1>15. PICK y : y = IF may THEN z ELSE x
  OBVIOUS
<1>16. /\ IsRound(y) /\ y.winner = x.winner /\ y.failed = x.failed
       /\ y.orders = [k \in Viewers |-> y.orders[k]]
       /\ \A k \in Viewers \ {m} : y.orders[k] = x.orders[k]
  <2>1. o = [k \in Viewers |-> o[k]] /\ \A k \in Viewers \ {m} : o[k] = x.orders[k]
    BY <1>2, <1>7
  <2> QED BY <1>2, <1>8, <1>15, <2>1 DEF IsRound
<1>17. ClockInv'
  BY <1>2, <1>12, <1>15, <1>16, RoundGoesOn DEF ViewsInv
<1>18. CopiesInv'
  BY <1>1, <1>12, <1>15, <1>16, SameCopies
<1>19. ASSUME q.current
       PROVE  may /\ Promised(r, phase, y)
  <2>1. Author = Me /\ \A k \in q.left : x.orders[k] = Views!Completed
    BY <1>3, <1>12, <1>19 DEF Promised, ConfirmPromised
  <2>2. \A k \in rest : y.orders[k] = Views!Completed
    BY <1>3, <1>5, <1>16, <2>1
  <2> QED BY <1>4, <1>12, <1>14, <2>1, <2>2 DEF Promised, VotePromised, OrderPromised, ConfirmPromised
<1>20. handler'[h] = r
  BY <1>13 DEF ViewsInv, TasksInv
<1>21. Justified(h)
  BY <1>1, <1>6, <1>14, <1>19, <1>20 DEF Justified, Views!Refused
<1>22. TasksInv' /\ \A g \in Handlers : Justified(g)
  <2>1. handler[h].current => Promised(r, phase, round')
    BY <1>1, <1>12, <1>15, <1>19
  <2> QED BY <1>1, <1>5, <1>12, <1>13, <1>14, <1>21, <2>1, TaskMoves
<1> QED BY <1>17, <1>18, <1>22 DEF Kept, ViewsInv

LEMMA FinishKeeps ==
  ASSUME ViewsInv, NEW h \in Handlers, NEW f \in Fetches, Views!Finish(h, f)
  PROVE  Kept
<1>1. /\ handler[h].at = "done" /\ Views!Goes(h, "await") /\ fetch' = Views!Ask(fetch, f, h)
      /\ UNCHANGED <<phase, round, seen>>
  BY DEF Views!Finish
<1>2. CopiesInv'
  BY <1>1, AskKeeps
<1>3. ~Views!Refused(h)
  BY <1>1 DEF Views!Refused
<1>4. TasksInv' /\ \A g \in Handlers : Justified(g)
  BY <1>1, <1>3, GoesKeeps
<1> QED BY <1>1, <1>2, <1>4, SameRound DEF Kept, ViewsInv

LEMMA ReportKeeps ==
  ASSUME ViewsInv, NEW h \in Handlers, Views!Report(h)
  PROVE  Kept
<1>1. handler' = [handler EXCEPT ![h] = Views!Free] /\ UNCHANGED <<phase, round, seen, fetch>>
  BY DEF Views!Report
<1>2. CopiesInv'
  BY <1>1, SameCopies
<1>3. handler = [k \in Handlers |-> handler[k]]
  BY DEF ViewsInv, TasksInv
<1>4. /\ handler' = [k \in Handlers |-> handler'[k]]
      /\ \A k \in Handlers : Rested(handler[k], handler'[k])
  BY <1>1, <1>3 DEF Rested
<1>5. Harmless(round, round')
  BY <1>1, HarmlessToItself
<1>6. TasksInv' /\ \A k \in Handlers : Justified(k)
  BY <1>1, <1>4, <1>5, TasksRest
<1> QED BY <1>1, <1>2, <1>6, SameRound DEF Kept, ViewsInv

-----------------------------------------------------------------------------
LEMMA ViewsGoOn ==
  ASSUME ViewsInv, Views!Next
  PROVE  Kept
<1>1. CASE Views!Tick \/ Views!Redirect \/ Views!StandingChanges
  BY <1>1, ClockKeeps, RedirectKeeps, StandingKeeps
<1>2. CASE Views!Browses
  BY <1>2, VisitKeeps DEF Views!Browses
<1>3. CASE Views!Breaks
  BY <1>3, RefreshFailsKeeps, LoseAnswerKeeps DEF Views!Breaks
<1>4. ASSUME NEW f \in Fetches, Views!Loads(f) \/ Views!Poll(f)
      PROVE  Kept
  BY <1>4, RefreshReadKeeps, RefreshAnswersKeeps, PollKeeps DEF Views!Loads
<1>5. ASSUME NEW h \in Handlers, Views!Presses(h)
      PROVE  Kept
  BY <1>5, PressOptionKeeps, PressVoteKeeps, PressOrderKeeps, PressConfirmKeeps DEF Views!Presses
<1>6. ASSUME NEW h \in Handlers, Views!Serve(h)
      PROVE  Kept
  BY <1>6, AddProposalOptionKeeps, VoteProposalKeeps, FinalizeOrderKeeps, SignOrderKeeps,
     ConfirmMemberOrderKeeps DEF Views!Serve
<1>7. ASSUME NEW h \in Handlers, Views!Runs(h)
      PROVE  Kept
  BY <1>6, <1>7, PaysKeeps, FinishKeeps, ReportKeeps DEF Views!Runs, Views!Continue
<1>8. ASSUME NEW m \in Viewers, Views!Others(m)
      PROVE  Kept
  BY <1>8, OthersKeep
<1> QED BY <1>1, <1>2, <1>3, <1>4, <1>5, <1>7, <1>8 DEF Views!Next

LEMMA ViewsStay ==
  ASSUME ViewsInv, UNCHANGED Views!vars
  PROVE  Kept
<1>1. UNCHANGED <<phase, round, seen, fetch, handler>>
  BY DEF Views!vars
<1>2. CopiesInv'
  BY <1>1, SameCopies
<1>3. Harmless(round, round')
  BY <1>1, HarmlessToItself
<1>4. TasksInv' /\ \A k \in Handlers : Justified(k)
  BY <1>1, <1>3, NobodyMoves, TasksRest
<1> QED BY <1>1, <1>2, <1>4, SameRound DEF Kept, ViewsInv

\* A round that a member may come upon.
LEMMA ComeIs ==
  ASSUME NEW c \in Come
  PROVE  /\ c[1] \in 0..3 /\ IsRound(c[2]) /\ c[2].winner \in BOOLEAN /\ c[2].failed \in BOOLEAN
         /\ c[2].orders = [m \in Viewers |-> c[2].orders[m]]
<1>1. PICK n : n = Views!New
  OBVIOUS
<1>2. IsRound(n) /\ n.winner = FALSE /\ n.failed = FALSE /\ n.orders = [m \in Viewers |-> 0]
  BY <1>1 DEF Views!New, IsRound
<1>3. PICK v, t : v = Viewers \ {Me} /\ t = TRUE
  OBVIOUS
<1>4. PICK w : w = [options |-> n.options, votes |-> v, winner |-> t, failed |-> n.failed, orders |-> n.orders]
  OBVIOUS
<1>5. w = Won
  <2>1. w = [n EXCEPT !.votes = v, !.winner = t]
    <3>1. PICK p : p = [n EXCEPT !.votes = v, !.winner = t]
      OBVIOUS
    <3>2. p = [options |-> n.options, votes |-> v, winner |-> t, failed |-> n.failed, orders |-> n.orders]
      BY <1>2, <3>1 DEF IsRound
    <3> QED BY <1>4, <3>1, <3>2
  <2>2. Won = [n EXCEPT !.votes = Viewers \ {Me}, !.winner = TRUE]
    BY <1>1, Zenon DEF Won
  <2>3. Won = [n EXCEPT !.votes = v, !.winner = t]
    BY <1>3, <2>2, Zenon
  <2> QED BY <2>1, <2>3
<1>6. PICK o : o = [m \in Viewers |-> Views!Completed]
  OBVIOUS
<1>7. PICK d : d = [options |-> w.options, votes |-> w.votes, winner |-> w.winner,
                    failed |-> w.failed, orders |-> o]
  OBVIOUS
<1>8. d = [Won EXCEPT !.orders = o]
  BY <1>4, <1>5, <1>7
<1>9. c \in {<<0, n>>, <<1, n>>, <<2, w>>, <<3, d>>}
  BY <1>1, <1>5, <1>6, <1>8 DEF Come
<1>10. c[1] \in 0..3 /\ c[2] \in {n, w, d}
  BY <1>9
<1>11. /\ IsRound(w) /\ w.winner = TRUE /\ w.failed = FALSE /\ w.orders = [m \in Viewers |-> 0]
       /\ IsRound(d) /\ d.winner = TRUE /\ d.failed = FALSE /\ d.orders = [m \in Viewers |-> Views!Completed]
  BY <1>2, <1>3, <1>4, <1>6, <1>7 DEF IsRound
<1> QED BY <1>2, <1>10, <1>11

LEMMA ViewsBegin == ComesUpon => ViewsInv
<1> SUFFICES ASSUME NEW c \in Come, Views!Begins(c[1], c[2])
             PROVE  ViewsInv
  BY DEF ComesUpon
<1>1. /\ phase = c[1] /\ round = c[2] /\ seen = Views!NoCopy
      /\ handler = [h \in Handlers |-> Views!Free]
  BY DEF Views!Begins
<1>2. ClockInv
  BY <1>1, ComeIs DEF ClockInv
<1>3. CopiesInv
  <2>1. PICK g : g = CHOOSE f \in Fetches : TRUE
    OBVIOUS
  <2>2. fetch = [f \in Fetches |-> IF f = g THEN [at |-> "asked", copy |-> Views!NoCopy, for |-> 0]
                                           ELSE Views!Open]
    BY <2>1 DEF Views!Begins, Views!Ask, Views!NoFetches
  <2>3. ASSUME NEW f \in Fetches
        PROVE  /\ fetch[f] = [at |-> fetch[f].at, copy |-> fetch[f].copy, for |-> fetch[f].for]
               /\ fetch[f].copy = Views!NoCopy
    BY <2>2, OpenIs
  <2>4. CopyFits(seen, round) /\ \A f \in Fetches : CopyFits(fetch[f].copy, round)
    BY <1>1, <2>3, NothingSaid
  <2> QED BY <2>2, <2>3, <2>4 DEF CopiesInv
<1>4. TasksInv
  BY <1>1, <1>2, FreeIs DEF TasksInv, ClockInv
<1> QED BY <1>2, <1>3, <1>4 DEF ViewsInv

(* A page that was as the round stood, and on which nothing else was        *)
(* pressed, is refused nothing it paid for before the clock moves on and    *)
(* while the member is in the group, save for a vote in a round that came   *)
(* to nothing, or with a ticket and no number or no ticket to spend, for    *)
(* any members, refreshes and handlers (member-ordering-workspace.tsx,      *)
(* service/proposal.go, requireProposalAccess).                             *)
THEOREM RefusalsAreBehind == ViewsRun => RefusedOnlyBehind
<1>1. ComesUpon => ViewsInv
  BY ViewsBegin
<1>2. ViewsInv /\ [Views!Next]_(Views!vars) => Kept
  BY ViewsGoOn, ViewsStay
<1>3. Kept => ViewsInv'
  BY DEF Kept
<1>4. Kept => [\A h \in Handlers : Views!Refused(h) =>
                 \/ ~handler[h].current \/ phase # handler[h].phase \/ ~standing.inGroup
                 \/ handler[h].kind = "vote" /\ (round.failed \/ ~Views!Votable(handler[h].ballot))]_(Views!vars)
  BY DEF Kept, Justified
<1> QED BY <1>1, <1>2, <1>3, <1>4, PTL DEF ViewsRun, RefusedOnlyBehind, Views!RefusedOnlyBehind

(* The run of TLC is one of them.                                           *)
LEMMA ViewsSpecRuns == ViewsSpec => ViewsRun
<1>1. ViewsInit => ComesUpon
  BY DEF ViewsInit
<1>2. Events \/ GoesOn \/ (\E h \in Handlers : Views!Presses(h)) => Views!Next
  BY DEF Events, GoesOn, Views!Next, Views!Runs
<1>3. [ViewsNext]_<<Views!vars, counts>> => [Views!Next]_(Views!vars)
  BY <1>2 DEF ViewsNext
<1> QED BY <1>1, <1>3, PTL DEF ViewsSpec, ViewsRun
=============================================================================

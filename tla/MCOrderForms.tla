---------------------------- MODULE MCOrderForms ----------------------------
(***************************************************************************)
(* OrderForms with a bound on what the member fills in and presses and on    *)
(* what the others do meanwhile; or, in behaviours of their own, the titles  *)
(* and reviews of Achievements, which the same member's browser keeps.       *)
(***************************************************************************)
EXTENDS OrderForms

CONSTANTS MaxDeeds, MaxMoves, Tabs, Members, MaxReviews, MaxDishes

VARIABLES play, deeds, moves, store, tab, handler, overtaken

Titles == INSTANCE Achievements

titleVars == <<store, tab, handler, overtaken>>
formVars == <<vars, deeds, moves>>

Pages == {"create", "proposal", "ordering"}

\* One form is filled in, from one of the initial states it can tell apart, or the
\* titles are played.
MCInit ==
  /\ play \in Pages \cup {"titles"} /\ Init /\ deeds = 0 /\ moves = 0 /\ Titles!Init
  /\ play # "create" => settings.minutes = 1
  /\ play # "ordering" => \A i \in Dishes : price[i] = 1

Deeds == Mount(play) \/ Leave \/ Fill \/ Presses

\* What the form is about.
OthersMove ==
  \/ ShopMoves \/ GroupMoves
  \/ play = "create" /\ (AdminSaves \/ Midnight \/ OnRounds)
  \/ play = "ordering" /\ MenuMoves

FormsNext ==
  /\ \/ Deeds /\ deeds' = deeds + 1 /\ UNCHANGED moves
     \/ OthersMove /\ moves' = moves + 1 /\ UNCHANGED deeds
     \/ Runs /\ UNCHANGED <<deeds, moves>>
  /\ deeds' <= MaxDeeds /\ moves' <= MaxMoves

MCNext ==
  /\ UNCHANGED play
  /\ \/ play \in Pages /\ FormsNext /\ UNCHANGED titleVars
     \/ play = "titles" /\ Titles!Next /\ UNCHANGED formVars

MCSpec == MCInit /\ [][MCNext]_<<play, formVars, titleVars>>

\* Points are spent once, and what a page shows as earned is kept, as long as no tab
\* has written over another's record (achievement-demo.ts:119-180).
EarnedIsKept == Titles!EarnedIsKept
=============================================================================

---------------------------- MODULE PageRequests ----------------------------
(***************************************************************************)
(* How the pages of the web application ask the server for a change: a page *)
(* that is opened reads what it shows; a press of one of its buttons sends   *)
(* one request, with every button off until it is answered; the handler      *)
(* reads again if the request was served and only reports the error if not.   *)
(* An answer can be lost, and a page that is left with a request under way    *)
(* is one whose answer is lost: another tab can be opened meanwhile.          *)
(*                                                                         *)
(* The desks of this application (ShopMenu, ShopProfile, PlatformSettings,   *)
(* GroupDesk) say what each request does to the server and what a page reads. *)
(***************************************************************************)
EXTENDS Naturals

CONSTANT Pages

VARIABLES
  at,    \* where each page is: shut, reading for the first time or again,
         \* idle, or asking for a change
  ask    \* the request each page has under way

requestVars == <<at, ask>>

NoAsk == [what |-> "none"]

RequestsOK ==
  /\ at \in [Pages -> {"shut", "opening", "reading", "idle", "asking"}]
  /\ \A d \in Pages : (ask[d] # NoAsk) <=> (at[d] = "asking")

RequestsInit ==
  at = [d \in Pages |-> "shut"] /\ ask = [d \in Pages |-> NoAsk]

\* A page is mounted: useEffect calls refresh.
Opens(d) ==
  at[d] = "shut" /\ at' = [at EXCEPT ![d] = "opening"] /\ UNCHANGED ask

Reading(d) == at[d] \in {"opening", "reading"}

\* refresh ends.
Reads(d) ==
  Reading(d) /\ at' = [at EXCEPT ![d] = "idle"] /\ UNCHANGED ask

\* refresh fails on a page that is nothing without its copy: it keeps the copy it
\* has, or shows the error alone, and then offers no more than a page that is shut.
ReadsNothing(d) ==
  /\ Reading(d) /\ UNCHANGED ask
  /\ at' = [at EXCEPT ![d] = IF at[d] = "opening" THEN "shut" ELSE "idle"]

\* A press of a button that is on: setPending(true) and the request.
Presses(d, request) ==
  /\ at[d] = "idle"
  /\ at' = [at EXCEPT ![d] = "asking"] /\ ask' = [ask EXCEPT ![d] = request]

\* The request ends; the handler reads again or stops.
Ends(d, next) ==
  /\ at[d] = "asking"
  /\ at' = [at EXCEPT ![d] = next] /\ ask' = [ask EXCEPT ![d] = NoAsk]

\* The member leaves the page.
Shuts(d) ==
  /\ Reading(d) \/ at[d] = "idle"
  /\ at' = [at EXCEPT ![d] = "shut"] /\ UNCHANGED ask
=============================================================================

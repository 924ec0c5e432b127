---------------------------- MODULE MCWebSession ----------------------------
(***************************************************************************)
(* WebSession with a history variable, the tabs in which the admin's form   *)
(* stored its session after its page had been left, and for TLC with bounds *)
(* on what members do.                                                      *)
(***************************************************************************)
EXTENDS Naturals, FiniteSets

CONSTANTS SessionTabs, Wallets, Entrances, MaxMembers, MaxTokens, NoWallet,
          MaxEvents,   \* bound on logins, visits, links, logouts, changes, broken connections
          MaxLogins    \* bound on logins

VARIABLES token, legacy, doc, login, wallet, subscribed, challenge, nonce, owner,
          late, events, logins

Session == INSTANCE WebSession WITH Tabs <- SessionTabs

ASSUME SessionAssumption == Session!ConstantsOK

----------------------------------------------------------------------------
(* Any number of tabs, for as long as they like. *)

StoresLate(t) ==
  /\ login[t]["form"] # Session!Idle /\ token'[t] # token[t]
  /\ doc[t].at # "admin" /\ login'[t]["form"] = Session!Idle

Late == late' = late \cup {t \in SessionTabs : StoresLate(t)}

SessionRuns == /\ Session!Init /\ late = {}
               /\ [][Session!Next /\ Late]_<<Session!vars, late>>

----------------------------------------------------------------------------
(* For TLC: bounds, and the token of an older version in the browser. *)

Count(n, what) == IF what THEN n + 1 ELSE n

SessionInit ==
  /\ Session!Init /\ legacy = 1
  /\ events = 0 /\ logins = 0 /\ late = {}

SessionNext ==
  /\ \E t \in SessionTabs :
       \/ (Session!Browses(t) \/ Session!Changes(t) \/ Session!Breaks(t)) /\ events' = events + 1
       \/ (Session!SignsIn(t) \/ Session!Works(t)) /\ UNCHANGED events
  /\ logins' = Count(logins, \E t \in SessionTabs, c \in Session!Cards :
                               login[t][c] = Session!Idle /\ login'[t][c] # Session!Idle)
  /\ logins' <= MaxLogins /\ events' + logins' <= MaxEvents
  \* A second login of the home page is the one of another card, whichever it is.
  /\ \A t \in SessionTabs : login[t]["merchant"] = Session!Idle /\ login'[t]["merchant"] # Session!Idle
                              => login[t]["member"] # Session!Idle
  /\ Late

SessionSpec ==
  /\ SessionInit /\ [][SessionNext]_<<Session!vars, events, logins, late>>
  /\ Session!Fairness

----------------------------------------------------------------------------
(* A page that is shown belongs to the account the tab's session is of: when *)
(* a login replaces the session, the document goes with it.  (The admin's    *)
(* form, which stays, is excepted when its page was left meanwhile.)         *)
ShownIsOwner ==
  \A t \in SessionTabs :
    doc[t].open /\ doc[t].next = "none" /\ token[t] # 0 /\ t \notin late
      => owner[token[t]] = doc[t].shown

(* Every visit comes to rest (WebSession).                                   *)
VisitsSettle == Session!VisitsSettle
=============================================================================

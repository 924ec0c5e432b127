-------------------------- MODULE PlatformSettings --------------------------
(***************************************************************************)
(* The platform's parameters and the two pages that write them: the          *)
(* governance settings edit a copy of all parameters and save all of it, the *)
(* payouts page saves its own two fields over the copy of its last refresh.   *)
(* The server keeps what it is sent.                                          *)
(***************************************************************************)
EXTENDS PageRequests, FiniteSets

CONSTANTS Fees,        \* amounts an admin types for the fees
          Minutes,     \* durations of a stage
          Delays,      \* days before an automatic payout
          Settings, Payouts,   \* the pages, one for each open tab
          MaxSaves

VARIABLES
  params,   \* the parameters in the database
  copy,     \* the parameters as each page holds them, edits included
  edited,   \* history: the fields edited on each page since it read its copy
  saves,    \* history: how often the parameters were saved
  base      \* history: saves when each page read its copy

settingsVars == <<params, copy, edited, saves, base>>
vars == <<requestVars, settingsVars>>

\* parseEthToWeiNumber: what is no amount, or is blank, is read as 0.
ParsedFees == Fees \cup {0}
Params == [fee : ParsedFees, minutes : Minutes, options : SUBSET Minutes,
           delay : Delays, enabled : BOOLEAN]
NoCopy == [fee |-> "unread"]
SettingsPages == Settings \cup Payouts

TypeOK ==
  /\ RequestsOK /\ params \in Params /\ saves \in 0..MaxSaves
  /\ \A d \in SettingsPages : copy[d] \in Params \cup {NoCopy} /\ base[d] \in 0..saves

Init ==
  /\ RequestsInit /\ saves = 0
  /\ params \in {p \in Params : p.fee # 0 /\ p.options = {p.minutes} /\ ~p.enabled}
  /\ copy = [d \in SettingsPages |-> NoCopy]
  /\ edited = [d \in SettingsPages |-> {}] /\ base = [d \in SettingsPages |-> 0]

----------------------------------------------------------------------------

\* parseOptionText, and normalizeDurationOptions on the server: the default
\* duration is always one of those offered.
Offered(p) == p.options \cup {p.minutes}
WithDefault(p) == [p EXCEPT !.options = Offered(p)]

Takes(d) ==
  /\ copy' = [copy EXCEPT ![d] = params'] /\ edited' = [edited EXCEPT ![d] = {}]
  /\ base' = [base EXCEPT ![d] = saves']

Open(d) ==
  /\ Opens(d) /\ copy' = [copy EXCEPT ![d] = NoCopy]
  /\ edited' = [edited EXCEPT ![d] = {}] /\ UNCHANGED <<params, saves, base>>
Read(d) == Reads(d) /\ UNCHANGED <<params, saves>> /\ Takes(d)
ReadFails(d) == ReadsNothing(d) /\ UNCHANGED settingsVars
Close(d) == Shuts(d) /\ UNCHANGED settingsVars

\* A field is edited while the page is idle.
Edit(d, fields, new) ==
  /\ at[d] = "idle" /\ copy[d] # NoCopy /\ copy' = [copy EXCEPT ![d] = new]
  /\ edited' = [edited EXCEPT ![d] = @ \cup fields]
  /\ UNCHANGED <<requestVars, params, saves, base>>

\* updateField and the fields of the settings page.
EditFee(d) ==
  \E fee \in ParsedFees : Edit(d, {"fee"}, [copy[d] EXCEPT !.fee = fee])
EditMinutes(d) ==
  \E m \in Minutes : Edit(d, {"minutes", "options"}, [copy[d] EXCEPT !.minutes = m])
AddOption(d) ==
  \E m \in Minutes : Edit(d, {"options"}, [copy[d] EXCEPT !.options = @ \cup {m}])
\* removeDurationOption: the text left is that of the other options.
RemoveOption(d) ==
  copy[d] # NoCopy /\ \E m \in Offered(copy[d]) :
    Edit(d, {"options"}, [copy[d] EXCEPT !.options = Offered(copy[d]) \ {m}])
EditDelay(d) == \E n \in Delays : Edit(d, {"delay"}, [copy[d] EXCEPT !.delay = n])
\* The switch of the payouts page.
Toggle(d) == Edit(d, {"enabled"}, [copy[d] EXCEPT !.enabled = ~@])

\* handleSave and handleSaveAutoPayout send everything they hold.
All(d)      == WithDefault(copy[d])
OwnOnly(d)  == [CHOOSE p \in Params : p.fee # 0 EXCEPT !.delay = copy[d].delay,
                                              !.enabled = copy[d].enabled]
SentByAuto(d) == IF d \in Payouts THEN OwnOnly(d) ELSE All(d)
SentBy(d) == All(d)
Save(d) ==
  /\ copy[d] # NoCopy /\ saves < MaxSaves
  /\ Presses(d, [what |-> "save", params |-> SentBy(d)]) /\ UNCHANGED settingsVars

\* SetGovernanceParams.  The settings page takes the answer for its new copy,
\* the payouts page reads again.
Store(d) ==
  /\ at[d] = "asking" /\ saves < MaxSaves
  /\ params' = WithDefault(ask[d].params) /\ saves' = saves + 1
Serve(d) ==
  /\ Store(d)
  /\ IF d \in Settings THEN Ends(d, "idle") /\ Takes(d)
     ELSE Ends(d, "reading") /\ UNCHANGED <<copy, edited, base>>
AnswerLost(d) == Store(d) /\ Ends(d, "idle") /\ UNCHANGED <<copy, edited, base>>
Unserved(d) == Ends(d, "idle") /\ UNCHANGED settingsVars

Next ==
  \/ \E d \in Settings : EditFee(d) \/ EditMinutes(d) \/ AddOption(d) \/ RemoveOption(d)
  \/ \E d \in Payouts : Toggle(d)
  \/ \E d \in SettingsPages :
       \/ Open(d) \/ Read(d) \/ ReadFails(d) \/ Close(d) \/ EditDelay(d)
       \/ Save(d) \/ Serve(d) \/ AnswerLost(d) \/ Unserved(d)

Spec == Init /\ [][Next]_vars

----------------------------------------------------------------------------
(* Properties *)

\* A save changes a parameter that was not edited on its page only if the
\* parameters were saved after the page read them: two tabs can undo each
\* other's settings, one tab alone never does (handleSave, handleSaveAutoPayout).
LostOnlyBehind ==
  [][\A d \in SettingsPages :
       (saves' > saves /\ at[d] = "asking" /\ at'[d] # "asking") =>
         \/ base[d] < saves
         \/ \A f \in DOMAIN params \ edited[d] : params'[f] = params[f]]_vars
=============================================================================

------------------------------ MODULE GroupDesk ------------------------------
(***************************************************************************)
(* Groups and their invite codes: the page on which a member creates and     *)
(* joins groups and the pages of one group, on which its owner renames it,    *)
(* makes a code for it and removes members.  Creating a group, making a code   *)
(* and joining each take the server two steps of the database.  A group in     *)
(* which nothing happened for long is deleted by whoever reads groups next.    *)
(***************************************************************************)
EXTENDS PageRequests, FiniteSetsExt

CONSTANTS Members, Groups, Names, MaxCodes,
          ListPages, DetailPages   \* pages, one for each open tab

VARIABLES
  group,    \* the groups, by id: free ids, living and deleted groups
  code,     \* the codes ever made: the group of each, by code
  member,   \* the members of each group
  view      \* what each page shows: whose it is, of which group, which codes

groupVars == <<group, code, member, view>>
vars == <<requestVars, groupVars>>

NoGroup == 0
Free == [state |-> "free", owner |-> NoGroup, name |-> NoGroup]
Blank(m) == [who |-> m, of |-> NoGroup, codes |-> {}, out |-> {}]
GroupPages == ListPages \cup DetailPages

TypeOK ==
  /\ RequestsOK /\ code \in [DOMAIN code -> Groups] /\ DOMAIN code \subseteq 1..MaxCodes
  /\ \A g \in Groups : /\ group[g].state \in {"free", "live", "gone"}
                       /\ group[g].name \in Names \cup {NoGroup}
  /\ member \in [Groups -> SUBSET Members]
  /\ \A d \in GroupPages : view[d].codes \subseteq DOMAIN code

Init ==
  /\ RequestsInit /\ group = [g \in Groups |-> Free] /\ code = [c \in {} |-> NoGroup]
  /\ member = [g \in Groups |-> {}]
  /\ view \in [GroupPages -> {Blank(m) : m \in Members}]

Live(g) == group[g].state = "live"
CodesOf(g) == {c \in DOMAIN code : code[c] = g}
Mine(d) == view[d].who
Owns(d, g) == Live(g) /\ group[g].owner = Mine(d)

----------------------------------------------------------------------------
(* The server.  Groups are deleted with their codes and memberships; a deleted *)
(* code stays in the model as one that leads nowhere.                          *)

NextGroup == Min({g \in Groups : group[g].state = "free"})
NextCode  == Cardinality(DOMAIN code) + 1
MakeCode(g) == code' = [c \in DOMAIN code \cup {NextCode} |->
                          IF c = NextCode THEN g ELSE code[c]]

\* latestGroupInviteCode.
Latest(g) == IF CodesOf(g) = {} THEN {} ELSE {Max(CodesOf(g))}

\* PruneInactiveGroups, DeleteGroup.
Prune(g) ==
  /\ Live(g) /\ group' = [group EXCEPT ![g].state = "gone"]
  /\ member' = [member EXCEPT ![g] = {}]
  /\ UNCHANGED <<requestVars, code, view>>

AskedFor(d, what) == at[d] = "asking" /\ ask[d].what = what
Goes(d, what, g) ==
  /\ at[d] = "asking" /\ ask' = [ask EXCEPT ![d] = [what |-> what, on |-> g]]
  /\ UNCHANGED at
\* The request was served; its answer may be lost.
Done(d) == Ends(d, "reading") \/ Ends(d, "idle")

\* handleCreateGroup: the group with its owner as its member, then its code.
CreateGroup(d) ==
  /\ AskedFor(d, "create") /\ \E g \in Groups : group[g].state = "free"
  /\ group' = [group EXCEPT ![NextGroup] =
       [state |-> "live", owner |-> Mine(d), name |-> ask[d].name]]
  /\ member' = [member EXCEPT ![NextGroup] = {Mine(d)}]
  /\ Goes(d, "code", NextGroup) /\ UNCHANGED <<code, view>>

\* handleCreateGroupInvite of a member: CreateInvite looks for a code first.
FindCode(d) ==
  /\ AskedFor(d, "invite") /\ Mine(d) \in member[ask[d].on]
  /\ IF CodesOf(ask[d].on) # {} THEN Done(d) ELSE Goes(d, "code", ask[d].on)
  /\ UNCHANGED groupVars
\* As if a new code replaced the ones there are.
ReplaceCode(d) ==
  /\ AskedFor(d, "code") /\ NextCode <= MaxCodes
  /\ code' = [c \in (DOMAIN code \cup {NextCode}) \ CodesOf(ask[d].on) |->
                IF c = NextCode THEN ask[d].on ELSE code[c]]
  /\ Done(d) /\ UNCHANGED <<group, member, view>>
StoreCode(d) ==
  /\ AskedFor(d, "code") /\ NextCode <= MaxCodes
  /\ MakeCode(ask[d].on) /\ Done(d) /\ UNCHANGED <<group, member, view>>

\* handleJoinGroup: GetInviteByCode, then AddMemberByInvite.
FindInvite(d) ==
  /\ AskedFor(d, "join") /\ ask[d].code \in DOMAIN code /\ Live(code[ask[d].code])
  /\ Goes(d, "add", code[ask[d].code]) /\ UNCHANGED groupVars
AddMember(d) ==
  /\ AskedFor(d, "add") /\ member' = [member EXCEPT ![ask[d].on] = @ \cup {Mine(d)}]
  /\ IF Live(ask[d].on) THEN Done(d) ELSE Ends(d, "idle")
  /\ UNCHANGED <<group, code, view>>

\* UpdateGroup and RemoveGroupMember are the owner's; the owner stays.
Rename(d) ==
  /\ AskedFor(d, "rename") /\ Owns(d, ask[d].on)
  /\ group' = [group EXCEPT ![ask[d].on].name = ask[d].name]
  /\ Done(d) /\ UNCHANGED <<code, member, view>>
Removable(d, m) == Owns(d, ask[d].on) /\ m # Mine(d)
Remove(d) ==
  /\ AskedFor(d, "remove") /\ Removable(d, ask[d].member)
  /\ member' = [member EXCEPT ![ask[d].on] = @ \ {ask[d].member}]
  /\ Done(d) /\ UNCHANGED <<group, code, view>>

\* A refusal, an error or a request that does not arrive; what was done stays.
Fails(d) == Ends(d, "idle") /\ UNCHANGED groupVars

----------------------------------------------------------------------------
(* The pages. *)

OpenList(d) == /\ Opens(d) /\ view' = [view EXCEPT ![d] = Blank(Mine(d))]
               /\ UNCHANGED <<group, code, member>>
OpenDetail(d) ==
  /\ Opens(d)
  /\ \E g \in Groups : group[g].state # "free"
                       /\ view' = [view EXCEPT ![d] = [Blank(Mine(d)) EXCEPT !.of = g]]
  /\ UNCHANGED <<group, code, member>>
Close(d) == Shuts(d) /\ UNCHANGED groupVars

\* ListMemberGroups: the groups of a member, each with its latest code.
ReadList(d) ==
  /\ Reads(d)
  /\ view' = [view EXCEPT ![d].codes =
       UNION {Latest(g) : g \in {g \in Groups : Live(g) /\ Mine(d) \in member[g]}}]
  /\ UNCHANGED <<group, code, member>>
\* GetGroupDetail, for the members of a living group.
ReadDetail(d) ==
  /\ Reads(d) /\ Live(view[d].of) /\ Mine(d) \in member[view[d].of]
  /\ view' = [view EXCEPT ![d].codes = Latest(view[d].of),
                          ![d].out = member[view[d].of] \ {group[view[d].of].owner}]
  /\ UNCHANGED <<group, code, member>>
\* The forms of the page of groups are there without a list.
ReadFails(d) == (IF d \in ListPages THEN Reads(d) ELSE ReadsNothing(d)) /\ UNCHANGED groupVars

Press(d, request) == Presses(d, request) /\ UNCHANGED groupVars

\* handleCreateGroup, handleJoinGroup: any code may be typed.
PressCreate(d) == \E n \in Names : Press(d, [what |-> "create", name |-> n])
PressJoin(d) == \E c \in 1..MaxCodes : Press(d, [what |-> "join", code |-> c])

\* The buttons of the group's owner (canManage), as the page was last read.
Managed(d) == at[d] = "idle" /\ group[view[d].of].owner = Mine(d)
PressRename(d) ==
  Managed(d) /\ \E n \in Names :
    Press(d, [what |-> "rename", on |-> view[d].of, name |-> n])
PressInvite(d) ==
  Managed(d) /\ view[d].codes = {} /\ Press(d, [what |-> "invite", on |-> view[d].of])
PressRemove(d) ==
  Managed(d) /\ \E m \in view[d].out :
    Press(d, [what |-> "remove", on |-> view[d].of, member |-> m])

Next ==
  \/ \E g \in Groups : Prune(g)
  \/ \E d \in ListPages : OpenList(d) \/ ReadList(d) \/ PressCreate(d) \/ PressJoin(d)
  \/ \E d \in DetailPages : \/ OpenDetail(d) \/ ReadDetail(d)
                            \/ PressRename(d) \/ PressInvite(d) \/ PressRemove(d)
  \/ \E d \in GroupPages :
       \/ CreateGroup(d) \/ FindCode(d) \/ StoreCode(d) \/ FindInvite(d) \/ AddMember(d)
       \/ Rename(d) \/ Remove(d) \/ Fails(d) \/ Close(d) \/ ReadFails(d)

Spec == Init /\ [][Next]_vars

----------------------------------------------------------------------------
(* Properties *)

\* A living group keeps its owner and the codes its pages show: a code that a
\* member copied from a page leads to that page's group for as long as the group
\* lives, although codes are made without a lock and another one may have been
\* made since (CreateInvite, RemoveGroupMember, GetInviteByCode).
GroupsKeepDoors ==
  /\ \A g \in Groups : Live(g) => group[g].owner \in member[g]
  /\ \A d \in DetailPages : \A c \in view[d].codes :
       c \in DOMAIN code /\ code[c] = view[d].of
=============================================================================

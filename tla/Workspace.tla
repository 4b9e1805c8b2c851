------------------------------ MODULE Workspace ------------------------------
(***************************************************************************)
(* The tables of two companies, ours and theirs, and the handlers that     *)
(* write them: team_controller, member_controller, register_user and the   *)
(* part of /trigger and run_pipeline that decides whom a meeting belongs   *)
(* to.  The companies meet where nothing keeps them apart: emails are      *)
(* unique among all accounts, and a meeting can be linked to any row.      *)
(* The meetings and the leaders are ours; those of theirs would be the     *)
(* same once more.                                                         *)
(*                                                                         *)
(* A handler first reads (its guards and 404s), then writes in one         *)
(* transaction; other requests run in between.  PostgreSQL checks unique   *)
(* and foreign keys at the write, and SQLAlchemy updates a row only if the *)
(* value differs from the one it read, and fails if the row has gone.      *)
(* Accounts are identified with their emails, which never change.          *)
(***************************************************************************)
EXTENDS FiniteSets

CONSTANTS
  Emails,      \* addresses, of accounts and of members
  Founders,    \* who has registered the company
  TeamIds, MemberIds, MeetingIds,   \* ids, each used for one row ever
  TheirTeams,  \* the ids that teams of theirs get
  Requests,    \* bound: requests being handled at a time
  None         \* no row, no leader, no request

ASSUME FoundersAssumption == Founders \subseteq Emails
ASSUME TheirTeamsAssumption == TheirTeams \subseteq TeamIds
ASSUME NoneAssumption ==
  None \notin Emails \cup TeamIds \cup MemberIds \cup {"hr", "team_leader", "elsewhere"}

VARIABLES
  companies, \* companies: which of the two names have a row
  role,      \* users: the role of the account of e, "elsewhere" for an
             \* account of theirs, None for no account
  teams,     \* teams: the ids of the rows
  leader,    \* teams.leader_id
  place,     \* members.team_id, or None when there is no such row
  email,     \* members.email
  used,      \* ids of teams, members and meetings already given
  meetings,  \* meetings: the ids of the rows
  linked,    \* meeting_teams
  invited,   \* meeting_participants
  req,       \* what each request has read and is about to write
  selected,  \* history: the selection of each triggered meeting
  audience,  \* the emails resolve_participants has found for it
  touched,   \* history: the emails whose member rows changed meanwhile
  led        \* history: accounts that have ever been somebody's leader

users == <<companies, role, led>>
rows == <<teams, leader, place, email>>
links == <<meetings, linked, invited>>
launches == <<selected, audience, touched>>
vars == <<companies, role, led, teams, leader, place, email, used, meetings, linked, invited, req,
          selected, audience, touched>>

-----------------------------------------------------------------------------
Selections == [teams : SUBSET TeamIds, members : SUBSET MemberIds]

Companies == {"ours", "theirs"}

(* An assignment knows the leader it read, and what the account needs; a   *)
(* registration knows whether the company was there.                       *)
Writes ==
  [op : {"register"}, email : Emails, company : Companies, found : BOOLEAN] \cup
  [op : {"assign"}, team : TeamIds, was : Emails \cup {None}, email : Emails,
   account : {"create", "promote", "keep"}] \cup
  [op : {"addMember"}, team : TeamIds, email : Emails] \cup
  [op : {"editMember"}, member : MemberIds, email : Emails] \cup
  [op : {"removeMember"}, member : MemberIds] \cup
  [op : {"removeTeam"}, team : TeamIds] \cup
  [op : {"resolve", "launch"}, meeting : MeetingIds]

ASSUME NoWriteAssumption == None \notin Writes

Members == {m \in MemberIds : place[m] # None}

(* members.company_id: a member has the company of its team, where         *)
(* create_member has looked the team up, and keeps both.                   *)
Ours(m) == place[m] \notin TheirTeams

TypeOK ==
  /\ companies \subseteq Companies
  /\ role \in [Emails -> {"hr", "team_leader", "elsewhere", None}]
  /\ teams \subseteq TeamIds
  /\ leader \in [TeamIds -> Emails \cup {None}]
  /\ place \in [MemberIds -> TeamIds \cup {None}]
  /\ email \in [MemberIds -> Emails \cup {None}]
  /\ used \subseteq TeamIds \cup MemberIds \cup MeetingIds
  /\ meetings \subseteq MeetingIds
  /\ linked \in [MeetingIds -> SUBSET TeamIds]
  /\ invited \in [MeetingIds -> SUBSET MemberIds]
  /\ req \in [Requests -> Writes \cup {None}]
  /\ selected \in [MeetingIds -> Selections]
  /\ audience \in [MeetingIds -> SUBSET Emails]
  /\ touched \in [MeetingIds -> SUBSET Emails]
  /\ led \subseteq Emails

Init ==
  /\ companies = IF Founders = {} THEN {} ELSE {"ours"}
  /\ role = [e \in Emails |-> IF e \in Founders THEN "hr" ELSE None]
  /\ teams = {}
  /\ leader = [t \in TeamIds |-> None]
  /\ place = [m \in MemberIds |-> None]
  /\ email = [m \in MemberIds |-> None]
  /\ used = {}
  /\ meetings = {}
  /\ linked = [g \in MeetingIds |-> {}]
  /\ invited = [g \in MeetingIds |-> {}]
  /\ req = [r \in Requests |-> None]
  /\ selected = [g \in MeetingIds |-> [teams |-> {}, members |-> {}]]
  /\ audience = [g \in MeetingIds |-> {}]
  /\ touched = [g \in MeetingIds |-> {}]
  /\ led = {}

-----------------------------------------------------------------------------
(* Who may do what: get_current_user reads the role from the table.        *)
IsHR(u) == role[u] = "hr"

(* Accounts of a company: the queries of its users find no other. *)
AccountsOf(c) ==
  {e \in Emails : role[e] \in IF c = "ours" THEN {"hr", "team_leader"} ELSE {"elsewhere"}}

(* _get_company_team: another company's team is not found. *)
FindsTeam(u, t) == u \in AccountsOf(IF t \in TheirTeams THEN "theirs" ELSE "ours")

(* require_role(HR) and _get_company_team. *)
MayOwn(u, t) == FindsTeam(u, t) /\ role[u] # "team_leader"

(* _get_company_team and _ensure_can_manage_team. *)
MayManage(u, t) == FindsTeam(u, t) /\ (role[u] = "team_leader" => leader[t] = u)

(* A request has read what it needs and is ready to write. *)
Handle(r, write) == /\ req[r] = None
                    /\ req' = [req EXCEPT ![r] = write]

Answer(r) == req' = [req EXCEPT ![r] = None]

(* The member rows of these members change or go: for the meetings under   *)
(* way, their emails are no longer what the trigger saw.                   *)
Touch(es) == touched' = [g \in MeetingIds |-> touched[g] \cup es]

-----------------------------------------------------------------------------
(* register_user reads: 409 for a taken email, then the company's name. *)
ReadToRegister(r, e, c) ==
  /\ role[e] = None
  /\ Handle(r, [op |-> "register", email |-> e, company |-> c, found |-> c \in companies])
  /\ UNCHANGED <<users, rows, used, links, launches>>

(* The unique names of companies, checked by the flush, and the unique     *)
(* emails, checked by the commit.                                          *)
Registrable(w) == /\ ~w.found => w.company \notin companies
                  /\ role[w.email] = None

(* Mutant: the company is committed before the account. *)
CompaniesAfter_Early(w) == companies \cup {w.company}

CompaniesAfter(w) == IF Registrable(w) THEN companies \cup {w.company} ELSE companies

(* The company, if it is new, and its HR user in one transaction: the      *)
(* loser of a race for a name is answered 500, for an email 409, and       *)
(* neither has written anything.                                           *)
Register(r) ==
  /\ req[r] # None /\ req[r].op = "register"
  /\ LET w == req[r]
     IN /\ companies' = CompaniesAfter(w)
        /\ role' = IF Registrable(w)
                   THEN [role EXCEPT ![w.email] = IF w.company = "ours" THEN "hr"
                                                                       ELSE "elsewhere"]
                   ELSE role
  /\ Answer(r)
  /\ UNCHANGED <<led, rows, used, links, launches>>

CreateTeam(u, t) ==
  /\ MayOwn(u, t)
  /\ t \notin used
  /\ used' = used \cup {t}
  /\ teams' = teams \cup {t}
  /\ UNCHANGED <<users, leader, place, email, links, req, launches>>

(* assign_leader reads: the team, then a member with this id and the       *)
(* account of the member's email, all of the user's company, ...           *)
ReadMemberToLead(r, u, t, m) ==
  /\ IsHR(u) /\ FindsTeam(u, t) /\ t \in teams
  /\ m \in Members /\ Ours(m)
  /\ Handle(r, [op |-> "assign", team |-> t, was |-> leader[t], email |-> email[m],
                account |-> CASE role[email[m]] \in {None, "elsewhere"} -> "create"
                              [] role[email[m]] = "hr" -> "promote"
                              [] OTHER -> "keep"])
  /\ UNCHANGED <<users, rows, used, links, launches>>

(* The role check of the path for accounts. *)
MayLead(e) == role[e] = "team_leader"

(* ... or else an account with this id, which must be a team leader's.     *)
ReadUserToLead(r, u, t, e) ==
  /\ IsHR(u) /\ FindsTeam(u, t) /\ t \in teams
  /\ MayLead(e)
  /\ Handle(r, [op |-> "assign", team |-> t, was |-> leader[t], email |-> e,
                account |-> "keep"])
  /\ UNCHANGED <<users, rows, used, links, launches>>

(* The transaction of an assignment fails as a whole if there is another   *)
(* account of that email, of whatever company, or if the team has gone.    *)
Assignable(w) == /\ w.account = "create" => role[w.email] = None
                 /\ w.email # w.was => w.team \in teams

(* Mutant: the account is committed before the team is written. *)
NewRole_Early(w) == IF w.account = "keep" THEN role[w.email] ELSE "team_leader"

(* What the assignment makes of the account. *)
NewRole(w) == IF w.account = "keep" \/ ~Assignable(w) THEN role[w.email] ELSE "team_leader"

AssignLeader(r) ==
  /\ req[r] # None /\ req[r].op = "assign"
  /\ LET w == req[r]
         writes == Assignable(w) /\ w.email # w.was
     IN /\ role' = [role EXCEPT ![w.email] = NewRole(w)]
        /\ leader' = IF writes THEN [leader EXCEPT ![w.team] = w.email] ELSE leader
        /\ led' = IF writes THEN led \cup {w.email} ELSE led
  /\ Answer(r)
  /\ UNCHANGED <<companies, teams, place, email, used, links, launches>>

ReadTeamToDelete(r, u, t) ==
  /\ MayOwn(u, t) /\ t \in teams
  /\ Handle(r, [op |-> "removeTeam", team |-> t])
  /\ UNCHANGED <<users, rows, used, links, launches>>

(* Mutant: the participants of deleted members are kept. *)
InvitedAfter_Kept(gone) == invited

(* ON DELETE CASCADE from members to meeting_participants. *)
InvitedAfter(gone) == [g \in MeetingIds |-> invited[g] \ gone]

(* Members go, with their rows in meeting_participants. *)
RemoveMembers(gone) ==
  /\ place' = [m \in MemberIds |-> IF m \in gone THEN None ELSE place[m]]
  /\ email' = [m \in MemberIds |-> IF m \in gone THEN None ELSE email[m]]
  /\ invited' = InvitedAfter(gone)
  /\ Touch({email[m] : m \in gone \cap Members})

(* delete_team; the delete of a row that has gone already is a warning. *)
DeleteTeam(r) ==
  /\ req[r] # None /\ req[r].op = "removeTeam"
  /\ LET t == req[r].team
     IN /\ teams' = teams \ {t}
        /\ leader' = [leader EXCEPT ![t] = None]
        /\ RemoveMembers({m \in MemberIds : place[m] = t})
        /\ linked' = [g \in MeetingIds |-> linked[g] \ {t}]
  /\ Answer(r)
  /\ UNCHANGED <<users, used, meetings, selected, audience>>

-----------------------------------------------------------------------------
ReadTeamToJoin(r, u, t, e) ==
  /\ t \in teams /\ MayManage(u, t)
  /\ Handle(r, [op |-> "addMember", team |-> t, email |-> e])
  /\ UNCHANGED <<users, rows, used, links, launches>>

(* Mutant: no foreign key from members to teams. *)
Joinable_Always(t) == TRUE

(* The foreign key members.team_id. *)
Joinable(t) == t \in teams

(* create_member *)
CreateMember(r, m) ==
  /\ req[r] # None /\ req[r].op = "addMember"
  /\ m \notin used
  /\ LET t == req[r].team
         e == req[r].email
     IN IF Joinable(t)
        THEN /\ used' = used \cup {m}
             /\ place' = [place EXCEPT ![m] = t]
             /\ email' = [email EXCEPT ![m] = e]
             /\ Touch({e})
        ELSE UNCHANGED <<used, place, email, touched>>
  /\ Answer(r)
  /\ UNCHANGED <<users, teams, leader, links, selected, audience>>

ReadMemberToUpdate(r, u, m, e) ==
  /\ m \in Members /\ MayManage(u, place[m]) /\ e # email[m]
  /\ Handle(r, [op |-> "editMember", member |-> m, email |-> e])
  /\ UNCHANGED <<users, rows, used, links, launches>>

(* update_member: the update of a row that has gone fails. *)
UpdateMember(r) ==
  /\ req[r] # None /\ req[r].op = "editMember"
  /\ LET m == req[r].member
     IN IF m \in Members
        THEN /\ email' = [email EXCEPT ![m] = req[r].email]
             /\ Touch({email[m], req[r].email})
        ELSE UNCHANGED <<email, touched>>
  /\ Answer(r)
  /\ UNCHANGED <<users, teams, leader, place, used, links, selected, audience>>

ReadMemberToDelete(r, u, m) ==
  /\ m \in Members /\ MayManage(u, place[m])
  /\ Handle(r, [op |-> "removeMember", member |-> m])
  /\ UNCHANGED <<users, rows, used, links, launches>>

DeleteMember(r) ==
  /\ req[r] # None /\ req[r].op = "removeMember"
  /\ RemoveMembers({req[r].member})
  /\ Answer(r)
  /\ UNCHANGED <<users, teams, leader, used, meetings, linked, selected, audience>>

-----------------------------------------------------------------------------
(* resolve_participants is two queries for members of the user's company,  *)
(* by the teams of the selection...                                        *)
TeamEmails(s) == {email[m] : m \in {x \in Members : Ours(x) /\ place[x] \in s.teams}}

(* Mutant: the second query is not restricted to the company. *)
DirectEmails_AnyCompany(s) == {email[m] : m \in Members \cap s.members}

(* ... and by its members. *)
DirectEmails(s) == {email[m] : m \in {x \in Members : Ours(x) /\ x \in s.members}}

(* /trigger by a user of ours.  The selection is whatever ids the request  *)
(* holds, also of rows that have gone or are theirs; the first query.      *)
Trigger(r, u, g, s) ==
  /\ u \in AccountsOf("ours")
  /\ g \notin used
  /\ used' = used \cup {g}
  /\ selected' = [selected EXCEPT ![g] = s]
  /\ audience' = [audience EXCEPT ![g] = TeamEmails(s)]
  /\ touched' = [touched EXCEPT ![g] = {}]
  /\ Handle(r, [op |-> "resolve", meeting |-> g])
  /\ UNCHANGED <<users, rows, links>>

(* The second query; the background task is to write the rows. *)
ResolveDirect(r) ==
  /\ req[r] # None /\ req[r].op = "resolve"
  /\ LET g == req[r].meeting
     IN /\ audience' = [audience EXCEPT ![g] = @ \cup DirectEmails(selected[g])]
        /\ req' = [req EXCEPT ![r] = [op |-> "launch", meeting |-> g]]
  /\ UNCHANGED <<users, rows, used, links, selected, touched>>

(* The rows resolve_meeting_participants takes the emails from that the    *)
(* invitations go to: here no query asks for a company.                    *)
Invitees(g) == {m \in Members : place[m] \in linked[g] \/ m \in invited[g]}

(* Mutant: the meeting row is committed whether or not its links can be.   *)
Linkable_Always(s) == TRUE

(* The foreign keys of meeting_teams and meeting_participants, which admit *)
(* the rows of every company.                                              *)
Linkable(s) == s.teams \subseteq teams /\ s.members \subseteq Members

(* The first transaction of run_pipeline: the row with all its links, or   *)
(* nothing, and the pipeline ends.                                         *)
Launch(r) ==
  /\ req[r] # None /\ req[r].op = "launch"
  /\ LET g == req[r].meeting
         s == selected[g]
     IN IF Linkable(s)
        THEN /\ meetings' = meetings \cup {g}
             /\ linked' = [linked EXCEPT ![g] = s.teams]
             /\ invited' = [invited EXCEPT ![g] = s.members]
        ELSE UNCHANGED links
  /\ Answer(r)
  /\ UNCHANGED <<users, rows, used, launches>>

-----------------------------------------------------------------------------
Reads(r) ==
  \E u \in Emails :
    \/ \E c \in Companies : ReadToRegister(r, u, c)
    \/ \E t \in TeamIds : \/ \E m \in MemberIds : ReadMemberToLead(r, u, t, m)
                          \/ \E e \in Emails : ReadUserToLead(r, u, t, e)
                          \/ ReadTeamToDelete(r, u, t)
                          \/ \E e \in Emails : ReadTeamToJoin(r, u, t, e)
    \/ \E m \in MemberIds : \/ \E e \in Emails : ReadMemberToUpdate(r, u, m, e)
                            \/ ReadMemberToDelete(r, u, m)
    \/ \E g \in MeetingIds, s \in Selections : Trigger(r, u, g, s)

Commits(r) ==
  \/ Register(r) \/ AssignLeader(r) \/ DeleteTeam(r)
  \/ UpdateMember(r) \/ DeleteMember(r) \/ ResolveDirect(r) \/ Launch(r)
  \/ \E m \in MemberIds : CreateMember(r, m)

Next ==
  \/ \E u \in Emails, t \in TeamIds : CreateTeam(u, t)
  \/ \E r \in Requests : Reads(r) \/ Commits(r)

Spec == Init /\ [][Next]_vars
-----------------------------------------------------------------------------
(* What the tables promise *)

(* Every row a row refers to is there, whatever was deleted meanwhile: the *)
(* company of an account, the team of a member, the teams and participants *)
(* of a meeting, and the leader's account, which is a team leader's: what  *)
(* one request has read of it cannot have changed by the time it writes.   *)
NothingDangles ==
  /\ \A c \in Companies : AccountsOf(c) # {} => c \in companies
  /\ \A m \in Members : place[m] \in teams
  /\ \A t \in teams : leader[t] # None => role[leader[t]] = "team_leader"
  /\ \A g \in MeetingIds : /\ linked[g] \subseteq teams
                           /\ invited[g] \subseteq Members
                           /\ g \notin meetings => linked[g] = {} /\ invited[g] = {}

(* A company has an account: a registration that fails, because the name   *)
(* or the email was taken since it looked, leaves no company behind.       *)
CompaniesHaveAccounts == \A c \in companies : AccountsOf(c) # {}

(* An account becomes a team leader's only together with a team: when the  *)
(* assignment fails, no account and no promotion of it stays behind.       *)
NoAccountWithoutTeam == \A e \in Emails : role[e] = "team_leader" => e \in led

(* A meeting keeps all of its selection that still exists: the row is      *)
(* never written with a part of its links.                                 *)
MeetingsKeepTheirSelection ==
  \A g \in meetings : /\ linked[g] = selected[g].teams \cap teams
                      /\ invited[g] = selected[g].members \cap Members

(* Whoever's rows have not changed since /trigger gets the report exactly  *)
(* if a row of our company with that email is invited to the meeting: the  *)
(* two services, which read the selection at different times, differ only  *)
(* in the members of theirs it names, who are invited and never resolved.  *)
SameAudience ==
  \A g \in meetings : \A e \in Emails \ touched[g] :
    e \in audience[g] <=> \E m \in Invitees(g) : Ours(m) /\ email[m] = e

-----------------------------------------------------------------------------
(* The inductive invariant.                                                *)

(* The request of a meeting whose row is not written yet. *)
Triggered(r) == req[r] # None /\ req[r].op \in {"resolve", "launch"}

(* No id is given twice, so nothing that is gone comes back under it, and  *)
(* a meeting is one request's.                                             *)
IdsAreUsed ==
  /\ teams \subseteq used /\ Members \subseteq used /\ meetings \subseteq used
  /\ \A g \in meetings : /\ selected[g].teams \subseteq used
                         /\ selected[g].members \subseteq used
  /\ \A r \in Requests : Triggered(r) => req[r].meeting \in used \ meetings
  /\ \A r, q \in Requests :
       Triggered(r) /\ Triggered(q) /\ req[r].meeting = req[q].meeting => r = q

LeadersHaveLed ==
  \A t \in TeamIds : leader[t] # None => role[leader[t]] = "team_leader" /\ leader[t] \in led

(* What an assignment has read stays true until it writes. *)
AssignmentsHold ==
  \A r \in Requests :
    req[r] # None /\ req[r].op = "assign" =>
      /\ "ours" \in companies
      /\ req[r].account = "keep" => /\ role[req[r].email] = "team_leader"
                                    /\ req[r].email \in led
      /\ req[r].account = "promote" => role[req[r].email] \in {"hr", "team_leader"}
      /\ req[r].was # None => req[r].was \in led

RowsHaveEmails == \A m \in Members : email[m] \in Emails

(* Between the two queries of the meeting's trigger. *)
HalfResolved(g) == \E r \in Requests : /\ req[r] # None /\ req[r].op = "resolve"
                                        /\ req[r].meeting = g

(* What the queries have found stays right for every email not touched. *)
ResolvedHolds ==
  \A g \in MeetingIds : \A e \in Emails \ touched[g] :
    /\ e \in TeamEmails(selected[g]) => e \in audience[g]
    /\ e \in audience[g] => e \in TeamEmails(selected[g]) \cup DirectEmails(selected[g])
    /\ ~HalfResolved(g) => (e \in DirectEmails(selected[g]) => e \in audience[g])

WInv == /\ TypeOK /\ IdsAreUsed /\ LeadersHaveLed /\ AssignmentsHold /\ RowsHaveEmails
        /\ ResolvedHolds
        /\ NothingDangles /\ CompaniesHaveAccounts /\ NoAccountWithoutTeam
        /\ MeetingsKeepTheirSelection
=============================================================================

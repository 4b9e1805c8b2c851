--------------------------- MODULE WorkspaceProofs ---------------------------
(***************************************************************************)
(* The tables of Workspace, for any number of teams, members, meetings and *)
(* concurrent requests: an invariant that survives every interleaving of   *)
(* the reads of one handler with the writes of another.                    *)
(***************************************************************************)
EXTENDS Workspace, TLAPS

(* What a request is about to write, by its kind. *)
LEMMA WriteKinds ==
  ASSUME NEW w \in Writes
  PROVE  /\ w.op = "assign" => /\ w.team \in TeamIds /\ w.email \in Emails
                               /\ w.was \in Emails \cup {None}
                               /\ w.account \in {"create", "promote", "keep"}
         /\ w.op = "register" => w.email \in Emails /\ w.company \in Companies
         /\ w.op = "addMember" => w.team \in TeamIds /\ w.email \in Emails
         /\ w.op = "editMember" => w.member \in MemberIds /\ w.email \in Emails
         /\ w.op = "removeMember" => w.member \in MemberIds
         /\ w.op = "removeTeam" => w.team \in TeamIds
         /\ w.op \in {"resolve", "launch"} => w.meeting \in MeetingIds
  BY DEF Writes

(* The answer and the next write of a request. *)
LEMMA RequestTypes ==
  ASSUME TypeOK, NEW r \in Requests
  PROVE  /\ Answer(r) => req' \in [Requests -> Writes \cup {None}]
         /\ \A w \in Writes : Handle(r, w) => req' \in [Requests -> Writes \cup {None}]
  BY DEF TypeOK, Answer, Handle

LEMMA EmailsOfMembers ==
  ASSUME TypeOK, RowsHaveEmails, NEW s \in SUBSET Members
  PROVE  {email[m] : m \in s} \subseteq Emails
  BY DEF RowsHaveEmails, Members

LEMMA TouchType ==
  ASSUME TypeOK, NEW es \in SUBSET Emails, Touch(es)
  PROVE  touched' \in [MeetingIds -> SUBSET Emails]
  BY DEF TypeOK, Touch

LEMMA RemoveMembersType ==
  ASSUME TypeOK, RowsHaveEmails, NEW gone \in SUBSET MemberIds, RemoveMembers(gone)
  PROVE  /\ place' \in [MemberIds -> TeamIds \cup {None}]
         /\ email' \in [MemberIds -> Emails \cup {None}]
         /\ invited' \in [MeetingIds -> SUBSET MemberIds]
         /\ touched' \in [MeetingIds -> SUBSET Emails]
         /\ Members' = Members \ gone
  <1>1. {email[m] : m \in gone \cap Members} \subseteq Emails
    BY EmailsOfMembers DEF Members
  <1>2. touched' \in [MeetingIds -> SUBSET Emails]
    BY <1>1, TouchType DEF RemoveMembers
  <1>3. /\ place' \in [MemberIds -> TeamIds \cup {None}]
        /\ email' \in [MemberIds -> Emails \cup {None}]
        /\ invited' \in [MeetingIds -> SUBSET MemberIds]
    BY DEF TypeOK, RemoveMembers, InvitedAfter
  <1>4. Members' = Members \ gone
    BY NoneAssumption DEF TypeOK, RemoveMembers, Members
  <1> QED
    BY <1>2, <1>3, <1>4

(* The reads of a handler change nothing but its request. *)
Quiet == UNCHANGED <<users, rows, used, links, launches>>

LEMMA ReadsType ==
  ASSUME TypeOK, RowsHaveEmails, NEW r \in Requests, Reads(r)
  PROVE  TypeOK'
  <1> USE DEF TypeOK
  <1>1. ASSUME NEW w \in Writes, Handle(r, w), Quiet
        PROVE  TypeOK'
    BY <1>1, RequestTypes DEF Quiet, users, rows, links, launches
  <1> PICK u \in Emails : Reads(r)!(u)
    BY DEF Reads
  <1>2. ASSUME NEW t \in TeamIds, NEW m \in MemberIds, ReadMemberToLead(r, u, t, m)
        PROVE  TypeOK'
    <2> DEFINE w == [op |-> "assign", team |-> t, was |-> leader[t], email |-> email[m],
                     account |-> CASE role[email[m]] \in {None, "elsewhere"} -> "create"
                                   [] role[email[m]] = "hr" -> "promote"
                                   [] OTHER -> "keep"]
    <2>1. email[m] \in Emails /\ leader[t] \in Emails \cup {None}
      BY <1>2 DEF ReadMemberToLead, RowsHaveEmails
    <2>2. w.account \in {"create", "promote", "keep"}
      OBVIOUS
    <2>3. w \in Writes
      BY <2>1, <2>2 DEF Writes
    <2>4. Handle(r, w) /\ Quiet
      BY <1>2 DEF ReadMemberToLead, Quiet
    <2> HIDE DEF w
    <2> QED
      BY <1>1, <2>3, <2>4
  <1>3. ASSUME NEW t \in TeamIds, NEW e \in Emails, ReadUserToLead(r, u, t, e)
        PROVE  TypeOK'
    <2> DEFINE w == [op |-> "assign", team |-> t, was |-> leader[t], email |-> e,
                     account |-> "keep"]
    <2>1. w \in Writes
      BY DEF Writes
    <2>2. Handle(r, w) /\ Quiet
      BY <1>3 DEF ReadUserToLead, Quiet
    <2> QED
      BY <1>1, <2>1, <2>2
  <1>4. ASSUME NEW t \in TeamIds, ReadTeamToDelete(r, u, t)
        PROVE  TypeOK'
    <2>1. [op |-> "removeTeam", team |-> t] \in Writes
      BY DEF Writes
    <2> QED
      BY <1>1, <1>4, <2>1 DEF ReadTeamToDelete, Quiet
  <1>5. ASSUME NEW t \in TeamIds, NEW e \in Emails, ReadTeamToJoin(r, u, t, e)
        PROVE  TypeOK'
    <2>1. [op |-> "addMember", team |-> t, email |-> e] \in Writes
      BY DEF Writes
    <2> QED
      BY <1>1, <1>5, <2>1 DEF ReadTeamToJoin, Quiet
  <1>6. ASSUME NEW m \in MemberIds, NEW e \in Emails, ReadMemberToUpdate(r, u, m, e)
        PROVE  TypeOK'
    <2>1. [op |-> "editMember", member |-> m, email |-> e] \in Writes
      BY DEF Writes
    <2> QED
      BY <1>1, <1>6, <2>1 DEF ReadMemberToUpdate, Quiet
  <1>7. ASSUME NEW m \in MemberIds, ReadMemberToDelete(r, u, m)
        PROVE  TypeOK'
    <2>1. [op |-> "removeMember", member |-> m] \in Writes
      BY DEF Writes
    <2> QED
      BY <1>1, <1>7, <2>1 DEF ReadMemberToDelete, Quiet
  <1>8. ASSUME NEW g \in MeetingIds, NEW s \in Selections, Trigger(r, u, g, s)
        PROVE  TypeOK'
    <2>1. [op |-> "resolve", meeting |-> g] \in Writes
      BY DEF Writes
    <2>2. TeamEmails(s) \subseteq Emails
      BY DEF TeamEmails, RowsHaveEmails
    <2>3. req' \in [Requests -> Writes \cup {None}]
      BY <1>8, <2>1, RequestTypes DEF Trigger
    <2> QED
      BY <1>8, <2>2, <2>3 DEF Trigger, users, rows, links
  <1>9. ASSUME NEW c \in Companies, ReadToRegister(r, u, c)
        PROVE  TypeOK'
    <2> DEFINE w == [op |-> "register", email |-> u, company |-> c, found |-> c \in companies]
    <2>1. (c \in companies) \in BOOLEAN
      OBVIOUS
    <2>2. w \in Writes
      BY <2>1 DEF Writes
    <2>3. Handle(r, w) /\ Quiet
      BY <1>9 DEF ReadToRegister, Quiet
    <2> HIDE DEF w
    <2> QED
      BY <1>1, <2>2, <2>3
  <1> QED
    BY <1>2, <1>3, <1>4, <1>5, <1>6, <1>7, <1>8, <1>9

LEMMA CommitsType ==
  ASSUME TypeOK, RowsHaveEmails, NEW r \in Requests, Commits(r)
  PROVE  TypeOK'
  <1> USE DEF TypeOK
  <1>0. /\ req[r] # None => req[r] \in Writes
        /\ Answer(r) => req' \in [Requests -> Writes \cup {None}]
    BY RequestTypes
  <1>1. CASE AssignLeader(r)
    <2>1. /\ req[r].team \in TeamIds /\ req[r].email \in Emails
          /\ req[r].account \in {"create", "promote", "keep"}
      BY <1>0, <1>1, WriteKinds DEF AssignLeader
    <2>2. role' \in [Emails -> {"hr", "team_leader", "elsewhere", None}]
      BY <1>1, <2>1 DEF AssignLeader, NewRole
    <2>3. leader' \in [TeamIds -> Emails \cup {None}] /\ led' \subseteq Emails
      BY <1>1, <2>1 DEF AssignLeader
    <2> QED
      BY <1>0, <1>1, <2>2, <2>3 DEF AssignLeader, links, launches
  <1>2. CASE DeleteTeam(r)
    <2>1. /\ teams' \subseteq TeamIds
          /\ leader' \in [TeamIds -> Emails \cup {None}]
          /\ linked' \in [MeetingIds -> SUBSET TeamIds]
      BY <1>2 DEF DeleteTeam
    <2>2. PICK gone \in SUBSET MemberIds : RemoveMembers(gone)
      BY <1>2 DEF DeleteTeam
    <2> QED
      BY <1>0, <1>2, <2>1, <2>2, RemoveMembersType DEF DeleteTeam, users
  <1>3. CASE UpdateMember(r)
    <2>1. req[r].member \in MemberIds /\ req[r].email \in Emails
      BY <1>0, <1>3, WriteKinds DEF UpdateMember
    <2>2. /\ email' \in [MemberIds -> Emails \cup {None}]
          /\ touched' \in [MeetingIds -> SUBSET Emails]
      <3>1. CASE req[r].member \in Members
        <4>1. {email[req[r].member], req[r].email} \subseteq Emails
          BY <2>1, <3>1 DEF RowsHaveEmails
        <4> QED
          BY <1>3, <2>1, <3>1, <4>1, TouchType DEF UpdateMember
      <3>2. CASE req[r].member \notin Members
        BY <1>3, <3>2 DEF UpdateMember
      <3> QED
        BY <3>1, <3>2
    <2> QED
      BY <1>0, <1>3, <2>2 DEF UpdateMember, users, links
  <1>4. CASE DeleteMember(r)
    <2>1. req[r].member \in MemberIds
      BY <1>0, <1>4, WriteKinds DEF DeleteMember
    <2>2. RemoveMembers({req[r].member}) /\ {req[r].member} \in SUBSET MemberIds
      BY <1>4, <2>1 DEF DeleteMember
    <2> QED
      BY <1>0, <1>4, <2>2, RemoveMembersType DEF DeleteMember, users
  <1>5. CASE Launch(r)
    <2>1. req[r].meeting \in MeetingIds
      BY <1>0, <1>5, WriteKinds DEF Launch
    <2>2. /\ selected[req[r].meeting].teams \in SUBSET TeamIds
          /\ selected[req[r].meeting].members \in SUBSET MemberIds
      BY <2>1 DEF Selections
    <2>3. /\ meetings' \subseteq MeetingIds
          /\ linked' \in [MeetingIds -> SUBSET TeamIds]
          /\ invited' \in [MeetingIds -> SUBSET MemberIds]
      <3>1. CASE Linkable(selected[req[r].meeting])
        BY <1>5, <2>1, <2>2, <3>1 DEF Launch
      <3>2. CASE ~Linkable(selected[req[r].meeting])
        BY <1>5, <3>2 DEF Launch, links
      <3> QED
        BY <3>1, <3>2
    <2> QED
      BY <1>0, <1>5, <2>3 DEF Launch, users, rows, launches
  <1>6. ASSUME NEW m \in MemberIds, CreateMember(r, m)
        PROVE  TypeOK'
    <2>1. req[r].team \in TeamIds /\ req[r].email \in Emails
      BY <1>0, <1>6, WriteKinds DEF CreateMember
    <2>2. /\ used' \subseteq TeamIds \cup MemberIds \cup MeetingIds
          /\ place' \in [MemberIds -> TeamIds \cup {None}]
          /\ email' \in [MemberIds -> Emails \cup {None}]
      BY <1>6, <2>1 DEF CreateMember
    <2>3. touched' \in [MeetingIds -> SUBSET Emails]
      BY <1>6, <2>1, TouchType DEF CreateMember
    <2> QED
      BY <1>0, <1>6, <2>2, <2>3 DEF CreateMember, users, links
  <1>7. CASE Register(r)
    <2>1. req[r].email \in Emails /\ req[r].company \in Companies
      BY <1>0, <1>7, WriteKinds DEF Register
    <2>2. /\ companies' \subseteq Companies
          /\ role' \in [Emails -> {"hr", "team_leader", "elsewhere", None}]
      BY <1>7, <2>1 DEF Register, CompaniesAfter
    <2> QED
      BY <1>0, <1>7, <2>2 DEF Register, rows, links, launches
  <1>8. CASE ResolveDirect(r)
    <2>1. req[r].meeting \in MeetingIds
      BY <1>0, <1>8, WriteKinds DEF ResolveDirect
    <2>2. [op |-> "launch", meeting |-> req[r].meeting] \in Writes
      BY <2>1 DEF Writes
    <2>3. DirectEmails(selected[req[r].meeting]) \subseteq Emails
      BY DEF DirectEmails, RowsHaveEmails
    <2>4. /\ audience' \in [MeetingIds -> SUBSET Emails]
          /\ req' \in [Requests -> Writes \cup {None}]
      BY <1>8, <2>1, <2>2, <2>3 DEF ResolveDirect
    <2> QED
      BY <1>8, <2>4 DEF ResolveDirect, users, rows, links
  <1> QED
    BY <1>1, <1>2, <1>3, <1>4, <1>5, <1>6, <1>7, <1>8 DEF Commits
-----------------------------------------------------------------------------
(* Who answers has nothing pending, the others still have what they had.   *)
LEMMA AnswerLeavesOthers ==
  ASSUME TypeOK, NEW r \in Requests, Answer(r)
  PROVE  \A x \in Requests : req'[x] = IF x = r THEN None ELSE req[x]
  BY DEF TypeOK, Answer

(* Only the second query ends the time between the two. *)
LEMMA HalfKept ==
  ASSUME TypeOK, NEW r \in Requests, Answer(r), req[r] # None, req[r].op # "resolve"
  PROVE  \A g \in MeetingIds : HalfResolved(g) => HalfResolved(g)'
  BY AnswerLeavesOthers, NoneAssumption DEF HalfResolved

(* A member row that did not change keeps its email's answer. *)
LEMMA ResolveKept ==
  ASSUME TypeOK, ResolvedHolds, UNCHANGED <<selected, audience>>,
         \A g \in MeetingIds : touched[g] \subseteq touched'[g],
         \A g \in MeetingIds : HalfResolved(g) => HalfResolved(g)',
         \A m \in MemberIds : \A g \in MeetingIds :
           \/ place'[m] = place[m] /\ email'[m] = email[m]
           \/ /\ place[m] # None => email[m] \in touched'[g]
              /\ place'[m] # None => email'[m] \in touched'[g]
  PROVE  ResolvedHolds'
  <1> SUFFICES ASSUME NEW g \in MeetingIds, NEW e \in Emails \ touched'[g]
               PROVE  /\ e \in TeamEmails(selected[g])' => e \in audience[g]
                      /\ e \in audience[g] => \/ e \in TeamEmails(selected[g])'
                                              \/ e \in DirectEmails(selected[g])'
                      /\ ~HalfResolved(g)' =>
                           (e \in DirectEmails(selected[g])' => e \in audience[g])
    BY DEF ResolvedHolds
  <1>1. /\ e \in TeamEmails(selected[g]) => e \in audience[g]
        /\ e \in audience[g] =>
             e \in TeamEmails(selected[g]) \cup DirectEmails(selected[g])
        /\ ~HalfResolved(g) => (e \in DirectEmails(selected[g]) => e \in audience[g])
    BY DEF ResolvedHolds
  <1>2. \A m \in MemberIds : (m \in Members /\ email[m] = e) <=> (m \in Members' /\ email'[m] = e)
    BY DEF Members
  <1>3. \A m \in Members : email[m] = e => place'[m] = place[m]
    BY DEF Members
  <1>4. \A m \in Members' : email'[m] = e => place'[m] = place[m]
    BY DEF Members
  <1>5. Members \subseteq MemberIds /\ Members' \subseteq MemberIds
    BY DEF Members
  <1>6. e \in TeamEmails(selected[g])' <=> e \in TeamEmails(selected[g])
    BY <1>2, <1>3, <1>4, <1>5 DEF TeamEmails, Ours
  <1>7. e \in DirectEmails(selected[g])' <=> e \in DirectEmails(selected[g])
    BY <1>2, <1>3, <1>4, <1>5 DEF DirectEmails, Ours
  <1> QED
    BY <1>1, <1>6, <1>7

LEMMA ResolvedStays ==
  ASSUME WInv, NEW r \in Requests, Answer(r), req[r] # None, req[r].op # "resolve",
         UNCHANGED <<place, email, touched, selected, audience>>
  PROVE  ResolvedHolds'
  <1>1. TypeOK /\ ResolvedHolds
    BY DEF WInv
  <1>2. \A g \in MeetingIds : HalfResolved(g) => HalfResolved(g)'
    BY <1>1, HalfKept
  <1> QED
    BY <1>1, <1>2, ResolveKept

LEMMA InitInv == Init => WInv
  <1> SUFFICES ASSUME Init PROVE WInv
    OBVIOUS
  <1> USE DEF Init
  <1>1. Members = {}
    BY DEF Members
  <1>2. TypeOK
    <2>1. selected \in [MeetingIds -> Selections]
      BY DEF Selections
    <2> QED
      BY <2>1, FoundersAssumption DEF TypeOK, Companies
  <1>3. IdsAreUsed /\ LeadersHaveLed /\ AssignmentsHold /\ RowsHaveEmails
    BY <1>1 DEF IdsAreUsed, Triggered, LeadersHaveLed, AssignmentsHold, RowsHaveEmails
  <1>6. AccountsOf("ours") = Founders /\ AccountsOf("theirs") = {}
    BY NoneAssumption, FoundersAssumption DEF AccountsOf
  <1>7. NothingDangles /\ CompaniesHaveAccounts
    BY <1>1, <1>6 DEF NothingDangles, CompaniesHaveAccounts, Companies
  <1>4. NoAccountWithoutTeam /\ MeetingsKeepTheirSelection
    BY NoneAssumption DEF NoAccountWithoutTeam, MeetingsKeepTheirSelection
  <1>5. ResolvedHolds
    BY <1>1 DEF ResolvedHolds, TeamEmails, DirectEmails
  <1> QED
    BY <1>2, <1>3, <1>4, <1>5, <1>7 DEF WInv

(* A step that leaves all tables but req alone. *)
LEMMA QuietKeeps ==
  ASSUME WInv, Quiet, TypeOK',
         NEW r \in Requests, NEW w, Handle(r, w),
         w.op = "assign" =>
           /\ "ours" \in companies
           /\ w.account = "keep" => role[w.email] = "team_leader" /\ w.email \in led
           /\ w.account = "promote" => role[w.email] \in {"hr", "team_leader"}
           /\ w.was # None => w.was \in led,
         w.op \notin {"resolve", "launch"}
  PROVE  WInv'
  <1> USE DEF Quiet, users, rows, links, launches
  <1>0. /\ \A x \in Requests : req'[x] = IF x = r THEN w ELSE req[x]
        /\ Members' = Members
    BY DEF WInv, TypeOK, Handle, Members
  <1>1. IdsAreUsed'
    BY <1>0 DEF WInv, IdsAreUsed, Triggered
  <1>2. LeadersHaveLed' /\ RowsHaveEmails'
    BY <1>0 DEF WInv, LeadersHaveLed, RowsHaveEmails
  <1>3. AssignmentsHold'
    BY <1>0 DEF WInv, AssignmentsHold
  <1>4. ResolvedHolds'
    <2>1. \A g \in MeetingIds : HalfResolved(g) => HalfResolved(g)'
      BY <1>0 DEF Handle, HalfResolved
    <2> QED
      BY <2>1, ResolveKept DEF WInv
  <1>5. NothingDangles' /\ CompaniesHaveAccounts'
    BY <1>0 DEF WInv, NothingDangles, CompaniesHaveAccounts, AccountsOf
  <1>6. NoAccountWithoutTeam' /\ MeetingsKeepTheirSelection'
    BY <1>0 DEF WInv, NoAccountWithoutTeam, MeetingsKeepTheirSelection
  <1> QED
    BY <1>1, <1>2, <1>3, <1>4, <1>5, <1>6 DEF WInv

(* Who is HR belongs to our company, which is then there. *)
LEMMA OursIsThere == WInv => \A u \in Emails : IsHR(u) => "ours" \in companies
  BY DEF WInv, NothingDangles, AccountsOf, Companies, IsHR

LEMMA ReadsKeep ==
  ASSUME WInv, NEW r \in Requests, Reads(r)
  PROVE  WInv'
  <1>0. TypeOK /\ TypeOK'
    BY ReadsType DEF WInv
  <1> PICK u \in Emails : Reads(r)!(u)
    BY DEF Reads
  <1>1. ASSUME NEW t \in TeamIds, NEW m \in MemberIds, ReadMemberToLead(r, u, t, m)
        PROVE  WInv'
    <2> DEFINE w == [op |-> "assign", team |-> t, was |-> leader[t], email |-> email[m],
                     account |-> CASE role[email[m]] \in {None, "elsewhere"} -> "create"
                                   [] role[email[m]] = "hr" -> "promote"
                                   [] OTHER -> "keep"]
    <2>1. Handle(r, w) /\ Quiet
      BY <1>1 DEF ReadMemberToLead, Quiet
    <2>2. email[m] \in Emails
      BY <1>1 DEF WInv, RowsHaveEmails, ReadMemberToLead
    <2>3. /\ w.account = "keep" => role[w.email] = "team_leader" /\ w.email \in led
          /\ w.account = "promote" => role[w.email] \in {"hr", "team_leader"}
      BY <1>0, <2>2 DEF TypeOK, WInv, NoAccountWithoutTeam
    <2>6. "ours" \in companies
      BY <1>1, OursIsThere DEF ReadMemberToLead
    <2>4. w.was # None => w.was \in led
      BY DEF WInv, LeadersHaveLed
    <2>5. w.op \notin {"resolve", "launch"}
      OBVIOUS
    <2> HIDE DEF w
    <2> QED
      BY <1>0, <2>1, <2>3, <2>4, <2>5, <2>6, QuietKeeps
  <1>2. ASSUME NEW t \in TeamIds, NEW e \in Emails, ReadUserToLead(r, u, t, e)
        PROVE  WInv'
    <2> DEFINE w == [op |-> "assign", team |-> t, was |-> leader[t], email |-> e,
                     account |-> "keep"]
    <2>1. Handle(r, w) /\ Quiet
      BY <1>2 DEF ReadUserToLead, Quiet
    <2>2. /\ w.account = "keep" /\ "ours" \in companies
          /\ role[w.email] = "team_leader" /\ w.email \in led
      BY <1>2, OursIsThere DEF ReadUserToLead, MayLead, WInv, NoAccountWithoutTeam
    <2>3. w.was # None => w.was \in led
      BY DEF WInv, LeadersHaveLed
    <2>4. w.op \notin {"resolve", "launch"}
      OBVIOUS
    <2> HIDE DEF w
    <2> QED
      BY <1>0, <2>1, <2>2, <2>3, <2>4, QuietKeeps
  <1>3. ASSUME NEW w, w.op \in {"register", "removeTeam", "addMember", "editMember", "removeMember"},
               Handle(r, w), Quiet
        PROVE  WInv'
    BY <1>0, <1>3, QuietKeeps
  <1>4. ASSUME NEW g \in MeetingIds, NEW s \in Selections, Trigger(r, u, g, s)
        PROVE  WInv'
    <2> USE <1>4, <1>0 DEF Trigger, users, rows, links
    <2>0. /\ \A x \in Requests : req'[x] = IF x = r THEN [op |-> "resolve", meeting |-> g]
                                           ELSE req[x]
          /\ Members' = Members /\ g \notin meetings /\ req[r] = None
      BY DEF WInv, TypeOK, Handle, Members, IdsAreUsed
    <2>1. IdsAreUsed'
      BY <2>0 DEF WInv, IdsAreUsed, Triggered, TypeOK
    <2>2. LeadersHaveLed' /\ RowsHaveEmails' /\ AssignmentsHold'
      BY <2>0 DEF WInv, LeadersHaveLed, RowsHaveEmails, AssignmentsHold
    <2>3. ResolvedHolds'
      <3>1. [op |-> "resolve", meeting |-> g] # None
        BY NoWriteAssumption DEF Writes
      <3>2. /\ \A x \in MeetingIds : HalfResolved(x) \/ x = g => HalfResolved(x)'
            /\ \A x \in MeetingIds \ {g} : /\ selected'[x] = selected[x]
                                           /\ audience'[x] = audience[x]
                                           /\ touched'[x] = touched[x]
            /\ selected'[g] = s /\ audience'[g] = TeamEmails(s)
        BY <2>0, <3>1 DEF HalfResolved, TypeOK
      <3>3. \A x : TeamEmails(x)' = TeamEmails(x) /\ DirectEmails(x)' = DirectEmails(x)
        BY <2>0 DEF TeamEmails, DirectEmails, Ours
      <3> QED
        BY <3>2, <3>3 DEF WInv, ResolvedHolds
    <2>4. NothingDangles' /\ CompaniesHaveAccounts'
      BY <2>0 DEF WInv, NothingDangles, CompaniesHaveAccounts, AccountsOf, TypeOK
    <2>5. NoAccountWithoutTeam' /\ MeetingsKeepTheirSelection'
      BY <2>0 DEF WInv, NoAccountWithoutTeam, MeetingsKeepTheirSelection, TypeOK
    <2> QED
      BY <2>1, <2>2, <2>3, <2>4, <2>5 DEF WInv
  <1>5. ASSUME NEW t \in TeamIds, ReadTeamToDelete(r, u, t)
        PROVE  WInv'
    BY <1>3, <1>5 DEF ReadTeamToDelete, Quiet
  <1>6. ASSUME NEW t \in TeamIds, NEW e \in Emails, ReadTeamToJoin(r, u, t, e)
        PROVE  WInv'
    BY <1>3, <1>6 DEF ReadTeamToJoin, Quiet
  <1>7. ASSUME NEW m \in MemberIds, NEW e \in Emails, ReadMemberToUpdate(r, u, m, e)
        PROVE  WInv'
    BY <1>3, <1>7 DEF ReadMemberToUpdate, Quiet
  <1>8. ASSUME NEW m \in MemberIds, ReadMemberToDelete(r, u, m)
        PROVE  WInv'
    BY <1>3, <1>8 DEF ReadMemberToDelete, Quiet
  <1>9. ASSUME NEW c \in Companies, ReadToRegister(r, u, c)
        PROVE  WInv'
    BY <1>3, <1>9 DEF ReadToRegister, Quiet
  <1> QED
    BY <1>1, <1>2, <1>4, <1>5, <1>6, <1>7, <1>8, <1>9

-----------------------------------------------------------------------------
(* The transactions. *)

LEMMA AssignLeaderKeeps ==
  ASSUME WInv, NEW r \in Requests, AssignLeader(r)
  PROVE  WInv'
  <1> DEFINE w == req[r]
  <1>0. /\ TypeOK /\ TypeOK'
        /\ \A x \in Requests : req'[x] = IF x = r THEN None ELSE req[x]
        /\ Members' = Members
    BY CommitsType, AnswerLeavesOthers DEF WInv, Commits, AssignLeader, Members
  <1>1. /\ w \in Writes /\ w.op = "assign"
        /\ w.team \in TeamIds /\ w.email \in Emails /\ w.was \in Emails \cup {None}
        /\ w.account \in {"create", "promote", "keep"}
    <2>1. w \in Writes /\ w.op = "assign"
      BY <1>0 DEF TypeOK, AssignLeader
    <2> QED
      BY <2>1, WriteKinds
  <1>2. /\ "ours" \in companies
        /\ w.account = "keep" => role[w.email] = "team_leader" /\ w.email \in led
        /\ w.account = "promote" => role[w.email] \in {"hr", "team_leader"}
        /\ w.was # None => w.was \in led
    BY <1>1 DEF WInv, AssignmentsHold, AssignLeader
  <1>a. /\ role' = [role EXCEPT ![w.email] = NewRole(w)]
        /\ leader' = IF Assignable(w) /\ w.email # w.was
                     THEN [leader EXCEPT ![w.team] = w.email] ELSE leader
        /\ led' = IF Assignable(w) /\ w.email # w.was THEN led \cup {w.email} ELSE led
    BY DEF AssignLeader
  <1>b. /\ role \in [Emails -> {"hr", "team_leader", "elsewhere", None}]
        /\ leader \in [TeamIds -> Emails \cup {None}]
    BY <1>0 DEF TypeOK
  <1> HIDE DEF w
  <1>c. /\ NewRole(w) \in {role[w.email], "team_leader"}
        /\ NewRole(w) # role[w.email] => Assignable(w)
        /\ Assignable(w) => NewRole(w) = "team_leader"
        /\ NewRole(w) # role[w.email] => role[w.email] \in {"hr", None}
    BY <1>1, <1>2 DEF NewRole, Assignable
  <1>3. /\ \A e \in Emails : role'[e] \in {role[e], "team_leader"}
        /\ \A e \in Emails : role'[e] # role[e] => /\ e = w.email /\ Assignable(w)
                                                  /\ role[e] \in {"hr", None}
        /\ Assignable(w) => role'[w.email] = "team_leader" /\ w.email \in led'
        /\ led \subseteq led'
    <2>1. \A e \in Emails : role'[e] = IF e = w.email THEN NewRole(w) ELSE role[e]
      BY <1>1, <1>a, <1>b
    <2>2. /\ Assignable(w) => w.email \in led'
          /\ led \subseteq led'
      BY <1>1, <1>2, <1>a, NoneAssumption
    <2> QED
      BY <1>1, <1>c, <2>1, <2>2
  <1>4. \A t \in TeamIds : \/ leader'[t] = leader[t]
                           \/ t = w.team /\ leader'[t] = w.email /\ Assignable(w)
    BY <1>1, <1>a, <1>b
  <1>5. UNCHANGED <<companies, teams, place, email, used, links, launches>>
    BY DEF AssignLeader
  <1>6. NoAccountWithoutTeam'
    BY <1>3 DEF WInv, NoAccountWithoutTeam
  <1>7. LeadersHaveLed'
    <2> SUFFICES ASSUME NEW t \in TeamIds, leader'[t] # None
                 PROVE  role'[leader'[t]] = "team_leader" /\ leader'[t] \in led'
      BY DEF LeadersHaveLed
    <2>1. CASE leader'[t] = leader[t]
      <3>1. leader[t] \in Emails
        BY <1>0, <2>1 DEF TypeOK
      <3> QED
        BY <1>3, <2>1, <3>1 DEF WInv, LeadersHaveLed
    <2>2. CASE leader'[t] = w.email /\ Assignable(w)
      BY <1>3, <2>2
    <2> QED
      BY <1>4, <2>1, <2>2
  <1>8. AssignmentsHold'
    <2> SUFFICES ASSUME NEW x \in Requests, req[x] # None, req[x].op = "assign"
                 PROVE  /\ req[x].account = "keep" => /\ role'[req[x].email] = "team_leader"
                                                      /\ req[x].email \in led'
                        /\ req[x].account = "promote" =>
                             role'[req[x].email] \in {"hr", "team_leader"}
                        /\ req[x].was # None => req[x].was \in led'
      BY <1>0, <1>2, <1>5 DEF AssignmentsHold
    <2>1. req[x].email \in Emails
      BY <1>0, WriteKinds DEF TypeOK
    <2> QED
      BY <1>3, <2>1 DEF WInv, AssignmentsHold
  <1>9. IdsAreUsed' /\ RowsHaveEmails' /\ ResolvedHolds'
    <2>1. ResolvedHolds'
      BY <1>5, ResolvedStays DEF AssignLeader, launches
    <2> QED
      BY <1>0, <1>5, <2>1 DEF WInv, IdsAreUsed, Triggered, RowsHaveEmails, links, launches
  <1>12. /\ AccountsOf("ours") \subseteq AccountsOf("ours")'
         /\ AccountsOf("theirs")' = AccountsOf("theirs")
    BY <1>b, <1>3, NoneAssumption DEF AccountsOf
  <1>13. CompaniesHaveAccounts'
    BY <1>0, <1>5, <1>12 DEF WInv, CompaniesHaveAccounts, TypeOK, Companies
  <1>10. NothingDangles'
    <2>1. \A t \in teams' : leader'[t] # None => role'[leader'[t]] = "team_leader"
      BY <1>0, <1>5, <1>7 DEF LeadersHaveLed, TypeOK
    <2>2. \A c \in Companies : AccountsOf(c)' # {} => c \in companies'
      BY <1>2, <1>5, <1>12 DEF WInv, NothingDangles, Companies
    <2> QED
      BY <1>0, <1>5, <2>1, <2>2 DEF WInv, NothingDangles, links
  <1>11. MeetingsKeepTheirSelection'
    BY <1>0, <1>5 DEF WInv, MeetingsKeepTheirSelection, links, launches
  <1> QED
    BY <1>0, <1>6, <1>7, <1>8, <1>9, <1>10, <1>11, <1>13 DEF WInv

(* Accounts and what pending assignments know of them are untouched. *)
LEMMA AccountsKept ==
  ASSUME WInv, NEW r \in Requests, Answer(r), UNCHANGED users,
         \A t \in TeamIds : leader'[t] \in {leader[t], None}
  PROVE  /\ LeadersHaveLed' /\ AssignmentsHold' /\ NoAccountWithoutTeam'
         /\ CompaniesHaveAccounts'
         /\ \A c \in Companies : AccountsOf(c)' # {} => c \in companies'
         /\ \A t \in TeamIds : leader'[t] # None => role'[leader'[t]] = "team_leader"
  <1>1. \A x \in Requests : req'[x] = IF x = r THEN None ELSE req[x]
    BY AnswerLeavesOthers DEF WInv
  <1>2. LeadersHaveLed' /\ AssignmentsHold' /\ NoAccountWithoutTeam'
    BY <1>1 DEF WInv, users, LeadersHaveLed, AssignmentsHold, NoAccountWithoutTeam
  <1>3. /\ CompaniesHaveAccounts'
        /\ \A c \in Companies : AccountsOf(c)' # {} => c \in companies'
    BY DEF WInv, users, CompaniesHaveAccounts, NothingDangles, AccountsOf
  <1> QED
    BY <1>2, <1>3 DEF LeadersHaveLed

LEMMA CreateMemberKeeps ==
  ASSUME WInv, NEW r \in Requests, NEW m \in MemberIds, CreateMember(r, m)
  PROVE  WInv'
  <1> DEFINE t == req[r].team
             e == req[r].email
  <1>0. /\ TypeOK /\ TypeOK'
        /\ \A x \in Requests : req'[x] = IF x = r THEN None ELSE req[x]
        /\ t \in TeamIds /\ e \in Emails
    BY CommitsType, AnswerLeavesOthers, WriteKinds DEF WInv, Commits, CreateMember, TypeOK
  <1>1. /\ LeadersHaveLed' /\ AssignmentsHold' /\ NoAccountWithoutTeam'
        /\ CompaniesHaveAccounts'
        /\ \A c \in Companies : AccountsOf(c)' # {} => c \in companies'
        /\ \A x \in TeamIds : leader'[x] # None => role'[leader'[x]] = "team_leader"
    BY AccountsKept DEF CreateMember, users
  <1>2. CASE Joinable(t)
    <2> USE <1>2
    <2>1. /\ place' = [place EXCEPT ![m] = t] /\ email' = [email EXCEPT ![m] = e]
          /\ used' = used \cup {m} /\ Touch({e}) /\ t \in teams
          /\ UNCHANGED <<users, teams, leader, links, selected, audience>>
      BY DEF CreateMember, Joinable
    <2>2. m \notin Members
      BY DEF WInv, IdsAreUsed, CreateMember
    <2>3. Members' = Members \cup {m}
      BY <1>0, <2>1, NoneAssumption DEF Members, TypeOK
    <2>4. IdsAreUsed' /\ RowsHaveEmails'
      BY <1>0, <2>1, <2>3 DEF WInv, IdsAreUsed, Triggered, RowsHaveEmails, TypeOK, links
    <2>5. ResolvedHolds'
      <3>1. \A g \in MeetingIds : touched[g] \subseteq touched'[g] /\ e \in touched'[g]
        BY <2>1 DEF Touch
      <3>2. \A x \in MemberIds : x # m => place'[x] = place[x] /\ email'[x] = email[x]
        BY <1>0, <2>1 DEF TypeOK
      <3>3. place[m] = None /\ email'[m] = e
        BY <1>0, <2>1, <2>2 DEF TypeOK, Members
      <3>4. \A g \in MeetingIds : HalfResolved(g) => HalfResolved(g)'
        BY <1>0, HalfKept DEF CreateMember
      <3> QED
        BY <1>0, <2>1, <3>1, <3>2, <3>3, <3>4, ResolveKept DEF WInv
    <2>6. NothingDangles'
      BY <1>0, <1>1, <2>1, <2>2, <2>3 DEF WInv, NothingDangles, TypeOK, links
    <2>7. MeetingsKeepTheirSelection'
      <3>1. \A g \in meetings : m \notin selected[g].members
        BY DEF WInv, IdsAreUsed, CreateMember
      <3> QED
        BY <2>1, <2>3, <3>1 DEF WInv, MeetingsKeepTheirSelection, links
    <2> QED
      BY <1>0, <1>1, <2>4, <2>5, <2>6, <2>7 DEF WInv
  <1>3. CASE ~Joinable(t)
    <2>1. UNCHANGED <<used, place, email, touched, users, teams, leader, links, selected, audience>>
          /\ Members' = Members
      BY <1>3 DEF CreateMember, Members
    <2>4. ResolvedHolds'
      BY <2>1, ResolvedStays DEF CreateMember
    <2>2. IdsAreUsed' /\ RowsHaveEmails' /\ MeetingsKeepTheirSelection'
      BY <1>0, <2>1 DEF WInv, IdsAreUsed, Triggered, RowsHaveEmails,
                        MeetingsKeepTheirSelection, users, links
    <2>3. NothingDangles'
      BY <1>0, <1>1, <2>1 DEF WInv, NothingDangles, TypeOK, links
    <2> QED
      BY <1>0, <1>1, <2>2, <2>3, <2>4 DEF WInv
  <1> QED
    BY <1>2, <1>3

LEMMA UpdateMemberKeeps ==
  ASSUME WInv, NEW r \in Requests, UpdateMember(r)
  PROVE  WInv'
  <1> DEFINE m == req[r].member
             e == req[r].email
  <1>0. /\ TypeOK /\ TypeOK'
        /\ \A x \in Requests : req'[x] = IF x = r THEN None ELSE req[x]
        /\ m \in MemberIds /\ e \in Emails
        /\ Members' = Members
    BY CommitsType, AnswerLeavesOthers, WriteKinds
       DEF WInv, Commits, UpdateMember, TypeOK, Members
  <1>1. /\ LeadersHaveLed' /\ AssignmentsHold' /\ NoAccountWithoutTeam'
        /\ CompaniesHaveAccounts'
        /\ \A c \in Companies : AccountsOf(c)' # {} => c \in companies'
        /\ \A x \in TeamIds : leader'[x] # None => role'[leader'[x]] = "team_leader"
    BY AccountsKept DEF UpdateMember, users
  <1>2. UNCHANGED <<users, teams, leader, place, used, links, selected, audience>>
    BY DEF UpdateMember
  <1>3. IdsAreUsed' /\ MeetingsKeepTheirSelection'
    BY <1>0, <1>2 DEF WInv, IdsAreUsed, Triggered, MeetingsKeepTheirSelection, links
  <1>5. NothingDangles'
    BY <1>0, <1>1, <1>2 DEF WInv, NothingDangles, TypeOK, links
  <1>4. RowsHaveEmails' /\ ResolvedHolds'
    <2>1. CASE m \in Members
      <3>1. email' = [email EXCEPT ![m] = e] /\ Touch({email[m], e})
        BY <2>1 DEF UpdateMember
      <3>2. RowsHaveEmails'
        BY <1>0, <3>1 DEF WInv, RowsHaveEmails, TypeOK
      <3>3. \A g \in MeetingIds : /\ touched[g] \subseteq touched'[g]
                                  /\ e \in touched'[g] /\ email[m] \in touched'[g]
        BY <3>1 DEF Touch
      <3>4. /\ \A x \in MemberIds : x # m => email'[x] = email[x]
            /\ email'[m] = e
        BY <1>0, <3>1 DEF TypeOK
      <3>5. \A g \in MeetingIds : HalfResolved(g) => HalfResolved(g)'
        BY <1>0, HalfKept DEF UpdateMember
      <3> QED
        BY <1>0, <1>2, <3>2, <3>3, <3>4, <3>5, ResolveKept DEF WInv
    <2>2. CASE m \notin Members
      <3>1. UNCHANGED <<place, email, touched, selected, audience>>
        BY <1>2, <2>2 DEF UpdateMember
      <3>2. ResolvedHolds'
        BY <3>1, ResolvedStays DEF UpdateMember
      <3> QED
        BY <1>0, <3>1, <3>2 DEF WInv, RowsHaveEmails
    <2> QED
      BY <2>1, <2>2
  <1> QED
    BY <1>0, <1>1, <1>3, <1>4, <1>5 DEF WInv

(* Member rows that go take their emails out of every open answer. *)
LEMMA RemovalKeepsResolved ==
  ASSUME WInv, NEW gone \in SUBSET MemberIds, RemoveMembers(gone),
         UNCHANGED <<selected, audience>>,
         \A g \in MeetingIds : HalfResolved(g) => HalfResolved(g)'
  PROVE  /\ Members' = Members \ gone
         /\ \A m \in Members' : email'[m] = email[m] /\ place'[m] = place[m]
         /\ \A g \in MeetingIds : invited'[g] = invited[g] \ gone
         /\ RowsHaveEmails' /\ ResolvedHolds'
  <1>0. TypeOK /\ RowsHaveEmails /\ ResolvedHolds
    BY DEF WInv
  <1>1. Members' = Members \ gone
    BY <1>0, RemoveMembersType
  <1>2. \A m \in MemberIds : /\ m \notin gone => place'[m] = place[m] /\ email'[m] = email[m]
                             /\ m \in gone => place'[m] = None
    BY DEF RemoveMembers
  <1>3. /\ \A g \in MeetingIds : touched[g] \subseteq touched'[g]
        /\ \A g \in MeetingIds : \A m \in gone \cap Members : email[m] \in touched'[g]
    BY DEF RemoveMembers, Touch
  <1>4. ResolvedHolds'
    BY <1>0, <1>2, <1>3, ResolveKept DEF Members
  <1>5. RowsHaveEmails'
    BY <1>0, <1>1, <1>2 DEF RowsHaveEmails, Members
  <1> QED
    BY <1>1, <1>2, <1>4, <1>5 DEF RemoveMembers, InvitedAfter, Members

LEMMA DeleteMemberKeeps ==
  ASSUME WInv, NEW r \in Requests, DeleteMember(r)
  PROVE  WInv'
  <1> DEFINE gone == {req[r].member}
  <1>0. /\ TypeOK /\ TypeOK'
        /\ \A x \in Requests : req'[x] = IF x = r THEN None ELSE req[x]
        /\ gone \in SUBSET MemberIds
    <2>1. TypeOK /\ RowsHaveEmails /\ Commits(r)
      BY DEF WInv, Commits
    <2>2. TypeOK'
      BY <2>1, CommitsType
    <2>3. \A x \in Requests : req'[x] = IF x = r THEN None ELSE req[x]
      BY <2>1, AnswerLeavesOthers DEF DeleteMember
    <2>4. req[r] # None => req[r] \in Writes
      BY <2>1 DEF TypeOK
    <2>5. req[r].member \in MemberIds
      BY <2>4, WriteKinds DEF DeleteMember
    <2> QED
      BY <2>1, <2>2, <2>3, <2>5
  <1>1. /\ LeadersHaveLed' /\ AssignmentsHold' /\ NoAccountWithoutTeam'
        /\ CompaniesHaveAccounts'
        /\ \A c \in Companies : AccountsOf(c)' # {} => c \in companies'
        /\ \A x \in TeamIds : leader'[x] # None => role'[leader'[x]] = "team_leader"
    BY AccountsKept DEF DeleteMember, users
  <1>2. /\ RemoveMembers(gone)
        /\ UNCHANGED <<users, teams, leader, used, meetings, linked, selected, audience>>
    BY DEF DeleteMember
  <1>7. \A g \in MeetingIds : HalfResolved(g) => HalfResolved(g)'
    BY <1>0, HalfKept DEF DeleteMember
  <1> HIDE DEF gone
  <1>3. /\ Members' = Members \ gone
        /\ \A m \in Members' : email'[m] = email[m] /\ place'[m] = place[m]
        /\ \A g \in MeetingIds : invited'[g] = invited[g] \ gone
        /\ RowsHaveEmails' /\ ResolvedHolds'
    BY <1>0, <1>2, <1>7, RemovalKeepsResolved
  <1>4. IdsAreUsed'
    BY <1>0, <1>2, <1>3 DEF WInv, IdsAreUsed, Triggered
  <1>5. NothingDangles'
    BY <1>0, <1>1, <1>2, <1>3 DEF WInv, NothingDangles, TypeOK
  <1>6. MeetingsKeepTheirSelection'
    BY <1>0, <1>2, <1>3 DEF WInv, MeetingsKeepTheirSelection, TypeOK
  <1> QED
    BY <1>0, <1>1, <1>3, <1>4, <1>5, <1>6 DEF WInv

LEMMA DeleteTeamKeeps ==
  ASSUME WInv, NEW r \in Requests, DeleteTeam(r)
  PROVE  WInv'
  <1> DEFINE t == req[r].team
             gone == {m \in MemberIds : place[m] = t}
  <1>0. /\ TypeOK /\ TypeOK'
        /\ \A x \in Requests : req'[x] = IF x = r THEN None ELSE req[x]
        /\ t \in TeamIds
    <2>1. TypeOK /\ RowsHaveEmails /\ Commits(r)
      BY DEF WInv, Commits
    <2>2. TypeOK'
      BY <2>1, CommitsType
    <2>3. \A x \in Requests : req'[x] = IF x = r THEN None ELSE req[x]
      BY <2>1, AnswerLeavesOthers DEF DeleteTeam
    <2>4. req[r] # None => req[r] \in Writes
      BY <2>1 DEF TypeOK
    <2>5. req[r].team \in TeamIds
      BY <2>4, WriteKinds DEF DeleteTeam
    <2> QED
      BY <2>1, <2>2, <2>3, <2>5
  <1>1. /\ RemoveMembers(gone)
        /\ teams' = teams \ {t}
        /\ leader' = [leader EXCEPT ![t] = None]
        /\ linked' = [g \in MeetingIds |-> linked[g] \ {t}]
        /\ UNCHANGED <<users, used, meetings, selected, audience>>
    BY DEF DeleteTeam
  <1>2. \A x \in TeamIds : leader'[x] = IF x = t THEN None ELSE leader[x]
    BY <1>0, <1>1 DEF TypeOK
  <1>3. /\ LeadersHaveLed' /\ AssignmentsHold' /\ NoAccountWithoutTeam'
        /\ CompaniesHaveAccounts'
        /\ \A c \in Companies : AccountsOf(c)' # {} => c \in companies'
        /\ \A x \in TeamIds : leader'[x] # None => role'[leader'[x]] = "team_leader"
    BY <1>1, <1>2, AccountsKept DEF DeleteTeam
  <1>4. \A m \in Members : m \notin gone => place[m] # t
    BY DEF Members
  <1>5. gone \in SUBSET MemberIds
    OBVIOUS
  <1>10. \A g \in MeetingIds : HalfResolved(g) => HalfResolved(g)'
    BY <1>0, HalfKept DEF DeleteTeam
  <1> HIDE DEF gone, t
  <1>6. /\ Members' = Members \ gone
        /\ \A m \in Members' : email'[m] = email[m] /\ place'[m] = place[m]
        /\ \A g \in MeetingIds : invited'[g] = invited[g] \ gone
        /\ RowsHaveEmails' /\ ResolvedHolds'
    BY <1>1, <1>5, <1>10, RemovalKeepsResolved
  <1>7. IdsAreUsed'
    BY <1>0, <1>1, <1>6 DEF WInv, IdsAreUsed, Triggered
  <1>8. NothingDangles'
    BY <1>0, <1>1, <1>2, <1>3, <1>4, <1>6 DEF WInv, NothingDangles, TypeOK
  <1>9. MeetingsKeepTheirSelection'
    BY <1>0, <1>1, <1>6 DEF WInv, MeetingsKeepTheirSelection, TypeOK
  <1> QED
    BY <1>0, <1>3, <1>6, <1>7, <1>8, <1>9 DEF WInv

(* The second query completes the answer. *)
LEMMA ResolveDirectKeeps ==
  ASSUME WInv, NEW r \in Requests, ResolveDirect(r)
  PROVE  WInv'
  <1> DEFINE g == req[r].meeting
             w == [op |-> "launch", meeting |-> g]
  <1>0. /\ TypeOK /\ TypeOK'
        /\ g \in MeetingIds
        /\ Members' = Members
    BY CommitsType, WriteKinds DEF WInv, Commits, ResolveDirect, TypeOK, rows, Members
  <1>1. /\ UNCHANGED <<users, rows, used, links, selected, touched>>
        /\ \A x \in Requests : req'[x] = IF x = r THEN w ELSE req[x]
        /\ \A x \in MeetingIds : audience'[x] = IF x = g
             THEN audience[x] \cup DirectEmails(selected[g]) ELSE audience[x]
        /\ Triggered(r)
    BY <1>0 DEF ResolveDirect, Triggered, TypeOK
  <1>2. w.op = "launch" /\ w.meeting = g
    OBVIOUS
  <1> HIDE DEF g, w
  <1> USE DEF users, rows, links
  <1>3. IdsAreUsed'
    BY <1>0, <1>1, <1>2 DEF WInv, IdsAreUsed, Triggered, g
  <1>4. LeadersHaveLed' /\ RowsHaveEmails' /\ AssignmentsHold'
    BY <1>0, <1>1, <1>2 DEF WInv, LeadersHaveLed, RowsHaveEmails, AssignmentsHold
  <1>5. ResolvedHolds'
    <2>1. \A x : TeamEmails(x)' = TeamEmails(x) /\ DirectEmails(x)' = DirectEmails(x)
      BY <1>0, <1>1 DEF TeamEmails, DirectEmails, Ours
    <2>2. \A x \in MeetingIds \ {g} : HalfResolved(x) => HalfResolved(x)'
      BY <1>1 DEF HalfResolved, g
    <2> QED
      BY <1>0, <1>1, <2>1, <2>2 DEF WInv, ResolvedHolds
  <1>6. NothingDangles' /\ CompaniesHaveAccounts'
    BY <1>0, <1>1 DEF WInv, NothingDangles, CompaniesHaveAccounts, AccountsOf, TypeOK
  <1>7. NoAccountWithoutTeam' /\ MeetingsKeepTheirSelection'
    BY <1>0, <1>1 DEF WInv, NoAccountWithoutTeam, MeetingsKeepTheirSelection, TypeOK
  <1> QED
    BY <1>0, <1>3, <1>4, <1>5, <1>6, <1>7 DEF WInv

LEMMA LaunchKeeps ==
  ASSUME WInv, NEW r \in Requests, Launch(r)
  PROVE  WInv'
  <1> DEFINE g == req[r].meeting
             s == selected[g]
  <1>0. /\ TypeOK /\ TypeOK'
        /\ \A x \in Requests : req'[x] = IF x = r THEN None ELSE req[x]
        /\ g \in MeetingIds /\ g \in used
        /\ Members' = Members
    BY CommitsType, AnswerLeavesOthers, WriteKinds
       DEF WInv, Commits, Launch, TypeOK, IdsAreUsed, Triggered, rows, Members
  <1>1. UNCHANGED <<users, rows, used, launches>>
    BY DEF Launch
  <1>2. /\ LeadersHaveLed' /\ AssignmentsHold' /\ NoAccountWithoutTeam'
        /\ CompaniesHaveAccounts'
        /\ \A c \in Companies : AccountsOf(c)' # {} => c \in companies'
        /\ \A x \in TeamIds : leader'[x] # None => role'[leader'[x]] = "team_leader"
    BY <1>1, AccountsKept DEF Launch, rows
  <1>3. RowsHaveEmails' /\ ResolvedHolds'
    <2>1. ResolvedHolds'
      BY <1>1, ResolvedStays DEF Launch, rows, launches
    <2> QED
      BY <1>0, <1>1, <2>1 DEF WInv, RowsHaveEmails, rows
  <1>4. CASE Linkable(s)
    <2>1. /\ meetings' = meetings \cup {g}
          /\ linked' = [linked EXCEPT ![g] = s.teams]
          /\ invited' = [invited EXCEPT ![g] = s.members]
          /\ s.teams \subseteq teams /\ s.members \subseteq Members
      BY <1>4 DEF Launch, Linkable
    <2>2. \A x \in MeetingIds : /\ linked'[x] = IF x = g THEN s.teams ELSE linked[x]
                                /\ invited'[x] = IF x = g THEN s.members ELSE invited[x]
      BY <1>0, <2>1 DEF TypeOK
    <2>3. IdsAreUsed'
      BY <1>0, <1>1, <2>1 DEF WInv, IdsAreUsed, Triggered, Launch, rows, launches
    <2>4. NothingDangles'
      BY <1>0, <1>1, <1>2, <2>1, <2>2 DEF WInv, NothingDangles, TypeOK, rows
    <2>5. MeetingsKeepTheirSelection'
      BY <1>0, <1>1, <2>1, <2>2 DEF WInv, MeetingsKeepTheirSelection, rows, launches, TypeOK
    <2> QED
      BY <1>0, <1>2, <1>3, <2>3, <2>4, <2>5 DEF WInv
  <1>5. CASE ~Linkable(s)
    <2>1. UNCHANGED links
      BY <1>5 DEF Launch
    <2>2. IdsAreUsed' /\ MeetingsKeepTheirSelection'
      BY <1>0, <1>1, <2>1 DEF WInv, IdsAreUsed, Triggered, MeetingsKeepTheirSelection,
                              rows, links, launches
    <2>3. NothingDangles'
      BY <1>0, <1>1, <1>2, <2>1 DEF WInv, NothingDangles, TypeOK, rows, links
    <2> QED
      BY <1>0, <1>2, <1>3, <2>2, <2>3 DEF WInv
  <1> QED
    BY <1>4, <1>5

LEMMA RegisterKeeps ==
  ASSUME WInv, NEW r \in Requests, Register(r)
  PROVE  WInv'
  <1> DEFINE w == req[r]
  <1>0. /\ TypeOK /\ TypeOK'
        /\ \A x \in Requests : req'[x] = IF x = r THEN None ELSE req[x]
        /\ w.email \in Emails /\ w.company \in Companies
        /\ Members' = Members
    BY CommitsType, AnswerLeavesOthers, WriteKinds
       DEF WInv, Commits, Register, TypeOK, rows, Members
  <1>1. UNCHANGED <<led, rows, used, links, launches>>
    BY DEF Register
  <1>2. IdsAreUsed' /\ RowsHaveEmails' /\ ResolvedHolds' /\ MeetingsKeepTheirSelection'
    <2>1. ResolvedHolds'
      BY <1>1, ResolvedStays DEF Register, rows, launches
    <2> QED
      BY <1>0, <1>1, <2>1 DEF WInv, IdsAreUsed, Triggered, RowsHaveEmails,
                              MeetingsKeepTheirSelection, rows, links, launches
  <1>3. /\ \A e \in Emails : role'[e] # role[e] => role[e] = None /\ role'[e] # "team_leader"
        /\ companies \subseteq companies'
    BY <1>0 DEF Register, Registrable, CompaniesAfter, TypeOK
  <1>4. LeadersHaveLed'
    <2>1. \A t \in TeamIds : leader[t] # None => leader[t] \in Emails
      BY <1>0 DEF TypeOK
    <2> QED
      BY <1>1, <1>3, <2>1, NoneAssumption DEF WInv, LeadersHaveLed, rows
  <1>5. AssignmentsHold'
    <2>1. \A x \in Requests : req[x] # None /\ req[x].op = "assign" => req[x].email \in Emails
      BY <1>0, WriteKinds DEF TypeOK
    <2> QED
      BY <1>0, <1>1, <1>3, <2>1, NoneAssumption DEF WInv, AssignmentsHold
  <1>6. NoAccountWithoutTeam'
    BY <1>1, <1>3 DEF WInv, NoAccountWithoutTeam
  <1>7. /\ CompaniesHaveAccounts'
        /\ \A c \in Companies : AccountsOf(c)' # {} => c \in companies'
    <2>1. CASE Registrable(w)
      <3>1. /\ companies' = companies \cup {w.company}
            /\ role' = [role EXCEPT ![w.email] = IF w.company = "ours" THEN "hr"
                                                                       ELSE "elsewhere"]
        BY <2>1 DEF Register, CompaniesAfter
      <3>2. \A c \in Companies : AccountsOf(c)' = IF c = w.company
                                                  THEN AccountsOf(c) \cup {w.email}
                                                  ELSE AccountsOf(c)
        BY <1>0, <2>1, <3>1, NoneAssumption DEF AccountsOf, Registrable, TypeOK, Companies
      <3> QED
        BY <1>0, <3>1, <3>2 DEF WInv, CompaniesHaveAccounts, NothingDangles, TypeOK
    <2>2. CASE ~Registrable(w)
      <3>1. companies' = companies /\ role' = role
        BY <2>2 DEF Register, CompaniesAfter
      <3> QED
        BY <3>1 DEF WInv, CompaniesHaveAccounts, NothingDangles, AccountsOf
    <2> QED
      BY <2>1, <2>2
  <1>8. NothingDangles'
    BY <1>0, <1>1, <1>4, <1>7 DEF WInv, TypeOK, NothingDangles, LeadersHaveLed, rows, links
  <1> QED
    BY <1>0, <1>2, <1>4, <1>5, <1>6, <1>7, <1>8 DEF WInv

LEMMA CreateTeamKeeps ==
  ASSUME WInv, NEW u \in Emails, NEW t \in TeamIds, CreateTeam(u, t)
  PROVE  WInv'
  <1>0. /\ Members' = Members
        /\ teams' = teams \cup {t} /\ used' = used \cup {t} /\ t \notin used
        /\ UNCHANGED <<users, leader, place, email, links, req, launches>>
    BY DEF CreateTeam, Members
  <1>1. TypeOK'
    BY <1>0 DEF WInv, TypeOK, users, links, launches
  <1>2. IdsAreUsed' /\ RowsHaveEmails' /\ ResolvedHolds' /\ LeadersHaveLed'
        /\ AssignmentsHold' /\ NoAccountWithoutTeam'
    <2>1. ResolvedHolds'
      BY <1>0, ResolveKept DEF WInv, HalfResolved, launches
    <2> QED
      BY <1>0, <2>1 DEF WInv, IdsAreUsed, Triggered, RowsHaveEmails, LeadersHaveLed,
                        AssignmentsHold, NoAccountWithoutTeam, users, links, launches
  <1>3. NothingDangles'
    <2>1. leader[t] # None => role[leader[t]] = "team_leader"
      BY DEF WInv, LeadersHaveLed
    <2>2. \A c \in Companies : AccountsOf(c)' = AccountsOf(c)
      BY <1>0 DEF AccountsOf, users
    <2> QED
      BY <1>0, <2>1, <2>2 DEF WInv, NothingDangles, users, links
  <1>5. CompaniesHaveAccounts'
    BY <1>0 DEF WInv, CompaniesHaveAccounts, AccountsOf, users
  <1>4. MeetingsKeepTheirSelection'
    BY <1>0 DEF WInv, MeetingsKeepTheirSelection, IdsAreUsed, links, launches
  <1> QED
    BY <1>1, <1>2, <1>3, <1>4, <1>5 DEF WInv

-----------------------------------------------------------------------------
LEMMA StepInv == WInv /\ [Next]_vars => WInv'
  <1> SUFFICES ASSUME WInv, [Next]_vars PROVE WInv'
    OBVIOUS
  <1>1. CASE UNCHANGED vars
    BY <1>1 DEF WInv, vars, TypeOK, IdsAreUsed, Triggered, LeadersHaveLed, AssignmentsHold,
                RowsHaveEmails, ResolvedHolds, HalfResolved, TeamEmails, DirectEmails, Ours,
                NothingDangles, NoAccountWithoutTeam, CompaniesHaveAccounts, AccountsOf,
                MeetingsKeepTheirSelection, Members
  <1>2. ASSUME NEW r \in Requests, Commits(r)
        PROVE  WInv'
    BY <1>2, AssignLeaderKeeps, DeleteTeamKeeps, UpdateMemberKeeps, DeleteMemberKeeps,
       ResolveDirectKeeps, LaunchKeeps, CreateMemberKeeps, RegisterKeeps DEF Commits
  <1> QED
    BY <1>1, <1>2, CreateTeamKeeps, ReadsKeep DEF Next

(* Workspace keeps WInv, under every interleaving of its requests. *)
THEOREM WorkspaceInvariant == Spec => []WInv
  BY InitInv, StepInv, PTL DEF Spec

(* No row of the tables refers to a row that is not there. *)
THEOREM TablesAreClosed == Spec => []NothingDangles
  <1>1. WInv => NothingDangles
    BY DEF WInv
  <1> QED
    BY <1>1, WorkspaceInvariant, PTL

(* A company has an account, whichever registration loses the race. *)
THEOREM CompaniesAreFounded == Spec => []CompaniesHaveAccounts
  <1>1. WInv => CompaniesHaveAccounts
    BY DEF WInv
  <1> QED
    BY <1>1, WorkspaceInvariant, PTL

(* A failed assignment leaves neither an account nor a promotion. *)
THEOREM AssignmentIsAtomic == Spec => []NoAccountWithoutTeam
  <1>1. WInv => NoAccountWithoutTeam
    BY DEF WInv
  <1> QED
    BY <1>1, WorkspaceInvariant, PTL

(* A meeting's links are its selection, as far as that still exists. *)
THEOREM LinksAreTheSelection == Spec => []MeetingsKeepTheirSelection
  <1>1. WInv => MeetingsKeepTheirSelection
    BY DEF WInv
  <1> QED
    BY <1>1, WorkspaceInvariant, PTL

(* resolve_participants and resolve_meeting_participants agree on everyone *)
(* of our company whose rows have not changed in between, and only rows of *)
(* another company are invited without having been resolved.               *)
THEOREM AudiencesAgree == Spec => []SameAudience
  <1>1. WInv => SameAudience
    <2> SUFFICES ASSUME WInv, NEW g \in meetings, NEW e \in Emails \ touched[g]
                 PROVE  e \in audience[g] <=> \E m \in Invitees(g) : Ours(m) /\ email[m] = e
      BY DEF SameAudience
    <2>1. g \in MeetingIds
      BY DEF WInv, TypeOK
    <2>2. ~HalfResolved(g)
      BY DEF WInv, IdsAreUsed, Triggered, HalfResolved
    <2>3. e \in audience[g] <=> e \in TeamEmails(selected[g]) \cup DirectEmails(selected[g])
      BY <2>1, <2>2 DEF WInv, ResolvedHolds
    <2>4. /\ linked[g] = selected[g].teams \cap teams
          /\ invited[g] = selected[g].members \cap Members
          /\ \A m \in Members : place[m] \in teams
      BY DEF WInv, MeetingsKeepTheirSelection, NothingDangles
    <2> QED
      BY <2>3, <2>4 DEF TeamEmails, DirectEmails, Invitees
  <1> QED
    BY <1>1, WorkspaceInvariant, PTL

=============================================================================

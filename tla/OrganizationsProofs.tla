------------------------ MODULE OrganizationsProofs ------------------------
(***************************************************************************)
(* Whom invitations admit, for any set of threads, users, organizations,   *)
(* workspaces, invitations and typed roles.                                *)
(***************************************************************************)
EXTENDS Organizations, TLAPS

-----------------------------------------------------------------------------
\* Types.  A call goes on with an invitation that is in the table.
Fits(j) ==
    j # None =>
        /\ invitations[j.invitation] # None
        /\ j.at = "find_workspace_membership" => invitations[j.invitation].workspace # None

JobsFit == \A t \in Threads : Fits(job[t])
TInv == TypeOK /\ JobsFit

\* What an invitation offers never changes.
Offers ==
    \A i \in Invitations : invitations[i] # None =>
        /\ invitations'[i] # None
        /\ invitations'[i].org = invitations[i].org
        /\ invitations'[i].workspace = invitations[i].workspace
        /\ invitations'[i].role = invitations[i].role

LEMMA TypeInit == Init => TInv
BY DEF Init, TInv, TypeOK, JobsFit, Fits

LEMMA Granted == ASSUME NEW r PROVE GrantedRole(r) \in OrgRoles /\ GrantedRole(r) # None
BY OrgAssumption DEF GrantedRole, OrgRoles

LEMMA Held ==
  ASSUME TInv, NEW t \in Threads, job[t] # None
  PROVE  /\ job[t] \in Jobs /\ Row(t) \in InvitationRows
         /\ Seat(t) \in Orgs \X Users
         /\ Row(t).workspace # None => Desk(t) \in Workspaces \X Users
<1>1. job[t] \in Jobs /\ Row(t) \in InvitationRows
  BY DEF TInv, TypeOK, JobsFit, Fits, Row, Jobs
<1> QED
  BY <1>1 DEF Seat, Desk, Jobs, InvitationRows

\* A row changes its status or becomes overdue.
LEMMA RowChanges ==
  ASSUME TInv, NEW i \in Invitations, invitations[i] # None, NEW row \in InvitationRows,
         row.org = invitations[i].org, row.workspace = invitations[i].workspace,
         row.role = invitations[i].role, invitations' = [invitations EXCEPT ![i] = row]
  PROVE  invitations' \in [Invitations -> InvitationRows \cup {None}] /\ Offers
<1>1. invitations' \in [Invitations -> InvitationRows \cup {None}]
  BY DEF TInv, TypeOK
<1>2. row # None
  BY NoneAssumption
<1> QED
  BY <1>1, <1>2 DEF TInv, TypeOK, Offers

\* A call takes a step, or ends.
LEMMA Steps ==
  ASSUME TInv, NEW t \in Threads, NEW j \in Jobs \cup {None}, Fits(j),
         job' = [job EXCEPT ![t] = j], Offers
  PROVE  job' \in [Threads -> Jobs \cup {None}] /\ JobsFit'
BY DEF TInv, TypeOK, JobsFit, Fits, Jobs, Offers

LEMMA Stays ==
  ASSUME TInv, Offers, UNCHANGED job
  PROVE  JobsFit'
BY DEF TInv, TypeOK, JobsFit, Fits, Jobs, Offers

LEMMA SameOffers == ASSUME UNCHANGED invitations PROVE Offers
BY DEF Offers

LEMMA Ends ==
  ASSUME TInv, NEW t \in Threads, End(t), Offers
  PROVE  job' \in [Threads -> Jobs \cup {None}] /\ JobsFit'
BY Steps DEF End, Fits

LEMMA TFind ==
  ASSUME TInv, NEW t \in Threads, find_membership(t)
  PROVE  TInv' /\ Offers
<1>1. job[t] # None /\ job[t] \in Jobs /\ Seat(t) \in Orgs \X Users
  BY Held DEF find_membership, At
<1> DEFINE place == IF Row(t).workspace = None THEN "commit" ELSE "find_workspace_membership"
           j == [job[t] EXCEPT !.member = org_members[Seat(t)], !.at = place]
<1>2. org_members[Seat(t)] \in OrgRoles \cup {None}
  BY <1>1 DEF TInv, TypeOK
<1>3. /\ j \in Jobs /\ j.invitation = job[t].invitation
      /\ j.at = "find_workspace_membership" => Row(t).workspace # None
  BY <1>1, <1>2 DEF Jobs
<1>4. job' = [job EXCEPT ![t] = j] /\ UNCHANGED <<tables, history>>
  BY DEF find_membership
<1>5. Fits(j)
  BY <1>1, <1>3 DEF TInv, JobsFit, Fits, Row
<1>6. Offers
  BY <1>4, SameOffers DEF tables
<1>7. job' \in [Threads -> Jobs \cup {None}] /\ JobsFit'
  BY <1>3, <1>4, <1>5, <1>6, Steps
<1> QED
  BY <1>4, <1>6, <1>7 DEF TInv, TypeOK, tables, history

LEMMA TFindWorkspace ==
  ASSUME TInv, NEW t \in Threads, find_workspace_membership(t)
  PROVE  TInv' /\ Offers
<1>1. UNCHANGED <<tables, history>>
  BY DEF find_workspace_membership
<1>2. Offers
  BY <1>1, SameOffers DEF tables
<1>3. job' \in [Threads -> Jobs \cup {None}] /\ JobsFit'
  <2>1. CASE End(t)
    BY <1>2, <2>1, Ends
  <2>2. CASE ~End(t)
    <3> DEFINE j == [job[t] EXCEPT !.ws_member = workspace_members[Desk(t)], !.at = "commit"]
    <3>1. job' = [job EXCEPT ![t] = j]
      BY <2>2 DEF find_workspace_membership
    <3>2. job[t] # None /\ job[t] \in Jobs /\ Row(t).workspace # None
      BY Held DEF find_workspace_membership, At, TInv, JobsFit, Fits, Row
    <3>3. workspace_members[Desk(t)] \in WorkspaceRoles \cup {None}
      BY <3>2, Held DEF TInv, TypeOK
    <3>4. j \in Jobs /\ j.invitation = job[t].invitation /\ j.at = "commit"
      BY <3>2, <3>3 DEF Jobs
    <3>5. Fits(j)
      BY <3>2, <3>4 DEF TInv, JobsFit, Fits
    <3> QED
      BY <1>2, <3>1, <3>4, <3>5, Steps
  <2> QED
    BY <2>1, <2>2
<1> QED
  BY <1>1, <1>2, <1>3 DEF TInv, TypeOK, tables, history

LEMMA TExpired ==
  ASSUME TInv, NEW t \in Threads, mark_expired(t)
  PROVE  TInv' /\ Offers
<1> DEFINE i == job[t].invitation
           row == [invitations[i] EXCEPT !.status = "EXPIRED"]
<1>1. i \in Invitations /\ invitations[i] # None /\ invitations[i] \in InvitationRows
  BY Held DEF mark_expired, At, TInv, JobsFit, Fits, Row, Jobs
<1>2. /\ row \in InvitationRows /\ row.org = invitations[i].org
      /\ row.workspace = invitations[i].workspace /\ row.role = invitations[i].role
  BY <1>1 DEF InvitationRows
<1>3. invitations' = [invitations EXCEPT ![i] = row]
  BY DEF mark_expired
<1>4. invitations' \in [Invitations -> InvitationRows \cup {None}] /\ Offers
  BY <1>1, <1>2, <1>3, RowChanges
<1>5. job' \in [Threads -> Jobs \cup {None}] /\ JobsFit'
  BY <1>4, Ends DEF mark_expired
<1> QED
  BY <1>4, <1>5 DEF TInv, TypeOK, mark_expired, history

LEMMA TCommit ==
  ASSUME TInv, NEW t \in Threads, commit(t)
  PROVE  TInv' /\ Offers
<1> DEFINE i == job[t].invitation
<1>1. UNCHANGED <<workspaces, audit_events, founder, maker, contested>>
  BY DEF commit
<1>2. CASE CommitAccept(t)
  <2> DEFINE row == [invitations[i] EXCEPT !.status = "ACCEPTED"]
             j == [job[t] EXCEPT !.at = "log_event"]
  <2>1. /\ job[t] # None /\ job[t] \in Jobs /\ invitations[i] # None
        /\ invitations[i] \in InvitationRows /\ i \in Invitations
    BY Held DEF commit, At, TInv, JobsFit, Fits, Row, Jobs
  <2>2. /\ row \in InvitationRows /\ row.org = invitations[i].org
        /\ row.workspace = invitations[i].workspace /\ row.role = invitations[i].role
    BY <2>1 DEF InvitationRows
  <2>3. invitations' = [invitations EXCEPT ![i] = row]
    BY <1>2 DEF CommitAccept
  <2>4. invitations' \in [Invitations -> InvitationRows \cup {None}] /\ Offers
    BY <2>1, <2>2, <2>3, RowChanges
  <2>5. j \in Jobs /\ j.invitation = i /\ j.at = "log_event"
    BY <2>1 DEF Jobs
  <2>6. job' = [job EXCEPT ![t] = j]
    BY <1>2 DEF CommitAccept
  <2>7. Fits(j)
    BY <2>1, <2>5 DEF Fits
  <2>8. job' \in [Threads -> Jobs \cup {None}] /\ JobsFit'
    BY <2>4, <2>5, <2>6, <2>7, Steps
  <2>9. org_members' \in [Orgs \X Users -> OrgRoles \cup {None}]
    BY <1>2, <2>1, Held, Granted DEF CommitAccept, WithSeat, TInv, TypeOK
  <2>10. workspace_members' \in [Workspaces \X Users -> WorkspaceRoles \cup {None}]
    BY <1>2, <2>1, Held DEF CommitAccept, WithDesk, TInv, TypeOK, WorkspaceRoles
  <2>11. admitted' \in [Invitations -> SUBSET Users]
    BY <1>2, <2>1 DEF CommitAccept, TInv, TypeOK, Jobs
  <2> QED
    BY <1>1, <2>4, <2>8, <2>9, <2>10, <2>11 DEF TInv, TypeOK
<1>3. CASE RollBack(t)
  <2>1. UNCHANGED <<org_members, workspace_members, invitations, admitted>> /\ End(t)
    BY <1>3 DEF RollBack
  <2>2. Offers
    BY <2>1, SameOffers
  <2>3. job' \in [Threads -> Jobs \cup {None}] /\ JobsFit'
    BY <2>1, <2>2, Ends
  <2> QED
    BY <1>1, <2>1, <2>2, <2>3 DEF TInv, TypeOK
<1> QED
  BY <1>2, <1>3 DEF commit

LEMMA TLog ==
  ASSUME TInv, NEW t \in Threads, log_event(t)
  PROVE  TInv' /\ Offers
<1>1. /\ End(t) /\ UNCHANGED <<org_members, workspaces, workspace_members, invitations, history>>
      /\ audit_events' = audit_events \cup {<<job[t].user, job[t].invitation>>}
  BY DEF log_event
<1>2. job[t].user \in Users /\ job[t].invitation \in Invitations
  BY Held DEF log_event, At, Jobs
<1>3. Offers
  BY <1>1, SameOffers
<1>4. job' \in [Threads -> Jobs \cup {None}] /\ JobsFit'
  BY <1>1, <1>3, Ends
<1> QED
  BY <1>1, <1>2, <1>3, <1>4 DEF TInv, TypeOK, history

LEMMA TInvite ==
  ASSUME TInv, NEW i \in Invitations, NEW o \in Orgs, NEW w \in Workspaces \cup {None},
         NEW r \in InvitedRoles, create_invitation(i, o, w, r)
  PROVE  TInv' /\ Offers
<1> DEFINE row == [org |-> o, workspace |-> w, role |-> r, status |-> "PENDING", overdue |-> FALSE]
<1>1. /\ invitations' = [invitations EXCEPT ![i] = row] /\ invitations[i] = None
      /\ UNCHANGED <<org_members, workspaces, workspace_members, audit_events, job, history>>
  BY DEF create_invitation, Fresh
<1>2. row \in InvitationRows
  BY DEF InvitationRows
<1>3. Offers
  BY <1>1 DEF Offers, TInv, TypeOK
<1>4. JobsFit'
  BY <1>1, <1>3, Stays
<1> QED
  BY <1>1, <1>2, <1>3, <1>4 DEF TInv, TypeOK, history

LEMMA TOverdue ==
  ASSUME TInv, NEW i \in Invitations, Overdue(i)
  PROVE  TInv' /\ Offers
<1> DEFINE row == [invitations[i] EXCEPT !.overdue = TRUE]
<1>1. /\ invitations' = [invitations EXCEPT ![i] = row] /\ invitations[i] # None
      /\ UNCHANGED <<org_members, workspaces, workspace_members, audit_events, job, history>>
  BY DEF Overdue
<1>2. invitations[i] \in InvitationRows
  BY <1>1 DEF TInv, TypeOK
<1>3. /\ row \in InvitationRows /\ row.org = invitations[i].org
      /\ row.workspace = invitations[i].workspace /\ row.role = invitations[i].role
  BY <1>2 DEF InvitationRows
<1>4. invitations' \in [Invitations -> InvitationRows \cup {None}] /\ Offers
  BY <1>1, <1>3, RowChanges
<1>5. JobsFit'
  BY <1>1, <1>4, Stays
<1> QED
  BY <1>1, <1>4, <1>5 DEF TInv, TypeOK, history

LEMMA TAccept ==
  ASSUME TInv, NEW t \in Threads, NEW u \in Users, NEW i \in Invitations,
         find_invitation(t, u, i)
  PROVE  TInv' /\ Offers
<1> DEFINE place == IF invitations[i].overdue THEN "mark_expired" ELSE "find_membership"
           j == [at |-> place, user |-> u, invitation |-> i, member |-> None, ws_member |-> None]
<1>1. /\ job' = [job EXCEPT ![t] = j] /\ invitations[i] # None
      /\ contested' \subseteq contested \cup {i} /\ UNCHANGED <<tables, founder, maker, admitted>>
  BY DEF find_invitation
<1>2. j \in Jobs /\ Fits(j)
  BY <1>1 DEF Jobs, Fits
<1>3. Offers
  BY <1>1, SameOffers DEF tables
<1>4. job' \in [Threads -> Jobs \cup {None}] /\ JobsFit'
  BY <1>1, <1>2, <1>3, Steps
<1> QED
  BY <1>1, <1>3, <1>4 DEF TInv, TypeOK, tables

LEMMA TCreate ==
  ASSUME TInv, NEW u \in Users, NEW o \in Orgs, NEW w \in Workspaces,
         create_organization(u, o, w) \/ create_workspace(u, o, w)
  PROVE  TInv' /\ Offers
<1>1. UNCHANGED <<invitations, audit_events, job, admitted, contested>>
  BY DEF create_organization, create_workspace
<1>2. "OWNER" \in OrgRoles /\ "WORKSPACE_ADMIN" \in WorkspaceRoles
  BY DEF OrgRoles, WorkspaceRoles
<1>3. CASE create_organization(u, o, w)
  <2>1. /\ founder' \in [Orgs -> Users \cup {None}]
        /\ maker' \in [Workspaces -> Users \cup {None}]
        /\ org_members' \in [Orgs \X Users -> OrgRoles \cup {None}]
        /\ workspaces' \in [Workspaces -> Orgs \cup {None}]
        /\ workspace_members' \in [Workspaces \X Users -> WorkspaceRoles \cup {None}]
    BY <1>2, <1>3 DEF create_organization, TInv, TypeOK
  <2> QED
    BY <1>1, <2>1, Stays, SameOffers DEF TInv, TypeOK
<1>4. CASE create_workspace(u, o, w)
  <2>1. /\ maker' \in [Workspaces -> Users \cup {None}]
        /\ workspaces' \in [Workspaces -> Orgs \cup {None}]
        /\ workspace_members' \in [Workspaces \X Users -> WorkspaceRoles \cup {None}]
        /\ UNCHANGED <<founder, org_members>>
    BY <1>2, <1>4 DEF create_workspace, TInv, TypeOK
  <2> QED
    BY <1>1, <2>1, Stays, SameOffers DEF TInv, TypeOK
<1> QED
  BY <1>3, <1>4

LEMMA TypeNext == TInv /\ [Next]_vars => TInv' /\ Offers
<1> SUFFICES ASSUME TInv, [Next]_vars PROVE TInv' /\ Offers
  OBVIOUS
<1>1. CASE UNCHANGED vars
  BY <1>1, Stays, SameOffers DEF TInv, TypeOK, vars, tables, history
<1>2. CASE \E u \in Users, o \in Orgs, w \in Workspaces :
             create_organization(u, o, w) \/ create_workspace(u, o, w)
  BY <1>2, TCreate
<1>3. CASE \E i \in Invitations, o \in Orgs, w \in Workspaces \cup {None}, r \in InvitedRoles :
             create_invitation(i, o, w, r)
  BY <1>3, TInvite
<1>4. CASE \E i \in Invitations : Overdue(i)
  BY <1>4, TOverdue
<1>5. CASE \E t \in Threads, i \in Invitations :
             refuse(t, i) \/ \E u \in Users : find_invitation(t, u, i)
  BY <1>1, <1>5, TAccept DEF refuse
<1>6. CASE \E t \in Threads : Statement(t)
  BY <1>6, TExpired, TFind, TFindWorkspace, TCommit, TLog DEF Statement
<1> QED
  BY <1>1, <1>2, <1>3, <1>4, <1>5, <1>6 DEF Next

\* The rows of the five tables and the calls in hand keep their types.
THEOREM TypeCorrect == Spec => []TypeOK
<1>1. TInv => TypeOK
  BY DEF TInv
<1> QED
  BY <1>1, TypeInit, TypeNext, PTL DEF Spec

-----------------------------------------------------------------------------
\* Status.  An invitation two calls have in hand is contested; what a call
\* has in hand and is not contested is still pending; and nobody was admitted
\* by an invitation that is pending or not yet made.
OneHand ==
    \A s, t \in Threads, i \in Invitations :
        s # t /\ Deciding(s, i) /\ Deciding(t, i) => i \in contested

StillPending ==
    \A t \in Threads, i \in Invitations :
        Deciding(t, i) /\ i \notin contested => invitations[i].status = "PENDING"

NobodyYet ==
    \A i \in Invitations :
        invitations[i] = None \/ invitations[i].status = "PENDING" => admitted[i] = {}

\* A call that goes to the audit log has admitted its user.
Admitting ==
    \A t \in Threads : At(t, "log_event") => job[t].user \in admitted[job[t].invitation]

StatusInv ==
    /\ OneHand /\ StillPending /\ NobodyYet /\ Admitting
    /\ AdmitsOne /\ StatusTells /\ AuditIsTrue

LEMMA StatusInit == Init => StatusInv
BY DEF Init, StatusInv, OneHand, StillPending, NobodyYet, Admitting, AdmitsOne,
       StatusTells, AuditIsTrue, Deciding, At

\* No call takes up an invitation, commits or logs.
LEMMA Onward ==
  ASSUME StatusInv, UNCHANGED <<invitations, admitted, contested, audit_events>>,
         \A s \in Threads, i \in Invitations : Deciding(s, i)' => Deciding(s, i),
         \A s \in Threads : At(s, "log_event") \/ At(s, "log_event")' => job'[s] = job[s]
  PROVE  StatusInv'
<1>1. OneHand' /\ StillPending'
  BY DEF StatusInv, OneHand, StillPending
<1>2. NobodyYet' /\ AdmitsOne' /\ StatusTells'
  BY DEF StatusInv, NobodyYet, AdmitsOne, StatusTells
<1>3. \A s \in Threads : At(s, "log_event")' <=> At(s, "log_event")
  BY DEF At
<1>4. Admitting'
  BY <1>3 DEF StatusInv, Admitting
<1>5. AuditIsTrue'
  BY <1>3 DEF StatusInv, AuditIsTrue
<1> QED
  BY <1>1, <1>2, <1>4, <1>5 DEF StatusInv

LEMMA SAccept ==
  ASSUME TInv, StatusInv, NEW t \in Threads, NEW u \in Users, NEW i \in Invitations,
         find_invitation(t, u, i)
  PROVE  StatusInv'
<1> DEFINE place == IF invitations[i].overdue THEN "mark_expired" ELSE "find_membership"
           j == [at |-> place, user |-> u, invitation |-> i, member |-> None, ws_member |-> None]
<1>1. /\ job' = [job EXCEPT ![t] = j] /\ job[t] = None
      /\ invitations[i] # None /\ invitations[i].status = "PENDING"
      /\ contested' = contested \cup {k \in {i} : \E s \in Threads : Deciding(s, k)}
      /\ UNCHANGED <<invitations, admitted, audit_events>>
  BY DEF find_invitation, Acceptable, tables
<1>2. j \in Jobs /\ j # None /\ j.at # "log_event" /\ j.invitation = i
  BY NoneAssumption DEF Jobs
<1> HIDE DEF j
<1>3. job'[t] = j /\ \A s \in Threads : s # t => job'[s] = job[s]
  BY <1>1 DEF TInv, TypeOK
<1>4. \A s \in Threads, k \in Invitations :
         Deciding(s, k)' => Deciding(s, k) \/ (s = t /\ k = i)
  BY <1>2, <1>3 DEF Deciding
<1>5. OneHand'
  BY <1>1, <1>4 DEF StatusInv, OneHand
<1>6. StillPending'
  BY <1>1, <1>4 DEF StatusInv, StillPending
<1>7. \A s \in Threads : At(s, "log_event")' => job'[s] = job[s]
  BY <1>2, <1>3 DEF At
<1>8. \A s \in Threads : At(s, "log_event") => job'[s] = job[s]
  BY <1>1, <1>3 DEF At
<1>9. Admitting' /\ AuditIsTrue'
  <2>1. \A s \in Threads : At(s, "log_event")' <=> At(s, "log_event")
    BY <1>7, <1>8 DEF At
  <2>2. Admitting'
    BY <1>1, <1>7, <2>1 DEF StatusInv, Admitting
  <2>3. AuditIsTrue'
    BY <1>1, <1>8, <2>1 DEF StatusInv, AuditIsTrue
  <2> QED
    BY <2>2, <2>3
<1>10. NobodyYet' /\ AdmitsOne' /\ StatusTells'
  BY <1>1 DEF StatusInv, NobodyYet, AdmitsOne, StatusTells
<1> QED
  BY <1>5, <1>6, <1>9, <1>10 DEF StatusInv

\* The row of an invitation in hand gets a status, with admissions to match.
LEMMA SExpired ==
  ASSUME TInv, StatusInv, NEW t \in Threads, mark_expired(t)
  PROVE  StatusInv'
<1> DEFINE i == job[t].invitation
<1>1. /\ invitations' = [invitations EXCEPT ![i].status = "EXPIRED"]
      /\ job' = [job EXCEPT ![t] = None] /\ UNCHANGED <<audit_events, admitted, contested>>
  BY DEF mark_expired, End, history
<1>2. /\ i \in Invitations /\ invitations[i] # None /\ invitations[i] \in InvitationRows
      /\ Deciding(t, i)
  BY Held DEF mark_expired, At, TInv, JobsFit, Fits, Row, Jobs, Deciding
<1> HIDE DEF i
<1>3. /\ \A k \in Invitations : k # i => invitations'[k] = invitations[k]
      /\ invitations'[i].status = "EXPIRED" /\ invitations'[i] # None
  <2> DEFINE row == [invitations[i] EXCEPT !.status = "EXPIRED"]
  <2>1. row \in InvitationRows /\ row.status = "EXPIRED"
    BY <1>2 DEF InvitationRows
  <2>2. invitations' = [invitations EXCEPT ![i] = row]
    BY <1>1
  <2> HIDE DEF row
  <2> QED
    BY <1>2, <2>1, <2>2, NoneAssumption DEF TInv, TypeOK
<1>4. job'[t] = None /\ \A s \in Threads : s # t => job'[s] = job[s]
  BY <1>1 DEF TInv, TypeOK
<1>5. \A s \in Threads, k \in Invitations : Deciding(s, k)' => s # t /\ Deciding(s, k)
  BY <1>4 DEF Deciding
<1>6. OneHand' /\ StillPending'
  BY <1>1, <1>2, <1>3, <1>5 DEF StatusInv, OneHand, StillPending
<1>7. \A s \in Threads : /\ At(s, "log_event")' <=> At(s, "log_event")
                         /\ At(s, "log_event") => job'[s] = job[s]
  BY <1>4 DEF At, mark_expired
<1>8. Admitting'
  BY <1>1, <1>7 DEF StatusInv, Admitting
<1>9. AuditIsTrue'
  BY <1>1, <1>7 DEF StatusInv, AuditIsTrue
<1>10. NobodyYet' /\ AdmitsOne'
  BY <1>1, <1>3 DEF StatusInv, NobodyYet, AdmitsOne
<1>11. admitted[i] = {} \/ i \in contested
  BY <1>2 DEF StatusInv, StillPending, NobodyYet
<1>12. StatusTells'
  BY <1>1, <1>3, <1>11 DEF StatusInv, StatusTells
<1> QED
  BY <1>6, <1>8, <1>9, <1>10, <1>12 DEF StatusInv

LEMMA SCommit ==
  ASSUME TInv, StatusInv, NEW t \in Threads, commit(t), CommitAccept(t)
  PROVE  StatusInv'
<1> DEFINE i == job[t].invitation
           u == job[t].user
<1>1. /\ invitations' = [invitations EXCEPT ![i].status = "ACCEPTED"]
      /\ admitted' = [admitted EXCEPT ![i] = @ \cup {u}]
      /\ job' = [job EXCEPT ![t].at = "log_event"]
      /\ UNCHANGED <<audit_events, contested>> /\ At(t, "commit")
  BY DEF commit, CommitAccept
<1>2. /\ i \in Invitations /\ invitations[i] # None /\ invitations[i] \in InvitationRows
      /\ job[t] # None /\ job[t] \in Jobs /\ Deciding(t, i) /\ u \in Users
  BY <1>1, Held DEF At, TInv, JobsFit, Fits, Row, Jobs, Deciding
<1>3. /\ job'[t] # None /\ job'[t].at = "log_event"
      /\ job'[t].invitation = i /\ job'[t].user = u
      /\ \A s \in Threads : s # t => job'[s] = job[s]
  <2> DEFINE j == [job[t] EXCEPT !.at = "log_event"]
  <2>1. j \in Jobs /\ j.at = "log_event" /\ j.invitation = i /\ j.user = u
    BY <1>2 DEF Jobs
  <2>2. job' = [job EXCEPT ![t] = j]
    BY <1>1
  <2> HIDE DEF j
  <2> QED
    BY <2>1, <2>2, NoneAssumption DEF TInv, TypeOK
<1>4. /\ \A k \in Invitations : k # i => invitations'[k] = invitations[k]
      /\ invitations'[i].status = "ACCEPTED" /\ invitations'[i] # None
  <2> DEFINE row == [invitations[i] EXCEPT !.status = "ACCEPTED"]
  <2>1. row \in InvitationRows /\ row.status = "ACCEPTED"
    BY <1>2 DEF InvitationRows
  <2>2. invitations' = [invitations EXCEPT ![i] = row]
    BY <1>1
  <2> HIDE DEF row
  <2> QED
    BY <1>2, <2>1, <2>2, NoneAssumption DEF TInv, TypeOK
<1> HIDE DEF i, u
<1>5. admitted'[i] = admitted[i] \cup {u} /\ \A k \in Invitations : k # i => admitted'[k] = admitted[k]
  BY <1>1, <1>2 DEF TInv, TypeOK
<1>6. \A s \in Threads, k \in Invitations : Deciding(s, k)' => s # t /\ Deciding(s, k)
  BY <1>3 DEF Deciding
<1>7. OneHand' /\ StillPending'
  BY <1>1, <1>2, <1>4, <1>6 DEF StatusInv, OneHand, StillPending
<1>8. NobodyYet' /\ StatusTells'
  BY <1>1, <1>4, <1>5 DEF StatusInv, NobodyYet, StatusTells
<1>9. i \notin contested => admitted[i] = {}
  BY <1>2 DEF StatusInv, StillPending, NobodyYet
<1>10. AdmitsOne'
  BY <1>1, <1>5, <1>9 DEF StatusInv, AdmitsOne
<1>11. /\ \A s \in Threads : At(s, "log_event") => At(s, "log_event")' /\ job'[s] = job[s]
       /\ At(t, "log_event")'
       /\ \A s \in Threads : At(s, "log_event")' /\ s # t => At(s, "log_event") /\ job'[s] = job[s]
  BY <1>1, <1>3 DEF At
<1>12. Admitting'
  <2> SUFFICES ASSUME NEW s \in Threads, At(s, "log_event")'
               PROVE  job'[s].user \in admitted'[job'[s].invitation]
    BY DEF Admitting
  <2>1. CASE s = t
    BY <1>3, <1>5, <2>1
  <2>2. CASE s # t
    <3>1. At(s, "log_event") /\ job'[s] = job[s] /\ job[s].invitation \in Invitations
      BY <1>11, <2>2 DEF At, TInv, TypeOK, Jobs
    <3> QED
      BY <1>5, <3>1 DEF StatusInv, Admitting
  <2> QED
    BY <2>1, <2>2
<1>13. AuditIsTrue'
  <2>1. \A e \in audit_events' : e[1] \in admitted'[e[2]]
    BY <1>1, <1>5 DEF StatusInv, AuditIsTrue, TInv, TypeOK
  <2>2. ASSUME NEW k \in Invitations, NEW v \in admitted'[k]
        PROVE  \/ <<v, k>> \in audit_events'
               \/ \E s \in Threads : At(s, "log_event")' /\ job'[s].user = v /\ job'[s].invitation = k
    <3>1. CASE v \in admitted[k]
      BY <1>1, <1>11, <3>1 DEF StatusInv, AuditIsTrue
    <3>2. CASE v \notin admitted[k]
      BY <1>3, <1>5, <1>11, <2>2, <3>2
    <3> QED
      BY <3>1, <3>2
  <2> QED
    BY <2>1, <2>2 DEF AuditIsTrue
<1> QED
  BY <1>7, <1>8, <1>10, <1>12, <1>13 DEF StatusInv

LEMMA SLog ==
  ASSUME TInv, StatusInv, NEW t \in Threads, log_event(t)
  PROVE  StatusInv'
<1> DEFINE i == job[t].invitation
           u == job[t].user
<1>1. /\ audit_events' = audit_events \cup {<<u, i>>} /\ job' = [job EXCEPT ![t] = None]
      /\ UNCHANGED <<invitations, admitted, contested>> /\ At(t, "log_event")
  BY DEF log_event, End, history
<1>2. job'[t] = None /\ \A s \in Threads : s # t => job'[s] = job[s]
  BY <1>1 DEF TInv, TypeOK
<1>3. \A s \in Threads, k \in Invitations : Deciding(s, k)' => Deciding(s, k)
  BY <1>2 DEF Deciding
<1>4. OneHand' /\ StillPending'
  BY <1>1, <1>3 DEF StatusInv, OneHand, StillPending
<1>5. NobodyYet' /\ StatusTells' /\ AdmitsOne'
  BY <1>1 DEF StatusInv, NobodyYet, StatusTells, AdmitsOne
<1>6. u \in admitted[i]
  BY <1>1 DEF StatusInv, Admitting
<1>7. \A s \in Threads : At(s, "log_event")' => s # t /\ At(s, "log_event")
  BY <1>2 DEF At
<1>8. Admitting'
  BY <1>1, <1>2, <1>7 DEF StatusInv, Admitting
<1>9. AuditIsTrue'
  <2>1. \A e \in audit_events' : e[1] \in admitted'[e[2]]
    BY <1>1, <1>6 DEF StatusInv, AuditIsTrue
  <2>2. ASSUME NEW k \in Invitations, NEW v \in admitted'[k], <<v, k>> \notin audit_events'
        PROVE  \E s \in Threads : At(s, "log_event")' /\ job'[s].user = v /\ job'[s].invitation = k
    <3>1. <<v, k>> \notin audit_events /\ v \in admitted[k] /\ <<v, k>> # <<u, i>>
      BY <1>1, <2>2
    <3>2. PICK s \in Threads : At(s, "log_event") /\ job[s].user = v /\ job[s].invitation = k
      BY <3>1 DEF StatusInv, AuditIsTrue
    <3>3. s # t
      BY <3>1, <3>2
    <3> QED
      BY <1>2, <3>2, <3>3 DEF At
  <2> QED
    BY <2>1, <2>2 DEF AuditIsTrue
<1> QED
  BY <1>4, <1>5, <1>8, <1>9 DEF StatusInv

\* A new invitation is pending, and nobody has it in hand; time changes no status.
LEMMA SRow ==
  ASSUME TInv, StatusInv, NEW i \in Invitations, Overdue(i) \/
         \E o \in Orgs, w \in Workspaces \cup {None}, r \in InvitedRoles : create_invitation(i, o, w, r)
  PROVE  StatusInv'
<1>1. /\ \A k \in Invitations : k # i => invitations'[k] = invitations[k]
      /\ invitations'[i] # None
      /\ \/ invitations[i] # None /\ invitations'[i].status = invitations[i].status
         \/ invitations[i] = None /\ invitations'[i].status = "PENDING"
      /\ UNCHANGED <<audit_events, job, admitted, contested>>
  <2>1. CASE Overdue(i)
    <3> DEFINE row == [invitations[i] EXCEPT !.overdue = TRUE]
    <3>1. /\ invitations' = [invitations EXCEPT ![i] = row] /\ invitations[i] # None
          /\ UNCHANGED <<audit_events, job, history>>
      BY <2>1 DEF Overdue
    <3>2. row \in InvitationRows /\ row.status = invitations[i].status
      BY <3>1 DEF TInv, TypeOK, InvitationRows
    <3> QED
      BY <3>1, <3>2, NoneAssumption DEF TInv, TypeOK, history
  <2>2. CASE \E o \in Orgs, w \in Workspaces \cup {None}, r \in InvitedRoles :
               create_invitation(i, o, w, r)
    <3> PICK o \in Orgs, w \in Workspaces \cup {None}, r \in InvitedRoles :
               create_invitation(i, o, w, r)
      BY <2>2
    <3> DEFINE row == [org |-> o, workspace |-> w, role |-> r, status |-> "PENDING", overdue |-> FALSE]
    <3>1. /\ invitations' = [invitations EXCEPT ![i] = row] /\ invitations[i] = None
          /\ UNCHANGED <<audit_events, job, history>>
      BY DEF create_invitation, Fresh
    <3>2. row \in InvitationRows /\ row.status = "PENDING"
      BY DEF InvitationRows
    <3> QED
      BY <3>1, <3>2, NoneAssumption DEF TInv, TypeOK, history
  <2> QED
    BY <2>1, <2>2
<1>2. \A s \in Threads, k \in Invitations : Deciding(s, k)' <=> Deciding(s, k)
  BY <1>1 DEF Deciding
<1>3. \A s \in Threads : At(s, "log_event")' <=> At(s, "log_event")
  BY <1>1 DEF At
<1>4. OneHand'
  BY <1>1, <1>2 DEF StatusInv, OneHand
<1>5. StillPending'
  BY <1>1, <1>2 DEF StatusInv, StillPending
<1>6. NobodyYet' /\ StatusTells' /\ AdmitsOne'
  BY <1>1 DEF StatusInv, NobodyYet, StatusTells, AdmitsOne
<1>7. Admitting'
  BY <1>1, <1>3 DEF StatusInv, Admitting
<1>8. AuditIsTrue'
  BY <1>1, <1>3 DEF StatusInv, AuditIsTrue
<1> QED
  BY <1>4, <1>5, <1>6, <1>7, <1>8 DEF StatusInv

LEMMA StatusNext == TInv /\ StatusInv /\ [Next]_vars => StatusInv'
<1> SUFFICES ASSUME TInv, StatusInv, [Next]_vars PROVE StatusInv'
  OBVIOUS
<1>1. CASE UNCHANGED vars
  BY <1>1, Onward DEF vars, Deciding, At
<1>2. CASE \E u \in Users, o \in Orgs, w \in Workspaces :
             create_organization(u, o, w) \/ create_workspace(u, o, w)
  <2>1. UNCHANGED <<invitations, admitted, contested, audit_events, job>>
    BY <1>2 DEF create_organization, create_workspace
  <2> QED
    BY <2>1, Onward DEF Deciding, At
<1>3. CASE \E i \in Invitations, o \in Orgs, w \in Workspaces \cup {None}, r \in InvitedRoles :
             create_invitation(i, o, w, r)
  BY <1>3, SRow
<1>4. CASE \E i \in Invitations : Overdue(i)
  BY <1>4, SRow
<1>5. CASE \E t \in Threads, i \in Invitations :
             refuse(t, i) \/ \E u \in Users : find_invitation(t, u, i)
  BY <1>1, <1>5, SAccept DEF refuse
<1>6. ASSUME NEW t \in Threads, Statement(t) PROVE StatusInv'
  <2>1. CASE mark_expired(t)
    BY <2>1, SExpired
  <2>2. CASE log_event(t)
    BY <2>2, SLog
  <2>3. CASE commit(t) /\ CommitAccept(t)
    BY <2>3, SCommit
  <2>4. CASE find_membership(t) \/ find_workspace_membership(t) \/ (commit(t) /\ RollBack(t))
    <3>1. /\ UNCHANGED <<invitations, admitted, contested, audit_events>>
          /\ job[t] # None /\ job[t] \in Jobs /\ job[t].at # "log_event"
      BY <2>4, Held DEF find_membership, find_workspace_membership, commit, RollBack, At, tables, history
    <3>2. /\ job'[t] # None => job'[t].invitation = job[t].invitation /\ job'[t].at # "log_event"
          /\ \A s \in Threads : s # t => job'[s] = job[s]
      <4>1. CASE End(t)
        BY <4>1 DEF End, TInv, TypeOK
      <4>2. CASE find_membership(t)
        <5> DEFINE place == IF Row(t).workspace = None THEN "commit" ELSE "find_workspace_membership"
                   j == [job[t] EXCEPT !.member = org_members[Seat(t)], !.at = place]
        <5>1. job' = [job EXCEPT ![t] = j]
          BY <4>2 DEF find_membership
        <5>2. j.invitation = job[t].invitation /\ j.at # "log_event"
          BY <3>1 DEF Jobs
        <5> HIDE DEF j
        <5> QED
          BY <5>1, <5>2 DEF TInv, TypeOK
      <4>3. CASE find_workspace_membership(t) /\ ~End(t)
        <5> DEFINE j == [job[t] EXCEPT !.ws_member = workspace_members[Desk(t)], !.at = "commit"]
        <5>1. job' = [job EXCEPT ![t] = j]
          BY <4>3 DEF find_workspace_membership
        <5>2. j.invitation = job[t].invitation /\ j.at # "log_event"
          BY <3>1 DEF Jobs
        <5> HIDE DEF j
        <5> QED
          BY <5>1, <5>2 DEF TInv, TypeOK
      <4> QED
        BY <2>4, <4>1, <4>2, <4>3 DEF RollBack
    <3>3. \A s \in Threads, i \in Invitations : Deciding(s, i)' => Deciding(s, i)
      BY <3>1, <3>2 DEF Deciding
    <3>4. \A s \in Threads : At(s, "log_event") \/ At(s, "log_event")' => job'[s] = job[s]
      BY <3>1, <3>2 DEF At
    <3> QED
      BY <3>1, <3>3, <3>4, Onward
  <2> QED
    BY <1>6, <2>1, <2>2, <2>3, <2>4 DEF Statement, commit
<1> QED
  BY <1>1, <1>2, <1>3, <1>4, <1>5, <1>6 DEF Next

-----------------------------------------------------------------------------
\* Memberships.  What a call found is still there, and what it has inserted
\* and not committed nobody else has.
Founded ==
    /\ \A i \in Invitations : invitations[i] # None => founder[invitations[i].org] # None
    /\ \A w \in Workspaces : workspaces[w] = None => maker[w] = None

Found ==
    \A t \in Threads : job[t] # None =>
        /\ job[t].member # None => org_members[Seat(t)] # None
        /\ job[t].ws_member # None =>
               Row(t).workspace # None /\ workspace_members[Desk(t)] # None

SeatsFree ==
    \A t \in Threads : Inserted(t) =>
        /\ org_members[Seat(t)] = None
        /\ \A s \in Threads \ {t} : Inserted(s) => Seat(s) # Seat(t)

SeatsInv == Founded /\ Found /\ SeatsFree /\ MembershipsAreGranted

LEMMA SeatsInit == Init => SeatsInv
BY OrgAssumption DEF Init, SeatsInv, Founded, Found, SeatsFree, MembershipsAreGranted, Inserted, At

LEMMA SameSeat ==
  ASSUME TInv, Offers, NEW s \in Threads, job[s] # None, job'[s] # None,
         job'[s].user = job[s].user, job'[s].invitation = job[s].invitation
  PROVE  Seat(s)' = Seat(s) /\ Desk(s)' = Desk(s) /\ (Row(s).workspace)' = Row(s).workspace
<1>1. job[s].invitation \in Invitations /\ Row(s) # None
  BY Held, NoneAssumption DEF Jobs
<1> QED
  BY <1>1 DEF Offers, Row, Seat, Desk

\* A call that stays where it is has inserted what it had inserted.
LEMMA SameCall ==
  ASSUME TInv, Offers, NEW s \in Threads, job'[s] = job[s]
  PROVE  /\ Inserted(s)' <=> Inserted(s)
         /\ job[s] # None => Seat(s)' = Seat(s) /\ Desk(s)' = Desk(s)
                             /\ (Row(s).workspace)' = Row(s).workspace
<1>1. CASE job[s] = None
  BY <1>1 DEF Inserted, At
<1>2. CASE job[s] # None
  <2>1. Seat(s)' = Seat(s) /\ Desk(s)' = Desk(s) /\ (Row(s).workspace)' = Row(s).workspace
    BY <1>2, SameSeat
  <2> QED
    BY <1>2, <2>1 DEF Inserted, At
<1> QED
  BY <1>1, <1>2

\* What holds of the memberships depends on what the invitations offer.
LEMMA GrantsKept ==
  ASSUME TInv, StatusInv, SeatsInv, Offers,
         UNCHANGED <<org_members, workspace_members, founder, maker, admitted>>
  PROVE  MembershipsAreGranted'
<1>1. \A i \in Invitations : admitted[i] # {} => invitations[i] # None
  BY DEF StatusInv, NobodyYet
<1>2. \A i \in Invitations, v \in Users : v \in admitted[i] =>
         /\ invitations'[i].org = invitations[i].org
         /\ invitations'[i].workspace = invitations[i].workspace
         /\ invitations'[i].role = invitations[i].role
  BY <1>1 DEF Offers
<1>4. ASSUME NEW i \in Invitations, NEW v \in admitted'[i]
      PROVE  /\ org_members'[<<invitations'[i].org, v>>] # None
             /\ invitations'[i].workspace # None =>
                    workspace_members'[<<invitations'[i].workspace, v>>] # None
  <2>1. v \in Users /\ v \in admitted[i]
    BY <1>4 DEF TInv, TypeOK
  <2> QED
    BY <1>2, <2>1 DEF SeatsInv, MembershipsAreGranted
<1>5. ASSUME NEW o \in Orgs, NEW v \in Users
      PROVE  /\ founder'[o] = v => org_members'[<<o, v>>] = "OWNER"
             /\ org_members'[<<o, v>>] # None /\ founder'[o] # v => InvitedAs(o, v, org_members[<<o, v>>])'
  <2>1. org_members[<<o, v>>] \in OrgRoles \cup {None}
    BY DEF TInv, TypeOK
  <2>2. org_members[<<o, v>>] # None /\ founder[o] # v => InvitedAs(o, v, org_members[<<o, v>>])
    BY DEF SeatsInv, MembershipsAreGranted
  <2>3. InvitedAs(o, v, org_members[<<o, v>>]) => InvitedAs(o, v, org_members[<<o, v>>])'
    BY <1>2 DEF InvitedAs, GrantedRole
  <2> QED
    BY <2>2, <2>3 DEF SeatsInv, MembershipsAreGranted
<1>6. ASSUME NEW w \in Workspaces, NEW v \in Users
      PROVE  /\ maker'[w] = v => workspace_members'[<<w, v>>] = "WORKSPACE_ADMIN"
             /\ workspace_members'[<<w, v>>] # None /\ maker'[w] # v =>
                   \E i \in Invitations : v \in admitted'[i] /\ invitations'[i].workspace = w
  BY <1>2 DEF SeatsInv, MembershipsAreGranted
<1> QED
  BY <1>4, <1>5, <1>6 DEF MembershipsAreGranted

LEMMA FoundedKept ==
  ASSUME TInv, SeatsInv, Offers, UNCHANGED <<founder, maker, workspaces>>,
         \A i \in Invitations : invitations[i] = None /\ invitations'[i] # None =>
             founder[invitations'[i].org] # None
  PROVE  Founded'
BY DEF SeatsInv, Founded, Offers

\* Calls begin, end, or find memberships; none is granted.
LEMMA NoneGranted ==
  ASSUME TInv, StatusInv, SeatsInv, Offers, Founded',
         UNCHANGED <<org_members, workspace_members, founder, maker, admitted>>,
         \A s \in Threads : job'[s] # None /\ job'[s] # job[s] =>
             /\ job'[s].member = None /\ job'[s].ws_member = None
             /\ ~Inserted(s)'
  PROVE  SeatsInv'
<1>1. \A s \in Threads : Inserted(s)' => job[s] # None /\ job'[s] = job[s] /\ Inserted(s)
  BY SameCall DEF Inserted, At
<1>2. SeatsFree'
  BY <1>1, SameCall DEF SeatsInv, SeatsFree
<1>3. Found'
  <2> SUFFICES ASSUME NEW s \in Threads, job'[s] # None
               PROVE  /\ job'[s].member # None => org_members'[Seat(s)'] # None
                      /\ job'[s].ws_member # None =>
                           (Row(s).workspace)' # None /\ workspace_members'[Desk(s)'] # None
    BY DEF Found
  <2>1. CASE job'[s] = job[s]
    BY <2>1, SameCall DEF SeatsInv, Found
  <2>2. CASE job'[s] # job[s]
    BY <2>2
  <2> QED
    BY <2>1, <2>2
<1> QED
  BY <1>2, <1>3, GrantsKept DEF SeatsInv

LEMMA MFind ==
  ASSUME TInv, StatusInv, SeatsInv, Offers, NEW t \in Threads,
         find_membership(t) \/ (find_workspace_membership(t) /\ ~End(t))
  PROVE  SeatsInv'
<1>1. /\ UNCHANGED <<tables, history>> /\ job[t] # None /\ job[t] \in Jobs
      /\ Row(t) \in InvitationRows
  BY Held DEF find_membership, find_workspace_membership, At
<1>2. Founded'
  BY <1>1, FoundedKept DEF tables, history
<1>3. PICK j \in Jobs :
         /\ job' = [job EXCEPT ![t] = j]
         /\ j.invitation = job[t].invitation /\ j.user = job[t].user
         /\ \/ /\ find_membership(t) /\ j.ws_member = job[t].ws_member
               /\ j.member = org_members[Seat(t)]
               /\ j.at = "commit" => Row(t).workspace = None
            \/ /\ find_workspace_membership(t) /\ ~End(t) /\ j.member = job[t].member
               /\ j.ws_member = workspace_members[Desk(t)]
               /\ Row(t).workspace # None
  <2>1. CASE find_membership(t)
    <3> DEFINE place == IF Row(t).workspace = None THEN "commit" ELSE "find_workspace_membership"
               j == [job[t] EXCEPT !.member = org_members[Seat(t)], !.at = place]
    <3>1. job' = [job EXCEPT ![t] = j]
      BY <2>1 DEF find_membership
    <3>2. org_members[Seat(t)] \in OrgRoles \cup {None}
      BY <1>1, Held DEF TInv, TypeOK
    <3>3. /\ j \in Jobs /\ j.invitation = job[t].invitation /\ j.user = job[t].user
          /\ j.ws_member = job[t].ws_member /\ j.member = org_members[Seat(t)]
          /\ j.at = "commit" => Row(t).workspace = None
      BY <1>1, <3>2 DEF Jobs
    <3> HIDE DEF j
    <3> QED
      BY <2>1, <3>1, <3>3
  <2>2. CASE find_workspace_membership(t) /\ ~End(t)
    <3> DEFINE j == [job[t] EXCEPT !.ws_member = workspace_members[Desk(t)], !.at = "commit"]
    <3>1. job' = [job EXCEPT ![t] = j]
      BY <2>2 DEF find_workspace_membership
    <3>2. Row(t).workspace # None
      BY <1>1, <2>2 DEF TInv, JobsFit, Fits, Row, find_workspace_membership, At
    <3>3. workspace_members[Desk(t)] \in WorkspaceRoles \cup {None}
      BY <1>1, <3>2, Held DEF TInv, TypeOK
    <3>4. /\ j \in Jobs /\ j.invitation = job[t].invitation /\ j.user = job[t].user
          /\ j.ws_member = workspace_members[Desk(t)] /\ j.member = job[t].member
      BY <1>1, <3>3 DEF Jobs
    <3> HIDE DEF j
    <3> QED
      BY <2>2, <3>1, <3>2, <3>4
  <2> QED
    BY <2>1, <2>2
<1>4. job'[t] = j /\ j # None /\ \A s \in Threads : s # t => job'[s] = job[s]
  BY <1>3, NoneAssumption DEF TInv, TypeOK
<1>5. Seat(t)' = Seat(t) /\ Desk(t)' = Desk(t) /\ (Row(t).workspace)' = Row(t).workspace
  BY <1>1, <1>3, <1>4, SameSeat
<1>6. Found'
  <2> SUFFICES ASSUME NEW s \in Threads, job'[s] # None
               PROVE  /\ job'[s].member # None => org_members'[Seat(s)'] # None
                      /\ job'[s].ws_member # None =>
                           (Row(s).workspace)' # None /\ workspace_members'[Desk(s)'] # None
    BY DEF Found
  <2>1. CASE s # t
    BY <1>1, <1>4, <2>1, SameCall DEF SeatsInv, Found, tables
  <2>2. CASE s = t
    BY <1>1, <1>3, <1>4, <1>5, <2>2 DEF SeatsInv, Found, tables
  <2> QED
    BY <2>1, <2>2
<1>7. \A s \in Threads : s # t => (Inserted(s)' <=> Inserted(s))
  BY <1>4, SameCall
<1>8. \A s \in Threads : s # t /\ Inserted(s) => Seat(s)' = Seat(s)
  BY <1>4, SameCall DEF Inserted, At
<1>9. Inserted(t)' => /\ org_members[Seat(t)] = None
                      /\ \A s \in Threads \ {t} : Inserted(s) => Seat(s) # Seat(t)
  <2> SUFFICES ASSUME Inserted(t)'
               PROVE  /\ org_members[Seat(t)] = None
                      /\ \A s \in Threads \ {t} : Inserted(s) => Seat(s) # Seat(t)
    OBVIOUS
  <2>1. j.at = "commit" /\ j.member = None /\ Row(t).workspace # None
    BY <1>4, <1>5 DEF Inserted, At
  <2>2. find_workspace_membership(t) /\ ~End(t) /\ job[t].member = None
    BY <1>3, <2>1
  <2>3. ~Inserted(t) /\ ~SeatTaken(t) /\ ~Waits(t)
    BY <2>2 DEF find_workspace_membership, Inserted, At
  <2> QED
    BY <2>2, <2>3 DEF SeatTaken, Waits
<1>10. SeatsFree'
  <2> SUFFICES ASSUME NEW s \in Threads, Inserted(s)'
               PROVE  /\ org_members'[Seat(s)'] = None
                      /\ \A r \in Threads \ {s} : Inserted(r)' => Seat(r)' # Seat(s)'
    BY DEF SeatsFree
  <2>1. CASE s = t
    BY <1>1, <1>5, <1>7, <1>8, <1>9, <2>1 DEF tables
  <2>2. CASE s # t
    BY <1>1, <1>5, <1>7, <1>8, <1>9, <2>2 DEF tables, SeatsInv, SeatsFree
  <2> QED
    BY <2>1, <2>2
<1> QED
  BY <1>1, <1>2, <1>6, <1>10, GrantsKept DEF SeatsInv, tables, history

\* What is committed goes to a seat that was free, or was found taken; no
\* other call has inserted the same.
LEMMA MCommit ==
  ASSUME TInv, StatusInv, SeatsInv, Offers, NEW t \in Threads, commit(t), CommitAccept(t)
  PROVE  SeatsInv'
<1> DEFINE i == job[t].invitation
           u == job[t].user
           o == invitations[i].org
           w == invitations[i].workspace
           role == GrantedRole(invitations[i].role)
<1>1. /\ At(t, "commit") /\ ~Waits(t) /\ ~SeatTaken(t) /\ ~DeskTaken(t)
      /\ org_members' = WithSeat(t) /\ workspace_members' = WithDesk(t)
      /\ admitted' = [admitted EXCEPT ![i] = @ \cup {u}]
      /\ job' = [job EXCEPT ![t].at = "log_event"]
      /\ UNCHANGED <<workspaces, founder, maker>>
      /\ invitations' = [invitations EXCEPT ![i].status = "ACCEPTED"]
  BY DEF commit, CommitAccept
<1>2. /\ job[t] # None /\ job[t] \in Jobs /\ i \in Invitations /\ u \in Users
      /\ invitations[i] \in InvitationRows /\ invitations[i] # None
      /\ Seat(t) = <<o, u>> /\ Desk(t) = <<w, u>> /\ Row(t) = invitations[i]
      /\ o \in Orgs /\ w \in Workspaces \cup {None}
  BY <1>1, Held DEF At, TInv, JobsFit, Fits, Row, Jobs, Seat, Desk, InvitationRows
<1>3. /\ job'[t] # None /\ job'[t].at = "log_event" /\ job'[t].invitation = i
      /\ job'[t].user = u /\ job'[t].member = job[t].member /\ job'[t].ws_member = job[t].ws_member
      /\ \A s \in Threads : s # t => job'[s] = job[s]
  <2> DEFINE j == [job[t] EXCEPT !.at = "log_event"]
  <2>1. /\ j \in Jobs /\ j.at = "log_event" /\ j.invitation = i /\ j.user = u
        /\ j.member = job[t].member /\ j.ws_member = job[t].ws_member
    BY <1>2 DEF Jobs
  <2>2. job' = [job EXCEPT ![t] = j]
    BY <1>1
  <2> HIDE DEF j
  <2> QED
    BY <2>1, <2>2, NoneAssumption DEF TInv, TypeOK
<1>4. \/ job[t].member # None /\ org_members' = org_members
      \/ /\ job[t].member = None /\ org_members[<<o, u>>] = None
         /\ org_members' = [org_members EXCEPT ![<<o, u>>] = role]
         /\ \A s \in Threads \ {t} : Inserted(s) => Seat(s) # <<o, u>>
  <2>1. CASE job[t].member # None
    BY <1>1, <2>1 DEF WithSeat
  <2>2. CASE job[t].member = None
    <3>1. org_members' = [org_members EXCEPT ![<<o, u>>] = role]
      BY <1>1, <1>2, <2>2 DEF WithSeat
    <3>2. /\ org_members[<<o, u>>] = None
          /\ \A s \in Threads \ {t} : Inserted(s) => Seat(s) # <<o, u>>
      BY <1>1, <1>2, <2>2 DEF SeatTaken, Waits, SeatsInv, SeatsFree
    <3> QED
      BY <2>2, <3>1, <3>2
  <2> QED
    BY <2>1, <2>2
<1>5. \/ (job[t].ws_member # None \/ w = None) /\ workspace_members' = workspace_members
      \/ /\ job[t].ws_member = None /\ w # None /\ workspace_members[<<w, u>>] = None
         /\ workspace_members' = [workspace_members EXCEPT ![<<w, u>>] = "MEMBER"]
  BY <1>1, <1>2 DEF WithDesk, DeskTaken
<1>6. role \in OrgRoles /\ role # None /\ "MEMBER" # None /\ None \notin Workspaces
  BY Granted, OrgAssumption DEF OrgRoles
<1> HIDE DEF i, u, o, w, role
<1>7. /\ \A k \in Orgs \X Users : org_members[k] # None => org_members'[k] = org_members[k]
      /\ \A k \in Workspaces \X Users :
             workspace_members[k] # None => workspace_members'[k] = workspace_members[k]
  BY <1>4, <1>5 DEF TInv, TypeOK
<1>8. org_members'[<<o, u>>] # None /\ (w # None => workspace_members'[<<w, u>>] # None)
  BY <1>2, <1>4, <1>5, <1>6 DEF TInv, TypeOK, SeatsInv, Found
<1>9. Founded'
  <2>1. \A k \in Invitations : invitations[k] = None => invitations'[k] = None
    BY <1>1, <1>2 DEF TInv, TypeOK
  <2> QED
    BY <1>1, <2>1, FoundedKept
<1>10. \A s \in Threads : Inserted(s)' => s # t /\ Inserted(s) /\ Seat(s)' = Seat(s)
  BY <1>3, SameCall DEF Inserted, At
<1>11. SeatsFree'
  <2> SUFFICES ASSUME NEW s \in Threads, Inserted(s)'
               PROVE  /\ org_members'[Seat(s)'] = None
                      /\ \A r \in Threads \ {s} : Inserted(r)' => Seat(r)' # Seat(s)'
    BY DEF SeatsFree
  <2>1. s # t /\ Inserted(s) /\ Seat(s)' = Seat(s) /\ org_members[Seat(s)] = None
    BY <1>10 DEF SeatsInv, SeatsFree
  <2>2. Seat(s) \in Orgs \X Users
    BY <2>1, Held DEF Inserted, At
  <2>3. org_members'[Seat(s)] = None
    BY <1>2, <1>4, <2>1, <2>2 DEF TInv, TypeOK
  <2> QED
    BY <1>10, <2>1, <2>3 DEF SeatsInv, SeatsFree
<1>12. Found'
  <2> SUFFICES ASSUME NEW s \in Threads, job'[s] # None
               PROVE  /\ job'[s].member # None => org_members'[Seat(s)'] # None
                      /\ job'[s].ws_member # None =>
                           (Row(s).workspace)' # None /\ workspace_members'[Desk(s)'] # None
    BY DEF Found
  <2>1. /\ job[s] # None /\ job'[s].member = job[s].member /\ job'[s].ws_member = job[s].ws_member
        /\ Seat(s)' = Seat(s) /\ Desk(s)' = Desk(s) /\ (Row(s).workspace)' = Row(s).workspace
    <3>1. CASE s = t
      BY <1>2, <1>3, <3>1, SameSeat DEF i, u
    <3>2. CASE s # t
      BY <1>3, <3>2, SameCall
    <3> QED
      BY <3>1, <3>2
  <2>2. /\ Seat(s) \in Orgs \X Users
        /\ Row(s).workspace # None => Desk(s) \in Workspaces \X Users
    BY <2>1, Held
  <2> QED
    BY <1>7, <2>1, <2>2 DEF SeatsInv, Found
<1>13. admitted'[i] = admitted[i] \cup {u} /\ \A k \in Invitations : k # i => admitted'[k] = admitted[k]
  BY <1>1, <1>2 DEF TInv, TypeOK
<1>14. \A k \in Invitations, v \in Users :
          v \in admitted'[k] => /\ v \in admitted[k] \/ (k = i /\ v = u)
                                /\ invitations[k] # None /\ invitations[k] \in InvitationRows
                                /\ invitations'[k].org = invitations[k].org
                                /\ invitations'[k].workspace = invitations[k].workspace
                                /\ invitations'[k].role = invitations[k].role
  <2> SUFFICES ASSUME NEW k \in Invitations, NEW v \in Users, v \in admitted'[k]
               PROVE  (v \in admitted[k] \/ (k = i /\ v = u)) /\ invitations[k] # None
    BY DEF Offers, TInv, TypeOK
  <2> QED
    BY <1>2, <1>13 DEF StatusInv, NobodyYet
<1>15. ASSUME NEW k \in Invitations, NEW v \in admitted'[k]
       PROVE  /\ org_members'[<<invitations'[k].org, v>>] # None
              /\ invitations'[k].workspace # None =>
                     workspace_members'[<<invitations'[k].workspace, v>>] # None
  <2>1. v \in Users
    BY <1>2, <1>13, <1>15 DEF TInv, TypeOK
  <2>2. CASE v \in admitted[k]
    <3>1. /\ org_members[<<invitations[k].org, v>>] # None
          /\ invitations[k].workspace # None => workspace_members[<<invitations[k].workspace, v>>] # None
      BY <2>2 DEF SeatsInv, MembershipsAreGranted
    <3>2. invitations[k].org \in Orgs /\ invitations[k].workspace \in Workspaces \cup {None}
      BY <1>14, <1>15, <2>1 DEF InvitationRows
    <3> QED
      BY <1>7, <1>14, <1>15, <2>1, <3>1, <3>2
  <2>3. CASE k = i /\ v = u
    BY <1>8, <1>14, <1>15, <2>1, <2>3 DEF o, w
  <2> QED
    BY <1>14, <1>15, <2>1, <2>2, <2>3
<1>16. ASSUME NEW q \in Orgs, NEW v \in Users
       PROVE  /\ founder'[q] = v => org_members'[<<q, v>>] = "OWNER"
              /\ org_members'[<<q, v>>] # None /\ founder'[q] # v =>
                     InvitedAs(q, v, org_members[<<q, v>>])'
  <2>1. founder'[q] = v => org_members'[<<q, v>>] = "OWNER"
    BY <1>1, <1>7, OrgAssumption DEF SeatsInv, MembershipsAreGranted, OrgRoles
  <2>2. ASSUME org_members'[<<q, v>>] # None, founder'[q] # v
        PROVE  InvitedAs(q, v, org_members[<<q, v>>])'
    <3>1. CASE org_members[<<q, v>>] # None
      <4>1. /\ InvitedAs(q, v, org_members[<<q, v>>]) /\ org_members[<<q, v>>] \in OrgRoles
            /\ org_members'[<<q, v>>] = org_members[<<q, v>>]
        BY <1>1, <1>7, <2>2, <3>1 DEF SeatsInv, MembershipsAreGranted, TInv, TypeOK
      <4>2. PICK k \in Invitations : /\ v \in admitted[k] /\ invitations[k].org = q
                                     /\ GrantedRole(invitations[k].role) = org_members[<<q, v>>]
        BY <4>1 DEF InvitedAs
      <4>3. v \in admitted'[k]
        BY <1>13, <4>2
      <4> QED
        BY <1>14, <4>1, <4>2, <4>3 DEF InvitedAs, GrantedRole
    <3>2. CASE org_members[<<q, v>>] = None
      <4>1. q = o /\ v = u /\ org_members'[<<q, v>>] = role
        BY <1>2, <1>4, <2>2, <3>2 DEF TInv, TypeOK
      <4> QED
        BY <1>2, <1>13, <1>14, <4>1 DEF InvitedAs, GrantedRole, o, role
    <3> QED
      BY <3>1, <3>2
  <2> QED
    BY <2>1, <2>2
<1>17. ASSUME NEW x \in Workspaces, NEW v \in Users
       PROVE  /\ maker'[x] = v => workspace_members'[<<x, v>>] = "WORKSPACE_ADMIN"
              /\ workspace_members'[<<x, v>>] # None /\ maker'[x] # v =>
                    \E k \in Invitations : v \in admitted'[k] /\ invitations'[k].workspace = x
  <2>1. maker'[x] = v => workspace_members'[<<x, v>>] = "WORKSPACE_ADMIN"
    BY <1>1, <1>7, OrgAssumption DEF SeatsInv, MembershipsAreGranted, WorkspaceRoles
  <2>2. ASSUME workspace_members'[<<x, v>>] # None, maker'[x] # v
        PROVE  \E k \in Invitations : v \in admitted'[k] /\ invitations'[k].workspace = x
    <3>1. CASE workspace_members[<<x, v>>] # None
      BY <1>1, <1>13, <1>14, <2>2, <3>1 DEF SeatsInv, MembershipsAreGranted
    <3>2. CASE workspace_members[<<x, v>>] = None
      <4>1. x = w /\ v = u
        BY <1>2, <1>5, <2>2, <3>2 DEF TInv, TypeOK
      <4> QED
        BY <1>2, <1>13, <1>14, <4>1 DEF w
    <3> QED
      BY <3>1, <3>2
  <2> QED
    BY <2>1, <2>2
<1>18. MembershipsAreGranted'
  BY <1>15, <1>16, <1>17 DEF MembershipsAreGranted
<1> QED
  BY <1>9, <1>11, <1>12, <1>18 DEF SeatsInv

\* A new organization is nobody's yet, and a new workspace too.
LEMMA MCreate ==
  ASSUME TInv, StatusInv, SeatsInv, NEW u \in Users, NEW o \in Orgs, NEW w \in Workspaces,
         create_organization(u, o, w) \/ create_workspace(u, o, w)
  PROVE  SeatsInv'
<1>1. /\ UNCHANGED <<invitations, admitted, job>> /\ workspaces[w] = None
      /\ maker' = [maker EXCEPT ![w] = u] /\ workspaces' = [workspaces EXCEPT ![w] = o]
      /\ workspace_members' = [workspace_members EXCEPT ![<<w, u>>] = "WORKSPACE_ADMIN"]
      /\ \/ UNCHANGED <<founder, org_members>>
         \/ /\ founder[o] = None /\ founder' = [founder EXCEPT ![o] = u]
            /\ org_members' = [org_members EXCEPT ![<<o, u>>] = "OWNER"]
  BY DEF create_organization, create_workspace, Fresh
<1>2. maker[w] = None
  BY <1>1 DEF SeatsInv, Founded
<1>3. u # None /\ o # None /\ "OWNER" # None /\ "WORKSPACE_ADMIN" # None
  BY OrgAssumption DEF OrgRoles, WorkspaceRoles
<1>4. /\ \A k \in Orgs \X Users : org_members[k] # None => org_members'[k] # None
      /\ \A k \in Workspaces \X Users : workspace_members[k] # None => workspace_members'[k] # None
  BY <1>1, <1>3 DEF TInv, TypeOK
<1>5. Founded'
  <2>1. \A q \in Orgs : founder[q] # None => founder'[q] # None
    BY <1>1, <1>3 DEF TInv, TypeOK
  <2>2. \A i \in Invitations : invitations[i] # None => invitations[i].org \in Orgs
    BY DEF TInv, TypeOK, InvitationRows
  <2>3. \A x \in Workspaces : workspaces'[x] = None => workspaces[x] = None /\ maker'[x] = maker[x]
    BY <1>1, <1>3 DEF TInv, TypeOK
  <2> QED
    BY <1>1, <2>1, <2>2, <2>3 DEF SeatsInv, Founded
<1>6. \A s \in Threads : /\ Inserted(s)' <=> Inserted(s)
                         /\ Seat(s)' = Seat(s) /\ Desk(s)' = Desk(s) /\ Row(s)' = Row(s)
  BY <1>1 DEF Inserted, At, Seat, Desk, Row
<1>7. Found'
  <2> SUFFICES ASSUME NEW s \in Threads, job'[s] # None
               PROVE  /\ job'[s].member # None => org_members'[Seat(s)'] # None
                      /\ job'[s].ws_member # None =>
                           (Row(s).workspace)' # None /\ workspace_members'[Desk(s)'] # None
    BY DEF Found
  <2>1. /\ Seat(s) \in Orgs \X Users
        /\ Row(s).workspace # None => Desk(s) \in Workspaces \X Users
    BY <1>1, Held
  <2> QED
    BY <1>1, <1>4, <1>6, <2>1 DEF SeatsInv, Found
<1>8. \A s \in Threads : Inserted(s) => org_members'[Seat(s)] = None
  <2> SUFFICES ASSUME NEW s \in Threads, Inserted(s) PROVE org_members'[Seat(s)] = None
    OBVIOUS
  <2>1. /\ org_members[Seat(s)] = None /\ Seat(s) \in Orgs \X Users
        /\ Row(s) \in InvitationRows /\ Seat(s) = <<Row(s).org, job[s].user>>
        /\ job[s].invitation \in Invitations
    BY Held DEF SeatsInv, SeatsFree, Inserted, At, Seat, Jobs
  <2>2. founder[Row(s).org] # None
    BY <2>1, NoneAssumption DEF SeatsInv, Founded, Row
  <2> QED
    BY <1>1, <2>1, <2>2 DEF TInv, TypeOK
<1>9. SeatsFree'
  BY <1>6, <1>8 DEF SeatsInv, SeatsFree
<1>10. ASSUME NEW i \in Invitations, NEW v \in admitted'[i]
       PROVE  /\ org_members'[<<invitations'[i].org, v>>] # None
              /\ invitations'[i].workspace # None =>
                     workspace_members'[<<invitations'[i].workspace, v>>] # None
  <2>1. v \in admitted[i] /\ v \in Users /\ invitations[i] \in InvitationRows
    BY <1>1, <1>10 DEF StatusInv, NobodyYet, TInv, TypeOK
  <2>2. invitations[i].org \in Orgs /\ invitations[i].workspace \in Workspaces \cup {None}
    BY <2>1 DEF InvitationRows
  <2> QED
    BY <1>1, <1>4, <2>1, <2>2 DEF SeatsInv, MembershipsAreGranted
<1>11. ASSUME NEW q \in Orgs, NEW v \in Users
       PROVE  /\ founder'[q] = v => org_members'[<<q, v>>] = "OWNER"
              /\ org_members'[<<q, v>>] # None /\ founder'[q] # v =>
                     InvitedAs(q, v, org_members[<<q, v>>])'
  <2>1. CASE q = o /\ v = u /\ ~UNCHANGED <<founder, org_members>>
    BY <1>1, <2>1 DEF TInv, TypeOK
  <2>2. CASE q # o \/ v # u \/ UNCHANGED <<founder, org_members>>
    <3>1. /\ org_members'[<<q, v>>] = org_members[<<q, v>>]
          /\ founder'[q] = v <=> founder[q] = v
      BY <1>1, <1>3, <2>2, OrgAssumption DEF TInv, TypeOK
    <3> QED
      BY <1>1, <3>1 DEF SeatsInv, MembershipsAreGranted, InvitedAs
  <2> QED
    BY <2>1, <2>2
<1>12. ASSUME NEW x \in Workspaces, NEW v \in Users
       PROVE  /\ maker'[x] = v => workspace_members'[<<x, v>>] = "WORKSPACE_ADMIN"
              /\ workspace_members'[<<x, v>>] # None /\ maker'[x] # v =>
                    \E k \in Invitations : v \in admitted'[k] /\ invitations'[k].workspace = x
  <2>1. CASE x = w /\ v = u
    BY <1>1, <2>1 DEF TInv, TypeOK
  <2>2. CASE x # w \/ v # u
    <3>1. /\ workspace_members'[<<x, v>>] = workspace_members[<<x, v>>]
          /\ maker'[x] = v <=> maker[x] = v
      BY <1>1, <1>2, <2>2, OrgAssumption DEF TInv, TypeOK
    <3> QED
      BY <1>1, <3>1 DEF SeatsInv, MembershipsAreGranted
  <2> QED
    BY <2>1, <2>2
<1>13. MembershipsAreGranted'
  BY <1>10, <1>11, <1>12 DEF MembershipsAreGranted
<1> QED
  BY <1>5, <1>7, <1>9, <1>13 DEF SeatsInv

LEMMA SeatsNext == TInv /\ StatusInv /\ SeatsInv /\ [Next]_vars => SeatsInv'
<1> SUFFICES ASSUME TInv, StatusInv, SeatsInv, [Next]_vars PROVE SeatsInv'
  OBVIOUS
<1>1. Offers
  BY TypeNext
<1>2. CASE UNCHANGED vars
  BY <1>1, <1>2, NoneGranted, FoundedKept DEF vars
<1>3. CASE \E u \in Users, o \in Orgs, w \in Workspaces :
             create_organization(u, o, w) \/ create_workspace(u, o, w)
  BY <1>3, MCreate
<1>4. ASSUME NEW i \in Invitations, NEW o \in Orgs, NEW w \in Workspaces \cup {None},
             NEW r \in InvitedRoles, create_invitation(i, o, w, r)
      PROVE  SeatsInv'
  <2> DEFINE row == [org |-> o, workspace |-> w, role |-> r, status |-> "PENDING", overdue |-> FALSE]
  <2>1. /\ invitations' = [invitations EXCEPT ![i] = row] /\ founder[o] # None
        /\ UNCHANGED <<org_members, workspaces, workspace_members, job, founder, maker, admitted>>
    BY <1>4 DEF create_invitation, history
  <2>2. \A k \in Invitations : invitations[k] = None /\ invitations'[k] # None =>
            founder[invitations'[k].org] # None
    BY <2>1 DEF TInv, TypeOK
  <2>3. Founded'
    BY <1>1, <2>1, <2>2, FoundedKept
  <2> QED
    BY <1>1, <2>1, <2>3, NoneGranted
<1>5. ASSUME NEW i \in Invitations, Overdue(i) PROVE SeatsInv'
  <2>1. /\ UNCHANGED <<org_members, workspaces, workspace_members, job, founder, maker, admitted>>
        /\ invitations' = [invitations EXCEPT ![i].overdue = TRUE] /\ invitations[i] # None
    BY <1>5 DEF Overdue, history
  <2>2. Founded'
    BY <1>1, <2>1, FoundedKept DEF TInv, TypeOK
  <2> QED
    BY <1>1, <2>1, <2>2, NoneGranted
<1>6. ASSUME NEW t \in Threads, NEW i \in Invitations, NEW u \in Users, find_invitation(t, u, i)
      PROVE  SeatsInv'
  <2> DEFINE place == IF invitations[i].overdue THEN "mark_expired" ELSE "find_membership"
             j == [at |-> place, user |-> u, invitation |-> i, member |-> None, ws_member |-> None]
  <2>1. job' = [job EXCEPT ![t] = j] /\ UNCHANGED <<tables, founder, maker, admitted>>
    BY <1>6 DEF find_invitation
  <2>2. j.member = None /\ j.ws_member = None /\ j.at # "commit"
    OBVIOUS
  <2> HIDE DEF j
  <2>3. \A s \in Threads : job'[s] # None /\ job'[s] # job[s] =>
            job'[s].member = None /\ job'[s].ws_member = None /\ ~Inserted(s)'
    BY <2>1, <2>2 DEF TInv, TypeOK, Inserted, At
  <2>4. Founded'
    BY <1>1, <2>1, FoundedKept DEF tables
  <2> QED
    BY <1>1, <2>1, <2>3, <2>4, NoneGranted DEF tables
<1>7. ASSUME NEW t \in Threads, Statement(t) PROVE SeatsInv'
  <2>1. CASE commit(t) /\ CommitAccept(t)
    BY <1>1, <2>1, MCommit
  <2>2. CASE find_membership(t) \/ (find_workspace_membership(t) /\ ~End(t))
    BY <1>1, <2>2, MFind
  <2>3. CASE \/ mark_expired(t) \/ log_event(t) \/ (commit(t) /\ RollBack(t))
             \/ (find_workspace_membership(t) /\ End(t))
    <3>1. /\ job' = [job EXCEPT ![t] = None]
          /\ UNCHANGED <<org_members, workspaces, workspace_members, founder, maker, admitted>>
      BY <2>3 DEF mark_expired, log_event, commit, RollBack, find_workspace_membership, End, tables, history
    <3>2. \A s \in Threads : job'[s] # None => job'[s] = job[s]
      BY <3>1 DEF TInv, TypeOK
    <3>3. \A i \in Invitations : invitations[i] = None => invitations'[i] = None
      <4>1. CASE mark_expired(t)
        <5>1. job[t].invitation \in Invitations /\ invitations[job[t].invitation] # None
          BY <4>1, Held, NoneAssumption DEF mark_expired, At, Jobs, Row
        <5> QED
          BY <4>1, <5>1 DEF mark_expired, TInv, TypeOK
      <4>2. CASE UNCHANGED invitations
        BY <4>2
      <4> QED
        BY <2>3, <4>1, <4>2 DEF log_event, commit, RollBack, find_workspace_membership, tables
    <3>4. Founded'
      BY <1>1, <3>1, <3>3, FoundedKept
    <3> QED
      BY <1>1, <3>1, <3>2, <3>4, NoneGranted
  <2> QED
    BY <1>7, <2>1, <2>2, <2>3 DEF Statement, commit
<1> QED
  BY <1>2, <1>3, <1>4, <1>5, <1>6, <1>7 DEF Next, refuse

\* An invitation nobody else had in hand when it was taken up admits one user.
THEOREM AdmitsOneUser == Spec => []AdmitsOne
<1>1. Init => TInv /\ StatusInv
  BY TypeInit, StatusInit
<1>2. TInv /\ StatusInv /\ [Next]_vars => TInv' /\ StatusInv'
  BY TypeNext, StatusNext
<1>3. StatusInv => AdmitsOne
  BY DEF StatusInv
<1> QED
  BY <1>1, <1>2, <1>3, PTL DEF Spec

\* The status of an invitation tells what became of it.
THEOREM StatusIsTold == Spec => []StatusTells
<1>1. Init => TInv /\ StatusInv
  BY TypeInit, StatusInit
<1>2. TInv /\ StatusInv /\ [Next]_vars => TInv' /\ StatusInv'
  BY TypeNext, StatusNext
<1>3. StatusInv => StatusTells
  BY DEF StatusInv
<1> QED
  BY <1>1, <1>2, <1>3, PTL DEF Spec

\* The audit trail has an acceptance only where one was committed.
THEOREM AuditTrail == Spec => []AuditIsTrue
<1>1. Init => TInv /\ StatusInv
  BY TypeInit, StatusInit
<1>2. TInv /\ StatusInv /\ [Next]_vars => TInv' /\ StatusInv'
  BY TypeNext, StatusNext
<1>3. StatusInv => AuditIsTrue
  BY DEF StatusInv
<1> QED
  BY <1>1, <1>2, <1>3, PTL DEF Spec

\* Whoever an invitation admitted has its memberships, and nobody else but
\* those who founded the organization or made the workspace.
THEOREM MembershipsGranted == Spec => []MembershipsAreGranted
<1>1. Init => TInv /\ StatusInv /\ SeatsInv
  BY TypeInit, StatusInit, SeatsInit
<1>2. TInv /\ StatusInv /\ SeatsInv /\ [Next]_vars => TInv' /\ StatusInv' /\ SeatsInv'
  BY TypeNext, StatusNext, SeatsNext
<1>3. SeatsInv => MembershipsAreGranted
  BY DEF SeatsInv
<1> QED
  BY <1>1, <1>2, <1>3, PTL DEF Spec
=============================================================================

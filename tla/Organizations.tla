--------------------------- MODULE Organizations ---------------------------
(***************************************************************************)
(* OrganizationService of auth/services: organizations, workspaces and the *)
(* invitations that admit users to them.  Every session of the repository  *)
(* is one transaction at READ COMMITTED.  accept_invitation reads three    *)
(* tables before it writes them; what it adds goes out with its commit, or *)
(* already before the look for the workspace membership (autoflush), and   *)
(* an INSERT waits for a transaction that holds the same primary key.      *)
(*                                                                         *)
(* An invitation id stands for its token.  Names, slugs and e-mails are    *)
(* left out; an invitation may name a workspace of any organization, which *)
(* create_invitation does not check.                                       *)
(***************************************************************************)
EXTENDS FiniteSets

CONSTANTS Threads, Users, Orgs, Workspaces, Invitations,
          InvitedRoles,  \* what the body of a request may give as the role
          None

OrgRoles == {"OWNER", "ADMIN", "MEMBER", "GUEST"}
WorkspaceRoles == {"WORKSPACE_ADMIN", "MEMBER"}

ASSUME OrgAssumption ==
    /\ None \notin Users \cup Orgs \cup Workspaces
    /\ None \notin OrgRoles \cup WorkspaceRoles

VARIABLES org_members,        \* auth_org_members: the role of a user, or None
          workspaces,         \* auth_workspaces: the organization, or None
          workspace_members,  \* auth_workspace_members, likewise
          invitations,        \* the rows of auth_invitations
          audit_events,       \* the INVITATION_ACCEPTED events
          job,                \* the accept_invitation each thread is in
          founder,            \* history: who created an organization, or None
          maker,              \* history: who created a workspace, or None
          admitted,           \* history: whom each invitation let in
          contested           \* history: invitations two calls had in hand at once

vars == <<org_members, workspaces, workspace_members, invitations, audit_events,
          job, founder, maker, admitted, contested>>
tables == <<org_members, workspaces, workspace_members, invitations, audit_events>>
history == <<founder, maker, admitted, contested>>

InvitationRows == [org : Orgs, workspace : Workspaces \cup {None}, role : InvitedRoles,
                   status : {"PENDING", "ACCEPTED", "EXPIRED"}, overdue : BOOLEAN]

\* at: the next statement; member, ws_member: the role the look-ups found.
Jobs == [at : {"mark_expired", "find_membership", "find_workspace_membership",
               "commit", "log_event"},
         user : Users, invitation : Invitations,
         member : OrgRoles \cup {None}, ws_member : WorkspaceRoles \cup {None}]

ASSUME NoneAssumption == None \notin InvitationRows /\ None \notin Jobs

\* The rows and the calls in hand have the shapes of the ORM's tables.
TypeOK ==
    /\ org_members \in [Orgs \X Users -> OrgRoles \cup {None}]
    /\ workspaces \in [Workspaces -> Orgs \cup {None}]
    /\ workspace_members \in [Workspaces \X Users -> WorkspaceRoles \cup {None}]
    /\ invitations \in [Invitations -> InvitationRows \cup {None}]
    /\ audit_events \subseteq Users \X Invitations
    /\ job \in [Threads -> Jobs \cup {None}]
    /\ founder \in [Orgs -> Users \cup {None}]
    /\ maker \in [Workspaces -> Users \cup {None}]
    /\ admitted \in [Invitations -> SUBSET Users]
    /\ contested \subseteq Invitations

Init ==
    /\ org_members = [k \in Orgs \X Users |-> None]
    /\ workspaces = [w \in Workspaces |-> None]
    /\ workspace_members = [k \in Workspaces \X Users |-> None]
    /\ invitations = [i \in Invitations |-> None]
    /\ audit_events = {}
    /\ job = [t \in Threads |-> None]
    /\ founder = [o \in Orgs |-> None]
    /\ maker = [w \in Workspaces |-> None]
    /\ admitted = [i \in Invitations |-> {}]
    /\ contested = {}

-----------------------------------------------------------------------------
\* uuid4 gives an id that no row has; which one does not matter.
Fresh(id, table) == table[id] = None /\ id = CHOOSE x \in DOMAIN table : table[x] = None

\* The organization, its owner, its workspace and that one's admin are one
\* transaction.
create_organization(u, o, w) ==
    /\ Fresh(o, founder) /\ Fresh(w, workspaces)
    /\ founder' = [founder EXCEPT ![o] = u]
    /\ maker' = [maker EXCEPT ![w] = u]
    /\ org_members' = [org_members EXCEPT ![<<o, u>>] = "OWNER"]
    /\ workspaces' = [workspaces EXCEPT ![w] = o]
    /\ workspace_members' = [workspace_members EXCEPT ![<<w, u>>] = "WORKSPACE_ADMIN"]
    /\ UNCHANGED <<invitations, audit_events, job, admitted, contested>>

create_workspace(u, o, w) ==
    /\ founder[o] # None /\ Fresh(w, workspaces)
    /\ maker' = [maker EXCEPT ![w] = u]
    /\ workspaces' = [workspaces EXCEPT ![w] = o]
    /\ workspace_members' = [workspace_members EXCEPT ![<<w, u>>] = "WORKSPACE_ADMIN"]
    /\ UNCHANGED <<org_members, invitations, audit_events, job, founder, admitted, contested>>

create_invitation(i, o, w, role) ==
    /\ Fresh(i, invitations) /\ founder[o] # None
    /\ w # None => workspaces[w] # None
    /\ invitations' = [invitations EXCEPT ![i] =
           [org |-> o, workspace |-> w, role |-> role,
            status |-> "PENDING", overdue |-> FALSE]]
    /\ UNCHANGED <<org_members, workspaces, workspace_members, audit_events, job, history>>

\* The expires_at of an invitation passes.
Overdue(i) ==
    /\ invitations[i] # None /\ ~invitations[i].overdue
    /\ invitations' = [invitations EXCEPT ![i].overdue = TRUE]
    /\ UNCHANGED <<org_members, workspaces, workspace_members, audit_events, job, history>>

-----------------------------------------------------------------------------
\* accept_invitation, a step for each statement it sends.
Row(t) == invitations[job[t].invitation]
Seat(t) == <<Row(t).org, job[t].user>>
Desk(t) == <<Row(t).workspace, job[t].user>>
At(t, step) == job[t] # None /\ job[t].at = step
End(t) == job' = [job EXCEPT ![t] = None]

\* In hand: the call has taken the invitation for pending and not committed.
Deciding(t, i) == job[t] # None /\ job[t].invitation = i /\ job[t].at # "log_event"

\* Mutant of Acceptable: the status is not looked at.
AcceptableEver(row) == TRUE

\* A token that is unknown or not pending is refused at once.
Acceptable(row) == row.status = "PENDING"

refuse(t, i) ==
    /\ job[t] = None
    /\ invitations[i] # None => ~Acceptable(invitations[i])
    /\ UNCHANGED vars

find_invitation(t, u, i) ==
    /\ job[t] = None /\ invitations[i] # None /\ Acceptable(invitations[i])
    /\ job' = [job EXCEPT ![t] =
           [at |-> IF invitations[i].overdue THEN "mark_expired" ELSE "find_membership",
            user |-> u, invitation |-> i,
            member |-> None, ws_member |-> None]]
    /\ contested' = contested \cup {j \in {i} : \E s \in Threads : Deciding(s, j)}
    /\ UNCHANGED <<tables, founder, maker, admitted>>

\* The UPDATE goes by the id, whatever the status is by now.
mark_expired(t) ==
    /\ At(t, "mark_expired")
    /\ invitations' = [invitations EXCEPT ![job[t].invitation].status = "EXPIRED"]
    /\ End(t)
    /\ UNCHANGED <<org_members, workspaces, workspace_members, audit_events, history>>

find_membership(t) ==
    /\ At(t, "find_membership")
    /\ job' = [job EXCEPT ![t].member = org_members[Seat(t)],
                          ![t].at = IF Row(t).workspace = None THEN "commit"
                                    ELSE "find_workspace_membership"]
    /\ UNCHANGED <<tables, history>>

\* The look for the workspace membership has sent the INSERT before it
\* (autoflush), and it is not committed.
Inserted(t) == At(t, "commit") /\ job[t].member = None /\ Row(t).workspace # None

\* The INSERT of a membership that another transaction has written waits.
Waits(t) ==
    /\ job[t].member = None /\ ~Inserted(t)
    /\ \E s \in Threads \ {t} : Inserted(s) /\ Seat(s) = Seat(t)

\* The INSERT violates the primary key: the call raises, the session rolls back.
SeatTaken(t) == job[t].member = None /\ ~Inserted(t) /\ org_members[Seat(t)] # None

find_workspace_membership(t) ==
    /\ At(t, "find_workspace_membership") /\ ~Waits(t)
    /\ \/ SeatTaken(t) /\ End(t)
       \/ /\ ~SeatTaken(t)
          /\ job' = [job EXCEPT ![t].ws_member = workspace_members[Desk(t)],
                                ![t].at = "commit"]
    /\ UNCHANGED <<tables, history>>

DeskTaken(t) ==
    Row(t).workspace # None /\ job[t].ws_member = None /\ workspace_members[Desk(t)] # None

GrantedRole(role) == IF role \in OrgRoles THEN role ELSE "MEMBER"

WithSeat(t) ==
    IF job[t].member # None THEN org_members
    ELSE [org_members EXCEPT ![Seat(t)] = GrantedRole(Row(t).role)]

\* Mutant of WithDesk: a member of the organization needs no workspace row.
WithDeskOfNewcomer(t) ==
    IF job[t].ws_member # None \/ Row(t).workspace = None \/ job[t].member # None THEN workspace_members
    ELSE [workspace_members EXCEPT ![Desk(t)] = "MEMBER"]

WithDesk(t) ==
    IF job[t].ws_member # None \/ Row(t).workspace = None THEN workspace_members
    ELSE [workspace_members EXCEPT ![Desk(t)] = "MEMBER"]

\* Both memberships and the status become visible together, or none does.
CommitAccept(t) ==
    /\ ~SeatTaken(t) /\ ~DeskTaken(t)
    /\ org_members' = WithSeat(t)
    /\ workspace_members' = WithDesk(t)
    /\ invitations' = [invitations EXCEPT ![job[t].invitation].status = "ACCEPTED"]
    /\ admitted' = [admitted EXCEPT ![job[t].invitation] = @ \cup {job[t].user}]
    /\ job' = [job EXCEPT ![t].at = "log_event"]

\* Mutant of RollBack: the audit event is written on the way out.
RollBackAudited(t) ==
    /\ SeatTaken(t) \/ DeskTaken(t)
    /\ job' = [job EXCEPT ![t].at = "log_event"]
    /\ UNCHANGED <<org_members, workspace_members, invitations, admitted>>

\* Mutant of RollBack: the status is in the database before the memberships are.
RollBackAccepted(t) ==
    /\ SeatTaken(t) \/ DeskTaken(t)
    /\ invitations' = [invitations EXCEPT ![job[t].invitation].status = "ACCEPTED"]
    /\ End(t)
    /\ UNCHANGED <<org_members, workspace_members, admitted>>

\* Mutant of RollBack: the commit is tried again on what was read before.
RollBackAndRetry(t) == (SeatTaken(t) \/ DeskTaken(t)) /\ UNCHANGED vars

RollBack(t) ==
    /\ SeatTaken(t) \/ DeskTaken(t)
    /\ End(t)
    /\ UNCHANGED <<org_members, workspace_members, invitations, admitted>>

commit(t) ==
    /\ At(t, "commit") /\ ~Waits(t)
    /\ CommitAccept(t) \/ RollBack(t)
    /\ UNCHANGED <<workspaces, audit_events, founder, maker, contested>>

\* AuditService.log_event: a transaction of its own after the commit.
log_event(t) ==
    /\ At(t, "log_event")
    /\ audit_events' = audit_events \cup {<<job[t].user, job[t].invitation>>}
    /\ End(t)
    /\ UNCHANGED <<org_members, workspaces, workspace_members, invitations, history>>

-----------------------------------------------------------------------------
Statement(t) ==
    \/ mark_expired(t) \/ find_membership(t) \/ find_workspace_membership(t)
    \/ commit(t) \/ log_event(t)

Next ==
    \/ \E u \in Users, o \in Orgs, w \in Workspaces :
           create_organization(u, o, w) \/ create_workspace(u, o, w)
    \/ \E i \in Invitations, o \in Orgs, w \in Workspaces \cup {None}, r \in InvitedRoles :
           create_invitation(i, o, w, r)
    \/ \E i \in Invitations : Overdue(i)
    \/ \E t \in Threads, i \in Invitations :
           refuse(t, i) \/ \E u \in Users : find_invitation(t, u, i)
    \/ \E t \in Threads : Statement(t)

Spec == Init /\ [][Next]_vars

\* The database answers every statement of a call in the end.
FairSpec == Spec /\ \A t \in Threads : WF_vars(Statement(t))

-----------------------------------------------------------------------------
\* An invitation admits one user, unless two calls of accept_invitation had
\* found it pending before either of them committed.
AdmitsOne ==
    \A i \in Invitations \ contested : \A u, v \in admitted[i] : u = v

\* The status tells what became of the invitation: nobody came in by one that
\* is pending (a call that failed leaves it so), somebody by one that is
\* accepted, and by one that is expired only where an acceptance and the
\* discovery that it is overdue overlapped.
StatusTells ==
    \A i \in Invitations : invitations[i] # None =>
        /\ invitations[i].status = "PENDING" => admitted[i] = {}
        /\ invitations[i].status = "ACCEPTED" => admitted[i] # {}
        /\ invitations[i].status = "EXPIRED" => admitted[i] = {} \/ i \in contested

InvitedAs(o, u, role) ==
    \E i \in Invitations : u \in admitted[i] /\ invitations[i].org = o
                               /\ GrantedRole(invitations[i].role) = role

\* Whoever an invitation admitted has both of its memberships: no failure
\* and no overlap leaves a user in the organization without the workspace.
\* And there is no other way in: a member of an organization founded it and is
\* its OWNER for good, or has the role of an invitation that admitted him; a
\* member of a workspace made it or came by an invitation that names it.
MembershipsAreGranted ==
    /\ \A i \in Invitations : \A u \in admitted[i] :
           /\ org_members[<<invitations[i].org, u>>] # None
           /\ invitations[i].workspace # None =>
                  workspace_members[<<invitations[i].workspace, u>>] # None
    /\ \A o \in Orgs, u \in Users :
           /\ founder[o] = u => org_members[<<o, u>>] = "OWNER"
           /\ org_members[<<o, u>>] # None /\ founder[o] # u => InvitedAs(o, u, org_members[<<o, u>>])
    /\ \A w \in Workspaces, u \in Users :
           /\ maker[w] = u => workspace_members[<<w, u>>] = "WORKSPACE_ADMIN"
           /\ workspace_members[<<w, u>>] # None /\ maker[w] # u =>
                  \E i \in Invitations : u \in admitted[i] /\ invitations[i].workspace = w

\* The audit trail has an acceptance only where one was committed; the calls
\* still on their way to the log are the only ones it may miss.
AuditIsTrue ==
    /\ \A e \in audit_events : e[1] \in admitted[e[2]]
    /\ \A i \in Invitations : \A u \in admitted[i] :
           \/ <<u, i>> \in audit_events
           \/ \E t \in Threads : At(t, "log_event") /\ job[t].user = u /\ job[t].invitation = i

\* A call ends, also one whose INSERT waits for another transaction.
AcceptEnds == \A t \in Threads : job[t] # None ~> job[t] = None
=============================================================================

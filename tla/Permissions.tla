----------------------------- MODULE Permissions -----------------------------
(***************************************************************************)
(* Roles, the permissions they grant and the security context a caller    *)
(* acts under: auth/domain/permissions.py and AuthorizationService.        *)
(***************************************************************************)
EXTENDS Naturals

NoRole == "none"
NoUser == [status |-> "nobody"]

OrgRole == {"OWNER", "ADMIN", "MEMBER", "GUEST"}
WorkspaceRole == {"WORKSPACE_ADMIN", "MEMBER", "VIEWER"}
UserStatus == {"ACTIVE", "SUSPENDED", "PENDING_ACTIVATION"}

Reading == {"org:read", "workspace:read", "project:read"}
Working == Reading \cup {"workspace:write", "project:write"}
Managing == Working \cup {"org:write", "org:manage_members", "workspace:delete",
                          "workspace:manage_members", "project:delete", "user:manage",
                          "audit:read"}
Permission == Managing \cup {"org:delete", "user:suspend", "security:admin"}

ORG_ROLE_PERMISSIONS ==
    [r \in OrgRole |-> CASE r = "OWNER"  -> Permission
                         [] r = "ADMIN"  -> Managing
                         [] r = "MEMBER" -> Working
                         [] r = "GUEST"  -> Reading]

WORKSPACE_ROLE_PERMISSIONS ==
    [r \in WorkspaceRole |->
        CASE r = "WORKSPACE_ADMIN" -> {"workspace:read", "workspace:write", "workspace:delete",
                                       "workspace:manage_members", "project:read",
                                       "project:write", "project:delete"}
          [] r = "MEMBER"          -> {"workspace:read", "project:read", "project:write"}
          [] r = "VIEWER"          -> {"workspace:read", "project:read"}]

EffectivePermissions(org, ws) ==
    (IF org \in OrgRole THEN ORG_ROLE_PERMISSIONS[org] ELSE {})
        \cup (IF ws \in WorkspaceRole THEN WORKSPACE_ROLE_PERMISSIONS[ws] ELSE {})

\* The contexts stage 2 and get_security_context build of a token's claims; a
\* suspension may come after the context was built.
SecurityContext ==
    {[status |-> st, org |-> org, permissions |-> EffectivePermissions(org, ws)] :
        st \in UserStatus, org \in OrgRole \cup {NoRole}, ws \in WorkspaceRole \cup {NoRole}}

PermissionsOf(ctx) == IF ctx = NoUser THEN {} ELSE ctx.permissions

\* evaluate_permission
MayDo(ctx, perm) ==
    /\ ctx.status # "SUSPENDED"
    /\ ctx.org = "OWNER" \/ perm \in ctx.permissions
=============================================================================

---------------------------- MODULE AuthSessions ----------------------------
(***************************************************************************)
(* IdentityService and TokenService of auth/services over the repository   *)
(* of auth/storage/auth_db.py.  Each repository call is a transaction of   *)
(* its own and each service method makes several, so requests interleave   *)
(* between them: a method works on the row it read first and writes the    *)
(* whole row back.                                                         *)
(*                                                                         *)
(* A session id stands for its refresh token as well.  Audit events are    *)
(* append-only and read by no method here; they are left out.              *)
(***************************************************************************)
EXTENDS Integers, FiniteSets

CONSTANTS Threads, Users, Passwords,
          Sessions,          \* session ids
          MaxFailedAttempts, \* MAX_FAILED_ATTEMPTS, 5 in the code
          MaxFailures,       \* bound on an account's failed_login_attempts
          LockoutDuration,   \* LOCKOUT_DURATION_SECONDS, in ticks of the clock
          Offsets,           \* what local time may be ahead of UTC, in ticks
          MaxClock,          \* bound on the clock
          None

ASSUME AuthAssumption ==
    /\ MaxFailedAttempts \in Nat /\ MaxFailures \in Nat /\ MaxClock \in Nat
    /\ LockoutDuration \in Nat /\ Offsets \subseteq Int
    /\ None \notin Passwords /\ None \notin Sessions

VARIABLES users,     \* the rows of auth_users
          sessions,  \* the rows of auth_sessions
          job,       \* the service method each thread is in
          clock,     \* the time, UTC, in ticks
          suspended, \* history: users whose suspension was carried out
          changed,   \* history: the password the latest change saved
          raced,     \* history: what a stale write or late session may undo
          contested  \* history: sessions two rotations had in hand at once

vars == <<users, sessions, job, clock, suspended, changed, raced, contested>>
history == <<suspended, changed, raced, contested>>

\* locked_until 0, which is never later than the clock, stands for none.
Rows == [status : {"ACTIVE", "SUSPENDED"}, password : Passwords,
         failed_login_attempts : 0..MaxFailures, locked_until : Int]

\* parent: the session whose token was rotated into this one, for the
\* properties; password: the one this session goes back to, likewise.
SessionRows == [user : Users, is_revoked : BOOLEAN, expired : BOOLEAN,
                parent : Sessions \cup {None}, password : Passwords]

Methods == {"register", "login", "failed_login", "change_password", "suspend",
            "rotate", "expired", "revoke_everything"}

Calls == {"create_user", "update_user", "create_session", "get_user_by_id",
          "revoke_session", "revoke_all_user_sessions"}

\* at: the next repository call; row: the account as read and then edited;
\* session: the session that is rotated.
Jobs == [at : Calls, method : Methods, user : Users, row : Rows \cup {None},
         session : Sessions \cup {None}, password : Passwords \cup {None}]

ASSUME NoneAssumption == None \notin Rows /\ None \notin SessionRows /\ None \notin Jobs

TypeOK ==
    /\ users \in [Users -> Rows \cup {None}]
    /\ sessions \in [Sessions -> SessionRows \cup {None}]
    /\ job \in [Threads -> Jobs \cup {None}]
    /\ clock \in 0..MaxClock
    /\ suspended \in [Users -> BOOLEAN]
    /\ changed \in [Users -> Passwords \cup {None}]
    /\ raced \in [Users -> SUBSET {"suspension", "password", "lock"}]
    /\ contested \subseteq Sessions

Init ==
    /\ users = [u \in Users |-> None]
    /\ sessions = [s \in Sessions |-> None]
    /\ job = [t \in Threads |-> None]
    /\ clock = 0
    /\ suspended = [u \in Users |-> FALSE]
    /\ changed = [u \in Users |-> None]
    /\ raced = [u \in Users |-> {}]
    /\ contested = {}

-----------------------------------------------------------------------------
Idle(t) == job[t] = None
At(t, call) == ~Idle(t) /\ job[t].at = call

Begin(t, j) == job' = [job EXCEPT ![t] = j]
Goto(t, call) == job' = [job EXCEPT ![t].at = call]
End(t) == job' = [job EXCEPT ![t] = None]

Registered(u) == users[u] # None
Locked(u) == users[u].locked_until > clock
Issued(s) == sessions[s] # None
Live(s) == Issued(s) /\ ~sessions[s].is_revoked /\ ~sessions[s].expired

\* Bound: a method that may create a session starts only if an id is left.
SessionLeft ==
    Cardinality({s \in Sessions : ~Issued(s)}) > Cardinality({t \in Threads : ~Idle(t)})

\* register_user up to its look for the email.
register_user(t, u, p) ==
    /\ Idle(t) /\ ~Registered(u)
    /\ Begin(t, [at |-> "create_user", method |-> "register", user |-> u,
                 row |-> [status |-> "ACTIVE", password |-> p,
                          failed_login_attempts |-> 0, locked_until |-> 0],
                 session |-> None, password |-> p])
    /\ UNCHANGED <<users, sessions, clock, history>>

\* The email is unique in the table: the later of two inserts raises.
create_user(t) ==
    /\ At(t, "create_user")
    /\ users' = IF Registered(job[t].user) THEN users
                ELSE [users EXCEPT ![job[t].user] = job[t].row]
    /\ End(t)
    /\ UNCHANGED <<sessions, clock, history>>

\* calculate_lockout gets the count with this failure and adds one more.
should_lock(count) == count + 1 >= MaxFailedAttempts

\* datetime.fromtimestamp gives the end of the lock in the server's local time,
\* which Locked compares with UTC: a zone ahead of UTC lengthens the lock by the
\* offset, one behind it shortens the lock, or leaves none.
AfterFailure(row, offset) ==
    LET count == row.failed_login_attempts + 1
        lockout_until == clock + LockoutDuration
    IN  [row EXCEPT !.failed_login_attempts = count,
                    !.locked_until = IF should_lock(count) THEN lockout_until + offset ELSE @]

\* Mutants of MayLogIn: the suspension, or the lock, is not looked at.
MayLogInSuspended(u) == ~Locked(u)
MayLogInLocked(u) == users[u].status # "SUSPENDED"

\* The checks authenticate_user makes before it looks at the password.
MayLogIn(u) == ~Locked(u) /\ users[u].status # "SUSPENDED"

\* authenticate_user up to the password check, which succeeds...
authenticate_user(t, u, p) ==
    /\ Idle(t) /\ Registered(u) /\ SessionLeft
    /\ MayLogIn(u)
    /\ p = users[u].password
    /\ Begin(t, [at |-> "update_user", method |-> "login", user |-> u,
                 row |-> [users[u] EXCEPT !.failed_login_attempts = 0, !.locked_until = 0],
                 session |-> None, password |-> p])
    /\ UNCHANGED <<users, sessions, clock, history>>

\* ...or fails.
authenticate_fails(t, u) ==
    /\ Idle(t) /\ Registered(u)
    /\ MayLogIn(u)
    /\ users[u].failed_login_attempts < MaxFailures
    /\ \E offset \in Offsets :
          Begin(t, [at |-> "update_user", method |-> "failed_login", user |-> u,
                    row |-> AfterFailure(users[u], offset),
                    session |-> None, password |-> None])
    /\ UNCHANGED <<users, sessions, clock, history>>

\* change_password up to the check of the old password.
change_password(t, u, old, new) ==
    /\ Idle(t) /\ Registered(u)
    /\ old = users[u].password
    /\ Begin(t, [at |-> "update_user", method |-> "change_password", user |-> u,
                 row |-> [users[u] EXCEPT !.password = new],
                 session |-> None, password |-> new])
    /\ UNCHANGED <<users, sessions, clock, history>>

\* suspend_user up to its first write.
suspend_user(t, u) ==
    /\ Idle(t) /\ Registered(u)
    /\ Begin(t, [at |-> "update_user", method |-> "suspend", user |-> u,
                 row |-> [users[u] EXCEPT !.status = "SUSPENDED"],
                 session |-> None, password |-> None])
    /\ UNCHANGED <<users, sessions, clock, history>>

\* Another thread has still to write back the row of u it read.
StaleWriter(t, u) ==
    \E x \in Threads \ {t} : At(x, "update_user") /\ job[x].user = u

Mark(set, flag, on) == IF on THEN set \cup {flag} ELSE set \ {flag}

\* update_user writes every column, whatever happened since the row was read.
update_user(t) ==
    LET u == job[t].user
        m == job[t].method
    IN  /\ At(t, "update_user")
        /\ users' = [users EXCEPT ![u] = job[t].row]
        /\ CASE m = "login"        -> Goto(t, "create_session")
             [] m = "failed_login" -> End(t)
             [] OTHER              -> Goto(t, "revoke_all_user_sessions")
        /\ changed' = IF m = "change_password"
                      THEN [changed EXCEPT ![u] = job[t].password] ELSE changed
        /\ raced' =
             CASE m = "suspend" ->
                    [raced EXCEPT ![u] = Mark(@, "suspension", StaleWriter(t, u))]
               [] m = "change_password" ->
                    [raced EXCEPT ![u] = Mark(@, "password", StaleWriter(t, u))]
               [] m = "failed_login" /\ job[t].row.locked_until > clock ->
                    [raced EXCEPT ![u] = Mark(@, "lock", StaleWriter(t, u))]
               [] OTHER -> raced
        /\ UNCHANGED <<sessions, clock, suspended, contested>>

\* Threads that will still add a session for u after all of them are revoked,
\* for all that a suspension or a change of password can do about it.
Past(x, u, calls) == ~Idle(x) /\ job[x].user = u /\ job[x].at \in calls

LateLogin(u) ==
    \E x \in Threads :
       \/ Past(x, u, {"create_session"})
       \/ Past(x, u, {"revoke_session"}) /\ job[x].method = "rotate"

LateOldPassword(u) ==
    \E x \in Threads :
       /\ Past(x, u, {"create_session", "get_user_by_id", "revoke_session"})
       /\ job[x].method # "expired"
       /\ job[x].password # changed[u]

\* Mutant of RevokedFor: the sessions that came of a rotation stay.
RevokedForLogins(u) ==
    [s \in Sessions |->
        IF Issued(s) /\ sessions[s].user = u /\ sessions[s].parent = None
        THEN [sessions[s] EXCEPT !.is_revoked = TRUE] ELSE sessions[s]]

RevokedFor(u) ==
    [s \in Sessions |->
        IF Issued(s) /\ sessions[s].user = u
        THEN [sessions[s] EXCEPT !.is_revoked = TRUE] ELSE sessions[s]]

revoke_all_user_sessions(t) ==
    LET u == job[t].user
        m == job[t].method
    IN  /\ At(t, "revoke_all_user_sessions")
        /\ sessions' = RevokedFor(u)
        /\ End(t)
        /\ suspended' = IF m = "suspend" THEN [suspended EXCEPT ![u] = TRUE] ELSE suspended
        /\ raced' =
             IF m = "suspend" /\ LateLogin(u)
             THEN [raced EXCEPT ![u] = @ \cup {"suspension"}]
             ELSE IF m = "change_password" /\ LateOldPassword(u)
             THEN [raced EXCEPT ![u] = @ \cup {"password"}]
             ELSE raced
        /\ UNCHANGED <<users, clock, changed, contested>>

\* create_session_and_tokens
create_session(t) ==
    /\ At(t, "create_session")
    /\ \E s \in Sessions :
          /\ ~Issued(s)
          /\ sessions' = [sessions EXCEPT ![s] =
                [user |-> job[t].user, is_revoked |-> FALSE, expired |-> FALSE,
                 parent |-> job[t].session, password |-> job[t].password]]
    /\ End(t)
    /\ UNCHANGED <<users, clock, history>>

\* Mutant of Reused: no detection of reuse.
NeverReused(s) == FALSE

Reused(s) == sessions[s].is_revoked

\* rotate_refresh_token up to what it makes of the session's row: a revoked
\* token is taken for reuse, an expired one is revoked, else it goes on.
rotate_refresh_token(t, s) ==
    LET j(call, method) ==
          [at |-> call, method |-> method, user |-> sessions[s].user, row |-> None,
           session |-> s, password |-> sessions[s].password]
    IN  /\ Idle(t) /\ Issued(s)
        /\ ~Reused(s) => SessionLeft
        /\ Begin(t, IF Reused(s)
                    THEN j("revoke_all_user_sessions", "revoke_everything")
                    ELSE IF sessions[s].expired THEN j("revoke_session", "expired")
                    ELSE j("get_user_by_id", "rotate"))
        /\ UNCHANGED <<users, sessions, clock, history>>

get_user_by_id(t) ==
    /\ At(t, "get_user_by_id")
    /\ IF users[job[t].user].status = "ACTIVE"
       THEN Goto(t, "revoke_session")
       ELSE job' = [job EXCEPT ![t].at = "revoke_all_user_sessions",
                               ![t].method = "revoke_everything"]
    /\ UNCHANGED <<users, sessions, clock, history>>

\* Another rotation of the session has passed its checks.
Rival(t) ==
    \E x \in Threads \ {t} :
       /\ Past(x, job[t].user, {"get_user_by_id", "revoke_session"})
       /\ job[x].session = job[t].session
       /\ job[x].method = "rotate"

\* The old session of a rotation, or an expired one.
revoke_session(t) ==
    /\ At(t, "revoke_session")
    /\ sessions' = [sessions EXCEPT ![job[t].session].is_revoked = TRUE]
    /\ IF job[t].method = "rotate" THEN Goto(t, "create_session") ELSE End(t)
    /\ contested' = IF job[t].method = "rotate" /\ Rival(t)
                    THEN contested \cup {job[t].session} ELSE contested
    /\ UNCHANGED <<users, clock, suspended, changed, raced>>

\* The logout and logout-all routes, each one repository call.
logout(s) ==
    /\ Issued(s)
    /\ sessions' = [sessions EXCEPT ![s].is_revoked = TRUE]
    /\ UNCHANGED <<users, job, clock, history>>

logout_all(u) ==
    /\ sessions' = RevokedFor(u)
    /\ UNCHANGED <<users, job, clock, history>>

\* A session's expires_at passes; time passes, which only a lock can tell.
Expire(s) ==
    /\ Live(s)
    /\ sessions' = [sessions EXCEPT ![s].expired = TRUE]
    /\ UNCHANGED <<users, job, clock, history>>

Tick ==
    /\ clock < MaxClock
    /\ \E u \in Users : Registered(u) /\ Locked(u)
    /\ clock' = clock + 1
    /\ UNCHANGED <<users, sessions, job, history>>

Request(t) ==
    \/ \E u \in Users :
          \/ \E p \in Passwords : register_user(t, u, p) \/ authenticate_user(t, u, p)
          \/ \E old, new \in Passwords : change_password(t, u, old, new)
          \/ authenticate_fails(t, u)
          \/ suspend_user(t, u)
    \/ \E s \in Sessions : rotate_refresh_token(t, s)

RepositoryCall(t) ==
    \/ create_user(t) \/ update_user(t) \/ create_session(t)
    \/ get_user_by_id(t) \/ revoke_session(t) \/ revoke_all_user_sessions(t)

Next ==
    \/ \E t \in Threads : Request(t) \/ RepositoryCall(t)
    \/ \E s \in Sessions : logout(s) \/ Expire(s)
    \/ \E u \in Users : logout_all(u)
    \/ Tick

Spec == Init /\ [][Next]_vars

-----------------------------------------------------------------------------
Doing(u, method) ==
    \E t \in Threads : ~Idle(t) /\ job[t].user = u /\ job[t].method = method

LiveSessions(u) == {s \in Sessions : Live(s) /\ sessions[s].user = u}

\* Once a suspension is carried out the account stays suspended and has no live
\* session, whatever is called then, unless a method was still to write back the
\* row it had read before, or a login or rotation to store its session.
SuspensionHolds ==
    \A u \in Users :
       suspended[u] /\ ~Doing(u, "suspend") /\ "suspension" \notin raced[u] =>
          users[u].status = "SUSPENDED" /\ LiveSessions(u) = {}

\* Once a change of password is carried out it is the account's password and
\* every live session goes back to a login with it, with the same exceptions.
PasswordChangeHolds ==
    \A u \in Users :
       changed[u] # None /\ ~Doing(u, "change_password") /\ "password" \notin raced[u] =>
          /\ users[u].password = changed[u]
          /\ \A s \in LiveSessions(u) : sessions[s].password = changed[u]

Successors(s) == {n \in Sessions : Issued(n) /\ sessions[n].parent = s}

\* A refresh token is good for one rotation, unless two requests that present
\* it have both passed the checks when the first of them revokes it.  TypeOK
\* holds beside it.
RotatesOnce ==
    /\ TypeOK
    /\ \A s \in Sessions \ contested : Cardinality(Successors(s)) <= 1

\* While an account is locked nothing lifts, shortens or prolongs the lock: it
\* ends when the clock reaches the time that was recorded, a local time read as
\* UTC, and not by any call, unless a method was still to write back the row it
\* had read before the lock.
LockHolds ==
    [][\A u \in Users :
          Registered(u) /\ Locked(u) /\ "lock" \notin raced[u] =>
             users'[u].locked_until = users[u].locked_until]_vars

\* A suspension revokes the user's sessions and ends the account's use.
SuspendedForGood ==
    \A u \in Users :
       suspended[u] /\ ~Doing(u, "suspend") =>
          users[u].status = "SUSPENDED" /\ LiveSessions(u) = {}
=============================================================================

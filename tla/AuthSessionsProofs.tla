------------------------- MODULE AuthSessionsProofs -------------------------
(***************************************************************************)
(* What suspensions, changes of password, locks and rotations come to, for *)
(* any set of threads, users, passwords and sessions; and the two limits   *)
(* on how often a caller may ask.                                          *)
(***************************************************************************)
EXTENDS AuthSessions, RateLimits, Integers, Sequences, FiniteSetTheorems, TLAPS

Seqs == INSTANCE LRUCacheProofs WITH
    Keys <- {}, Tags <- {}, Values <- {}, Capacity <- 1, NoEntry <- 0,
    order <- <<>>, entry <- <<>>, tagIndex <- <<>>, log <- <<>>

-----------------------------------------------------------------------------
\* Job j agrees with the tables.
Fits(j) ==
    /\ j.at = "create_user" => j.row # None /\ j.method = "register"
    /\ j.at # "create_user" => users[j.user] # None
    /\ j.at = "update_user" =>
          /\ j.row # None
          /\ j.method \in {"login", "failed_login", "change_password", "suspend"}
          /\ j.method = "login" => j.row.status = "ACTIVE"
          /\ j.method \in {"login", "change_password"} => j.row.password = j.password
          /\ j.method = "suspend" => j.row.status = "SUSPENDED"
    /\ j.at = "create_session" => j.method \in {"login", "rotate"} /\ j.password # None
    /\ j.at = "get_user_by_id" => j.method = "rotate" /\ j.session # None
    /\ j.at = "revoke_session" => j.method \in {"rotate", "expired"} /\ j.session # None
    /\ j.at = "revoke_all_user_sessions" =>
          j.method \in {"change_password", "suspend", "revoke_everything"}
    /\ j.method \in {"login", "change_password"} => j.session = None
    /\ j.session # None =>
          /\ Issued(j.session)
          /\ j.user = sessions[j.session].user /\ j.password = sessions[j.session].password

JobsFit == \A t \in Threads : job[t] # None => Fits(job[t])

SessionsFit ==
    \A s \in Sessions : Issued(s) =>
        /\ users[sessions[s].user] # None
        /\ sessions[s].parent # None => Issued(sessions[s].parent)

HistoryFits == \A u \in Users : suspended[u] \/ changed[u] # None => users[u] # None

TInv == TypeOK /\ JobsFit /\ SessionsFit /\ HistoryFits

\* Rotations of s that have passed its checks, and those that have revoked it.
Rotating(x, s, calls) ==
    ~Idle(x) /\ job[x].session = s /\ job[x].method = "rotate" /\ job[x].at \in calls

\* The token of s has been used: nobody else can rotate it any more.
Spent(s) ==
    /\ Issued(s) /\ sessions[s].is_revoked
    /\ \A x \in Threads : ~Rotating(x, s, {"get_user_by_id", "revoke_session"})

Once ==
    \A s \in Sessions \ contested :
        /\ \A x \in Threads : Rotating(x, s, {"create_session"}) =>
              /\ Spent(s) /\ Successors(s) = {}
              /\ \A y \in Threads : Rotating(y, s, {"create_session"}) => y = x
        /\ \A n \in Successors(s) : Spent(s) /\ \A m \in Successors(s) : m = n

\* u was suspended and nothing can write the suspension away.
Sealed(u) ==
    /\ users[u].status = "SUSPENDED"
    /\ \A x \in Threads : At(x, "update_user") /\ job[x].user = u =>
          job[x].row.status = "SUSPENDED"

Suspending(x, u) == At(x, "revoke_all_user_sessions") /\ job[x].user = u /\ job[x].method = "suspend"

Seals ==
    \A u \in Users :
        /\ suspended[u] \/ \E x \in Threads : Suspending(x, u)
        /\ "suspension" \notin raced[u]
        => Sealed(u)

\* ...and no session of u lives or is about to be stored.
ShutOut ==
    \A u \in Users :
        suspended[u] /\ ~Doing(u, "suspend") /\ "suspension" \notin raced[u] =>
            ~LateLogin(u) /\ LiveSessions(u) = {}

\* The password of the latest change is in the table and in every row about to
\* be written, but for those that change it.
PasswordKept ==
    \A u \in Users : changed[u] # None /\ "password" \notin raced[u] =>
        /\ users[u].password = changed[u]
        /\ \A x \in Threads : At(x, "update_user") /\ job[x].user = u =>
              job[x].method = "change_password" \/ job[x].row.password = changed[u]

\* ...and every session that lives or is about to be stored goes back to it.
PasswordUsed ==
    \A u \in Users :
        changed[u] # None /\ ~Doing(u, "change_password") /\ "password" \notin raced[u] =>
            /\ ~LateOldPassword(u)
            /\ \A s \in LiveSessions(u) : sessions[s].password = changed[u]

\* While u is locked every row about to be written keeps the lock; otherwise only
\* a failed login can bring one.
Lasts ==
    \A u \in Users, x \in Threads :
        "lock" \notin raced[u] /\ At(x, "update_user") /\ job[x].user = u =>
            /\ Locked(u) => job[x].row.locked_until = users[u].locked_until
            /\ job[x].row.locked_until > clock =>
                  \/ job[x].method = "failed_login"
                  \/ job[x].row.locked_until = users[u].locked_until

IInv == TInv /\ Once /\ Seals /\ ShutOut /\ PasswordKept /\ PasswordUsed /\ Lasts

-----------------------------------------------------------------------------
\* Types.  What no step takes back: a registered user, and of an issued session
\* its user, its parent, its password and the ends it has met.
Keeps ==
    /\ \A u \in Users : users[u] # None => users'[u] # None
    /\ \A s \in Sessions : sessions[s] # None =>
          /\ sessions'[s] # None
          /\ sessions'[s].user = sessions[s].user
          /\ sessions'[s].parent = sessions[s].parent
          /\ sessions'[s].password = sessions[s].password
          /\ sessions[s].is_revoked => sessions'[s].is_revoked
          /\ sessions[s].expired => sessions'[s].expired

NoneIssued == \A s \in Sessions : sessions'[s] # None => sessions[s] # None

Others(t) == \A x \in Threads : x # t => job'[x] = job[x]

SessionsType == sessions \in [Sessions -> SessionRows \cup {None}]
UsersType == users \in [Users -> Rows \cup {None}]
JobsType == job \in [Threads -> Jobs \cup {None}]

LEMMA TypeInit == Init => TInv
BY AuthAssumption DEF Init, TInv, TypeOK, JobsFit, SessionsFit, HistoryFits, Issued

LEMMA Holds ==
  ASSUME TInv, NEW t \in Threads, job[t] # None
  PROVE  /\ job[t] \in Jobs /\ Fits(job[t]) /\ job[t].user \in Users
         /\ job[t].row # None => job[t].row \in Rows
         /\ job[t].session # None => job[t].session \in Sessions
         /\ job[t].password # None => job[t].password \in Passwords
BY DEF TInv, TypeOK, JobsFit, Jobs

\* The jobs of other threads go on fitting tables that keep what they had.
LEMMA JobsStayFit ==
  ASSUME TInv, NEW t \in Threads, Others(t), Keeps, job'[t] # None => Fits(job[t])'
  PROVE  JobsFit'
<1> SUFFICES ASSUME NEW x \in Threads, x # t, job'[x] # None PROVE Fits(job[x])'
  BY DEF JobsFit
<1>1. job'[x] = job[x]
  BY DEF Others
<1>2. /\ Fits(job[x]) /\ job[x].user \in Users
      /\ job[x].session # None => job[x].session \in Sessions
  BY <1>1, Holds
<1>3. job[x].at # "create_user" => users'[job[x].user] # None
  BY <1>2 DEF Fits, Keeps
<1>4. job[x].session # None =>
         /\ sessions'[job[x].session] # None
         /\ job[x].user = sessions'[job[x].session].user
         /\ job[x].password = sessions'[job[x].session].password
  BY <1>2 DEF Fits, Keeps, Issued
<1> QED
  BY <1>1, <1>2, <1>3, <1>4 DEF Fits, Issued

\* The job a request starts with, against the tables it has read.
Fresh(j) ==
    /\ j.at # "create_session"
    /\ j.at = "revoke_session" => j.method = "expired"
    /\ j.at = "revoke_all_user_sessions" => j.method = "revoke_everything"
    /\ j.at = "get_user_by_id" => Live(j.session)
    /\ j.at = "update_user" =>
          LET old == users[j.user] IN
          /\ j.row.status \in {old.status, "SUSPENDED"}
          /\ j.row.password = old.password \/ j.method = "change_password"
          /\ \/ j.row.locked_until = old.locked_until
             \/ /\ ~Locked(j.user)
                /\ j.row.locked_until = 0 \/ j.method = "failed_login"

LEMMA UserRow ==
  ASSUME TInv, NEW u \in Users, users[u] # None
  PROVE  /\ users[u] \in Rows /\ users[u] # None
         /\ users[u].status \in {"ACTIVE", "SUSPENDED"} /\ users[u].password \in Passwords
         /\ users[u].failed_login_attempts \in 0..MaxFailures
         /\ users[u].locked_until \in Int
BY DEF TInv, TypeOK, Rows

LEMMA SessionRow ==
  ASSUME TInv, NEW s \in Sessions, Issued(s)
  PROVE  /\ sessions[s] \in SessionRows /\ users[sessions[s].user] # None
         /\ sessions[s].user \in Users /\ sessions[s].password \in Passwords
         /\ sessions[s].password # None /\ s # None
BY AuthAssumption DEF TInv, TypeOK, SessionRows, SessionsFit, Issued

Starts(t, j) ==
    /\ j \in Jobs /\ job[t] = None /\ Begin(t, j)
    /\ UNCHANGED <<users, sessions, clock, history>>
    /\ Fits(j) /\ Fresh(j)

LEMMA StartsRegister ==
  ASSUME TInv, NEW t \in Threads, NEW u \in Users, NEW p \in Passwords, register_user(t, u, p)
  PROVE  \E j : Starts(t, j)
<1> DEFINE row == [status |-> "ACTIVE", password |-> p,
                   failed_login_attempts |-> 0, locked_until |-> 0]
           j == [at |-> "create_user", method |-> "register", user |-> u, row |-> row,
                 session |-> None, password |-> p]
<1>1. row \in Rows
  BY AuthAssumption DEF Rows
<1> HIDE DEF row
<1>2. j \in Jobs /\ row # None
  BY <1>1, NoneAssumption DEF Jobs, Methods, Calls
<1>3. Fits(j) /\ Fresh(j)
  BY <1>2 DEF Fits, Fresh
<1> QED
  BY <1>2, <1>3 DEF Starts, register_user, Idle, row

LEMMA StartsLogin ==
  ASSUME TInv, NEW t \in Threads, NEW u \in Users, NEW p \in Passwords, authenticate_user(t, u, p)
  PROVE  \E j : Starts(t, j)
<1> DEFINE row == [users[u] EXCEPT !.failed_login_attempts = 0, !.locked_until = 0]
           j == [at |-> "update_user", method |-> "login", user |-> u, row |-> row,
                 session |-> None, password |-> p]
<1>1. users[u] # None /\ ~Locked(u) /\ users[u].status # "SUSPENDED" /\ p = users[u].password
  BY DEF authenticate_user, Registered, MayLogIn
<1>2. /\ row \in Rows /\ row.status = "ACTIVE" /\ row.password = p /\ row.locked_until = 0
      /\ users[u].status = "ACTIVE"
  <2>1. users[u] \in Rows /\ users[u].status = "ACTIVE"
    BY <1>1, UserRow
  <2>2. 0 \in 0..MaxFailures /\ 0 \in Int
    BY AuthAssumption
  <2> QED
    BY <1>1, <2>1, <2>2 DEF Rows
<1>3. Begin(t, j)
  BY DEF authenticate_user
<1> HIDE DEF row
<1>4. j \in Jobs /\ row # None
  BY <1>2, NoneAssumption DEF Jobs, Methods, Calls
<1>5. Fits(j) /\ Fresh(j)
  BY <1>1, <1>2, <1>4 DEF Fits, Fresh
<1> QED
  BY <1>3, <1>4, <1>5 DEF Starts, authenticate_user, Idle

LEMMA StartsFailing ==
  ASSUME TInv, NEW t \in Threads, NEW u \in Users, authenticate_fails(t, u)
  PROVE  \E j : Starts(t, j)
<1> PICK offset \in Offsets :
         Begin(t, [at |-> "update_user", method |-> "failed_login", user |-> u,
                   row |-> AfterFailure(users[u], offset), session |-> None, password |-> None])
  BY DEF authenticate_fails
<1> DEFINE row == AfterFailure(users[u], offset)
           j == [at |-> "update_user", method |-> "failed_login", user |-> u, row |-> row,
                 session |-> None, password |-> None]
<1>1. /\ users[u] # None /\ ~Locked(u) /\ users[u].failed_login_attempts < MaxFailures
      /\ clock \in 0..MaxClock
  BY DEF authenticate_fails, Registered, MayLogIn, TInv, TypeOK
<1>2. row \in Rows /\ row.status = users[u].status /\ row.password = users[u].password
  <2> DEFINE count == users[u].failed_login_attempts + 1
             until == IF should_lock(count) THEN clock + LockoutDuration + offset
                      ELSE users[u].locked_until
  <2>1. users[u] \in Rows /\ users[u].failed_login_attempts \in 0..MaxFailures
    BY <1>1, UserRow
  <2>2. count \in 0..MaxFailures
    BY <1>1, <2>1, AuthAssumption
  <2>3. until \in Int
    BY <1>1, UserRow, AuthAssumption
  <2>4. row = [users[u] EXCEPT !.failed_login_attempts = count, !.locked_until = until]
    BY <2>1 DEF AfterFailure, Rows
  <2> HIDE DEF row, count, until
  <2> QED
    BY <2>1, <2>2, <2>3, <2>4 DEF Rows
<1>3. Begin(t, j)
  OBVIOUS
<1> HIDE DEF row
<1>4. j \in Jobs /\ row # None
  BY <1>2, NoneAssumption DEF Jobs, Methods, Calls
<1>5. Fits(j) /\ Fresh(j)
  BY <1>1, <1>2, <1>4 DEF Fits, Fresh
<1> QED
  BY <1>3, <1>4, <1>5 DEF Starts, authenticate_fails, Idle

LEMMA StartsChanging ==
  ASSUME TInv, NEW t \in Threads, NEW u \in Users, NEW old \in Passwords, NEW new \in Passwords,
         change_password(t, u, old, new)
  PROVE  \E j : Starts(t, j)
<1> DEFINE row == [users[u] EXCEPT !.password = new]
           j == [at |-> "update_user", method |-> "change_password", user |-> u, row |-> row,
                 session |-> None, password |-> new]
<1>1. users[u] # None
  BY DEF change_password, Registered
<1>2. /\ row \in Rows /\ row.status = users[u].status /\ row.password = new
      /\ row.locked_until = users[u].locked_until
  BY <1>1, UserRow DEF Rows
<1>3. Begin(t, j)
  BY DEF change_password
<1> HIDE DEF row
<1>4. j \in Jobs /\ row # None
  BY <1>2, NoneAssumption DEF Jobs, Methods, Calls
<1>5. Fits(j) /\ Fresh(j)
  BY <1>1, <1>2, <1>4 DEF Fits, Fresh
<1> QED
  BY <1>3, <1>4, <1>5 DEF Starts, change_password, Idle

LEMMA StartsSuspending ==
  ASSUME TInv, NEW t \in Threads, NEW u \in Users, suspend_user(t, u)
  PROVE  \E j : Starts(t, j)
<1> DEFINE row == [users[u] EXCEPT !.status = "SUSPENDED"]
           j == [at |-> "update_user", method |-> "suspend", user |-> u, row |-> row,
                 session |-> None, password |-> None]
<1>1. users[u] # None
  BY DEF suspend_user, Registered
<1>2. /\ row \in Rows /\ row.status = "SUSPENDED" /\ row.password = users[u].password
      /\ row.locked_until = users[u].locked_until
  BY <1>1, UserRow DEF Rows
<1>3. Begin(t, j)
  BY DEF suspend_user
<1> HIDE DEF row
<1>4. j \in Jobs /\ row # None
  BY <1>2, NoneAssumption DEF Jobs, Methods, Calls
<1>5. Fits(j) /\ Fresh(j)
  BY <1>1, <1>2, <1>4 DEF Fits, Fresh
<1> QED
  BY <1>3, <1>4, <1>5 DEF Starts, suspend_user, Idle

LEMMA StartsRotating ==
  ASSUME TInv, NEW t \in Threads, NEW s \in Sessions, rotate_refresh_token(t, s)
  PROVE  \E j : Starts(t, j)
<1> DEFINE f(call, method) ==
             [at |-> call, method |-> method, user |-> sessions[s].user, row |-> None,
              session |-> s, password |-> sessions[s].password]
           j == IF Reused(s) THEN f("revoke_all_user_sessions", "revoke_everything")
                ELSE IF sessions[s].expired THEN f("revoke_session", "expired")
                ELSE f("get_user_by_id", "rotate")
<1>1. Issued(s)
  BY DEF rotate_refresh_token
<1>2. /\ users[sessions[s].user] # None /\ sessions[s].user \in Users /\ s # None
      /\ sessions[s].password \in Passwords
  BY <1>1, SessionRow
<1>3. Begin(t, j) /\ job[t] = None /\ UNCHANGED <<users, sessions, clock, history>>
  BY DEF rotate_refresh_token, Idle
<1>4. CASE Reused(s)
  <2>1. j = f("revoke_all_user_sessions", "revoke_everything")
    BY <1>4
  <2>2. j \in Jobs /\ Fits(j) /\ Fresh(j)
    BY <1>1, <1>2, <2>1 DEF Jobs, Methods, Calls, Fits, Fresh
  <2> QED
    BY <1>3, <2>2 DEF Starts
<1>5. CASE ~Reused(s) /\ sessions[s].expired
  <2>1. j = f("revoke_session", "expired")
    BY <1>5
  <2>2. j \in Jobs /\ Fits(j) /\ Fresh(j)
    BY <1>1, <1>2, <2>1 DEF Jobs, Methods, Calls, Fits, Fresh
  <2> QED
    BY <1>3, <2>2 DEF Starts
<1>6. CASE ~Reused(s) /\ ~sessions[s].expired
  <2>1. j = f("get_user_by_id", "rotate")
    BY <1>6
  <2>2. j \in Jobs /\ Fits(j) /\ Fresh(j)
    BY <1>1, <1>2, <1>6, <2>1 DEF Jobs, Methods, Calls, Fits, Fresh, Live, Reused
  <2> QED
    BY <1>3, <2>2 DEF Starts
<1> QED
  BY <1>4, <1>5, <1>6

LEMMA Requests ==
  ASSUME TInv, NEW t \in Threads, Request(t)
  PROVE  \E j : Starts(t, j)
BY StartsRegister, StartsLogin, StartsFailing, StartsChanging, StartsSuspending, StartsRotating
   DEF Request

LEMMA Moves ==
  ASSUME TInv, NEW t \in Threads, NEW j \in Jobs \cup {None}, job' = [job EXCEPT ![t] = j]
  PROVE  JobsType' /\ Others(t) /\ job'[t] = j
BY DEF TInv, TypeOK, JobsType, Others

LEMMA Same ==
  ASSUME UNCHANGED <<users, sessions>>
  PROVE  Keeps /\ NoneIssued
BY DEF Keeps, NoneIssued

LEMMA SessionsStayFit ==
  ASSUME TInv, Keeps, NoneIssued
  PROVE  SessionsFit'
<1> SUFFICES ASSUME NEW s \in Sessions, sessions'[s] # None
             PROVE  /\ users'[sessions'[s].user] # None
                    /\ sessions'[s].parent # None => sessions'[sessions'[s].parent] # None
  BY DEF SessionsFit, Issued
<1>1. Issued(s) /\ sessions[s] # None
  BY DEF NoneIssued, Issued
<1>2. /\ sessions[s] \in SessionRows /\ users[sessions[s].user] # None
      /\ sessions[s].parent # None => sessions[sessions[s].parent] # None
  BY <1>1 DEF TInv, TypeOK, SessionsFit, Issued
<1> QED
  BY <1>1, <1>2 DEF Keeps, SessionRows

LEMMA HistoryStaysFit ==
  ASSUME TInv, Keeps, UNCHANGED <<suspended, changed>>
  PROVE  HistoryFits'
BY DEF TInv, HistoryFits, Keeps

LEMMA TStarts ==
  ASSUME TInv, NEW t \in Threads, NEW j, Starts(t, j)
  PROVE  TInv' /\ Others(t) /\ job'[t] = j /\ j # None
<1>1. JobsType' /\ Others(t) /\ job'[t] = j /\ Keeps /\ NoneIssued /\ j # None
  BY Moves, Same, NoneAssumption DEF Starts, Begin
<1>2. Fits(job[t])'
  BY <1>1 DEF Starts, Fits, Issued
<1>3. JobsFit' /\ SessionsFit' /\ HistoryFits'
  BY <1>1, <1>2, JobsStayFit, SessionsStayFit, HistoryStaysFit DEF Starts, history
<1> QED
  BY <1>1, <1>3 DEF TInv, TypeOK, JobsType, Starts, history

LEMMA TCreateUser ==
  ASSUME TInv, NEW t \in Threads, create_user(t)
  PROVE  /\ TInv' /\ Others(t) /\ job'[t] = None /\ UNCHANGED <<sessions, clock, history>>
         /\ \A u \in Users : users[u] # None => users'[u] = users[u]
         /\ \A u \in Users : users[u] = None /\ users'[u] # None => u = job[t].user
<1> DEFINE u == job[t].user
           row == job[t].row
<1>1. job[t] # None /\ job[t].at = "create_user" /\ u \in Users /\ row \in Rows /\ row # None
  BY Holds DEF create_user, At, Idle, Fits
<1>2. /\ users' = IF Registered(u) THEN users ELSE [users EXCEPT ![u] = row]
      /\ UNCHANGED <<sessions, clock, history>> /\ End(t)
  BY DEF create_user
<1>3. /\ users' \in [Users -> Rows \cup {None}]
      /\ \A v \in Users : users[v] # None => users'[v] = users[v]
      /\ \A v \in Users : users[v] = None /\ users'[v] # None => v = u
  BY <1>1, <1>2 DEF TInv, TypeOK, Registered
<1>4. Keeps /\ NoneIssued
  BY <1>2, <1>3 DEF Keeps, NoneIssued
<1>5. JobsType' /\ Others(t) /\ job'[t] = None
  BY <1>2, Moves DEF End
<1>6. JobsFit' /\ SessionsFit' /\ HistoryFits'
  BY <1>2, <1>4, <1>5, JobsStayFit, SessionsStayFit, HistoryStaysFit DEF history
<1> QED
  BY <1>2, <1>3, <1>5, <1>6 DEF TInv, TypeOK, JobsType, history

LEMMA Marked ==
  ASSUME TInv, NEW u \in Users, NEW flag \in {"suspension", "password", "lock"}, NEW on,
         raced' = [raced EXCEPT ![u] = Mark(@, flag, on)]
  PROVE  /\ raced' \in [Users -> SUBSET {"suspension", "password", "lock"}]
         /\ \A v \in Users : \A f : v # u \/ f # flag => (f \in raced'[v] <=> f \in raced[v])
         /\ on <=> flag \in raced'[u]
BY DEF TInv, TypeOK, Mark

\* Thread t goes on with its job at another call.
LEMMA GoesOn ==
  ASSUME TInv, NEW t \in Threads, job[t] # None, NEW call \in Calls, Goto(t, call)
  PROVE  /\ JobsType' /\ Others(t) /\ job'[t] = [job[t] EXCEPT !.at = call] /\ job'[t] # None
         /\ job'[t].at = call /\ job'[t].method = job[t].method /\ job'[t].user = job[t].user
         /\ job'[t].row = job[t].row /\ job'[t].session = job[t].session
         /\ job'[t].password = job[t].password
<1> DEFINE j == [job[t] EXCEPT !.at = call]
<1>1. job[t] \in Jobs
  BY Holds
<1>2. /\ j \in Jobs /\ j.at = call /\ j.method = job[t].method /\ j.user = job[t].user
      /\ j.row = job[t].row /\ j.session = job[t].session /\ j.password = job[t].password
  BY <1>1 DEF Jobs
<1>3. job' = [job EXCEPT ![t] = j]
  BY DEF Goto
<1> HIDE DEF j
<1>4. JobsType' /\ Others(t) /\ job'[t] = j
  BY <1>2, <1>3, Moves
<1> QED
  BY <1>2, <1>4, NoneAssumption DEF j

LEMMA TUpdateUser ==
  ASSUME TInv, NEW t \in Threads, update_user(t)
  PROVE  /\ TInv' /\ Others(t) /\ UNCHANGED <<sessions, clock, suspended, contested>>
         /\ job[t] # None /\ job[t].user \in Users /\ job[t].row \in Rows
         /\ users' = [users EXCEPT ![job[t].user] = job[t].row]
         /\ IF job[t].method = "failed_login" THEN job'[t] = None
            ELSE /\ job'[t] # None /\ job'[t].user = job[t].user
                 /\ job'[t].method = job[t].method /\ job'[t].session = job[t].session
                 /\ job'[t].password = job[t].password
                 /\ job'[t].at = IF job[t].method = "login" THEN "create_session"
                                 ELSE "revoke_all_user_sessions"
<1> DEFINE u == job[t].user
           m == job[t].method
           row == job[t].row
<1>1. /\ job[t] # None /\ job[t].at = "update_user" /\ u \in Users /\ row \in Rows
      /\ row # None /\ users[u] # None /\ Fits(job[t])
      /\ m \in {"login", "failed_login", "change_password", "suspend"}
      /\ m \in {"login", "change_password"} => job[t].password = row.password
  BY Holds DEF update_user, At, Idle, Fits
<1>2. /\ users' = [users EXCEPT ![u] = row] /\ UNCHANGED <<sessions, clock, suspended, contested>>
      /\ m = "failed_login" => End(t)
      /\ m = "login" => Goto(t, "create_session")
      /\ m \in {"change_password", "suspend"} => Goto(t, "revoke_all_user_sessions")
  BY <1>1 DEF update_user
<1>3. UsersType' /\ Keeps /\ NoneIssued
  BY <1>1, <1>2 DEF TInv, TypeOK, UsersType, Keeps, NoneIssued
<1>4. /\ JobsType' /\ Others(t)
      /\ IF m = "failed_login" THEN job'[t] = None
         ELSE /\ job'[t] # None /\ job'[t].user = u /\ job'[t].method = m
              /\ job'[t].session = job[t].session /\ job'[t].password = job[t].password
              /\ job'[t].at = IF m = "login" THEN "create_session"
                              ELSE "revoke_all_user_sessions"
  <2>1. CASE m = "failed_login"
    BY <1>2, <2>1, Moves DEF End
  <2>2. CASE m = "login"
    BY <1>1, <1>2, <2>2, GoesOn DEF Calls
  <2>3. CASE m \in {"change_password", "suspend"}
    BY <1>1, <1>2, <2>3, GoesOn DEF Calls
  <2> QED
    BY <1>1, <2>1, <2>2, <2>3
<1>5. job'[t] # None => Fits(job[t])'
  <2>1. m \in {"login", "change_password"} => job[t].password # None /\ job[t].password \in Passwords
    BY <1>1, AuthAssumption DEF Rows
  <2>2. users'[u] # None
    BY <1>1, <1>2 DEF TInv, TypeOK
  <2> QED
    BY <1>1, <1>2, <1>4, <2>1, <2>2 DEF Fits, Issued
<1>6. JobsFit' /\ SessionsFit'
  BY <1>3, <1>4, <1>5, JobsStayFit, SessionsStayFit
<1>7. changed' \in [Users -> Passwords \cup {None}] /\ HistoryFits'
  <2>1. CASE m = "change_password"
    <3>1. changed' = [changed EXCEPT ![u] = job[t].password]
      BY <2>1 DEF update_user
    <3>2. job[t].password \in Passwords
      BY <1>1, <2>1 DEF Rows
    <3> QED
      BY <1>1, <1>2, <1>3, <3>1, <3>2 DEF TInv, TypeOK, HistoryFits, Keeps
  <2>2. CASE m # "change_password"
    <3>1. changed' = changed
      BY <2>2 DEF update_user
    <3> QED
      BY <1>2, <1>3, <3>1, HistoryStaysFit DEF TInv, TypeOK
  <2> QED
    BY <2>1, <2>2
<1>8. raced' \in [Users -> SUBSET {"suspension", "password", "lock"}]
  <2>1. raced' = raced \/ \E flag \in {"suspension", "password", "lock"} :
                             raced' = [raced EXCEPT ![u] = Mark(@, flag, StaleWriter(t, u))]
    BY <1>1 DEF update_user
  <2> QED
    BY <1>1, <2>1, Marked DEF TInv, TypeOK
<1> QED
  BY <1>1, <1>2, <1>3, <1>4, <1>6, <1>7, <1>8 DEF TInv, TypeOK, UsersType, JobsType

LEMMA RevokedRow ==
  ASSUME TInv, NEW s \in Sessions, Issued(s)
  PROVE  [sessions[s] EXCEPT !.is_revoked = TRUE] \in SessionRows
BY DEF TInv, TypeOK, SessionRows, Issued

\* Revoking sessions, whichever they are.
Revokes ==
    /\ SessionsType'
    /\ \A s \in Sessions :
          \/ sessions'[s] = sessions[s]
          \/ Issued(s) /\ sessions'[s] = [sessions[s] EXCEPT !.is_revoked = TRUE]

LEMMA Revoked ==
  ASSUME TInv, UNCHANGED users, Revokes
  PROVE  /\ Keeps /\ NoneIssued
         /\ \A s \in Sessions : Issued(s)' => sessions'[s].expired = sessions[s].expired
<1>1. \A s \in Sessions : sessions[s] # None =>
         LET row == [sessions[s] EXCEPT !.is_revoked = TRUE] IN
         /\ row # None /\ row.user = sessions[s].user /\ row.parent = sessions[s].parent
         /\ row.password = sessions[s].password /\ row.is_revoked
         /\ row.expired = sessions[s].expired
  BY RevokedRow, NoneAssumption DEF TInv, TypeOK, SessionRows, Issued
<1> QED
  BY <1>1 DEF Keeps, NoneIssued, Revokes, Issued

LEMMA RevokesOne ==
  ASSUME TInv, NEW s \in Sessions, Issued(s),
         sessions' = [sessions EXCEPT ![s].is_revoked = TRUE]
  PROVE  Revokes /\ sessions'[s].is_revoked /\ sessions'[s] # None
<1> DEFINE row == [sessions[s] EXCEPT !.is_revoked = TRUE]
<1>1. row \in SessionRows /\ row.is_revoked /\ row # None
  BY RevokedRow, NoneAssumption DEF TInv, TypeOK, SessionRows, Issued
<1>2. sessions' = [sessions EXCEPT ![s] = row]
  BY DEF TInv, TypeOK
<1> QED
  BY <1>1, <1>2 DEF TInv, TypeOK, SessionsType, Revokes

LEMMA RevokesAll ==
  ASSUME TInv, NEW u,
         sessions' = [s \in Sessions |->
             IF Issued(s) /\ sessions[s].user = u
             THEN [sessions[s] EXCEPT !.is_revoked = TRUE] ELSE sessions[s]]
  PROVE  /\ Revokes
         /\ \A s \in Sessions : Issued(s)' /\ sessions'[s].user = u => sessions'[s].is_revoked
<1>1. \A s \in Sessions : Issued(s) => [sessions[s] EXCEPT !.is_revoked = TRUE] \in SessionRows
  BY RevokedRow
<1>2. Revokes
  BY <1>1 DEF TInv, TypeOK, SessionsType, Revokes
<1>3. ASSUME NEW s \in Sessions, Issued(s)', sessions'[s].user = u PROVE sessions'[s].is_revoked
  <2>1. Issued(s) /\ sessions[s].user = u /\ sessions[s] \in SessionRows
    BY <1>2, <1>3, SessionRow, RevokedRow DEF Revokes, Issued, SessionRows
  <2> QED
    BY <2>1 DEF SessionRows
<1> QED
  BY <1>2, <1>3

LEMMA TRevokeAll ==
  ASSUME TInv, NEW t \in Threads, revoke_all_user_sessions(t)
  PROVE  /\ TInv' /\ Others(t) /\ Keeps /\ NoneIssued /\ job'[t] = None
         /\ UNCHANGED <<users, clock, changed, contested>>
         /\ job[t] # None /\ job[t].user \in Users
         /\ \A s \in Sessions :
               Issued(s)' /\ sessions'[s].user = job[t].user => sessions'[s].is_revoked
<1> DEFINE u == job[t].user
           m == job[t].method
<1>1. job[t] # None /\ u \in Users /\ users[u] # None
  BY Holds DEF revoke_all_user_sessions, At, Idle, Fits
<1>2. /\ Revokes
      /\ \A s \in Sessions : Issued(s)' /\ sessions'[s].user = u => sessions'[s].is_revoked
  BY RevokesAll DEF revoke_all_user_sessions, RevokedFor
<1>3. End(t) /\ UNCHANGED <<users, clock, changed, contested>>
  BY DEF revoke_all_user_sessions
<1>4. Keeps /\ NoneIssued
  BY <1>2, <1>3, Revoked
<1>5. JobsType' /\ Others(t) /\ job'[t] = None
  BY <1>3, Moves DEF End
<1>6. JobsFit' /\ SessionsFit'
  BY <1>4, <1>5, JobsStayFit, SessionsStayFit
<1>7. suspended' \in [Users -> BOOLEAN] /\ HistoryFits'
  <2>1. suspended' = suspended \/ suspended' = [suspended EXCEPT ![u] = TRUE]
    BY DEF revoke_all_user_sessions
  <2> QED
    BY <1>1, <1>3, <2>1 DEF TInv, TypeOK, HistoryFits
<1>8. raced' \in [Users -> SUBSET {"suspension", "password", "lock"}]
  <2>1. \/ raced' = raced \/ raced' = [raced EXCEPT ![u] = @ \cup {"suspension"}]
        \/ raced' = [raced EXCEPT ![u] = @ \cup {"password"}]
    BY DEF revoke_all_user_sessions
  <2> QED
    BY <2>1 DEF TInv, TypeOK
<1> QED
  BY <1>1, <1>2, <1>3, <1>4, <1>5, <1>6, <1>7, <1>8 DEF TInv, TypeOK, JobsType, SessionsType, Revokes

LEMMA TCreateSession ==
  ASSUME TInv, NEW t \in Threads, create_session(t)
  PROVE  /\ TInv' /\ Others(t) /\ Keeps /\ UNCHANGED <<users, clock, history>>
         /\ job[t] # None /\ job'[t] = None
         /\ \E s \in Sessions :
               /\ ~Issued(s) /\ Issued(s)'
               /\ sessions'[s] = [user |-> job[t].user, is_revoked |-> FALSE, expired |-> FALSE,
                                  parent |-> job[t].session, password |-> job[t].password]
               /\ \A n \in Sessions : n # s => sessions'[n] = sessions[n]
<1>1. /\ job[t] # None /\ job[t] \in Jobs /\ Fits(job[t]) /\ job[t].password # None
      /\ users[job[t].user] # None
  BY Holds DEF create_session, At, Idle, Fits
<1>2. PICK s \in Sessions :
        /\ ~Issued(s)
        /\ sessions' = [sessions EXCEPT ![s] =
              [user |-> job[t].user, is_revoked |-> FALSE, expired |-> FALSE,
               parent |-> job[t].session, password |-> job[t].password]]
  BY DEF create_session
<1> DEFINE row == [user |-> job[t].user, is_revoked |-> FALSE, expired |-> FALSE,
                   parent |-> job[t].session, password |-> job[t].password]
<1>3. row \in SessionRows /\ row.user = job[t].user /\ row.parent = job[t].session
  BY <1>1 DEF SessionRows, Jobs
<1> HIDE DEF row
<1>4. row # None
  BY <1>3, NoneAssumption
<1>5. /\ SessionsType' /\ sessions'[s] = row
      /\ \A n \in Sessions : n # s => sessions'[n] = sessions[n]
  BY <1>2, <1>3 DEF TInv, TypeOK, SessionsType, row
<1>6. UNCHANGED <<users, clock, history>> /\ End(t)
  BY DEF create_session
<1>7. Keeps
  BY <1>2, <1>5, <1>6 DEF Keeps, Issued
<1>8. JobsType' /\ Others(t) /\ job'[t] = None
  BY <1>6, Moves DEF End
<1>9. JobsFit' /\ HistoryFits'
  BY <1>6, <1>7, <1>8, JobsStayFit, HistoryStaysFit DEF history
<1>10. SessionsFit'
  <2> SUFFICES ASSUME NEW n \in Sessions, sessions'[n] # None
               PROVE  /\ users'[sessions'[n].user] # None
                      /\ sessions'[n].parent # None => sessions'[sessions'[n].parent] # None
    BY DEF SessionsFit, Issued
  <2>1. CASE n = s
    BY <1>1, <1>2, <1>3, <1>5, <1>6, <2>1 DEF Fits, Issued, Jobs
  <2>2. CASE n # s
    BY <1>2, <1>4, <1>5, <1>6, <2>2 DEF TInv, TypeOK, SessionsFit, SessionRows, Issued
  <2> QED
    BY <2>1, <2>2
<1> QED
  BY <1>1, <1>2, <1>4, <1>5, <1>6, <1>7, <1>8, <1>9, <1>10
     DEF TInv, TypeOK, JobsType, SessionsType, history, Issued, row

LEMMA TGetUser ==
  ASSUME TInv, NEW t \in Threads, get_user_by_id(t)
  PROVE  /\ TInv' /\ Others(t) /\ UNCHANGED <<users, sessions, clock, history>>
         /\ job[t] # None /\ job'[t] # None /\ Fits(job[t]) /\ job[t].at = "get_user_by_id"
         /\ job'[t].user = job[t].user /\ job'[t].session = job[t].session
         /\ job'[t].password = job[t].password
         /\ IF users[job[t].user].status = "ACTIVE"
            THEN job'[t].at = "revoke_session" /\ job'[t].method = "rotate"
            ELSE job'[t].at = "revoke_all_user_sessions" /\ job'[t].method = "revoke_everything"
<1>1. job[t] # None /\ job[t] \in Jobs /\ Fits(job[t]) /\ job[t].at = "get_user_by_id"
  BY Holds DEF get_user_by_id, At, Idle
<1>2. UNCHANGED <<users, sessions, clock, history>> /\ Keeps /\ NoneIssued
  BY Same DEF get_user_by_id
<1> DEFINE active == users[job[t].user].status = "ACTIVE"
           j == IF active THEN [job[t] EXCEPT !.at = "revoke_session"]
                ELSE [job[t] EXCEPT !.at = "revoke_all_user_sessions", !.method = "revoke_everything"]
<1>3. job' = [job EXCEPT ![t] = j]
  BY <1>1 DEF get_user_by_id, Goto, TInv, TypeOK
<1>4. /\ j \in Jobs /\ j.user = job[t].user /\ j.session = job[t].session
      /\ j.password = job[t].password
      /\ IF active THEN j.at = "revoke_session" /\ j.method = "rotate"
         ELSE j.at = "revoke_all_user_sessions" /\ j.method = "revoke_everything"
  BY <1>1 DEF Jobs, Calls, Methods, Fits
<1> HIDE DEF j
<1>5. JobsType' /\ Others(t) /\ job'[t] = j
  BY <1>3, <1>4, Moves
<1>6. Fits(j)
  BY <1>1, <1>4 DEF Fits
<1>7. Fits(job[t])'
  BY <1>2, <1>5, <1>6 DEF Fits, Issued
<1>8. JobsFit' /\ SessionsFit' /\ HistoryFits'
  BY <1>2, <1>5, <1>7, JobsStayFit, SessionsStayFit, HistoryStaysFit DEF history
<1> QED
  BY <1>1, <1>2, <1>4, <1>5, <1>8, NoneAssumption DEF TInv, TypeOK, JobsType, history

LEMMA TRevokeSession ==
  ASSUME TInv, NEW t \in Threads, revoke_session(t)
  PROVE  /\ TInv' /\ Others(t) /\ Keeps /\ NoneIssued
         /\ UNCHANGED <<users, clock, suspended, changed, raced>>
         /\ job[t] # None /\ Fits(job[t]) /\ job[t].at = "revoke_session"
         /\ job[t].session \in Sessions /\ Issued(job[t].session)
         /\ sessions'[job[t].session] # None
         /\ sessions'[job[t].session].is_revoked
         /\ \A s \in Sessions : Issued(s)' => sessions'[s].expired = sessions[s].expired
         /\ IF job[t].method = "rotate"
            THEN /\ job'[t] # None /\ job'[t].at = "create_session"
                 /\ job'[t].user = job[t].user /\ job'[t].method = job[t].method
                 /\ job'[t].session = job[t].session /\ job'[t].password = job[t].password
            ELSE job'[t] = None
<1> DEFINE s == job[t].session
<1>1. /\ job[t] # None /\ Fits(job[t]) /\ job[t].at = "revoke_session"
      /\ s \in Sessions /\ Issued(s) /\ users[job[t].user] # None
      /\ sessions[s].password # None /\ job[t].password = sessions[s].password
  <2>1. job[t] # None /\ Fits(job[t]) /\ job[t].at = "revoke_session"
    BY Holds DEF revoke_session, At, Idle
  <2>2. s \in Sessions /\ Issued(s)
    BY <2>1, Holds DEF Fits
  <2> QED
    BY <2>1, <2>2, SessionRow DEF Fits
<1>2. UNCHANGED <<users, clock, suspended, changed, raced>>
  BY DEF revoke_session
<1>3. Revokes /\ sessions'[s].is_revoked /\ sessions'[s] # None
  BY <1>1, RevokesOne DEF revoke_session
<1>4. /\ Keeps /\ NoneIssued
      /\ \A n \in Sessions : Issued(n)' => sessions'[n].expired = sessions[n].expired
  BY <1>2, <1>3, Revoked
<1>5. /\ JobsType' /\ Others(t)
      /\ IF job[t].method = "rotate"
         THEN /\ job'[t] # None /\ job'[t].at = "create_session"
              /\ job'[t].user = job[t].user /\ job'[t].method = job[t].method
              /\ job'[t].session = s /\ job'[t].password = job[t].password
         ELSE job'[t] = None
  <2>1. CASE job[t].method = "rotate"
    BY <1>1, <2>1, GoesOn DEF revoke_session, Calls
  <2>2. CASE job[t].method # "rotate"
    BY <1>1, <2>2, Moves DEF revoke_session, End
  <2> QED
    BY <2>1, <2>2
<1>6. job'[t] # None => Fits(job[t])'
  <2> SUFFICES ASSUME job[t].method = "rotate" PROVE Fits(job[t])'
    BY <1>5
  <2>1. /\ sessions'[s] # None /\ job[t].user = sessions'[s].user
        /\ job[t].password = sessions'[s].password
    BY <1>1, <1>3, <1>4 DEF Fits, Keeps, Issued
  <2> QED
    BY <1>1, <1>2, <1>5, <2>1 DEF Fits, Issued
<1>7. JobsFit' /\ SessionsFit' /\ HistoryFits'
  BY <1>2, <1>4, <1>5, <1>6, JobsStayFit, SessionsStayFit, HistoryStaysFit
<1>8. contested' \subseteq Sessions
  BY <1>1 DEF revoke_session, TInv, TypeOK
<1>9. TypeOK'
  BY <1>2, <1>3, <1>5, <1>8 DEF TInv, TypeOK, JobsType, SessionsType, Revokes
<1>10. TInv'
  BY <1>7, <1>9 DEF TInv
<1> QED
  BY <1>1, <1>2, <1>3, <1>4, <1>5, <1>10 DEF Issued

\* Steps of no service method: logouts, expiry, time, and stuttering.
Elsewhere ==
    \/ \E s \in Sessions : logout(s) \/ Expire(s)
    \/ \E u \in Users : logout_all(u)
    \/ Tick \/ UNCHANGED vars

LEMMA TElsewhere ==
  ASSUME TInv, Elsewhere
  PROVE  /\ TInv' /\ Keeps /\ NoneIssued /\ UNCHANGED <<users, job, history>>
         /\ clock' = clock \/ clock' = clock + 1
<1>1. UNCHANGED <<users, job, history>>
  BY DEF Elsewhere, logout, Expire, logout_all, Tick, vars, history
<1>2. clock' \in 0..MaxClock /\ (clock' = clock \/ clock' = clock + 1)
  BY AuthAssumption DEF Elsewhere, logout, Expire, logout_all, Tick, vars, history, TInv, TypeOK
<1>3. SessionsType' /\ Keeps /\ NoneIssued
  <2>1. CASE \E s \in Sessions : logout(s)
    BY <2>1, <1>1, RevokesOne, Revoked DEF logout, Revokes
  <2>2. CASE \E u \in Users : logout_all(u)
    BY <2>2, <1>1, RevokesAll, Revoked DEF logout_all, RevokedFor, Revokes
  <2>3. ASSUME NEW s \in Sessions, Expire(s) PROVE SessionsType' /\ Keeps /\ NoneIssued
    <3> DEFINE row == [sessions[s] EXCEPT !.expired = TRUE]
    <3>1. sessions[s] # None /\ sessions[s] \in SessionRows
      BY <2>3, SessionRow DEF Expire, Live, Issued
    <3>2. /\ row \in SessionRows /\ row.user = sessions[s].user /\ row.parent = sessions[s].parent
          /\ row.password = sessions[s].password /\ row.is_revoked = sessions[s].is_revoked
          /\ row.expired
      BY <3>1 DEF SessionRows
    <3>3. sessions' = [sessions EXCEPT ![s] = row]
      BY <2>3 DEF Expire, TInv, TypeOK
    <3> HIDE DEF row
    <3>4. row # None
      BY <3>2, NoneAssumption
    <3> QED
      BY <1>1, <3>1, <3>2, <3>3, <3>4 DEF TInv, TypeOK, SessionsType, Keeps, NoneIssued
  <2>4. CASE Tick \/ UNCHANGED vars
    BY <2>4, Same DEF Tick, vars, history, TInv, TypeOK, SessionsType
  <2> QED
    BY <2>1, <2>2, <2>3, <2>4 DEF Elsewhere
<1>4. JobsFit'
  <2> SUFFICES ASSUME NEW x \in Threads, job[x] # None PROVE Fits(job[x])'
    BY <1>1 DEF JobsFit
  <2>1. /\ Fits(job[x]) /\ job[x].user \in Users
        /\ job[x].session # None => job[x].session \in Sessions
    BY Holds
  <2>2. job[x].session # None =>
           /\ sessions'[job[x].session] # None
           /\ job[x].user = sessions'[job[x].session].user
           /\ job[x].password = sessions'[job[x].session].password
    BY <1>3, <2>1 DEF Fits, Keeps, Issued
  <2> QED
    BY <1>1, <2>1, <2>2 DEF Fits, Issued
<1>5. SessionsFit' /\ HistoryFits'
  BY <1>1, <1>3, SessionsStayFit, HistoryStaysFit DEF history
<1> QED
  BY <1>1, <1>2, <1>3, <1>4, <1>5 DEF TInv, TypeOK, SessionsType, history

-----------------------------------------------------------------------------
\* One rotation for a refresh token.
OnceFor(s) ==
    /\ \A x \in Threads : Rotating(x, s, {"create_session"}) =>
          /\ Spent(s) /\ Successors(s) = {}
          /\ \A y \in Threads : Rotating(y, s, {"create_session"}) => y = x
    /\ \A n \in Successors(s) : Spent(s) /\ \A m \in Successors(s) : m = n

Checked == {"get_user_by_id", "revoke_session"}

LEMMA SpentStays ==
  ASSUME TInv, NEW s \in Sessions, Spent(s), Keeps,
         \A x \in Threads : Rotating(x, s, Checked)' =>
            Rotating(x, s, Checked) \/ ~sessions[s].is_revoked
  PROVE  Spent(s)'
BY DEF Spent, Checked, Keeps, Issued

LEMMA SameSuccessors ==
  ASSUME TInv, NEW s \in Sessions, Keeps, NoneIssued
  PROVE  Successors(s)' = Successors(s)
BY DEF Successors, Keeps, NoneIssued, Issued

LEMMA OnceStays ==
  ASSUME TInv, Keeps, NoneIssued, NEW s \in Sessions, OnceFor(s),
         \A x \in Threads :
            /\ Rotating(x, s, {"create_session"})' => Rotating(x, s, {"create_session"})
            /\ Rotating(x, s, Checked)' => Rotating(x, s, Checked) \/ ~sessions[s].is_revoked
  PROVE  OnceFor(s)'
BY SpentStays, SameSuccessors DEF OnceFor

LEMMA OnceStarts ==
  ASSUME TInv, Once, NEW t \in Threads, NEW j, Starts(t, j)
  PROVE  Once'
<1>1. TInv' /\ Others(t) /\ job'[t] = j /\ Keeps /\ NoneIssued
  BY TStarts, Same DEF Starts
<1> SUFFICES ASSUME NEW s \in Sessions \ contested PROVE OnceFor(s)'
  BY DEF Once, OnceFor, Starts, history
<1>2. OnceFor(s)
  BY DEF Once, OnceFor
<1>3. ASSUME NEW x \in Threads
      PROVE  /\ Rotating(x, s, {"create_session"})' => Rotating(x, s, {"create_session"})
             /\ Rotating(x, s, Checked)' => Rotating(x, s, Checked) \/ ~sessions[s].is_revoked
  BY <1>1 DEF Others, Rotating, Idle, Starts, Fresh, Live, Checked
<1> QED
  BY <1>1, <1>2, <1>3, OnceStays

\* A step that brings no thread further along a rotation.
LEMMA OnceOthers ==
  ASSUME TInv, Once, NEW t \in Threads, Others(t), Keeps, NoneIssued, UNCHANGED contested,
         job'[t] # None =>
            \/ job'[t].method # "rotate"
            \/ /\ job[t] # None /\ job[t].method = "rotate" /\ job'[t].session = job[t].session
               /\ job[t].at \in Checked /\ job'[t].at \in Checked
  PROVE  Once'
<1> SUFFICES ASSUME NEW s \in Sessions \ contested PROVE OnceFor(s)'
  BY DEF Once, OnceFor
<1>1. OnceFor(s)
  BY DEF Once, OnceFor
<1>2. ASSUME NEW x \in Threads
      PROVE  /\ Rotating(x, s, {"create_session"})' => Rotating(x, s, {"create_session"})
             /\ Rotating(x, s, Checked)' => Rotating(x, s, Checked)
  BY DEF Others, Rotating, Idle, Checked
<1> QED
  BY <1>1, <1>2, OnceStays

LEMMA OnceRevoking ==
  ASSUME TInv, Once, NEW t \in Threads, revoke_session(t)
  PROVE  Once'
<1> USE TRevokeSession
<1>1. CASE job[t].method # "rotate"
  <2>1. contested' = contested /\ job'[t] = None
    BY <1>1 DEF revoke_session
  <2> QED
    BY <2>1, OnceOthers
<1>2. CASE job[t].method = "rotate"
  <2> SUFFICES ASSUME NEW s \in Sessions \ contested' PROVE OnceFor(s)'
    BY DEF Once, OnceFor
  <2>1. contested \subseteq contested'
    BY DEF revoke_session
  <2>2. OnceFor(s)
    BY <2>1 DEF Once, OnceFor
  <2>3. CASE s # job[t].session
    <3>1. ASSUME NEW x \in Threads
          PROVE  /\ Rotating(x, s, {"create_session"})' => Rotating(x, s, {"create_session"})
                 /\ Rotating(x, s, Checked)' => Rotating(x, s, Checked)
      BY <1>2, <2>3 DEF Others, Rotating, Idle, Checked
    <3> QED
      BY <2>2, <3>1, OnceStays
  <2>4. CASE s = job[t].session
    <3>1. Rotating(t, s, Checked)
      BY <1>2, <2>4 DEF Rotating, Idle, Checked
    <3>2. /\ \A x \in Threads : ~Rotating(x, s, {"create_session"})
          /\ Successors(s) = {}
      BY <2>2, <3>1 DEF OnceFor, Spent, Checked
    <3>3. Successors(s)' = {}
      BY <3>2, SameSuccessors
    <3>4. \A x \in Threads : x # t => ~Rotating(x, s, {"create_session"})'
      BY <3>2 DEF Others, Rotating, Idle
    <3>5. \A x \in Threads : ~Rotating(x, s, Checked)'
      <4> SUFFICES ASSUME NEW x \in Threads, Rotating(x, s, Checked)' PROVE FALSE
        OBVIOUS
      <4>1. x # t
        BY <1>2 DEF Rotating, Checked
      <4>2. Rotating(x, s, Checked)
        BY <4>1 DEF Others, Rotating, Idle
      <4>3. job[x].user = job[t].user
        BY <2>4, <4>2, Holds DEF Rotating, Idle, Fits
      <4>4. Rival(t)
        BY <2>4, <4>1, <4>2, <4>3 DEF Rival, Past, Rotating, Checked
      <4> QED
        BY <1>2, <2>4, <4>4 DEF revoke_session
    <3>6. Spent(s)'
      BY <2>4, <3>5 DEF Spent, Issued, Checked
    <3> QED
      BY <3>3, <3>4, <3>6 DEF OnceFor
  <2> QED
    BY <2>3, <2>4
<1> QED
  BY <1>1, <1>2

LEMMA OnceCreating ==
  ASSUME TInv, Once, NEW t \in Threads, create_session(t)
  PROVE  Once'
<1> USE TCreateSession
<1>1. PICK n \in Sessions :
        /\ ~Issued(n) /\ Issued(n)'
        /\ sessions'[n] = [user |-> job[t].user, is_revoked |-> FALSE, expired |-> FALSE,
                           parent |-> job[t].session, password |-> job[t].password]
        /\ \A m \in Sessions : m # n => sessions'[m] = sessions[m]
  OBVIOUS
<1>2. /\ job[t] # None /\ job[t].at = "create_session" /\ Fits(job[t]) /\ contested' = contested
      /\ sessions'[n].parent = job[t].session
  BY <1>1, Holds DEF create_session, At, Idle, history
<1> SUFFICES ASSUME NEW s \in Sessions \ contested PROVE OnceFor(s)'
  BY <1>2 DEF Once, OnceFor
<1>3. OnceFor(s)
  BY DEF Once, OnceFor
<1>4. ASSUME NEW x \in Threads
      PROVE  /\ Rotating(x, s, {"create_session"})' => Rotating(x, s, {"create_session"}) /\ x # t
             /\ Rotating(x, s, Checked)' => Rotating(x, s, Checked)
  BY <1>2 DEF Others, Rotating, Idle, Checked
<1>5. Spent(s) => Spent(s)'
  BY <1>4, SpentStays
<1>6. CASE s # job[t].session
  <2>1. Successors(s)' = Successors(s)
    BY <1>1, <1>2, <1>6 DEF Successors, Issued
  <2> QED
    BY <1>3, <1>4, <1>5, <2>1 DEF OnceFor
<1>7. CASE s = job[t].session
  <2>1. s # None /\ job[t].method = "rotate"
    BY <1>2, <1>7, AuthAssumption DEF Fits
  <2>2. Rotating(t, s, {"create_session"})
    BY <1>2, <1>7, <2>1 DEF Rotating, Idle
  <2>3. /\ Spent(s) /\ Successors(s) = {}
        /\ \A y \in Threads : Rotating(y, s, {"create_session"}) => y = t
    BY <1>3, <2>2 DEF OnceFor
  <2>4. Successors(s)' = {n}
    BY <1>1, <1>2, <1>7, <2>3 DEF Successors, Issued
  <2> QED
    BY <1>4, <1>5, <2>3, <2>4 DEF OnceFor
<1> QED
  BY <1>6, <1>7

LEMMA OnceElsewhere ==
  ASSUME TInv, Once, Elsewhere
  PROVE  Once'
<1> USE TElsewhere
<1> SUFFICES ASSUME NEW s \in Sessions \ contested PROVE OnceFor(s)'
  BY DEF Once, OnceFor, history
<1>1. OnceFor(s)
  BY DEF Once, OnceFor
<1>2. ASSUME NEW x \in Threads
      PROVE  /\ Rotating(x, s, {"create_session"})' => Rotating(x, s, {"create_session"})
             /\ Rotating(x, s, Checked)' => Rotating(x, s, Checked)
  BY DEF Rotating, Idle, Checked
<1> QED
  BY <1>1, <1>2, OnceStays

-----------------------------------------------------------------------------
\* What a write of t does to the flags of users.
LEMMA FlagsAtUpdate ==
  ASSUME TInv, NEW t \in Threads, update_user(t)
  PROVE  LET u == job[t].user
             m == job[t].method
             flag == CASE m = "suspend" -> "suspension"
                       [] m = "change_password" -> "password"
                       [] m = "failed_login" /\ job[t].row.locked_until > clock -> "lock"
                       [] OTHER -> "none"
         IN  \A v \in Users, f \in {"suspension", "password", "lock"} : f \in raced'[v] <=>
               IF v = u /\ f = flag THEN StaleWriter(t, u) ELSE f \in raced[v]
<1>1. /\ job[t].user \in Users
      /\ job[t].method \in {"login", "failed_login", "change_password", "suspend"}
  BY Holds DEF update_user, At, Idle, Fits
<1>2. CASE job[t].method = "suspend"
  <2>1. raced' = [raced EXCEPT ![job[t].user] = Mark(@, "suspension", StaleWriter(t, job[t].user))]
    BY <1>2 DEF update_user
  <2> QED
    BY <1>1, <1>2, <2>1 DEF Mark, TInv, TypeOK
<1>3. CASE job[t].method = "change_password"
  <2>1. raced' = [raced EXCEPT ![job[t].user] = Mark(@, "password", StaleWriter(t, job[t].user))]
    BY <1>3 DEF update_user
  <2> QED
    BY <1>1, <1>3, <2>1 DEF Mark, TInv, TypeOK
<1>4. CASE job[t].method = "failed_login" /\ job[t].row.locked_until > clock
  <2>1. raced' = [raced EXCEPT ![job[t].user] = Mark(@, "lock", StaleWriter(t, job[t].user))]
    BY <1>4 DEF update_user
  <2> QED
    BY <1>1, <1>4, <2>1 DEF Mark, TInv, TypeOK
<1>5. CASE job[t].method = "login" \/ (job[t].method = "failed_login" /\ ~(job[t].row.locked_until > clock))
  <2>1. raced' = raced
    BY <1>5 DEF update_user
  <2> QED
    BY <1>5, <2>1
<1> QED
  BY <1>1, <1>2, <1>3, <1>4, <1>5

LEMMA FlagsAtRevoking ==
  ASSUME TInv, NEW t \in Threads, revoke_all_user_sessions(t)
  PROVE  /\ \A v \in Users : raced[v] \subseteq raced'[v]
         /\ job[t].method = "suspend" /\ LateLogin(job[t].user) =>
               "suspension" \in raced'[job[t].user]
         /\ job[t].method = "change_password" /\ LateOldPassword(job[t].user) =>
               "password" \in raced'[job[t].user]
<1>1. job[t].user \in Users
  BY TRevokeAll
<1> QED
  BY <1>1 DEF revoke_all_user_sessions, TInv, TypeOK

-----------------------------------------------------------------------------
\* A suspension that was carried out.
SealFor(u) ==
    (suspended[u] \/ \E x \in Threads : Suspending(x, u)) /\ "suspension" \notin raced[u]
        => Sealed(u)

\* A step of t that writes no user and brings t neither to a write nor, with a
\* suspension, past it.
LEMMA SealsStay ==
  ASSUME Seals, NEW t \in Threads, Others(t), UNCHANGED <<users, suspended>>,
         \A v \in Users : raced[v] \subseteq raced'[v],
         job'[t] # None => job'[t].at # "update_user" /\ job'[t].method # "suspend"
  PROVE  Seals'
<1> SUFFICES ASSUME NEW u \in Users PROVE SealFor(u)'
  BY DEF Seals, SealFor
<1>1. SealFor(u)
  BY DEF Seals, SealFor
<1>2. \A x \in Threads : Suspending(x, u)' => Suspending(x, u)
  BY DEF Suspending, At, Idle, Others
<1> QED
  BY <1>1, <1>2 DEF SealFor, Sealed, At, Idle, Others

LEMMA SealsStarting ==
  ASSUME TInv, Seals, NEW t \in Threads, NEW j, Starts(t, j)
  PROVE  Seals'
<1>1. /\ TInv' /\ Others(t) /\ job'[t] = j /\ j # None
      /\ UNCHANGED <<users, suspended, raced>>
  BY TStarts DEF Starts, history
<1> SUFFICES ASSUME NEW u \in Users PROVE SealFor(u)'
  BY DEF Seals, SealFor
<1>2. SealFor(u)
  BY DEF Seals, SealFor
<1>3. \A x \in Threads : Suspending(x, u)' => Suspending(x, u)
  BY <1>1 DEF Suspending, At, Idle, Others, Starts, Fresh
<1>4. \A x \in Threads : At(x, "update_user")' /\ job'[x].user = u =>
         \/ x = t /\ j.row.status \in {users[u].status, "SUSPENDED"}
         \/ At(x, "update_user") /\ job'[x] = job[x]
  BY <1>1 DEF At, Idle, Others, Starts, Fresh
<1> QED
  BY <1>1, <1>2, <1>3, <1>4 DEF SealFor, Sealed

LEMMA SealsCreatingUser ==
  ASSUME TInv, Seals, NEW t \in Threads, create_user(t)
  PROVE  Seals'
<1> USE TCreateUser
<1> SUFFICES ASSUME NEW u \in Users PROVE SealFor(u)'
  BY DEF Seals, SealFor
<1>1. SealFor(u)
  BY DEF Seals, SealFor
<1>2. \A x \in Threads : Suspending(x, u)' => Suspending(x, u)
  BY DEF Suspending, At, Idle, Others
<1>3. suspended[u] \/ (\E x \in Threads : Suspending(x, u)) => users[u] # None
  BY Holds DEF TInv, HistoryFits, Suspending, At, Idle, Fits
<1> QED
  BY <1>1, <1>2, <1>3 DEF SealFor, Sealed, At, Idle, Others, history

LEMMA SealsUpdating ==
  ASSUME TInv, Seals, NEW t \in Threads, update_user(t)
  PROVE  Seals'
<1> USE TUpdateUser
<1> DEFINE v == job[t].user
           m == job[t].method
<1>1. /\ At(t, "update_user") /\ Fits(job[t])
      /\ m \in {"login", "failed_login", "change_password", "suspend"}
  BY Holds DEF update_user, At, Idle, Fits
<1> SUFFICES ASSUME NEW u \in Users, suspended[u] \/ \E x \in Threads : Suspending(x, u)',
                    "suspension" \notin raced'[u]
             PROVE  Sealed(u)'
  BY DEF Seals
<1>2. CASE u # v
  <2>1. "suspension" \notin raced[u]
    BY <1>2, FlagsAtUpdate
  <2>2. \A x \in Threads : Suspending(x, u)' => Suspending(x, u)
    BY <1>2 DEF Suspending, At, Idle, Others
  <2>3. Sealed(u)
    BY <2>1, <2>2 DEF Seals
  <2>4. users'[u] = users[u]
    BY <1>2 DEF TInv, TypeOK
  <2> QED
    BY <1>2, <2>3, <2>4 DEF Sealed, At, Idle, Others
<1>3. CASE u = v /\ m = "suspend"
  <2>1. ~StaleWriter(t, u)
    BY <1>3, FlagsAtUpdate
  <2>2. users'[u].status = "SUSPENDED"
    BY <1>1, <1>3 DEF At, Fits, TInv, TypeOK
  <2> QED
    BY <1>3, <2>1, <2>2 DEF Sealed, StaleWriter, At, Idle, Others
<1>4. CASE u = v /\ m # "suspend"
  <2>1. "suspension" \notin raced[u]
    BY <1>4, FlagsAtUpdate
  <2>2. \A x \in Threads : Suspending(x, u)' => Suspending(x, u)
    BY <1>4 DEF Suspending, At, Idle, Others
  <2>3. Sealed(u)
    BY <2>1, <2>2 DEF Seals
  <2>4. users'[u].status = "SUSPENDED"
    BY <1>1, <1>4, <2>3 DEF Sealed, TInv, TypeOK
  <2> QED
    BY <1>4, <2>3, <2>4 DEF Sealed, At, Idle, Others
<1> QED
  BY <1>2, <1>3, <1>4

LEMMA SealsRevoking ==
  ASSUME TInv, Seals, NEW t \in Threads, revoke_all_user_sessions(t)
  PROVE  Seals'
<1> USE TRevokeAll
<1> SUFFICES ASSUME NEW u \in Users, suspended'[u] \/ \E x \in Threads : Suspending(x, u)',
                    "suspension" \notin raced'[u]
             PROVE  Sealed(u)'
  BY DEF Seals
<1>1. "suspension" \notin raced[u]
  BY FlagsAtRevoking
<1>2. \A x \in Threads : Suspending(x, u)' => Suspending(x, u)
  BY DEF Suspending, At, Idle, Others
<1>3. suspended'[u] => suspended[u] \/ Suspending(t, u)
  BY DEF revoke_all_user_sessions, Suspending, TInv, TypeOK
<1>4. Sealed(u)
  BY <1>1, <1>2, <1>3 DEF Seals
<1> QED
  BY <1>4 DEF Sealed, At, Idle, Others

-----------------------------------------------------------------------------
\* ...leaves no session behind.
OutFor(u) ==
    suspended[u] /\ ~Doing(u, "suspend") /\ "suspension" \notin raced[u] =>
        ~LateLogin(u) /\ LiveSessions(u) = {}

LEMMA NoneLives ==
  ASSUME TInv, Keeps, NoneIssued, NEW u \in Users
  PROVE  LiveSessions(u)' \subseteq LiveSessions(u)
BY DEF LiveSessions, Live, Issued, Keeps, NoneIssued, TInv, TypeOK, SessionRows

\* Thread x will yet store a session of u, or help to.
Late(x, u) ==
    \/ Past(x, u, {"create_session"})
    \/ Past(x, u, {"revoke_session"}) /\ job[x].method = "rotate"

LEMMA OutStays ==
  ASSUME TInv, Keeps, NoneIssued, UNCHANGED suspended, NEW u \in Users, OutFor(u),
         Doing(u, "suspend") => Doing(u, "suspend")',
         "suspension" \in raced[u] => "suspension" \in raced'[u],
         suspended[u] /\ "suspension" \notin raced[u] =>
            \A x \in Threads : Late(x, u)' => Late(x, u)
  PROVE  OutFor(u)'
<1> SUFFICES ASSUME suspended[u], ~Doing(u, "suspend"), "suspension" \notin raced[u]
             PROVE  ~LateLogin(u)' /\ LiveSessions(u)' = {}
  BY DEF OutFor
<1>1. ~LateLogin(u) /\ LiveSessions(u) = {}
  BY DEF OutFor
<1>2. ~LateLogin(u)'
  BY <1>1 DEF LateLogin, Late
<1> QED
  BY <1>1, <1>2, NoneLives

LEMMA OutStarting ==
  ASSUME TInv, ShutOut, NEW t \in Threads, NEW j, Starts(t, j)
  PROVE  ShutOut'
<1>1. /\ Others(t) /\ job'[t] = j /\ j # None /\ Keeps /\ NoneIssued
      /\ UNCHANGED <<suspended, raced>>
  BY TStarts, Same DEF Starts, history
<1> SUFFICES ASSUME NEW u \in Users PROVE OutFor(u)'
  BY DEF ShutOut, OutFor
<1>2. OutFor(u)
  BY DEF ShutOut, OutFor
<1>3. Doing(u, "suspend") => Doing(u, "suspend")'
  BY <1>1 DEF Doing, Idle, Others, Starts
<1>4. \A x \in Threads : Late(x, u)' => Late(x, u)
  BY <1>1 DEF Late, Past, Idle, Others, Starts, Fresh
<1> QED
  BY <1>1, <1>2, <1>3, <1>4, OutStays

LEMMA OutCreatingUser ==
  ASSUME TInv, ShutOut, NEW t \in Threads, create_user(t)
  PROVE  ShutOut'
<1> USE TCreateUser
<1>1. Keeps /\ NoneIssued
  BY DEF Keeps, NoneIssued
<1> SUFFICES ASSUME NEW u \in Users PROVE OutFor(u)'
  BY DEF ShutOut, OutFor
<1>2. OutFor(u)
  BY DEF ShutOut, OutFor
<1>3. job[t].method = "register"
  BY Holds DEF create_user, At, Idle, Fits
<1>4. Doing(u, "suspend") => Doing(u, "suspend")'
  BY <1>3 DEF Doing, Idle, Others
<1>5. \A x \in Threads : Late(x, u)' => Late(x, u)
  BY DEF Late, Past, Idle, Others
<1> QED
  BY <1>1, <1>2, <1>4, <1>5, OutStays DEF history

LEMMA OutUpdating ==
  ASSUME TInv, Seals, ShutOut, NEW t \in Threads, update_user(t)
  PROVE  ShutOut'
<1> USE TUpdateUser
<1> DEFINE m == job[t].method
<1>1. /\ At(t, "update_user") /\ Fits(job[t])
      /\ m \in {"login", "failed_login", "change_password", "suspend"}
  BY Holds DEF update_user, At, Idle, Fits
<1>2. Keeps /\ NoneIssued
  BY <1>1, NoneAssumption DEF Keeps, NoneIssued, TInv, TypeOK
<1> SUFFICES ASSUME NEW u \in Users PROVE OutFor(u)'
  BY DEF ShutOut, OutFor
<1>3. OutFor(u)
  BY DEF ShutOut, OutFor
<1>4. CASE m = "suspend" /\ u = job[t].user
  <2>1. Doing(u, "suspend")'
    BY <1>4 DEF Doing, Idle
  <2> QED
    BY <2>1 DEF OutFor
<1>5. CASE ~(m = "suspend" /\ u = job[t].user)
  <2>1. Doing(u, "suspend") => Doing(u, "suspend")'
    BY <1>5 DEF Doing, Idle, Others
  <2>2. "suspension" \in raced[u] => "suspension" \in raced'[u]
    BY <1>5, FlagsAtUpdate
  <2>3. ASSUME suspended[u], "suspension" \notin raced[u], NEW x \in Threads, Late(x, u)'
        PROVE  Late(x, u)
    <3>1. CASE x # t
      BY <2>3, <3>1 DEF Late, Past, Idle, Others
    <3>2. CASE x = t
      <4>1. m = "login" /\ u = job[t].user
        BY <1>1, <2>3, <3>2 DEF Late, Past, Idle
      <4>2. job[t].row.status = "SUSPENDED"
        BY <1>1, <2>3, <4>1 DEF Seals, Sealed
      <4> QED
        BY <1>1, <4>1, <4>2 DEF Fits, At
    <3> QED
      BY <3>1, <3>2
  <2> QED
    BY <1>2, <1>3, <2>1, <2>2, <2>3, OutStays
<1> QED
  BY <1>4, <1>5

LEMMA OutRevoking ==
  ASSUME TInv, ShutOut, NEW t \in Threads, revoke_all_user_sessions(t)
  PROVE  ShutOut'
<1> USE TRevokeAll
<1> SUFFICES ASSUME NEW u \in Users PROVE OutFor(u)'
  BY DEF ShutOut, OutFor
<1>1. OutFor(u)
  BY DEF ShutOut, OutFor
<1>2. \A x \in Threads : Late(x, u)' => Late(x, u)
  BY DEF Late, Past, Idle, Others
<1>3. CASE job[t].method = "suspend" /\ u = job[t].user
  <2> SUFFICES ASSUME "suspension" \notin raced'[u]
               PROVE  ~LateLogin(u)' /\ LiveSessions(u)' = {}
    BY DEF OutFor
  <2>1. ~LateLogin(u)
    BY <1>3, FlagsAtRevoking
  <2>2. ~LateLogin(u)'
    BY <1>2, <2>1 DEF LateLogin, Late
  <2>3. LiveSessions(u)' = {}
    BY <1>3 DEF LiveSessions, Live
  <2> QED
    BY <2>2, <2>3
<1>4. CASE ~(job[t].method = "suspend" /\ u = job[t].user)
  <2>1. suspended'[u] = suspended[u]
    BY <1>4 DEF revoke_all_user_sessions, TInv, TypeOK
  <2>2. Doing(u, "suspend") => Doing(u, "suspend")'
    BY <1>4 DEF Doing, Idle, Others
  <2>3. "suspension" \in raced[u] => "suspension" \in raced'[u]
    BY FlagsAtRevoking
  <2> SUFFICES ASSUME suspended[u], ~Doing(u, "suspend"), "suspension" \notin raced[u]
               PROVE  ~LateLogin(u)' /\ LiveSessions(u)' = {}
    BY <2>1, <2>2, <2>3 DEF OutFor
  <2>4. ~LateLogin(u) /\ LiveSessions(u) = {}
    BY <1>1 DEF OutFor
  <2>5. ~LateLogin(u)'
    BY <1>2, <2>4 DEF LateLogin, Late
  <2> QED
    BY <2>4, <2>5, NoneLives
<1> QED
  BY <1>3, <1>4

LEMMA OutCreating ==
  ASSUME TInv, ShutOut, NEW t \in Threads, create_session(t)
  PROVE  ShutOut'
<1> USE TCreateSession
<1>1. job[t].at = "create_session" /\ job[t].method \in {"login", "rotate"}
  BY Holds DEF create_session, At, Idle, Fits
<1> SUFFICES ASSUME NEW u \in Users, suspended[u], ~Doing(u, "suspend")',
                    "suspension" \notin raced[u]
             PROVE  ~LateLogin(u)' /\ LiveSessions(u)' = {}
  BY DEF ShutOut, history
<1>2. ~Doing(u, "suspend")
  BY <1>1 DEF Doing, Idle, Others
<1>3. ~LateLogin(u) /\ LiveSessions(u) = {}
  BY <1>2 DEF ShutOut
<1>4. job[t].user # u
  BY <1>1, <1>3 DEF LateLogin, Past, Idle
<1>5. ~LateLogin(u)'
  BY <1>3 DEF LateLogin, Past, Idle, Others
<1>6. LiveSessions(u)' \subseteq LiveSessions(u)
  <2>1. PICK s \in Sessions :
          /\ sessions'[s].user = job[t].user
          /\ \A n \in Sessions : n # s => sessions'[n] = sessions[n]
    <3>1. PICK s \in Sessions :
            /\ sessions'[s] = [user |-> job[t].user, is_revoked |-> FALSE, expired |-> FALSE,
                               parent |-> job[t].session, password |-> job[t].password]
            /\ \A n \in Sessions : n # s => sessions'[n] = sessions[n]
      OBVIOUS
    <3> QED
      BY <3>1
  <2> QED
    BY <1>4, <2>1 DEF LiveSessions, Live, Issued
<1> QED
  BY <1>3, <1>5, <1>6

LEMMA OutGettingUser ==
  ASSUME TInv, Seals, ShutOut, NEW t \in Threads, get_user_by_id(t)
  PROVE  ShutOut'
<1> USE TGetUser
<1>1. Keeps /\ NoneIssued
  BY Same
<1> SUFFICES ASSUME NEW u \in Users PROVE OutFor(u)'
  BY DEF ShutOut, OutFor
<1>2. OutFor(u)
  BY DEF ShutOut, OutFor
<1>3. job[t].method = "rotate"
  BY DEF Fits
<1>4. Doing(u, "suspend") => Doing(u, "suspend")'
  BY <1>3 DEF Doing, Idle, Others
<1>5. ASSUME suspended[u], "suspension" \notin raced[u], NEW x \in Threads, Late(x, u)'
      PROVE  Late(x, u)
  <2>1. users[u].status = "SUSPENDED"
    BY <1>5 DEF Seals, Sealed
  <2> QED
    BY <1>5, <2>1 DEF Late, Past, Idle, Others
<1> QED
  BY <1>1, <1>2, <1>4, <1>5, OutStays DEF history

LEMMA OutRevokingOne ==
  ASSUME TInv, ShutOut, NEW t \in Threads, revoke_session(t)
  PROVE  ShutOut'
<1> USE TRevokeSession
<1> SUFFICES ASSUME NEW u \in Users PROVE OutFor(u)'
  BY DEF ShutOut, OutFor
<1>1. OutFor(u)
  BY DEF ShutOut, OutFor
<1>2. job[t].method \in {"rotate", "expired"}
  BY DEF Fits
<1>3. Doing(u, "suspend") => Doing(u, "suspend")'
  BY <1>2 DEF Doing, Idle, Others
<1>4. \A x \in Threads : Late(x, u)' => Late(x, u)
  BY <1>2 DEF Late, Past, Idle, Others
<1> QED
  BY <1>1, <1>3, <1>4, OutStays

LEMMA OutElsewhere ==
  ASSUME TInv, ShutOut, Elsewhere
  PROVE  ShutOut'
<1> USE TElsewhere
<1> SUFFICES ASSUME NEW u \in Users PROVE OutFor(u)'
  BY DEF ShutOut, OutFor
<1>1. OutFor(u)
  BY DEF ShutOut, OutFor
<1>2. /\ Doing(u, "suspend") => Doing(u, "suspend")'
      /\ \A x \in Threads : Late(x, u)' => Late(x, u)
  BY DEF Doing, Idle, Late, Past
<1> QED
  BY <1>1, <1>2, OutStays DEF history

-----------------------------------------------------------------------------
\* A password that was changed.
KeptFor(u) ==
    changed[u] # None /\ "password" \notin raced[u] =>
        /\ users[u].password = changed[u]
        /\ \A x \in Threads : At(x, "update_user") /\ job[x].user = u =>
              job[x].method = "change_password" \/ job[x].row.password = changed[u]

\* A step that leaves u's row, or has yet to insert it, and brings no thread to
\* a write.
LEMMA KeptStays ==
  ASSUME NEW u \in Users, KeptFor(u), changed'[u] = changed[u],
         changed[u] # None => users'[u] = users[u],
         "password" \in raced[u] => "password" \in raced'[u],
         \A x \in Threads : At(x, "update_user")' => job'[x] = job[x]
  PROVE  KeptFor(u)'
BY DEF KeptFor, At, Idle

LEMMA KeptStarting ==
  ASSUME TInv, PasswordKept, NEW t \in Threads, NEW j, Starts(t, j)
  PROVE  PasswordKept'
<1>1. /\ Others(t) /\ job'[t] = j /\ j # None /\ UNCHANGED <<users, changed, raced>>
  BY TStarts DEF Starts, history
<1> SUFFICES ASSUME NEW u \in Users PROVE KeptFor(u)'
  BY DEF PasswordKept, KeptFor
<1>2. KeptFor(u)
  BY DEF PasswordKept, KeptFor
<1>3. \A x \in Threads : At(x, "update_user")' /\ job'[x].user = u =>
         \/ job'[x].method = "change_password"
         \/ job'[x].row.password = users[u].password
         \/ At(x, "update_user") /\ job'[x] = job[x]
  BY <1>1 DEF At, Idle, Others, Starts, Fresh
<1> QED
  BY <1>1, <1>2, <1>3 DEF KeptFor

LEMMA KeptUpdating ==
  ASSUME TInv, PasswordKept, NEW t \in Threads, update_user(t)
  PROVE  PasswordKept'
<1> USE TUpdateUser
<1> DEFINE v == job[t].user
           m == job[t].method
<1>1. /\ At(t, "update_user") /\ Fits(job[t]) /\ users'[v] = job[t].row
      /\ \A u \in Users : u # v => users'[u] = users[u]
      /\ m \in {"login", "failed_login", "change_password", "suspend"}
  BY Holds DEF update_user, At, Idle, Fits, TInv, TypeOK
<1>2. \A x \in Threads : At(x, "update_user")' => x # t /\ job'[x] = job[x]
  BY <1>1 DEF At, Idle, Others
<1> SUFFICES ASSUME NEW u \in Users PROVE KeptFor(u)'
  BY DEF PasswordKept, KeptFor
<1>3. KeptFor(u)
  BY DEF PasswordKept, KeptFor
<1>4. CASE u = v /\ m = "change_password"
  <2> SUFFICES ASSUME "password" \notin raced'[u]
               PROVE  /\ users'[u].password = changed'[u]
                      /\ \A x \in Threads : ~(At(x, "update_user")' /\ job'[x].user = u)
    BY DEF KeptFor
  <2>1. ~StaleWriter(t, u)
    BY <1>4, FlagsAtUpdate
  <2>2. \A x \in Threads : ~(At(x, "update_user")' /\ job'[x].user = u)
    BY <1>2, <1>4, <2>1 DEF StaleWriter, At, Idle
  <2>3. changed'[u] = job[t].password
    BY <1>4 DEF update_user, TInv, TypeOK
  <2> QED
    BY <1>1, <1>4, <2>2, <2>3 DEF Fits, At
<1>5. CASE ~(u = v /\ m = "change_password")
  <2>1. changed'[u] = changed[u]
    BY <1>5 DEF update_user, TInv, TypeOK
  <2>2. "password" \in raced[u] => "password" \in raced'[u]
    BY <1>5, FlagsAtUpdate
  <2>3. CASE u # v
    BY <1>1, <1>2, <1>3, <2>1, <2>2, <2>3, KeptStays
  <2>4. CASE u = v
    <3>1. changed[u] # None /\ "password" \notin raced[u] => users'[u].password = changed[u]
      BY <1>1, <1>3, <1>5, <2>4 DEF KeptFor
    <3> QED
      BY <1>2, <1>3, <2>1, <2>2, <3>1 DEF KeptFor, At, Idle
  <2> QED
    BY <2>3, <2>4
<1> QED
  BY <1>4, <1>5

LEMMA KeptOthers ==
  ASSUME TInv, PasswordKept, NEW t \in Threads, Others(t), UNCHANGED changed,
         \A u \in Users : users[u] # None => users'[u] = users[u],
         \A u \in Users : raced[u] \subseteq raced'[u],
         job'[t] # None => job'[t].at # "update_user"
  PROVE  PasswordKept'
<1> SUFFICES ASSUME NEW u \in Users PROVE KeptFor(u)'
  BY DEF PasswordKept, KeptFor
<1>1. KeptFor(u)
  BY DEF PasswordKept, KeptFor
<1>2. changed[u] # None => users'[u] = users[u]
  BY DEF TInv, HistoryFits
<1>3. \A x \in Threads : At(x, "update_user")' => job'[x] = job[x]
  BY DEF At, Idle, Others
<1> QED
  BY <1>1, <1>2, <1>3, KeptStays

-----------------------------------------------------------------------------
\* ...is the one every session goes back to.
UsedFor(u) ==
    changed[u] # None /\ ~Doing(u, "change_password") /\ "password" \notin raced[u] =>
        /\ ~LateOldPassword(u)
        /\ \A s \in LiveSessions(u) : sessions[s].password = changed[u]

\* Thread x may yet store a session of u that goes back to another password.
LateOld(x, u) ==
    /\ Past(x, u, {"create_session", "get_user_by_id", "revoke_session"})
    /\ job[x].method # "expired"
    /\ job[x].password # changed[u]

LEMMA UsedStays ==
  ASSUME TInv, Keeps, NoneIssued, NEW u \in Users, changed'[u] = changed[u], UsedFor(u),
         Doing(u, "change_password") => Doing(u, "change_password")',
         "password" \in raced[u] => "password" \in raced'[u],
         changed[u] # None /\ ~Doing(u, "change_password") /\ "password" \notin raced[u] =>
            \A x \in Threads : LateOld(x, u)' => LateOld(x, u)
  PROVE  UsedFor(u)'
<1> SUFFICES ASSUME changed[u] # None, ~Doing(u, "change_password"), "password" \notin raced[u]
             PROVE  /\ ~LateOldPassword(u)'
                    /\ \A s \in LiveSessions(u)' : sessions'[s].password = changed[u]
  BY DEF UsedFor
<1>1. /\ ~LateOldPassword(u)
      /\ \A s \in LiveSessions(u) : sessions[s].password = changed[u]
  BY DEF UsedFor
<1>2. ~LateOldPassword(u)'
  BY <1>1 DEF LateOldPassword, LateOld
<1>3. \A s \in LiveSessions(u) : sessions'[s].password = sessions[s].password
  BY DEF LiveSessions, Live, Issued, Keeps
<1> QED
  BY <1>1, <1>2, <1>3, NoneLives

LEMMA UsedStarting ==
  ASSUME TInv, PasswordUsed, NEW t \in Threads, NEW j, Starts(t, j)
  PROVE  PasswordUsed'
<1>1. /\ Others(t) /\ job'[t] = j /\ j # None /\ Keeps /\ NoneIssued
      /\ UNCHANGED <<changed, raced>>
      /\ j.session # None => j.session \in Sessions
  BY TStarts, Same DEF Starts, history, Jobs
<1> SUFFICES ASSUME NEW u \in Users PROVE UsedFor(u)'
  BY DEF PasswordUsed, UsedFor
<1>2. UsedFor(u)
  BY DEF PasswordUsed, UsedFor
<1>3. Doing(u, "change_password") => Doing(u, "change_password")'
  BY <1>1 DEF Doing, Idle, Others, Starts
<1>4. ASSUME changed[u] # None, ~Doing(u, "change_password"), "password" \notin raced[u],
             NEW x \in Threads, LateOld(x, u)'
      PROVE  LateOld(x, u)
  <2>1. CASE x # t
    BY <1>1, <1>4, <2>1 DEF LateOld, Past, Idle, Others
  <2>2. CASE x = t
    <3>1. j.at = "get_user_by_id" /\ j.user = u /\ j.password # changed[u]
      BY <1>1, <1>4, <2>2 DEF LateOld, Past, Starts, Fresh
    <3>2. /\ j.session \in Sessions /\ Live(j.session) /\ sessions[j.session].user = u
          /\ sessions[j.session].password = j.password
      BY <1>1, <3>1, SessionRow DEF Starts, Fresh, Fits
    <3> QED
      BY <1>2, <1>4, <3>1, <3>2 DEF UsedFor, LiveSessions
  <2> QED
    BY <2>1, <2>2
<1> QED
  BY <1>1, <1>2, <1>3, <1>4, UsedStays

LEMMA UsedCreatingUser ==
  ASSUME TInv, PasswordUsed, NEW t \in Threads, create_user(t)
  PROVE  PasswordUsed'
<1> USE TCreateUser
<1>1. Keeps /\ NoneIssued
  BY DEF Keeps, NoneIssued
<1> SUFFICES ASSUME NEW u \in Users PROVE UsedFor(u)'
  BY DEF PasswordUsed, UsedFor
<1>2. UsedFor(u)
  BY DEF PasswordUsed, UsedFor
<1>3. job[t].method = "register"
  BY Holds DEF create_user, At, Idle, Fits
<1>4. Doing(u, "change_password") => Doing(u, "change_password")'
  BY <1>3 DEF Doing, Idle, Others
<1>5. \A x \in Threads : LateOld(x, u)' => LateOld(x, u)
  BY DEF LateOld, Past, Idle, Others, history
<1> QED
  BY <1>1, <1>2, <1>4, <1>5, UsedStays DEF history

LEMMA UsedUpdating ==
  ASSUME TInv, PasswordKept, PasswordUsed, NEW t \in Threads, update_user(t)
  PROVE  PasswordUsed'
<1> USE TUpdateUser
<1> DEFINE m == job[t].method
<1>1. /\ At(t, "update_user") /\ Fits(job[t])
      /\ m \in {"login", "failed_login", "change_password", "suspend"}
  BY Holds DEF update_user, At, Idle, Fits
<1>2. Keeps /\ NoneIssued
  BY <1>1, NoneAssumption DEF Keeps, NoneIssued, TInv, TypeOK
<1> SUFFICES ASSUME NEW u \in Users PROVE UsedFor(u)'
  BY DEF PasswordUsed, UsedFor
<1>3. UsedFor(u)
  BY DEF PasswordUsed, UsedFor
<1>4. CASE m = "change_password" /\ u = job[t].user
  <2>1. Doing(u, "change_password")'
    BY <1>4 DEF Doing, Idle
  <2> QED
    BY <2>1 DEF UsedFor
<1>5. CASE ~(m = "change_password" /\ u = job[t].user)
  <2>1. Doing(u, "change_password") => Doing(u, "change_password")'
    BY <1>5 DEF Doing, Idle, Others
  <2>2. "password" \in raced[u] => "password" \in raced'[u]
    BY <1>5, FlagsAtUpdate
  <2>3. changed'[u] = changed[u]
    BY <1>5 DEF update_user, TInv, TypeOK
  <2>4. ASSUME changed[u] # None, "password" \notin raced[u], NEW x \in Threads, LateOld(x, u)'
        PROVE  LateOld(x, u)
    <3>1. CASE x # t
      BY <2>3, <2>4, <3>1 DEF LateOld, Past, Idle, Others
    <3>2. CASE x = t
      <4>1. m = "login" /\ u = job[t].user /\ job[t].password # changed[u]
        BY <1>1, <2>3, <2>4, <3>2 DEF LateOld, Past, Idle
      <4>2. job[t].row.password = changed[u]
        BY <1>1, <2>4, <4>1 DEF PasswordKept
      <4> QED
        BY <1>1, <4>1, <4>2 DEF Fits, At
    <3> QED
      BY <3>1, <3>2
  <2> QED
    BY <1>2, <1>3, <2>1, <2>2, <2>3, <2>4, UsedStays
<1> QED
  BY <1>4, <1>5

LEMMA UsedRevoking ==
  ASSUME TInv, PasswordUsed, NEW t \in Threads, revoke_all_user_sessions(t)
  PROVE  PasswordUsed'
<1> USE TRevokeAll
<1> SUFFICES ASSUME NEW u \in Users PROVE UsedFor(u)'
  BY DEF PasswordUsed, UsedFor
<1>1. UsedFor(u)
  BY DEF PasswordUsed, UsedFor
<1>2. \A x \in Threads : LateOld(x, u)' => LateOld(x, u)
  BY DEF LateOld, Past, Idle, Others
<1>3. CASE job[t].method = "change_password" /\ u = job[t].user
  <2> SUFFICES ASSUME "password" \notin raced'[u]
               PROVE  ~LateOldPassword(u)' /\ LiveSessions(u)' = {}
    BY DEF UsedFor
  <2>1. ~LateOldPassword(u)
    BY <1>3, FlagsAtRevoking
  <2>2. ~LateOldPassword(u)'
    BY <1>2, <2>1 DEF LateOldPassword, LateOld
  <2>3. LiveSessions(u)' = {}
    BY <1>3 DEF LiveSessions, Live
  <2> QED
    BY <2>2, <2>3
<1>4. CASE ~(job[t].method = "change_password" /\ u = job[t].user)
  <2>1. Doing(u, "change_password") => Doing(u, "change_password")'
    BY <1>4 DEF Doing, Idle, Others
  <2>2. "password" \in raced[u] => "password" \in raced'[u]
    BY FlagsAtRevoking
  <2> QED
    BY <1>1, <1>2, <2>1, <2>2, UsedStays
<1> QED
  BY <1>3, <1>4

LEMMA UsedCreating ==
  ASSUME TInv, PasswordUsed, NEW t \in Threads, create_session(t)
  PROVE  PasswordUsed'
<1> USE TCreateSession
<1>1. job[t].at = "create_session" /\ job[t].method \in {"login", "rotate"}
  BY Holds DEF create_session, At, Idle, Fits
<1> SUFFICES ASSUME NEW u \in Users, changed[u] # None, ~Doing(u, "change_password")',
                    "password" \notin raced[u]
             PROVE  /\ ~LateOldPassword(u)'
                    /\ \A s \in LiveSessions(u)' : sessions'[s].password = changed[u]
  BY ZenonT(30) DEF PasswordUsed, history
<1>2. ~Doing(u, "change_password")
  BY <1>1 DEF Doing, Idle, Others
<1>3. /\ ~LateOldPassword(u)
      /\ \A s \in LiveSessions(u) : sessions[s].password = changed[u]
  BY <1>2 DEF PasswordUsed
<1>4. job[t].user = u => job[t].password = changed[u]
  BY <1>1, <1>3 DEF LateOldPassword, Past, Idle
<1>5. ~LateOldPassword(u)'
  BY <1>3, ZenonT(30) DEF LateOldPassword, Past, Idle, Others, history
<1>6. PICK s \in Sessions :
        /\ sessions'[s].user = job[t].user /\ sessions'[s].password = job[t].password
        /\ \A n \in Sessions : n # s => sessions'[n] = sessions[n]
  <2>1. PICK s \in Sessions :
          /\ sessions'[s] = [user |-> job[t].user, is_revoked |-> FALSE, expired |-> FALSE,
                             parent |-> job[t].session, password |-> job[t].password]
          /\ \A n \in Sessions : n # s => sessions'[n] = sessions[n]
    OBVIOUS
  <2> QED
    BY <2>1
<1>7. ASSUME NEW n \in LiveSessions(u)' PROVE sessions'[n].password = changed[u]
  <2>1. CASE n = s
    BY <1>4, <1>6, <1>7, <2>1 DEF LiveSessions
  <2>2. CASE n # s
    BY <1>3, <1>6, <1>7, <2>2 DEF LiveSessions, Live, Issued
  <2> QED
    BY <2>1, <2>2
<1> QED
  BY <1>5, <1>7

\* A step of t that goes on with its rotation, or ends.
LEMMA UsedOthers ==
  ASSUME TInv, PasswordUsed, NEW t \in Threads, Others(t), Keeps, NoneIssued,
         UNCHANGED <<changed, raced>>, job[t] # None, job[t].method # "change_password",
         job'[t] # None =>
            \/ job'[t].at = "revoke_all_user_sessions"
            \/ /\ job[t].at \in {"get_user_by_id", "revoke_session"}
               /\ job'[t].user = job[t].user /\ job'[t].password = job[t].password
               /\ job[t].method # "expired"
  PROVE  PasswordUsed'
<1> SUFFICES ASSUME NEW u \in Users PROVE UsedFor(u)'
  BY DEF PasswordUsed, UsedFor
<1>1. UsedFor(u)
  BY DEF PasswordUsed, UsedFor
<1>2. Doing(u, "change_password") => Doing(u, "change_password")'
  BY DEF Doing, Idle, Others
<1>3. \A x \in Threads : LateOld(x, u)' => LateOld(x, u)
  BY DEF LateOld, Past, Idle, Others
<1> QED
  BY <1>1, <1>2, <1>3, UsedStays

LEMMA UsedElsewhere ==
  ASSUME TInv, PasswordUsed, Elsewhere
  PROVE  PasswordUsed'
<1> USE TElsewhere
<1> SUFFICES ASSUME NEW u \in Users PROVE UsedFor(u)'
  BY DEF PasswordUsed, UsedFor
<1>1. UsedFor(u)
  BY DEF PasswordUsed, UsedFor
<1>2. /\ Doing(u, "change_password") => Doing(u, "change_password")'
      /\ \A x \in Threads : LateOld(x, u)' => LateOld(x, u)
  BY DEF Doing, Idle, LateOld, Past, history
<1> QED
  BY <1>1, <1>2, UsedStays DEF history

-----------------------------------------------------------------------------
\* A lock.
LastFor(u, x) ==
    "lock" \notin raced[u] /\ At(x, "update_user") /\ job[x].user = u =>
        /\ Locked(u) => job[x].row.locked_until = users[u].locked_until
        /\ job[x].row.locked_until > clock =>
              \/ job[x].method = "failed_login"
              \/ job[x].row.locked_until = users[u].locked_until

LEMMA TimeMoves ==
  ASSUME TInv
  PROVE  /\ clock \in Nat
         /\ \A u \in Users : users[u] # None => users[u].locked_until \in Int
         /\ \A x \in Threads : At(x, "update_user") =>
               job[x].row.locked_until \in Int /\ users[job[x].user] # None
<1>1. clock \in Nat
  BY DEF TInv, TypeOK
<1>2. ASSUME NEW row \in Rows PROVE row.locked_until \in Int
  BY AuthAssumption DEF Rows
<1>3. \A u \in Users : users[u] # None => users[u].locked_until \in Int
  BY <1>2 DEF TInv, TypeOK
<1>4. \A x \in Threads : At(x, "update_user") =>
         job[x].row.locked_until \in Int /\ users[job[x].user] # None
  BY <1>2, Holds DEF At, Idle, Fits
<1> QED
  BY <1>1, <1>3, <1>4

\* A step that brings no thread to a write and leaves the rows of users whose
\* row is about to be written.
LEMMA LastStays ==
  ASSUME TInv, NEW u \in Users, NEW x \in Threads, LastFor(u, x),
         clock' = clock \/ clock' = clock + 1,
         users[u] # None => users'[u] = users[u],
         "lock" \in raced[u] => "lock" \in raced'[u],
         At(x, "update_user")' => job'[x] = job[x]
  PROVE  LastFor(u, x)'
<1> SUFFICES ASSUME "lock" \notin raced'[u], At(x, "update_user")', job'[x].user = u
             PROVE  /\ Locked(u)' => job'[x].row.locked_until = users'[u].locked_until
                    /\ job'[x].row.locked_until > clock' =>
                          \/ job'[x].method = "failed_login"
                          \/ job'[x].row.locked_until = users'[u].locked_until
  BY DEF LastFor
<1>1. At(x, "update_user") /\ job'[x] = job[x] /\ "lock" \notin raced[u] /\ job[x].user = u
  BY DEF At, Idle
<1>2. users[u] # None /\ users'[u] = users[u]
  BY <1>1, TimeMoves
<1>3. /\ clock \in Nat /\ job[x].row.locked_until \in Int /\ users[u].locked_until \in Int
  BY <1>1, <1>2, TimeMoves
<1>4. Locked(u)' => Locked(u)
  BY <1>2, <1>3 DEF Locked
<1> QED
  BY <1>1, <1>2, <1>3, <1>4 DEF LastFor

LEMMA LastStarting ==
  ASSUME TInv, Lasts, NEW t \in Threads, NEW j, Starts(t, j)
  PROVE  Lasts'
<1>1. /\ Others(t) /\ job'[t] = j /\ j # None /\ UNCHANGED <<users, clock, raced>>
  BY TStarts DEF Starts, history
<1> SUFFICES ASSUME NEW u \in Users, NEW x \in Threads PROVE LastFor(u, x)'
  BY DEF Lasts, LastFor
<1>2. LastFor(u, x)
  BY DEF Lasts, LastFor
<1>3. CASE x # t
  BY <1>1, <1>2, <1>3, LastStays DEF Others
<1>4. CASE x = t
  <2> SUFFICES ASSUME j.at = "update_user", j.user = u
               PROVE  /\ Locked(u) => j.row.locked_until = users[u].locked_until
                      /\ j.row.locked_until > clock =>
                            \/ j.method = "failed_login"
                            \/ j.row.locked_until = users[u].locked_until
    BY <1>1, <1>4 DEF LastFor, At, Locked
  <2>1. \/ j.row.locked_until = users[u].locked_until
        \/ ~Locked(u) /\ (j.row.locked_until = 0 \/ j.method = "failed_login")
    BY DEF Starts, Fresh
  <2>2. clock \in Nat
    BY TimeMoves
  <2> QED
    BY <2>1, <2>2
<1> QED
  BY <1>3, <1>4

\* A write that the flag does not warn of keeps a lock, and brings none.
LEMMA WritesLock ==
  ASSUME TInv, Lasts, NEW t \in Threads, update_user(t), "lock" \notin raced[job[t].user],
         ~(job[t].method = "failed_login" /\ job[t].row.locked_until > clock)
  PROVE  LET old == users[job[t].user].locked_until
             new == users'[job[t].user].locked_until
         IN  /\ old \in Int /\ new \in Int
             /\ IF old > clock THEN new = old ELSE ~(new > clock)
<1>1. /\ At(t, "update_user") /\ job[t].user \in Users
      /\ users'[job[t].user] = job[t].row
  BY TUpdateUser DEF update_user, TInv, TypeOK
<1>2. /\ clock \in Nat /\ users[job[t].user] # None
      /\ users[job[t].user].locked_until \in Int /\ job[t].row.locked_until \in Int
  BY <1>1, TimeMoves
<1>3. LastFor(job[t].user, t)
  BY <1>1 DEF Lasts, LastFor
<1>4. /\ users[job[t].user].locked_until > clock =>
               job[t].row.locked_until = users[job[t].user].locked_until
      /\ job[t].row.locked_until > clock =>
               job[t].row.locked_until = users[job[t].user].locked_until
  BY <1>1, <1>3 DEF LastFor, Locked
<1> QED
  BY <1>1, <1>2, <1>4

LEMMA LastUpdating ==
  ASSUME TInv, Lasts, NEW t \in Threads, update_user(t)
  PROVE  Lasts'
<1> USE TUpdateUser
<1> DEFINE v == job[t].user
           m == job[t].method
<1>1. /\ At(t, "update_user") /\ job[t].row.locked_until \in Int
      /\ \A u \in Users : u # v => users'[u] = users[u]
      /\ m \in {"login", "failed_login", "change_password", "suspend"}
  BY TimeMoves, Holds DEF update_user, At, Idle, Fits, TInv, TypeOK
<1>2. \A x \in Threads : At(x, "update_user")' => x # t /\ At(x, "update_user") /\ job'[x] = job[x]
  BY <1>1 DEF At, Idle, Others
<1> SUFFICES ASSUME NEW u \in Users, NEW x \in Threads PROVE LastFor(u, x)'
  BY DEF Lasts, LastFor
<1>3. LastFor(u, x)
  BY DEF Lasts, LastFor
<1>4. CASE u # v
  <2>1. "lock" \in raced[u] => "lock" \in raced'[u]
    BY <1>4, FlagsAtUpdate
  <2> QED
    BY <1>1, <1>2, <1>3, <1>4, <2>1, LastStays
<1>5. CASE u = v
  <2> SUFFICES ASSUME "lock" \notin raced'[u], At(x, "update_user")', job'[x].user = u
               PROVE  /\ Locked(u)' => job'[x].row.locked_until = users'[u].locked_until
                      /\ job'[x].row.locked_until > clock =>
                            \/ job'[x].method = "failed_login"
                            \/ job'[x].row.locked_until = users'[u].locked_until
    BY DEF LastFor
  <2>1. x # t /\ At(x, "update_user") /\ job'[x] = job[x] /\ StaleWriter(t, u)
    BY <1>2 DEF StaleWriter
  <2>2. ~(m = "failed_login" /\ job[t].row.locked_until > clock)
    BY <1>5, <2>1, FlagsAtUpdate
  <2>3. "lock" \notin raced[u]
    BY <1>1, <1>5, <2>2, FlagsAtUpdate
  <2>4. /\ users[u].locked_until \in Int /\ users'[u].locked_until \in Int
        /\ IF users[u].locked_until > clock THEN users'[u].locked_until = users[u].locked_until
           ELSE ~(users'[u].locked_until > clock)
    BY <1>5, <2>2, <2>3, WritesLock
  <2>5. clock \in Nat /\ job[x].row.locked_until \in Int
    BY <2>1, TimeMoves
  <2> QED
    BY <1>3, <2>1, <2>3, <2>4, <2>5 DEF LastFor, Locked
<1> QED
  BY <1>4, <1>5

LEMMA LastOthers ==
  ASSUME TInv, Lasts, NEW t \in Threads, Others(t), UNCHANGED clock,
         \A u \in Users : users[u] # None => users'[u] = users[u],
         \A u \in Users : raced[u] \subseteq raced'[u],
         job'[t] # None => job'[t].at # "update_user"
  PROVE  Lasts'
<1> SUFFICES ASSUME NEW u \in Users, NEW x \in Threads PROVE LastFor(u, x)'
  BY DEF Lasts, LastFor
<1>1. LastFor(u, x)
  BY DEF Lasts, LastFor
<1>2. At(x, "update_user")' => job'[x] = job[x]
  BY DEF At, Idle, Others
<1> QED
  BY <1>1, <1>2, LastStays

LEMMA LastElsewhere ==
  ASSUME TInv, Lasts, Elsewhere
  PROVE  Lasts'
<1> USE TElsewhere
<1> SUFFICES ASSUME NEW u \in Users, NEW x \in Threads PROVE LastFor(u, x)'
  BY DEF Lasts, LastFor
<1>1. LastFor(u, x)
  BY DEF Lasts, LastFor
<1> QED
  BY <1>1, LastStays DEF history

-----------------------------------------------------------------------------
LEMMA IInit == Init => IInv
<1> SUFFICES ASSUME Init PROVE IInv
  OBVIOUS
<1>1. Once
  BY DEF Init, Once, Rotating, Successors, Idle, Issued
<1>2. Seals /\ ShutOut /\ PasswordKept /\ PasswordUsed /\ Lasts
  BY DEF Init, Seals, ShutOut, PasswordKept, PasswordUsed, Lasts, Suspending, At, Idle
<1> QED
  BY <1>1, <1>2, TypeInit DEF IInv

LEMMA IStep == IInv /\ [Next]_vars => IInv'
<1> SUFFICES ASSUME IInv, [Next]_vars PROVE IInv'
  OBVIOUS
<1> USE DEF IInv
<1>1. ASSUME NEW t \in Threads, Request(t) PROVE IInv'
  <2>1. PICK j : Starts(t, j)
    BY <1>1, Requests
  <2> QED
    BY <2>1, TStarts, OnceStarts, SealsStarting, OutStarting, KeptStarting, UsedStarting, LastStarting
<1>2. ASSUME NEW t \in Threads, create_user(t) PROVE IInv'
  <2>1. /\ TInv' /\ Others(t) /\ job'[t] = None /\ UNCHANGED <<sessions, clock, history>>
        /\ \A u \in Users : users[u] # None => users'[u] = users[u]
    BY <1>2, TCreateUser
  <2>2. Keeps /\ NoneIssued
    BY <2>1 DEF Keeps, NoneIssued
  <2>3. Once'
    BY <2>1, <2>2, OnceOthers DEF history
  <2>4. PasswordKept' /\ Lasts'
    BY <2>1, KeptOthers, LastOthers DEF history
  <2> QED
    BY <1>2, <2>1, <2>3, <2>4, SealsCreatingUser, OutCreatingUser, UsedCreatingUser
<1>3. ASSUME NEW t \in Threads, update_user(t) PROVE IInv'
  <2>1. Once'
    <3>1. /\ job[t] # None /\ job[t].at = "update_user"
          /\ job[t].method \in {"login", "failed_login", "change_password", "suspend"}
      BY <1>3, Holds DEF update_user, At, Idle, Fits
    <3>2. Keeps /\ NoneIssued
      BY <1>3, TUpdateUser, NoneAssumption DEF Keeps, NoneIssued, TInv, TypeOK
    <3> QED
      BY <1>3, <3>1, <3>2, TUpdateUser, OnceOthers
  <2> QED
    BY <1>3, <2>1, TUpdateUser, SealsUpdating, OutUpdating, KeptUpdating, UsedUpdating, LastUpdating
<1>4. ASSUME NEW t \in Threads, revoke_all_user_sessions(t) PROVE IInv'
  <2>1. /\ TInv' /\ Others(t) /\ Keeps /\ NoneIssued /\ job'[t] = None
        /\ UNCHANGED <<users, clock, changed, contested>>
        /\ \A v \in Users : raced[v] \subseteq raced'[v]
    BY <1>4, TRevokeAll, FlagsAtRevoking
  <2>2. Once' /\ PasswordKept' /\ Lasts'
    BY <2>1, OnceOthers, KeptOthers, LastOthers
  <2> QED
    BY <1>4, <2>1, <2>2, SealsRevoking, OutRevoking, UsedRevoking
<1>5. ASSUME NEW t \in Threads, create_session(t) PROVE IInv'
  <2>1. TInv' /\ Others(t) /\ UNCHANGED <<users, clock, history>> /\ job'[t] = None
    BY <1>5, TCreateSession
  <2>2. Seals' /\ PasswordKept' /\ Lasts'
    BY <2>1, SealsStay, KeptOthers, LastOthers DEF history
  <2> QED
    BY <1>5, <2>1, <2>2, OnceCreating, OutCreating, UsedCreating
<1>6. ASSUME NEW t \in Threads, get_user_by_id(t) PROVE IInv'
  <2>1. /\ TInv' /\ Others(t) /\ UNCHANGED <<users, sessions, clock, history>>
        /\ job[t] # None /\ job'[t] # None /\ job[t].at = "get_user_by_id"
        /\ job[t].method = "rotate"
        /\ job'[t].user = job[t].user /\ job'[t].session = job[t].session
        /\ job'[t].password = job[t].password
        /\ \/ job'[t].at = "revoke_session" /\ job'[t].method = "rotate"
           \/ job'[t].at = "revoke_all_user_sessions" /\ job'[t].method = "revoke_everything"
    BY <1>6, TGetUser DEF Fits
  <2>2. Keeps /\ NoneIssued
    BY <2>1, Same
  <2>3. Once'
    BY <2>1, <2>2, OnceOthers DEF history, Checked
  <2>4. Seals' /\ PasswordKept' /\ Lasts'
    BY <2>1, SealsStay, KeptOthers, LastOthers DEF history
  <2>5. PasswordUsed'
    BY <2>1, <2>2, UsedOthers DEF history
  <2> QED
    BY <1>6, <2>1, <2>3, <2>4, <2>5, OutGettingUser
<1>7. ASSUME NEW t \in Threads, revoke_session(t) PROVE IInv'
  <2>1. /\ TInv' /\ Others(t) /\ Keeps /\ NoneIssued
        /\ UNCHANGED <<users, clock, suspended, changed, raced>>
        /\ job[t] # None /\ job[t].at = "revoke_session"
        /\ job[t].method \in {"rotate", "expired"}
    BY <1>7, TRevokeSession DEF Fits
  <2>2. job'[t] # None =>
          /\ job[t].method = "rotate" /\ job'[t].at = "create_session"
          /\ job'[t].method = "rotate" /\ job'[t].user = job[t].user
          /\ job'[t].password = job[t].password
    BY <1>7, TRevokeSession
  <2>3. Seals' /\ PasswordKept' /\ Lasts'
    BY <2>1, <2>2, SealsStay, KeptOthers, LastOthers
  <2>4. PasswordUsed'
    BY <2>1, <2>2, UsedOthers
  <2> QED
    BY <1>7, <2>1, <2>3, <2>4, OnceRevoking, OutRevokingOne
<1>8. ASSUME Elsewhere PROVE IInv'
  <2>1. UNCHANGED <<users, job, history>>
    BY <1>8, TElsewhere
  <2>2. Seals'
    BY <2>1 DEF Seals, Sealed, Suspending, At, Idle, history
  <2>3. PasswordKept'
    BY <2>1 DEF PasswordKept, At, Idle, history
  <2> QED
    BY <1>8, <2>2, <2>3, TElsewhere, OnceElsewhere, OutElsewhere, UsedElsewhere, LastElsewhere
<1> QED
  BY <1>1, <1>2, <1>3, <1>4, <1>5, <1>6, <1>7, <1>8 DEF Next, RepositoryCall, Elsewhere

\* The typing of the tables, of every method's job and of what the history says.
THEOREM TypeCorrect == Spec => []TypeOK
<1>1. IInv => TypeOK
  BY DEF IInv, TInv
<1> QED
  BY <1>1, IInit, IStep, PTL DEF Spec

\* A suspension that was carried out stays, and with it no session lives, unless
\* a stale write or a late session was already under way (identity_service.py).
THEOREM SuspensionStands == Spec => []SuspensionHolds
<1>1. IInv => SuspensionHolds
  BY DEF IInv, Seals, Sealed, ShutOut, SuspensionHolds
<1> QED
  BY <1>1, IInit, IStep, PTL DEF Spec

\* A password that was changed is the account's, and every live session goes
\* back to it, with the same exceptions.
THEOREM PasswordStands == Spec => []PasswordChangeHolds
<1>1. IInv => PasswordChangeHolds
  BY DEF IInv, PasswordKept, PasswordUsed, PasswordChangeHolds
<1> QED
  BY <1>1, IInit, IStep, PTL DEF Spec

\* A refresh token is good for one rotation unless two of them have passed the
\* checks when the first revokes it (token_service.py).
THEOREM OneRotation == Spec => []RotatesOnce
<1>1. IInv => RotatesOnce
  <2> SUFFICES ASSUME IInv, NEW s \in Sessions \ contested
               PROVE  Cardinality(Successors(s)) <= 1
    BY DEF RotatesOnce, IInv, TInv
  <2>1. CASE Successors(s) = {}
    BY <2>1, FS_EmptySet
  <2>2. ASSUME NEW n \in Successors(s) PROVE Cardinality(Successors(s)) <= 1
    <3>1. Successors(s) = {n}
      BY <2>2 DEF IInv, Once
    <3>2. Cardinality({n}) = 1
      BY FS_Singleton
    <3> QED
      BY <3>1, <3>2
  <2> QED
    BY <2>1, <2>2
<1> QED
  BY <1>1, IInit, IStep, PTL DEF Spec

LEMMA StaysLocked ==
  ASSUME IInv, [Next]_vars, NEW u \in Users, Registered(u), Locked(u), "lock" \notin raced[u]
  PROVE  users'[u].locked_until = users[u].locked_until
<1> USE DEF IInv
<1>1. clock \in Nat /\ users[u] # None
  BY TimeMoves DEF Registered
<1>2. CASE users'[u] = users[u]
  BY <1>2
<1>3. ASSUME NEW t \in Threads, Request(t) PROVE users' = users
  BY <1>3, Requests DEF Starts
<1>4. ASSUME NEW t \in Threads, create_user(t) PROVE users'[u] = users[u]
  BY <1>1, <1>4, TCreateUser
<1>5. ASSUME NEW t \in Threads, update_user(t)
      PROVE  users'[u].locked_until = users[u].locked_until
  <2>1. CASE job[t].user # u
    BY <1>5, <2>1, TUpdateUser DEF TInv, TypeOK
  <2>2. CASE job[t].user = u
    <3>1. LastFor(u, t) /\ At(t, "update_user") /\ users'[u] = job[t].row
      BY <1>5, <2>2, TUpdateUser DEF Lasts, LastFor, update_user, TInv, TypeOK
    <3> QED
      BY <2>2, <3>1 DEF LastFor
  <2> QED
    BY <2>1, <2>2
<1>6. ASSUME Elsewhere PROVE users'[u] = users[u]
  BY <1>1, <1>6, TElsewhere
<1> QED
  BY <1>2, <1>3, <1>4, <1>5, <1>6 DEF Next, RepositoryCall, Elsewhere, create_session,
     get_user_by_id, revoke_session, revoke_all_user_sessions

\* No call moves or lifts a lock before the clock reaches the time recorded for
\* it, whatever the server's offset from UTC made of that time, unless a stale
\* write was under way when it was set.
THEOREM LockStands == Spec => LockHolds
<1>1. IInv /\ [Next]_vars =>
        [\A u \in Users : Registered(u) /\ Locked(u) /\ "lock" \notin raced[u] =>
            users'[u].locked_until = users[u].locked_until]_vars
  BY StaysLocked
<1> QED
  BY <1>1, IInit, IStep, PTL DEF Spec, LockHolds

-----------------------------------------------------------------------------
(* The rate limits, for any callers, threads, limits and window.  Each list of *)
(* times is what some moment has left of the history of a caller, so its       *)
(* length is the number of calls in a window.                                  *)

\* The lemmas on Without, proved beside the L1 cache, hold of this one too.
LEMMA Provided == 1 \in Nat \ {0} /\ 0 \notin Seqs!Entries
  BY DEF Seqs!Entries

LEMMA SameWithout ==
  ASSUME NEW s, NEW S
  PROVE  Without(s, S) = Seqs!Without(s, S)
  BY DEF Without, Seqs!Without

LEMMA WithoutIs ==
  ASSUME NEW K, NEW s \in Seq(K), NEW S
  PROVE  /\ Without(s, S) \in Seq(K)
         /\ Seqs!Elements(Without(s, S)) = Seqs!Elements(s) \ S
         /\ Len(Without(s, S)) <= Len(s)
<1>1. /\ Seqs!Without(s, S) \in Seq(K)
      /\ Seqs!Elements(Seqs!Without(s, S)) = Seqs!Elements(s) \ S
      /\ Len(Seqs!Without(s, S)) <= Len(s)
  BY Provided, Seqs!WithoutIs
<1> QED
  BY <1>1, SameWithout

LEMMA WithoutAppend ==
  ASSUME NEW K, NEW s \in Seq(K), NEW x \in K, NEW S
  PROVE  Without(Append(s, x), S) = IF x \in S THEN Without(s, S)
                                       ELSE Append(Without(s, S), x)
<1>1. Seqs!Without(Append(s, x), S) = IF x \in S THEN Seqs!Without(s, S)
                                      ELSE Append(Seqs!Without(s, S), x)
  BY Provided, Seqs!WithoutAppend
<1> QED
  BY <1>1, SameWithout

LEMMA WithoutEmpty ==
  ASSUME NEW S
  PROVE  Without(<<>>, S) = <<>>
<1>1. Seqs!Without(<<>>, S) = <<>>
  BY Provided, Seqs!WithoutEmpty
<1> QED
  BY <1>1, SameWithout

LEMMA WithoutTwice ==
  ASSUME NEW K, NEW s \in Seq(K), NEW A, NEW B
  PROVE  Without(Without(s, A), B) = Without(s, A \cup B)
<1>1. Seqs!Without(Seqs!Without(s, A), B) = Seqs!Without(s, A \cup B)
  BY Provided, Seqs!WithoutTwice
<1> QED
  BY <1>1, SameWithout

LEMMA SameCardinality ==
  ASSUME NEW S
  PROVE  Seqs!Cardinality(S) = Cardinality(S)
  BY DEF Seqs!Cardinality, Cardinality

LEMMA WithoutCounts ==
  ASSUME NEW K, NEW s \in Seq(K), NEW S
  PROVE  Len(Without(s, S)) = Cardinality({i \in 1 .. Len(s) : s[i] \notin S})
<1>1. Len(Seqs!Without(s, S)) = Seqs!Cardinality({i \in 1 .. Len(s) : s[i] \notin S})
  BY Provided, Seqs!WithoutCounts
<1> QED
  BY <1>1, SameWithout, SameCardinality

LEMMA WithoutMore ==
  ASSUME NEW K, NEW s \in Seq(K), NEW A, NEW B, A \subseteq B
  PROVE  Len(Without(s, B)) <= Len(Without(s, A))
<1>1. Len(Seqs!Without(s, B)) <= Len(Seqs!Without(s, A))
  BY Provided, Seqs!WithoutMore
<1> QED
  BY <1>1, SameWithout

LEMMA LeastOf ==
  ASSUME NEW S, S \subseteq Nat, S # {}
  PROVE  \E n \in S : \A m \in S : n <= m
  BY Provided, Seqs!LeastOf

-----------------------------------------------------------------------------
\* The times of a history, in the order in which its calls were decided.
TimesOf(h) == [n \in DOMAIN h |-> h[n].at]

\* The calls up to the n-th that lie in the window that ends with it.
Counted(h, n) == {m \in 1..n : InWindow(h[m].at, h[n].at)}

\* A call has passed if and only if its window holds no more than the limit.
Judged(h, max) ==
    \A n \in DOMAIN h : h[n].passed <=> Cardinality(Counted(h, n)) <= max

InOrder(h) == \A m, n \in DOMAIN h : m <= n => h[m].at <= h[n].at

\* A list holds what some time has left of the history.
Left(list, h, now) == \E a \in 0..now : list = Without(TimesOf(h), Expired(a))

RequestsFit ==
    \A c \in Callers :
        /\ \A n \in DOMAIN requests[c] : requests[c][n].at <= time
        /\ InOrder(requests[c])
        /\ Judged(requests[c], MaxRequests)
        /\ Left(velocity[c], requests[c], time)

Checking(t, c) == check[t] # Absent /\ check[t].caller = c

\* A caller whose logins never overlapped has one in hand at most, which is no
\* older than what is stored, and what it has read is still stored.
LoginsFit ==
    \A c \in Callers \ overlapped :
        /\ \A s, t \in Workers : Checking(s, c) /\ Checking(t, c) => s = t
        /\ Judged(logins[c], MaxLogins)
        /\ Left(ip_attempts[c], logins[c], time)
        /\ \A t \in Workers : Checking(t, c) =>
              /\ Left(ip_attempts[c], logins[c], check[t].now)
              /\ check[t].timestamps # Absent =>
                    check[t].timestamps = Stamped(Recent(ip_attempts[c], check[t].now), check[t].now)

\* Overlapping or not, nothing is counted that is not a login: of the times
\* outside any set a list holds no more than the history, or than the history
\* with the login in hand.
NoneInvented ==
    /\ \A c \in Callers : \A S \in SUBSET Times :
          Len(Without(ip_attempts[c], S)) <= Len(Without(TimesOf(logins[c]), S))
    /\ \A t \in Workers : check[t] # Absent /\ check[t].timestamps # Absent =>
          /\ Without(check[t].timestamps, Expired(check[t].now)) = check[t].timestamps
          /\ \A S \in SUBSET Times :
                Len(Without(check[t].timestamps, S))
                  <= Len(Without(Append(TimesOf(logins[check[t].caller]), check[t].now), S))

RefusedLogins ==
    \A c \in Callers : \A n \in DOMAIN logins[c] :
        ~logins[c][n].passed => Cardinality(Counted(logins[c], n)) > MaxLogins

RInv == LimitsTypeOK /\ RequestsFit /\ LoginsFit /\ NoneInvented /\ RefusedLogins

-----------------------------------------------------------------------------
LEMMA TimesOfIs ==
  ASSUME NEW h \in Seq(Entries)
  PROVE  /\ TimesOf(h) \in Seq(Times) /\ Len(TimesOf(h)) = Len(h)
         /\ \A n \in 1 .. Len(h) : TimesOf(h)[n] = h[n].at
         /\ \A x \in Entries : TimesOf(Append(h, x)) = Append(TimesOf(h), x.at)
<1>1. Len(h) \in Nat /\ DOMAIN h = 1 .. Len(h) /\ \A n \in 1 .. Len(h) : h[n] \in Entries
  OBVIOUS
<1>2. \A n \in 1 .. Len(h) : h[n].at \in Times
  BY <1>1 DEF Entries
<1>3. TimesOf(h) = [n \in 1 .. Len(h) |-> h[n].at]
  BY <1>1 DEF TimesOf
<1>4. TimesOf(h) \in Seq(Times) /\ Len(TimesOf(h)) = Len(h)
  BY <1>1, <1>2, <1>3
<1>5. ASSUME NEW x \in Entries
      PROVE  TimesOf(Append(h, x)) = Append(TimesOf(h), x.at)
  <2> DEFINE q == Append(h, x)
             L == Len(h)
  <2>1. /\ DOMAIN q = 1 .. L + 1 /\ q[L + 1] = x /\ \A n \in 1 .. L : q[n] = h[n]
    OBVIOUS
  <2>2. x.at \in Times
    BY <1>5 DEF Entries
  <2> HIDE DEF q
  <2>3. TimesOf(q) = [n \in 1 .. L + 1 |-> q[n].at]
    BY <2>1 DEF TimesOf
  <2>4. Append(TimesOf(h), x.at) = [n \in 1 .. L + 1 |-> IF n = L + 1 THEN x.at ELSE h[n].at]
    BY <1>3, <1>4, <2>2
  <2>5. \A n \in 1 .. L + 1 : q[n].at = IF n = L + 1 THEN x.at ELSE h[n].at
    BY <1>1, <2>1
  <2> QED
    BY <2>3, <2>4, <2>5 DEF q
<1> QED
  BY <1>3, <1>4, <1>5

LEMMA ExpiredIs ==
  ASSUME Limits, NEW now \in Times
  PROVE  /\ now \notin Expired(now)
         /\ \A a \in Times : a <= now => Expired(a) \subseteq Expired(now)
         /\ Expired(now) \subseteq Times
         /\ \A x \in Times : x \notin Expired(now) <=> InWindow(x, now)
  BY DEF Expired, InWindow, Times, Limits

\* What a check stores is what its time leaves of the history with the call in it.
LEMMA StampedLeaves ==
  ASSUME Limits, NEW h \in Seq(Entries), NEW now \in Times, NEW list, NEW passed \in BOOLEAN,
         Left(list, h, now)
  PROVE  /\ Stamped(Recent(list, now), now)
              = Without(TimesOf(Append(h, Entry(now, passed))), Expired(now))
         /\ Stamped(Recent(list, now), now) \in Seq(Times)
<1>1. PICK a \in 0 .. now : list = Without(TimesOf(h), Expired(a))
  BY DEF Left
<1>2. a \in Times /\ a <= now
  BY DEF Times, Limits
<1>3. Expired(a) \cup Expired(now) = Expired(now) /\ now \notin Expired(now)
  BY <1>2, ExpiredIs
<1>4. TimesOf(h) \in Seq(Times)
  BY TimesOfIs
<1>5. Recent(list, now) = Without(TimesOf(h), Expired(now))
  BY <1>1, <1>3, <1>4, WithoutTwice DEF Recent
<1>6. Entry(now, passed) \in Entries /\ Entry(now, passed).at = now
  BY DEF Entries, Entry
<1>7. TimesOf(Append(h, Entry(now, passed))) = Append(TimesOf(h), now)
  BY <1>6, TimesOfIs
<1>8. Without(Append(TimesOf(h), now), Expired(now)) = Append(Without(TimesOf(h), Expired(now)), now)
  BY <1>3, <1>4, WithoutAppend
<1>9. Without(TimesOf(h), Expired(now)) \in Seq(Times)
  BY <1>4, WithoutIs
<1> QED
  BY <1>5, <1>7, <1>8, <1>9 DEF Stamped

\* How many times are left is how many calls the last call's window counts.
LEMMA LeftCounts ==
  ASSUME Limits, NEW h \in Seq(Entries), NEW now \in Times, NEW passed \in BOOLEAN
  PROVE  LET q == Append(h, Entry(now, passed))
         IN  Len(Without(TimesOf(q), Expired(now))) = Cardinality(Counted(q, Len(h) + 1))
<1> DEFINE q == Append(h, Entry(now, passed))
           L == Len(h)
           S == Expired(now)
<1>1. /\ Entry(now, passed) \in Entries /\ Entry(now, passed).at = now
  BY DEF Entries, Entry
<1>2. q \in Seq(Entries) /\ Len(q) = L + 1 /\ L \in Nat /\ q[L + 1] = Entry(now, passed)
  BY <1>1
<1> HIDE DEF q, L
<1>3. /\ TimesOf(q) \in Seq(Times) /\ Len(TimesOf(q)) = L + 1
      /\ \A n \in 1 .. L + 1 : TimesOf(q)[n] = q[n].at
  BY <1>2, TimesOfIs
<1>4. Len(Without(TimesOf(q), S)) = Cardinality({n \in 1 .. L + 1 : TimesOf(q)[n] \notin S})
  BY <1>3, WithoutCounts
<1>5. {n \in 1 .. L + 1 : TimesOf(q)[n] \notin S} = Counted(q, L + 1)
  <2>1. q[L + 1].at = now
    BY <1>1, <1>2
  <2>2. \A n \in 1 .. L + 1 : q[n].at \in Times
    <3>1. \A n \in 1 .. L + 1 : q[n] \in Entries
      BY <1>2
    <3> QED
      BY <3>1 DEF Entries
  <2>3. \A n \in 1 .. L + 1 : q[n].at \notin S <=> InWindow(q[n].at, now)
    BY <2>2, ExpiredIs
  <2> QED
    BY <1>3, <2>1, <2>3 DEF Counted
<1> QED
  BY <1>4, <1>5 DEF q, L

\* Of what a history counts nothing changes as it grows.
LEMMA CountedStays ==
  ASSUME NEW h \in Seq(Entries), NEW x \in Entries
  PROVE  /\ Append(h, x) \in Seq(Entries) /\ DOMAIN Append(h, x) = 1 .. Len(h) + 1
         /\ DOMAIN h = 1 .. Len(h) /\ Len(h) \in Nat
         /\ Append(h, x)[Len(h) + 1] = x
         /\ \A n \in 1 .. Len(h) :
               Append(h, x)[n] = h[n] /\ Counted(Append(h, x), n) = Counted(h, n)
<1> DEFINE q == Append(h, x)
           L == Len(h)
<1>1. /\ q \in Seq(Entries) /\ DOMAIN q = 1 .. L + 1 /\ DOMAIN h = 1 .. L /\ L \in Nat
      /\ q[L + 1] = x /\ \A n \in 1 .. L : q[n] = h[n]
  OBVIOUS
<1> HIDE DEF q, L
<1>2. ASSUME NEW n \in 1 .. L
      PROVE  Counted(q, n) = Counted(h, n)
  <2>1. \A m \in 1 .. n : m \in 1 .. L
    BY <1>1
  <2> QED
    BY <1>1, <2>1 DEF Counted
<1> QED
  BY <1>1, <1>2 DEF q, L

\* A check by what is left of the history judges it rightly.
LEMMA JudgedOn ==
  ASSUME Limits, NEW h \in Seq(Entries), NEW now \in Times, NEW list, NEW max \in Nat,
         Left(list, h, now), Judged(h, max)
  PROVE  Judged(Append(h, Entry(now, Len(Stamped(Recent(list, now), now)) <= max)), max)
<1> DEFINE passed == Len(Stamped(Recent(list, now), now)) <= max
           x == Entry(now, passed)
           q == Append(h, x)
<1>1. passed \in BOOLEAN
  OBVIOUS
<1>2. x \in Entries /\ x.passed = passed
  BY <1>1 DEF Entries, Entry
<1>3. Len(Stamped(Recent(list, now), now)) = Cardinality(Counted(q, Len(h) + 1))
  BY <1>1, StampedLeaves, LeftCounts
<1>4. passed <=> Cardinality(Counted(q, Len(h) + 1)) <= max
  BY <1>3
<1> HIDE DEF passed, x
<1>5. /\ DOMAIN q = 1 .. Len(h) + 1 /\ DOMAIN h = 1 .. Len(h) /\ Len(h) \in Nat
      /\ q[Len(h) + 1] = x
      /\ \A n \in 1 .. Len(h) : q[n] = h[n] /\ Counted(q, n) = Counted(h, n)
  BY <1>2, CountedStays
<1> HIDE DEF q
<1>6. ASSUME NEW n \in DOMAIN q
      PROVE  q[n].passed <=> Cardinality(Counted(q, n)) <= max
  <2>1. CASE n = Len(h) + 1
    BY <1>2, <1>4, <1>5, <2>1
  <2>2. CASE n \in 1 .. Len(h)
    BY <1>5, <2>2 DEF Judged
  <2> QED
    BY <1>5, <1>6, <2>1, <2>2
<1> QED
  BY <1>6 DEF Judged, q, x, passed

\* Of calls judged so, no window holds more that passed than the limit: the last
\* of them counted all the others.
LEMMA JudgedLimits ==
  ASSUME Limits, NEW h \in Seq(Entries), NEW max \in Nat, Judged(h, max), NEW now \in Times
  PROVE  Cardinality(PassedWithin(h, now)) <= max
<1> DEFINE P == PassedWithin(h, now)
<1>1. /\ DOMAIN h = 1 .. Len(h) /\ Len(h) \in Nat
      /\ \A n \in 1 .. Len(h) : h[n].at \in Times
  <2>1. \A n \in 1 .. Len(h) : h[n] \in Entries
    OBVIOUS
  <2> QED
    BY <2>1 DEF Entries
<1>2. /\ P \subseteq 1 .. Len(h)
      /\ \A n \in P : h[n].at <= now /\ InWindow(h[n].at, now) /\ h[n].passed
  BY <1>1 DEF PassedWithin, Within
<1> HIDE DEF P
<1>3. IsFiniteSet(P)
  <2>1. 1 \in Int /\ Len(h) \in Int
    BY <1>1
  <2>2. IsFiniteSet(1 .. Len(h))
    BY <2>1, FS_Interval
  <2> QED
    BY <1>2, <2>2, FS_Subset
<1>4. CASE P = {}
  BY <1>4, FS_EmptySet DEF P
<1>5. CASE P # {}
  <2>1. PICK n \in P : \A m \in P : m <= n
    <3> DEFINE U == {k \in Nat : \A m \in P : m <= k}
    <3>1. Len(h) \in U
      BY <1>1, <1>2
    <3>2. PICK k \in U : \A j \in U : k <= j
      <4>1. U \subseteq Nat /\ U # {}
        BY <3>1
      <4> HIDE DEF U
      <4> QED
        BY <4>1, LeastOf
    <3>3. k \in P
      <4> SUFFICES ASSUME k \notin P
                   PROVE  FALSE
        OBVIOUS
      <4>1. k \in Nat /\ \A m \in P : m <= k /\ m # k /\ m \in 1 .. Len(h)
        BY <1>2
      <4>2. k # 0
        BY <1>5, <4>1
      <4>3. k - 1 \in U
        BY <1>1, <4>1, <4>2
      <4> QED
        BY <3>2, <4>1, <4>3
    <3> QED
      BY <3>3
  <2>2. P \subseteq Counted(h, n)
    <3> SUFFICES ASSUME NEW m \in P
                 PROVE  m \in 1 .. n /\ InWindow(h[m].at, h[n].at)
      BY DEF Counted
    <3>1. m \in 1 .. Len(h) /\ n \in 1 .. Len(h) /\ m <= n
      BY <1>2, <2>1
    <3>2. h[n].at <= now /\ InWindow(h[m].at, now)
      BY <1>2
    <3> QED
      BY <1>1, <3>1, <3>2 DEF InWindow, Times, Limits
  <2>3. IsFiniteSet(Counted(h, n))
    <3>1. 1 \in Int /\ n \in Int /\ Counted(h, n) \subseteq 1 .. n
      BY <1>1, <1>2 DEF Counted
    <3>2. IsFiniteSet(1 .. n)
      BY <3>1, FS_Interval
    <3> QED
      BY <3>1, <3>2, FS_Subset
  <2>4. Cardinality(P) <= Cardinality(Counted(h, n))
    BY <2>2, <2>3, FS_Subset
  <2>5. Cardinality(Counted(h, n)) <= max
    BY <1>1, <1>2 DEF Judged
  <2>6. Cardinality(P) \in Nat /\ Cardinality(Counted(h, n)) \in Nat
    BY <1>3, <2>3, FS_CardinalityType
  <2> QED
    BY <2>4, <2>5, <2>6 DEF P
<1> QED
  BY <1>4, <1>5

-----------------------------------------------------------------------------
\* Every step keeps the types.
LEMMA TypeKept ==
  ASSUME Limits
  PROVE  LimitsTypeOK /\ [LimitsNext]_(limitsVars) => LimitsTypeOK'
<1> SUFFICES ASSUME LimitsTypeOK, [LimitsNext]_(limitsVars)
             PROVE  LimitsTypeOK'
  OBVIOUS
<1>0. time \in Nat /\ time <= MaxTime /\ MaxTime \in Nat /\ Times = 0 .. MaxTime
  BY DEF LimitsTypeOK, Times, Limits
<1>1. CASE Elapse
  <2>1. time' \in Times /\ time <= time'
    BY <1>0, <1>1 DEF Elapse
  <2>2. ASSUME NEW f \in [Callers -> Seq(0 .. time)]
        PROVE  f \in [Callers -> Seq(0 .. time')]
    <3>1. \A s \in Seq(0 .. time) : s \in Seq(0 .. time')
      BY <1>0, <2>1
    <3> QED
      BY <3>1
  <2>3. \A t \in Workers : check[t] # Absent =>
           check[t].now <= time' /\ check[t].timestamps \in Seq(0 .. time') \cup {Absent}
    <3> SUFFICES ASSUME NEW t \in Workers, check[t] # Absent
                 PROVE  check[t].now <= time' /\ check[t].timestamps \in Seq(0 .. time') \cup {Absent}
      OBVIOUS
    <3>1. check[t] \in Checks /\ check[t].now <= time /\ check[t].timestamps \in Seq(0 .. time) \cup {Absent}
      BY DEF LimitsTypeOK
    <3>2. check[t].now \in Times
      BY <3>1 DEF Checks
    <3>3. \A s \in Seq(0 .. time) : s \in Seq(0 .. time')
      BY <1>0, <2>1
    <3> QED
      BY <1>0, <2>1, <3>1, <3>2, <3>3
  <2> QED
    BY <1>1, <2>1, <2>2, <2>3 DEF Elapse, LimitsTypeOK
<1>2. ASSUME NEW f \in [Callers -> Seq(0 .. time)], NEW c \in Callers, NEW now \in 0 .. time
      PROVE  Stamped(Recent(f[c], now), now) \in Seq(0 .. time)
  <2>1. Without(f[c], Expired(now)) \in Seq(0 .. time)
    BY <1>2, WithoutIs
  <2> QED
    BY <1>2, <2>1 DEF Stamped, Recent
<1>3. \A s \in Seq(0 .. time) : s \in Seq(Times)
  BY <1>0
<1>4. \A x \in Times : \A passed \in BOOLEAN : Entry(x, passed) \in Entries
  BY DEF Entry, Entries
<1>5. ASSUME NEW f \in [Callers -> Seq(Entries)], NEW c \in Callers, NEW x \in Entries
      PROVE  [f EXCEPT ![c] = Append(@, x)] \in [Callers -> Seq(Entries)]
  <2>1. Append(f[c], x) \in Seq(Entries)
    BY <1>5
  <2> QED
    BY <1>5, <2>1
<1>6. ASSUME NEW c \in Callers, process(c)
      PROVE  LimitsTypeOK'
  <2> DEFINE times == Stamped(Recent(velocity[c], time), time)
  <2>1. times \in Seq(0 .. time)
    <3>1. velocity \in [Callers -> Seq(0 .. time)] /\ time \in 0 .. time
      BY <1>0 DEF LimitsTypeOK
    <3> QED
      BY <1>2, <3>1
  <2>2. velocity' = [velocity EXCEPT ![c] = times]
    BY <1>6 DEF process
  <2>3. Entry(time, Len(times) <= MaxRequests) \in Entries
    <3>1. time \in Times /\ (Len(times) <= MaxRequests) \in BOOLEAN
      BY <1>0
    <3> HIDE DEF times
    <3> QED
      BY <1>4, <3>1
  <2>4. requests' = [requests EXCEPT ![c] = Append(@, Entry(time, Len(times) <= MaxRequests))]
    BY <1>6 DEF process
  <2>5. requests' \in [Callers -> Seq(Entries)]
    BY <1>5, <2>3, <2>4 DEF LimitsTypeOK
  <2> HIDE DEF times
  <2>6. velocity' \in [Callers -> Seq(0 .. time)]
    BY <2>1, <2>2 DEF LimitsTypeOK
  <2> QED
    BY <1>6, <2>5, <2>6 DEF process, LimitsTypeOK
<1>7. ASSUME NEW t \in Workers, NEW c \in Callers, take_time(t, c)
      PROVE  LimitsTypeOK'
  <2> DEFINE j == [caller |-> c, now |-> time, timestamps |-> Absent]
  <2>1. j \in Checks /\ j.now <= time /\ j.timestamps \in Seq(0 .. time) \cup {Absent}
    BY <1>0 DEF LimitsTypeOK, Checks
  <2>2. check' = [check EXCEPT ![t] = j] /\ time' = time
    BY <1>7 DEF take_time
  <2> HIDE DEF j
  <2>3. check' \in [Workers -> Checks \cup {Absent}]
    BY <2>1, <2>2 DEF LimitsTypeOK
  <2>4. \A s \in Workers : check'[s] # Absent =>
           check'[s].now <= time' /\ check'[s].timestamps \in Seq(0 .. time') \cup {Absent}
    BY <2>1, <2>2 DEF LimitsTypeOK
  <2>5. overlapped' \subseteq Callers
    BY <1>7 DEF take_time, LimitsTypeOK
  <2> QED
    BY <1>7, <2>3, <2>4, <2>5 DEF take_time, LimitsTypeOK
<1>8. ASSUME NEW t \in Workers, check[t] # Absent
      PROVE  /\ check[t] \in Checks /\ check[t].caller \in Callers
             /\ check[t].now \in 0 .. time /\ check[t].now \in Times
             /\ check[t].timestamps \in Seq(0 .. time) \cup {Absent}
  BY <1>0, <1>8 DEF LimitsTypeOK, Checks
<1>9. ASSUME NEW t \in Workers, read_attempts(t)
      PROVE  LimitsTypeOK'
  <2> DEFINE times == Stamped(Recent(ip_attempts[check[t].caller], check[t].now), check[t].now)
             j == [check[t] EXCEPT !.timestamps = times]
  <2>0. check[t] # Absent
    BY <1>9 DEF read_attempts
  <2>1. times \in Seq(0 .. time) /\ times \in Seq(Times)
    <3>1. ip_attempts \in [Callers -> Seq(0 .. time)]
      BY DEF LimitsTypeOK
    <3> QED
      BY <1>2, <1>3, <1>8, <2>0, <3>1
  <2>2. check' = [check EXCEPT ![t] = j] /\ time' = time
    BY <1>9 DEF read_attempts
  <2> HIDE DEF times
  <2>3. j \in Checks /\ j.now <= time /\ j.timestamps \in Seq(0 .. time) \cup {Absent}
    BY <1>8, <2>0, <2>1 DEF Checks, LimitsTypeOK
  <2> HIDE DEF j
  <2>4. check' \in [Workers -> Checks \cup {Absent}]
    BY <2>2, <2>3 DEF LimitsTypeOK
  <2>5. \A s \in Workers : check'[s] # Absent =>
           check'[s].now <= time' /\ check'[s].timestamps \in Seq(0 .. time') \cup {Absent}
    BY <2>2, <2>3 DEF LimitsTypeOK
  <2> QED
    BY <1>9, <2>4, <2>5 DEF read_attempts, LimitsTypeOK
<1>10. ASSUME NEW t \in Workers, store_attempts(t)
       PROVE  LimitsTypeOK'
  <2> DEFINE c == check[t].caller
             times == check[t].timestamps
             x == Entry(check[t].now, ~Limited(times))
  <2>1. c \in Callers /\ times \in Seq(0 .. time)
    BY <1>8, <1>10 DEF store_attempts
  <2>2. x \in Entries
    <3>1. check[t].now \in Times /\ (~Limited(times)) \in BOOLEAN
      BY <1>8, <1>10 DEF store_attempts
    <3> HIDE DEF times
    <3> QED
      BY <1>4, <3>1
  <2>3. /\ ip_attempts' = [ip_attempts EXCEPT ![c] = times]
        /\ logins' = [logins EXCEPT ![c] = Append(@, x)]
        /\ check' = [check EXCEPT ![t] = Absent]
        /\ UNCHANGED <<time, velocity, requests, overlapped>>
    BY <1>10 DEF store_attempts
  <2> HIDE DEF c, times, x
  <2>4. logins' \in [Callers -> Seq(Entries)]
    BY <1>5, <2>1, <2>2, <2>3 DEF LimitsTypeOK
  <2>5. ip_attempts' \in [Callers -> Seq(0 .. time)]
    BY <2>1, <2>3 DEF LimitsTypeOK
  <2> QED
    BY <2>3, <2>4, <2>5 DEF LimitsTypeOK
<1>11. CASE UNCHANGED limitsVars
  BY <1>11 DEF limitsVars, LimitsTypeOK
<1> QED
  BY <1>1, <1>6, <1>7, <1>9, <1>10, <1>11 DEF LimitsNext

LEMMA JobIs ==
  ASSUME Limits, LimitsTypeOK, NEW t \in Workers, check[t] # Absent
  PROVE  /\ check[t] \in Checks /\ check[t].caller \in Callers
         /\ check[t].now \in 0 .. time /\ check[t].now \in Times
         /\ check[t].timestamps \in Seq(Times) \cup {Absent}
<1>1. time \in Nat /\ Times = 0 .. MaxTime /\ check[t] \in Checks /\ check[t].now <= time
  BY DEF LimitsTypeOK, Times, Limits
<1> QED
  BY <1>1 DEF Checks

LEMMA EntryIs ==
  ASSUME NEW now \in Times, NEW passed \in BOOLEAN
  PROVE  /\ Entry(now, passed) \in Entries
         /\ Entry(now, passed).at = now /\ Entry(now, passed).passed = passed
  BY DEF Entry, Entries

LEMMA LeftLater ==
  ASSUME NEW list, NEW h, NEW early \in Int, NEW late \in Int, early <= late, Left(list, h, early)
  PROVE  Left(list, h, late)
<1>1. PICK a \in 0 .. early : list = Without(TimesOf(h), Expired(a))
  BY DEF Left
<1>2. a \in 0 .. late
  BY <1>1
<1> QED
  BY <1>1, <1>2 DEF Left

LEMMA RequestsKept ==
  ASSUME Limits
  PROVE  LimitsTypeOK /\ RequestsFit /\ [LimitsNext]_(limitsVars) => RequestsFit'
<1> SUFFICES ASSUME LimitsTypeOK, RequestsFit, [LimitsNext]_(limitsVars)
             PROVE  RequestsFit'
  OBVIOUS
<1>0. time \in Times /\ time \in Nat /\ MaxRequests \in Nat
  BY DEF LimitsTypeOK, Times, Limits
<1>1. CASE UNCHANGED <<requests, velocity>> /\ time <= time' /\ time' \in Int
  <2> SUFFICES ASSUME NEW c \in Callers
               PROVE  /\ \A n \in DOMAIN requests[c] : requests[c][n].at <= time'
                      /\ Left(velocity[c], requests[c], time')
    BY <1>1 DEF RequestsFit
  <2>1. Left(velocity[c], requests[c], time')
    BY <1>0, <1>1, LeftLater DEF RequestsFit
  <2>2. requests[c] \in Seq(Entries)
    BY DEF LimitsTypeOK
  <2>3. \A n \in DOMAIN requests[c] : requests[c][n] \in Entries
    BY <2>2
  <2>4. \A n \in DOMAIN requests[c] : requests[c][n].at \in Int
    BY <2>3 DEF Entries, Times, Limits
  <2>5. \A n \in DOMAIN requests[c] : requests[c][n].at <= time
    BY DEF RequestsFit
  <2> QED
    BY <1>0, <1>1, <2>1, <2>4, <2>5
<1>2. ASSUME NEW c \in Callers, process(c)
      PROVE  RequestsFit'
  <2> DEFINE times == Stamped(Recent(velocity[c], time), time)
             x == Entry(time, Len(times) <= MaxRequests)
             h == requests[c]
             q == Append(h, x)
  <2>1. /\ velocity' = [velocity EXCEPT ![c] = times]
        /\ requests' = [requests EXCEPT ![c] = q]
        /\ time' = time
    BY <1>2 DEF process
  <2>2. /\ h \in Seq(Entries) /\ Left(velocity[c], h, time) /\ Judged(h, MaxRequests)
        /\ InOrder(h) /\ \A n \in DOMAIN h : h[n].at <= time
    BY DEF LimitsTypeOK, RequestsFit
  <2>3. (Len(times) <= MaxRequests) \in BOOLEAN
    OBVIOUS
  <2>4. x \in Entries /\ x.at = time
    BY <1>0, <2>3, EntryIs
  <2>5. Judged(q, MaxRequests)
    BY <1>0, <2>2, JudgedOn
  <2>6. times = Without(TimesOf(q), Expired(time))
    BY <1>0, <2>2, <2>3, StampedLeaves
  <2> HIDE DEF times, x
  <2>7. /\ DOMAIN q = 1 .. Len(h) + 1 /\ DOMAIN h = 1 .. Len(h) /\ Len(h) \in Nat
        /\ q[Len(h) + 1] = x /\ \A n \in 1 .. Len(h) : q[n] = h[n]
    BY <2>2, <2>4, CountedStays
  <2> HIDE DEF q, h
  <2>8. \A n \in DOMAIN q : q[n].at <= time
    BY <1>0, <2>2, <2>4, <2>7
  <2>9. InOrder(q)
    <3> SUFFICES ASSUME NEW m \in DOMAIN q, NEW n \in DOMAIN q, m <= n
                 PROVE  q[m].at <= q[n].at
      BY DEF InOrder
    <3>1. CASE n = Len(h) + 1
      BY <2>4, <2>7, <2>8, <3>1
    <3>2. CASE n # Len(h) + 1
      BY <2>2, <2>7, <3>2 DEF InOrder
    <3> QED
      BY <3>1, <3>2
  <2>10. Left(times, q, time)
    <3>1. time \in 0 .. time
      BY <1>0
    <3> QED
      BY <2>6, <3>1 DEF Left
  <2>11. /\ velocity'[c] = times /\ requests'[c] = q
         /\ \A d \in Callers \ {c} : velocity'[d] = velocity[d] /\ requests'[d] = requests[d]
    BY <2>1 DEF LimitsTypeOK
  <2> QED
    BY <2>1, <2>5, <2>8, <2>9, <2>10, <2>11 DEF RequestsFit
<1>3. CASE Elapse
  BY <1>0, <1>1, <1>3 DEF Elapse
<1>4. ASSUME NEW t \in Workers, NEW c \in Callers, take_time(t, c) \/ read_attempts(t) \/ store_attempts(t)
      PROVE  RequestsFit'
  BY <1>0, <1>1, <1>4 DEF take_time, read_attempts, store_attempts
<1>5. ASSUME NEW t \in Workers, read_attempts(t) \/ store_attempts(t)
      PROVE  RequestsFit'
  BY <1>0, <1>1, <1>5 DEF read_attempts, store_attempts
<1>6. CASE UNCHANGED limitsVars
  BY <1>0, <1>1, <1>6 DEF limitsVars
<1> QED
  BY <1>2, <1>3, <1>4, <1>5, <1>6 DEF LimitsNext

\* What store_attempts does.
LEMMA StoreEffect ==
  ASSUME Limits, LimitsTypeOK, NEW t \in Workers, store_attempts(t)
  PROVE  LET c == check[t].caller
             x == Entry(check[t].now, Len(check[t].timestamps) <= MaxLogins)
         IN  /\ check[t] # Absent /\ check[t].timestamps # Absent
             /\ c \in Callers /\ x \in Entries /\ x.at = check[t].now
             /\ x.passed <=> Len(check[t].timestamps) <= MaxLogins
             /\ check[t].timestamps \in Seq(Times)
             /\ ip_attempts'[c] = check[t].timestamps /\ logins'[c] = Append(logins[c], x)
             /\ \A d \in Callers \ {c} :
                   ip_attempts'[d] = ip_attempts[d] /\ logins'[d] = logins[d]
             /\ check'[t] = Absent /\ \A s \in Workers \ {t} : check'[s] = check[s]
             /\ UNCHANGED <<time, overlapped>>
<1> DEFINE c == check[t].caller
           times == check[t].timestamps
           passed == Len(times) <= MaxLogins
           x == Entry(check[t].now, passed)
<1>1. check[t] # Absent /\ times # Absent
  BY DEF store_attempts
<1>2. c \in Callers /\ check[t].now \in Times /\ times \in Seq(Times)
  BY <1>1, JobIs
<1>3. passed \in BOOLEAN
  OBVIOUS
<1>4. x \in Entries /\ x.at = check[t].now /\ x.passed = passed
  BY <1>2, <1>3, EntryIs
<1>5. (~Limited(times)) = passed
  <2>1. Len(times) \in Nat /\ MaxLogins \in Nat
    BY <1>2 DEF Limits
  <2> HIDE DEF times
  <2> QED
    BY <2>1 DEF Limited
<1>6. /\ ip_attempts' = [ip_attempts EXCEPT ![c] = times]
      /\ logins' = [logins EXCEPT ![c] = Append(@, x)]
      /\ check' = [check EXCEPT ![t] = Absent]
      /\ UNCHANGED <<time, overlapped>>
  BY <1>5 DEF store_attempts
<1>7. /\ ip_attempts \in [Callers -> Seq(0 .. time)] /\ logins \in [Callers -> Seq(Entries)]
      /\ check \in [Workers -> Checks \cup {Absent}]
  BY DEF LimitsTypeOK
<1> HIDE DEF c, times, x, passed
<1>8. /\ ip_attempts'[c] = times /\ logins'[c] = Append(logins[c], x)
      /\ \A d \in Callers \ {c} : ip_attempts'[d] = ip_attempts[d] /\ logins'[d] = logins[d]
      /\ check'[t] = Absent /\ \A s \in Workers \ {t} : check'[s] = check[s]
  BY <1>2, <1>6, <1>7
<1>9. x.passed <=> Len(times) <= MaxLogins
  BY <1>4 DEF passed
<1> QED
  BY <1>1, <1>2, <1>4, <1>6, <1>8, <1>9 DEF c, times, x, passed

LEMMA LoginsKept ==
  ASSUME Limits
  PROVE  LimitsTypeOK /\ LoginsFit /\ [LimitsNext]_(limitsVars) => LoginsFit'
<1> SUFFICES ASSUME LimitsTypeOK, LoginsFit, [LimitsNext]_(limitsVars)
             PROVE  LoginsFit'
  OBVIOUS
<1>0. time \in Times /\ time \in Nat /\ MaxLogins \in Nat
  BY DEF LimitsTypeOK, Times, Limits
<1>1. CASE UNCHANGED <<ip_attempts, logins, check, overlapped>> /\ time <= time' /\ time' \in Int
  <2>1. \A c \in Callers \ overlapped : Left(ip_attempts[c], logins[c], time')
    BY <1>0, <1>1, LeftLater DEF LoginsFit
  <2>2. \A c \in Callers : \A t \in Workers : Checking(t, c)' <=> Checking(t, c)
    BY <1>1 DEF Checking
  <2> QED
    BY <1>1, <2>1, <2>2 DEF LoginsFit
<1>2. ASSUME NEW t \in Workers, NEW c \in Callers, take_time(t, c)
      PROVE  LoginsFit'
  <2>1. /\ check' = [check EXCEPT ![t] = [caller |-> c, now |-> time, timestamps |-> Absent]]
        /\ UNCHANGED <<ip_attempts, logins, time>> /\ overlapped \subseteq overlapped'
        /\ c \notin overlapped' => ~ \E s \in Workers : Checking(s, c)
    BY <1>2 DEF take_time, Checking
  <2>2. /\ check'[t].caller = c /\ check'[t].now = time /\ check'[t].timestamps = Absent
        /\ \A s \in Workers \ {t} : check'[s] = check[s]
    BY <2>1 DEF LimitsTypeOK
  <2>3. \A d \in Callers : \A s \in Workers :
           Checking(s, d)' => IF s = t THEN d = c ELSE Checking(s, d)
    BY <2>2 DEF Checking
  <2> SUFFICES ASSUME NEW d \in Callers \ overlapped'
               PROVE  /\ \A r, s \in Workers : Checking(r, d)' /\ Checking(s, d)' => r = s
                      /\ \A s \in Workers : Checking(s, d)' =>
                            /\ Left(ip_attempts[d], logins[d], check'[s].now)
                            /\ check'[s].timestamps # Absent =>
                                  check'[s].timestamps = Stamped(Recent(ip_attempts[d], check'[s].now), check'[s].now)
    BY <2>1 DEF LoginsFit
  <2>4. d \in Callers \ overlapped
    BY <2>1
  <2>5. CASE d = c
    <3>1. \A s \in Workers : Checking(s, d)' => s = t
      BY <2>1, <2>3, <2>5
    <3>2. Left(ip_attempts[d], logins[d], time)
      BY <2>4 DEF LoginsFit
    <3> QED
      BY <2>2, <3>1, <3>2
  <2>6. CASE d # c
    <3>1. \A s \in Workers : Checking(s, d)' => s # t /\ Checking(s, d)
      BY <2>3, <2>6
    <3> QED
      BY <2>2, <2>4, <3>1 DEF LoginsFit
  <2> QED
    BY <2>5, <2>6
<1>3. ASSUME NEW t \in Workers, read_attempts(t)
      PROVE  LoginsFit'
  <2> DEFINE times == Stamped(Recent(ip_attempts[check[t].caller], check[t].now), check[t].now)
  <2>1. /\ check[t] # Absent /\ check' = [check EXCEPT ![t].timestamps = times]
        /\ UNCHANGED <<ip_attempts, logins, time, overlapped>>
    BY <1>3 DEF read_attempts
  <2>2. check[t] \in Checks
    BY <2>1, JobIs
  <2>3. /\ check'[t].caller = check[t].caller /\ check'[t].now = check[t].now /\ check'[t].timestamps = times
        /\ \A s \in Workers \ {t} : check'[s] = check[s]
    BY <2>1, <2>2 DEF LimitsTypeOK, Checks
  <2>4. \A d \in Callers : \A s \in Workers : Checking(s, d)' => Checking(s, d) /\ check'[s].now = check[s].now
    BY <2>1, <2>3 DEF Checking
  <2> SUFFICES ASSUME NEW d \in Callers \ overlapped
               PROVE  \A s \in Workers : Checking(s, d)' /\ check'[s].timestamps # Absent =>
                         check'[s].timestamps = Stamped(Recent(ip_attempts[d], check'[s].now), check'[s].now)
    BY <2>1, <2>4 DEF LoginsFit
  <2> SUFFICES ASSUME NEW s \in Workers, Checking(s, d)', check'[s].timestamps # Absent
               PROVE  check'[s].timestamps = Stamped(Recent(ip_attempts[d], check'[s].now), check'[s].now)
    OBVIOUS
  <2>5. CASE s = t
    BY <2>3, <2>4, <2>5 DEF Checking
  <2>6. CASE s # t
    BY <2>3, <2>4, <2>6 DEF LoginsFit
  <2> QED
    BY <2>5, <2>6
<1>4. ASSUME NEW t \in Workers, store_attempts(t)
      PROVE  LoginsFit'
  <2>0. PICK c \in Callers : c = check[t].caller
    BY <1>4, StoreEffect
  <2> DEFINE now == check[t].now
             times == check[t].timestamps
             x == Entry(now, Len(times) <= MaxLogins)
  <2>1. /\ check[t] # Absent /\ times # Absent /\ x \in Entries
        /\ ip_attempts'[c] = times /\ logins'[c] = Append(logins[c], x)
        /\ \A d \in Callers \ {c} : ip_attempts'[d] = ip_attempts[d] /\ logins'[d] = logins[d]
        /\ check'[t] = Absent /\ \A s \in Workers \ {t} : check'[s] = check[s]
        /\ UNCHANGED <<time, overlapped>>
    BY <1>4, <2>0, StoreEffect
  <2>2. now \in Times /\ now \in 0 .. time /\ logins[c] \in Seq(Entries)
    BY <2>1, JobIs DEF LimitsTypeOK
  <2>3. Checking(t, c)
    BY <2>0, <2>1 DEF Checking
  <2>4. \A d \in Callers : \A s \in Workers : Checking(s, d)' => s # t /\ Checking(s, d)
    BY <2>1 DEF Checking
  <2>5. ASSUME c \notin overlapped
        PROVE  /\ \A s \in Workers : ~ Checking(s, c)'
               /\ Judged(logins'[c], MaxLogins) /\ Left(ip_attempts'[c], logins'[c], time)
    <3>1. /\ Left(ip_attempts[c], logins[c], now) /\ Judged(logins[c], MaxLogins)
          /\ times = Stamped(Recent(ip_attempts[c], now), now)
      BY <2>1, <2>3, <2>5 DEF LoginsFit
    <3>2. \A s \in Workers : ~ Checking(s, c)'
      BY <2>1, <2>3, <2>4, <2>5 DEF LoginsFit
    <3> HIDE DEF now, times
    <3>3. Judged(logins'[c], MaxLogins)
      BY <1>0, <2>1, <2>2, <3>1, JudgedOn
    <3>4. (Len(times) <= MaxLogins) \in BOOLEAN
      OBVIOUS
    <3>5. times = Without(TimesOf(logins'[c]), Expired(now))
      BY <2>1, <2>2, <3>1, <3>4, StampedLeaves
    <3>6. Left(ip_attempts'[c], logins'[c], time)
      BY <2>1, <2>2, <3>5 DEF Left
    <3> QED
      BY <3>2, <3>3, <3>6
  <2> HIDE DEF now, times, x
  <2>6. ASSUME NEW d \in Callers \ overlapped, d # c
        PROVE  /\ ip_attempts'[d] = ip_attempts[d] /\ logins'[d] = logins[d]
               /\ \A s \in Workers : Checking(s, d)' => check'[s] = check[s] /\ Checking(s, d)
    BY <2>1, <2>4, <2>6
  <2> SUFFICES ASSUME NEW d \in Callers \ overlapped
               PROVE  /\ \A r, s \in Workers : Checking(r, d)' /\ Checking(s, d)' => r = s
                      /\ Judged(logins'[d], MaxLogins)
                      /\ Left(ip_attempts'[d], logins'[d], time)
                      /\ \A s \in Workers : Checking(s, d)' =>
                            /\ Left(ip_attempts'[d], logins'[d], check'[s].now)
                            /\ check'[s].timestamps # Absent =>
                                  check'[s].timestamps = Stamped(Recent(ip_attempts'[d], check'[s].now), check'[s].now)
    BY <2>1 DEF LoginsFit
  <2>7. CASE d = c
    BY <2>5, <2>7
  <2>8. CASE d # c
    BY <2>6, <2>8 DEF LoginsFit
  <2> QED
    BY <2>7, <2>8
<1>5. CASE Elapse
  BY <1>0, <1>1, <1>5 DEF Elapse
<1>6. ASSUME NEW c \in Callers, process(c)
      PROVE  LoginsFit'
  BY <1>0, <1>1, <1>6 DEF process
<1>7. CASE UNCHANGED limitsVars
  BY <1>0, <1>1, <1>7 DEF limitsVars
<1> QED
  BY <1>2, <1>3, <1>4, <1>5, <1>6, <1>7 DEF LimitsNext

LEMMA AppendLeaves ==
  ASSUME NEW s \in Seq(Times), NEW x \in Times, NEW S
  PROVE  /\ Len(Without(s, S)) \in Nat
         /\ Len(Without(Append(s, x), S)) = Len(Without(s, S)) + (IF x \in S THEN 0 ELSE 1)
<1>1. Without(s, S) \in Seq(Times)
  BY WithoutIs
<1>2. Without(Append(s, x), S) = IF x \in S THEN Without(s, S) ELSE Append(Without(s, S), x)
  BY WithoutAppend
<1> QED
  BY <1>1, <1>2

\* A login that is decided leaves the others no less to count.
LEMMA GrownLeaves ==
  ASSUME NEW h \in Seq(Entries), NEW y \in Entries, NEW S
  PROVE  /\ Len(Without(TimesOf(h), S)) <= Len(Without(TimesOf(Append(h, y)), S))
         /\ \A x \in Times : Len(Without(Append(TimesOf(h), x), S))
                             <= Len(Without(Append(TimesOf(Append(h, y)), x), S))
<1>1. TimesOf(h) \in Seq(Times) /\ TimesOf(Append(h, y)) = Append(TimesOf(h), y.at) /\ y.at \in Times
  BY TimesOfIs DEF Entries
<1>2. Append(TimesOf(h), y.at) \in Seq(Times)
  BY <1>1
<1>3. /\ Len(Without(TimesOf(h), S)) \in Nat
      /\ Len(Without(TimesOf(Append(h, y)), S)) = Len(Without(TimesOf(h), S)) + (IF y.at \in S THEN 0 ELSE 1)
  BY <1>1, AppendLeaves
<1>4. ASSUME NEW x \in Times
      PROVE  Len(Without(Append(TimesOf(h), x), S)) <= Len(Without(Append(TimesOf(Append(h, y)), x), S))
  <2>1. Len(Without(Append(TimesOf(h), x), S)) = Len(Without(TimesOf(h), S)) + (IF x \in S THEN 0 ELSE 1)
    BY <1>1, AppendLeaves
  <2>2. Len(Without(Append(TimesOf(Append(h, y)), x), S))
          = Len(Without(TimesOf(Append(h, y)), S)) + (IF x \in S THEN 0 ELSE 1)
    BY <1>1, <1>2, AppendLeaves
  <2> QED
    BY <1>3, <2>1, <2>2
<1> QED
  BY <1>3, <1>4

LEMMA NoneInventedKept ==
  ASSUME Limits
  PROVE  LimitsTypeOK /\ NoneInvented /\ [LimitsNext]_(limitsVars) => NoneInvented'
<1> SUFFICES ASSUME LimitsTypeOK, NoneInvented, [LimitsNext]_(limitsVars)
             PROVE  NoneInvented'
  OBVIOUS
<1>1. CASE UNCHANGED <<ip_attempts, logins, check>>
  BY <1>1 DEF NoneInvented
<1>2. ASSUME NEW t \in Workers, NEW c \in Callers, take_time(t, c)
      PROVE  NoneInvented'
  <2>1. /\ check' = [check EXCEPT ![t] = [caller |-> c, now |-> time, timestamps |-> Absent]]
        /\ UNCHANGED <<ip_attempts, logins>>
    BY <1>2 DEF take_time
  <2>2. check'[t].timestamps = Absent /\ \A s \in Workers \ {t} : check'[s] = check[s]
    BY <2>1 DEF LimitsTypeOK
  <2> QED
    BY <2>1, <2>2 DEF NoneInvented
<1>3. ASSUME NEW t \in Workers, read_attempts(t)
      PROVE  NoneInvented'
  <2>0. PICK c \in Callers, now \in Times : c = check[t].caller /\ now = check[t].now
    BY <1>3, JobIs DEF read_attempts
  <2> DEFINE E == Expired(now)
             list == ip_attempts[c]
             left == Without(list, E)
             times == Append(left, now)
             T == TimesOf(logins[c])
  <2>1. /\ check[t] # Absent /\ check' = [check EXCEPT ![t].timestamps = times]
        /\ UNCHANGED <<ip_attempts, logins>>
    BY <1>3, <2>0 DEF read_attempts, Stamped, Recent
  <2>2. check[t] \in Checks
    BY <2>1, JobIs
  <2>3. /\ check'[t].caller = c /\ check'[t].now = now /\ check'[t].timestamps = times
        /\ \A s \in Workers \ {t} : check'[s] = check[s]
    BY <2>0, <2>1, <2>2 DEF LimitsTypeOK, Checks
  <2>4. list \in Seq(Times) /\ T \in Seq(Times)
    <3>1. time \in 0 .. MaxTime /\ list \in Seq(0 .. time) /\ logins[c] \in Seq(Entries)
      BY DEF LimitsTypeOK, Times
    <3>2. list \in Seq(0 .. MaxTime)
      BY <3>1 DEF Limits
    <3> QED
      BY <3>1, <3>2, TimesOfIs DEF Times
  <2>5. now \notin E /\ E \subseteq Times
    BY ExpiredIs
  <2> HIDE DEF E, list, T
  <2>6. left \in Seq(Times)
    BY <2>4, WithoutIs
  <2>7. \A S : Without(left, S) = Without(list, E \cup S)
    BY <2>4, WithoutTwice
  <2> HIDE DEF left
  <2>8. Without(times, E) = times
    <3>1. Without(times, E) = Append(Without(left, E), now)
      BY <2>5, <2>6, WithoutAppend
    <3>2. Without(left, E) = left
      <4>1. E \cup E = E
        OBVIOUS
      <4> QED
        BY <2>7, <4>1 DEF left
    <3> QED
      BY <3>1, <3>2
  <2>9. ASSUME NEW S \in SUBSET Times
        PROVE  Len(Without(times, S)) <= Len(Without(Append(T, now), S))
    <3>1. Len(Without(list, E \cup S)) <= Len(Without(T, E \cup S))
      <4>1. (E \cup S) \in SUBSET Times
        BY <2>5
      <4> QED
        BY <4>1 DEF NoneInvented, list, T
    <3>2. Len(Without(T, E \cup S)) <= Len(Without(T, S))
      <4>1. S \subseteq (E \cup S)
        OBVIOUS
      <4> QED
        BY <2>4, <4>1, WithoutMore
    <3>3. /\ Len(Without(times, S)) = Len(Without(left, S)) + (IF now \in S THEN 0 ELSE 1)
          /\ Len(Without(Append(T, now), S)) = Len(Without(T, S)) + (IF now \in S THEN 0 ELSE 1)
          /\ Len(Without(left, S)) \in Nat /\ Len(Without(T, S)) \in Nat
      BY <2>4, <2>6, AppendLeaves
    <3>4. Len(Without(T, E \cup S)) \in Nat
      BY <2>4, AppendLeaves
    <3> HIDE DEF times
    <3> QED
      BY <2>7, <3>1, <3>2, <3>3, <3>4
  <2> HIDE DEF times
  <2> SUFFICES ASSUME NEW s \in Workers, check'[s] # Absent, check'[s].timestamps # Absent
               PROVE  /\ Without(check'[s].timestamps, Expired(check'[s].now)) = check'[s].timestamps
                      /\ \A S \in SUBSET Times :
                            Len(Without(check'[s].timestamps, S))
                              <= Len(Without(Append(TimesOf(logins[check'[s].caller]), check'[s].now), S))
    <3>1. \A d \in Callers : \A S \in SUBSET Times :
             Len(Without(ip_attempts'[d], S)) <= Len(Without(TimesOf(logins'[d]), S))
      BY <2>1 DEF NoneInvented
    <3>2. logins' = logins
      BY <2>1
    <3> QED
      BY <3>1, <3>2 DEF NoneInvented
  <2>10. CASE s = t
    BY <2>3, <2>8, <2>9, <2>10 DEF E, T
  <2>11. CASE s # t
    BY <2>3, <2>11 DEF NoneInvented
  <2> QED
    BY <2>10, <2>11
<1>4. ASSUME NEW t \in Workers, store_attempts(t)
      PROVE  NoneInvented'
  <2>0. PICK c \in Callers : c = check[t].caller
    BY <1>4, StoreEffect
  <2> DEFINE times == check[t].timestamps
             x == Entry(check[t].now, Len(times) <= MaxLogins)
  <2>1. /\ check[t] # Absent /\ times # Absent /\ x \in Entries /\ x.at = check[t].now
        /\ ip_attempts'[c] = times /\ logins'[c] = Append(logins[c], x)
        /\ \A d \in Callers \ {c} : ip_attempts'[d] = ip_attempts[d] /\ logins'[d] = logins[d]
        /\ check'[t] = Absent /\ \A s \in Workers \ {t} : check'[s] = check[s]
    BY <1>4, <2>0, StoreEffect
  <2>2. logins[c] \in Seq(Entries)
    BY DEF LimitsTypeOK
  <2>3. \A S \in SUBSET Times : Len(Without(times, S)) <= Len(Without(Append(TimesOf(logins[c]), check[t].now), S))
    BY <2>0, <2>1 DEF NoneInvented
  <2> HIDE DEF times, x
  <2>4. TimesOf(logins'[c]) = Append(TimesOf(logins[c]), check[t].now)
    BY <2>1, <2>2, TimesOfIs
  <2>5. ASSUME NEW d \in Callers, NEW S \in SUBSET Times
        PROVE  Len(Without(ip_attempts'[d], S)) <= Len(Without(TimesOf(logins'[d]), S))
    <3>1. CASE d = c
      BY <2>1, <2>3, <2>4, <3>1
    <3>2. CASE d # c
      BY <2>1, <3>2 DEF NoneInvented
    <3> QED
      BY <3>1, <3>2
  <2>6. ASSUME NEW s \in Workers, check'[s] # Absent, check'[s].timestamps # Absent
        PROVE  /\ Without(check'[s].timestamps, Expired(check'[s].now)) = check'[s].timestamps
               /\ \A S \in SUBSET Times :
                     Len(Without(check'[s].timestamps, S))
                       <= Len(Without(Append(TimesOf(logins'[check'[s].caller]), check'[s].now), S))
    <3>1. check'[s] = check[s] /\ check[s] # Absent /\ check[s].timestamps # Absent
      BY <2>1, <2>6
    <3>2. /\ Without(check[s].timestamps, Expired(check[s].now)) = check[s].timestamps
          /\ \A S \in SUBSET Times :
                Len(Without(check[s].timestamps, S))
                  <= Len(Without(Append(TimesOf(logins[check[s].caller]), check[s].now), S))
      BY <3>1 DEF NoneInvented
    <3>3. check[s].now \in Times /\ check[s].timestamps \in Seq(Times) /\ check[s].caller \in Callers
      BY <3>1, JobIs
    <3>4. CASE check[s].caller # c
      BY <2>1, <3>1, <3>2, <3>3, <3>4
    <3>5. CASE check[s].caller = c
      <4>1. ASSUME NEW S \in SUBSET Times
            PROVE  Len(Without(check[s].timestamps, S))
                     <= Len(Without(Append(TimesOf(logins'[c]), check[s].now), S))
        <5>1. Len(Without(check[s].timestamps, S)) <= Len(Without(Append(TimesOf(logins[c]), check[s].now), S))
          BY <3>2, <3>5
        <5>2. Len(Without(Append(TimesOf(logins[c]), check[s].now), S))
                <= Len(Without(Append(TimesOf(logins'[c]), check[s].now), S))
          BY <2>1, <2>2, <3>3, GrownLeaves
        <5>3. /\ TimesOf(logins[c]) \in Seq(Times)
              /\ TimesOf(logins'[c]) \in Seq(Times)
          <6>1. logins'[c] \in Seq(Entries)
            BY <2>1, <2>2
          <6> QED
            BY <2>2, <6>1, TimesOfIs
        <5>4. /\ Append(TimesOf(logins[c]), check[s].now) \in Seq(Times)
              /\ Append(TimesOf(logins'[c]), check[s].now) \in Seq(Times)
          BY <3>3, <5>3
        <5>5. /\ Len(Without(check[s].timestamps, S)) \in Nat
              /\ Len(Without(Append(TimesOf(logins[c]), check[s].now), S)) \in Nat
              /\ Len(Without(Append(TimesOf(logins'[c]), check[s].now), S)) \in Nat
          <6>1. \A w \in Seq(Times) : Without(w, S) \in Seq(Times)
            BY WithoutIs
          <6>2. \A w \in Seq(Times) : Len(Without(w, S)) \in Nat
            BY <6>1
          <6> QED
            BY <3>3, <5>4, <6>2
        <5> QED
          BY <5>1, <5>2, <5>5
      <4> QED
        BY <3>1, <3>2, <3>5, <4>1
    <3> QED
      BY <3>4, <3>5
  <2> QED
    BY <2>5, <2>6 DEF NoneInvented
<1>5. ASSUME NEW c \in Callers, process(c)
      PROVE  NoneInvented'
  BY <1>1, <1>5 DEF process
<1>6. CASE Elapse
  BY <1>1, <1>6 DEF Elapse
<1>7. CASE UNCHANGED limitsVars
  BY <1>1, <1>7 DEF limitsVars
<1> QED
  BY <1>2, <1>3, <1>4, <1>5, <1>6, <1>7 DEF LimitsNext

LEMMA RefusedKept ==
  ASSUME Limits
  PROVE  LimitsTypeOK /\ NoneInvented /\ RefusedLogins /\ [LimitsNext]_(limitsVars) => RefusedLogins'
<1> SUFFICES ASSUME LimitsTypeOK, NoneInvented, RefusedLogins, [LimitsNext]_(limitsVars)
             PROVE  RefusedLogins'
  OBVIOUS
<1>1. CASE UNCHANGED logins
  BY <1>1 DEF RefusedLogins
<1>2. ASSUME NEW t \in Workers, store_attempts(t)
      PROVE  RefusedLogins'
  <2>0. PICK c \in Callers, now \in Times : c = check[t].caller /\ now = check[t].now
    BY <1>2, StoreEffect, JobIs
  <2> DEFINE times == check[t].timestamps
             passed == Len(times) <= MaxLogins
             x == Entry(now, passed)
             h == logins[c]
             q == Append(h, x)
  <2>1. /\ check[t] # Absent /\ times # Absent /\ x \in Entries
        /\ x.passed <=> passed
        /\ logins'[c] = q /\ times \in Seq(Times)
        /\ \A d \in Callers \ {c} : logins'[d] = logins[d]
    BY <1>2, <2>0, StoreEffect
  <2>2. h \in Seq(Entries) /\ passed \in BOOLEAN
    BY DEF LimitsTypeOK
  <2>3. Len(Without(TimesOf(q), Expired(now))) = Cardinality(Counted(q, Len(h) + 1))
    BY <2>2, LeftCounts
  <2>4. Len(times) <= Len(Without(TimesOf(q), Expired(now)))
    <3>1. x.at = now
      BY DEF Entry
    <3>2. TimesOf(q) = Append(TimesOf(h), now)
      BY <2>1, <2>2, <3>1, TimesOfIs
    <3>3. Expired(now) \in SUBSET Times
      BY ExpiredIs
    <3>4. Without(times, Expired(now)) = times
      BY <2>0, <2>1 DEF NoneInvented
    <3>5. Len(Without(times, Expired(now))) <= Len(Without(Append(TimesOf(h), now), Expired(now)))
      BY <2>0, <2>1, <3>3 DEF NoneInvented
    <3> QED
      BY <3>2, <3>4, <3>5
  <2> HIDE DEF x
  <2>5. /\ DOMAIN q = 1 .. Len(h) + 1 /\ DOMAIN h = 1 .. Len(h) /\ Len(h) \in Nat
        /\ q[Len(h) + 1] = x
        /\ \A n \in 1 .. Len(h) : q[n] = h[n] /\ Counted(q, n) = Counted(h, n)
    BY <2>1, <2>2, CountedStays
  <2>6. Len(times) \in Nat /\ MaxLogins \in Nat
    BY <2>1 DEF Limits
  <2>7. Len(Without(TimesOf(q), Expired(now))) \in Nat
    <3>1. q \in Seq(Entries)
      BY <2>1, <2>2
    <3>2. TimesOf(q) \in Seq(Times)
      BY <3>1, TimesOfIs
    <3> QED
      BY <3>2, WithoutIs
  <2>8. ~ passed => Cardinality(Counted(q, Len(h) + 1)) > MaxLogins
    BY <2>3, <2>4, <2>6, <2>7
  <2> HIDE DEF q, h, passed
  <2>9. ASSUME NEW n \in DOMAIN q, ~ q[n].passed
        PROVE  Cardinality(Counted(q, n)) > MaxLogins
    <3>1. CASE n = Len(h) + 1
      BY <2>1, <2>5, <2>8, <2>9, <3>1
    <3>2. CASE n \in 1 .. Len(h)
      BY <2>5, <2>9, <3>2 DEF RefusedLogins, h
    <3> QED
      BY <2>5, <3>1, <3>2
  <2> SUFFICES ASSUME NEW d \in Callers, NEW n \in DOMAIN logins'[d], ~ logins'[d][n].passed
               PROVE  Cardinality(Counted(logins'[d], n)) > MaxLogins
    BY DEF RefusedLogins
  <2>10. CASE d = c
    BY <2>1, <2>9, <2>10
  <2>11. CASE d # c
    BY <2>1, <2>11 DEF RefusedLogins
  <2> QED
    BY <2>10, <2>11
<1>3. ASSUME ~ \E t \in Workers : store_attempts(t)
      PROVE  RefusedLogins'
  BY <1>1, <1>3 DEF LimitsNext, Elapse, process, take_time, read_attempts, limitsVars
<1> QED
  BY <1>2, <1>3

-----------------------------------------------------------------------------
LEMMA InitInv ==
  ASSUME Limits
  PROVE  LimitsInit => RInv
<1> SUFFICES ASSUME LimitsInit
             PROVE  RInv
  OBVIOUS
<1>1. LimitsTypeOK
  BY DEF LimitsInit, LimitsTypeOK, Times, Limits
<1>2. time = 0 /\ Expired(0) \subseteq Times
  BY DEF LimitsInit, Expired
<1>3. TimesOf(<<>>) = <<>>
  BY DEF TimesOf
<1>4. Left(<<>>, <<>>, 0)
  <2>1. <<>> = Without(TimesOf(<<>>), Expired(0))
    BY <1>3, WithoutEmpty
  <2>2. 0 \in 0 .. 0
    OBVIOUS
  <2> QED
    BY <2>1, <2>2 DEF Left
<1>5. Judged(<<>>, MaxRequests) /\ Judged(<<>>, MaxLogins) /\ InOrder(<<>>)
  BY DEF Judged, InOrder
<1>6. RequestsFit
  BY <1>2, <1>4, <1>5 DEF LimitsInit, RequestsFit
<1>7. LoginsFit
  BY <1>2, <1>4, <1>5 DEF LimitsInit, LoginsFit, Checking
<1>8. NoneInvented
  <2>1. \A S : Without(<<>>, S) = <<>>
    BY WithoutEmpty
  <2> QED
    BY <1>3, <2>1 DEF LimitsInit, NoneInvented
<1>9. RefusedLogins
  BY DEF LimitsInit, RefusedLogins
<1> QED
  BY <1>1, <1>6, <1>7, <1>8, <1>9 DEF RInv

LEMMA AlwaysRInv ==
  ASSUME Limits
  PROVE  LimitsSpec => []RInv
<1>1. RInv /\ [LimitsNext]_(limitsVars) => RInv'
  BY TypeKept, RequestsKept, LoginsKept, NoneInventedKept, RefusedKept DEF RInv
<1> QED
  BY InitInv, <1>1, PTL DEF LimitsSpec

\* No window lets more requests of a caller pass than the limit, and no more logins
\* either unless two of the caller's logins were checked at once.
THEOREM RateLimited == LimitsSpec => []AtMostLimit
<1>0. Limits
  BY RateAssumption
<1>1. RInv => AtMostLimit
  <2> SUFFICES ASSUME RInv, NEW c \in Callers, NEW now \in Times
               PROVE  /\ Cardinality(PassedWithin(requests[c], now)) <= MaxRequests
                      /\ c \notin overlapped =>
                            Cardinality(PassedWithin(logins[c], now)) <= MaxLogins
    BY DEF RInv, AtMostLimit
  <2>1. /\ requests[c] \in Seq(Entries) /\ logins[c] \in Seq(Entries)
        /\ MaxRequests \in Nat /\ MaxLogins \in Nat
    BY <1>0 DEF RInv, LimitsTypeOK, Limits
  <2>2. Judged(requests[c], MaxRequests) /\ (c \notin overlapped => Judged(logins[c], MaxLogins))
    BY DEF RInv, RequestsFit, LoginsFit
  <2> QED
    BY <1>0, <2>1, <2>2, JudgedLimits
<1> QED
  BY <1>0, AlwaysRInv, <1>1, PTL

\* Whoever is turned away has asked more often within the window than the limit.
THEOREM OnlyWithCause == LimitsSpec => []RefusedForCause
<1>0. Limits
  BY RateAssumption
<1>1. RInv => RefusedForCause
  <2> SUFFICES ASSUME RInv, NEW c \in Callers
               PROVE  /\ \A n \in DOMAIN requests[c] : ~requests[c][n].passed =>
                            Cardinality({m \in Within(requests[c], requests[c][n].at) : m <= n}) > MaxRequests
                      /\ \A n \in DOMAIN logins[c] : ~logins[c][n].passed =>
                            Cardinality({m \in 1..n : InWindow(logins[c][m].at, logins[c][n].at)}) > MaxLogins
    BY DEF RefusedForCause
  <2>1. /\ requests[c] \in Seq(Entries) /\ MaxRequests \in Nat
        /\ InOrder(requests[c]) /\ Judged(requests[c], MaxRequests)
    BY <1>0 DEF RInv, LimitsTypeOK, RequestsFit, Limits
  <2>2. ASSUME NEW n \in DOMAIN requests[c], ~requests[c][n].passed
        PROVE  Cardinality({m \in Within(requests[c], requests[c][n].at) : m <= n}) > MaxRequests
    <3> DEFINE h == requests[c]
    <3>1. DOMAIN h = 1 .. Len(h) /\ Len(h) \in Nat
      BY <2>1
    <3> HIDE DEF h
    <3>2. {m \in Within(h, h[n].at) : m <= n} = Counted(h, n)
      <4>1. n \in 1 .. Len(h)
        BY <2>2, <3>1 DEF h
      <4>2. \A m \in 1 .. n : m \in DOMAIN h /\ h[m].at <= h[n].at
        BY <2>1, <3>1, <4>1 DEF InOrder, h
      <4> QED
        BY <3>1, <4>1, <4>2 DEF Within, Counted
    <3>3. ~ Cardinality(Counted(h, n)) <= MaxRequests
      BY <2>1, <2>2 DEF Judged, h
    <3>4. Cardinality(Counted(h, n)) \in Nat
      <4>1. 1 \in Int /\ n \in Int /\ Counted(h, n) \subseteq 1 .. n
        BY <2>2, <3>1 DEF Counted, h
      <4>2. IsFiniteSet(Counted(h, n))
        BY <4>1, FS_Interval, FS_Subset
      <4> QED
        BY <4>2, FS_CardinalityType
    <3>5. Cardinality(Counted(h, n)) > MaxRequests
      <4> DEFINE k == Cardinality(Counted(h, n))
      <4> HIDE DEF k
      <4>1. k \in Nat /\ ~ k <= MaxRequests /\ MaxRequests \in Nat
        BY <2>1, <3>3, <3>4 DEF k
      <4>2. k > MaxRequests
        BY <4>1
      <4> QED
        BY <4>2 DEF k
    <3>6. Cardinality({m \in Within(h, h[n].at) : m <= n}) > MaxRequests
      BY <3>2, <3>5
    <3> QED
      BY <3>6 DEF h
  <2>3. ASSUME NEW n \in DOMAIN logins[c], ~logins[c][n].passed
        PROVE  Cardinality({m \in 1..n : InWindow(logins[c][m].at, logins[c][n].at)}) > MaxLogins
    BY <2>3 DEF RInv, RefusedLogins, Counted
  <2> QED
    BY <2>2, <2>3
<1> QED
  BY <1>0, AlwaysRInv, <1>1, PTL
=============================================================================

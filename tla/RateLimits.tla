------------------------------ MODULE RateLimits ------------------------------
(***************************************************************************)
(* The two limits on how often a caller may ask.                           *)
(*                                                                         *)
(* RateBudgetingStage.process of input_security runs on the event loop,    *)
(* inside process_request, which awaits nothing: a request is one step.    *)
(* RateLimiterService.is_ip_rate_limited of auth/security runs for each    *)
(* login on a thread of the pool, without a lock: it takes the time, reads *)
(* the caller's list and stores the list with the new time in three steps. *)
(*                                                                         *)
(* Stages 2 and 3 let every path that starts with "/" pass without a user, *)
(* so the caller of stage 4 is an address too.                             *)
(***************************************************************************)
EXTENDS Integers, Sequences, FiniteSets, SequenceFilters

CONSTANTS Callers, Workers,
          MaxRequests,  \* MAX_REQUESTS_PER_MINUTE, 60 in the code
          MaxLogins,    \* max_requests of is_ip_rate_limited, 30
          Window,       \* window_seconds, 60, in ticks
          MaxTime,      \* bound on the time
          MaxAsked,     \* bound on the requests, and on the logins, of a caller
          Absent

Limits ==
    /\ {MaxRequests, MaxLogins, Window, MaxTime, MaxAsked} \subseteq Nat
    /\ Window > 0

ASSUME RateAssumption == Limits

VARIABLES time,
          velocity,    \* _user_velocity: the times each caller is known to have asked
          ip_attempts, \* _ip_attempts, likewise
          check,       \* the is_ip_rate_limited each thread is in
          requests,    \* history: the requests of a caller and whether they passed
          logins,      \* history: likewise the logins, as they are decided
          overlapped   \* history: callers that had two logins checked at once

limitsVars == <<time, velocity, ip_attempts, check, requests, logins, overlapped>>

Times == 0..MaxTime
Entries == [at : Times, passed : BOOLEAN]

\* now, timestamps: the local variables of the check, Absent before they are set.
Checks == [caller : Callers, now : Times, timestamps : Seq(Times) \cup {Absent}]

\* What the tables and the calls in hand hold are times that have been.
LimitsTypeOK ==
    /\ time \in Times
    /\ velocity \in [Callers -> Seq(0..time)]
    /\ ip_attempts \in [Callers -> Seq(0..time)]
    /\ check \in [Workers -> Checks \cup {Absent}]
    /\ \A t \in Workers : check[t] # Absent =>
          check[t].now <= time /\ check[t].timestamps \in Seq(0..time) \cup {Absent}
    /\ requests \in [Callers -> Seq(Entries)]
    /\ logins \in [Callers -> Seq(Entries)]
    /\ overlapped \subseteq Callers

LimitsInit ==
    /\ time = 0
    /\ velocity = [c \in Callers |-> <<>>]
    /\ ip_attempts = [c \in Callers |-> <<>>]
    /\ check = [t \in Workers |-> Absent]
    /\ requests = [c \in Callers |-> <<>>]
    /\ logins = [c \in Callers |-> <<>>]
    /\ overlapped = {}

-----------------------------------------------------------------------------
Elapse ==
    /\ time < MaxTime
    /\ time' = time + 1
    /\ UNCHANGED <<velocity, ip_attempts, check, requests, logins, overlapped>>

InWindow(x, now) == x + Window > now

\* Mutant of Recent: what is as old as the window still counts.
RecentInclusive(times, now) == Without(times, {x \in Times : x + Window < now})

Expired(now) == {x \in Times : ~InWindow(x, now)}
Recent(times, now) == Without(times, Expired(now))

Stamped(times, now) == Append(times, now)

Entry(now, passed) == [at |-> now, passed |-> passed]

\* A request that stage 1 lets pass: it counts, whatever stage 4 and those
\* behind it make of it.
process(c) ==
    LET times == Stamped(Recent(velocity[c], time), time) IN
    /\ Len(requests[c]) < MaxAsked
    /\ velocity' = [velocity EXCEPT ![c] = times]
    /\ requests' = [requests EXCEPT ![c] =
                        Append(@, Entry(time, Len(times) <= MaxRequests))]
    /\ UNCHANGED <<time, ip_attempts, check, logins, overlapped>>

-----------------------------------------------------------------------------
\* is_ip_rate_limited takes the time ...
take_time(t, c) ==
    /\ check[t] = Absent
    /\ Len(logins[c]) + Cardinality({s \in Workers : check[s] # Absent}) < MaxAsked
    /\ check' = [check EXCEPT ![t] = [caller |-> c, now |-> time, timestamps |-> Absent]]
    /\ overlapped' = overlapped \cup
           {d \in {c} : \E s \in Workers : check[s] # Absent /\ check[s].caller = d}
    /\ UNCHANGED <<time, velocity, ip_attempts, requests, logins>>

\* ... reads and filters the list ...
read_attempts(t) ==
    /\ check[t] # Absent /\ check[t].timestamps = Absent
    /\ check' = [check EXCEPT ![t].timestamps =
                   Stamped(Recent(ip_attempts[check[t].caller], check[t].now), check[t].now)]
    /\ UNCHANGED <<time, velocity, ip_attempts, requests, logins, overlapped>>

\* Mutant of Limited: the caller's own attempt does not count.
LimitedAfterwards(times) == Len(times) > MaxLogins + 1

Limited(times) == Len(times) > MaxLogins

\* ... and stores what it has, over what others stored in between.
store_attempts(t) ==
    /\ check[t] # Absent /\ check[t].timestamps # Absent
    /\ ip_attempts' = [ip_attempts EXCEPT ![check[t].caller] = check[t].timestamps]
    /\ logins' = [logins EXCEPT ![check[t].caller] =
                      Append(@, Entry(check[t].now, ~Limited(check[t].timestamps)))]
    /\ check' = [check EXCEPT ![t] = Absent]
    /\ UNCHANGED <<time, velocity, requests, overlapped>>

LimitsNext ==
    \/ Elapse
    \/ \E c \in Callers : process(c)
    \/ \E t \in Workers, c \in Callers : take_time(t, c)
    \/ \E t \in Workers : read_attempts(t) \/ store_attempts(t)

LimitsSpec == LimitsInit /\ [][LimitsNext]_limitsVars

-----------------------------------------------------------------------------
\* The entries of a history that lie in the window that ends at a time.
Within(history, now) ==
    {n \in DOMAIN history : history[n].at <= now /\ InWindow(history[n].at, now)}

PassedWithin(history, now) == {n \in Within(history, now) : history[n].passed}

\* No window of time holds more requests of a caller that passed than the
\* limit allows, nor more logins, unless two logins were checked at once.
\* LimitsTypeOK holds beside it.
AtMostLimit ==
    /\ LimitsTypeOK
    /\ \A c \in Callers, now \in Times :
           /\ Cardinality(PassedWithin(requests[c], now)) <= MaxRequests
           /\ c \notin overlapped =>
                  Cardinality(PassedWithin(logins[c], now)) <= MaxLogins

\* Nobody is refused without having asked more often than that: a refused
\* request has that many others before it in its window.  A login that is
\* checked while another is decided later may count that one as well.
RefusedForCause ==
    \A c \in Callers :
        /\ \A n \in DOMAIN requests[c] : ~requests[c][n].passed =>
               Cardinality({m \in Within(requests[c], requests[c][n].at) : m <= n}) > MaxRequests
        /\ \A n \in DOMAIN logins[c] : ~logins[c][n].passed =>
               Cardinality({m \in 1..n : InWindow(logins[c][m].at, logins[c][n].at)}) > MaxLogins
=============================================================================

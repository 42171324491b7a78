--------------------------- MODULE MCAuthSessions ---------------------------
(***************************************************************************)
(* AuthSessions with its interchangeable threads, passwords and sessions,  *)
(* on a server behind UTC, where a lock of two ticks is over after one.    *)
(***************************************************************************)
EXTENDS AuthSessions, TLC

Interchangeable ==
    Permutations(Threads) \cup Permutations(Passwords) \cup Permutations(Sessions)

BehindUTC == {-1}
=============================================================================

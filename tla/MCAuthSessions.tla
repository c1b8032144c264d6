---------------------------- MODULE MCAuthSessions ----------------------------
(***************************************************************************)
(* The instance of AuthSessions that TLC checks.                           *)
(***************************************************************************)
EXTENDS AuthSessions, TLC

\* Requests differ only in what they do, and passwords only in being different.
Symmetry == Permutations(Requests) \cup Permutations(Passwords)
=============================================================================

----------------------------- MODULE MCFileLock -----------------------------
(* Small instances of FileLock for TLC. *)
EXTENDS FileLock, TLC

CONSTANTS c1, c2, p1, p2

\* Each call in a process of its own.
PidOfOwn == c1 :> p1 @@ c2 :> p2
=============================================================================

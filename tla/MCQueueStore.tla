---------------------------- MODULE MCQueueStore ----------------------------
(* Small instances of QueueStore for TLC. *)
EXTENDS QueueStore, TLC

CONSTANTS server, cli, c1, c2, c3, r1, r2, early

\* The server's calls and the command's.
PidOfEach == c1 :> server @@ c2 :> server @@ c3 :> cli

\* A reader of the server's cache.
HomeOfEach == early :> server

Asking(kinds, r) == {o \in Op : o.kind \in kinds /\ o.row = r}

\* The server puts a row in and works on it; the command sends that row again,
\* or another.
AsksEach ==
  c1 :> Asking({"relay", "enqueue"}, r1)
    @@ c2 :> Asking({"take", "mark", "settle", "delete", "withdraw", "load"}, r1)
    @@ c3 :> Asking({"enqueue"}, r2) \cup Asking({"relay"}, r1)

\* Every mutation puts a row in.
AsksAdd ==
  c1 :> Asking({"relay", "enqueue"}, r1) @@ c2 :> Asking({"enqueue"}, r2)
    @@ c3 :> Asking({"enqueue"}, r2)
=============================================================================

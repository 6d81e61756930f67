----------------------------- MODULE DaemonFiles -----------------------------
(***************************************************************************)
(* The daemon processes of one configuration directory and the two things  *)
(* by which others find one: the socket path and the runtime files.        *)
(*                                                                         *)
(* The pid and the status file are written and removed together under the  *)
(* runtime lock, so they are one variable.                                 *)
(***************************************************************************)
CONSTANT Daemons \* daemon processes that can be spawned

VARIABLES daemon,  \* progress of each process
          sock,    \* the daemon whose listener the socket path leads to, or None
          files    \* the daemon the pid and status files name, or None

\* A daemon that ended by itself leaves neither its socket nor its files behind,
\* whatever starts, stops and other daemons did to them meanwhile (cleanup_listener,
\* cleanup_runtime_files_for_current_process).
CleanExit == \A d \in Daemons : daemon[d] = "exited" => d \notin {sock, files}
=============================================================================

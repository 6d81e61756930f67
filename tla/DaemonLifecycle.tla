--------------------------- MODULE DaemonLifecycle ---------------------------
(***************************************************************************)
(* The life of daemon processes around one configuration directory: the    *)
(* JSON-RPC accept loop with its idle monitor and bounded drain            *)
(* (crates/snow_daemon/src/rpc/server.rs), the runtime files of            *)
(* "snow daemon __serve" and the commands "start" and "stop"               *)
(* (crates/snow_cli/src/daemon_cmd), and the clients that start a daemon   *)
(* when they cannot connect (crates/snow_cli/src/tui_client.rs).           *)
(*                                                                         *)
(* Nothing locks the directory as a whole: two starts may overlap, a start *)
(* may meet a daemon that is still draining, and every daemon removes      *)
(* whatever socket is at the path when it begins and when it ends.         *)
(*                                                                         *)
(* Time is left out: a timeout may fire whenever what it waits for has not *)
(* happened.                                                               *)
(***************************************************************************)
EXTENDS Naturals, DaemonFiles

CONSTANTS Starts,  \* start commands
          Clients, \* clients with one connection each
          Stops,   \* stop commands
          None

ASSUME LifecycleAssumption ==
  /\ None \notin Daemons \cup Starts \cup Clients \cup Stops
  /\ Starts \cap Clients = {}
  /\ Clients \cap Stops = {}

VARIABLES pinned,  \* started with --no-idle-timeout
          notified,\* a permit of the shutdown Notify, or a handled SIGTERM
          user,    \* progress of each start and client
          stop,    \* progress of each stop
          conn     \* the connection of each client and stop

vars == <<daemon, pinned, notified, sock, files, user, stop, conn>>

Users == Starts \cup Clients
Peers == Clients \cup Stops
Kinds(u) == IF u \in Starts THEN {"start", "start_pinned"} ELSE {"request", "hold"}
Ended == {"exited", "killed"}

NoConn == [at |-> None, st |-> "none"]
IdleUser == [pc |-> "idle", kind |-> None]
IdleStop == [pc |-> "idle", pid |-> None]
Over == [pc |-> "done", kind |-> None]
Stopped == [pc |-> "done", pid |-> None]

TypeOK ==
  /\ daemon \in [Daemons -> {"none", "booted", "written", "prepared", "serving", "closing",
                             "draining", "returned"} \cup Ended]
  /\ pinned \in [Daemons -> BOOLEAN]
  /\ notified \in [Daemons -> BOOLEAN]
  /\ {sock, files} \subseteq Daemons \cup {None}
  /\ user \in [Users -> [pc: {"idle", "probe", "spawn", "wait", "connect", "reply", "done"},
                         kind: {None, "start", "start_pinned", "request", "hold"}]]
  /\ stop \in [Stops -> [pc: {"idle", "probe", "reply", "waitdown", "term", "waitterm", "done"},
                         pid: Daemons \cup {None}]]
  /\ conn \in [Peers -> [at: Daemons, st: {"queued", "asked", "held"}] \cup {NoConn}]

Init ==
  /\ daemon = [d \in Daemons |-> "none"]
  /\ pinned = [d \in Daemons |-> FALSE]
  /\ notified = [d \in Daemons |-> FALSE]
  /\ sock = None
  /\ files = None
  /\ user = [u \in Users |-> IdleUser]
  /\ stop = [s \in Stops |-> IdleStop]
  /\ conn = [x \in Peers |-> NoConn]

\* endpoint_alive: something at the path takes the connection, if only into the
\* backlog of a listener nobody accepts from any more.
Alive == sock # None /\ daemon[sock] \in {"serving", "closing", "draining"}

Active(d) == {x \in Peers : conn[x].at = d /\ conn[x].st \in {"asked", "held"}}

Queue(x) == conn' = [conn EXCEPT ![x] = [at |-> sock, st |-> "queued"]]

\* There is no such process.
Gone(d) == d \notin {e \in Daemons : daemon[e] \notin Ended}

\* Every connection of a process that ends is reset: a client that waited for an
\* answer gives up, and stop goes on to see whether the endpoint is down.
CutFrom(d, killer) ==
  /\ conn' = [x \in Peers |-> IF conn[x].at = d THEN NoConn ELSE conn[x]]
  /\ user' = [u \in Users |-> IF u \in Clients /\ conn[u].at = d THEN Over ELSE user[u]]
  /\ stop' = [s \in Stops |->
                CASE s = killer -> Stopped
                  [] s # killer /\ conn[s].at = d -> [stop[s] EXCEPT !.pc = "waitdown"]
                  [] OTHER -> stop[s]]

-----------------------------------------------------------------------------
(* A daemon process *)

\* run, write_runtime_files
WriteFiles(d) ==
  /\ daemon[d] = "booted"
  /\ daemon' = [daemon EXCEPT ![d] = "written"]
  /\ files' = d
  /\ UNCHANGED <<pinned, notified, sock, user, stop, conn>>

\* Variant with a fault: the error is returned before the files are removed.
BootFailsEarly(d) ==
  /\ daemon[d] = "written"
  /\ daemon' = [daemon EXCEPT ![d] = "exited"]
  /\ UNCHANGED <<pinned, notified, sock, files, user, stop, conn>>

\* build_core fails: no credentials, no configuration.
BootFails(d) ==
  /\ daemon[d] = "written"
  /\ daemon' = [daemon EXCEPT ![d] = "returned"]
  /\ UNCHANGED <<pinned, notified, sock, files, user, stop, conn>>

\* prepare_listener removes what is at the path, whoever listens there.
PrepareListener(d) ==
  /\ daemon[d] = "written"
  /\ daemon' = [daemon EXCEPT ![d] = "prepared"]
  /\ sock' = None
  /\ UNCHANGED <<pinned, notified, files, user, stop, conn>>

\* listen: the path may have been taken since.
Bind(d) ==
  /\ daemon[d] = "prepared"
  /\ IF sock = None
       THEN daemon' = [daemon EXCEPT ![d] = "serving"] /\ sock' = d
       ELSE daemon' = [daemon EXCEPT ![d] = "returned"] /\ UNCHANGED sock
  /\ UNCHANGED <<pinned, notified, files, user, stop, conn>>

\* idle_monitor: no connection, for as long as the idle window.
IdleMonitor(d) ==
  /\ daemon[d] = "serving"
  /\ ~pinned[d]
  /\ ~notified[d]
  /\ Active(d) = {}
  /\ notified' = [notified EXCEPT ![d] = TRUE]
  /\ UNCHANGED <<daemon, pinned, sock, files, user, stop, conn>>

\* The select of serve_until takes the shutdown arm.
LeaveLoop(d) ==
  /\ daemon[d] = "serving"
  /\ notified[d]
  /\ daemon' = [daemon EXCEPT ![d] = "closing"]
  /\ UNCHANGED <<pinned, notified, sock, files, user, stop, conn>>

\* cleanup_listener removes what is at the path, whoever listens there.
CleanupListener(d) ==
  /\ daemon[d] = "closing"
  /\ daemon' = [daemon EXCEPT ![d] = "draining"]
  /\ sock' = None
  /\ UNCHANGED <<pinned, notified, files, user, stop, conn>>

\* Variant with a fault: no bound on the drain.
DrainUnbounded(d) ==
  /\ daemon[d] = "draining"
  /\ Active(d) = {}
  /\ daemon' = [daemon EXCEPT ![d] = "returned"]
  /\ CutFrom(d, None)
  /\ sock' \in {sock, None}
  /\ UNCHANGED <<pinned, notified, files>>

\* tracker.wait() under drain_timeout: every task has ended, or the time is up.
\* The listener is dropped, and its library may remove the path once more.
Drain(d) ==
  /\ daemon[d] = "draining"
  /\ daemon' = [daemon EXCEPT ![d] = "returned"]
  /\ CutFrom(d, None)
  /\ sock' \in {sock, None}
  /\ UNCHANGED <<pinned, notified, files>>

\* cleanup_runtime_files_for_current_process
Exit(d) ==
  /\ daemon[d] = "returned"
  /\ daemon' = [daemon EXCEPT ![d] = "exited"]
  /\ files' = IF files = d THEN None ELSE files
  /\ UNCHANGED <<pinned, notified, sock, user, stop, conn>>

DaemonStep(d) ==
  \/ WriteFiles(d) \/ BootFails(d) \/ PrepareListener(d) \/ Bind(d) \/ IdleMonitor(d)
  \/ LeaveLoop(d) \/ CleanupListener(d) \/ Drain(d) \/ Exit(d)

-----------------------------------------------------------------------------
(* Connections: serve_until, handle_connection *)

Accept(x) ==
  /\ conn[x].st = "queued"
  /\ daemon[conn[x].at] = "serving"
  /\ conn' = [conn EXCEPT ![x].st =
                IF x \in Clients /\ user[x].kind = "hold" THEN "held" ELSE "asked"]
  /\ UNCHANGED <<daemon, pinned, notified, sock, files, user, stop>>

\* Variant with a fault: the shutdown request is answered and nobody is told.
RespondQuietly(x) ==
  /\ conn[x].st = "asked"
  /\ conn' = [conn EXCEPT ![x] = NoConn]
  /\ IF x \in Stops
       THEN stop' = [stop EXCEPT ![x].pc = "waitdown"] /\ UNCHANGED user
       ELSE user' = [user EXCEPT ![x] = Over] /\ UNCHANGED stop
  /\ UNCHANGED <<daemon, pinned, notified, sock, files>>

\* The handler ends and its response is written; only then does the shutdown
\* method notify the accept loop.  The connection ends with it: the loop breaks
\* after a shutdown, and another client closes its stream.
Respond(x) ==
  /\ conn[x].st = "asked"
  /\ conn' = [conn EXCEPT ![x] = NoConn]
  /\ IF x \in Stops
       THEN /\ notified' = [notified EXCEPT ![conn[x].at] = TRUE]
            /\ stop' = [stop EXCEPT ![x].pc = "waitdown"]
            /\ UNCHANGED user
       ELSE /\ user' = [user EXCEPT ![x] = Over]
            /\ UNCHANGED <<notified, stop>>
  /\ UNCHANGED <<daemon, pinned, sock, files>>

ConnStep(x) == Accept(x) \/ Respond(x)

\* Variant with a fault: the connection is not taken off the count.
ReleaseUncounted(u) ==
  /\ conn[u].st = "held"
  /\ user' = [user EXCEPT ![u] = Over]
  /\ UNCHANGED <<daemon, pinned, notified, sock, files, stop, conn>>

\* A client that connected and asked nothing closes its stream.
Release(u) ==
  /\ conn[u].st = "held"
  /\ conn' = [conn EXCEPT ![u] = NoConn]
  /\ user' = [user EXCEPT ![u] = Over]
  /\ UNCHANGED <<daemon, pinned, notified, sock, files, stop>>

-----------------------------------------------------------------------------
(* start, ensure_running and send_request *)

Go(u, pc) == user' = [user EXCEPT ![u].pc = pc]
Finish(u) == user' = [user EXCEPT ![u] = Over]

\* A client connects, or falls back on starting a daemon; start only starts.
Begin(u, kind) ==
  /\ user[u].pc = "idle"
  /\ IF u \in Clients /\ Alive
       THEN user' = [user EXCEPT ![u].pc = "reply", ![u].kind = kind] /\ Queue(u)
       ELSE user' = [user EXCEPT ![u].pc = "probe", ![u].kind = kind] /\ UNCHANGED conn
  /\ UNCHANGED <<daemon, pinned, notified, sock, files, stop>>

\* Once the endpoint is up, start is done and a client connects.
IsUp(u) ==
  IF u \in Clients THEN Go(u, "connect") ELSE Finish(u)

Probe(u) ==
  /\ user[u].pc = "probe"
  /\ IF Alive THEN IsUp(u) ELSE Go(u, "spawn")
  /\ UNCHANGED <<daemon, pinned, notified, sock, files, stop, conn>>

\* scrub_stale_runtime_files, then a detached child.
Spawn(u, d) ==
  /\ user[u].pc = "spawn"
  /\ daemon[d] = "none"
  /\ files' = None
  /\ daemon' = [daemon EXCEPT ![d] = "booted"]
  /\ pinned' = [pinned EXCEPT ![d] = (user[u].kind = "start_pinned")]
  /\ user' = [user EXCEPT ![u].pc = "wait"]
  /\ UNCHANGED <<notified, sock, stop, conn>>

SpawnFails(u) ==
  /\ user[u].pc = "spawn"
  /\ files' = None
  /\ Finish(u)
  /\ UNCHANGED <<daemon, pinned, notified, sock, stop, conn>>

\* wait_for_endpoint: up, whoever listens; or the child ended; or 60 seconds.
Wait(u) ==
  /\ user[u].pc = "wait"
  /\ \/ Alive /\ IsUp(u)
     \/ ~Alive /\ Finish(u)
  /\ UNCHANGED <<daemon, pinned, notified, sock, files, stop, conn>>

\* Variant with a fault: no deadline.
ConnectForever(u) ==
  /\ user[u].pc = "connect"
  /\ Alive
  /\ Go(u, "reply")
  /\ Queue(u)
  /\ UNCHANGED <<daemon, pinned, notified, sock, files, stop>>

\* Connect again, for 60 seconds.
Connect(u) ==
  /\ user[u].pc = "connect"
  /\ \/ Alive /\ Go(u, "reply") /\ Queue(u)
     \/ ~Alive /\ Finish(u) /\ UNCHANGED conn
  /\ UNCHANGED <<daemon, pinned, notified, sock, files, stop>>

UserStep(u) ==
  \/ Probe(u) \/ SpawnFails(u) \/ Wait(u) \/ Connect(u)
  \/ \E d \in Daemons : Spawn(u, d)

-----------------------------------------------------------------------------
(* stop *)

Step(s, pc) == stop' = [stop EXCEPT ![s].pc = pc]
End(s) == stop' = [stop EXCEPT ![s] = Stopped]

ReadPid(s) ==
  /\ stop[s].pc = "idle"
  /\ stop' = [stop EXCEPT ![s].pc = "probe", ![s].pid = files]
  /\ UNCHANGED <<daemon, pinned, notified, sock, files, user, conn>>

ProbeStop(s) ==
  /\ stop[s].pc = "probe"
  /\ \/ Alive /\ Step(s, "reply") /\ Queue(s)
     \/ ~Alive /\ stop[s].pid = None /\ End(s) /\ UNCHANGED conn
     \/ ~Alive /\ stop[s].pid # None /\ Step(s, "term") /\ UNCHANGED conn
  /\ UNCHANGED <<daemon, pinned, notified, sock, files, user>>

\* wait_for_endpoint_down, then scrub; or the time is up.
WaitDown(s) ==
  /\ stop[s].pc = "waitdown"
  /\ \/ ~Alive /\ files' = None /\ End(s)
     \/ Alive /\ UNCHANGED files /\ Step(s, "term")
  /\ UNCHANGED <<daemon, pinned, notified, sock, user, conn>>

\* SIGTERM: serve_until listens for it once it serves; before that it kills, and
\* a loop that was left no longer looks.
Terminate(s) ==
  LET d == stop[s].pid IN
  /\ stop[s].pc = "term"
  /\ \/ Gone(d) /\ End(s) /\ UNCHANGED <<daemon, notified, conn, user>>
     \/ /\ ~Gone(d)
        /\ IF daemon[d] \in {"booted", "written", "prepared"}
             THEN daemon' = [daemon EXCEPT ![d] = "killed"] /\ UNCHANGED notified
             ELSE notified' = [notified EXCEPT ![d] = TRUE] /\ UNCHANGED daemon
        /\ Step(s, "waitterm")
        /\ UNCHANGED <<conn, user>>
  /\ UNCHANGED <<pinned, sock, files>>

\* Down within two seconds, or SIGKILL; then scrub, whatever the files name.
WaitTerm(s) ==
  LET d == stop[s].pid IN
  /\ stop[s].pc = "waitterm"
  /\ \/ /\ ~Alive
        /\ files' = None
        /\ End(s)
        /\ UNCHANGED <<daemon, conn, user>>
     \/ Alive /\ Gone(d) /\ End(s) /\ UNCHANGED <<files, daemon, conn, user>>
     \/ /\ Alive /\ ~Gone(d)
        /\ files' = None
        /\ daemon' = [daemon EXCEPT ![d] = "killed"]
        /\ CutFrom(d, s)
  /\ UNCHANGED <<pinned, notified, sock>>

StopStep(s) == ProbeStop(s) \/ WaitDown(s) \/ Terminate(s) \/ WaitTerm(s)

-----------------------------------------------------------------------------
Next ==
  \/ \E d \in Daemons : DaemonStep(d)
  \/ \E x \in Peers : ConnStep(x)
  \/ \E u \in Users : UserStep(u) \/ \E kind \in Kinds(u) : Begin(u, kind)
  \/ \E c \in Clients : Release(c)
  \/ \E s \in Stops : ReadPid(s) \/ StopStep(s)

\* Nobody has to issue a command, and a client may hold its stream for ever; all
\* else is a running process, a timer or a bounded wait.
Fairness ==
  /\ \A d \in Daemons : WF_vars(DaemonStep(d))
  /\ \A x \in Peers : WF_vars(ConnStep(x))
  /\ \A u \in Users : WF_vars(UserStep(u))
  /\ \A s \in Stops : WF_vars(StopStep(s))

Spec == Init /\ [][Next]_vars /\ Fairness

-----------------------------------------------------------------------------
(* Properties *)

\* Every request and start ends, with an answer or an error: no client waits for
\* ever in the backlog of a daemon that has stopped accepting, has lost its path
\* to another one, or was killed.
UserEnds ==
  /\ \A u \in Starts : user[u].pc = "probe" ~> user[u].pc = "done"
  /\ \A u \in Clients :
       user[u].pc \notin {"idle", "done"} ~> (user[u].pc = "done" \/ conn[u].st = "held")

\* Every stop ends.
StopEnds == \A s \in Stops : stop[s].pc = "probe" ~> stop[s].pc = "done"

\* A stop that was answered over RPC takes that daemon down, held connections or not.
ShutdownHeard ==
  \A s \in Stops, d \in Daemons :
    (conn[s].at = d /\ conn[s].st = "asked") ~> daemon[d] \in Ended

\* A daemon nobody can reach any more, because another one replaced its socket,
\* ends by itself unless it is pinned or a client stays connected.
OrphanEnds ==
  \A d \in Daemons :
    (daemon[d] = "serving" /\ sock # d /\ ~pinned[d])
      ~> (daemon[d] \in Ended \/ \E u \in Clients : conn[u] = [at |-> d, st |-> "held"] /\ user[u].pc = "reply")
=============================================================================

------------------------------- MODULE Daemon -------------------------------
(***************************************************************************)
(* The background daemon and the commands that talk to it                  *)
(* (internal/app/daemon.go, with stateFor and openState of session.go).    *)
(*                                                                         *)
(* A daemon process probes the socket path, unlinks it, opens one gateway  *)
(* session, listens on the path and serves one connection at a time until  *)
(* it is asked to stop, signalled or left idle.  Command processes dial    *)
(* the path, start a daemon when nobody answers, and fall back to a        *)
(* gateway session of their own when the relay fails.  The socket path is  *)
(* a name in the file system that every process may unlink; nothing else   *)
(* coordinates them.                                                       *)
(*                                                                         *)
(* What is abstracted: the clock (a timeout is a step that may be taken),  *)
(* credentials (a check passes or fails), the text of a reply, and a       *)
(* connection that is closed as soon as it is made (the daemon reads EOF   *)
(* from it and goes on).                                                   *)
(***************************************************************************)
EXTENDS Naturals

CONSTANTS
    Client,      \* command processes; each runs one command after another
    Daemon,      \* daemon processes; an identity is free again after its exit
    NoAutoStart, \* clients whose environment sets DISCORD_AXI_NO_DAEMON
    Ops,         \* the commands this instance runs, a subset of AllOps
    Faults,      \* the faults this instance meets, a subset of AllFaults
    None,        \* no process, no file
    Stale        \* a socket file whose process was killed

AllOps == {"relay", "start", "stop", "status", "run"}

AllFaults == {"killClient", "killDaemon", "signal", "lateReply", "openFails"}

ASSUME ConstantsOK ==
    /\ NoAutoStart \subseteq Client
    /\ Ops \subseteq AllOps
    /\ Faults \subseteq AllFaults
    /\ None \notin Client \cup Daemon
    /\ Stale \notin Daemon
    /\ None # Stale

VARIABLES
    path,       \* what the socket path names: None, Stale or a daemon's socket
    phase,      \* where each daemon process is in runDaemon and serveDaemon
    listening,  \* whether the daemon's listening descriptor is open
    timed,      \* whether the daemon has an idle timer (idle > 0)
    cur,        \* the client whose connection the daemon is serving
    op,         \* the command each client runs
    cpc,        \* where each client is in its command
    conn,       \* the daemon the client's connection leads to
    link,       \* the state of that connection
    runs,       \* how often the client's command has been carried out
    outcome     \* what the client's last command reported

daemonVars == <<phase, listening, timed, cur>>
clientVars == <<op, cpc, conn, link, runs, outcome>>
vars == <<path, daemonVars, clientVars>>

Phases == {"off", "boot", "unlink", "open", "bind",
           "accept", "handle", "run", "reply", "leave", "closing"}

Steps == {"done", "dial", "probe", "spawn", "await", "redial",
          "ask", "wait", "unlink", "self", "own", "orphan"}

Links == {"none", "queued", "accepted", "answered", "reset"}

Outcomes == {"none", "relayed", "own", "failed", "already", "started",
             "stopped", "absent", "running"}

(***************************************************************************)
(* A run of a command has side effects on Discord, so they are counted.    *)
(* One run by a daemon and one by the client itself is all there can be.   *)
(***************************************************************************)
MaxRuns == 2

TypeOK ==
    /\ path \in Daemon \cup {None, Stale}
    /\ phase \in [Daemon -> Phases]
    /\ listening \in [Daemon -> BOOLEAN]
    /\ timed \in [Daemon -> BOOLEAN]
    /\ cur \in [Daemon -> Client \cup {None}]
    /\ op \in [Client -> AllOps]
    /\ cpc \in [Client -> Steps]
    /\ conn \in [Client -> Daemon \cup {None}]
    /\ link \in [Client -> Links]
    /\ runs \in [Client -> 0..MaxRuns]
    /\ outcome \in [Client -> Outcomes]

Init ==
    /\ path = None
    /\ phase = [d \in Daemon |-> "off"]
    /\ listening = [d \in Daemon |-> FALSE]
    /\ timed = [d \in Daemon |-> FALSE]
    /\ cur = [d \in Daemon |-> None]
    /\ op = [c \in Client |-> "relay"]
    /\ cpc = [c \in Client |-> "done"]
    /\ conn = [c \in Client |-> None]
    /\ link = [c \in Client |-> "none"]
    /\ runs = [c \in Client |-> 0]
    /\ outcome = [c \in Client |-> "none"]

-----------------------------------------------------------------------------
(* State formulae and effects shared by several steps. *)

\* net.DialTimeout("unix", SocketPath()) succeeds: the path names a socket
\* whose owner still listens on it.
Dialable == path \in Daemon /\ listening[path]

\* The phases in which serveDaemon's accept loop is running.
Serving == {"accept", "handle", "run", "reply"}

Goto(c, step) == cpc' = [cpc EXCEPT ![c] = step]

Finish(c, result) ==
    /\ cpc' = [cpc EXCEPT ![c] = "done"]
    /\ outcome' = [outcome EXCEPT ![c] = result]

\* UnixListener.Close: unlink the path, whoever's socket it names by then,
\* and close the descriptor; the connections still queued on it are reset.
CloseListener(d) ==
    /\ path' = None
    /\ listening' = [listening EXCEPT ![d] = FALSE]
    /\ link' = [c \in Client |->
                  IF conn[c] = d /\ link[c] = "queued" THEN "reset" ELSE link[c]]

\* The process ends: the kernel closes its descriptors, which breaks every
\* connection not yet answered.
Exit(d) ==
    /\ phase' = [phase EXCEPT ![d] = "off"]
    /\ timed' = [timed EXCEPT ![d] = FALSE]
    /\ listening' = [listening EXCEPT ![d] = FALSE]
    /\ cur' = [cur EXCEPT ![d] = None]
    /\ conn' = [c \in Client |-> IF conn[c] = d THEN None ELSE conn[c]]
    /\ link' = [c \in Client |->
                  IF conn[c] = d /\ link[c] \in {"queued", "accepted"}
                  THEN "reset" ELSE link[c]]

\* The daemon closes the connection it serves: the client gets an answer or
\* finds the connection broken.
EndConnection(d, result) ==
    /\ cur' = [cur EXCEPT ![d] = None]
    /\ link' = [link EXCEPT ![cur[d]] = result]

-----------------------------------------------------------------------------
(* The commands: unread and read (relay), daemon start, stop and status. *)

\* A process starts a command.  The identity of a killed client is free
\* again once the connection it has left behind is closed.
Begin(c, o) ==
    /\ cpc[c] \in {"done", "orphan"}
    /\ link[c] \notin {"queued", "accepted"}
    /\ op' = [op EXCEPT ![c] = o]
    /\ cpc' = [cpc EXCEPT ![c] = "dial"]
    /\ conn' = [conn EXCEPT ![c] = None]
    /\ link' = [link EXCEPT ![c] = "none"]
    /\ runs' = [runs EXCEPT ![c] = 0]
    /\ outcome' = [outcome EXCEPT ![c] = "none"]
    /\ UNCHANGED <<path, daemonVars>>

\* The dial of forwardToDaemon, daemonStatus and stopDaemon, and the second
\* dial of forwardToDaemon after startDaemon has returned.
Connect(c) ==
    /\ \/ cpc[c] = "dial" /\ op[c] # "start"
       \/ cpc[c] = "redial"
    /\ Dialable
    /\ conn' = [conn EXCEPT ![c] = path]
    /\ link' = [link EXCEPT ![c] = "queued"]
    /\ Goto(c, "ask")
    /\ UNCHANGED <<path, daemonVars, op, runs, outcome>>

\* startDaemonCommand finds a listener and reports a no-op.
StartIsNoOp(c) ==
    /\ cpc[c] = "dial" /\ op[c] = "start"
    /\ Dialable
    /\ Finish(c, "already")
    /\ UNCHANGED <<path, daemonVars, op, conn, link, runs>>

\* Nobody answers the first dial.
DialMisses(c) ==
    /\ cpc[c] = "dial"
    /\ ~Dialable
    /\ \/ /\ op[c] = "relay"
          /\ Goto(c, IF c \in NoAutoStart THEN "self" ELSE "probe")
          /\ UNCHANGED outcome
       \/ op[c] = "start" /\ Goto(c, "probe") /\ UNCHANGED outcome
       \/ op[c] = "stop" /\ Goto(c, "unlink") /\ UNCHANGED outcome
       \/ op[c] = "status" /\ Finish(c, "absent")
    /\ UNCHANGED <<path, daemonVars, op, conn, link, runs>>

\* stopDaemon removes the socket file after its dial has failed, without
\* looking again at whose it is.
StopUnlinks(c) ==
    /\ cpc[c] = "unlink"
    /\ path' = None
    /\ Finish(c, "absent")
    /\ UNCHANGED <<daemonVars, op, conn, link, runs>>

\* startDaemon returns nil: its own first dial, or one of its polling loop,
\* has found a listener, whichever daemon that is.
StartSucceeds(c) ==
    /\ cpc[c] \in {"probe", "await"}
    /\ Dialable
    /\ IF op[c] = "start"
       THEN Finish(c, "started")
       ELSE Goto(c, "redial") /\ UNCHANGED outcome
    /\ UNCHANGED <<path, daemonVars, op, conn, link, runs>>

\* startDaemon's own first dial fails.
ProbeMisses(c) ==
    /\ cpc[c] = "probe"
    /\ ~Dialable
    /\ Goto(c, "spawn")
    /\ UNCHANGED <<path, daemonVars, op, conn, link, runs, outcome>>

\* startDaemon launches `daemon run`: with the default idle timeout for a
\* relayed command, with the caller's --idle for `daemon start`.
Spawn(c, d) ==
    /\ cpc[c] = "spawn"
    /\ phase[d] = "off"
    /\ phase' = [phase EXCEPT ![d] = "boot"]
    /\ \E idle \in BOOLEAN :
          /\ op[c] = "relay" => idle
          /\ timed' = [timed EXCEPT ![d] = idle]
    /\ Goto(c, "await")
    /\ UNCHANGED <<path, listening, cur, op, conn, link, runs, outcome>>

\* Mutant of StartFails: the poll of startDaemon has no deadline.
StartNeverGivesUp(c) ==
    /\ cpc[c] = "spawn"
    /\ IF op[c] = "start"
       THEN Finish(c, "failed")
       ELSE Goto(c, "self") /\ UNCHANGED outcome
    /\ UNCHANGED <<path, daemonVars, op, conn, link, runs>>

\* startDaemon returns an error: it has no usable account or cannot launch
\* the child, or the child has exited since the last poll, or the startup
\* window of 45 seconds has passed.  The window is the one that matters: it
\* also ends a wait for a child that lives but cannot be reached.  A relayed
\* command then does the work itself.
StartFails(c) ==
    /\ cpc[c] \in {"spawn", "await"}
    /\ IF op[c] = "start"
       THEN Finish(c, "failed")
       ELSE Goto(c, "self") /\ UNCHANGED outcome
    /\ UNCHANGED <<path, daemonVars, op, conn, link, runs>>

\* The daemon that answered startDaemon is gone by the second dial.
RedialMisses(c) ==
    /\ cpc[c] = "redial"
    /\ ~Dialable
    /\ Goto(c, "self")
    /\ UNCHANGED <<path, daemonVars, op, conn, link, runs, outcome>>

\* The request is written to the connection.
Ask(c) ==
    /\ cpc[c] = "ask"
    /\ Goto(c, "wait")
    /\ UNCHANGED <<path, daemonVars, op, conn, link, runs, outcome>>

\* The reply is decoded.
TakeAnswer(c) ==
    /\ cpc[c] = "wait" /\ link[c] = "answered"
    /\ Finish(c, CASE op[c] = "relay" -> "relayed"
                   [] op[c] = "stop" -> "stopped"
                   [] OTHER -> "running")
    /\ UNCHANGED <<path, daemonVars, op, conn, link, runs>>

\* Mutant of FindBroken: a relayed command asks the daemon once more.
AskAgain(c) ==
    /\ cpc[c] = "wait" /\ link[c] = "reset"
    /\ \/ op[c] = "relay" /\ Goto(c, "redial") /\ UNCHANGED outcome
       \/ op[c] = "stop" /\ Finish(c, "stopped")
       \/ op[c] = "status" /\ Finish(c, "failed")
    /\ UNCHANGED <<path, daemonVars, op, conn, link, runs>>

\* Mutant of FindBroken: a client that has waited long enough gives up.
GiveUpWaiting(c) ==
    /\ cpc[c] = "wait" /\ link[c] # "answered"
    /\ \/ op[c] = "relay" /\ Goto(c, "self") /\ UNCHANGED outcome
       \/ op[c] = "stop" /\ Finish(c, "stopped")
       \/ op[c] = "status" /\ Finish(c, "failed")
    /\ UNCHANGED <<path, daemonVars, op, conn, link, runs>>

\* Reading the reply fails: a relayed command falls through, stopDaemon
\* ignores the error, daemonStatus reports it.
FindBroken(c) ==
    /\ cpc[c] = "wait" /\ link[c] = "reset"
    /\ \/ op[c] = "relay" /\ Goto(c, "self") /\ UNCHANGED outcome
       \/ op[c] = "stop" /\ Finish(c, "stopped")
       \/ op[c] = "status" /\ Finish(c, "failed")
    /\ UNCHANGED <<path, daemonVars, op, conn, link, runs>>

\* The command opens a gateway session of its own, or fails to.
OpenOwn(c) ==
    /\ cpc[c] = "self"
    /\ \/ Goto(c, "own") /\ UNCHANGED outcome
       \/ "openFails" \in Faults /\ Finish(c, "failed")
    /\ UNCHANGED <<path, daemonVars, op, conn, link, runs>>

\* Mutant of RunOwn: a command that has failed half way starts over.
RunOwnAgain(c) ==
    /\ cpc[c] = "own"
    /\ runs' = [runs EXCEPT ![c] = @ + 1]
    /\ \/ Finish(c, "own")
       \/ Goto(c, "self") /\ UNCHANGED outcome
    /\ UNCHANGED <<path, daemonVars, op, conn, link>>

\* It does its work on that session and closes it.
RunOwn(c) ==
    /\ cpc[c] = "own"
    /\ runs' = [runs EXCEPT ![c] = @ + 1]
    /\ Finish(c, "own")
    /\ UNCHANGED <<path, daemonVars, op, conn, link>>

\* The process is killed in the middle of its command.  A request it may
\* already have written stays in the connection for the daemon to read.
KillClient(c) ==
    /\ "killClient" \in Faults
    /\ cpc[c] \notin {"done", "orphan"}
    /\ cpc' = [cpc EXCEPT ![c] = "orphan"]
    /\ UNCHANGED <<path, daemonVars, op, conn, link, runs, outcome>>

-----------------------------------------------------------------------------
(* The daemon process. *)

\* A user runs `daemon run` in the foreground.
RunInForeground(d) ==
    /\ "run" \in Ops
    /\ phase[d] = "off"
    /\ phase' = [phase EXCEPT ![d] = "boot"]
    /\ \E idle \in BOOLEAN : timed' = [timed EXCEPT ![d] = idle]
    /\ UNCHANGED <<path, listening, cur, clientVars>>

\* runDaemon's dial: no listener may exist.
BootProbe(d) ==
    /\ phase[d] = "boot"
    /\ ~Dialable
    /\ phase' = [phase EXCEPT ![d] = "unlink"]
    /\ UNCHANGED <<path, listening, timed, cur, clientVars>>

\* runDaemon ends before it has a session: no account resolves, another
\* daemon is listening already, or openState fails or times out.
BootFails(d) ==
    /\ \/ phase[d] = "boot" /\ Dialable
       \/ phase[d] \in {"boot", "open"} /\ "openFails" \in Faults
    /\ Exit(d)
    /\ UNCHANGED <<path, op, cpc, runs, outcome>>

\* runDaemon removes what its dial has taken for a stale socket file.
BootUnlink(d) ==
    /\ phase[d] = "unlink"
    /\ path' = None
    /\ phase' = [phase EXCEPT ![d] = "open"]
    /\ UNCHANGED <<listening, timed, cur, clientVars>>

\* openState returns the live session.
OpenSession(d) ==
    /\ phase[d] = "open"
    /\ phase' = [phase EXCEPT ![d] = "bind"]
    /\ UNCHANGED <<path, listening, timed, cur, clientVars>>

\* net.Listen creates the socket file, or fails because one exists; the
\* deferred os.Remove is not yet registered when it fails.
Bind(d) ==
    /\ phase[d] = "bind"
    /\ \/ /\ path = None
          /\ path' = d
          /\ listening' = [listening EXCEPT ![d] = TRUE]
          /\ phase' = [phase EXCEPT ![d] = "accept"]
       \/ /\ path # None
          /\ phase' = [phase EXCEPT ![d] = "closing"]
          /\ UNCHANGED <<path, listening>>
    /\ UNCHANGED <<timed, cur, clientVars>>

\* The accept loop takes a queued connection.
Accept(d, c) ==
    /\ phase[d] = "accept"
    /\ conn[c] = d /\ link[c] = "queued"
    /\ cur' = [cur EXCEPT ![d] = c]
    /\ link' = [link EXCEPT ![c] = "accepted"]
    /\ phase' = [phase EXCEPT ![d] = "handle"]
    /\ UNCHANGED <<path, listening, timed, op, cpc, conn, runs, outcome>>

\* Mutant of AcceptFails: the loop goes on after an error.
AcceptRetries(d) ==
    /\ phase[d] = "accept"
    /\ ~listening[d]
    /\ UNCHANGED vars

\* Accept fails once the listener is closed, which ends the loop.
AcceptFails(d) ==
    /\ phase[d] = "accept"
    /\ ~listening[d]
    /\ phase' = [phase EXCEPT ![d] = "leave"]
    /\ UNCHANGED <<path, listening, timed, cur, clientVars>>

\* Mutant of DecodeFails: the early return leaves the connection open.
DecodeLeaks(d) ==
    /\ phase[d] = "handle"
    /\ cpc[cur[d]] \in {"ask", "orphan"}
    /\ phase' = [phase EXCEPT ![d] = "accept"]
    /\ UNCHANGED <<path, listening, timed, cur, clientVars>>

\* The request cannot be read: the client is gone, or has sent nothing
\* before the connection's deadline.
DecodeFails(d) ==
    /\ phase[d] = "handle"
    /\ cpc[cur[d]] \in {"ask", "orphan"}
    /\ EndConnection(d, "reset")
    /\ phase' = [phase EXCEPT ![d] = "accept"]
    /\ UNCHANGED <<path, listening, timed, op, cpc, conn, runs, outcome>>

\* Mutant of Handle: the stop request does not end the accept loop.
StopIgnored(d) ==
    /\ phase[d] = "handle"
    /\ cpc[cur[d]] \in {"wait", "orphan"}
    /\ IF op[cur[d]] = "relay"
       THEN phase' = [phase EXCEPT ![d] = "run"] /\ UNCHANGED <<cur, link>>
       ELSE phase' = [phase EXCEPT ![d] = "accept"] /\ EndConnection(d, "answered")
    /\ UNCHANGED <<path, listening, timed, op, cpc, conn, runs, outcome>>

\* The request is read and answered or, for a relayed command, carried out.
\* A stop request ends the accept loop; the listener is still open then.
Handle(d) ==
    /\ phase[d] = "handle"
    /\ cpc[cur[d]] \in {"wait", "orphan"}
    /\ LET request == op[cur[d]] IN
         \/ /\ request = "relay"
            /\ phase' = [phase EXCEPT ![d] = "run"]
            /\ UNCHANGED <<cur, link>>
         \/ /\ request = "status"
            /\ phase' = [phase EXCEPT ![d] = "accept"]
            /\ EndConnection(d, "answered")
         \/ /\ request = "stop"
            /\ phase' = [phase EXCEPT ![d] = "leave"]
            /\ EndConnection(d, "answered")
    /\ UNCHANGED <<path, listening, timed, op, cpc, conn, runs, outcome>>

\* App.Run carries the command out on the live session.
RunRelayed(d) ==
    /\ phase[d] = "run"
    /\ runs' = [runs EXCEPT ![cur[d]] = @ + 1]
    /\ phase' = [phase EXCEPT ![d] = "reply"]
    /\ UNCHANGED <<path, listening, timed, cur, op, cpc, conn, link, outcome>>

\* The reply is written, or lost because the connection's deadline of 30
\* seconds has passed; the daemon does not tell the two apart.
Reply(d) ==
    /\ phase[d] = "reply"
    /\ \/ EndConnection(d, "answered")
       \/ "lateReply" \in Faults /\ EndConnection(d, "reset")
    /\ phase' = [phase EXCEPT ![d] = "accept"]
    /\ UNCHANGED <<path, listening, timed, op, cpc, conn, runs, outcome>>

\* The idle timer fires in its own goroutine, also while a request is served
\* or queued.
IdleExpires(d) ==
    /\ phase[d] \in Serving
    /\ timed[d] /\ listening[d]
    /\ CloseListener(d)
    /\ UNCHANGED <<phase, timed, cur, op, cpc, conn, runs, outcome>>

\* SIGINT or SIGTERM closes the listener from the signal goroutine.
Signalled(d) ==
    /\ "signal" \in Faults
    /\ phase[d] \in Serving
    /\ listening[d]
    /\ CloseListener(d)
    /\ UNCHANGED <<phase, timed, cur, op, cpc, conn, runs, outcome>>

\* After a stop request the same goroutine closes the listener while the
\* main one is already cleaning up, in either order.
StopCloses(d) ==
    /\ phase[d] \in {"leave", "closing"}
    /\ listening[d]
    /\ CloseListener(d)
    /\ UNCHANGED <<phase, timed, cur, op, cpc, conn, runs, outcome>>

\* Mutant of Leave: the socket file is not removed.
LeaveKeepsFile(d) ==
    /\ phase[d] = "leave"
    /\ phase' = [phase EXCEPT ![d] = "closing"]
    /\ UNCHANGED <<path, listening, timed, cur, clientVars>>

\* The deferred os.Remove(SocketPath()).
Leave(d) ==
    /\ phase[d] = "leave"
    /\ path' = None
    /\ phase' = [phase EXCEPT ![d] = "closing"]
    /\ UNCHANGED <<listening, timed, cur, clientVars>>

\* The deferred closeState, after which the process exits.
CloseSession(d) ==
    /\ phase[d] = "closing"
    /\ Exit(d)
    /\ UNCHANGED <<path, op, cpc, runs, outcome>>

\* The daemon is killed: nothing it deferred runs and its socket file stays.
KillDaemon(d) ==
    /\ "killDaemon" \in Faults
    /\ phase[d] # "off"
    /\ path' = IF path = d THEN Stale ELSE path
    /\ Exit(d)
    /\ UNCHANGED <<op, cpc, runs, outcome>>

-----------------------------------------------------------------------------
ClientStep(c) ==
    \/ Connect(c) \/ StartIsNoOp(c) \/ DialMisses(c) \/ StopUnlinks(c)
    \/ StartSucceeds(c) \/ ProbeMisses(c) \/ StartFails(c) \/ RedialMisses(c)
    \/ Ask(c) \/ TakeAnswer(c) \/ FindBroken(c)
    \/ OpenOwn(c) \/ RunOwn(c)
    \/ \E d \in Daemon : Spawn(c, d)

DaemonStep(d) ==
    \/ BootProbe(d) \/ BootFails(d) \/ BootUnlink(d)
    \/ OpenSession(d) \/ Bind(d)
    \/ AcceptFails(d) \/ DecodeFails(d) \/ Handle(d) \/ RunRelayed(d) \/ Reply(d)
    \/ StopCloses(d) \/ Leave(d) \/ CloseSession(d)

Environment ==
    \/ \E c \in Client :
          \/ \E o \in Ops \ {"run"} : Begin(c, o)
          \/ KillClient(c)
    \/ \E d \in Daemon : RunInForeground(d) \/ Signalled(d) \/ KillDaemon(d)

Next ==
    \/ \E c \in Client : ClientStep(c)
    \/ \E d \in Daemon :
          \/ DaemonStep(d)
          \/ IdleExpires(d)
          \/ \E c \in Client : Accept(d, c)
    \/ Environment

Spec == Init /\ [][Next]_vars

\* No connection is queued and none is being served.
Unused(d) ==
    /\ phase[d] = "accept"
    /\ \A c \in Client : ~(conn[c] = d /\ link[c] = "queued")

(***************************************************************************)
(* Processes that can take a step take it; the kernel hands out queued     *)
(* connections in order, so none is passed over for ever; the idle timer   *)
(* fires if no connection arrives.  Nothing is assumed about users,        *)
(* signals and kills.                                                      *)
(***************************************************************************)
Fairness ==
    /\ \A c \in Client : WF_vars(ClientStep(c))
    /\ \A d \in Daemon :
          /\ WF_vars(DaemonStep(d))
          /\ WF_vars(Unused(d) /\ IdleExpires(d))
          /\ \A c \in Client : SF_vars(Accept(d, c))

FairSpec == Spec /\ Fairness

-----------------------------------------------------------------------------
(***************************************************************************)
(* Safety.                                                                 *)
(***************************************************************************)

\* A socket file belongs to a process that listens on it, unless a process
\* was killed: neither a stop request, a signal nor the idle timer, in
\* whatever order their goroutines run, makes a daemon exit with its socket
\* file still in place (the deferred os.Remove of runDaemon and the unlink of
\* the listener's Close).
SocketIsServed == \A d \in Daemon : path = d => listening[d]

\* forwardToDaemon, daemonStatus and stopDaemon read the reply without a
\* deadline.  A command therefore waits only on a connection that a live
\* daemon will still take from its queue, is serving at this moment, or has
\* closed; no daemon returns to its accept loop with a connection left open.
WaitersHaveServer ==
    \A c \in Client :
        /\ link[c] = "queued" => conn[c] \in Daemon /\ listening[conn[c]]
        /\ link[c] = "accepted" =>
              /\ conn[c] \in Daemon
              /\ cur[conn[c]] = c
              /\ phase[conn[c]] \in {"handle", "run", "reply"}

\* The report a command prints tells how often it was carried out: a relayed
\* answer means exactly once, by the daemon; a command that went on by itself
\* has been carried out at least once and, however many connections and
\* timeouts were in its way, at most twice.
RunsMatchReport ==
    \A c \in Client :
        /\ outcome[c] = "relayed" => runs[c] = 1
        /\ outcome[c] = "own" => runs[c] \in {1, 2}
        /\ outcome[c] \in {"already", "started", "stopped", "absent", "running"}
              => runs[c] = 0

\* What a user may rely on without knowing of daemons: everything that is done
\* for a command is done before it reports.
Status(c) == CASE cpc[c] = "done" -> "idle"
               [] cpc[c] = "orphan" -> "killed"
               [] OTHER -> "open"

Promise == INSTANCE Relay WITH status <- [c \in Client |-> Status(c)]

\* The socket, the connections and the daemons that come and go implement the
\* promise: no daemon carries a command out that has already reported or has
\* already been carried out, and a command reports once (forwardToDaemon,
\* serveDaemonConnection).
ImplementsRelay == Promise!RelaySpec

-----------------------------------------------------------------------------
(***************************************************************************)
(* Liveness.                                                               *)
(***************************************************************************)

\* Every command ends: a start whose child dies is noticed, a connection
\* whose daemon stops is closed, and no client waits for ever behind another.
CommandFinishes ==
    \A c \in Client : cpc[c] \notin {"done", "orphan"} ~> cpc[c] \in {"done", "orphan"}

\* Once no command runs any more, every daemon with an idle timeout exits,
\* also one whose socket file another process has removed.
UnusedDaemonsExit ==
    (<>[](\A c \in Client : cpc[c] \in {"done", "orphan"})) =>
        \A d \in Daemon : []<>(timed[d] => phase[d] = "off")

\* A daemon that has answered a stop request exits.
StopTakesEffect ==
    \A d \in Daemon :
        (\E c \in Client : op[c] = "stop" /\ conn[c] = d /\ link[c] = "answered")
            ~> phase[d] = "off"

=============================================================================

------------------------------- MODULE Relay --------------------------------
(***************************************************************************)
(* What relaying promises (internal/app/daemon.go): a command is carried   *)
(* out by a daemon once, or by its own process, or by both if the daemon's *)
(* answer is lost; whatever is done for it is done before it reports, and  *)
(* nothing is done for it afterwards.  Only a command that was killed may  *)
(* still be carried out by a daemon that has its request.                  *)
(*                                                                         *)
(* To carry a command out is to run it to its end, as App.Run does; what a *)
(* session still sends in the background then is not counted here.         *)
(* Daemons, the socket and connections are not part of the promise.        *)
(***************************************************************************)
EXTENDS Naturals

CONSTANT Client   \* command processes; each runs one command after another

VARIABLES
    op,       \* the command each client runs
    status,   \* "idle", "open" while the command runs, "killed"
    runs,     \* how often it has been carried out
    outcome   \* what it has reported

relayVars == <<op, status, runs, outcome>>

\* What each command may report.  A daemon's own failure to carry a relayed
\* command out is relayed too.
Reports == [relay  |-> {"relayed", "own", "failed"},
            start  |-> {"already", "started", "failed"},
            stop   |-> {"stopped", "absent"},
            status |-> {"running", "absent", "failed"}]

RelayInit ==
    /\ status = [c \in Client |-> "idle"]
    /\ runs = [c \in Client |-> 0]
    /\ outcome = [c \in Client |-> "none"]

\* A user gives a command.
Submit(c) ==
    /\ status[c] # "open"
    /\ \E o \in DOMAIN Reports : op' = [op EXCEPT ![c] = o]
    /\ status' = [status EXCEPT ![c] = "open"]
    /\ runs' = [runs EXCEPT ![c] = 0]
    /\ outcome' = [outcome EXCEPT ![c] = "none"]

\* A daemon carries it out, as the first to do so.
CarryOut(c) ==
    /\ status[c] \in {"open", "killed"}
    /\ op[c] = "relay"
    /\ runs[c] = 0
    /\ runs' = [runs EXCEPT ![c] = 1]
    /\ UNCHANGED <<op, status, outcome>>

\* The command reports.  A relayed answer means that a daemon has carried it
\* out; one that is not relayed adds a run of its own; a failure may hide that
\* a daemon has carried it out.
Report(c, result) ==
    /\ status[c] = "open"
    /\ result \in Reports[op[c]]
    /\ result = "relayed" => runs[c] = 1
    /\ runs' = IF result = "own" THEN [runs EXCEPT ![c] = @ + 1] ELSE runs
    /\ status' = [status EXCEPT ![c] = "idle"]
    /\ outcome' = [outcome EXCEPT ![c] = result]
    /\ UNCHANGED op

\* Its process is killed.
Abandon(c) ==
    /\ status[c] = "open"
    /\ status' = [status EXCEPT ![c] = "killed"]
    /\ UNCHANGED <<op, runs, outcome>>

RelayNext ==
    \E c \in Client :
        \/ Submit(c) \/ CarryOut(c) \/ Abandon(c)
        \/ \E result \in Reports[op[c]] : Report(c, result)

RelaySpec == RelayInit /\ [][RelayNext]_relayVars

=============================================================================

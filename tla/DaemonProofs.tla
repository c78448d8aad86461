---------------------------- MODULE DaemonProofs ----------------------------
(***************************************************************************)
(* Safety of Daemon, for any sets of clients and daemons, any commands and *)
(* any faults.                                                             *)
(***************************************************************************)
EXTENDS Daemon, TLAPS

\* The types of the variables, without the bound on runs: no step can tell
\* on its own that a command is carried out at most twice, so here runs only
\* counts, and RunsAgree below gives the bound.
Typed ==
    /\ path \in Daemon \cup {None, Stale}
    /\ phase \in [Daemon -> Phases]
    /\ listening \in [Daemon -> BOOLEAN]
    /\ timed \in [Daemon -> BOOLEAN]
    /\ cur \in [Daemon -> Client \cup {None}]
    /\ op \in [Client -> AllOps]
    /\ cpc \in [Client -> Steps]
    /\ conn \in [Client -> Daemon \cup {None}]
    /\ link \in [Client -> Links]
    /\ runs \in [Client -> Nat]
    /\ outcome \in [Client -> Outcomes]

\* A listener is open, and a connection served, in certain phases only.
PhasesAgree ==
    \A d \in Daemon :
        /\ path = d => listening[d]
        /\ phase[d] = "closing" => path # d
        /\ listening[d] => phase[d] \in Serving \cup {"leave", "closing"}
        /\ cur[d] # None <=> phase[d] \in {"handle", "run", "reply"}

\* The two ends of a connection agree on it.
LinksAgree ==
    /\ \A d \in Daemon :
          cur[d] # None => conn[cur[d]] = d /\ link[cur[d]] = "accepted"
    /\ \A c \in Client :
          /\ link[c] = "queued" => conn[c] \in Daemon /\ listening[conn[c]]
          /\ link[c] = "accepted" => conn[c] \in Daemon /\ cur[conn[c]] = c
          /\ link[c] \in {"queued", "accepted"} =>
                cpc[c] \in {"ask", "wait", "orphan"}

\* How often a command has been carried out, at each point of its way.
RunsAgree ==
    /\ \A d \in Daemon :
          /\ phase[d] = "handle" => runs[cur[d]] = 0
          /\ phase[d] = "run" => op[cur[d]] = "relay" /\ runs[cur[d]] = 0
          /\ phase[d] = "reply" => op[cur[d]] = "relay" /\ runs[cur[d]] = 1
    /\ \A c \in Client :
          /\ link[c] = "queued" => runs[c] = 0
          /\ link[c] = "answered" /\ cpc[c] # "done" =>
                runs[c] = IF op[c] = "relay" THEN 1 ELSE 0
          /\ op[c] # "relay" => runs[c] = 0
          /\ cpc[c] # "done" => runs[c] \in 0..1 /\ outcome[c] = "none"
          /\ cpc[c] \in {"dial", "probe", "spawn", "await", "redial", "unlink"}
                => runs[c] = 0
          /\ cpc[c] \in {"probe", "spawn", "await"} => op[c] \in {"relay", "start"}
          /\ cpc[c] \in {"redial", "self", "own"} => op[c] = "relay"
          /\ op[c] # "run"
          /\ cpc[c] \in {"ask", "wait"} => op[c] # "start"
          /\ cpc[c] = "unlink" => op[c] = "stop"
          /\ runs[c] \in 0..MaxRuns

IInv == Typed /\ PhasesAgree /\ LinksAgree /\ RunsAgree /\ RunsMatchReport

-----------------------------------------------------------------------------
\* The invariant holds initially.
LEMMA InitOK == Init => IInv
  BY ConstantsOK DEF ConstantsOK, Init, IInv, Typed, PhasesAgree, LinksAgree,
     RunsAgree, RunsMatchReport, Serving, Phases, AllOps, Steps, Links, Outcomes, MaxRuns

\* Every step keeps it.
LEMMA NextOK == IInv /\ [Next]_vars => IInv'
<1> SUFFICES ASSUME IInv, [Next]_vars PROVE IInv'
  OBVIOUS
<1> USE ConstantsOK
    DEF ConstantsOK, IInv, Typed, PhasesAgree, LinksAgree, RunsAgree,
        RunsMatchReport, Serving, Phases, AllOps, Steps, Links, Outcomes, MaxRuns,
        daemonVars, clientVars
<1>1. ASSUME NEW c \in Client, NEW o \in Ops \ {"run"}, Begin(c, o) PROVE IInv'
  BY <1>1 DEF Begin
<1>2. ASSUME NEW c \in Client, Connect(c) PROVE IInv'
  BY <1>2 DEF Connect, Goto, Dialable
<1>3. ASSUME NEW c \in Client, StartIsNoOp(c) PROVE IInv'
  BY <1>3 DEF StartIsNoOp, Finish
<1>4. ASSUME NEW c \in Client, DialMisses(c) PROVE IInv'
  BY <1>4 DEF DialMisses, Goto, Finish
<1>5. ASSUME NEW c \in Client, StopUnlinks(c) PROVE IInv'
  BY <1>5 DEF StopUnlinks, Finish
<1>6. ASSUME NEW c \in Client, StartSucceeds(c) PROVE IInv'
  BY <1>6 DEF StartSucceeds, Finish, Goto
<1>7. ASSUME NEW c \in Client, ProbeMisses(c) PROVE IInv'
  BY <1>7 DEF ProbeMisses, Goto
<1>8. ASSUME NEW c \in Client, StartFails(c) PROVE IInv'
  BY <1>8 DEF StartFails, Finish, Goto
<1>9. ASSUME NEW c \in Client, RedialMisses(c) PROVE IInv'
  BY <1>9 DEF RedialMisses, Goto
<1>10. ASSUME NEW c \in Client, Ask(c) PROVE IInv'
  BY <1>10 DEF Ask, Goto
<1>11. ASSUME NEW c \in Client, TakeAnswer(c) PROVE IInv'
  BY <1>11 DEF TakeAnswer, Finish
<1>12. ASSUME NEW c \in Client, FindBroken(c) PROVE IInv'
  BY <1>12 DEF FindBroken, Finish, Goto
<1>13. ASSUME NEW c \in Client, OpenOwn(c) PROVE IInv'
  BY <1>13 DEF OpenOwn, Finish, Goto
<1>14. ASSUME NEW c \in Client, RunOwn(c) PROVE IInv'
  BY <1>14 DEF RunOwn, Finish
<1>15. ASSUME NEW c \in Client, KillClient(c) PROVE IInv'
  BY <1>15 DEF KillClient
<1>16. ASSUME NEW c \in Client, NEW d \in Daemon, Spawn(c, d) PROVE IInv'
  BY <1>16 DEF Spawn, Goto
<1>17. ASSUME NEW c \in Client, NEW d \in Daemon, Accept(d, c) PROVE IInv'
  BY <1>17 DEF Accept
<1>18. ASSUME NEW d \in Daemon, BootProbe(d) PROVE IInv'
  BY <1>18 DEF BootProbe
<1>19. ASSUME NEW d \in Daemon, BootFails(d) PROVE IInv'
  BY <1>19 DEF BootFails, Exit
<1>20. ASSUME NEW d \in Daemon, BootUnlink(d) PROVE IInv'
  BY <1>20 DEF BootUnlink
<1>21. ASSUME NEW d \in Daemon, OpenSession(d) PROVE IInv'
  BY <1>21 DEF OpenSession
<1>22. ASSUME NEW d \in Daemon, Bind(d) PROVE IInv'
  <2>1. /\ phase[d] = "bind" /\ ~listening[d] /\ cur[d] = None /\ path # d
        /\ UNCHANGED <<timed, cur, op, cpc, conn, link, runs, outcome>>
    BY <1>22 DEF Bind
  <2>2. CASE /\ path' = d
             /\ listening' = [listening EXCEPT ![d] = TRUE]
             /\ phase' = [phase EXCEPT ![d] = "accept"]
    <3>1. Typed' /\ PhasesAgree'
      BY <2>1, <2>2
    <3>2. LinksAgree' /\ RunsAgree' /\ RunsMatchReport'
      BY <2>1, <2>2
    <3> QED
      BY <3>1, <3>2
  <2>3. CASE /\ phase' = [phase EXCEPT ![d] = "closing"]
             /\ UNCHANGED <<path, listening>>
    BY <2>1, <2>3
  <2> QED
    BY <1>22, <2>2, <2>3 DEF Bind
<1>23. ASSUME NEW d \in Daemon, AcceptFails(d) PROVE IInv'
  BY <1>23 DEF AcceptFails
<1>24. ASSUME NEW d \in Daemon, DecodeFails(d) PROVE IInv'
  BY <1>24 DEF DecodeFails, EndConnection
<1>25. ASSUME NEW d \in Daemon, Handle(d) PROVE IInv'
  BY <1>25 DEF Handle, EndConnection
<1>26. ASSUME NEW d \in Daemon, RunRelayed(d) PROVE IInv'
  BY <1>26 DEF RunRelayed
<1>27. ASSUME NEW d \in Daemon, Reply(d) PROVE IInv'
  BY <1>27 DEF Reply, EndConnection
<1>28. ASSUME NEW d \in Daemon, StopCloses(d) PROVE IInv'
  BY <1>28 DEF StopCloses, CloseListener
<1>29. ASSUME NEW d \in Daemon, Leave(d) PROVE IInv'
  BY <1>29 DEF Leave
<1>30. ASSUME NEW d \in Daemon, CloseSession(d) PROVE IInv'
  BY <1>30 DEF CloseSession, Exit
<1>31. ASSUME NEW d \in Daemon, IdleExpires(d) PROVE IInv'
  BY <1>31 DEF IdleExpires, CloseListener
<1>32. ASSUME NEW d \in Daemon, RunInForeground(d) PROVE IInv'
  BY <1>32 DEF RunInForeground
<1>33. ASSUME NEW d \in Daemon, Signalled(d) PROVE IInv'
  BY <1>33 DEF Signalled, CloseListener
<1>34. ASSUME NEW d \in Daemon, KillDaemon(d) PROVE IInv'
  BY <1>34 DEF KillDaemon, Exit
<1>35. CASE UNCHANGED vars
  BY <1>35 DEF vars
<1> QED
  BY <1>1, <1>2, <1>3, <1>4, <1>5, <1>6, <1>7, <1>8, <1>9, <1>10, <1>11, <1>12, <1>13, <1>14, <1>15, <1>16, <1>17, <1>18, <1>19, <1>20, <1>21, <1>22, <1>23, <1>24, <1>25, <1>26, <1>27, <1>28, <1>29, <1>30, <1>31, <1>32, <1>33, <1>34, <1>35 DEF Next, ClientStep, DaemonStep, Environment

-----------------------------------------------------------------------------
\* The invariant, which the theorems below only weaken.
LEMMA Invariant == Spec => []IInv
  BY InitOK, NextOK, PTL DEF Spec

\* Every variable of Daemon keeps its type; that no command is carried out
\* more than MaxRuns times is part of it.
THEOREM TypeCorrect == Spec => []TypeOK
<1>1. IInv => TypeOK
  BY DEF IInv, Typed, RunsAgree, TypeOK
<1> QED
  BY <1>1, Invariant, PTL

\* No daemon that exits by itself leaves its socket file behind, whatever
\* stop requests, signals and idle timers have met in it (runDaemon,
\* serveDaemon).
THEOREM SocketServed == Spec => []SocketIsServed
<1>1. IInv => SocketIsServed
  BY DEF IInv, PhasesAgree, SocketIsServed
<1> QED
  BY <1>1, Invariant, PTL

\* A command that reads its reply without a deadline has a live daemon at the
\* other end of its connection (forwardToDaemon, serveDaemonConnection).
THEOREM WaitersServed == Spec => []WaitersHaveServer
<1>1. IInv => WaitersHaveServer
  <2> SUFFICES ASSUME IInv, NEW c \in Client, link[c] = "accepted"
               PROVE phase[conn[c]] \in {"handle", "run", "reply"}
    BY DEF IInv, LinksAgree, WaitersHaveServer
  <2>1. conn[c] \in Daemon /\ cur[conn[c]] = c /\ c # None
    BY ConstantsOK DEF ConstantsOK, IInv, LinksAgree
  <2> QED
    BY <2>1 DEF IInv, PhasesAgree
<1> QED
  BY <1>1, Invariant, PTL

\* The outcome a command reports tells how often it has been carried out: a
\* relayed answer means once, falling back at most twice (forwardToDaemon).
THEOREM ReportsTellRuns == Spec => []RunsMatchReport
<1>1. IInv => RunsMatchReport
  BY DEF IInv
<1> QED
  BY <1>1, Invariant, PTL

-----------------------------------------------------------------------------
(* Daemon implements Relay: a run by a daemon carries a command out, the     *)
(* end of a command reports, everything else is a stutter.                   *)

Statuses == [c \in Client |-> Status(c)]

Stutter == UNCHANGED <<op, Statuses, runs, outcome>>

\* A command that goes on is still open.
LEMMA GoesOn ==
    ASSUME Typed, NEW c \in Client, NEW step \in Steps \ {"done", "orphan"},
           cpc[c] \notin {"done", "orphan"}, Goto(c, step)
    PROVE  Statuses' = Statuses
<1>1. \A x \in Client : Status(x)' = Status(x)
  BY DEF Typed, Goto, Status
<1> QED
  BY <1>1 DEF Statuses

\* A command that does nothing for Discord itself reports.
LEMMA Reported ==
    ASSUME Typed, NEW c \in Client, cpc[c] \notin {"done", "orphan"},
           NEW result \in Promise!Reports[op[c]], Finish(c, result), result # "own",
           result = "relayed" => runs[c] = 1, UNCHANGED <<op, runs>>
    PROVE  Promise!RelayNext
<1>1. \A x \in Client : Status(x)' = IF x = c THEN "idle" ELSE Status(x)
  BY DEF Typed, Finish, Status
<1>2. Statuses' = [Statuses EXCEPT ![c] = "idle"] /\ Statuses[c] = "open"
  BY <1>1 DEF Statuses, Status
<1>3. Promise!Report(c, result)
  BY <1>2 DEF Promise!Report, Statuses, Finish
<1> QED
  BY <1>3 DEF Promise!RelayNext

LEMMA RelayStep == IInv /\ [Next]_vars => [Promise!RelayNext]_(Promise!relayVars)
<1> SUFFICES ASSUME IInv, [Next]_vars PROVE Promise!RelayNext \/ Stutter
  BY DEF Promise!relayVars, Stutter, Statuses
<1>0. Typed /\ LinksAgree /\ RunsAgree /\ PhasesAgree
  BY DEF IInv
<1> USE DEF Steps
<1>1. ASSUME NEW c \in Client, NEW o \in Ops \ {"run"}, Begin(c, o) PROVE Promise!RelayNext
  <2>1. \A x \in Client : Status(x)' = IF x = c THEN "open" ELSE Status(x)
    BY <1>0, <1>1 DEF Typed, Begin, Status
  <2>2. Statuses' = [Statuses EXCEPT ![c] = "open"] /\ Statuses[c] # "open"
    BY <1>1, <2>1 DEF Statuses, Status, Begin
  <2>3. o \in DOMAIN Promise!Reports
    BY ConstantsOK DEF ConstantsOK, AllOps, Promise!Reports
  <2>4. Promise!Submit(c)
    BY <1>1, <2>2, <2>3 DEF Begin, Promise!Submit, Statuses
  <2> QED
    BY <2>4 DEF Promise!RelayNext
<1>2. ASSUME NEW c \in Client, Connect(c) PROVE Stutter
  BY <1>0, <1>2, GoesOn DEF Connect, Stutter
<1>3. ASSUME NEW c \in Client, StartIsNoOp(c) PROVE Promise!RelayNext
  <2>1. "already" \in Promise!Reports[op[c]]
    BY <1>3 DEF StartIsNoOp, Promise!Reports
  <2> QED
    BY <1>0, <1>3, <2>1, Reported DEF StartIsNoOp
<1>4. ASSUME NEW c \in Client, DialMisses(c) PROVE Promise!RelayNext \/ Stutter
  <2>1. ASSUME NEW step \in {"self", "probe", "unlink"}, Goto(c, step), UNCHANGED outcome
        PROVE  Stutter
    BY <1>0, <1>4, <2>1, GoesOn DEF DialMisses, Stutter
  <2>2. ASSUME op[c] = "status", Finish(c, "absent") PROVE Promise!RelayNext
    <3>1. "absent" \in Promise!Reports[op[c]]
      BY <2>2 DEF Promise!Reports
    <3> QED
      BY <1>0, <1>4, <2>2, <3>1, Reported DEF DialMisses
  <2> QED
    BY <1>4, <2>1, <2>2 DEF DialMisses
<1>5. ASSUME NEW c \in Client, StopUnlinks(c) PROVE Promise!RelayNext
  <2>1. "absent" \in Promise!Reports[op[c]]
    BY <1>0, <1>5 DEF StopUnlinks, RunsAgree, Promise!Reports
  <2> QED
    BY <1>0, <1>5, <2>1, Reported DEF StopUnlinks
<1>6. ASSUME NEW c \in Client, StartSucceeds(c) PROVE Promise!RelayNext \/ Stutter
  <2>1. CASE op[c] = "start"
    <3>1. "started" \in Promise!Reports[op[c]]
      BY <2>1 DEF Promise!Reports
    <3> QED
      BY <1>0, <1>6, <2>1, <3>1, Reported DEF StartSucceeds
  <2>2. CASE op[c] # "start"
    BY <1>0, <1>6, <2>2, GoesOn DEF StartSucceeds, Stutter
  <2> QED
    BY <2>1, <2>2
<1>7. ASSUME NEW c \in Client, ProbeMisses(c) PROVE Stutter
  BY <1>0, <1>7, GoesOn DEF ProbeMisses, Stutter
<1>8. ASSUME NEW c \in Client, StartFails(c) PROVE Promise!RelayNext \/ Stutter
  <2>1. CASE op[c] = "start"
    <3>1. "failed" \in Promise!Reports[op[c]]
      BY <2>1 DEF Promise!Reports
    <3> QED
      BY <1>0, <1>8, <2>1, <3>1, Reported DEF StartFails
  <2>2. CASE op[c] # "start"
    BY <1>0, <1>8, <2>2, GoesOn DEF StartFails, Stutter
  <2> QED
    BY <2>1, <2>2
<1>9. ASSUME NEW c \in Client, RedialMisses(c) PROVE Stutter
  BY <1>0, <1>9, GoesOn DEF RedialMisses, Stutter
<1>10. ASSUME NEW c \in Client, Ask(c) PROVE Stutter
  BY <1>0, <1>10, GoesOn DEF Ask, Stutter
<1>11. ASSUME NEW c \in Client, TakeAnswer(c) PROVE Promise!RelayNext
  <2> DEFINE result == CASE op[c] = "relay" -> "relayed"
                         [] op[c] = "stop" -> "stopped"
                         [] OTHER -> "running"
  <2>1. op[c] \in {"relay", "stop", "status"} /\ (op[c] = "relay" => runs[c] = 1)
    BY <1>0, <1>11 DEF TakeAnswer, RunsAgree, Typed, AllOps
  <2>2. /\ result \in Promise!Reports[op[c]] /\ result # "own"
        /\ result = "relayed" => runs[c] = 1
    BY <2>1 DEF Promise!Reports
  <2>3. Finish(c, result) /\ cpc[c] = "wait" /\ UNCHANGED <<op, runs>>
    BY <1>11 DEF TakeAnswer
  <2> HIDE DEF result
  <2> QED
    BY <1>0, <2>2, <2>3, Reported
<1>12. ASSUME NEW c \in Client, FindBroken(c) PROVE Promise!RelayNext \/ Stutter
  <2>1. ASSUME Goto(c, "self"), UNCHANGED outcome PROVE Stutter
    BY <1>0, <1>12, <2>1, GoesOn DEF FindBroken, Stutter
  <2>2. ASSUME op[c] = "stop", Finish(c, "stopped") PROVE Promise!RelayNext
    <3>1. "stopped" \in Promise!Reports[op[c]]
      BY <2>2 DEF Promise!Reports
    <3> QED
      BY <1>0, <1>12, <2>2, <3>1, Reported DEF FindBroken
  <2>3. ASSUME op[c] = "status", Finish(c, "failed") PROVE Promise!RelayNext
    <3>1. "failed" \in Promise!Reports[op[c]]
      BY <2>3 DEF Promise!Reports
    <3> QED
      BY <1>0, <1>12, <2>3, <3>1, Reported DEF FindBroken
  <2> QED
    BY <1>12, <2>1, <2>2, <2>3 DEF FindBroken
<1>13. ASSUME NEW c \in Client, OpenOwn(c) PROVE Promise!RelayNext \/ Stutter
  <2>1. ASSUME Goto(c, "own"), UNCHANGED outcome PROVE Stutter
    BY <1>0, <1>13, <2>1, GoesOn DEF OpenOwn, Stutter
  <2>2. ASSUME Finish(c, "failed") PROVE Promise!RelayNext
    <3>1. "failed" \in Promise!Reports[op[c]]
      BY <1>0, <1>13 DEF OpenOwn, RunsAgree, Promise!Reports
    <3> QED
      BY <1>0, <1>13, <2>2, <3>1, Reported DEF OpenOwn
  <2> QED
    BY <1>13, <2>1, <2>2 DEF OpenOwn
<1>14. ASSUME NEW c \in Client, RunOwn(c) PROVE Promise!RelayNext
  <2>1. "own" \in Promise!Reports[op[c]]
    BY <1>0, <1>14 DEF RunOwn, RunsAgree, Promise!Reports
  <2>2. \A x \in Client : Status(x)' = IF x = c THEN "idle" ELSE Status(x)
    BY <1>0, <1>14 DEF Typed, RunOwn, Finish, Status
  <2>3. Statuses' = [Statuses EXCEPT ![c] = "idle"] /\ Statuses[c] = "open"
    BY <1>14, <2>2 DEF Statuses, Status, RunOwn
  <2>4. Promise!Report(c, "own")
    BY <1>14, <2>1, <2>3 DEF RunOwn, Finish, Promise!Report, Statuses
  <2> QED
    BY <2>1, <2>4 DEF Promise!RelayNext
<1>15. ASSUME NEW c \in Client, KillClient(c) PROVE Promise!RelayNext
  <2>1. \A x \in Client : Status(x)' = IF x = c THEN "killed" ELSE Status(x)
    BY <1>0, <1>15 DEF Typed, KillClient, Status
  <2>2. Statuses' = [Statuses EXCEPT ![c] = "killed"] /\ Statuses[c] = "open"
    BY <1>15, <2>1 DEF Statuses, Status, KillClient
  <2>3. Promise!Abandon(c)
    BY <1>15, <2>2 DEF KillClient, Promise!Abandon, Statuses
  <2> QED
    BY <2>3 DEF Promise!RelayNext
<1>16. ASSUME NEW c \in Client, NEW d \in Daemon, Spawn(c, d) PROVE Stutter
  BY <1>0, <1>16, GoesOn DEF Spawn, Stutter
<1>17. ASSUME UNCHANGED <<op, cpc, runs, outcome>> PROVE Stutter
  BY <1>17 DEF Stutter, Statuses, Status
\* A daemon runs a command only while its client waits for it or is dead.
<1>18. ASSUME NEW d \in Daemon, RunRelayed(d) PROVE Promise!RelayNext
  <2> DEFINE c == cur[d]
  <2>1. c \in Client /\ conn[c] = d /\ link[c] = "accepted"
    BY <1>0, <1>18, ConstantsOK DEF RunRelayed, PhasesAgree, LinksAgree, Typed, ConstantsOK
  <2>2. cpc[c] \in {"ask", "wait", "orphan"} /\ op[c] = "relay" /\ runs[c] = 0
    BY <1>0, <1>18, <2>1 DEF RunRelayed, LinksAgree, RunsAgree
  <2>3. Statuses[c] \in {"open", "killed"} /\ Statuses' = Statuses
    BY <1>18, <2>1, <2>2 DEF RunRelayed, Statuses, Status
  <2>4. runs' = [runs EXCEPT ![c] = 1]
    BY <1>0, <1>18, <2>1, <2>2 DEF RunRelayed, Typed
  <2>5. Promise!CarryOut(c)
    BY <1>18, <2>2, <2>3, <2>4 DEF RunRelayed, Promise!CarryOut, Statuses
  <2> QED
    BY <2>1, <2>5 DEF Promise!RelayNext
<1>19. ASSUME NEW d \in Daemon,
              \/ BootProbe(d) \/ BootFails(d) \/ BootUnlink(d) \/ OpenSession(d) \/ Bind(d)
              \/ AcceptFails(d) \/ DecodeFails(d) \/ Handle(d) \/ Reply(d)
              \/ StopCloses(d) \/ Leave(d) \/ CloseSession(d) \/ IdleExpires(d)
              \/ RunInForeground(d) \/ Signalled(d) \/ KillDaemon(d)
              \/ \E c \in Client : Accept(d, c)
       PROVE  UNCHANGED <<op, cpc, runs, outcome>>
  BY <1>19 DEF BootProbe, BootFails, BootUnlink, OpenSession, Bind, AcceptFails,
               DecodeFails, Handle, Reply, StopCloses, Leave, CloseSession, IdleExpires,
               RunInForeground, Signalled, KillDaemon, Accept, clientVars
<1>20. CASE UNCHANGED vars
  BY <1>17, <1>20 DEF vars, clientVars
<1> QED
  BY <1>1, <1>2, <1>3, <1>4, <1>5, <1>6, <1>7, <1>8, <1>9, <1>10, <1>11, <1>12, <1>13,
     <1>14, <1>15, <1>16, <1>17, <1>18, <1>19, <1>20
  DEF Next, ClientStep, DaemonStep, Environment

\* The socket, its connections and the daemons behind it implement the promise
\* that a command is carried out before it reports, by a daemon at most once,
\* and reports once (forwardToDaemon, serveDaemonConnection).
THEOREM Implements == Spec => ImplementsRelay
<1>1. Init => Promise!RelayInit
  BY DEF Init, Promise!RelayInit, Status
<1> QED
  BY <1>1, RelayStep, Invariant, PTL DEF Spec, ImplementsRelay, Promise!RelaySpec

=============================================================================

------------------------------ MODULE Session -------------------------------
(***************************************************************************)
(* Whose gateway session answers unread and read, and what it may write    *)
(* (internal/app/session.go with daemon.go, client.go and Resolve).  The   *)
(* daemon opens a session for one account and keeps the scope the account  *)
(* had then; it runs each relayed command as the command line would, with  *)
(* its own environment, and commands with different accounts reach it      *)
(* while the registry changes.                                             *)
(*                                                                         *)
(* How the daemon comes and goes is the module Daemon, how the registry is *)
(* stored the module Accounts: here both change in single steps.  There is *)
(* one channel, which each account has read or not.  All accounts are user *)
(* accounts; bots are refused before a session is opened.                  *)
(***************************************************************************)
EXTENDS Naturals, FiniteSets

CONSTANTS
    Process,    \* command processes
    Server,     \* the thread of the daemon that runs relayed commands
    Account,
    Line,       \* command lines: op, flag (--account), env (DISCORD_AXI_ACCOUNT)
    AutoStart,  \* the processes that may start a daemon
    Faults,     \* a subset of {"openFails", "noChannel"}
    MaxChanges, \* bound: how often the registry and the daemon change
    None

Thread == Process \cup {Server}

CommandLine == [op : {"unread", "read"}, flag : Account \cup {None},
                env : Account \cup {None}]

\* Credentials, and the client built from them: readOnlyDriver lets it write or not.
Credentials == [account : Account, write : BOOLEAN]

ASSUME ConstantsOK ==
    /\ Server \notin Process
    /\ None \notin Account \cup Thread \cup CommandLine \cup Credentials
    /\ Line \subseteq CommandLine
    /\ MaxChanges \in Nat

VARIABLES
    scope,     \* the scope of each stored account, None for one not stored
    default,   \* the default account
    unread,    \* the accounts for which the channel is unread
    daemon,    \* the session of the daemon and its environment
    serving,   \* the process whose command the daemon runs
    pc,        \* the place of each thread
    line,      \* the command line it runs
    cred,      \* the credentials it has resolved
    target,    \* the account it starts a daemon for
    session,   \* the session it uses
    verdict,   \* what it has reported
    answered,  \* the account from whose session the report comes
    acks,      \* acknowledgements that the sessions have yet to send
    acked,     \* acknowledgements that Discord has received
    could,     \* the accounts with the scope write at some time of a command
    opened,    \* the processes for which a session was opened
    ever,      \* the accounts that have ever had the scope write
    changes    \* how often the registry or the daemon has changed

registry == <<scope, default>>
threads == <<pc, line, cred, target, session, verdict, answered>>
history == <<could, opened, ever>>
vars == <<registry, unread, daemon, serving, threads, acks, acked, history, changes>>

NoDaemon == [session |-> None, env |-> None]

Writers == {a \in Account : scope[a] = "write"}

-----------------------------------------------------------------------------
\* Resolve: --account, then the environment, then the default; None is an error.
Requested(l) ==
    IF l.flag # None THEN l.flag ELSE IF l.env # None THEN l.env ELSE default

Resolvable(l) == Requested(l) # None /\ scope[Requested(l)] # None

\* The scope of an account as a client built now will apply it.
Resolved(a) == [account |-> a, write |-> scope[a] = "write"]

Goto(t, place) == pc' = [pc EXCEPT ![t] = place]

\* A one-shot session is closed when its command returns, and takes along what
\* it has not sent; the daemon's stays.
Report(t, v) ==
    /\ verdict' = [verdict EXCEPT ![t] = v]
    /\ Goto(t, "done")
    /\ acks' = IF t = Server THEN acks ELSE {k \in acks : k.via # t}

\* A command is started: unread asks the daemon at once, read looks at its own
\* scope first.
Begin(p, l) ==
    /\ pc[p] = "idle"
    /\ line' = [line EXCEPT ![p] = l]
    /\ Goto(p, IF l.op = "read" THEN "check" ELSE "forward")
    /\ could' = [could EXCEPT ![p] = Writers]
    /\ UNCHANGED <<registry, unread, daemon, serving, cred, target, session, verdict, answered,
                   acks, acked, opened, ever, changes>>

\* Mutant of Resolve: read does not ask for the scope.
ResolveOnly(t) ==
    LET place == IF pc[t] = "check" THEN "forward" ELSE "open"
    IN  /\ pc[t] \in {"check", "resolve"}
        /\ IF ~Resolvable(line[t])
           THEN Report(t, "NOT_AUTHENTICATED") /\ UNCHANGED cred
           ELSE /\ cred' = [cred EXCEPT ![t] = Resolved(Requested(line[t]))]
                /\ Goto(t, place)
                /\ UNCHANGED <<verdict, acks>>
        /\ UNCHANGED <<registry, unread, daemon, serving, line, target, session, answered, acked,
                       history, changes>>

\* Mutant of Resolve: the daemon trusts the command to have looked at the scope.
ResolveTrusting(t) ==
    LET mine == Resolved(Requested(line[t]))
        place == IF pc[t] = "check" THEN "forward" ELSE "open"
    IN  /\ pc[t] \in {"check", "resolve"}
        /\ IF ~Resolvable(line[t])
           THEN Report(t, "NOT_AUTHENTICATED") /\ UNCHANGED cred
           ELSE IF line[t].op = "read" /\ ~mine.write /\ t # Server
           THEN Report(t, "READ_ONLY") /\ UNCHANGED cred
           ELSE /\ cred' = [cred EXCEPT ![t] = mine]
                /\ Goto(t, place)
                /\ UNCHANGED <<verdict, acks>>
        /\ UNCHANGED <<registry, unread, daemon, serving, line, target, session, answered, acked,
                       history, changes>>

\* Resolve and, for read, RequireWrite: in the command's own process before it
\* asks the daemon, and in the process that carries the command out.
Resolve(t) ==
    LET mine == Resolved(Requested(line[t]))
        place == IF pc[t] = "check" THEN "forward" ELSE "open"
    IN  /\ pc[t] \in {"check", "resolve"}
        /\ IF ~Resolvable(line[t])
           THEN Report(t, "NOT_AUTHENTICATED") /\ UNCHANGED cred
           ELSE IF line[t].op = "read" /\ ~mine.write
           THEN Report(t, "READ_ONLY") /\ UNCHANGED cred
           ELSE /\ cred' = [cred EXCEPT ![t] = mine]
                /\ Goto(t, place)
                /\ UNCHANGED <<verdict, acks>>
        /\ UNCHANGED <<registry, unread, daemon, serving, line, target, session, answered, acked,
                       history, changes>>

\* Mutant of Alone: every command is taken to have looked at its account.
AloneAtOnce(p) == Goto(p, "open")

\* The command has to do its work itself.
Alone(p) == Goto(p, IF line[p].op = "read" THEN "open" ELSE "resolve")

\* A daemon listens, or one can be started for the account of the arguments.
Forward(p) ==
    /\ pc[p] = "forward"
    /\ \/ daemon # NoDaemon /\ Goto(p, "relayed") /\ UNCHANGED target
       \/ /\ daemon = NoDaemon /\ p \in AutoStart /\ Resolvable(line[p])
          /\ target' = [target EXCEPT ![p] = Requested(line[p])]
          /\ Goto(p, "start")
       \/ /\ daemon = NoDaemon /\ (p \notin AutoStart \/ ~Resolvable(line[p]))
          /\ Alone(p)
          /\ UNCHANGED target
    /\ UNCHANGED <<registry, unread, daemon, serving, line, cred, session, verdict,
                   answered, acks, acked, history, changes>>

\* The child resolves the account it is given and opens its session, in the
\* environment of the command that has started it.
StartDaemon(p) ==
    /\ pc[p] = "start"
    /\ daemon = NoDaemon /\ scope[target[p]] # None
    /\ daemon' = [session |-> Resolved(target[p]), env |-> line[p].env]
    /\ opened' = opened \cup {p}
    /\ Goto(p, "relayed")
    /\ UNCHANGED <<registry, unread, serving, line, cred, target, session, verdict, answered,
                   acks, acked, could, ever, changes>>

\* Another daemon has come up, and the child finds it listening.
FindDaemon(p) ==
    /\ pc[p] = "start" /\ daemon # NoDaemon
    /\ Goto(p, "relayed")
    /\ UNCHANGED <<registry, unread, daemon, serving, line, cred, target, session, verdict,
                   answered, acks, acked, history, changes>>

StartFails(p) ==
    /\ pc[p] = "start" /\ daemon = NoDaemon
    /\ "openFails" \in Faults \/ scope[target[p]] = None
    /\ Alone(p)
    /\ UNCHANGED <<registry, unread, daemon, serving, line, cred, target, session, verdict,
                   answered, acks, acked, history, changes>>

\* The daemon is gone when the command is to be relayed.
DaemonGone(p) ==
    /\ pc[p] = "relayed" /\ daemon = NoDaemon
    /\ Alone(p)
    /\ UNCHANGED <<registry, unread, daemon, serving, line, cred, target, session, verdict,
                   answered, acks, acked, history, changes>>

\* The daemon takes the next request: it runs the arguments through App.Run.
Serve(p) ==
    /\ pc[p] = "relayed" /\ daemon # NoDaemon /\ serving = None
    /\ serving' = p
    /\ line' = [line EXCEPT ![Server] = [line[p] EXCEPT !.env = daemon.env]]
    /\ Goto(Server, "resolve")
    /\ UNCHANGED <<registry, unread, daemon, cred, target, session, verdict, answered,
                   acks, acked, history, changes>>

\* The reply carries output and exit code; the command prints them as its own.
Reply(p) ==
    /\ serving = p /\ pc[Server] = "done"
    /\ serving' = None
    /\ pc' = [pc EXCEPT ![p] = "done", ![Server] = "idle"]
    /\ verdict' = [verdict EXCEPT ![p] = verdict[Server]]
    /\ answered' = [answered EXCEPT ![p] = answered[Server]]
    /\ UNCHANGED <<registry, unread, daemon, line, cred, target, session,
                   acks, acked, history, changes>>

-----------------------------------------------------------------------------
\* Mutant of Open: the session of the daemon may do what the command may.
OpenAsCommand(t) ==
    /\ pc[t] = "open"
    /\ session' = [session EXCEPT ![t] =
                      IF t = Server THEN [daemon.session EXCEPT !.write = cred[t].write] ELSE cred[t]]
    /\ opened' = IF t = Server THEN opened ELSE opened \cup {t}
    /\ Goto(t, "work")
    /\ UNCHANGED <<registry, unread, daemon, serving, line, cred, target, verdict,
                   answered, acks, acked, could, ever, changes>>

\* stateFor: the daemon's open session, or one of the command's own.
Open(t) ==
    /\ pc[t] = "open"
    /\ session' = [session EXCEPT ![t] = IF t = Server THEN daemon.session ELSE cred[t]]
    /\ opened' = IF t = Server THEN opened ELSE opened \cup {t}
    /\ Goto(t, "work")
    /\ UNCHANGED <<registry, unread, daemon, serving, line, cred, target, verdict,
                   answered, acks, acked, could, ever, changes>>

\* A session of one's own cannot be opened, or read does not find its channel.
Fails(t) ==
    /\ \/ "openFails" \in Faults /\ pc[t] = "open" /\ t # Server
       \/ "noChannel" \in Faults /\ pc[t] = "work" /\ line[t].op = "read"
    /\ Report(t, "failed")
    /\ UNCHANGED <<registry, unread, daemon, serving, line, cred, target, session, answered,
                   acked, history, changes>>

\* collectUnread lists what is unread for the account of the session.
List(t) ==
    /\ pc[t] = "work" /\ line[t].op = "unread"
    /\ Report(t, "listed")
    /\ answered' = [answered EXCEPT ![t] = session[t].account]
    /\ UNCHANGED <<registry, unread, daemon, serving, line, cred, target, session,
                   acked, history, changes>>

\* ChannelIsUnread finds nothing to do.
AlreadyRead(t) ==
    /\ pc[t] = "work" /\ line[t].op = "read"
    /\ session[t].account \notin unread
    /\ Report(t, "noop")
    /\ answered' = [answered EXCEPT ![t] = session[t].account]
    /\ UNCHANGED <<registry, unread, daemon, serving, line, cred, target, session,
                   acked, history, changes>>

\* MarkRead leaves the acknowledgement to the session, which sends it when the
\* pacer lets it, and read sleeps.
MarkRead(t) ==
    /\ pc[t] = "work" /\ line[t].op = "read"
    /\ session[t].account \in unread
    /\ acks' = acks \cup {[by |-> IF t = Server THEN serving ELSE t, via |-> t,
                            as |-> cred[t].account, session |-> session[t]]}
    /\ Goto(t, "sleep")
    /\ UNCHANGED <<registry, unread, daemon, serving, line, cred, target, session, verdict,
                   answered, acked, history, changes>>

\* Half a second later the command reports success.
Wake(t) ==
    /\ pc[t] = "sleep"
    /\ Report(t, "marked")
    /\ answered' = [answered EXCEPT ![t] = session[t].account]
    /\ UNCHANGED <<registry, unread, daemon, serving, line, cred, target, session,
                   acked, history, changes>>

\* Mutant of SendAck: nothing holds back the requests of a session.
SendAnyAck(k) ==
    /\ k \in acks
    /\ acks' = acks \ {k}
    /\ acked' = acked \cup {k}
    /\ unread' = unread \ {k.session.account}
    /\ UNCHANGED <<registry, daemon, serving, threads, history, changes>>

\* The session sends an acknowledgement, unless its driver refuses the write,
\* which nobody hears of.
SendAck(k) ==
    /\ k \in acks
    /\ acks' = acks \ {k}
    /\ IF k.session.write
       THEN acked' = acked \cup {k} /\ unread' = unread \ {k.session.account}
       ELSE UNCHANGED <<acked, unread>>
    /\ UNCHANGED <<registry, daemon, serving, threads, history, changes>>

-----------------------------------------------------------------------------
(***************************************************************************)
(* The surroundings.                                                       *)
(***************************************************************************)
Active(p) == pc[p] \notin {"idle", "done"}

\* login, logout and auth scope give an account a scope or remove it; login of
\* the first account and logout of the default one choose a default.
SetScope(a, s) ==
    /\ scope[a] # s
    /\ scope' = [scope EXCEPT ![a] = s]
    /\ IF s = None /\ default = a
       THEN default' \in {b \in Account : scope'[b] # None}
                            \cup {x \in {None} : \A b \in Account : scope'[b] = None}
       ELSE default' = IF default = None /\ s # None THEN a ELSE default
    /\ IF s = "write"
       THEN /\ ever' = ever \cup {a}
            /\ could' = [p \in Process |-> IF Active(p) THEN could[p] \cup {a} ELSE could[p]]
       ELSE UNCHANGED <<ever, could>>
    /\ UNCHANGED <<unread, daemon, serving, threads, acks, opened>>

\* auth use.
Use(a) ==
    /\ scope[a] # None /\ default # a
    /\ default' = a
    /\ UNCHANGED <<scope, unread, daemon, serving, threads, acks, history>>

\* The daemon exits or dies, with what its session has not sent; a command it
\* was running falls back on its own devices.
StopDaemon ==
    /\ daemon # NoDaemon
    /\ daemon' = NoDaemon
    /\ serving' = None
    /\ pc' = [t \in Thread |-> IF t = Server THEN "idle"
                               ELSE IF t # serving THEN pc[t]
                               ELSE IF line[t].op = "read" THEN "open" ELSE "resolve"]
    /\ acks' = {k \in acks : k.via # Server}
    /\ UNCHANGED <<registry, unread, line, cred, target, session, verdict, answered, history>>

\* Somebody writes to the channel.
Arrive(a) ==
    /\ a \notin unread
    /\ unread' = unread \cup {a}
    /\ UNCHANGED <<registry, daemon, serving, threads, acks, history>>

Environment ==
    /\ changes < MaxChanges /\ changes' = changes + 1
    /\ \/ \E a \in Account : \/ Use(a) \/ Arrive(a)
                             \/ \E s \in {"read", "write", None} : SetScope(a, s)
       \/ StopDaemon
    /\ UNCHANGED acked

-----------------------------------------------------------------------------
Init ==
    /\ scope \in [Account -> {"read", "write"}]
    /\ default \in Account
    /\ unread = Account
    /\ daemon = NoDaemon /\ serving = None
    /\ pc = [t \in Thread |-> "idle"]
    /\ line = [t \in Thread |-> None]
    /\ cred = [t \in Thread |-> None]
    /\ target = [p \in Process |-> None]
    /\ session = [t \in Thread |-> None]
    /\ verdict = [t \in Thread |-> None]
    /\ answered = [t \in Thread |-> None]
    /\ acks = {} /\ acked = {}
    /\ could = [p \in Process |-> {}]
    /\ opened = {}
    /\ ever = Writers
    /\ changes = 0

Work(t) == Resolve(t) \/ Open(t) \/ Fails(t) \/ List(t) \/ AlreadyRead(t) \/ MarkRead(t) \/ Wake(t)

Relay(p) ==
    \/ Forward(p) \/ StartDaemon(p) \/ FindDaemon(p) \/ StartFails(p) \/ DaemonGone(p)
    \/ Serve(p) \/ Reply(p)

Next ==
    \/ \E p \in Process : Relay(p) \/ \E l \in Line : Begin(p, l)
    \/ \E t \in Thread : Work(t)
    \/ \E k \in acks : SendAck(k)
    \/ Environment

Spec == Init /\ [][Next]_vars

-----------------------------------------------------------------------------
(***************************************************************************)
(* Safety.                                                                 *)
(***************************************************************************)
Ack == [by : Process, via : Thread, as : Account, session : Credentials]

Typed ==
    /\ scope \in [Account -> {"read", "write", None}]
    /\ default \in Account \cup {None}
    /\ unread \subseteq Account
    /\ daemon \in [session : Credentials, env : Account \cup {None}] \cup {NoDaemon}
    /\ serving \in Process \cup {None}
    /\ pc \in [Thread -> {"idle", "check", "forward", "start", "relayed", "resolve",
                          "open", "work", "sleep", "done"}]
    /\ line \in [Thread -> CommandLine \cup {None}]
    /\ cred \in [Thread -> Credentials \cup {None}]
    /\ target \in [Process -> Account \cup {None}]
    /\ session \in [Thread -> Credentials \cup {None}]
    /\ verdict \in [Thread -> {"NOT_AUTHENTICATED", "READ_ONLY", "failed", "listed", "noop",
                               "marked", None}]
    /\ answered \in [Thread -> Account \cup {None}]
    /\ acks \subseteq Ack /\ acked \subseteq Ack
    /\ could \in [Process -> SUBSET Account]
    /\ opened \subseteq Process
    /\ ever \subseteq Account
    /\ changes \in 0..MaxChanges

Running == {"open", "work", "sleep"}

\* What a thread has found out on the way to its place is there.
Placed ==
    /\ \A t \in Thread :
          /\ pc[t] # "idle" => line[t] # None
          /\ pc[t] \in Running => cred[t] # None
          /\ pc[t] \in {"work", "sleep"} => session[t] # None
    /\ \A p \in Process :
          /\ pc[p] = "start" => target[p] # None
          /\ pc[p] \in {"forward", "start", "relayed"} /\ line[p].op = "read" => cred[p] # None
    /\ pc[Server] # "idle" => serving # None
    /\ serving # None => daemon # NoDaemon /\ pc[serving] = "relayed"

TypeOK == Typed /\ Placed

\* "A read account cannot ... mark read" (README), whatever the daemon was
\* started for and whoever relays to it: Discord receives no acknowledgement
\* from an account that has never been given the scope write.
AckWasAllowed == \A k \in acked : k.session.account \in ever

\* An acknowledgement goes back to a read whose own account had the scope write
\* at some time since that command was started: once it has been taken from
\* every account, later commands mark nothing, although the daemon's session
\* still could.
AckWasAsked == \A k \in acked : k.as \in could[k.by]

\* "a read-only account never opens a gateway connection to be told no"
\* (session.go): a read leads to a session, its own or a daemon's, only if an
\* account could write at some time since it was started.
OpenedToWrite ==
    \A p \in opened : line[p].op = "read" => could[p] # {}

-----------------------------------------------------------------------------
(***************************************************************************)
(* What the repository says and its code does not ensure.                  *)
(***************************************************************************)

\* "`--account` works on every command" (README): a command that names its
\* account is answered from a session of that account.
AnswersAskedAccount ==
    \A p \in Process : answered[p] # None /\ line[p].flag # None => answered[p] = line[p].flag

\* "The ack is sent asynchronously; give it the moment it needs before the
\* connection closes" (session.go): what read reports as marked has been
\* acknowledged, or will be.
MarkedIsAcked ==
    \A p \in Process : verdict[p] = "marked" => \E k \in acks \cup acked : k.by = p

=============================================================================

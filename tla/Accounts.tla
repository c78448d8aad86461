------------------------------ MODULE Accounts ------------------------------
(***************************************************************************)
(* Stored accounts (internal/app/auth.go, authcmd.go, and the check of     *)
(* home.go): the index profiles.json, which every process reads, changes   *)
(* in memory and writes back without a lock, and the secrets, which live   *)
(* in the system keyring or in files of their own.                         *)
(*                                                                         *)
(* A process runs one command at a time; what it does to the file system   *)
(* between two commands of others is one step each.  An index file that is *)
(* empty or does not parse counts as an empty index, so both are the same  *)
(* content here.  What a profile says of its owner is its kind.            *)
(***************************************************************************)
EXTENDS Naturals

CONSTANTS
    Process,   \* the processes that run commands
    Name,      \* account names
    Token,     \* tokens
    UserToken, \* the tokens of user accounts; the others are bots'
    Store,     \* the stores in use, a subset of {"keyring", "file"}
    Command,   \* the command lines the processes may run
    Faults,    \* a subset of {"crash", "netFails", "storeFails", "diskFails",
               \*              "revoke"}
    None       \* no profile, name, token, scope or store

Kind == {"user", "bot"}
Scope == {"read", "write"}

Profile == [kind : Kind, scope : Scope, store : Store, invalid : BOOLEAN]

\* What a command is about.  flag is --default of a login and, for a check,
\* first that the token is presented as the wrong kind, then the verdict.
Job == [op : {"none", "login", "logout", "use", "scope", "check"},
        name : Name \cup {None}, token : Token \cup {None},
        scope : Scope \cup {None}, store : Store \cup {None}, flag : BOOLEAN]

NoJob == [op |-> "none", name |-> None, token |-> None,
          scope |-> None, store |-> None, flag |-> FALSE]

\* Command lines the program takes: a login names its account, token and store
\* (the name may come from Discord), use names its account, scope its scope.
ASSUME ConstantsOK ==
    /\ UserToken \subseteq Token
    /\ None \notin Name \cup Token \cup Store \cup Scope
    /\ None \notin Profile
    /\ Command \subseteq Job
    /\ \A c \in Command :
          /\ c.op = "login" => c.name # None /\ c.token # None /\ c.store # None
          /\ c.op = "use" => c.name # None
          /\ c.op = "scope" => c.scope # None

VARIABLES
    file,      \* the index in profiles.json
    written,   \* the file has been written to since it was last truncated
    secrets,   \* the token each store keeps for each name
    pc,        \* where each process is in its command
    job,       \* what its command is about
    plan,      \* the index it is about to write
    accepted,  \* the tokens Discord accepts
    widened,   \* the names of the accounts for which writing has been asked for
    asked      \* the scope last given to each account by a finished command

vars == <<file, written, secrets, pc, job, plan, accepted, widened, asked>>

Index == [default : Name \cup {None}, profiles : [Name -> Profile \cup {None}]]

EmptyIndex == [default |-> None, profiles |-> [n \in Name |-> None]]

Places == {"idle", "verify", "store", "me", "load", "delete", "truncate", "write"}

TypeOK ==
    /\ file \in Index
    /\ written \in BOOLEAN
    /\ secrets \in [Store -> [Name -> Token \cup {None}]]
    /\ pc \in [Process -> Places]
    /\ job \in [Process -> Job]
    /\ plan \in [Process -> Index]
    /\ accepted \subseteq Token
    /\ widened \subseteq Name
    /\ asked \in [Name -> Scope \cup {None}]

Init ==
    /\ file = EmptyIndex
    /\ written = FALSE
    /\ secrets = [s \in Store |-> [n \in Name |-> None]]
    /\ pc = [p \in Process |-> "idle"]
    /\ job = [p \in Process |-> NoJob]
    /\ plan = [p \in Process |-> EmptyIndex]
    /\ accepted = Token
    /\ widened = {}
    /\ asked = [n \in Name |-> None]

-----------------------------------------------------------------------------
(* The pure parts of the commands. *)

KindOf(t) == IF t \in UserToken THEN "user" ELSE "bot"

\* Mutant of DefaultScope: every token may write.
WriteByDefault(kind) == "write"

\* Mutant of DefaultScope: a bot's scope is left empty.
ScopeForUsersOnly(kind) == IF kind = "user" THEN "read" ELSE None

\* The scope of a login without --scope.
DefaultScope(kind) == IF kind = "user" THEN "read" ELSE "write"

Stored(index) == {n \in Name : index.profiles[n] # None}

\* Mutant of WithProfile: whatever is written becomes the default.
AsDefault(index, n, profile) == [index EXCEPT !.profiles[n] = profile, !.default = n]

WithProfile(index, n, profile) == [index EXCEPT !.profiles[n] = profile]

\* Mutant of Upserted: a login does not touch an account that exists.
UpsertedOnce(index, n, profile, makeDefault) ==
    LET added == IF index.profiles[n] = None THEN WithProfile(index, n, profile) ELSE index
    IN  IF makeDefault \/ index.default = None
        THEN [added EXCEPT !.default = n]
        ELSE added

\* upsertProfile.
Upserted(index, n, profile, makeDefault) ==
    IF makeDefault \/ index.default = None
    THEN [WithProfile(index, n, profile) EXCEPT !.default = n]
    ELSE WithProfile(index, n, profile)

\* Mutant of Removed: the default moves on only if something else is stored.
RemovedOnly(index, n) ==
    LET rest == Stored(index) \ {n}
    IN  [WithProfile(index, n, None) EXCEPT
            !.default = IF @ = n /\ rest # {} THEN CHOOSE m \in rest : TRUE ELSE @]

\* removeProfile: the default moves to a remaining account, if there is one
\* (the first in alphabetical order).
Removed(index, n) ==
    LET rest == Stored(index) \ {n}
    IN  [WithProfile(index, n, None) EXCEPT
            !.default = IF @ # n THEN @
                        ELSE IF rest = {} THEN None
                        ELSE CHOOSE m \in rest : TRUE]

\* The name a command works on: its argument or else the default account.
Named(arg) == IF arg = None THEN file.default ELSE arg

Goto(p, place) == pc' = [pc EXCEPT ![p] = place]

\* The process starts a command: what it works out before it first waits.
Start(p, j, place) ==
    /\ pc[p] = "idle"
    /\ job' = [job EXCEPT ![p] = j]
    /\ Goto(p, place)

\* The command ends, with whatever message.
Finish(p) ==
    /\ Goto(p, "idle")
    /\ job' = [job EXCEPT ![p] = NoJob]
    /\ plan' = [plan EXCEPT ![p] = EmptyIndex]

-----------------------------------------------------------------------------
(* The commands start. *)

\* login --token --as, with or without --scope and --default.
Login(p, c) ==
    /\ c.op = "login"
    /\ Start(p, [c EXCEPT !.scope = IF @ = None THEN DefaultScope(KindOf(c.token)) ELSE @],
             "verify")
    /\ widened' = IF c.scope = "write" THEN widened \cup {c.name} ELSE widened
    /\ UNCHANGED <<file, written, secrets, plan, accepted, asked>>

\* logout and auth use: of the named account, or of the default one.
LogoutOrUse(p, c) ==
    /\ c.op \in {"logout", "use"}
    /\ Named(c.name) # None
    /\ Start(p, [c EXCEPT !.name = Named(@)], "load")
    /\ UNCHANGED <<file, written, secrets, plan, accepted, widened, asked>>

\* auth scope --read or --write, of the named account or the default one.
SetScope(p, c) ==
    LET n == Named(c.name) IN
    /\ c.op = "scope"
    /\ n # None
    /\ Start(p, [c EXCEPT !.name = n], "load")
    /\ widened' = IF c.scope = "write" THEN widened \cup {n} ELSE widened
    /\ UNCHANGED <<file, written, secrets, plan, accepted, asked>>

\* whoami and the home view resolve an account: it is stored and its store
\* has its secret.
Check(p, c) ==
    LET n == Named(c.name) IN
    /\ c.op = "check"
    /\ n # None
    /\ file.profiles[n] # None
    /\ LET token == secrets[file.profiles[n].store][n] IN
         /\ token # None
         /\ Start(p, [c EXCEPT !.name = n, !.token = token,
                         !.flag = file.profiles[n].kind # KindOf(token)], "me")
    /\ UNCHANGED <<file, written, secrets, plan, accepted, widened, asked>>

-----------------------------------------------------------------------------
(* They go on. *)

\* verify: Discord is asked whose token it is, as a user's and as a bot's.
Verify(p) ==
    /\ pc[p] = "verify"
    /\ \/ /\ job[p].token \in accepted
          /\ Goto(p, "store")
          /\ UNCHANGED <<job, plan>>
       \/ /\ job[p].token \notin accepted \/ "netFails" \in Faults
          /\ Finish(p)
    /\ UNCHANGED <<file, written, secrets, accepted, widened, asked>>

\* Mutant of StoreSecret: an error of the store goes unnoticed.
StoreOrNot(p) ==
    /\ pc[p] = "store"
    /\ \/ secrets' = [secrets EXCEPT ![job[p].store][job[p].name] = job[p].token]
       \/ "storeFails" \in Faults /\ UNCHANGED secrets
    /\ Goto(p, "load")
    /\ UNCHANGED <<file, written, job, plan, accepted, widened, asked>>

\* storeSecret, before the index is read.
StoreSecret(p) ==
    /\ pc[p] = "store"
    /\ \/ /\ secrets' = [secrets EXCEPT ![job[p].store][job[p].name] = job[p].token]
          /\ Goto(p, "load")
          /\ UNCHANGED <<job, plan>>
       \/ /\ "storeFails" \in Faults
          /\ Finish(p)
          /\ UNCHANGED secrets
    /\ UNCHANGED <<file, written, accepted, widened, asked>>

\* client.Me of whoami and home: any error is taken for a rejected token, a
\* token presented as the other kind's is rejected too.
AskDiscord(p) ==
    /\ pc[p] = "me"
    /\ \E failed \in BOOLEAN :
          /\ job[p].token \notin accepted \/ job[p].flag => failed
          /\ failed => \/ job[p].token \notin accepted \/ job[p].flag
                       \/ "netFails" \in Faults
          /\ job' = [job EXCEPT ![p].flag = failed]
    /\ Goto(p, "load")
    /\ UNCHANGED <<file, written, secrets, plan, accepted, widened, asked>>

\* Process p will write this index.
Prepare(p, index) ==
    /\ plan' = [plan EXCEPT ![p] = index]
    /\ Goto(p, "truncate")
    /\ UNCHANGED job

\* LoadIndex, and what the command makes of what it reads: a new index to
\* write, or nothing to do.
Load(p) ==
    LET n == job[p].name
        profile == file.profiles[n]
    IN
    /\ pc[p] = "load"
    /\ \/ /\ job[p].op = "login"
          /\ Prepare(p, Upserted(file, n, [kind |-> KindOf(job[p].token),
                                           scope |-> job[p].scope,
                                           store |-> job[p].store,
                                           invalid |-> FALSE], job[p].flag))
       \/ /\ job[p].op = "logout" /\ profile # None
          /\ plan' = [plan EXCEPT ![p] = Removed(file, n)]
          /\ job' = [job EXCEPT ![p].store = profile.store]
          /\ Goto(p, "delete")
       \/ /\ job[p].op = "use" /\ profile # None /\ file.default # n
          /\ Prepare(p, [file EXCEPT !.default = n])
       \/ /\ job[p].op = "scope" /\ profile # None /\ profile.scope # job[p].scope
          /\ Prepare(p, WithProfile(file, n, [profile EXCEPT !.scope = job[p].scope]))
       \/ /\ job[p].op = "check" /\ profile # None /\ profile.invalid # job[p].flag
          /\ Prepare(p, WithProfile(file, n, [profile EXCEPT !.invalid = job[p].flag]))
       \/ /\ job[p].op # "login"
          /\ profile # None =>
                \/ job[p].op = "use" /\ file.default = n
                \/ job[p].op = "scope" /\ profile.scope = job[p].scope
                \/ job[p].op = "check" /\ profile.invalid = job[p].flag
          /\ Finish(p)
    /\ UNCHANGED <<file, written, secrets, accepted, widened, asked>>

\* deleteSecret, in the store the profile names, before the index is written;
\* its errors go unnoticed.
DeleteSecret(p) ==
    /\ pc[p] = "delete"
    /\ \/ secrets' = [secrets EXCEPT ![job[p].store][job[p].name] = None]
       \/ "storeFails" \in Faults /\ UNCHANGED secrets
    /\ Goto(p, "truncate")
    /\ UNCHANGED <<file, written, job, plan, accepted, widened, asked>>

\* os.WriteFile truncates the file: whoever reads it now finds no accounts.
TruncateIndex(p) ==
    /\ pc[p] = "truncate"
    /\ file' = EmptyIndex
    /\ written' = FALSE
    /\ Goto(p, "write")
    /\ UNCHANGED <<secrets, job, plan, accepted, widened, asked>>

\* ... and writes it, from the start.  If another process has written since
\* the last truncation and its text was longer, what is left of it makes the
\* file unreadable.
WriteIndex(p) ==
    /\ pc[p] = "write"
    /\ \/ /\ file' = plan[p] \/ (written /\ file' = EmptyIndex)
          /\ written' = TRUE
          /\ asked' = [asked EXCEPT ![job[p].name] =
                          CASE job[p].op \in {"login", "scope"} -> job[p].scope
                            [] job[p].op = "logout" -> None
                            [] OTHER -> @]
       \/ /\ "diskFails" \in Faults
          /\ UNCHANGED <<file, written, asked>>
    /\ Finish(p)
    /\ UNCHANGED <<secrets, accepted, widened>>

\* The process is killed between two steps.
Crash(p) ==
    /\ "crash" \in Faults
    /\ pc[p] # "idle"
    /\ Finish(p)
    /\ UNCHANGED <<file, written, secrets, accepted, widened, asked>>

\* The owner of a token resets it.
Revoke(t) ==
    /\ "revoke" \in Faults
    /\ accepted' = accepted \ {t}
    /\ UNCHANGED <<file, written, secrets, pc, job, plan, widened, asked>>

-----------------------------------------------------------------------------
Begin(p) ==
    \E c \in Command : Login(p, c) \/ LogoutOrUse(p, c) \/ SetScope(p, c) \/ Check(p, c)

Step(p) ==
    \/ Verify(p) \/ StoreSecret(p) \/ AskDiscord(p) \/ Load(p)
    \/ DeleteSecret(p) \/ TruncateIndex(p) \/ WriteIndex(p)

Next ==
    \/ \E p \in Process : Begin(p) \/ Step(p) \/ Crash(p)
    \/ \E t \in Token : Revoke(t)

Spec == Init /\ [][Next]_vars

-----------------------------------------------------------------------------
(***************************************************************************)
(* Safety, whatever processes run at the same time and crash.              *)
(***************************************************************************)

\* The index is sound: it has a default account exactly if it has accounts,
\* and the default is one of them.
Sound(index) ==
    IF Stored(index) = {} THEN index.default = None ELSE index.default \in Stored(index)

\* Resolve finds an account without being told one whenever there is one, also
\* while other processes log in and out (upsertProfile, removeProfile).
DefaultStored == Sound(file)

\* "a user token is read-only unless the caller says otherwise" (login): no
\* lost update and no crash gives a user account the scope write if writing
\* was never asked for under its name.
WriteWasAskedFor ==
    \A n \in Stored(file) :
        file.profiles[n].kind = "user" /\ file.profiles[n].scope = "write"
            => n \in widened

-----------------------------------------------------------------------------
(***************************************************************************)
(* Safety, when processes run one after another.                           *)
(***************************************************************************)

Quiet == \A p \in Process : pc[p] = "idle"

\* A stored account has its secret, in the store its profile names: a login
\* that fails half way does not leave an account nobody can use.
SecretStored ==
    Quiet => \A n \in Stored(file) : secrets[file.profiles[n].store][n] # None

\* The index says what the commands have reported: who is logged in, and with
\* which scope.
ReportsStand ==
    Quiet => \A n \in Name :
        asked[n] = IF n \in Stored(file) THEN file.profiles[n].scope ELSE None

\* The index as the next command will find it: a truncated file stands for
\* what is about to be written to it.
Committed ==
    IF \E p \in Process : pc[p] = "write"
    THEN plan[CHOOSE p \in Process : pc[p] = "write"]
    ELSE file

\* What the command under way is about.
Underway ==
    IF Quiet THEN NoJob ELSE job[CHOOSE p \in Process : pc[p] # "idle"]

Promise == INSTANCE Registry WITH index <- Committed, request <- Underway

\* Each command changes, in one step, what it is asked to change, and leaves
\* every other account and field as it was, although it reads the whole index,
\* works on a copy and writes the whole file again (upsertProfile,
\* removeProfile, markInvalid, auth use and auth scope).
ImplementsRegistry == Promise!RegistrySpec

-----------------------------------------------------------------------------
(***************************************************************************)
(* What the repository says of accounts and its code does not ensure.      *)
(***************************************************************************)

\* "For `auth scope`: forbid writes" (the flag --read): an account whose last
\* report is that it may only read cannot write until a command widens it.
ReadForbidsWrites ==
    Quiet => \A n \in Stored(file) : asked[n] = "read" => file.profiles[n].scope = "read"

=============================================================================

# discord-axi in TLA+

discord-axi is a command line client for Discord, meant for agents: many short
processes that share a machine, a few files and, for some commands, a background
daemon. Each process is sequential; what is hard is what they do to each other,
what others do on Discord meanwhile, and what is left when one of them dies. These
modules model that, TLC checks them on small instances, and TLAPS proves their
safety properties for instances of any size.

    cd tla
    tlc -config daemon_safety.cfg MCDaemon      # likewise every other .cfg, see "Runs"
    tlapm DaemonProofs.tla                      # likewise every other ...Proofs.tla

`PROJECT.json` lists the components, the runs, for every definition the source
lines it stands for, and for every property a mutated definition that breaks it.

## The system

| component | source (`src/internal/...`) | state | operations |
|---|---|---|---|
| daemon and relay | `app/daemon.go`, `detach_*.go` | socket path, listener, idle timer, the connection served | `daemon start/run/stop/status`, relaying `unread` and `read`, idle and signal shutdown |
| gateway sessions | `app/session.go` | one live session in a daemon, or one of a command's own | open, list unread, mark read, close |
| pacing | `app/pace.go`, `lock_*.go` | file with the last send slot, advisory lock on it | before each REST request: reserve a slot, sleep until it |
| accounts | `app/auth.go`, `authcmd.go` | index `profiles.json`, secrets in the keyring or in files | `login`, `logout`, `auth use/scope/list`, `whoami`, resolving an account |
| home view | `app/home.go` | none of its own | lists guilds, records whether the token was accepted |
| REST commands | `app/commands.go`, `client.go` | none | `guilds`, `channels`, `dms`, `messages`, `send`, `edit`, `delete`, `react`, `search`; the scope check in the transport |
| name resolution | `app/resolve.go` | none | reference -> one guild or channel, or an error |
| argument parsing | `axi/flags.go`, `axi/cli.go` | none | parse, dispatch, exit code |
| hook installation | `axi/hooks.go` | settings files of other programs | install a session hook |
| build number | `app/buildnumber.go` | cache file with an age limit | refresh once per process |
| output | `axi/toon.go`, `axi/output.go`, `app/skill.go` | none | encode documents, help and skill text |
| Discord transport | `discordo/...` | none | HTTP, TLS, gateway and keyring access |

How they interact. `unread` and `read` dial the daemon's socket; if nobody
answers they start a daemon, and if that fails too they open a session
themselves. Commands and daemons meet only at the socket path, a file name that
all of them may unlink. Every REST request of every process, those of a login and
of a daemon included, passes through the pacing file. Commands resolve their
account from the index and its secret; `whoami` and the home view write back what
Discord said of the token; nothing locks the index.

What is hard, and what makes each component correct:

* **Daemon.** Probing, unlinking and creating the socket are separate steps of
  several processes; the idle timer, the signal and the stop request end a daemon
  from other goroutines; connections are served one by one, with a deadline on the
  daemon's side and none on the client's. Right means: no command waits for ever,
  no daemon leaves its socket file behind, unused daemons go away, a command is
  carried out as often as it says.
* **Pacing.** Slots are handed out under a lock that a process may die holding, in
  a file it may die truncating, with waits that are capped. Right means: requests
  are the interval apart, and nobody is held up for ever.
* **Accounts.** Read, change and write back without a lock, truncation before
  writing, two stores to keep in step. Right means: the index is sound, a user's
  token writes only if somebody asked for it, stored accounts have secrets.
* **Gateway sessions.** A daemon's session belongs to the account it was started
  for, with the scope it had then; commands of other accounts are relayed to it, run
  in the daemon's environment, and leave their acknowledgements to the session's own
  time. Right means: nothing is marked as read that nobody was allowed to mark.
* **REST commands.** Each command orders its checks and requests by itself, names
  are looked up in listings that are old by the time they are used, and the transport
  repeats a write whose answer was lost. Right means: refusals come before requests,
  a name stands for one place or none, reports are true, pages fit together.
* **Parsing.** Two readers of one command line, the flag parser and the daemon layer.
  Right means: nothing is dropped, nothing refused without reason, and both find the
  same account.
* **Hooks.** Four files of other programs, edited without a lock, truncated before
  they are written, taken for absent when they cannot be read, while their owners go on
  writing them. Right means: what others have written stays as far as setup could
  see it, setup twice is setup once, and what is reported as installed is there.

## Modules

| module | what it is |
|---|---|
| `Daemon` | clients, daemon processes and the socket path between them |
| `Pacer` | processes, the pacing file, its lock and a clock |
| `Relay` | what relaying promises to whoever gives a command; `Daemon` implements it |
| `SlotQueue` | what pacing promises, as a queue of send slots; `Pacer` implements it |
| `Registry` | what the registry promises to commands that do not overlap; `Accounts` implements it then |
| `Accounts` | processes, the index, the secrets and which tokens Discord accepts |
| `Session` | commands, a daemon, accounts with scopes, read states, acknowledgements under way |
| `Commands` | processes with their scripts of checks and requests, Discord's places and messages |
| `Argv` | one process, from its arguments to the command it runs |
| `Hooks` | processes that run `setup hooks`, the owners who write the same files, and the four files |
| `MCDaemon`, `MCPacer`, ... | symmetry, inputs and initial states for TLC |
| `DaemonProofs`, `PacerProofs`, `AccountsProofs`, `SessionProofs`, `CommandsProofs`, `PagesProofs`, `ArgvProofs`, `HooksProofs` | theorems |

`Session` takes over where `Daemon` and `Accounts` leave off: how a daemon comes and
goes is one step there (`StartDaemon`, `StopDaemon`), how the registry is stored
another (`SetScope`, `Use`), so that what remains is whose session does what.

Operators named "Mutant of X" are plausible bugs of X. No specification uses
them; each shows that a property notices the bug.

### Daemon and Relay

A client runs one command after another (`op`, `cpc`), a daemon process goes
through `runDaemon` and `serveDaemon` (`phase`, `listening`, `timed`, `cur`);
`path` is what the socket path names: nothing, a daemon's socket, or the file of a
killed process. `conn` and `link` are the connection between the two.

* `Connect`, `DialMisses`, `StopUnlinks`, `StartSucceeds`, `ProbeMisses`, `Spawn`,
  `StartFails`, `RedialMisses`, `Ask`, `TakeAnswer`, `FindBroken`: the steps of
  `forwardToDaemon`, `startDaemon`, `daemonStatus` and `stopDaemon`, one for each
  system call that others can come between, with every error path.
  `OpenOwn`, `RunOwn`: the fallback on a session of the command's own.
* `BootProbe`, `BootFails`, `BootUnlink`, `OpenSession`, `Bind`: `runDaemon` up to
  its listener. `Accept`, `DecodeFails`, `Handle`, `RunRelayed`, `Reply`: the accept
  loop. `IdleExpires`, `Signalled`, `StopCloses`: the goroutines that close the
  listener. `Leave`, `CloseSession`: the deferred calls.
* `KillClient`, `KillDaemon`: processes are killed anywhere. A killed client's
  connection stays in the daemon's queue.

`CloseListener` unlinks the path whoever's socket it names by then, as Go's
`UnixListener.Close` does. Time is abstracted: a timeout is a step that may be
taken. So are the text of replies and which account a daemon is for, which is the
subject of `Session`.

`Relay` knows nothing of daemons and sockets. A command is open until it reports or is
killed; a daemon may carry it out while it is open or after it was killed, but only as the
first to do so; what it reports is one of the outcomes its kind of command has, `relayed`
only if it has been carried out, `own` with a run of its own. `Status` maps the places of a
client to the three states of a command. What the session still sends in the background
after a command is no part of it: that is `AckWasAsked` of `Session`.

### Pacer and SlotQueue

`pc` walks through `reserveSlot`: lock, look (the clock and the file are read, the
slot chosen), truncate, write, unlock, sleep, send. Time is a counter; `Tick`
lets a process be at most `MaxLate` ticks late, and `MaxTime` stops the clock when
nobody sleeps. `slots` and `sends` record what was handed out and when it was
sent, `epoch` how often the content of the file was lost: a process killed between
truncating and writing, or a failed write. Jitter is any amount the code's factor
allows.

`SlotQueue` knows nothing of locks and files. A slot is granted if it is at least
the asking process's interval after every slot of its epoch, not only the last.

### Accounts and Registry

A process runs one command of `Command` after another: `Login`, `LogoutOrUse`,
`SetScope`, `Check` begin one, `Verify`, `StoreSecret`, `AskDiscord`, `Load`,
`DeleteSecret`, `TruncateIndex`, `WriteIndex` are its steps, `Crash` and `Revoke`
what happens besides. `plan` is the index held in memory between reading and
writing. An index file that is empty or does not parse counts as empty, as in
`LoadIndex`; writing over another process's longer text makes it so (`written`).
`Check` reads the index and the secret in one step: they are two reads in
`Resolve`, and what it takes from them is only the name and a token to try.
`widened` and `asked` are histories for the properties.

`Registry` is a map from names to profiles with a default, and for each command what it may
make of it: `LogIn`, `LogOut`, `Use`, `Rescope`, `Judge`, all else being as before. `Committed`
is the map that `Accounts` stands for: the file, or once it is truncated what is about to be
written. `Underway` is the command it must be due to.

### Session

A thread is a command's process or the daemon's (`Server`), which runs a relayed
command through the same code as the command line: `Resolve` (with `RequireWrite` for
`read`), `Open` (`stateFor`), then `List`, or `AlreadyRead`, `MarkRead` and `Wake`.
`Forward`, `StartDaemon`, `FindDaemon`, `StartFails`, `DaemonGone`, `Serve`, `Reply`
are the way to the daemon and back. `daemon` is the session it holds, with account and
scope, and its environment. `MarkRead` leaves an acknowledgement in `acks`; `SendAck`
is the session's goroutine, paced like every request, so it comes at any time, but not
after the session is closed. `readOnlyDriver` decides by the session's scope.
`could`, `ever` and `opened` are histories: who has had the scope write while a
command ran, or ever, and for whom a session was opened. There is one channel. A
bare token in the environment, which has no stored scope to change, is left out.

### Commands

A command is a script of stages (`guildsCommand`, `sendCommand`, ...), each a check or
a request; the order of the stages is what the closures of `commands.go` have in
common. `ResolveGuild` and `ResolveChannel` use `Matches` (the three match functions);
`FetchPage` and `NextPage` follow the hint of `messages`. A write ends in `Answered`,
`NotFound`, `Denied` or `Lost`, in which it may or may not have been carried out and is
repeated until `MaxTries`. `Rename`, `Vanish`, `Post`, `Remove` and `React` are what
other people do, at any time between the first request of a command and its report.
Names are members of `Word`, `Within` says which contains which. `seen` keeps the
listings a command has searched, `printed` the pages an agent has read.

### Argv

`argv` goes through `App.Run` (`ShowTop`, `NoCommand`, `CommandHelp`, `StartParse`), the
loop of `Parse` (`Positional`, `BadFlag`, `BooleanFlag`, `InlineValue`, `NextValue`,
`EndOfArguments`) and, for `unread` and `read`, `accountFromArgs` and `Uint` (`Run`).
A text is known by its first dash, its first "=" and whether it is a number. The
properties define what a command line means without going through it: each argument
plays a role, and the role of the one before it decides which it may be.

### Hooks

A process goes through the files in `Order`; in each it reads (`Read`), and if it has
to, truncates and writes (`os.WriteFile` is two steps, after which a longer text of
another process may remain, `Mixed`). `applySessionStartHook` and `codexHooksEnabled`
are translated as operators on sequences of entries and of lines. `result` and `exit`
are what `installHooks` reports. The command that a process installs is any that
`portableCommand` may return: the marker, or the path of the executable (`ExecPaths`),
which contains the marker only if the executable kept its name. `ReadFails` is a read
that fails although the file is there; the code goes on as if there were none. `Edit`
is an owner, another program or the user, who writes a file at any time. `theirs` is
what the owners have last put into each file, and what the properties measure it by;
`sight` says whether a process has seen that when it planned what it writes, and
`overwritten` names the files that one has written without. `damaged` names the files
hit by a crash, a full disk, or two processes at once.

## Runs

A constant `Faults` switches each fault on, so that a run says which ones its
properties survive.

| run | instance | checks |
|---|---|---|
| `daemon_safety` | 2 clients, 2 daemons, all commands and faults | `TypeOK`, `SocketIsServed`, `WaitersHaveServer`, `RunsMatchReport` |
| `daemon_liveness` | 2 clients (one with `DISCORD_AXI_NO_DAEMON`), 1 daemon at a time, kills, late replies, failures to open, fairness | `CommandFinishes`, `UnusedDaemonsExit`, `StopTakesEffect`, `ImplementsRelay` |
| `pacer` | 3 processes with two intervals, cap 4 ticks, lateness 1, crashes and failures, fairness | `TypeOK`, `SlotsSpaced`, `SendsSpaced`, `ImplementsQueue`, `RequestSent` |
| `accounts_shared` | 2 processes, 2 names, a user's token; login, logout, use, scope, whoami; crashes, full disk, revoked token | `DefaultStored`, `WriteWasAskedFor` |
| `accounts_alone` | 1 process, 2 names, 2 stores, a user's and a bot's token, all commands; failing network and stores | `TypeOK`, `SecretStored`, `ReportsStand`, `ImplementsRegistry` |
| `session` | 2 processes that may both start the daemon, 2 accounts, `--account` and environment, 2 changes of scopes, default, unread messages or the daemon | `TypeOK`, `AckWasAllowed`, `AckWasAsked`, `OpenedToWrite` |
| `commands` | 1 process at a time with 23 command lines, 3 kinds of account and none; 2 guilds, 2 text channels, a voice channel, a direct message, names of which one contains the other; 2 changes by others; lost answers and an expired token | `TypeOK`, `NeverAGuess`, `RefusedOffline`, `ReportsHold`, `PagesExact` |
| `argv` | all lines of up to 2 of 20 texts, and up to 4 arguments after `unread`, `read` and `send` | `TypeOK`, `NothingDropped`, `RefusedForReason`, `AccountsAgree` |
| `hooks` | 2 processes, each with the program in its PATH, elsewhere or under another name; settings of up to 2 entries, configs of up to 3 lines, every kind of plugin; one crash, full disk, failing read or edit by an owner | `TypeOK`, `UserFilesKept`, `OneEntry`, `ConfigKept`, `SetupHolds`, `Idempotent` |

Why these bounds. Two daemons and two clients are enough for one process to
destroy what another has just created and for a third to meet the result;
identities are free again after a process has ended, so a run has any number of
processes one after another. Three requests of a few ticks each are more
than fit under the cap of 4, and `MaxLate` 1 lets a process lose its time slice anywhere
in its bookkeeping. In Accounts two processes make every pair of steps meet and the
number of commands is not bounded. `accounts_shared` looks at the state without
`asked`, a history no step and neither of its properties depends on, which is what
its VIEW says. In `session` a relayed
and an unrelayed command meet, with one change of the scope each before and after a
check, and its command lines leave out `unread --account`, which `session_other_account` runs; in `commands` two changes by others fall on any two places of a command that
makes at most four requests. A page of one message and of two on a channel with three
meet both ends of a page. Four arguments hold a flag, its value, an argument that
looks like either and one more; three lines of a config hold two sections and a key.
In `hooks` one file at a time has a content that setup has to look into, since each is
dealt with by itself, and one edit, failing read or crash falls on any place of either
process. The proofs below lift these bounds from the safety properties; the liveness
results are for the instances shown.

`CHECK_DEADLOCK FALSE` is set because the system really may stop: no command has
to be run, no request made.

Fairness. In `Daemon`, a process that can take a step takes it (weak fairness of
each client's and daemon's steps, `Begin`, signals and kills excepted: users owe
nothing). The kernel hands out queued connections in order, so a connection that
the accept loop could take again and again is taken (strong fairness of `Accept`).
The idle timer is reset by every connection, so it is fair only while a daemon is
unused. In `Pacer`, time passes, and the kernel grants a lock that keeps becoming
free (strong fairness of `Lock`); a failure to open or lock the file, which would
let a waiting process go, is never owed to it.

### What the runs show

* A daemon that ends in order never leaves its socket file, whatever its goroutines
  do at the same time (`SocketIsServed`). No client can be left waiting on a
  connection nobody will close (`WaitersHaveServer`), so every command ends
  (`CommandFinishes`) although clients read without a deadline.
* A command is carried out at most twice, and its report tells apart once and
  possibly twice (`RunsMatchReport`). A daemon never carries out a command that has
  reported, nor one that was carried out before (`ImplementsRelay`); that clients read
  their answers without a deadline is part of the reason.
* Daemons with an idle timeout go away when commands stop coming, even when their
  socket file was removed under them (`UnusedDaemonsExit`).
* Slots are apart for any mix of intervals; requests within the cap are sent apart
  (`SlotsSpaced`, `SendsSpaced`); the death of a lock holder holds up nobody
  (`RequestSent`).
* Whatever updates are lost, the index that remains has a default account it
  contains (`DefaultStored`), and lost updates and crashes give no user account the
  scope write if nobody ever asked for it under its name (`WriteWasAskedFor`).
  Without concurrency, crashes and full disks the registry and the secrets
  agree with what was reported (`ReportsStand`, `SecretStored`), and a command changes
  nothing it was not asked to change, although it writes the whole file
  (`ImplementsRegistry`).
* An account without the scope write marks nothing as read, whoever relays to whose
  daemon (`AckWasAllowed`), an acknowledgement goes back to a read that was allowed
  while it ran (`AckWasAsked`), and no session is opened to be told no (`OpenedToWrite`).
* A reference stands for the only place it singles out in the listing it was looked up
  in (`NeverAGuess`). A refusal for the scope, the account or an early argument comes
  before any request (`RefusedOffline`). What is reported of a write is so, as far as
  answers arrive (`ReportsHold`). Pages neither repeat nor skip (`PagesExact`).
* What a command is run with is what its whole line means (`NothingDropped`), and the
  two readers of `--account` agree wherever it is written once and as a flag
  (`AccountsAgree`).
* Entries of others and plugins of the user stay whichever setups race, die or run out
  of disk (`UserFilesKept`), and the lines of Codex's config do unless a process dies
  in the middle of writing it or two work on it at once (`ConfigKept`). Neither is so of
  a file that is `overwritten`: by a setup that could not read it, or whose read lies
  before what its owner has written. Once the owner writes the file again, both hold
  again.
* Setups add one entry at most, however many race, and none where there is one
  (`OneEntry`), and a second install changes nothing whatever the files may have become
  (`Idempotent`), if the commands contain the marker; each setup of an executable with
  another name may add one entry more.
* What is reported as installed is there until its owner writes the file, and a setup
  that meets a file it refuses, or cannot write, goes on with the others (`SetupHolds`).

### Where code and words differ

Each of these runs checks one sentence of the repository, and TLC finds a
behaviour of the code that contradicts it.

| run | the sentence | the behaviour |
|---|---|---|
| `session_other_account` | "`--account` works on every command" (`README.md:93`) | a relayed `unread` or `read` is answered from the session of the account the daemon was started for |
| `session_lost_ack` | "give it the moment it needs before the connection closes" (`session.go:254`) | the acknowledgement is paced after the request that resolved the channel, and half a second is less than the pacing interval |
| `accounts_lost_update` | "forbid writes" (`authcmd.go:182`) | a concurrent `whoami` writes the old scope back |

Others are in the models and have no run of their own.

* Two daemons that probe before either listens both open a session (`daemon.go:323`).
  `daemon stop` may remove the socket file of a daemon that has just come up
  (`daemon.go:307`). A reply that misses its deadline makes the client carry the
  command out again (`daemon.go:225`); `RunsMatchReport` says what remains true.
  `daemon stop` says "stopped" before the listener is closed, so that a `daemon run`
  right after it may still be told "Run `daemon stop` to replace it" (`daemon.go:327`).
* Waits are capped at 15 seconds, so the rest of a long queue of requests is sent
  together (`pace.go:79`).
* A login that moves an account to the other store leaves its first secret behind, also
  at logout (`auth.go:295`). `whoami` marks an account as rejected by Discord after any
  error. A login killed between storing its secret and recording the account leaves the
  new token under the scope of the account it replaces (`authcmd.go:61`).
* The first `--account` counts for the daemon layer, the last for the parser, and the
  daemon layer takes one that is the value of another flag (`daemon.go:64`);
  `AccountsAgree` is about lines where neither happens.
* `--limit ""` asks `messages` for the whole channel (`flags.go:89`).
* A crash or a second process between truncating and writing Codex's config costs the
  user its content (`hooks.go:161`).
* "One that points elsewhere is repaired" and "a repeated install stays a silent no-op"
  (`hooks.go:25`, `hooks.go:84`) hold of commands that contain the marker, but
  `portableCommand` returns the path of the executable as it is (`hooks.go:55`): an
  executable under another name does not find its own entry (`hooks.go:113`), and each
  of its setups adds another.
* Every error of a read counts as an empty file (`hooks.go:60`, `hooks.go:154`,
  `hooks.go:225`). If the file is there, but cannot be read and can be written, setup
  replaces it: the settings by its entry, the config by its section, and an
  OpenCode plugin of the user although setup is "refusing to overwrite" it
  (`hooks.go:244`).
* What an owner writes between a setup's read and its write (`hooks.go:60-77`,
  `hooks.go:154-164`, `hooks.go:225-237`) is lost.

## Proofs

The assumptions are the `ConstantsOK` of each module: what the sets of constants
have to do with each other. Nothing is assumed about how many processes there are,
except in `Hooks`, where `OneEntry` counts them and they are finitely many. Commands are
not assumed to contain the marker.

* **DaemonProofs** proves all four safety properties of `daemon_safety` from one
  inductive invariant, `IInv`. The properties are not inductive: to know that the
  connection a daemon ends is the one its client waits on one needs that the two
  ends agree (`LinksAgree`); to know that an exiting daemon's file is gone one needs
  the phases in which a listener may be open (`PhasesAgree`); to bound the runs one
  needs how often a command can have been carried out at each point of its way
  (`RunsAgree`). `NextOK` goes through the actions one by one.
  `Implements` is the refinement of `Relay`: `RelayStep` shows that `RunRelayed` carries
  out, that the steps which finish a command report, and that all others stutter. Its
  crux is `LinksAgree`: the connection a daemon serves is one on which its client waits
  or died.
* **PacerProofs** proves types and mutual exclusion (`TypeCorrect`), then that the
  file, while it holds anything, holds the latest slot of its epoch, and that a
  process between look and write has chosen a slot after it; from this
  `SlotsApart`, from it and from what a sleeping process owes its slot `SendsApart`.
  `Implements` is the refinement: only `Write` hands out a slot, only a lost record
  begins an epoch, every other step stutters.
* **AccountsProofs** proves `TypeCorrect` with what a process knows of its command
  at each place (`JobOK`); `DefaultIsStored`, where the index in memory must be sound
  as well as the one in the file (`SoundInv`), from lemmas about what a login and a
  logout make of an index; and `WriteNeedsAsking`, where every index in memory and
  every command under way is covered (`AskedInv`). `SecretIsStored`, `ReportsAreTrue` and
  `Implements` assume `[]OneAtATime` (two commands never overlap, of however many
  processes) and neither crashes nor a full disk; with any of these the registry breaks its
  promises, as `accounts_lost_update` and the list above show. Network and stores may fail and tokens be
  revoked. Their invariant `AloneInv` says how far a command has come (`Progress`): until it
  deletes or writes something the index is settled, and from then on the index it is about
  to write keeps its secrets and agrees with the report to come. For the refinement of
  `Registry`, `Intends` adds that this index is what was asked for.
* **SessionProofs** proves `TypeCorrect` (`Typed` and `Placed` together are inductive),
  then `AckAllowed` from `Allowed`: every credential, session and acknowledgement that
  can write was given the scope at some time; and `AckAsked` and
  `SessionsOpenedToWrite` from `Asked`: what a read goes by, in its own process or in
  the daemon, could write while the read was under way.
* **CommandsProofs** rests on what is called the `Way` of a command. The scripts are
  shown to be well formed (`ScriptsWell`): stages that make no request come before
  those that do, the scope is asked for before a write, the channel is found before it
  is written to. What remains of a script then tells what has been checked (`Ahead`,
  `Connected`), which gives `RefusedBeforeRequest`; with what a search has found in its
  listing (`Found`) it gives `NoGuess`; with how often a write may have been carried
  out (`Sent`) and what there is on Discord (`World`), `ReportsTrue`. The last one
  assumes `IdsKnown`: a delete names a message whose id has been handed out. Without it
  an id that is made up could be that of a message posted later.
* **PagesProofs** proves `TypeCorrect` of `Commands` and `NoMessageMissed`, which is about
  the newest members of finite sets, page after page. `RankTaken` shows that every rank
  of a finite set belongs to a member, so that `Descending` lists each once
  (`DescendingLists`) and its last is what the hint names (`OldestIsLast`);
  `NewestClosed` that a page holds whatever is newer than one of its messages and on
  offer; `Joined` that a page below the last printed message continues the list without
  a gap. The invariant `IInv` says this of what each agent has read (`Pages`) and, for
  the types, how often a request can have been tried (`Attempts`).
* **ArgvProofs.** The arguments read so far have roles that explain what `Parse` has
  gathered (`Explained`), so what a command is run with is a meaning of its line
  (`CommandLineKept`). Every line has one reading at most (`Forced`), so a line that
  `Parse` cannot read has none (`RefusalHasReason`). `AccountFound` compares the reading
  with the argument that `accountFromArgs` has found.
* **HooksProofs** first says what setup does to each kind of file: an entry is repaired
  or added and no other is moved (`Repaired`, `Added`), the key is on afterwards
  (`Enabled`, `OnStays`), every line of a config goes to a line of the new one in the
  same section (`EnabledEmbeds`), and so through several installs (`KeptInEnabled`).
  The invariants then say the same of every content on its way to a file: `Kept` for
  `OthersStay` and `OneEntryOnly`, `Settled` for `ReportedIsThere`, `Safe` for
  `ConfigStays`. A plan is covered as long as its process has clear sight of what the
  owner has written; an edit takes that from whoever is at the file, and makes the file
  what it is measured by (`EditKept`, `EditSafe`). For `OneEntryOnly` a plan may have one
  entry more than the file if its command is without the marker, which `Write` makes up
  for: the process has not dealt with the file before (`AllTried`), so there is one
  more that has installed such a command (`InstalledCounts`). `ReportedIsThere` takes
  from `AllTried` that a process which ends has tried every file. `TypeCorrect` and
  `TwiceIsOnce` need types only.

Every safety property of the passing runs is stated by a theorem. Only model-checked are
the liveness properties (`CommandFinishes`, `UnusedDaemonsExit`, `StopTakesEffect`,
`RequestSent`), because the prover does not handle ENABLED, and the three properties that
TLC refutes.

## Not modelled

* **Client build number** (`buildnumber.go`): a number cached for a day. Processes that
  race fetch and write the same number, a torn file is fetched again, and nothing but a
  header depends on it.
* **Output encoding, help and skill text** (`toon.go`, `output.go`, `skill.go`):
  formatting, without state. So is the layout of what commands print.
* **Discord transport** (`discordo/`): calls that succeed or fail wherever the models
  use them. Arikawa, ningen, the kernel's sockets, files and locks and the system keyring are
  outside the repository; the definitions marked external in `PROJECT.json` model what
  the code relies on.
* Within modelled parts: the JSON structure of settings files beyond their commands,
  owners who remove a file that setup is about,
  references that are empty, tokens from the environment in `Session`, attachments.

Still worth doing: what `Accounts` promises when commands overlap or die, as an abstract
registry that loses updates; an abstract specification of a command of `Commands`.

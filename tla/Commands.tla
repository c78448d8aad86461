------------------------------ MODULE Commands ------------------------------
(***************************************************************************)
(* The commands that talk to Discord over REST (internal/app/commands.go,  *)
(* resolve.go, client.go, home.go): which checks and requests each makes,  *)
(* in which order, while other people rename, delete and post.             *)
(*                                                                         *)
(* A command is a script of stages.  A request is one step that reads or   *)
(* changes Discord; a write may be delivered more than once, because the   *)
(* transport repeats a request whose answer is lost.  The request for the  *)
(* build number that building a client may make goes to the login page,    *)
(* without the account, and is not counted.  Names are compared            *)
(* after lower-casing, so a name is a member of Word, and Within says      *)
(* which words contain which.  What is printed is left out, but for the    *)
(* messages of a page and the hint to the next one.                        *)
(***************************************************************************)
EXTENDS Integers, Sequences, FiniteSets

CONSTANTS
    Process,   \* processes, each of which runs one command
    Guild, Channel,
    Parent,    \* the guild of each channel, None for a direct message
    Readable,  \* the channels that hold messages
    Word,      \* names, and words used to refer to them
    Within,    \* <<v, w>>: w contains v
    Account,   \* what Resolve may return: records of kind and scope, or None
    Command,   \* the command lines run: op, ref, message, limit, bad
    Faults,    \* how requests may fail: a subset of Failures
    MaxTries,  \* how often the transport sends a request
    Names,     \* the names that guilds and channels may have at first
    Messages,  \* the messages that exist at first, with their channels
    MaxChanges,\* bound: how much others change on Discord
    None

Place == Guild \cup Channel

Ops == {"home", "guilds", "channels", "dms", "messages", "send", "edit", "delete", "react",
        "unreact", "search"}

\* The home view has no arguments that could be bad.
CommandLine ==
    {c \in [op : Ops,
            ref : [guild : Guild \cup Word \cup {None}, channel : Channel \cup Word \cup {None}],
            message : Nat \cup {None}, limit : Nat, bad : {"early", "late", None}] :
        c.op = "home" => c.bad = None}

Verdicts == {"ok", "noop", "VALIDATION_ERROR", "NOT_AUTHENTICATED", "READ_ONLY",
             "FORBIDDEN", "NOT_FOUND", "RATE_LIMITED", "API_ERROR", "NETWORK_ERROR"}

ASSUME ConstantsOK ==
    /\ Parent \in [Channel -> Guild \cup {None}]
    /\ Readable \subseteq Channel
    /\ IsFiniteSet(Guild) /\ IsFiniteSet(Channel)
    /\ Within \subseteq Word \X Word
    /\ MaxTries \in Nat \ {0} /\ MaxChanges \in Nat
    /\ Names \subseteq [Place -> Word]
    /\ IsFiniteSet(Messages) /\ Messages \subseteq (1..Cardinality(Messages)) \X Channel
    /\ Faults \subseteq {"lost", "expired", "denied", "limited", "other"}
    /\ Command \subseteq CommandLine
    /\ None \notin Place \cup Word \cup Nat \cup Verdicts \cup {"early"} \cup CommandLine
    /\ Guild \cap Channel = {} /\ Place \cap Word = {}

VARIABLES
    name,     \* the name of each guild and channel, None when it is gone
    there,    \* the messages that exist, each with its channel
    posted,   \* the id of the last message posted
    reacted,  \* the messages that carry this account's reaction
    changes,  \* how often others have changed something
    command,  \* the command line of each process, None before it starts
    account,  \* the account it has resolved
    todo,     \* the stages still ahead of it
    guild,    \* the guild it has found
    channel,  \* the channel it has found
    tries,    \* how often its write has been sent
    verdict,  \* what it has reported, None while it runs
    before,   \* --before of a page of messages
    printed,  \* the messages printed by the pages so far, newest first
    online,   \* whether it has made a request
    seen,     \* the names in the listings it has searched
    effect    \* how often Discord has carried out its write

discord == <<name, there, posted, reacted, changes>>
record == <<before, printed, online, seen, effect>>
vars == <<discord, command, account, todo, guild, channel, tries, verdict, record>>

-----------------------------------------------------------------------------
(***************************************************************************)
(* The scripts: one stage per check or request, in the order of the code.  *)
(***************************************************************************)
\* Mutant of deleteCommand: the scope is looked at when the channel is known.
DeleteChecksLate == <<"usage", "client", "channel", "scope", "delete">>

guildsCommand   == <<"usage", "client", "guilds">>
channelsCommand == <<"usage", "client", "guild", "channels">>
dmsCommand      == <<"usage", "client", "dms">>
messagesCommand == <<"usage", "client", "channel", "late", "messages">>
sendCommand     == <<"usage", "client", "scope", "channel", "send">>
editCommand     == <<"usage", "client", "scope", "channel", "edit">>
deleteCommand   == <<"usage", "client", "scope", "channel", "delete">>
reactCommand    == <<"usage", "client", "scope", "channel", "react">>
searchCommand   == <<"usage", "client", "user", "guild", "late", "search">>
Home            == <<"client", "me", "guilds">>

Script(op) ==
    CASE op = "guilds"   -> guildsCommand
      [] op = "channels" -> channelsCommand
      [] op = "dms"      -> dmsCommand
      [] op = "messages" -> messagesCommand
      [] op = "send"     -> sendCommand
      [] op = "edit"     -> editCommand
      [] op = "delete"   -> deleteCommand
      [] op \in {"react", "unreact"} -> reactCommand
      [] op = "search"   -> searchCommand
      [] op = "home"     -> Home

Writes == {"send", "edit", "delete", "react", "unreact"}

WriteStage == {"send", "edit", "delete", "react"}

ReadStage == {"guilds", "channels", "dms", "me", "search"}

ReadOnly(p) == account[p].scope = "read"

\* No answer, and the status of an answer: 401, 403, 404, 429 and the others.
Failures == {"lost", "expired", "denied", "gone", "limited", "other"}

\* Mutant of Translate: one failure has no code of its own.
TranslateSome(failure) ==
    CASE failure = "lost" -> "NETWORK_ERROR"
      [] failure = "expired" -> "UNAUTHORIZED"
      [] failure = "denied" -> "FORBIDDEN"
      [] failure = "gone" -> "NOT_FOUND"
      [] failure = "limited" -> "RATE_LIMITED"
      [] OTHER -> "API_ERROR"

Translate(failure) ==
    CASE failure = "lost" -> "NETWORK_ERROR"
      [] failure = "expired" -> "NOT_AUTHENTICATED"
      [] failure = "denied" -> "FORBIDDEN"
      [] failure = "gone" -> "NOT_FOUND"
      [] failure = "limited" -> "RATE_LIMITED"
      [] failure = "other" -> "API_ERROR"

-----------------------------------------------------------------------------
(***************************************************************************)
(* Name resolution.                                                        *)
(***************************************************************************)

Equal(names, places, w) == {x \in places : names[x] = w}

Containing(names, places, w) == {x \in places : <<w, names[x]>> \in Within}

\* Mutant of Matches: the first match is good enough.
FirstMatch(names, places, w) ==
    LET found == Equal(names, places, w) \cup Containing(names, places, w)
    IN  IF found = {} THEN {} ELSE {CHOOSE x \in found : TRUE}

\* matchGuilds, matchChannels and matchDirectMessages: the places with exactly
\* this name or, if there are none, those whose name contains it.
Matches(names, places, w) ==
    IF Equal(names, places, w) # {}
    THEN Equal(names, places, w)
    ELSE Containing(names, places, w)

Guilds(names) == {g \in Guild : names[g] # None}

\* The channels of a guild, without those that readable drops, or, for None,
\* the direct messages.
Channels(names, g) ==
    {c \in Channel : /\ Parent[c] = g /\ names[c] # None
                     /\ g = None \/ c \in Readable}

\* Two matches are a usage error, none is NOT_FOUND.
NoMatch(matches) == IF matches = {} THEN "NOT_FOUND" ELSE "VALIDATION_ERROR"

Alive(x) ==
    /\ name[x] # None
    /\ x \in Channel /\ Parent[x] # None => name[Parent[x]] # None

-----------------------------------------------------------------------------
Stage(p, stage) == todo[p] # <<>> /\ Head(todo[p]) = stage

Advance(p) == todo' = [todo EXCEPT ![p] = Tail(@)]

\* The command prints its result or an error and exits.
Report(p, v) ==
    /\ verdict' = [verdict EXCEPT ![p] = v]
    /\ todo' = [todo EXCEPT ![p] = <<>>]

\* A command line is started.
Begin(p, c) ==
    /\ command[p] = None
    /\ command' = [command EXCEPT ![p] = c]
    /\ todo' = [todo EXCEPT ![p] = Script(c.op)]
    /\ UNCHANGED <<discord, account, guild, channel, tries, verdict, record>>

\* Parse, Uint, selected, messageArg and the checks of --reply and --file.
CheckArguments(p) ==
    /\ Stage(p, "usage")
    /\ IF command[p].bad = "early"
       THEN Report(p, "VALIDATION_ERROR")
       ELSE Advance(p) /\ UNCHANGED verdict
    /\ UNCHANGED <<discord, command, account, guild, channel, tries, record>>

\* Client: the account is resolved and its API client built.  The home view
\* says that nobody is logged in and succeeds.
Client(p) ==
    /\ Stage(p, "client")
    /\ \E a \in Account :
          IF a = None
          THEN /\ Report(p, IF command[p].op = "home" THEN "ok" ELSE "NOT_AUTHENTICATED")
               /\ UNCHANGED account
          ELSE /\ account' = [account EXCEPT ![p] = a]
               /\ Advance(p)
               /\ UNCHANGED verdict
    /\ UNCHANGED <<discord, command, guild, channel, tries, record>>

RequireWrite(p) ==
    /\ Stage(p, "scope")
    /\ IF ReadOnly(p)
       THEN Report(p, "READ_ONLY")
       ELSE Advance(p) /\ UNCHANGED verdict
    /\ UNCHANGED <<discord, command, account, guild, channel, tries, record>>

\* search is refused to bots.
RequireUser(p) ==
    /\ Stage(p, "user")
    /\ IF account[p].kind = "bot"
       THEN Report(p, "FORBIDDEN")
       ELSE Advance(p) /\ UNCHANGED verdict
    /\ UNCHANGED <<discord, command, account, guild, channel, tries, record>>

\* --before of messages and --author of search are looked at only now.
CheckLate(p) ==
    /\ Stage(p, "late")
    /\ IF command[p].bad = "late"
       THEN Report(p, "VALIDATION_ERROR")
       ELSE Advance(p) /\ UNCHANGED verdict
    /\ UNCHANGED <<discord, command, account, guild, channel, tries, record>>

GoOnline(p) == online' = [online EXCEPT ![p] = TRUE]

\* A guild is looked up by its id or in the list of guilds; a path to a channel
\* begins with that, too.
ResolveGuild(p) ==
    LET ref == command[p].ref.guild
        found == IF ref \in Guild THEN {ref} \cap Guilds(name)
                 ELSE Matches(name, Guilds(name), ref)
    IN  /\ Stage(p, "guild") \/ Stage(p, "channel")
        /\ ref # None /\ guild[p] = None
        /\ GoOnline(p)
        /\ seen' = [seen EXCEPT ![p].guild = name]
        /\ IF Cardinality(found) = 1
           THEN /\ guild' = [guild EXCEPT ![p] = CHOOSE g \in found : TRUE]
                /\ IF Stage(p, "guild") THEN Advance(p) ELSE UNCHANGED todo
                /\ UNCHANGED verdict
           ELSE Report(p, NoMatch(found)) /\ UNCHANGED guild
        /\ UNCHANGED <<discord, command, account, channel, tries, before, printed, effect>>

\* A channel is looked up by its id, among those of the guild that has been
\* found, or among the direct messages.  The guild may be gone by now.
ResolveChannel(p) ==
    LET ref == command[p].ref.channel
        found == IF ref \in Channel THEN {c \in {ref} : Alive(c)}
                 ELSE IF guild[p] # None /\ ~Alive(guild[p]) THEN {}
                 ELSE Matches(name, Channels(name, guild[p]), ref)
    IN  /\ Stage(p, "channel")
        /\ command[p].ref.guild = None \/ guild[p] # None
        /\ GoOnline(p)
        /\ seen' = [seen EXCEPT ![p].channel = name]
        /\ IF Cardinality(found) = 1
           THEN /\ channel' = [channel EXCEPT ![p] = CHOOSE c \in found : TRUE]
                /\ Advance(p)
                /\ UNCHANGED verdict
           ELSE Report(p, NoMatch(found)) /\ UNCHANGED channel
        /\ UNCHANGED <<discord, command, account, guild, tries, before, printed, effect>>

\* A request of a lookup or listing fails.  Every failure to list the direct
\* messages is reported as a reference to nothing.
LookupFails(p, failure) ==
    /\ failure \in Faults
    /\ \/ Stage(p, "guild") \/ Stage(p, "channel") \/ Stage(p, "messages")
       \/ \E stage \in ReadStage : Stage(p, stage)
    /\ GoOnline(p)
    /\ Report(p, IF Stage(p, "channel") /\ command[p].ref.channel \in Word
                       /\ command[p].ref.guild = None
                 THEN "NOT_FOUND"
                 ELSE Translate(failure))
    /\ UNCHANGED <<discord, command, account, guild, channel, tries,
                   before, printed, seen, effect>>

\* The request of a listing is answered; a guild may be gone since it was found.
Fetch(p) ==
    /\ \E stage \in ReadStage : Stage(p, stage)
    /\ GoOnline(p)
    /\ IF guild[p] # None /\ ~Alive(guild[p])
       THEN Report(p, Translate("gone"))
       ELSE IF Len(todo[p]) > 1 THEN Advance(p) /\ UNCHANGED verdict
       ELSE Report(p, "ok")
    /\ UNCHANGED <<discord, command, account, guild, channel, tries,
                   before, printed, seen, effect>>

\* The messages of a channel older than before, newest first.
Older(c, id) == {m \in 1..posted : <<m, c>> \in there /\ (id = None \/ m < id)}

\* The newest messages of a set, as many as limit; a limit of 0 stands for
\* the empty value of --limit and takes them all.
Newest(ms, limit) ==
    IF limit = 0 THEN ms
    ELSE {m \in ms : Cardinality({n \in ms : n > m}) < limit}

\* The messages in ms, newest first.
Descending(ms) ==
    [i \in 1..Cardinality(ms) |-> CHOOSE m \in ms : Cardinality({n \in ms : n > m}) = i - 1]

\* Mutant of Oldest: the hint takes the other end of the page.
Latest(ms) == CHOOSE m \in ms : \A n \in ms : n <= m

Oldest(ms) == CHOOSE m \in ms : \A n \in ms : m <= n

\* One page is printed.  A full one names the oldest message as the --before of
\* the next.
FetchPage(p) ==
    LET c == channel[p]
        limit == command[p].limit
        page == Newest(Older(c, before[p]), limit)
    IN  /\ Stage(p, "messages")
        /\ GoOnline(p)
        /\ IF Alive(c)
           THEN /\ Report(p, "ok")
                /\ printed' = [printed EXCEPT ![p] =
                                  @ \o [i \in 1..Cardinality(page) |-> <<Descending(page)[i], c>>]]
                /\ before' = [before EXCEPT ![p] =
                                 IF page # {} /\ Cardinality(page) = limit
                                 THEN Oldest(page) ELSE None]
           ELSE Report(p, "NOT_FOUND") /\ UNCHANGED <<before, printed>>
        /\ UNCHANGED <<discord, command, account, guild, channel, tries, seen, effect>>

\* The agent follows the hint, which repeats the reference it has used, in a
\* new invocation.
NextPage(p) ==
    /\ verdict[p] = "ok" /\ before[p] # None
    /\ verdict' = [verdict EXCEPT ![p] = None]
    /\ todo' = [todo EXCEPT ![p] = Script(command[p].op)]
    /\ guild' = [guild EXCEPT ![p] = None]
    /\ channel' = [channel EXCEPT ![p] = None]
    /\ account' = [account EXCEPT ![p] = None]
    /\ online' = [online EXCEPT ![p] = FALSE]
    /\ UNCHANGED <<discord, command, tries, before, printed, seen, effect>>

-----------------------------------------------------------------------------
(***************************************************************************)
(* Writes.                                                                 *)
(***************************************************************************)
Op(p) == command[p].op

Target(p) == <<command[p].message, channel[p]>>

\* Discord answers 404 to this write.
Gone(p) ==
    \/ ~Alive(channel[p])
    \/ Op(p) # "send" /\ Target(p) \notin there
    \/ Op(p) = "unreact" /\ Target(p) \notin reacted

\* What the write changes.
Apply(p) ==
    /\ there' = CASE Op(p) = "send" -> there \cup {<<posted + 1, channel[p]>>}
                  [] Op(p) = "delete" -> there \ {Target(p)}
                  [] OTHER -> there
    /\ posted' = IF Op(p) = "send" THEN posted + 1 ELSE posted
    /\ reacted' = CASE Op(p) = "react" -> reacted \cup {Target(p)}
                    [] Op(p) \in {"delete", "unreact"} -> reacted \ {Target(p)}
                    [] OTHER -> reacted
    /\ UNCHANGED <<name, changes>>
    /\ effect' = [effect EXCEPT ![p] = @ + 1]

\* The commands that take a 404 for success: what they were asked to remove is
\* not there.
Idempotent(p) == Op(p) \in {"delete", "unreact"}

InWrite(p) == \E stage \in WriteStage : Stage(p, stage)

\* readOnlyDriver lets no request but a GET out of a read-only account.
Transmit(p) ==
    /\ InWrite(p) /\ ~ReadOnly(p)
    /\ GoOnline(p)
    /\ tries' = [tries EXCEPT ![p] = @ + 1]
    /\ UNCHANGED <<command, account, guild, channel, before, printed, seen>>

\* The write is carried out and its answer arrives.
Answered(p) ==
    /\ Transmit(p) /\ ~Gone(p)
    /\ Apply(p)
    /\ Report(p, "ok")

\* Discord does not know the channel, the message or the reaction.
NotFound(p) ==
    /\ Transmit(p) /\ Gone(p)
    /\ Report(p, IF Idempotent(p) THEN "noop" ELSE Translate("gone"))
    /\ UNCHANGED <<discord, effect>>

\* Mutant of Denied: every error of a removal is taken for a 404.
DeniedIsGone(p, failure) ==
    /\ failure \in Faults \ {"lost"}
    /\ Transmit(p)
    /\ Report(p, IF Idempotent(p) THEN "noop" ELSE Translate(failure))
    /\ UNCHANGED <<discord, effect>>

\* Discord refuses the write, with another status than 404.
Denied(p, failure) ==
    /\ failure \in Faults \ {"lost"}
    /\ Transmit(p)
    /\ Report(p, Translate(failure))
    /\ UNCHANGED <<discord, effect>>

\* The request or its answer is lost: the write may have been carried out.  The
\* transport sends it again, and gives up after MaxTries attempts.
Lost(p) ==
    /\ "lost" \in Faults
    /\ Transmit(p)
    /\ \/ UNCHANGED <<discord, effect>>
       \/ ~Gone(p) /\ Apply(p)
    /\ IF tries[p] + 1 < MaxTries
       THEN UNCHANGED <<verdict, todo>>
       ELSE Report(p, Translate("lost"))

-----------------------------------------------------------------------------
(***************************************************************************)
(* The others on Discord.                                                  *)
(***************************************************************************)

\* A guild or channel gets another name.
Rename(x, w) ==
    /\ name[x] # None /\ name[x] # w
    /\ name' = [name EXCEPT ![x] = w]
    /\ UNCHANGED <<there, posted, reacted>>

\* A guild or channel goes, and its messages with it.
Vanish(x) ==
    /\ name[x] # None
    /\ name' = [name EXCEPT ![x] = None]
    /\ there' = {m \in there : m[2] # x /\ Parent[m[2]] # x}
    /\ reacted' = reacted \cap there'
    /\ UNCHANGED posted

\* Somebody posts or deletes a message.
Post(c) ==
    /\ Alive(c) /\ c \in Readable
    /\ there' = there \cup {<<posted + 1, c>>}
    /\ posted' = posted + 1
    /\ UNCHANGED <<name, reacted>>

Remove(m) ==
    /\ there' = there \ {m} /\ reacted' = reacted \ {m}
    /\ UNCHANGED <<name, posted>>

\* Another client of the account adds its reaction.
React(m) ==
    /\ m \notin reacted
    /\ reacted' = reacted \cup {m}
    /\ UNCHANGED <<name, there, posted>>

\* What changes before a command is online it cannot tell from other values of
\* Names and Messages, and what changes after its report it does not see.
Environment ==
    /\ \E p \in Process : online[p] /\ verdict[p] = None
    /\ \/ \E x \in Place : Vanish(x) \/ \E w \in Word : Rename(x, w)
       \/ \E c \in Channel : Post(c)
       \/ \E m \in there : Remove(m) \/ React(m)
    /\ changes < MaxChanges /\ changes' = changes + 1
    /\ UNCHANGED <<command, account, todo, guild, channel, tries, verdict, record>>

-----------------------------------------------------------------------------
Init ==
    /\ name \in Names
    /\ there = Messages /\ reacted = {} /\ changes = 0
    /\ posted = Cardinality(Messages)
    /\ command = [p \in Process |-> None]
    /\ account = [p \in Process |-> None]
    /\ todo = [p \in Process |-> <<>>]
    /\ guild = [p \in Process |-> None]
    /\ channel = [p \in Process |-> None]
    /\ tries = [p \in Process |-> 0]
    /\ verdict = [p \in Process |-> None]
    /\ before = [p \in Process |-> None]
    /\ printed = [p \in Process |-> <<>>]
    /\ online = [p \in Process |-> FALSE]
    /\ seen = [p \in Process |-> [guild |-> name, channel |-> name]]
    /\ effect = [p \in Process |-> 0]

Step(p) ==
    \/ CheckArguments(p) \/ Client(p) \/ RequireWrite(p) \/ RequireUser(p) \/ CheckLate(p)
    \/ ResolveGuild(p) \/ ResolveChannel(p)
    \/ Fetch(p) \/ FetchPage(p)
    \/ Answered(p) \/ NotFound(p) \/ Lost(p)
    \/ \E failure \in Failures : LookupFails(p, failure) \/ Denied(p, failure)

Next ==
    \/ \E p \in Process : Step(p) \/ NextPage(p) \/ \E c \in Command : Begin(p, c)
    \/ Environment

Spec == Init /\ [][Next]_vars

-----------------------------------------------------------------------------
(***************************************************************************)
(* Properties.                                                             *)
(***************************************************************************)
Listing == [Place -> Word \cup {None}]

TypeOK ==
    /\ name \in Listing
    /\ posted \in Nat /\ changes \in 0..MaxChanges
    /\ there \subseteq (1..posted) \X Channel
    /\ reacted \subseteq there
    /\ command \in [Process -> Command \cup {None}]
    /\ account \in [Process -> Account \cup {None}]
    /\ guild \in [Process -> Guild \cup {None}]
    /\ channel \in [Process -> Channel \cup {None}]
    /\ tries \in [Process -> 0..MaxTries]
    /\ verdict \in [Process -> Verdicts \cup {None}]
    /\ before \in [Process -> Nat \cup {None}]
    /\ printed \in [Process -> Seq(Nat \X Channel)]
    /\ online \in [Process -> BOOLEAN]
    /\ seen \in [Process -> [guild : Listing, channel : Listing]]
    /\ effect \in [Process -> 0..MaxTries]

\* "A name that matches several guilds is an error listing the candidates,
\* never a guess" (resolve.go), and the same for channels: among the places
\* listed, x is the only one with the name w or, if none has it, the only one
\* whose name contains w.
SinglesOut(names, places, w, x) ==
    /\ x \in places
    /\ names[x] = w \/ <<w, names[x]>> \in Within
    /\ \A y \in places \ {x} :
          names[y] # w /\ (names[x] = w \/ <<w, names[y]>> \notin Within)

\* Whatever is renamed meanwhile, the channel a command reads from or writes to
\* is the one that its reference singled out in the listing it was looked up
\* in, and belongs to the guild singled out before it.
NeverAGuess ==
    \A p \in Process : channel[p] # None =>
        LET ref == command[p].ref
        IN  /\ ref.guild \in Word =>
                  SinglesOut(seen[p].guild, Guilds(seen[p].guild), ref.guild, guild[p])
            /\ ref.guild \in Guild => guild[p] = ref.guild
            /\ ref.channel \in Word =>
                  SinglesOut(seen[p].channel, Channels(seen[p].channel, guild[p]),
                             ref.channel, channel[p])
            /\ ref.channel \in Channel => channel[p] = ref.channel

\* A command that is refused for its scope, for want of an account or for an
\* argument that is checked first has not made a single request, whether or not
\* its target exists; and a read-only account never gets as far as one that
\* writes.
RefusedOffline ==
    \A p \in Process :
        /\ verdict[p] = "READ_ONLY" \/ (verdict[p] # None /\ account[p] = None) => ~online[p]
        /\ verdict[p] = "VALIDATION_ERROR" /\ command[p].bad = "early" => ~online[p]
        /\ account[p] # None /\ ReadOnly(p) /\ Op(p) \in Writes => ~online[p] /\ effect[p] = 0

\* What a command has reported is so: a message reported deleted, or gone
\* already, is gone, a write that is reported has been carried out, and one
\* that is reported as failed has not, unless an answer was lost on the way.
ReportsHold ==
    \A p \in Process : verdict[p] # None =>
        /\ Op(p) = "delete" /\ verdict[p] \in {"ok", "noop"} => Target(p) \notin there
        /\ Op(p) \in Writes /\ verdict[p] = "ok" => effect[p] > 0
        /\ verdict[p] = "noop" => Idempotent(p)
        /\ verdict[p] \notin {"ok", "noop"} /\ effect[p] > 0 =>
              verdict[p] = "NETWORK_ERROR" \/ tries[p] > 1

\* Following the hints of messages, an agent reads no message twice, in order,
\* and misses none that is still there between two it has read, whatever is
\* posted and deleted meanwhile, as long as its reference finds the same
\* channel.
PagesExact ==
    \A p \in Process :
        LET pages == printed[p]
        IN  /\ \A i, j \in DOMAIN pages : i < j => pages[i][1] > pages[j][1]
            /\ \A i, j \in DOMAIN pages, m \in there :
                  /\ \A k \in DOMAIN pages : pages[k][2] = m[2]
                  /\ pages[j][1] < m[1] /\ m[1] < pages[i][1]
                  => \E k \in DOMAIN pages : pages[k] = m

=============================================================================

-------------------------------- MODULE Argv --------------------------------
(***************************************************************************)
(* From the command line to the command (internal/axi/cli.go, flags.go):   *)
(* App.Run picks the command, Parse reads the arguments one after another, *)
(* and a command that the daemon serves looks at its arguments once more,  *)
(* with accountFromArgs, before it checks the values of its flags.         *)
(*                                                                         *)
(* An argument is a text.  All that matters of one is whether it begins    *)
(* with a dash, what stands before and after its first "=", and whether it *)
(* is a positive number.  Of errors only the exit code is kept.            *)
(***************************************************************************)
EXTENDS Integers, Sequences, FiniteSets

CONSTANTS
    Text,     \* the texts that arguments and values may be
    Dashed,   \* those that begin with a dash
    NameOf,   \* the part of each text before the first "="
    InlineOf, \* the part after it, None if there is none
    Positive, \* the texts that are positive numbers
    Empty,    \* the empty text
    Account,  \* the text "--account"
    Help,     \* the texts that ask for help
    Version,  \* the texts that ask for the version
    Boolean,  \* the flags that take no value
    Command,  \* what each command accepts, by its name
    Served,   \* the commands that a daemon serves
    Argv,     \* the command lines
    None

CommandSpec == [args : Nat, needed : Nat, flags : SUBSET Text, required : SUBSET Text,
          numbers : SUBSET Text, defaults : [Text -> Text \cup {None}]]

\* What a process can come to.
Results == {"home", "version", "help", "usage", "ran"}

ASSUME ConstantsOK ==
    /\ None \notin Text \cup Results /\ Empty \in Text \ Dashed /\ Account \in Dashed
    /\ NameOf \in [Text -> Text] /\ InlineOf \in [Text -> Text \cup {None}]
    /\ \A t \in Text : t \in Dashed <=> NameOf[t] \in Dashed
    /\ DOMAIN Command \subseteq Text \ Dashed
    /\ \A c \in DOMAIN Command :
          /\ Command[c] \in CommandSpec
          /\ Account \in Command[c].flags \ Boolean /\ Command[c].flags \subseteq Dashed
          /\ Command[c].defaults[Account] = None
    /\ Served \subseteq DOMAIN Command
    /\ Argv \subseteq Seq(Text)

VARIABLES
    argv,       \* the arguments of the process
    pc,         \* "dispatch", "parse", "check", "run" or "done"
    command,    \* the command they name
    raw,        \* the arguments after the command
    index,      \* the argument that Parse looks at
    positional, \* the positional arguments read so far
    strings,    \* the value of each flag that has one, at first its default
    booleans,   \* the flags without values that have been given
    hint,       \* the account that the daemon layer has read
    exit        \* what the process has come to

invocation == <<positional, strings, booleans>>
vars == <<argv, pc, command, raw, index, invocation, hint, exit>>

Init ==
    /\ argv \in Argv
    /\ pc = "dispatch"
    /\ command = None
    /\ raw = <<>> /\ index = 1
    /\ positional = <<>>
    /\ strings = [t \in Text |-> None]
    /\ booleans = {}
    /\ hint = None /\ exit = None

Exit(result) ==
    /\ pc' = "done"
    /\ exit' = result

-----------------------------------------------------------------------------
(***************************************************************************)
(* App.Run.                                                                *)
(***************************************************************************)
Asks(texts) == \E i \in DOMAIN argv : i > 1 /\ argv[i] \in texts

\* The version, the help or the home view, none of which takes arguments.
ShowTop ==
    /\ pc = "dispatch"
    /\ \/ Len(argv) = 0 /\ Exit("home")
       \/ Len(argv) = 1 /\ argv[1] \in Version /\ Exit("version")
       \/ Len(argv) = 1 /\ argv[1] \in Help /\ Exit("help")
    /\ UNCHANGED <<argv, command, raw, index, invocation, hint>>

\* A flag stands before the command, or there is no such command.
NoCommand ==
    /\ pc = "dispatch"
    /\ Len(argv) > 0 /\ ~(Len(argv) = 1 /\ argv[1] \in Help \cup Version)
    /\ argv[1] \in Dashed \/ argv[1] \notin DOMAIN Command
    /\ Exit("usage")
    /\ UNCHANGED <<argv, command, raw, index, invocation, hint>>

\* --help is looked for in every place, also where it is the value of a flag.
CommandHelp ==
    /\ pc = "dispatch"
    /\ Len(argv) > 0 /\ argv[1] \in DOMAIN Command
    /\ Asks(Help)
    /\ Exit("help")
    /\ UNCHANGED <<argv, command, raw, index, invocation, hint>>

StartParse ==
    /\ pc = "dispatch"
    /\ Len(argv) > 0 /\ argv[1] \in DOMAIN Command
    /\ ~Asks(Help)
    /\ command' = argv[1]
    /\ raw' = Tail(argv)
    /\ strings' = Command[argv[1]].defaults
    /\ pc' = "parse"
    /\ UNCHANGED <<argv, index, positional, booleans, hint, exit>>

-----------------------------------------------------------------------------
(***************************************************************************)
(* Parse.                                                                  *)
(***************************************************************************)
Looking == pc = "parse" /\ index <= Len(raw)

Flag(i) == NameOf[raw[i]]

Known(i) == raw[i] \in Dashed /\ Flag(i) \in Command[command].flags

Inline(i) == InlineOf[raw[i]] # None

Positional ==
    /\ Looking /\ raw[index] \notin Dashed
    /\ positional' = Append(positional, raw[index])
    /\ index' = index + 1
    /\ UNCHANGED <<argv, pc, command, raw, strings, booleans, hint, exit>>

\* Mutant of BadFlag: an unknown flag is skipped.
SkipUnknown ==
    /\ Looking /\ raw[index] \in Dashed /\ ~Known(index)
    /\ index' = index + 1
    /\ UNCHANGED <<argv, pc, command, raw, invocation, hint, exit>>

\* The flag is unknown, has a value that it does not take, or lacks its value.
BadFlag ==
    /\ Looking /\ raw[index] \in Dashed
    /\ \/ ~Known(index)
       \/ Known(index) /\ Flag(index) \in Boolean /\ Inline(index)
       \/ Known(index) /\ Flag(index) \notin Boolean /\ ~Inline(index) /\ index = Len(raw)
    /\ Exit("usage")
    /\ UNCHANGED <<argv, command, raw, index, invocation, hint>>

BooleanFlag ==
    /\ Looking /\ Known(index) /\ Flag(index) \in Boolean /\ ~Inline(index)
    /\ booleans' = booleans \cup {Flag(index)}
    /\ index' = index + 1
    /\ UNCHANGED <<argv, pc, command, raw, positional, strings, hint, exit>>

\* Mutant of InlineValue: the next argument is taken along.
InlineAndNext ==
    /\ Looking /\ Known(index) /\ Flag(index) \notin Boolean /\ Inline(index)
    /\ strings' = [strings EXCEPT ![Flag(index)] = InlineOf[raw[index]]]
    /\ index' = index + 2
    /\ UNCHANGED <<argv, pc, command, raw, positional, booleans, hint, exit>>

\* --name=value
InlineValue ==
    /\ Looking /\ Known(index) /\ Flag(index) \notin Boolean /\ Inline(index)
    /\ strings' = [strings EXCEPT ![Flag(index)] = InlineOf[raw[index]]]
    /\ index' = index + 1
    /\ UNCHANGED <<argv, pc, command, raw, positional, booleans, hint, exit>>

\* --name value, whatever the value looks like
NextValue ==
    /\ Looking /\ Known(index) /\ Flag(index) \notin Boolean /\ ~Inline(index)
    /\ index < Len(raw)
    /\ strings' = [strings EXCEPT ![Flag(index)] = raw[index + 1]]
    /\ index' = index + 2
    /\ UNCHANGED <<argv, pc, command, raw, positional, booleans, hint, exit>>

\* An empty value is as good as none.
Missing(flags, values) == {f \in flags : values[f] \in {None, Empty}}

\* Mutant of EndOfArguments: one argument more than needed is asked for.
NeedsOneMore ==
    /\ pc = "parse" /\ index > Len(raw)
    /\ IF \/ Len(positional) > Command[command].args
          \/ Len(positional) <= Command[command].needed
          \/ Missing(Command[command].required, strings) # {}
       THEN Exit("usage")
       ELSE pc' = "run" /\ UNCHANGED exit
    /\ UNCHANGED <<argv, command, raw, index, invocation, hint>>

\* Arguments are counted, and required flags looked for.
EndOfArguments ==
    /\ pc = "parse" /\ index > Len(raw)
    /\ IF \/ Len(positional) > Command[command].args
          \/ Len(positional) < Command[command].needed
          \/ Missing(Command[command].required, strings) # {}
       THEN Exit("usage")
       ELSE pc' = "run" /\ UNCHANGED exit
    /\ UNCHANGED <<argv, command, raw, index, invocation, hint>>

-----------------------------------------------------------------------------
(***************************************************************************)
(* The command: what a daemon serves is forwarded, with the account that   *)
(* accountFromArgs finds if the daemon has to be started; then the values  *)
(* of numbers are looked at.                                               *)
(***************************************************************************)
\* The arguments with this name, in whatever place.
Named(args, name) == {i \in DOMAIN args : NameOf[args[i]] = name}

\* Mutant of accountFromArgs: only --account <name> is understood.
NextFromArgs(args) ==
    LET found == Named(args, Account)
        first == CHOOSE i \in found : \A j \in found : i <= j
    IN  IF found = {} \/ first = Len(args) THEN None ELSE args[first + 1]

accountFromArgs(args) ==
    LET found == Named(args, Account)
        first == CHOOSE i \in found : \A j \in found : i <= j
    IN  IF found = {} THEN None
        ELSE IF InlineOf[args[first]] # None THEN InlineOf[args[first]]
        ELSE IF first = Len(args) THEN None
        ELSE args[first + 1]

\* Uint takes an empty value for no limit.
Uint(value) == value \in Positive \cup {Empty, None}

Run ==
    /\ pc = "run"
    /\ hint' = IF command \in Served THEN accountFromArgs(raw) ELSE None
    /\ Exit(IF \A f \in Command[command].numbers : Uint(strings[f]) THEN "ran" ELSE "usage")
    /\ UNCHANGED <<argv, command, raw, index, invocation>>

Next ==
    \/ ShowTop \/ NoCommand \/ CommandHelp \/ StartParse
    \/ Positional \/ BadFlag \/ BooleanFlag \/ InlineValue \/ NextValue \/ EndOfArguments
    \/ Run

Parsing == Init /\ [][Next]_vars

-----------------------------------------------------------------------------
(***************************************************************************)
(* Properties.                                                             *)
(***************************************************************************)
TypeOK ==
    /\ argv \in Argv
    /\ pc \in {"dispatch", "parse", "run", "done"}
    /\ command \in DOMAIN Command \cup {None}
    /\ pc \in {"parse", "run"} => command # None
    /\ raw \in Seq(Text)
    /\ index \in 1 .. Len(raw) + 1
    /\ positional \in Seq(Text)
    /\ strings \in [Text -> Text \cup {None}]
    /\ booleans \subseteq Text
    /\ hint \in Text \cup {None}
    /\ exit \in Results \cup {None}

(***************************************************************************)
(* What a command line means, without a parser: each argument plays one    *)
(* role, and only the role of its predecessor and its own text decide      *)
(* which.                                                                  *)
(***************************************************************************)
Role == {"positional", "switch", "setting", "name", "value"}

MayBe(role, i) ==
    CASE role[i] = "positional" -> raw[i] \notin Dashed
      [] role[i] = "switch"  -> Known(i) /\ Flag(i) \in Boolean /\ ~Inline(i)
      [] role[i] = "setting" -> Known(i) /\ Flag(i) \notin Boolean /\ Inline(i)
      [] role[i] = "name"    -> Known(i) /\ Flag(i) \notin Boolean /\ ~Inline(i)
      [] role[i] = "value"   -> TRUE

\* The first n arguments play these roles.
Reading(role, n) ==
    /\ \A i \in 1..n : /\ MayBe(role, i)
                       /\ role[i] = "value" <=> i > 1 /\ role[i - 1] = "name"
    /\ n > 0 => role[n] # "name"

Playing(role, n, parts) == {i \in 1..n : role[i] \in parts}

\* The positional arguments are those that play this role, in their order.
PositionalsRead(role, n) ==
    \E at \in [1..Len(positional) -> 1..n] :
        /\ \A k, l \in 1..Len(positional) : k < l => at[k] < at[l]
        /\ \A k \in 1..Len(positional) : positional[k] = raw[at[k]]
        /\ {at[k] : k \in 1..Len(positional)} = Playing(role, n, {"positional"})

ValueAt(role, i) == IF role[i] = "setting" THEN InlineOf[raw[i]] ELSE raw[i + 1]

\* A flag has the value it was given last, or its default.
StringsRead(role, n) ==
    \A f \in Text :
        LET given == {i \in Playing(role, n, {"setting", "name"}) : Flag(i) = f}
        IN  IF given = {} THEN strings[f] = Command[command].defaults[f]
            ELSE \E i \in given : (\A j \in given : j <= i) /\ strings[f] = ValueAt(role, i)

BooleansRead(role, n) == booleans = {Flag(i) : i \in Playing(role, n, {"switch"})}

Means(role, n) ==
    Reading(role, n) /\ PositionalsRead(role, n) /\ StringsRead(role, n) /\ BooleansRead(role, n)

\* "An unrecognized flag is rejected by name rather than silently dropped"
\* (flags.go), and no other argument either: what a command is run with is
\* what its whole command line means.
NothingDropped ==
    pc = "run" \/ exit = "ran" =>
        \E role \in [1..Len(raw) -> Role] : Means(role, Len(raw))

\* A command line is refused only if it has no meaning, has too many or too few
\* arguments, lacks a required flag or has a number that is none.
RefusedForReason ==
    exit = "usage" /\ command # None =>
        \A role \in [1..Len(raw) -> Role] :
            \/ ~Reading(role, Len(raw))
            \/ Cardinality(Playing(role, Len(raw), {"positional"}))
                  \notin Command[command].needed .. Command[command].args
            \/ Missing(Command[command].required, strings) # {}
            \/ \E f \in Command[command].numbers : ~Uint(strings[f])

\* The daemon is started "for that account rather than the default one"
\* (daemon.go, credentialsFor): the daemon layer finds the account that the
\* parser finds, whichever way it is written, as long as no argument but one
\* names the flag, and none as a value.
AccountsAgree ==
    pc = "done" /\ command \in Served /\ exit = "ran" =>
        \/ Cardinality(Named(raw, Account)) > 1
        \/ Named(raw, Account) # {} /\ strings[Account] = None
        \/ hint = strings[Account]

=============================================================================

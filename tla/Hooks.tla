------------------------------- MODULE Hooks --------------------------------
(***************************************************************************)
(* setup hooks (internal/axi/hooks.go, installHooks in app/home.go): each  *)
(* process goes through four files of other programs, in each of which it  *)
(* looks for its entry, and rewrites the file if it has to.  Nothing locks *)
(* the files, and a file is empty between truncating and writing it.  The  *)
(* owners of the files, which are other programs and the user, write them  *)
(* whenever they like.                                                     *)
(*                                                                         *)
(* A settings file is the sequence of its session-start commands; what     *)
(* else it holds, how the commands are grouped and keys of a type that the *)
(* program does not expect are left out.  The Codex config is the sequence *)
(* of its lines, of which only the kind is kept.  A plugin is known by who *)
(* has written it.                                                         *)
(***************************************************************************)
EXTENDS Integers, Sequences, FiniteSets, SequencesExt, TLC

CONSTANTS
    Process,   \* processes that run setup hooks
    Order,     \* the files, in the order in which they are gone through
    Hook,      \* the commands that settings may hold
    Managed,   \* those that contain the marker, the name of the program
    Marker,    \* the marker itself
    ExecPaths, \* what the executable may be called
    Contents,  \* what the files may hold at first
    Edits,     \* what their owners may write later: records [of : file, to : content]
    Faults,    \* a subset of {"crash", "diskFails", "noHome", "readFails", "edit"}
    MaxFaults, \* bound: how many of these occur
    Absent, Torn, None

Settings == {"Claude Code", "Codex"}

Targets == Settings \cup {"Codex config", "OpenCode"}

Target == {Order[i] : i \in DOMAIN Order}

Entry == [command : Hook, right : BOOLEAN]

\* "on" and "off" set the key hooks, "section" begins another section.
Line == {"blank", "[features]", "section", "on", "off", "key"}

\* The plugin of a user, one that was generated and has been edited since, and
\* one as it is generated for a command; the last two contain the marker.
Plugin == {"unmanaged", "edited"} \cup Hook

IsContent(t, content) ==
    CASE t \in Settings     -> content \in Seq(Entry) \cup {Absent, Torn}
      [] t = "Codex config" -> content \in Seq(Line) \cup {Absent}
      [] t = "OpenCode"     -> content \in Plugin \cup {Absent, Torn}

ASSUME ConstantsOK ==
    /\ IsFiniteSet(Process)
    /\ Order \in Seq(Targets) /\ Len(Order) > 0
    /\ \A i, j \in DOMAIN Order : Order[i] = Order[j] => i = j
    /\ Managed \subseteq Hook /\ Marker \in Managed /\ ExecPaths \subseteq Hook
    /\ \A files \in Contents : DOMAIN files = Target /\ \A t \in Target : IsContent(t, files[t])
    /\ \A e \in Edits : e.of \in Target /\ IsContent(e.of, e.to) /\ e.to # Absent
    /\ {"unmanaged", "edited"} \cap Hook = {} /\ MaxFaults \in Nat
    /\ Absent # Torn
    /\ \A v \in {Absent, Torn, None} : v \notin Seq(Entry) \cup Seq(Line) \cup Plugin
    /\ None \notin {Absent, Torn, "same", "installed", "failed", "ok", "SETUP_FAILED"}

VARIABLES
    file,        \* the content of each file
    theirs,      \* history: what its owners have last put into it
    edited,      \* history: the files that their owners have written
    command,     \* the command that each process installs
    pc,          \* "idle", "read", "truncate", "write", "done" or "dead"
    at,          \* the place in Order of the file that the process is at
    plan,        \* what it is about to write
    sight,       \* history: "clear" if the plan is made of what owners have last written,
                 \* "blind" if reading failed or they have written since, "replaced" if
                 \* they have written since the process has opened the file
    result,      \* what it has done to each file
    exit,        \* what it has reported in the end
    damaged,     \* history: the files hit by a crash, a full disk or two processes at once
    overwritten, \* history: the files written by a process without clear sight
    faults       \* how many faults and edits have occurred

vars == <<file, theirs, edited, command, pc, at, plan, sight, result, exit, damaged,
          overwritten, faults>>

-----------------------------------------------------------------------------
\* The command that is installed: the bare name of the program if PATH finds this
\* executable by it, else the path of the executable, which need not contain the name.
portableCommand == {Marker} \cup ExecPaths

(***************************************************************************)
(* The session-start entry of a settings file.                             *)
(***************************************************************************)
Lowest(indices) == CHOOSE i \in indices : \A j \in indices : i <= j

Wanted(c) == [command |-> c, right |-> TRUE]

\* Mutant of applySessionStartHook: only an entry with this very command is its own.
AddUnlessThere(entries, c) ==
    IF \E i \in DOMAIN entries : entries[i] = Wanted(c) THEN entries
    ELSE Append(entries, Wanted(c))

\* The first entry that contains the marker is repaired, or one is added.
applySessionStartHook(entries, c) ==
    LET ours == {i \in DOMAIN entries : entries[i].command \in Managed}
    IN  IF ours = {} THEN Append(entries, Wanted(c))
        ELSE [entries EXCEPT ![Lowest(ours)] = Wanted(c)]

-----------------------------------------------------------------------------
(***************************************************************************)
(* [features].hooks of the Codex config.                                   *)
(***************************************************************************)
IsHeader(line) == line \in {"[features]", "section"}

IsFlag(line) == line \in {"on", "off"}

Headers(lines, i) == {j \in 1..i : IsHeader(lines[j])}

\* The section that line i belongs to, 0 for the lines before the first.
SectionOf(lines, i) == IF Headers(lines, i) = {} THEN 0
                       ELSE CHOOSE j \in Headers(lines, i) : \A k \in Headers(lines, i) : k <= j

InFeatures(lines, i) ==
    SectionOf(lines, i) # 0 /\ lines[SectionOf(lines, i)] = "[features]"

HooksOn(lines) == \E i \in DOMAIN lines : lines[i] = "on" /\ InFeatures(lines, i)

\* Mutant of codexHooksEnabled: hooks is the same key in every section.
EnableAnywhere(lines) ==
    LET flags == {i \in DOMAIN lines : IsFlag(lines[i])}
    IN  IF flags # {} THEN [lines EXCEPT ![Lowest(flags)] = "on"]
        ELSE lines \o <<"blank", "[features]", "on">>

\* Mutant of codexHooksEnabled: the key goes to the end of the file.
EnableAtEnd(lines) ==
    LET starts == {i \in DOMAIN lines : lines[i] = "[features]"}
        start == Lowest(starts)
        later == {i \in DOMAIN lines : i > start /\ IsHeader(lines[i])}
        end == IF later = {} THEN Len(lines) + 1 ELSE Lowest(later)
        flags == {i \in DOMAIN lines : start < i /\ i < end /\ IsFlag(lines[i])}
    IN  IF starts = {} THEN lines \o <<"blank", "[features]", "on">>
        ELSE IF flags = {} THEN Append(lines, "on")
        ELSE [lines EXCEPT ![Lowest(flags)] = "on"]

\* Mutant of codexHooksEnabled: the section goes to the beginning of the file.
EnableInFront(lines) ==
    IF HooksOn(lines) THEN lines ELSE <<"[features]", "on">> \o lines

\* The key is set in the first section [features], added to its end, or added
\* with the section to the end of the file.
codexHooksEnabled(lines) ==
    LET starts == {i \in DOMAIN lines : lines[i] = "[features]"}
        start == Lowest(starts)
        later == {i \in DOMAIN lines : i > start /\ IsHeader(lines[i])}
        end == IF later = {} THEN Len(lines) + 1 ELSE Lowest(later)
        flags == {i \in DOMAIN lines : start < i /\ i < end /\ IsFlag(lines[i])}
    IN  IF \A i \in DOMAIN lines : lines[i] = "blank" THEN <<"[features]", "on">>
        ELSE IF starts = {} THEN lines \o <<"blank", "[features]", "on">>
        ELSE IF flags = {} THEN InsertAt(lines, end, "on")
        ELSE [lines EXCEPT ![Lowest(flags)] = "on"]

-----------------------------------------------------------------------------
\* Settings that do not parse are refused, and so is a plugin without the
\* marker; a file of lines is never refused.
Refused(t, content) ==
    CASE t \in Settings     -> content = Torn
      [] t = "Codex config" -> FALSE
      [] t = "OpenCode"     -> content \in {"unmanaged", Torn}

Present(content) == IF content = Absent THEN <<>> ELSE content

\* What the file should hold, given what it holds.
Updated(t, content, c) ==
    CASE t \in Settings     -> applySessionStartHook(Present(content), c)
      [] t = "Codex config" -> codexHooksEnabled(Present(content))
      [] t = "OpenCode"     -> c

\* A file that has been truncated.
Emptied(t) == IF t = "Codex config" THEN <<>> ELSE Torn

Overlaid(content, old) == content \o SubSeq(old, Len(content) + 1, Len(old))

\* What may be left of a write that fails half-way: nothing of it has been
\* written, or some lines, or a plugin's first line, which holds the marker.
Partial(t, content, old) ==
    CASE t \in Settings     -> {old, Torn}
      [] t = "Codex config" -> {Overlaid(SubSeq(content, 1, n), old) : n \in 0 .. Len(content) - 1}
      [] t = "OpenCode"     -> {old, Torn, "edited"}

\* What a write leaves in a file that somebody else has written since it was
\* truncated: the rest of a longer text stays.
Mixed(t, content, old) ==
    CASE t \in Settings     -> {content, Torn}
      [] t = "Codex config" -> {Overlaid(content, old)}
      [] t = "OpenCode"     -> {content, "edited"}

-----------------------------------------------------------------------------
\* Mutant of Leave: no file is the last one.
LeaveForMore(p, outcome) ==
    /\ result' = [result EXCEPT ![p][Order[at[p]]] = outcome]
    /\ plan' = [plan EXCEPT ![p] = None]
    /\ sight' = [sight EXCEPT ![p] = "clear"]
    /\ at' = [at EXCEPT ![p] = @ + 1]
    /\ pc' = [pc EXCEPT ![p] = "read"]
    /\ UNCHANGED exit

\* The process has dealt with its file and goes on to the next one; after the
\* last one installHooks fails if every file has failed.
Leave(p, outcome) ==
    /\ result' = [result EXCEPT ![p][Order[at[p]]] = outcome]
    /\ plan' = [plan EXCEPT ![p] = None]
    /\ sight' = [sight EXCEPT ![p] = "clear"]
    /\ at' = [at EXCEPT ![p] = @ + 1]
    /\ IF at[p] < Len(Order)
       THEN pc' = [pc EXCEPT ![p] = "read"] /\ UNCHANGED exit
       ELSE /\ pc' = [pc EXCEPT ![p] = "done"]
            /\ exit' = [exit EXCEPT ![p] = IF \A t \in Target : result'[p][t] = "failed"
                                           THEN "SETUP_FAILED" ELSE "ok"]

\* Something goes wrong that may, or an owner comes in between.
Fault(fault) ==
    /\ fault \in Faults /\ faults < MaxFaults
    /\ faults' = faults + 1

Begin(p) ==
    /\ pc[p] = "idle"
    /\ \E c \in portableCommand : command' = [command EXCEPT ![p] = c]
    /\ pc' = [pc EXCEPT ![p] = "read"]
    /\ UNCHANGED <<file, theirs, edited, at, plan, sight, result, exit, damaged, overwritten,
                   faults>>

\* Without a home directory there is nothing to install into.
NoHome(p) ==
    /\ Fault("noHome")
    /\ pc[p] = "idle"
    /\ pc' = [pc EXCEPT ![p] = "done"]
    /\ exit' = [exit EXCEPT ![p] = "SETUP_FAILED"]
    /\ UNCHANGED <<file, theirs, edited, command, at, plan, sight, result, damaged, overwritten>>

BeingWritten(t) == \E p \in Process : pc[p] = "write" /\ Order[at[p]] = t

\* Mutant of Read: settings that do not parse count as none.
ReadAnything(p) ==
    LET t == Order[at[p]]
        content == IF file[t] = Torn THEN Absent ELSE file[t]
        updated == Updated(t, content, command[p])
    IN  /\ pc[p] = "read"
        /\ damaged' = IF t = "Codex config" /\ BeingWritten(t) THEN damaged \cup {t} ELSE damaged
        /\ IF updated = content THEN Leave(p, "same")
           ELSE /\ plan' = [plan EXCEPT ![p] = updated]
                /\ pc' = [pc EXCEPT ![p] = "truncate"]
                /\ UNCHANGED <<at, sight, result, exit>>
        /\ UNCHANGED <<file, theirs, edited, command, overwritten, faults>>

\* The file is read: it is refused, holds what it should, or has to be written.
Read(p) ==
    LET t == Order[at[p]]
        updated == Updated(t, file[t], command[p])
    IN  /\ pc[p] = "read"
        /\ damaged' = IF t = "Codex config" /\ BeingWritten(t) THEN damaged \cup {t} ELSE damaged
        /\ IF Refused(t, file[t]) THEN Leave(p, "failed")
           ELSE IF updated = file[t] THEN Leave(p, "same")
           ELSE /\ plan' = [plan EXCEPT ![p] = updated]
                /\ pc' = [pc EXCEPT ![p] = "truncate"]
                /\ UNCHANGED <<at, sight, result, exit>>
        /\ UNCHANGED <<file, theirs, edited, command, overwritten, faults>>

\* The file is there but cannot be read, which is taken for its absence.
ReadFails(p) ==
    LET t == Order[at[p]]
    IN  /\ Fault("readFails")
        /\ pc[p] = "read" /\ file[t] # Absent
        /\ plan' = [plan EXCEPT ![p] = Updated(t, Absent, command[p])]
        /\ sight' = [sight EXCEPT ![p] = "blind"]
        /\ pc' = [pc EXCEPT ![p] = "truncate"]
        /\ UNCHANGED <<file, theirs, edited, command, at, result, exit, damaged, overwritten>>

\* What the owners have written is lost to a process that has not seen it.
Overwrite(p) ==
    overwritten' = IF sight[p] = "clear" THEN overwritten ELSE overwritten \cup {Order[at[p]]}

\* WriteFile opens the file, which creates or truncates it ...
Truncate(p) ==
    /\ pc[p] = "truncate"
    /\ file' = [file EXCEPT ![Order[at[p]]] = Emptied(Order[at[p]])]
    /\ Overwrite(p)
    /\ pc' = [pc EXCEPT ![p] = "write"]
    /\ UNCHANGED <<theirs, edited, command, at, plan, sight, result, exit, damaged, faults>>

\* ... or cannot, or its directory cannot be made.
OpenFails(p) ==
    /\ Fault("diskFails")
    /\ pc[p] = "truncate"
    /\ Leave(p, "failed")
    /\ UNCHANGED <<file, theirs, edited, command, damaged, overwritten>>

\* ... and writes the new content, which is lost if the owner has put another
\* file in the place of the one that is open.
Write(p) ==
    LET t == Order[at[p]]
        replaced == IF sight[p] = "replaced" THEN {file[t]} ELSE {}
    IN  /\ pc[p] = "write"
        /\ IF sight[p] # "replaced" /\ file[t] \in {Emptied(t), plan[p]}
           THEN file' = [file EXCEPT ![t] = plan[p]] /\ UNCHANGED damaged
           ELSE /\ \E content \in Mixed(t, plan[p], file[t]) \cup replaced :
                      file' = [file EXCEPT ![t] = content]
                /\ damaged' = damaged \cup {t}
        /\ Overwrite(p)
        /\ Leave(p, "installed")
        /\ UNCHANGED <<theirs, edited, command, faults>>

\* The disk is full.
WriteFails(p) ==
    LET t == Order[at[p]]
    IN  /\ Fault("diskFails")
        /\ pc[p] = "write"
        /\ \E content \in Partial(t, plan[p], file[t]) : file' = [file EXCEPT ![t] = content]
        /\ damaged' = damaged \cup {t}
        /\ Overwrite(p)
        /\ Leave(p, "failed")
        /\ UNCHANGED <<theirs, edited, command>>

\* The process is killed while it writes.  Killed elsewhere it leaves nothing
\* behind: it takes no further step.
Crash(p) ==
    /\ Fault("crash")
    /\ pc[p] = "write"
    /\ pc' = [pc EXCEPT ![p] = "dead"]
    /\ damaged' = damaged \cup {Order[at[p]]}
    /\ UNCHANGED <<file, theirs, edited, command, at, plan, sight, result, exit, overwritten>>

\* The owner of a file writes it, over whatever setup has left there or is doing
\* to it.  Its own reading and writing is not looked into, and it removes no file.
Edit(e) ==
    /\ Fault("edit")
    /\ file' = [file EXCEPT ![e.of] = e.to]
    /\ theirs' = [theirs EXCEPT ![e.of] = e.to]
    /\ edited' = edited \cup {e.of}
    /\ overwritten' = overwritten \ {e.of}
    /\ damaged' = damaged \ {e.of}
    /\ sight' = [p \in Process |->
          CASE pc[p] = "truncate" /\ Order[at[p]] = e.of -> "blind"
            [] pc[p] = "write" /\ Order[at[p]] = e.of    -> "replaced"
            [] OTHER                                     -> sight[p]]
    /\ UNCHANGED <<command, pc, at, plan, result, exit>>

-----------------------------------------------------------------------------
Init ==
    /\ file \in Contents
    /\ theirs = file /\ edited = {}
    /\ command = [p \in Process |-> None]
    /\ pc = [p \in Process |-> "idle"]
    /\ at = [p \in Process |-> 1]
    /\ plan = [p \in Process |-> None]
    /\ sight = [p \in Process |-> "clear"]
    /\ result = [p \in Process |-> [t \in Target |-> None]]
    /\ exit = [p \in Process |-> None]
    /\ damaged = {} /\ overwritten = {} /\ faults = 0

Setup(p) ==
    \/ Begin(p) \/ NoHome(p) \/ Read(p) \/ ReadFails(p) \/ Truncate(p) \/ OpenFails(p)
    \/ Write(p) \/ WriteFails(p) \/ Crash(p)

Next == (\E p \in Process : Setup(p)) \/ (\E e \in Edits : Edit(e))

Spec == Init /\ [][Next]_vars

-----------------------------------------------------------------------------
(***************************************************************************)
(* Properties.                                                             *)
(***************************************************************************)
TypeOK ==
    /\ \A t \in Target : IsContent(t, file[t]) /\ IsContent(t, theirs[t])
    /\ command \in [Process -> portableCommand \cup {None}]
    /\ pc \in [Process -> {"idle", "read", "truncate", "write", "done", "dead"}]
    /\ at \in [Process -> 1 .. Len(Order) + 1]
    /\ sight \in [Process -> {"clear", "blind", "replaced"}]
    /\ result \in [Process -> [Target -> {"same", "installed", "failed", None}]]
    /\ exit \in [Process -> {"ok", "SETUP_FAILED", None}]
    /\ edited \subseteq Target /\ damaged \subseteq Target /\ overwritten \subseteq Target
    /\ faults \in 0..MaxFaults
    /\ \A p \in Process :
          /\ pc[p] \in {"read", "truncate", "write"} => at[p] \in DOMAIN Order
          /\ pc[p] \in {"truncate", "write"} =>
                plan[p] \notin {Absent, Torn, None} /\ IsContent(Order[at[p]], plan[p])

Readable(content) == content \notin {Absent, Torn}

Foreign(entries) == {i \in DOMAIN entries : entries[i].command \notin Managed}

\* The entries that others have put into a settings file are at their places
\* whenever the file can be read, and the plugin of a user is left alone
\* ("refusing to overwrite", hooks.go), whichever setups race and die where: a file
\* that is read half written is refused.  What this does not cover is said by
\* overwritten: a setup whose read has failed for another reason than the absence
\* of the file, and an owner who writes between a setup's read and its write.
UserFilesKept ==
    /\ \A t \in (Target \cap Settings) \ overwritten :
          Readable(file[t]) /\ theirs[t] # Absent =>
             /\ Readable(theirs[t])
             /\ \A i \in Foreign(theirs[t]) : i \in DOMAIN file[t] /\ file[t][i] = theirs[t][i]
    /\ \A t \in (Target \cap {"OpenCode"}) \ overwritten :
          theirs[t] = "unmanaged" => file[t] = "unmanaged"

OursIn(entries) == {i \in DOMAIN entries : entries[i].command \in Managed}

\* The processes that have installed a command without the marker.
Nameless(t) == {p \in Process : command[p] \notin Managed /\ result[p][t] = "installed"}

\* How many entries setup may add: one if there is none with the marker, and one for
\* each process whose command does not contain it.
Allowance(t) ==
    (IF OursIn(Present(theirs[t])) = {} THEN 1 ELSE 0) + Cardinality(Nameless(t))

\* "One that points elsewhere is repaired" (hooks.go), not joined by another one: as
\* long as every command contains the marker, any number of setups, one after
\* another or at once, add one entry at most, and none if there is one.  A
\* command without the marker, that of an executable with another name, is not
\* found again, and each of its setups may add one more.
OneEntry ==
    \A t \in (Target \cap Settings) \ overwritten :
        Readable(file[t]) => Len(file[t]) <= Len(Present(theirs[t])) + Allowance(t)

\* Every line of old that is not blank is in new, in order and in its section;
\* only the key that setup is about may have changed.
KeptIn(old, new) ==
    LET solid == {i \in DOMAIN old : old[i] # "blank"}
    IN  \E to \in [solid -> DOMAIN new] :
           /\ \A i, j \in solid : i < j => to[i] < to[j]
           /\ \A i \in solid :
                 \/ new[to[i]] = old[i]
                 \/ new[to[i]] = "on" /\ old[i] = "off" /\ InFeatures(old, i)
           /\ \A i \in solid :
                 SectionOf(new, to[i]) = IF SectionOf(old, i) = 0 THEN 0 ELSE to[SectionOf(old, i)]

\* "sets [features].hooks = true without disturbing the rest of the user's
\* config" (hooks.go), as long as no setup dies or fails while it writes the file,
\* reads or writes it while another one is, cannot read it, or does not see
\* what the user has written since it was read.
ConfigKept ==
    \A t \in (Target \cap {"Codex config"}) \ (damaged \cup overwritten) :
        ~BeingWritten(t) /\ Readable(theirs[t]) => KeptIn(theirs[t], file[t])

Ours(t, content) ==
    /\ Readable(content)
    /\ CASE t \in Settings     -> \E p \in Process : Wanted(command[p]) \in ToSet(content)
         [] t = "Codex config" -> HooksOn(content)
         [] t = "OpenCode"     -> \E p \in Process : content = command[p]

Good == {"same", "installed"}

\* What setup reports as installed or up to date is so afterwards, unless the file
\* has been damaged, is being written by another process, or has been written by
\* its owner.  One that ends has tried every file, whichever of them failed, and
\* fails itself only if all have.
SetupHolds ==
    /\ \A p \in Process, t \in Target \ (damaged \cup edited) :
          result[p][t] \in Good /\ ~BeingWritten(t) => Ours(t, file[t])
    /\ \A p \in Process :
          /\ exit[p] = "ok" => /\ \A t \in Target : result[p][t] # None
                               /\ \E t \in Target : result[p][t] \in Good
          /\ exit[p] = "SETUP_FAILED" => \/ \A t \in Target : result[p][t] = "failed"
                                         \/ \A t \in Target : result[p][t] = None

\* "A repeated install stays a silent no-op" (hooks.go): whatever a file may
\* hold by now, to install twice changes nothing the second time.  For settings
\* this takes a command that contains the marker, which not every executable has.
Idempotent ==
    \A t \in Target, c \in portableCommand :
        ~Refused(t, file[t]) /\ (t \in Settings => c \in Managed) =>
            LET once == Updated(t, file[t], c)
            IN  ~Refused(t, once) /\ Updated(t, once, c) = once

=============================================================================

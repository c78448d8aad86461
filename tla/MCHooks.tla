------------------------------ MODULE MCHooks -------------------------------
(***************************************************************************)
(* Instances of Hooks for TLC.  Each process has the program in its PATH,  *)
(* elsewhere, or under another name; of the files one holds something that *)
(* setup has to look into, or none is there.                               *)
(***************************************************************************)
EXTENDS Hooks, TLC

CONSTANTS p1, p2, bare, path, renamed, old, notify

Processes == Permutations(Process)

\* The two settings files are dealt with alike: one of them will do.
Three == <<"Claude Code", "Codex config", "OpenCode">>

UpTo(n, set) == UNION {[1..k -> set] : k \in 0..n}

Nothing == [t \in Target |-> Absent]

\* Here setup has nothing to write, in two files because it refuses them.
NothingToDo == "Claude Code" :> Torn @@ "Codex config" :> <<"[features]", "on">>
                   @@ "OpenCode" :> "unmanaged"

\* Sections follow each other as in a file that a TOML parser accepts, with at
\* most one [features] and one key in it.
Valid(lines) ==
    /\ Cardinality({i \in DOMAIN lines : lines[i] = "[features]"}) <= 1
    /\ Cardinality({i \in DOMAIN lines : IsFlag(lines[i]) /\ InFeatures(lines, i)}) <= 1

Entries == {[command |-> notify, right |-> FALSE], [command |-> old, right |-> FALSE],
            [command |-> bare, right |-> TRUE], [command |-> renamed, right |-> TRUE]}

\* Of three lines there are those that hold the section.
Configs == {l \in UpTo(2, Line \ {"blank"}) : Valid(l)} \cup {<<"blank">>, <<"blank", "key">>}
              \cup {l \in [1..3 -> Line \ {"blank"}] : Valid(l) /\ "[features]" \in ToSet(l)}

FirstContents ==
    {Nothing}
        \cup {[NothingToDo EXCEPT !["Claude Code"] = s] : s \in UpTo(2, Entries) \cup {Torn}}
        \cup {[NothingToDo EXCEPT !["Codex config"] = s] : s \in Configs}
        \cup {[NothingToDo EXCEPT !["OpenCode"] = s] : s \in Plugin \cup {Absent, Torn}}

TheirEdits ==
    {[of |-> "Claude Code", to |-> <<[command |-> notify, right |-> TRUE]>>],
     [of |-> "Claude Code", to |-> <<Wanted(bare), [command |-> notify, right |-> TRUE]>>],
     [of |-> "Codex config", to |-> <<"[features]", "section", "off">>],
     [of |-> "OpenCode", to |-> "unmanaged"]}

=============================================================================

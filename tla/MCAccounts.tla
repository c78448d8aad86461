----------------------------- MODULE MCAccounts -----------------------------
(***************************************************************************)
(* Instances of Accounts for TLC: the command lines that its processes may *)
(* run, over the names and tokens of the instance.                         *)
(***************************************************************************)
EXTENDS Accounts, TLC

\* Only processes are interchangeable: which account becomes the default
\* depends on the order of the names.
Symmetry == Permutations(Process)

\* The state without asked, which neither steps nor the properties of the runs
\* that use this view depend on.
WithoutReports == <<file, written, secrets, pc, job, plan, accepted, widened>>

Logins(names, tokens, scopes, stores, flags) ==
    {[op |-> "login", name |-> n, token |-> t, scope |-> sc, store |-> st, flag |-> d] :
        n \in names, t \in tokens, sc \in scopes, st \in stores, d \in flags}

Others(op, names) == {[NoJob EXCEPT !.op = op, !.name = n] : n \in names}

Scopes(names) == {[NoJob EXCEPT !.op = "scope", !.name = n, !.scope = sc] :
                     n \in names, sc \in Scope}

\* Accounts come, go and become the default while scopes and verdicts change.
SharedCommands ==
    Logins(Name, Token, {None}, Store, {FALSE})
        \cup Others("logout", {None}) \cup Others("use", Name)
        \cup Others("check", {None}) \cup Scopes({None})

\* One account whose scope and verdict change.
ScopeCommands ==
    Logins(Name, Token, {None, "write"}, Store, {FALSE})
        \cup Others("logout", Name) \cup Others("check", {None}) \cup Scopes({None})

\* Everything a single user may type.
AllCommands ==
    Logins(Name, Token, {None, "write"}, Store, BOOLEAN)
        \cup Others("logout", Name \cup {None}) \cup Others("use", Name)
        \cup Others("check", {None}) \cup Scopes(Name \cup {None})

=============================================================================

----------------------------- MODULE MCSession ------------------------------
(***************************************************************************)
(* Instances of Session for TLC.                                           *)
(***************************************************************************)
EXTENDS Session, TLC

CONSTANTS p1, p2, a1, a2

Symmetry == Permutations(Account) \cup Permutations(AutoStart)

\* Every command with its account on the command line or by default, and read
\* in a shell that has chosen one.
Lines ==
    [op : {"unread", "read"}, flag : Account \cup {None}, env : {None}]
        \cup [op : {"read"}, flag : {None}, env : Account]

\* Without unread --account, for the longest run.
FewLines == {l \in Lines : l.op = "unread" => l.flag = None}

=============================================================================

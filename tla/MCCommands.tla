----------------------------- MODULE MCCommands -----------------------------
(***************************************************************************)
(* Instances of Commands for TLC: two guilds, one with two text channels   *)
(* and a voice channel, a direct message, and two names one of which       *)
(* contains the other.                                                     *)
(***************************************************************************)
EXTENDS Commands, TLC

CONSTANTS g1, g2, c1, c2, v1, d1, gen, general

ParentOf == c1 :> g1 @@ c2 :> g1 @@ v1 :> g1 @@ d1 :> None

Contains == {<<gen, gen>>, <<general, general>>, <<gen, general>>}

Accounts == {[kind |-> "user", scope |-> "read"], [kind |-> "user", scope |-> "write"],
             [kind |-> "bot", scope |-> "write"], None}

\* Ways to name the places; the voice channel is a decoy.
Named == {n \in [Place -> Word] : n[v1] = gen /\ n[d1] = general /\ n[g1] = gen}

Posted == {<<1, c1>>, <<2, c1>>, <<3, c2>>, <<4, c1>>}

Path(g, c) == [guild |-> g, channel |-> c]

Line(op, refs, messages, limits, bads) ==
    {[op |-> op, ref |-> r, message |-> m, limit |-> l, bad |-> b] :
        r \in refs, m \in messages, l \in limits, b \in bads}

Nowhere == {Path(None, None)}

Everywhere == {Path(gen, gen), Path(g1, gen), Path(None, c1), Path(None, gen)}

Commands == UNION {
    Line("home", Nowhere, {None}, {0}, {None}),
    Line("guilds", Nowhere, {None}, {0}, {None, "early"}),
    Line("dms", Nowhere, {None}, {0}, {None}),
    Line("channels", {Path(gen, None)}, {None}, {0}, {None}),
    Line("search", {Path(g1, None)}, {None}, {0}, {None, "late"}),
    Line("messages", {Path(g1, gen)}, {None}, {1}, {None}),
    Line("messages", {Path(None, c1)}, {None}, {0, 2}, {None, "late"}),
    Line("send", Everywhere, {None}, {0}, {None}),
    Line("edit", {Path(None, c1)}, {1}, {0}, {None}),
    Line("delete", {Path(None, c1), Path(g1, gen)}, {1}, {0}, {None, "early"}),
    Line("react", {Path(None, c1)}, {1}, {0}, {None}),
    Line("unreact", {Path(None, c1)}, {1}, {0}, {None})}

=============================================================================

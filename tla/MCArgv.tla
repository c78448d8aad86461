------------------------------- MODULE MCArgv -------------------------------
(***************************************************************************)
(* Instances of Argv for TLC: two commands that a daemon serves, and one   *)
(* with a required flag, over the forms that an argument can have.         *)
(***************************************************************************)
EXTENDS Argv, TLC

\* Texts are strings here; these are the ones with an "=".
Inlines ==
    "--account=me" :> <<"--account", "me">> @@ "--limit=" :> <<"--limit", "">>
        @@ "--mentions=me" :> <<"--mentions", "me">> @@ "--content=" :> <<"--content", "">>
        @@ "me=me" :> <<"me", "me">>

Names == {"", "me", "5", "unread", "read", "send", "--account", "--limit", "--mentions",
          "--content", "--count", "--help", "-h", "--version", "-v"}

Texts == Names \cup DOMAIN Inlines

CutName == [t \in Texts |-> IF t \in DOMAIN Inlines THEN Inlines[t][1] ELSE t]

CutInline == [t \in Texts |-> IF t \in DOMAIN Inlines THEN Inlines[t][2] ELSE None]

WithDash == Texts \ {"", "me", "5", "unread", "read", "send", "me=me"}

NoDefaults == [t \in Texts |-> None]

Accepts ==
    "unread" :> [args |-> 0, needed |-> 0, flags |-> {"--limit", "--mentions", "--account"},
                 required |-> {}, numbers |-> {"--limit"},
                 defaults |-> [NoDefaults EXCEPT !["--limit"] = "5"]]
    @@ "read" :> [args |-> 1, needed |-> 1, flags |-> {"--account"}, required |-> {},
                  numbers |-> {}, defaults |-> NoDefaults]
    @@ "send" :> [args |-> 1, needed |-> 1, flags |-> {"--content", "--account"},
                  required |-> {"--content"}, numbers |-> {}, defaults |-> NoDefaults]

UpTo(n, texts) == UNION {[1..k -> texts] : k \in 0..n}

\* A command with the arguments that may mean something to it, and every line
\* of at most two arguments.
Lines ==
    UpTo(2, Texts)
        \cup {<<"unread">> \o a : a \in UpTo(4, {"", "me", "5", "--limit", "--limit=", "--mentions",
                                                "--account", "--account=me"})}
        \cup {<<"read">> \o a : a \in UpTo(4, {"me", "me=me", "--account", "--account=me", "--count"})}
        \cup {<<"send">> \o a : a \in UpTo(4, {"me", "--content", "--content=", "--account",
                                              "--account=me", "--help"})}

=============================================================================

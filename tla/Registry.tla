------------------------------ MODULE Registry ------------------------------
(***************************************************************************)
(* What the account registry promises to commands that run one after       *)
(* another (internal/app/auth.go): it is a map from names to profiles with *)
(* a default, and a command changes it in one step, in what it was asked   *)
(* to change and in nothing else.  Files and stores are not part of it.    *)
(***************************************************************************)

CONSTANTS
    Name,     \* names of accounts
    Profile,  \* what is recorded of an account: scope, store, invalid, ...
    None      \* no profile, no name

VARIABLES
    index,    \* the default and the profile of each name
    request   \* the command under way: op, name, scope, store and flag

registryVars == <<index, request>>

Accounts(i) == {n \in Name : i.profiles[n] # None}

RegistryInit == index = [default |-> None, profiles |-> [n \in Name |-> None]]

\* The profile of n is replaced, and that of no other account.
Replaces(old, new, n, profile) == new.profiles = [old.profiles EXCEPT ![n] = profile]

\* Login records an account.  It becomes the default if it is the first one or
\* --default is given.
LogIn(r, old, new) ==
    /\ r.op = "login"
    /\ \E profile \in Profile :
          /\ profile.scope = r.scope /\ profile.store = r.store /\ ~profile.invalid
          /\ Replaces(old, new, r.name, profile)
    /\ new.default = IF r.flag \/ old.default = None THEN r.name ELSE old.default

\* Logout removes an account.  Another one, if there is one, becomes the
\* default in its place.
LogOut(r, old, new) ==
    /\ r.op = "logout"
    /\ r.name \in Accounts(old)
    /\ Replaces(old, new, r.name, None)
    /\ \/ old.default # r.name /\ new.default = old.default
       \/ old.default = r.name /\ new.default \in Accounts(new)
       \/ old.default = r.name /\ Accounts(new) = {} /\ new.default = None

\* auth use chooses the default among the accounts.
Use(r, old, new) ==
    /\ r.op = "use"
    /\ r.name \in Accounts(old)
    /\ new.profiles = old.profiles
    /\ new.default = r.name

\* auth scope changes the scope of an account.
Rescope(r, old, new) ==
    /\ r.op = "scope"
    /\ r.name \in Accounts(old)
    /\ Replaces(old, new, r.name, [old.profiles[r.name] EXCEPT !.scope = r.scope])
    /\ new.default = old.default

\* Discord's verdict on its token, which whoami and the home view ask for, marks
\* an account as valid or not.
Judge(r, old, new) ==
    /\ r.op = "check"
    /\ r.name \in Accounts(old)
    /\ Replaces(old, new, r.name, [old.profiles[r.name] EXCEPT !.invalid = r.flag])
    /\ new.default = old.default

\* What a command may make of the index.
Grants(r, old, new) ==
    \/ LogIn(r, old, new) \/ LogOut(r, old, new) \/ Use(r, old, new)
    \/ Rescope(r, old, new) \/ Judge(r, old, new)

\* A command begins, finds something out or ends.
GoOn == UNCHANGED index

RegistryNext ==
    \/ GoOn
    \/ Grants(request, index, index') /\ UNCHANGED request

RegistrySpec == RegistryInit /\ [][RegistryNext]_registryVars

=============================================================================

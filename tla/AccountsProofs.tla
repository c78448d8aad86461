--------------------------- MODULE AccountsProofs ---------------------------
(***************************************************************************)
(* Theorems about Accounts.                                                *)
(***************************************************************************)
EXTENDS Accounts, TLAPS

\* What a process that is not idle knows of its command.
JobOK(p) ==
    pc[p] # "idle" =>
        /\ job[p].op # "none"
        /\ job[p].name \in Name
        /\ job[p].op = "login" => /\ job[p].token \in Token
                                  /\ job[p].scope \in Scope
                                  /\ job[p].store \in Store
        /\ job[p].op = "scope" => job[p].scope \in Scope
        /\ pc[p] \in {"verify", "store"} => job[p].op = "login"
        /\ pc[p] = "delete" => job[p].store \in Store

Typed == TypeOK /\ \A p \in Process : JobOK(p)

-----------------------------------------------------------------------------
(* The operations on an index. *)

\* Replacing one profile, or removing it, gives an index.
LEMMA WithProfileIndex ==
    ASSUME NEW index \in Index, NEW n \in Name, NEW profile \in Profile \cup {None}
    PROVE  /\ WithProfile(index, n, profile) \in Index
           /\ WithProfile(index, n, profile).default = index.default
           /\ WithProfile(index, n, profile).profiles =
                  [index.profiles EXCEPT ![n] = profile]
    BY DEF Index, WithProfile

\* So does setting the default of an index to an account or to none.
LEMMA DefaultIndex ==
    ASSUME NEW index \in Index, NEW d \in Name \cup {None}
    PROVE  /\ [index EXCEPT !.default = d] \in Index
           /\ [index EXCEPT !.default = d].default = d
           /\ [index EXCEPT !.default = d].profiles = index.profiles
    BY DEF Index

\* upsertProfile keeps the index sound and touches one profile.
LEMMA UpsertedIndex ==
    ASSUME NEW index \in Index, NEW n \in Name, NEW profile \in Profile,
           NEW makeDefault \in BOOLEAN
    PROVE  /\ Upserted(index, n, profile, makeDefault) \in Index
           /\ Upserted(index, n, profile, makeDefault).profiles =
                  [index.profiles EXCEPT ![n] = profile]
           /\ Upserted(index, n, profile, makeDefault).default =
                  IF makeDefault \/ index.default = None THEN n ELSE index.default
           /\ Sound(index) => Sound(Upserted(index, n, profile, makeDefault))
<1> DEFINE set == WithProfile(index, n, profile)
           new == Upserted(index, n, profile, makeDefault)
<1>1. /\ set \in Index
      /\ set.default = index.default
      /\ set.profiles = [index.profiles EXCEPT ![n] = profile]
    BY WithProfileIndex
<1>2. CASE makeDefault \/ index.default = None
    <2>1. new = [set EXCEPT !.default = n]
        BY <1>2 DEF Upserted
    <2>2. new \in Index /\ new.default = n /\ new.profiles = set.profiles
        BY <1>1, <2>1, DefaultIndex
    <2>3. n \in Stored(new)
        BY <1>1, <2>2, ConstantsOK DEF Stored, Index
    <2>4. Sound(new)
        BY <2>2, <2>3 DEF Sound
    <2>5. new.default = IF makeDefault \/ index.default = None THEN n ELSE index.default
        BY <1>2, <2>2
    <2> QED BY <1>1, <2>2, <2>4, <2>5
<1>3. CASE ~(makeDefault \/ index.default = None)
    <2>1. new = set
        BY <1>3 DEF Upserted
    <2>2. Sound(index) => index.default \in Stored(index)
        BY <1>3 DEF Sound
    <2>3. Stored(index) \subseteq Stored(new)
        BY <1>1, <2>1, ConstantsOK DEF Stored, Index
    <2>4. Sound(index) => Sound(new)
        BY <1>1, <2>1, <2>2, <2>3 DEF Sound
    <2>5. new.default = IF makeDefault \/ index.default = None THEN n ELSE index.default
        BY <1>1, <1>3, <2>1
    <2> QED BY <1>1, <2>1, <2>4, <2>5
<1> QED BY <1>2, <1>3

\* removeProfile keeps the index sound and removes one profile.
LEMMA RemovedIndex ==
    ASSUME NEW index \in Index, NEW n \in Name
    PROVE  /\ Removed(index, n) \in Index
           /\ Removed(index, n).profiles = [index.profiles EXCEPT ![n] = None]
           /\ \/ index.default # n /\ Removed(index, n).default = index.default
              \/ index.default = n /\ Removed(index, n).default \in Stored(Removed(index, n))
              \/ /\ index.default = n /\ Stored(Removed(index, n)) = {}
                 /\ Removed(index, n).default = None
           /\ Sound(index) => Sound(Removed(index, n))
<1> DEFINE set == WithProfile(index, n, None)
           rest == Stored(index) \ {n}
           new == Removed(index, n)
           d == IF index.default # n THEN index.default
                ELSE IF rest = {} THEN None ELSE CHOOSE m \in rest : TRUE
<1>1. /\ set \in Index
      /\ set.default = index.default
      /\ set.profiles = [index.profiles EXCEPT ![n] = None]
    BY WithProfileIndex
<1>2. rest # {} => (CHOOSE m \in rest : TRUE) \in rest
    OBVIOUS
<1>3. d \in Name \cup {None}
    BY <1>2 DEF Index, Stored
<1>4. new = [set EXCEPT !.default = d]
    BY <1>1 DEF Removed
<1>5. new \in Index /\ new.default = d /\ new.profiles = set.profiles
    <2> HIDE DEF set, new, d
    <2> QED BY <1>1, <1>3, <1>4, DefaultIndex
<1>6. Stored(new) = rest
    BY <1>1, <1>5 DEF Stored, Index
<1>7. ASSUME Sound(index) PROVE Sound(new)
    <2>1. CASE index.default # n
        BY <1>5, <1>6, <1>7, <2>1, ConstantsOK DEF Sound, Stored
    <2>2. CASE index.default = n
        BY <1>2, <1>5, <1>6, <2>2 DEF Sound
    <2> QED BY <2>1, <2>2
<1>8. \/ index.default # n /\ new.default = index.default
      \/ index.default = n /\ new.default \in Stored(new)
      \/ index.default = n /\ Stored(new) = {} /\ new.default = None
    BY <1>2, <1>5, <1>6
<1> QED BY <1>1, <1>5, <1>7, <1>8

\* Writing a profile of an account that is stored keeps the index sound.
LEMMA WithProfileSound ==
    ASSUME NEW index \in Index, NEW n \in Stored(index), NEW profile \in Profile, Sound(index)
    PROVE  Sound(WithProfile(index, n, profile))
<1>1. n \in Name
    BY DEF Stored
<1>2. /\ WithProfile(index, n, profile).default = index.default
      /\ WithProfile(index, n, profile).profiles = [index.profiles EXCEPT ![n] = profile]
    BY <1>1, WithProfileIndex
<1>3. Stored(WithProfile(index, n, profile)) = Stored(index)
    BY <1>1, <1>2, ConstantsOK DEF Stored, Index
<1> QED BY <1>2, <1>3 DEF Sound

-----------------------------------------------------------------------------
(* Types. *)

LEMMA TypeInit == Init => Typed
<1> SUFFICES ASSUME Init PROVE Typed
    OBVIOUS
<1>1. EmptyIndex \in Index /\ NoJob \in Job
    BY DEF EmptyIndex, Index, NoJob, Job
<1>2. TypeOK
    BY <1>1 DEF Init, TypeOK, Places
<1>3. ASSUME NEW p \in Process PROVE JobOK(p)
    BY DEF Init, JobOK
<1> QED BY <1>2, <1>3 DEF Typed

\* A step of one process that keeps the types of pc and job says nothing new
\* about the jobs of the others.
LEMMA OthersKeepJobs ==
    ASSUME Typed, NEW p \in Process, NEW j, NEW place,
           Goto(p, place), job' = [job EXCEPT ![p] = j],
           place # "idle" =>
               /\ j.op # "none"
               /\ j.name \in Name
               /\ j.op = "login" => j.token \in Token /\ j.scope \in Scope /\ j.store \in Store
               /\ j.op = "scope" => j.scope \in Scope
               /\ place \in {"verify", "store"} => j.op = "login"
               /\ place = "delete" => j.store \in Store
    PROVE  \A q \in Process : JobOK(q)'
<1> TAKE q \in Process
<1>1. CASE q = p
    BY <1>1 DEF Goto, JobOK, Typed, TypeOK
<1>2. CASE q # p
    <2>1. job'[q] = job[q] /\ pc'[q] = pc[q]
        BY <1>2 DEF Goto, Typed, TypeOK
    <2> QED BY <2>1 DEF JobOK, Typed
<1> QED BY <1>1, <1>2

LEMMA TypeStep == Typed /\ [Next]_vars => Typed'
<1> SUFFICES ASSUME Typed, [Next]_vars PROVE Typed'
    OBVIOUS
<1> USE DEF Typed
<1>0. EmptyIndex \in Index /\ NoJob \in Job
    BY DEF EmptyIndex, Index, NoJob, Job
<1>n. ASSUME NEW p \in Process, Finish(p)
      PROVE  /\ pc' \in [Process -> Places] /\ job' \in [Process -> Job]
             /\ plan' \in [Process -> Index] /\ \A q \in Process : JobOK(q)'
    <2>1. Goto(p, "idle") /\ job' = [job EXCEPT ![p] = NoJob]
        BY <1>n DEF Finish
    <2>2. \A q \in Process : JobOK(q)'
        BY <2>1, OthersKeepJobs
    <2> QED BY <1>0, <1>n, <2>2 DEF Finish, Goto, TypeOK, Places
<1>1. ASSUME NEW p \in Process, NEW c \in Command, Login(p, c) PROVE Typed'
    <2> DEFINE j == [c EXCEPT !.scope = IF @ = None THEN DefaultScope(KindOf(c.token)) ELSE @]
    <2>1. c \in Job /\ c.name \in Name /\ c.token \in Token /\ c.store \in Store
        BY <1>1, ConstantsOK DEF Login, Job
    <2>2. j \in Job /\ j.op = "login" /\ j.name = c.name /\ j.token = c.token
             /\ j.store = c.store /\ j.scope \in Scope
        BY <1>1, <2>1 DEF Login, Job, DefaultScope, Scope
    <2>3. Goto(p, "verify") /\ job' = [job EXCEPT ![p] = j]
        BY <1>1 DEF Login, Start
    <2> HIDE DEF j
    <2>4. \A q \in Process : JobOK(q)'
        BY <2>1, <2>2, <2>3, OthersKeepJobs
    <2>5. widened' \subseteq Name
        BY <1>1, <2>1 DEF Login, TypeOK
    <2>6. pc' \in [Process -> Places] /\ job' \in [Process -> Job]
        BY <2>2, <2>3 DEF Goto, TypeOK, Places
    <2> QED BY <1>1, <2>4, <2>5, <2>6 DEF Login, TypeOK
<1>2. ASSUME NEW p \in Process, NEW c \in Command, LogoutOrUse(p, c) PROVE Typed'
    <2> DEFINE j == [c EXCEPT !.name = Named(@)]
    <2>1. c \in Job /\ c.op \in {"logout", "use"}
        BY <1>2, ConstantsOK DEF LogoutOrUse
    <2>2. Named(c.name) \in Name
        BY <1>2, <2>1 DEF LogoutOrUse, Named, TypeOK, Index, Job
    <2>3. j \in Job /\ j.op = c.op /\ j.name = Named(c.name)
        BY <2>1, <2>2 DEF Job
    <2>4. Goto(p, "load") /\ job' = [job EXCEPT ![p] = j]
        BY <1>2 DEF LogoutOrUse, Start
    <2> HIDE DEF j
    <2>5. \A q \in Process : JobOK(q)'
        BY <2>1, <2>2, <2>3, <2>4, OthersKeepJobs
    <2>6. pc' \in [Process -> Places] /\ job' \in [Process -> Job]
        BY <2>3, <2>4 DEF Goto, TypeOK, Places
    <2> QED BY <1>2, <2>5, <2>6 DEF LogoutOrUse, TypeOK
<1>3. ASSUME NEW p \in Process, NEW c \in Command, SetScope(p, c) PROVE Typed'
    <2> DEFINE n == Named(c.name)
               j == [c EXCEPT !.name = n]
    <2>1. c \in Job /\ c.op = "scope" /\ c.scope \in Scope
        BY <1>3, ConstantsOK DEF SetScope, Job
    <2>2. n \in Name
        BY <1>3, <2>1 DEF SetScope, Named, TypeOK, Index, Job
    <2>3. j \in Job /\ j.op = "scope" /\ j.name = n /\ j.scope = c.scope
        BY <2>1, <2>2 DEF Job
    <2>4. Goto(p, "load") /\ job' = [job EXCEPT ![p] = j]
        BY <1>3 DEF SetScope, Start
    <2>5. widened' \subseteq Name
        BY <1>3, <2>2 DEF SetScope, TypeOK
    <2> HIDE DEF j, n
    <2>6. \A q \in Process : JobOK(q)'
        BY <2>1, <2>2, <2>3, <2>4, OthersKeepJobs
    <2>7. pc' \in [Process -> Places] /\ job' \in [Process -> Job]
        BY <2>3, <2>4 DEF Goto, TypeOK, Places
    <2> QED BY <1>3, <2>5, <2>6, <2>7 DEF SetScope, TypeOK
<1>4. ASSUME NEW p \in Process, NEW c \in Command, Check(p, c) PROVE Typed'
    <2> DEFINE n == Named(c.name)
               token == secrets[file.profiles[n].store][n]
               wrong == file.profiles[n].kind # KindOf(token)
               j == [c EXCEPT !.name = n, !.token = token, !.flag = wrong]
    <2>1. c \in Job /\ c.op = "check"
        BY <1>4, ConstantsOK DEF Check
    <2>2. n \in Name
        BY <1>4, <2>1 DEF Check, Named, TypeOK, Index, Job
    <2>3. file.profiles[n] \in Profile
        BY <1>4, <2>2 DEF Check, TypeOK, Index
    <2>4. token \in Token
        BY <1>4, <2>2, <2>3 DEF Check, TypeOK, Profile
    <2>5. wrong \in BOOLEAN
        OBVIOUS
    <2>6. j \in Job /\ j.op = "check" /\ j.name = n
        <3> HIDE DEF n, token, wrong
        <3> QED BY <2>1, <2>2, <2>4, <2>5 DEF Job
    <2>7. Goto(p, "me") /\ job' = [job EXCEPT ![p] = j]
        BY <1>4 DEF Check, Start
    <2> HIDE DEF j, n
    <2>8. \A q \in Process : JobOK(q)'
        BY <2>1, <2>2, <2>6, <2>7, OthersKeepJobs
    <2>9. pc' \in [Process -> Places] /\ job' \in [Process -> Job]
        BY <2>6, <2>7 DEF Goto, TypeOK, Places
    <2> QED BY <1>4, <2>8, <2>9 DEF Check, TypeOK
<1>5. ASSUME NEW p \in Process, Verify(p) PROVE Typed'
    <2>1. CASE Finish(p)
        BY <1>5, <1>n, <2>1 DEF Verify, TypeOK
    <2>2. CASE Goto(p, "store") /\ UNCHANGED <<job, plan>>
        <3>1. \A q \in Process : JobOK(q)'
            BY <1>5, <2>2 DEF Verify, Goto, JobOK, TypeOK
        <3> QED BY <1>5, <2>2, <3>1 DEF Verify, Goto, TypeOK, Places
    <2> QED BY <1>5, <2>1, <2>2 DEF Verify
<1>6. ASSUME NEW p \in Process, StoreSecret(p) PROVE Typed'
    <2>1. CASE Finish(p) /\ UNCHANGED secrets
        BY <1>6, <1>n, <2>1 DEF StoreSecret, TypeOK
    <2>2. CASE /\ secrets' = [secrets EXCEPT ![job[p].store][job[p].name] = job[p].token]
               /\ Goto(p, "load")
               /\ UNCHANGED <<job, plan>>
        <3>1. \A q \in Process : JobOK(q)'
            BY <1>6, <2>2 DEF StoreSecret, Goto, JobOK, TypeOK
        <3>2. job[p].name \in Name /\ job[p].token \in Token /\ job[p].store \in Store
            BY <1>6 DEF StoreSecret, JobOK
        <3>3. secrets' \in [Store -> [Name -> Token \cup {None}]]
            BY <2>2, <3>2 DEF TypeOK
        <3> QED BY <1>6, <2>2, <3>1, <3>3 DEF StoreSecret, Goto, TypeOK, Places
    <2> QED BY <1>6, <2>1, <2>2 DEF StoreSecret
<1>7. ASSUME NEW p \in Process, AskDiscord(p) PROVE Typed'
    <2>1. PICK failed \in BOOLEAN : job' = [job EXCEPT ![p].flag = failed]
        BY <1>7 DEF AskDiscord
    <2>2. job[p] \in Job
        BY DEF TypeOK
    <2> DEFINE j == [job[p] EXCEPT !.flag = failed]
    <2>3. /\ j \in Job /\ j.op = job[p].op /\ j.name = job[p].name
          /\ j.token = job[p].token /\ j.scope = job[p].scope /\ j.store = job[p].store
        BY <2>2 DEF Job
    <2>4. job' = [job EXCEPT ![p] = j]
        BY <2>1 DEF TypeOK
    <2> HIDE DEF j
    <2>5. \A q \in Process : JobOK(q)'
        <3>1. Goto(p, "load") /\ pc[p] = "me"
            BY <1>7 DEF AskDiscord
        <3> QED BY <2>3, <2>4, <3>1, OthersKeepJobs DEF JobOK
    <2> QED BY <1>7, <2>3, <2>4, <2>5 DEF AskDiscord, Goto, TypeOK, Places
<1>8. ASSUME NEW p \in Process, Load(p) PROVE Typed'
    <2> DEFINE n == job[p].name
               profile == file.profiles[n]
    <2>1. n \in Name /\ pc[p] = "load"
        BY <1>8 DEF Load, JobOK
    <2>2. file \in Index /\ profile \in Profile \cup {None} /\ job[p] \in Job
        BY <2>1 DEF TypeOK, Index
    <2>p. ASSUME NEW index \in Index, Prepare(p, index) PROVE Typed'
        <3>1. \A q \in Process : JobOK(q)'
            BY <2>1, <2>p DEF Prepare, Goto, JobOK, TypeOK
        <3> QED BY <1>8, <2>p, <3>1 DEF Load, Prepare, Goto, TypeOK, Places
    <2>3. CASE Finish(p)
        BY <1>8, <1>n, <2>3 DEF Load, TypeOK
    <2>4. CASE /\ job[p].op = "login"
               /\ Prepare(p, Upserted(file, n, [kind |-> KindOf(job[p].token),
                                                scope |-> job[p].scope,
                                                store |-> job[p].store,
                                                invalid |-> FALSE], job[p].flag))
        <3>1. [kind |-> KindOf(job[p].token), scope |-> job[p].scope,
               store |-> job[p].store, invalid |-> FALSE] \in Profile
            BY <2>1, <2>4 DEF Profile, KindOf, Kind, JobOK
        <3>2. job[p].flag \in BOOLEAN
            BY <2>2 DEF Job
        <3> QED BY <2>1, <2>2, <2>4, <2>p, <3>1, <3>2, UpsertedIndex
    <2>5. CASE /\ job[p].op = "logout" /\ profile # None
               /\ plan' = [plan EXCEPT ![p] = Removed(file, n)]
               /\ job' = [job EXCEPT ![p].store = profile.store]
               /\ Goto(p, "delete")
        <3> DEFINE j == [job[p] EXCEPT !.store = profile.store]
        <3>1. profile.store \in Store
            BY <2>2, <2>5 DEF Profile
        <3>2. j \in Job /\ j.op = "logout" /\ j.name = n /\ j.store = profile.store
            <4> HIDE DEF profile
            <4> QED BY <2>2, <2>5, <3>1 DEF Job
        <3>3. job' = [job EXCEPT ![p] = j]
            BY <2>5 DEF TypeOK
        <3>4. Removed(file, n) \in Index
            BY <2>1, <2>2, RemovedIndex
        <3> HIDE DEF j, profile, n
        <3>5. \A q \in Process : JobOK(q)'
            BY <2>1, <2>5, <3>1, <3>2, <3>3, OthersKeepJobs
        <3> QED BY <1>8, <2>5, <3>2, <3>3, <3>4, <3>5 DEF Load, Goto, TypeOK, Places
    <2>6. CASE Prepare(p, [file EXCEPT !.default = n])
        BY <2>1, <2>2, <2>6, <2>p, DefaultIndex
    <2>7. CASE /\ profile # None /\ job[p].op = "scope"
               /\ Prepare(p, WithProfile(file, n, [profile EXCEPT !.scope = job[p].scope]))
        <3>1. [profile EXCEPT !.scope = job[p].scope] \in Profile
            BY <2>1, <2>2, <2>7 DEF Profile, JobOK
        <3> QED BY <2>1, <2>2, <2>7, <2>p, <3>1, WithProfileIndex
    <2>8. CASE /\ profile # None /\ job[p].op = "check"
               /\ Prepare(p, WithProfile(file, n, [profile EXCEPT !.invalid = job[p].flag]))
        <3>1. [profile EXCEPT !.invalid = job[p].flag] \in Profile
            BY <2>2, <2>8 DEF Profile, Job
        <3> QED BY <2>1, <2>2, <2>8, <2>p, <3>1, WithProfileIndex
    <2> QED BY <1>8, <2>3, <2>4, <2>5, <2>6, <2>7, <2>8 DEF Load
<1>9. ASSUME NEW p \in Process, DeleteSecret(p) PROVE Typed'
    <2>1. job[p].name \in Name /\ job[p].store \in Store
        BY <1>9 DEF DeleteSecret, JobOK
    <2>2. secrets' \in [Store -> [Name -> Token \cup {None}]]
        <3>1. CASE secrets' = secrets
            BY <3>1 DEF TypeOK
        <3>2. CASE secrets' = [secrets EXCEPT ![job[p].store][job[p].name] = None]
            <4>1. [secrets[job[p].store] EXCEPT ![job[p].name] = None]
                     \in [Name -> Token \cup {None}]
                BY <2>1 DEF TypeOK
            <4> QED BY <2>1, <3>2, <4>1 DEF TypeOK
        <3> QED BY <1>9, <3>1, <3>2 DEF DeleteSecret
    <2>p. pc' = [pc EXCEPT ![p] = "truncate"] /\ job' = job /\ pc[p] = "delete"
        BY <1>9 DEF DeleteSecret, Goto
    <2>3. ASSUME NEW q \in Process PROVE JobOK(q)'
        <3>1. JobOK(q) /\ (pc'[q] = pc[q] \/ (pc[q] = "delete" /\ pc'[q] = "truncate"))
            BY <2>p DEF TypeOK
        <3> QED BY <2>p, <3>1 DEF JobOK
    <2>4. pc' \in [Process -> Places]
        BY <1>9 DEF DeleteSecret, Goto, TypeOK, Places
    <2> QED BY <1>9, <2>2, <2>3, <2>4 DEF DeleteSecret, TypeOK
<1>10. ASSUME NEW p \in Process, TruncateIndex(p) PROVE Typed'
    <2>1. \A q \in Process : JobOK(q)'
        BY <1>10 DEF TruncateIndex, Goto, JobOK, TypeOK
    <2> QED BY <1>0, <1>10, <2>1 DEF TruncateIndex, Goto, TypeOK, Places
<1>11. ASSUME NEW p \in Process, WriteIndex(p) PROVE Typed'
    <2>1. Finish(p)
        BY <1>11 DEF WriteIndex
    <2>2. job[p].op \in {"login", "scope"} => job[p].scope \in Scope
        BY <1>11 DEF WriteIndex, JobOK
    <2>3. asked' \in [Name -> Scope \cup {None}]
        BY <1>11, <2>2 DEF WriteIndex, TypeOK
    <2>4. file' \in Index /\ written' \in BOOLEAN
        <3>1. file \in Index /\ plan[p] \in Index /\ written \in BOOLEAN
            BY DEF TypeOK
        <3>2. file' \in {file, plan[p], EmptyIndex} /\ written' \in {written, TRUE}
            BY <1>11 DEF WriteIndex
        <3> QED BY <1>0, <3>1, <3>2
    <2> QED BY <1>11, <1>n, <2>1, <2>3, <2>4 DEF WriteIndex, TypeOK
<1>12. ASSUME NEW p \in Process, Crash(p) PROVE Typed'
    BY <1>12, <1>n DEF Crash, TypeOK
<1>13. ASSUME NEW t \in Token, Revoke(t) PROVE Typed'
    BY <1>13 DEF Revoke, TypeOK, JobOK
<1>14. CASE UNCHANGED vars
    BY <1>14 DEF vars, TypeOK, JobOK
<1> QED
    BY <1>1, <1>2, <1>3, <1>4, <1>5, <1>6, <1>7, <1>8, <1>9, <1>10, <1>11, <1>12,
       <1>13, <1>14 DEF Next, Begin, Step

\* Every index, job and secret has its type, in every behaviour of any number
\* of processes: TypeOK, which the runs check on two.
THEOREM TypeCorrect == Spec => []TypeOK
<1>1. Typed => TypeOK
    BY DEF Typed
<1> QED BY <1>1, TypeInit, TypeStep, PTL DEF Spec

-----------------------------------------------------------------------------
(* The default account. *)

\* What is about to be written is sound, too.
SoundInv == Sound(file) /\ \A p \in Process : Sound(plan[p])

LEMMA EmptySound == Sound(EmptyIndex)
<1>1. Stored(EmptyIndex) = {}
    BY DEF EmptyIndex, Stored
<1> QED BY <1>1 DEF EmptyIndex, Sound

LEMMA SoundInit == Init => SoundInv
    BY EmptySound DEF Init, SoundInv

LEMMA SoundStep == Typed /\ SoundInv /\ [Next]_vars => SoundInv'
<1> SUFFICES ASSUME Typed, SoundInv, [Next]_vars PROVE SoundInv'
    OBVIOUS
<1> USE EmptySound DEF SoundInv
<1>1. CASE UNCHANGED <<file, plan>>
    BY <1>1 DEF Sound, Stored
<1>2. ASSUME NEW p \in Process, Finish(p), UNCHANGED file PROVE SoundInv'
    BY <1>2 DEF Finish, Sound, Stored, Typed, TypeOK
<1>3. ASSUME NEW p \in Process, NEW index, UNCHANGED file,
             plan' = [plan EXCEPT ![p] = index], Sound(index)
      PROVE  SoundInv'
    BY <1>3 DEF Sound, Stored, Typed, TypeOK
<1>4. ASSUME NEW p \in Process, Load(p) PROVE SoundInv'
    <2> DEFINE n == job[p].name
               profile == file.profiles[n]
    <2>1. n \in Name /\ UNCHANGED file
        BY <1>4 DEF Load, JobOK, Typed
    <2>2. file \in Index /\ profile \in Profile \cup {None} /\ job[p] \in Job
        BY <2>1 DEF TypeOK, Index, Typed
    <2>3. CASE Finish(p)
        BY <1>2, <2>1, <2>3
    <2>4. CASE /\ job[p].op = "login"
               /\ Prepare(p, Upserted(file, n, [kind |-> KindOf(job[p].token),
                                                scope |-> job[p].scope,
                                                store |-> job[p].store,
                                                invalid |-> FALSE], job[p].flag))
        <3>1. [kind |-> KindOf(job[p].token), scope |-> job[p].scope,
               store |-> job[p].store, invalid |-> FALSE] \in Profile
            BY <1>4, <2>4 DEF Profile, KindOf, Kind, JobOK, Load, Typed
        <3>2. job[p].flag \in BOOLEAN
            BY <2>2 DEF Job
        <3> QED BY <1>3, <2>1, <2>2, <2>4, <3>1, <3>2, UpsertedIndex DEF Prepare
    <2>5. CASE plan' = [plan EXCEPT ![p] = Removed(file, n)]
        BY <1>3, <2>1, <2>2, <2>5, RemovedIndex
    <2>6. CASE profile # None /\ Prepare(p, [file EXCEPT !.default = n])
        <3>1. /\ [file EXCEPT !.default = n].default = n
              /\ [file EXCEPT !.default = n].profiles = file.profiles
            BY <2>1, <2>2, DefaultIndex
        <3>2. Sound([file EXCEPT !.default = n])
            BY <2>1, <2>6, <3>1 DEF Sound, Stored
        <3> QED BY <1>3, <2>1, <2>6, <3>2 DEF Prepare
    <2>7. CASE /\ profile # None /\ job[p].op = "scope"
               /\ Prepare(p, WithProfile(file, n, [profile EXCEPT !.scope = job[p].scope]))
        <3>1. [profile EXCEPT !.scope = job[p].scope] \in Profile
            BY <1>4, <2>2, <2>7 DEF Profile, JobOK, Load, Typed
        <3>2. n \in Stored(file)
            BY <2>1, <2>7 DEF Stored
        <3> QED BY <1>3, <2>1, <2>2, <2>7, <3>1, <3>2, WithProfileSound DEF Prepare
    <2>8. CASE /\ profile # None /\ job[p].op = "check"
               /\ Prepare(p, WithProfile(file, n, [profile EXCEPT !.invalid = job[p].flag]))
        <3>1. [profile EXCEPT !.invalid = job[p].flag] \in Profile
            BY <2>2, <2>8 DEF Profile, Job
        <3>2. n \in Stored(file)
            BY <2>1, <2>8 DEF Stored
        <3> QED BY <1>3, <2>1, <2>2, <2>8, <3>1, <3>2, WithProfileSound DEF Prepare
    <2> QED BY <1>4, <2>3, <2>4, <2>5, <2>6, <2>7, <2>8 DEF Load
<1>5. ASSUME NEW p \in Process, TruncateIndex(p) PROVE SoundInv'
    BY <1>5 DEF TruncateIndex, Sound, Stored
<1>6. ASSUME NEW p \in Process, WriteIndex(p) PROVE SoundInv'
    <2>1. file' \in {file, plan[p], EmptyIndex} /\ Finish(p)
        BY <1>6 DEF WriteIndex
    <2>2. Sound(file)'
        BY <2>1 DEF Sound, Stored
    <2>3. \A q \in Process : Sound(plan[q])'
        BY <2>1 DEF Finish, Sound, Stored, Typed, TypeOK
    <2> QED BY <2>2, <2>3
<1>7. ASSUME NEW p \in Process, Verify(p) \/ StoreSecret(p) \/ Crash(p) PROVE SoundInv'
    BY <1>1, <1>2, <1>7 DEF Verify, StoreSecret, Crash
<1>8. ASSUME NEW p \in Process, AskDiscord(p) \/ DeleteSecret(p) PROVE SoundInv'
    BY <1>1, <1>8 DEF AskDiscord, DeleteSecret
<1>9. ASSUME NEW p \in Process, Begin(p) PROVE SoundInv'
    BY <1>1, <1>9 DEF Begin, Login, LogoutOrUse, SetScope, Check
<1>10. ASSUME NEW t \in Token, Revoke(t) PROVE SoundInv'
    BY <1>1, <1>10 DEF Revoke
<1>11. CASE UNCHANGED vars
    BY <1>1, <1>11 DEF vars
<1> QED BY <1>4, <1>5, <1>6, <1>7, <1>8, <1>9, <1>10, <1>11 DEF Next, Step

\* DefaultStored for any number of processes, accounts and crashes: whenever
\* the index has accounts, its default is one of them.
THEOREM DefaultIsStored == Spec => []DefaultStored
<1>1. Init => Typed /\ SoundInv
    BY TypeInit, SoundInit
<1>2. Typed /\ SoundInv /\ [Next]_vars => (Typed /\ SoundInv)'
    BY TypeStep, SoundStep
<1>3. Typed /\ SoundInv => DefaultStored
    BY DEF SoundInv, DefaultStored
<1> QED BY <1>1, <1>2, <1>3, PTL DEF Spec

-----------------------------------------------------------------------------
(* Accounts that may write. *)

\* A profile of a user with the scope write belongs to an account for which
\* somebody has asked to write.
Asked(n, profile) ==
    profile # None /\ profile.kind = "user" /\ profile.scope = "write" => n \in widened

\* So it is in every index, and a job that will give the scope is for one.
AskedInv ==
    \A n \in Name :
        /\ Asked(n, file.profiles[n])
        /\ \A p \in Process :
              /\ Asked(n, plan[p].profiles[n])
              /\ pc[p] # "idle" /\ job[p].name = n /\ job[p].scope = "write" =>
                    /\ job[p].op = "login" /\ job[p].token \in UserToken => n \in widened
                    /\ job[p].op = "scope" => n \in widened

LEMMA AskedInit == Init => AskedInv
<1> SUFFICES ASSUME Init PROVE AskedInv
    OBVIOUS
<1>1. \A n \in Name : EmptyIndex.profiles[n] = None
    BY DEF EmptyIndex
<1> QED BY <1>1 DEF Init, AskedInv, Asked

LEMMA AskedStep == Typed /\ AskedInv /\ [Next]_vars => AskedInv'
<1> SUFFICES ASSUME Typed, AskedInv, [Next]_vars PROVE AskedInv'
    OBVIOUS
<1> USE DEF AskedInv, Asked
<1>e. \A n \in Name : EmptyIndex.profiles[n] = None
    BY DEF EmptyIndex
<1>1. CASE UNCHANGED <<file, plan, pc, job, widened>>
    BY <1>1
<1>2. ASSUME NEW p \in Process, Finish(p), file' \in {file, plan[p], EmptyIndex},
             UNCHANGED widened
      PROVE  AskedInv'
    BY <1>e, <1>2 DEF Finish, Goto, Typed, TypeOK
<1>3. ASSUME NEW p \in Process, NEW j, NEW place, UNCHANGED <<file, plan>>,
             widened \subseteq widened',
             Goto(p, place), job' = [job EXCEPT ![p] = j],
             j.name \in Name /\ j.scope = "write" =>
                 /\ j.op = "login" /\ j.token \in UserToken => j.name \in widened'
                 /\ j.op = "scope" => j.name \in widened'
      PROVE  AskedInv'
    <2>1. \A n \in Name : n \in widened => n \in widened'
        BY <1>3
    <2>2. \A q \in Process : q # p => job'[q] = job[q] /\ pc'[q] = pc[q]
        BY <1>3 DEF Goto, Typed, TypeOK
    <2>3. job'[p] = j
        BY <1>3 DEF Typed, TypeOK
    <2> QED BY <1>3, <2>1, <2>2, <2>3
<1>4. ASSUME NEW p \in Process, NEW place, UNCHANGED <<file, plan, job, widened>>,
             pc[p] # "idle", Goto(p, place)
      PROVE  AskedInv'
    BY <1>4 DEF Goto, Typed, TypeOK
<1>5. ASSUME NEW p \in Process, NEW c \in Command, Login(p, c) PROVE AskedInv'
    <2> DEFINE j == [c EXCEPT !.scope = IF @ = None THEN DefaultScope(KindOf(c.token)) ELSE @]
    <2>1. c \in Job /\ c.name \in Name /\ c.token \in Token
        BY <1>5, ConstantsOK DEF Login, Job
    <2>2. /\ j.name = c.name /\ j.token = c.token /\ j.op = "login"
          /\ j.scope = "write" /\ j.token \in UserToken => c.scope = "write"
        BY <1>5, <2>1 DEF Login, Job, DefaultScope, KindOf
    <2>3. /\ widened \subseteq widened'
          /\ c.scope = "write" => c.name \in widened'
        BY <1>5 DEF Login
    <2>4. Goto(p, "verify") /\ job' = [job EXCEPT ![p] = j] /\ UNCHANGED <<file, plan>>
        BY <1>5 DEF Login, Start
    <2> HIDE DEF j
    <2> QED BY <1>3, <2>2, <2>3, <2>4
<1>6. ASSUME NEW p \in Process, NEW c \in Command, LogoutOrUse(p, c) PROVE AskedInv'
    <2> DEFINE j == [c EXCEPT !.name = Named(@)]
    <2>1. c \in Job /\ c.op \in {"logout", "use"}
        BY <1>6, ConstantsOK DEF LogoutOrUse
    <2>2. j.op \in {"logout", "use"}
        BY <2>1 DEF Job
    <2>3. Goto(p, "load") /\ job' = [job EXCEPT ![p] = j]
        BY <1>6 DEF LogoutOrUse, Start
    <2>4. UNCHANGED <<file, plan, widened>>
        BY <1>6 DEF LogoutOrUse
    <2> HIDE DEF j
    <2> QED BY <1>3, <2>2, <2>3, <2>4
<1>7. ASSUME NEW p \in Process, NEW c \in Command, SetScope(p, c) PROVE AskedInv'
    <2>1. c \in Job /\ c.op = "scope"
        BY <1>7, ConstantsOK DEF SetScope
    <2>2. PICK n \in Name : n = Named(c.name)
        BY <1>7, <2>1 DEF SetScope, Named, Typed, TypeOK, Index, Job
    <2> DEFINE j == [c EXCEPT !.name = n]
    <2>3. j.name = n /\ j.scope = c.scope /\ j.op = "scope"
        BY <2>1 DEF Job
    <2>4. /\ widened \subseteq widened'
          /\ c.scope = "write" => n \in widened'
        BY <1>7, <2>2 DEF SetScope
    <2>6. Goto(p, "load") /\ job' = [job EXCEPT ![p] = j] /\ UNCHANGED <<file, plan>>
        BY <1>7, <2>2 DEF SetScope, Start
    <2> HIDE DEF j
    <2> QED BY <1>3, <2>3, <2>4, <2>6
<1>8. ASSUME NEW p \in Process, NEW c \in Command, Check(p, c) PROVE AskedInv'
    <2> DEFINE n == Named(c.name)
               token == secrets[file.profiles[n].store][n]
               wrong == file.profiles[n].kind # KindOf(token)
               j == [c EXCEPT !.name = n, !.token = token, !.flag = wrong]
    <2>1. c \in Job /\ c.op = "check"
        BY <1>8, ConstantsOK DEF Check
    <2>2. j.op = "check"
        <3> HIDE DEF n, token, wrong
        <3> QED BY <2>1 DEF Job
    <2>3. Goto(p, "me") /\ job' = [job EXCEPT ![p] = j] /\ UNCHANGED <<file, plan, widened>>
        BY <1>8 DEF Check, Start
    <2> HIDE DEF j
    <2> QED BY <1>3, <2>2, <2>3
<1>9. ASSUME NEW p \in Process, Verify(p) \/ StoreSecret(p) \/ Crash(p) PROVE AskedInv'
    BY <1>2, <1>4, <1>9 DEF Verify, StoreSecret, Crash
<1>10. ASSUME NEW p \in Process, AskDiscord(p) PROVE AskedInv'
    <2>1. PICK failed \in BOOLEAN : job' = [job EXCEPT ![p].flag = failed]
        BY <1>10 DEF AskDiscord
    <2> DEFINE j == [job[p] EXCEPT !.flag = failed]
    <2>2. job[p] \in Job
        BY DEF Typed, TypeOK
    <2>3. j.op = job[p].op /\ j.name = job[p].name /\ j.token = job[p].token /\ j.scope = job[p].scope
        BY <2>2 DEF Job
    <2>4. job' = [job EXCEPT ![p] = j]
        BY <2>1 DEF Typed, TypeOK
    <2>5. Goto(p, "load") /\ pc[p] = "me" /\ UNCHANGED <<file, plan, widened>>
        BY <1>10 DEF AskDiscord
    <2> HIDE DEF j
    <2>6. j.name \in Name /\ j.scope = "write" =>
              /\ j.op = "login" /\ j.token \in UserToken => j.name \in widened'
              /\ j.op = "scope" => j.name \in widened'
        <3>1. ASSUME NEW n \in Name, job[p].name = n, job[p].scope = "write"
              PROVE  /\ job[p].op = "login" /\ job[p].token \in UserToken => n \in widened
                     /\ job[p].op = "scope" => n \in widened
            BY <2>5, <3>1
        <3> QED BY <2>3, <2>5, <3>1
    <2>7. widened \subseteq widened'
        BY <2>5
    <2> QED BY <1>3, <2>4, <2>5, <2>6, <2>7
<1>11. ASSUME NEW p \in Process, Load(p) PROVE AskedInv'
    <2> DEFINE n == job[p].name
               profile == file.profiles[n]
    <2>1. n \in Name /\ UNCHANGED <<file, widened>> /\ pc[p] = "load"
        BY <1>11 DEF Load, JobOK, Typed
    <2>2. file \in Index /\ profile \in Profile \cup {None} /\ job[p] \in Job
        BY <2>1 DEF TypeOK, Index, Typed
    <2>w. \A m \in Name : m \in widened => m \in widened'
        BY <2>1
    <2>p. ASSUME NEW index \in Index, NEW new \in Profile \cup {None},
                 index.profiles = [file.profiles EXCEPT ![n] = new],
                 Asked(n, new), Prepare(p, index)
          PROVE  AskedInv'
        <3>1. \A m \in Name : Asked(m, index.profiles[m])
            BY <2>1, <2>2, <2>p DEF Index
        <3> HIDE DEF n
        <3> QED BY <2>1, <2>w, <2>p, <3>1 DEF Prepare, Goto, Typed, TypeOK
    <2>3. CASE Finish(p)
        BY <1>2, <2>1, <2>3
    <2>4. CASE /\ job[p].op = "login"
               /\ Prepare(p, Upserted(file, n, [kind |-> KindOf(job[p].token),
                                                scope |-> job[p].scope,
                                                store |-> job[p].store,
                                                invalid |-> FALSE], job[p].flag))
        <3> DEFINE new == [kind |-> KindOf(job[p].token), scope |-> job[p].scope,
                           store |-> job[p].store, invalid |-> FALSE]
        <3>1. new \in Profile
            BY <1>11, <2>4 DEF Profile, KindOf, Kind, JobOK, Load, Typed
        <3>2. job[p].flag \in BOOLEAN
            BY <2>2 DEF Job
        <3>3. Asked(n, new)
            BY <2>1, <2>4 DEF KindOf
        <3>4. Prepare(p, Upserted(file, n, new, job[p].flag))
            BY <2>4
        <3> HIDE DEF new
        <3>5. /\ Upserted(file, n, new, job[p].flag) \in Index
              /\ Upserted(file, n, new, job[p].flag).profiles = [file.profiles EXCEPT ![n] = new]
            BY <2>1, <2>2, <3>1, <3>2, UpsertedIndex
        <3> HIDE DEF n, Asked, AskedInv
        <3> QED BY <2>p, <3>1, <3>3, <3>4, <3>5
    <2>5. CASE /\ job[p].op = "logout" /\ profile # None
               /\ plan' = [plan EXCEPT ![p] = Removed(file, n)]
               /\ job' = [job EXCEPT ![p].store = profile.store]
               /\ Goto(p, "delete")
        <3>1. /\ Removed(file, n) \in Index
              /\ Removed(file, n).profiles = [file.profiles EXCEPT ![n] = None]
            BY <2>1, <2>2, RemovedIndex
        <3>2. \A m \in Name : Asked(m, Removed(file, n).profiles[m])
            BY <2>1, <2>2, <3>1 DEF Index
        <3>3. job'[p].op = "logout"
            BY <2>2, <2>5 DEF Job, Typed, TypeOK
        <3>4. \A q \in Process : q # p => job'[q] = job[q] /\ pc'[q] = pc[q]
            BY <2>5 DEF Goto, Typed, TypeOK
        <3> HIDE DEF n, profile
        <3> QED BY <2>1, <2>w, <2>5, <3>2, <3>3, <3>4 DEF Typed, TypeOK
    <2>6. CASE Prepare(p, [file EXCEPT !.default = n])
        <3>1. /\ [file EXCEPT !.default = n] \in Index
              /\ [file EXCEPT !.default = n].profiles = file.profiles
            BY <2>1, <2>2, DefaultIndex
        <3>2. file.profiles = [file.profiles EXCEPT ![n] = profile]
            BY <2>1, <2>2 DEF Index
        <3>3. Asked(n, profile)
            BY <2>1
        <3> QED BY <2>2, <2>6, <2>p, <3>1, <3>2, <3>3
    <2>7. CASE /\ profile # None /\ job[p].op = "scope"
               /\ Prepare(p, WithProfile(file, n, [profile EXCEPT !.scope = job[p].scope]))
        <3> DEFINE new == [profile EXCEPT !.scope = job[p].scope]
        <3>1. new \in Profile /\ new.scope = job[p].scope
            BY <1>11, <2>2, <2>7 DEF Profile, JobOK, Load, Typed
        <3>2. Asked(n, new)
            BY <2>1, <2>7, <3>1
        <3>3. Prepare(p, WithProfile(file, n, new))
            BY <2>7
        <3> HIDE DEF new
        <3>4. /\ WithProfile(file, n, new) \in Index
              /\ WithProfile(file, n, new).profiles = [file.profiles EXCEPT ![n] = new]
            BY <2>1, <2>2, <3>1, WithProfileIndex
        <3> HIDE DEF n, Asked, AskedInv
        <3> QED BY <2>p, <3>1, <3>2, <3>3, <3>4
    <2>8. CASE /\ profile # None /\ job[p].op = "check"
               /\ Prepare(p, WithProfile(file, n, [profile EXCEPT !.invalid = job[p].flag]))
        <3> DEFINE new == [profile EXCEPT !.invalid = job[p].flag]
        <3>1. new \in Profile /\ new.scope = profile.scope /\ new.kind = profile.kind
            BY <2>2, <2>8 DEF Profile, Job
        <3>2. Asked(n, new)
            BY <2>1, <2>8, <3>1
        <3>3. Prepare(p, WithProfile(file, n, new))
            BY <2>8
        <3> HIDE DEF new
        <3>4. /\ WithProfile(file, n, new) \in Index
              /\ WithProfile(file, n, new).profiles = [file.profiles EXCEPT ![n] = new]
            BY <2>1, <2>2, <3>1, WithProfileIndex
        <3> HIDE DEF n, Asked, AskedInv
        <3> QED BY <2>p, <3>1, <3>2, <3>3, <3>4
    <2> QED BY <1>11, <2>3, <2>4, <2>5, <2>6, <2>7, <2>8 DEF Load
<1>12. ASSUME NEW p \in Process, DeleteSecret(p) PROVE AskedInv'
    BY <1>4, <1>12 DEF DeleteSecret
<1>13. ASSUME NEW p \in Process, TruncateIndex(p) PROVE AskedInv'
    BY <1>e, <1>13 DEF TruncateIndex, Goto, Typed, TypeOK
<1>14. ASSUME NEW p \in Process, WriteIndex(p) PROVE AskedInv'
    BY <1>2, <1>14 DEF WriteIndex
<1>15. ASSUME NEW t \in Token, Revoke(t) PROVE AskedInv'
    BY <1>1, <1>15 DEF Revoke
<1>16. CASE UNCHANGED vars
    BY <1>1, <1>16 DEF vars
<1> QED
    BY <1>5, <1>6, <1>7, <1>8, <1>9, <1>10, <1>11, <1>12, <1>13, <1>14, <1>15, <1>16
    DEF Next, Begin, Step

\* WriteWasAskedFor for any number of processes, accounts and crashes: no
\* order of their steps lets a user account write unless somebody asked.
THEOREM WriteNeedsAsking == Spec => []WriteWasAskedFor
<1>1. Init => Typed /\ AskedInv
    BY TypeInit, AskedInit
<1>2. Typed /\ AskedInv /\ [Next]_vars => (Typed /\ AskedInv)'
    BY TypeStep, AskedStep
<1>3. Typed /\ AskedInv => WriteWasAskedFor
    BY DEF AskedInv, Asked, WriteWasAskedFor, Stored
<1> QED BY <1>1, <1>2, <1>3, PTL DEF Spec

-----------------------------------------------------------------------------
(* Commands that run one after another. *)

\* At most one command runs at a time.
OneAtATime == \A p, q \in Process : pc[p] # "idle" /\ pc[q] # "idle" => p = q

\* Every account of an index has its secret among the keys, in the store that
\* its profile names.
Kept(index, keys) == \A n \in Stored(index) : keys[index.profiles[n].store][n] # None

\* An index and the reports of the commands say the same.
Agrees(index, reports) ==
    \A n \in Name :
        reports[n] = IF n \in Stored(index) THEN index.profiles[n].scope ELSE None

\* What the reports are when a command is done.
Reported(reports, j) ==
    [reports EXCEPT ![j.name] = CASE j.op \in {"login", "scope"} -> j.scope
                                  [] j.op = "logout" -> None
                                  [] OTHER -> @]

Settled == Kept(file, secrets) /\ Agrees(file, asked)

\* How far a command has come: until it deletes or writes anything, the index
\* is settled, and from then on the index that it is about to write is the one
\* that it will report.
Progress(p) ==
    /\ pc[p] \in {"verify", "store", "me", "load"} => Settled
    /\ pc[p] = "me" => job[p].op # "login"
    /\ pc[p] = "load" /\ job[p].op = "login" => secrets[job[p].store][job[p].name] # None
    /\ pc[p] = "delete" => plan[p].profiles[job[p].name] = None
    /\ pc[p] \in {"delete", "truncate", "write"} =>
          Kept(plan[p], secrets) /\ Agrees(plan[p], Reported(asked, job[p]))
    /\ pc[p] = "write" => ~written

AloneInv ==
    /\ Quiet => Settled
    /\ \A p \in Process : pc[p] # "idle" => Progress(p)

\* A profile that is set, with its secret, or removed, together with its report
\* leaves an index that keeps its secrets and agrees with the reports.
LEMMA Replaced ==
    ASSUME NEW index \in Index, NEW n \in Name, NEW profile \in Profile \cup {None},
           NEW new \in Index, new.profiles = [index.profiles EXCEPT ![n] = profile],
           NEW keys, NEW reports \in [Name -> Scope \cup {None}], NEW result,
           Kept(index, keys), Agrees(index, reports),
           profile # None => keys[profile.store][n] # None,
           result = [reports EXCEPT ![n] = IF profile = None THEN None ELSE profile.scope]
    PROVE  Kept(new, keys) /\ Agrees(new, result)
<1>1. \A m \in Name : new.profiles[m] = IF m = n THEN profile ELSE index.profiles[m]
    BY DEF Index
<1>2. \A m \in Name : result[m] = IF m = n THEN (IF profile = None THEN None ELSE profile.scope)
                                  ELSE reports[m]
    OBVIOUS
<1>3. Kept(new, keys)
    BY <1>1 DEF Kept, Stored
<1>4. Agrees(new, result)
    BY <1>1, <1>2 DEF Agrees, Stored
<1> QED BY <1>3, <1>4

\* Process p moves while the others are idle: what remains is what it owes.
LEMMA Moves ==
    ASSUME Typed, NEW p \in Process, NEW place, Goto(p, place),
           \A q \in Process : q # p => pc[q] = "idle",
           place = "idle" => Settled',
           place # "idle" => Progress(p)'
    PROVE  AloneInv'
<1>1. pc'[p] = place /\ \A q \in Process : q # p => pc'[q] = "idle"
    BY DEF Typed, TypeOK, Goto
<1> QED BY <1>1 DEF AloneInv, Quiet

\* A command begins when all is quiet.
LEMMA BeginAlone ==
    ASSUME Typed, AloneInv, OneAtATime', NEW p \in Process, Begin(p)
    PROVE  AloneInv'
<1>1. PICK place \in {"verify", "load", "me"} : Goto(p, place) /\ pc[p] = "idle"
    BY DEF Begin, Login, LogoutOrUse, SetScope, Check, Start
<1>2. UNCHANGED <<file, secrets, asked>>
    BY DEF Begin, Login, LogoutOrUse, SetScope, Check
<1>3. ASSUME NEW q \in Process, q # p PROVE pc[q] = "idle"
    <2>1. pc'[p] # "idle" /\ pc'[q] = pc[q]
        BY <1>1, <1>3 DEF Goto, Typed, TypeOK
    <2> QED BY <1>3, <2>1 DEF OneAtATime
<1>4. Settled /\ Settled'
    BY <1>1, <1>2, <1>3 DEF AloneInv, Quiet, Settled, Kept, Agrees, Stored
<1>5. place # "verify" => job'[p].op # "login"
    <2> SUFFICES ASSUME place # "verify" PROVE job'[p].op # "login"
        OBVIOUS
    <2>1. pc'[p] # "verify"
        BY <1>1 DEF Goto, Typed, TypeOK
    <2>2. PICK c \in Command : Login(p, c) \/ LogoutOrUse(p, c) \/ SetScope(p, c) \/ Check(p, c)
        BY DEF Begin
    <2>3. c \in Job
        BY ConstantsOK
    <2>4. ~Login(p, c)
        BY <2>1 DEF Login, Start, Goto, Typed, TypeOK
    <2>7. CASE Check(p, c)
        <3>1. PICK name, token, flag :
                  job'[p] = [c EXCEPT !.name = name, !.token = token, !.flag = flag]
            BY <2>7 DEF Check, Start, Typed, TypeOK
        <3>2. c.op = "check"
            BY <2>7 DEF Check
        <3> QED BY <2>3, <3>1, <3>2 DEF Job
    <2>5. CASE LogoutOrUse(p, c)
        <3>1. job'[p] = [c EXCEPT !.name = Named(@)] /\ c.op \in {"logout", "use"}
            BY <2>5 DEF LogoutOrUse, Start, Typed, TypeOK
        <3> QED BY <2>3, <3>1 DEF Job
    <2>6. CASE SetScope(p, c)
        <3>1. job'[p] = [c EXCEPT !.name = Named(c.name)] /\ c.op = "scope"
            BY <2>6 DEF SetScope, Start, Typed, TypeOK
        <3> QED BY <2>3, <3>1 DEF Job
    <2> QED BY <2>2, <2>4, <2>5, <2>6, <2>7
<1>6. pc'[p] = place
    BY <1>1 DEF Goto, Typed, TypeOK
<1>7. Progress(p)'
    BY <1>4, <1>5, <1>6 DEF Progress
<1> QED BY <1>1, <1>3, <1>7, Moves

\* The index that a command makes of a settled one is what it will report.
LEMMA LoadAlone ==
    ASSUME Typed, AloneInv, NEW p \in Process, Load(p),
           \A q \in Process : q # p => pc[q] = "idle"
    PROVE  AloneInv'
<1> DEFINE n == job[p].name
           profile == file.profiles[n]
<1>1. /\ pc[p] = "load" /\ JobOK(p) /\ Progress(p) /\ Settled
      /\ UNCHANGED <<file, written, secrets, asked>>
    BY DEF Load, Typed, AloneInv, Progress
<1>2. /\ n \in Name /\ file \in Index /\ profile \in Profile \cup {None} /\ job[p] \in Job
      /\ asked \in [Name -> Scope \cup {None}] /\ Kept(file, secrets) /\ Agrees(file, asked)
    BY <1>1 DEF JobOK, Typed, TypeOK, Index, Settled
<1>3. profile # None => secrets[profile.store][n] # None /\ asked[n] = profile.scope
    BY <1>2 DEF Kept, Agrees, Stored
<1>4. ASSUME NEW index \in Index, NEW new \in Profile, Prepare(p, index),
             index.profiles = [file.profiles EXCEPT ![n] = new],
             secrets[new.store][n] # None,
             Reported(asked, job[p]) = [asked EXCEPT ![n] = new.scope]
      PROVE  AloneInv'
    <2>1. Kept(index, secrets) /\ Agrees(index, Reported(asked, job[p]))
        <3>1. /\ new # None
              /\ Reported(asked, job[p]) = [asked EXCEPT ![n] = IF new = None THEN None
                                                                ELSE new.scope]
            BY <1>4, ConstantsOK
        <3> HIDE DEF n
        <3> QED BY <1>2, <1>4, <3>1, Replaced
    <2>2. /\ Goto(p, "truncate") /\ pc'[p] = "truncate"
          /\ plan'[p] = index /\ job'[p] = job[p]
        BY <1>4 DEF Prepare, Goto, Typed, TypeOK
    <2>3. Progress(p)'
        BY <1>1, <2>1, <2>2 DEF Progress
    <2> QED BY <2>2, <2>3, Moves
<1>5. CASE Finish(p)
    <2>1. Settled'
        BY <1>1 DEF Settled, Kept, Agrees, Stored
    <2> QED BY <1>5, <2>1, Moves DEF Finish
<1>6. CASE /\ job[p].op = "login"
           /\ Prepare(p, Upserted(file, n, [kind |-> KindOf(job[p].token),
                                            scope |-> job[p].scope,
                                            store |-> job[p].store,
                                            invalid |-> FALSE], job[p].flag))
    <2> DEFINE new == [kind |-> KindOf(job[p].token), scope |-> job[p].scope,
                       store |-> job[p].store, invalid |-> FALSE]
               index == Upserted(file, n, new, job[p].flag)
    <2>1. new \in Profile /\ new.scope = job[p].scope /\ new.store = job[p].store
        BY <1>1, <1>6 DEF Profile, KindOf, Kind, JobOK
    <2>2. job[p].flag \in BOOLEAN
        BY <1>2 DEF Job
    <2> HIDE DEF new
    <2>3. index \in Index /\ index.profiles = [file.profiles EXCEPT ![n] = new]
        BY <1>2, <2>1, <2>2, UpsertedIndex
    <2>4. secrets[new.store][n] # None
        BY <1>1, <1>6, <2>1 DEF Progress
    <2>5. Reported(asked, job[p]) = [asked EXCEPT ![n] = new.scope]
        BY <1>6, <2>1 DEF Reported
    <2>6. Prepare(p, index)
        BY <1>6 DEF new
    <2> HIDE DEF index
    <2> QED BY <1>4, <2>1, <2>3, <2>4, <2>5, <2>6
<1>7. CASE /\ job[p].op = "logout" /\ profile # None
           /\ plan' = [plan EXCEPT ![p] = Removed(file, n)]
           /\ job' = [job EXCEPT ![p].store = profile.store]
           /\ Goto(p, "delete")
    <2>1. /\ Removed(file, n) \in Index
          /\ Removed(file, n).profiles = [file.profiles EXCEPT ![n] = None]
        BY <1>2, RemovedIndex
    <2>2. job'[p].op = "logout" /\ job'[p].name = n
        BY <1>2, <1>7 DEF Typed, TypeOK, Job
    <2>3. Reported(asked, job[p])' = [asked EXCEPT ![n] = None]
        BY <1>1, <2>2 DEF Reported
    <2>4. Kept(Removed(file, n), secrets) /\ Agrees(Removed(file, n), [asked EXCEPT ![n] = None])
        <3> DEFINE result == [asked EXCEPT ![n] = None]
                   index == Removed(file, n)
        <3>1. result = [asked EXCEPT ![n] = IF None = None THEN None ELSE None.scope]
            OBVIOUS
        <3>2. index \in Index /\ index.profiles = [file.profiles EXCEPT ![n] = None]
            BY <2>1
        <3> HIDE DEF n, result, index
        <3>3. Kept(index, secrets) /\ Agrees(index, result)
            BY <1>2, <3>1, <3>2, Replaced
        <3> QED BY <3>3 DEF result, index
    <2>5. pc'[p] = "delete" /\ plan'[p] = Removed(file, n)
        BY <1>7 DEF Goto, Typed, TypeOK
    <2>6. Removed(file, n).profiles[n] = None
        BY <1>2, <2>1 DEF Index
    <2>7. /\ Kept(plan[p], secrets)' /\ Agrees(plan[p], Reported(asked, job[p]))'
          /\ plan'[p].profiles[job'[p].name] = None
        BY <1>1, <2>2, <2>3, <2>4, <2>5, <2>6
    <2>8. Progress(p)'
        BY <2>5, <2>7 DEF Progress
    <2> QED BY <1>7, <2>8, Moves
<1>8. CASE /\ job[p].op = "use" /\ profile # None
           /\ Prepare(p, [file EXCEPT !.default = n])
    <2>1. /\ [file EXCEPT !.default = n] \in Index
          /\ [file EXCEPT !.default = n].profiles = [file.profiles EXCEPT ![n] = profile]
        <3>1. /\ [file EXCEPT !.default = n] \in Index
              /\ [file EXCEPT !.default = n].profiles = file.profiles
            BY <1>2, DefaultIndex
        <3> QED BY <1>2, <3>1 DEF Index
    <2>2. Reported(asked, job[p]) = [asked EXCEPT ![n] = profile.scope]
        BY <1>2, <1>3, <1>8 DEF Reported
    <2> QED BY <1>2, <1>3, <1>4, <1>8, <2>1, <2>2
<1>9. CASE /\ job[p].op = "scope" /\ profile # None
           /\ Prepare(p, WithProfile(file, n, [profile EXCEPT !.scope = job[p].scope]))
    <2> DEFINE new == [profile EXCEPT !.scope = job[p].scope]
    <2>1. new \in Profile /\ new.store = profile.store /\ new.scope = job[p].scope
        BY <1>1, <1>2, <1>9 DEF Profile, JobOK
    <2> HIDE DEF new
    <2>2. /\ WithProfile(file, n, new) \in Index
          /\ WithProfile(file, n, new).profiles = [file.profiles EXCEPT ![n] = new]
        BY <1>2, <2>1, WithProfileIndex
    <2>3. Reported(asked, job[p]) = [asked EXCEPT ![n] = new.scope]
        BY <1>9, <2>1 DEF Reported
    <2>4. Prepare(p, WithProfile(file, n, new))
        BY <1>9 DEF new
    <2> QED BY <1>3, <1>4, <1>9, <2>1, <2>2, <2>3, <2>4
<1>10. CASE /\ job[p].op = "check" /\ profile # None
            /\ Prepare(p, WithProfile(file, n, [profile EXCEPT !.invalid = job[p].flag]))
    <2> DEFINE new == [profile EXCEPT !.invalid = job[p].flag]
    <2>1. new \in Profile /\ new.store = profile.store /\ new.scope = profile.scope
        BY <1>2, <1>10 DEF Profile, Job
    <2> HIDE DEF new
    <2>2. /\ WithProfile(file, n, new) \in Index
          /\ WithProfile(file, n, new).profiles = [file.profiles EXCEPT ![n] = new]
        BY <1>2, <2>1, WithProfileIndex
    <2>3. Reported(asked, job[p]) = [asked EXCEPT ![n] = new.scope]
        BY <1>2, <1>3, <1>10, <2>1 DEF Reported
    <2>4. Prepare(p, WithProfile(file, n, new))
        BY <1>10 DEF new
    <2> QED BY <1>3, <1>4, <1>10, <2>1, <2>2, <2>3, <2>4
<1> QED BY <1>5, <1>6, <1>7, <1>8, <1>9, <1>10 DEF Load

\* The other steps of a command that runs alone, on a disk that does not fail.
LEMMA StepAlone ==
    ASSUME Typed, AloneInv, NEW p \in Process, Step(p), "diskFails" \notin Faults,
           \A q \in Process : q # p => pc[q] = "idle"
    PROVE  AloneInv'
<1>1. pc[p] # "idle" /\ JobOK(p) /\ Progress(p)
    BY DEF Step, Verify, StoreSecret, AskDiscord, Load, DeleteSecret, TruncateIndex,
           WriteIndex, AloneInv, Typed
<1>2. CASE Verify(p)
    <2>1. Settled'
        BY <1>1, <1>2 DEF Verify, Progress, Settled, Kept, Agrees, Stored
    <2>2. CASE Goto(p, "store")
        <3>1. pc'[p] = "store"
            BY <2>2 DEF Goto, Typed, TypeOK
        <3>2. Progress(p)'
            BY <2>1, <3>1 DEF Progress
        <3> QED BY <2>2, <3>2, Moves
    <2>3. CASE Finish(p)
        BY <2>1, <2>3, Moves DEF Finish
    <2> QED BY <1>2, <2>2, <2>3 DEF Verify
<1>3. CASE StoreSecret(p)
    <2>1. /\ pc[p] = "store" /\ Settled /\ UNCHANGED <<file, asked>>
          /\ job[p].name \in Name /\ job[p].token \in Token /\ job[p].store \in Store
        BY <1>1, <1>3 DEF StoreSecret, Progress, JobOK
    <2>2. CASE /\ secrets' = [secrets EXCEPT ![job[p].store][job[p].name] = job[p].token]
               /\ Goto(p, "load")
               /\ UNCHANGED <<job, plan>>
        <3>1. secrets'[job[p].store][job[p].name] # None
            BY <2>1, <2>2, ConstantsOK DEF Typed, TypeOK
        <3>2. ASSUME NEW s \in Store, NEW n \in Name, secrets[s][n] # None
              PROVE  secrets'[s][n] # None
            BY <2>1, <2>2, <3>2, ConstantsOK DEF Typed, TypeOK
        <3>3. \A n \in Stored(file) : n \in Name /\ file.profiles[n].store \in Store
            BY DEF Stored, Typed, TypeOK, Index, Profile
        <3>4. Kept(file, secrets)'
            BY <2>1, <3>2, <3>3 DEF Settled, Kept, Stored
        <3>5. Settled'
            BY <2>1, <3>4 DEF Settled, Agrees, Stored
        <3>6. pc'[p] = "load"
            BY <2>2 DEF Goto, Typed, TypeOK
        <3>7. Progress(p)'
            BY <2>2, <3>1, <3>5, <3>6 DEF Progress
        <3> QED BY <2>2, <3>7, Moves
    <2>3. CASE Finish(p) /\ UNCHANGED secrets
        <3>1. Settled'
            BY <2>1, <2>3 DEF Settled, Kept, Agrees, Stored
        <3> QED BY <2>3, <3>1, Moves DEF Finish
    <2> QED BY <1>3, <2>2, <2>3 DEF StoreSecret
<1>4. CASE AskDiscord(p)
    <2>1. Settled' /\ Goto(p, "load") /\ pc[p] = "me"
        BY <1>1, <1>4 DEF AskDiscord, Progress, Settled, Kept, Agrees, Stored
    <2>2. pc'[p] = "load"
        BY <2>1 DEF Goto, Typed, TypeOK
    <2>3. job'[p].op = job[p].op
        BY <1>4 DEF AskDiscord, Typed, TypeOK, Job
    <2>4. job[p].op # "login"
        BY <2>1, <1>1 DEF Progress
    <2>5. Progress(p)'
        BY <2>1, <2>2, <2>3, <2>4 DEF Progress
    <2> QED BY <2>1, <2>5, Moves
<1>5. CASE DeleteSecret(p)
    <2>1. /\ pc[p] = "delete" /\ Goto(p, "truncate") /\ UNCHANGED <<job, plan, asked>>
          /\ plan[p].profiles[job[p].name] = None
          /\ Kept(plan[p], secrets) /\ Agrees(plan[p], Reported(asked, job[p]))
        BY <1>1, <1>5 DEF DeleteSecret, Progress
    <2>2. job[p].name \in Name /\ job[p].store \in Store /\ plan[p] \in Index
        BY <1>1, <2>1 DEF JobOK, Typed, TypeOK
    <2>3. \A s \in Store, n \in Name : n # job[p].name => secrets'[s][n] = secrets[s][n]
        BY <1>5, <2>2 DEF DeleteSecret, Typed, TypeOK
    <2>4. \A n \in Stored(plan[p]) :
              n \in Name /\ n # job[p].name /\ plan[p].profiles[n].store \in Store
        BY <2>1, <2>2 DEF Stored, Index, Profile
    <2>5. Kept(plan[p], secrets')
        BY <2>1, <2>3, <2>4 DEF Kept
    <2>6. pc'[p] = "truncate"
        BY <2>1 DEF Goto, Typed, TypeOK
    <2>7. Progress(p)'
        BY <2>1, <2>5, <2>6 DEF Progress
    <2> QED BY <2>1, <2>7, Moves
<1>6. CASE TruncateIndex(p)
    <2>1. /\ Goto(p, "write") /\ UNCHANGED <<secrets, job, plan, asked>> /\ written' = FALSE
          /\ Kept(plan[p], secrets) /\ Agrees(plan[p], Reported(asked, job[p]))
        BY <1>1, <1>6 DEF TruncateIndex, Progress
    <2>2. pc'[p] = "write"
        BY <2>1 DEF Goto, Typed, TypeOK
    <2>3. Progress(p)'
        BY <2>1, <2>2 DEF Progress
    <2> QED BY <2>1, <2>3, Moves
<1>7. CASE WriteIndex(p)
    <2>1. /\ ~written /\ Kept(plan[p], secrets) /\ Agrees(plan[p], Reported(asked, job[p]))
        BY <1>1, <1>7 DEF WriteIndex, Progress
    <2>2. file' = plan[p] /\ asked' = Reported(asked, job[p]) /\ UNCHANGED secrets
        BY <1>7, <2>1 DEF WriteIndex, Reported
    <2>3. Settled'
        BY <2>1, <2>2 DEF Settled
    <2> QED BY <1>7, <2>3, Moves DEF WriteIndex, Finish
<1> QED BY <1>2, <1>3, <1>4, <1>5, <1>6, <1>7, LoadAlone DEF Step

LEMMA AloneInit == Init => AloneInv
<1> SUFFICES ASSUME Init PROVE AloneInv
    OBVIOUS
<1>1. Stored(EmptyIndex) = {}
    BY DEF Stored, EmptyIndex
<1>2. Settled
    BY <1>1 DEF Init, Settled, Kept, Agrees
<1>3. \A p \in Process : pc[p] = "idle"
    BY DEF Init
<1> QED BY <1>2, <1>3 DEF AloneInv

LEMMA AloneStep ==
    ASSUME Faults \cap {"crash", "diskFails"} = {},
           Typed, AloneInv, OneAtATime, OneAtATime', [Next]_vars
    PROVE  AloneInv'
<1>1. ASSUME NEW p \in Process, Step(p) PROVE AloneInv'
    <2>1. pc[p] # "idle"
        BY <1>1 DEF Step, Verify, StoreSecret, AskDiscord, Load, DeleteSecret,
                    TruncateIndex, WriteIndex
    <2>2. \A q \in Process : q # p => pc[q] = "idle"
        BY <2>1 DEF OneAtATime
    <2> QED BY <1>1, <2>2, StepAlone
<1>2. ASSUME NEW p \in Process, Begin(p) PROVE AloneInv'
    BY <1>2, BeginAlone
<1>3. ASSUME UNCHANGED <<file, written, secrets, pc, job, plan, asked>> PROVE AloneInv'
    BY <1>3 DEF AloneInv, Quiet, Progress, Settled, Kept, Agrees, Stored, Reported
<1>4. \A p \in Process : ~Crash(p)
    BY DEF Crash
<1> QED BY <1>1, <1>2, <1>3, <1>4 DEF Next, Revoke, vars

\* SecretStored for any number of processes whose commands do not overlap, on a
\* disk that takes what is written and without crashes, while requests and
\* stores fail as they like and tokens are revoked: an account that is stored
\* has its secret in the store that its profile names.
THEOREM SecretIsStored ==
    ASSUME Faults \cap {"crash", "diskFails"} = {}
    PROVE  Spec /\ []OneAtATime => []SecretStored
<1>1. Init => Typed /\ AloneInv
    BY TypeInit, AloneInit
<1>2. Typed /\ AloneInv /\ OneAtATime /\ OneAtATime' /\ [Next]_vars => (Typed /\ AloneInv)'
    BY TypeStep, AloneStep
<1>3. AloneInv => SecretStored
    BY DEF AloneInv, Settled, Kept, SecretStored
<1> QED BY <1>1, <1>2, <1>3, PTL DEF Spec

\* ReportsStand under the same conditions: the index says which accounts the
\* commands have reported logged in, and with which scope.
THEOREM ReportsAreTrue ==
    ASSUME Faults \cap {"crash", "diskFails"} = {}
    PROVE  Spec /\ []OneAtATime => []ReportsStand
<1>1. Init => Typed /\ AloneInv
    BY TypeInit, AloneInit
<1>2. Typed /\ AloneInv /\ OneAtATime /\ OneAtATime' /\ [Next]_vars => (Typed /\ AloneInv)'
    BY TypeStep, AloneStep
<1>3. AloneInv => ReportsStand
    BY DEF AloneInv, Settled, Agrees, ReportsStand
<1> QED BY <1>1, <1>2, <1>3, PTL DEF Spec

-----------------------------------------------------------------------------
(* Commands that do not overlap implement Registry: an index is committed    *)
(* when the file is truncated for it, everything else is a stutter.          *)

\* The index that a process is about to write is what its command was asked to
\* make of the one in the file.
Intends(p) == pc[p] \in {"delete", "truncate"} => Promise!Grants(job[p], file, plan[p])

\* What a command makes of the index it reads is what it was asked for.
LEMMA LoadIntends ==
    ASSUME Typed, NEW p \in Process, Load(p)
    PROVE  Intends(p)'
<1> DEFINE n == job[p].name
           profile == file.profiles[n]
<1>1. /\ n \in Name /\ file \in Index /\ profile \in Profile \cup {None} /\ job[p] \in Job
      /\ file' = file
    BY DEF Load, Typed, TypeOK, JobOK, Index
<1>2. Promise!Accounts(file) = Stored(file)
    BY DEF Promise!Accounts, Stored
<1>3. profile # None => n \in Stored(file)
    BY <1>1 DEF Stored
<1>4. ASSUME NEW index, Prepare(p, index), Promise!Grants(job[p], file, index)
      PROVE  Intends(p)'
    BY <1>1, <1>4 DEF Prepare, Intends, Typed, TypeOK
<1>5. CASE Finish(p)
    BY <1>5 DEF Finish, Goto, Intends, Typed, TypeOK
<1>6. CASE /\ job[p].op = "login"
           /\ Prepare(p, Upserted(file, n, [kind |-> KindOf(job[p].token),
                                            scope |-> job[p].scope,
                                            store |-> job[p].store,
                                            invalid |-> FALSE], job[p].flag))
    <2> DEFINE new == [kind |-> KindOf(job[p].token), scope |-> job[p].scope,
                       store |-> job[p].store, invalid |-> FALSE]
               index == Upserted(file, n, new, job[p].flag)
    <2>1. /\ new \in Profile /\ job[p].flag \in BOOLEAN
          /\ new.scope = job[p].scope /\ new.store = job[p].store /\ ~new.invalid
        BY <1>1, <1>6 DEF Load, Profile, KindOf, Kind, JobOK, Typed, Job
    <2> HIDE DEF new
    <2>2. /\ index.profiles = [file.profiles EXCEPT ![n] = new]
          /\ index.default = IF job[p].flag \/ file.default = None THEN n ELSE file.default
        BY <1>1, <2>1, UpsertedIndex
    <2>3. Prepare(p, index)
        BY <1>6 DEF new
    <2> HIDE DEF index
    <2>4. Promise!LogIn(job[p], file, index)
        BY <1>6, <2>1, <2>2 DEF Promise!LogIn, Promise!Replaces
    <2> QED BY <1>4, <2>3, <2>4 DEF Promise!Grants
<1>7. CASE /\ job[p].op = "logout" /\ profile # None
           /\ plan' = [plan EXCEPT ![p] = Removed(file, n)]
           /\ job' = [job EXCEPT ![p].store = profile.store]
           /\ Goto(p, "delete")
    <2> DEFINE index == Removed(file, n)
    <2>1. job'[p].op = "logout" /\ job'[p].name = n /\ plan'[p] = index
        BY <1>1, <1>7 DEF Typed, TypeOK, Job
    <2>2. /\ index.profiles = [file.profiles EXCEPT ![n] = None]
          /\ \/ file.default # n /\ index.default = file.default
             \/ file.default = n /\ index.default \in Stored(index)
             \/ file.default = n /\ Stored(index) = {} /\ index.default = None
        BY <1>1, RemovedIndex
    <2>3. Promise!Accounts(index) = Stored(index)
        BY DEF Promise!Accounts, Stored
    <2> HIDE DEF index, n
    <2>4. Promise!LogOut(job'[p], file, plan'[p])
        BY <1>2, <1>3, <1>7, <2>1, <2>2, <2>3 DEF Promise!LogOut, Promise!Replaces
    <2> QED BY <1>1, <2>4 DEF Intends, Promise!Grants
<1>8. CASE /\ job[p].op = "use" /\ profile # None
           /\ Prepare(p, [file EXCEPT !.default = n])
    <2>1. /\ [file EXCEPT !.default = n].default = n
          /\ [file EXCEPT !.default = n].profiles = file.profiles
        BY <1>1, DefaultIndex
    <2>2. Promise!Use(job[p], file, [file EXCEPT !.default = n])
        BY <1>2, <1>3, <1>8, <2>1 DEF Promise!Use
    <2> QED BY <1>4, <1>8, <2>2 DEF Promise!Grants
<1>9. ASSUME NEW new \in Profile, profile # None,
             Prepare(p, WithProfile(file, n, new)),
             \/ job[p].op = "scope" /\ new = [profile EXCEPT !.scope = job[p].scope]
             \/ job[p].op = "check" /\ new = [profile EXCEPT !.invalid = job[p].flag]
      PROVE  Intends(p)'
    <2>1. /\ WithProfile(file, n, new).profiles = [file.profiles EXCEPT ![n] = new]
          /\ WithProfile(file, n, new).default = file.default
        BY <1>1, <1>9, WithProfileIndex
    <2>2. \/ Promise!Rescope(job[p], file, WithProfile(file, n, new))
          \/ Promise!Judge(job[p], file, WithProfile(file, n, new))
        BY <1>2, <1>3, <1>9, <2>1 DEF Promise!Rescope, Promise!Judge, Promise!Replaces
    <2> QED BY <1>4, <1>9, <2>2 DEF Promise!Grants
<1>10. CASE /\ job[p].op = "scope" /\ profile # None
            /\ Prepare(p, WithProfile(file, n, [profile EXCEPT !.scope = job[p].scope]))
    <2>1. [profile EXCEPT !.scope = job[p].scope] \in Profile
        BY <1>1, <1>10 DEF Load, Profile, JobOK, Typed
    <2> QED BY <1>9, <1>10, <2>1
<1>11. CASE /\ job[p].op = "check" /\ profile # None
            /\ Prepare(p, WithProfile(file, n, [profile EXCEPT !.invalid = job[p].flag]))
    <2>1. [profile EXCEPT !.invalid = job[p].flag] \in Profile
        BY <1>1, <1>11 DEF Profile, Job
    <2> QED BY <1>9, <1>11, <2>1
<1> QED BY <1>5, <1>6, <1>7, <1>8, <1>10, <1>11 DEF Load

\* A process that is idle intends nothing, and neither does one that only
\* begins.
LEMMA IntendsStep ==
    ASSUME Typed, OneAtATime, OneAtATime', [Next]_vars, \A p \in Process : Intends(p)
    PROVE  \A p \in Process : Intends(p)'
<1>1. ASSUME NEW p \in Process, Begin(p) PROVE \A q \in Process : Intends(q)'
    <2>1. PICK place \in {"verify", "load", "me"} : Goto(p, place)
        BY <1>1 DEF Begin, Login, LogoutOrUse, SetScope, Check, Start
    <2>2. pc'[p] = place
        BY <2>1 DEF Goto, Typed, TypeOK
    <2>3. \A q \in Process : q # p => pc'[q] = "idle"
        BY <2>2 DEF OneAtATime
    <2> QED BY <2>2, <2>3 DEF Intends
<1>2. ASSUME NEW p \in Process, Step(p) PROVE \A q \in Process : Intends(q)'
    <2>1. pc[p] # "idle"
        BY <1>2 DEF Step, Verify, StoreSecret, AskDiscord, Load, DeleteSecret,
                    TruncateIndex, WriteIndex
    <2>2. ASSUME NEW q \in Process, q # p PROVE Intends(q)'
        <3>1. pc[q] = "idle"
            BY <2>1, <2>2 DEF OneAtATime
        <3>2. pc'[q] = pc[q]
            BY <1>2, <2>2 DEF Step, Verify, StoreSecret, AskDiscord, Load, DeleteSecret,
                              TruncateIndex, WriteIndex, Prepare, Finish, Goto, Typed, TypeOK
        <3> QED BY <3>1, <3>2 DEF Intends
    <2>3. CASE Load(p)
        BY <2>2, <2>3, LoadIntends
    <2>4. CASE DeleteSecret(p)
        <3>1. pc[p] = "delete" /\ UNCHANGED <<file, job, plan>>
            BY <2>4 DEF DeleteSecret
        <3>2. Intends(p)'
            BY <3>1 DEF Intends
        <3> QED BY <2>2, <3>2
    <2>5. CASE Verify(p) \/ StoreSecret(p) \/ AskDiscord(p) \/ TruncateIndex(p) \/ WriteIndex(p)
        <3>1. pc'[p] \notin {"delete", "truncate"}
            BY <2>5 DEF Verify, StoreSecret, AskDiscord, TruncateIndex, WriteIndex, Finish,
                        Goto, Typed, TypeOK
        <3> QED BY <2>2, <3>1 DEF Intends
    <2> QED BY <1>2, <2>3, <2>4, <2>5 DEF Step
<1>3. ASSUME NEW p \in Process, Crash(p) PROVE \A q \in Process : Intends(q)'
    <2>1. pc[p] # "idle" /\ Goto(p, "idle")
        BY <1>3 DEF Crash, Finish
    <2>2. \A q \in Process : pc'[q] = "idle"
        BY <2>1 DEF OneAtATime, Goto, Typed, TypeOK
    <2> QED BY <2>2 DEF Intends
<1>4. ASSUME UNCHANGED <<file, pc, job, plan>> PROVE \A q \in Process : Intends(q)'
    BY <1>4 DEF Intends
<1> QED BY <1>1, <1>2, <1>3, <1>4 DEF Next, Revoke, vars

\* While nobody is between truncating and writing, the file is what counts.
LEMMA NobodyWrites ==
    ASSUME \A p \in Process : pc[p] # "write"
    PROVE  Committed = file
    BY DEF Committed

LEMMA RegistryStep ==
    ASSUME Faults \cap {"crash", "diskFails"} = {},
           Typed, AloneInv, OneAtATime, OneAtATime', [Next]_vars,
           \A p \in Process : Intends(p)
    PROVE  Promise!RegistryNext
<1>1. ASSUME \A p \in Process : pc[p] # "write", \A p \in Process : pc'[p] # "write",
             UNCHANGED file
      PROVE  Promise!GoOn
    BY <1>1 DEF Promise!GoOn, Committed
<1>2. ASSUME NEW p \in Process, Begin(p) PROVE Promise!GoOn
    <2>1. PICK place \in {"verify", "load", "me"} : Goto(p, place) /\ pc[p] = "idle"
        BY <1>2 DEF Begin, Login, LogoutOrUse, SetScope, Check, Start
    <2>2. pc'[p] = place /\ \A q \in Process : q # p => pc'[q] = pc[q]
        BY <2>1 DEF Goto, Typed, TypeOK
    <2>3. \A q \in Process : q # p => pc[q] = "idle"
        BY <2>2 DEF OneAtATime
    <2>4. file' = file
        BY <1>2 DEF Begin, Login, LogoutOrUse, SetScope, Check
    <2> QED BY <1>1, <2>1, <2>2, <2>3, <2>4
<1>3. ASSUME NEW p \in Process, Step(p) PROVE Promise!RegistryNext
    <2>1. pc[p] # "idle"
        BY <1>3 DEF Step, Verify, StoreSecret, AskDiscord, Load, DeleteSecret,
                    TruncateIndex, WriteIndex
    <2>2. \A q \in Process : q # p => pc[q] = "idle"
        BY <2>1 DEF OneAtATime
    <2>3. \A q \in Process : q # p => pc'[q] = pc[q]
        BY <1>3 DEF Step, Verify, StoreSecret, AskDiscord, Load, DeleteSecret,
                    TruncateIndex, WriteIndex, Prepare, Finish, Goto, Typed, TypeOK
    <2>4. CASE Verify(p) \/ StoreSecret(p) \/ AskDiscord(p) \/ Load(p) \/ DeleteSecret(p)
        <3>1. pc[p] # "write" /\ pc'[p] # "write" /\ UNCHANGED file
            BY <2>4 DEF Verify, StoreSecret, AskDiscord, Load, DeleteSecret, Prepare, Finish,
                        Goto, Typed, TypeOK
        <3>2. Promise!GoOn
            BY <1>1, <2>2, <2>3, <3>1
        <3> QED BY <3>2 DEF Promise!RegistryNext
    <2>5. CASE TruncateIndex(p)
        <3>1. /\ pc[p] = "truncate" /\ pc'[p] = "write"
              /\ plan' = plan /\ job' = job
            BY <2>5 DEF TruncateIndex, Goto, Typed, TypeOK
        <3>2. Committed = file
            BY <2>2, <3>1, NobodyWrites
        <3>3. Committed' = plan[p]
            BY <2>2, <2>3, <3>1 DEF Committed
        <3>4. Underway = job[p]
            BY <2>1, <2>2 DEF Underway, Quiet
        <3>5. Underway' = job[p]
            BY <2>2, <2>3, <3>1 DEF Underway, Quiet
        <3>6. Promise!Grants(Underway, Committed, Committed')
            BY <3>1, <3>2, <3>3, <3>4 DEF Intends
        <3> QED BY <3>4, <3>5, <3>6 DEF Promise!RegistryNext
    <2>6. CASE WriteIndex(p)
        <3>1. pc[p] = "write" /\ pc'[p] = "idle"
            BY <2>6 DEF WriteIndex, Finish, Goto, Typed, TypeOK
        <3>2. ~written
            BY <2>1, <3>1 DEF AloneInv, Progress
        <3>3. file' = plan[p]
            BY <2>6, <3>2 DEF WriteIndex
        <3>4. Committed = plan[p]
            BY <2>2, <3>1 DEF Committed
        <3>5. Committed' = file'
            BY <2>2, <2>3, <3>1 DEF Committed
        <3>6. Promise!GoOn
            BY <3>3, <3>4, <3>5 DEF Promise!GoOn
        <3> QED BY <3>6 DEF Promise!RegistryNext
    <2> QED BY <1>3, <2>4, <2>5, <2>6 DEF Step
<1>4. ASSUME UNCHANGED <<file, pc, plan>> PROVE Promise!GoOn
    BY <1>4 DEF Promise!GoOn, Committed
<1>5. \A p \in Process : ~Crash(p)
    BY DEF Crash
<1> QED BY <1>2, <1>3, <1>4, <1>5 DEF Next, Revoke, vars, Promise!RegistryNext

\* Commands that do not overlap, on a disk that takes what is written and
\* without crashes, change the registry as one map, each in one step and only
\* in what it was asked to change (auth.go: upsertProfile, removeProfile,
\* markInvalid; authcmd.go: use and scope).
THEOREM Implements ==
    ASSUME Faults \cap {"crash", "diskFails"} = {}
    PROVE  Spec /\ []OneAtATime => ImplementsRegistry
<1> DEFINE Intended == \A p \in Process : Intends(p)
<1>1. Init => Typed /\ AloneInv /\ Intended /\ Promise!RegistryInit
    <2> SUFFICES ASSUME Init PROVE Intended /\ Promise!RegistryInit
        BY TypeInit, AloneInit
    <2>1. \A p \in Process : pc[p] = "idle"
        BY DEF Init
    <2>2. Committed = EmptyIndex
        BY <2>1, NobodyWrites DEF Init
    <2> QED BY <2>1, <2>2 DEF Intends, EmptyIndex, Promise!RegistryInit
<1>2. Typed /\ AloneInv /\ Intended /\ OneAtATime /\ OneAtATime' /\ [Next]_vars
        => (Typed /\ AloneInv /\ Intended)'
    BY TypeStep, AloneStep, IntendsStep
<1>3. Typed /\ AloneInv /\ Intended /\ OneAtATime /\ OneAtATime' /\ [Next]_vars
        => [Promise!RegistryNext]_(Promise!registryVars)
    BY RegistryStep
<1> QED BY <1>1, <1>2, <1>3, PTL DEF Spec, ImplementsRegistry, Promise!RegistrySpec

=============================================================================

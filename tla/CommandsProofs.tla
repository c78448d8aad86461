--------------------------- MODULE CommandsProofs ---------------------------
(***************************************************************************)
(* Proofs about Commands, for any number of processes, places and names:   *)
(* what is refused is refused before the first request, a command works on *)
(* the place that its reference singles out, and what it reports is so.    *)
(***************************************************************************)
EXTENDS Commands, SequenceTheorems, FiniteSetTheorems, TLAPS

-----------------------------------------------------------------------------
(***************************************************************************)
(* What is common to the scripts: the stages that make no request come     *)
(* before those that do, and what a command writes comes last.             *)
(***************************************************************************)
Offline == {"usage", "client", "scope", "user"}

Stages == Offline \cup ReadStage \cup WriteStage \cup {"guild", "channel", "late", "messages"}

Has(s, stage) == \E i \in 1..Len(s) : s[i] = stage

Online(s) == \A i \in 1..Len(s) : s[i] \notin Offline

Well(s, op) ==
    /\ s \in Seq(Stages)
    /\ \A i, j \in 1..Len(s) : i < j /\ s[j] \in Offline => s[i] \in Offline
    /\ \A i, j \in 1..Len(s) : s[i] = "channel" /\ s[j] = "channel" => i = j
    /\ \A i, j \in 1..Len(s) : s[i] = "client" /\ s[j] = "scope" => i < j
    /\ \A i, j \in 1..Len(s) : s[i] = "channel" /\ s[j] \in WriteStage => i < j
    /\ \A i \in 1..Len(s) : s[i] \in WriteStage => op \in Writes
    /\ \A i \in 1..Len(s) : s[i] \in ReadStage \cup {"messages"} => op \notin Writes

\* Every script is well formed, resolves the account, checks the arguments
\* unless it is the home view's, and asks for the scope before it writes.
LEMMA ScriptsWell ==
    ASSUME NEW op \in Ops, NEW s, s = Script(op)
    PROVE  /\ Well(s, op)
           /\ Has(s, "client")
           /\ op # "home" => Has(s, "usage")
           /\ op \in Writes => Has(s, "scope") /\ Has(s, "channel")
<1>1. CASE op = "guilds"
  <2>1. s = guildsCommand
    BY <1>1 DEF Script
  <2>2. s \in Seq(Stages)
    BY <2>1 DEF guildsCommand, Stages, Offline, ReadStage, WriteStage
  <2>3. /\ Len(s) = 3
        /\ s[1] = "usage" /\ s[2] = "client" /\ s[3] = "guilds"
    BY <2>1 DEF guildsCommand
  <2>4. 1..Len(s) = {1, 2, 3}
    BY <2>3
  <2>5. Well(s, op)
    <3>1. \A i, j \in 1..Len(s) : i < j /\ s[j] \in Offline => s[i] \in Offline
      BY <2>3, <2>4 DEF Offline
    <3>2. /\ \A i, j \in 1..Len(s) : s[i] = "channel" /\ s[j] = "channel" => i = j
          /\ \A i, j \in 1..Len(s) : s[i] = "client" /\ s[j] = "scope" => i < j
      BY <2>3, <2>4
    <3>3. \A i, j \in 1..Len(s) : s[i] = "channel" /\ s[j] \in WriteStage => i < j
      BY <2>3, <2>4 DEF WriteStage
    <3> QED
      BY <1>1, <2>2, <2>3, <2>4, <3>1, <3>2, <3>3 DEF Well, WriteStage, ReadStage, Writes
  <2>6. Has(s, "client") /\ Has(s, "usage")
    BY <2>3, <2>4 DEF Has
  <2> QED
    BY <1>1, <2>5, <2>6 DEF Writes
<1>2. CASE op = "channels"
  <2>1. s = channelsCommand
    BY <1>2 DEF Script
  <2>2. s \in Seq(Stages)
    BY <2>1 DEF channelsCommand, Stages, Offline, ReadStage, WriteStage
  <2>3. /\ Len(s) = 4
        /\ s[1] = "usage" /\ s[2] = "client" /\ s[3] = "guild" /\ s[4] = "channels"
    BY <2>1 DEF channelsCommand
  <2>4. 1..Len(s) = {1, 2, 3, 4}
    BY <2>3
  <2>5. Well(s, op)
    <3>1. \A i, j \in 1..Len(s) : i < j /\ s[j] \in Offline => s[i] \in Offline
      BY <2>3, <2>4 DEF Offline
    <3>2. /\ \A i, j \in 1..Len(s) : s[i] = "channel" /\ s[j] = "channel" => i = j
          /\ \A i, j \in 1..Len(s) : s[i] = "client" /\ s[j] = "scope" => i < j
      BY <2>3, <2>4
    <3>3. \A i, j \in 1..Len(s) : s[i] = "channel" /\ s[j] \in WriteStage => i < j
      BY <2>3, <2>4 DEF WriteStage
    <3> QED
      BY <1>2, <2>2, <2>3, <2>4, <3>1, <3>2, <3>3 DEF Well, WriteStage, ReadStage, Writes
  <2>6. Has(s, "client") /\ Has(s, "usage")
    BY <2>3, <2>4 DEF Has
  <2> QED
    BY <1>2, <2>5, <2>6 DEF Writes
<1>3. CASE op = "dms"
  <2>1. s = dmsCommand
    BY <1>3 DEF Script
  <2>2. s \in Seq(Stages)
    BY <2>1 DEF dmsCommand, Stages, Offline, ReadStage, WriteStage
  <2>3. /\ Len(s) = 3
        /\ s[1] = "usage" /\ s[2] = "client" /\ s[3] = "dms"
    BY <2>1 DEF dmsCommand
  <2>4. 1..Len(s) = {1, 2, 3}
    BY <2>3
  <2>5. Well(s, op)
    <3>1. \A i, j \in 1..Len(s) : i < j /\ s[j] \in Offline => s[i] \in Offline
      BY <2>3, <2>4 DEF Offline
    <3>2. /\ \A i, j \in 1..Len(s) : s[i] = "channel" /\ s[j] = "channel" => i = j
          /\ \A i, j \in 1..Len(s) : s[i] = "client" /\ s[j] = "scope" => i < j
      BY <2>3, <2>4
    <3>3. \A i, j \in 1..Len(s) : s[i] = "channel" /\ s[j] \in WriteStage => i < j
      BY <2>3, <2>4 DEF WriteStage
    <3> QED
      BY <1>3, <2>2, <2>3, <2>4, <3>1, <3>2, <3>3 DEF Well, WriteStage, ReadStage, Writes
  <2>6. Has(s, "client") /\ Has(s, "usage")
    BY <2>3, <2>4 DEF Has
  <2> QED
    BY <1>3, <2>5, <2>6 DEF Writes
<1>4. CASE op = "messages"
  <2>1. s = messagesCommand
    BY <1>4 DEF Script
  <2>2. s \in Seq(Stages)
    BY <2>1 DEF messagesCommand, Stages, Offline, ReadStage, WriteStage
  <2>3. /\ Len(s) = 5
        /\ s[1] = "usage" /\ s[2] = "client" /\ s[3] = "channel" /\ s[4] = "late" /\ s[5] = "messages"
    BY <2>1 DEF messagesCommand
  <2>4. 1..Len(s) = {1, 2, 3, 4, 5}
    BY <2>3
  <2>5. Well(s, op)
    <3>1. \A i, j \in 1..Len(s) : i < j /\ s[j] \in Offline => s[i] \in Offline
      BY <2>3, <2>4 DEF Offline
    <3>2. /\ \A i, j \in 1..Len(s) : s[i] = "channel" /\ s[j] = "channel" => i = j
          /\ \A i, j \in 1..Len(s) : s[i] = "client" /\ s[j] = "scope" => i < j
      BY <2>3, <2>4
    <3>3. \A i, j \in 1..Len(s) : s[i] = "channel" /\ s[j] \in WriteStage => i < j
      BY <2>3, <2>4 DEF WriteStage
    <3> QED
      BY <1>4, <2>2, <2>3, <2>4, <3>1, <3>2, <3>3 DEF Well, WriteStage, ReadStage, Writes
  <2>6. Has(s, "client") /\ Has(s, "usage")
    BY <2>3, <2>4 DEF Has
  <2> QED
    BY <1>4, <2>5, <2>6 DEF Writes
<1>5. CASE op = "send"
  <2>1. s = sendCommand
    BY <1>5 DEF Script
  <2>2. s \in Seq(Stages)
    BY <2>1 DEF sendCommand, Stages, Offline, ReadStage, WriteStage
  <2>3. /\ Len(s) = 5
        /\ s[1] = "usage" /\ s[2] = "client" /\ s[3] = "scope" /\ s[4] = "channel" /\ s[5] = "send"
    BY <2>1 DEF sendCommand
  <2>4. 1..Len(s) = {1, 2, 3, 4, 5}
    BY <2>3
  <2>5. Well(s, op)
    <3>1. \A i, j \in 1..Len(s) : i < j /\ s[j] \in Offline => s[i] \in Offline
      BY <2>3, <2>4 DEF Offline
    <3>2. /\ \A i, j \in 1..Len(s) : s[i] = "channel" /\ s[j] = "channel" => i = j
          /\ \A i, j \in 1..Len(s) : s[i] = "client" /\ s[j] = "scope" => i < j
      BY <2>3, <2>4
    <3>3. \A i, j \in 1..Len(s) : s[i] = "channel" /\ s[j] \in WriteStage => i < j
      BY <2>3, <2>4 DEF WriteStage
    <3> QED
      BY <1>5, <2>2, <2>3, <2>4, <3>1, <3>2, <3>3 DEF Well, WriteStage, ReadStage, Writes
  <2>6. Has(s, "client") /\ Has(s, "usage") /\ Has(s, "scope") /\ Has(s, "channel")
    BY <2>3, <2>4 DEF Has
  <2> QED
    BY <1>5, <2>5, <2>6 DEF Writes
<1>6. CASE op = "edit"
  <2>1. s = editCommand
    BY <1>6 DEF Script
  <2>2. s \in Seq(Stages)
    BY <2>1 DEF editCommand, Stages, Offline, ReadStage, WriteStage
  <2>3. /\ Len(s) = 5
        /\ s[1] = "usage" /\ s[2] = "client" /\ s[3] = "scope" /\ s[4] = "channel" /\ s[5] = "edit"
    BY <2>1 DEF editCommand
  <2>4. 1..Len(s) = {1, 2, 3, 4, 5}
    BY <2>3
  <2>5. Well(s, op)
    <3>1. \A i, j \in 1..Len(s) : i < j /\ s[j] \in Offline => s[i] \in Offline
      BY <2>3, <2>4 DEF Offline
    <3>2. /\ \A i, j \in 1..Len(s) : s[i] = "channel" /\ s[j] = "channel" => i = j
          /\ \A i, j \in 1..Len(s) : s[i] = "client" /\ s[j] = "scope" => i < j
      BY <2>3, <2>4
    <3>3. \A i, j \in 1..Len(s) : s[i] = "channel" /\ s[j] \in WriteStage => i < j
      BY <2>3, <2>4 DEF WriteStage
    <3> QED
      BY <1>6, <2>2, <2>3, <2>4, <3>1, <3>2, <3>3 DEF Well, WriteStage, ReadStage, Writes
  <2>6. Has(s, "client") /\ Has(s, "usage") /\ Has(s, "scope") /\ Has(s, "channel")
    BY <2>3, <2>4 DEF Has
  <2> QED
    BY <1>6, <2>5, <2>6 DEF Writes
<1>7. CASE op = "delete"
  <2>1. s = deleteCommand
    BY <1>7 DEF Script
  <2>2. s \in Seq(Stages)
    BY <2>1 DEF deleteCommand, Stages, Offline, ReadStage, WriteStage
  <2>3. /\ Len(s) = 5
        /\ s[1] = "usage" /\ s[2] = "client" /\ s[3] = "scope" /\ s[4] = "channel" /\ s[5] = "delete"
    BY <2>1 DEF deleteCommand
  <2>4. 1..Len(s) = {1, 2, 3, 4, 5}
    BY <2>3
  <2>5. Well(s, op)
    <3>1. \A i, j \in 1..Len(s) : i < j /\ s[j] \in Offline => s[i] \in Offline
      BY <2>3, <2>4 DEF Offline
    <3>2. /\ \A i, j \in 1..Len(s) : s[i] = "channel" /\ s[j] = "channel" => i = j
          /\ \A i, j \in 1..Len(s) : s[i] = "client" /\ s[j] = "scope" => i < j
      BY <2>3, <2>4
    <3>3. \A i, j \in 1..Len(s) : s[i] = "channel" /\ s[j] \in WriteStage => i < j
      BY <2>3, <2>4 DEF WriteStage
    <3> QED
      BY <1>7, <2>2, <2>3, <2>4, <3>1, <3>2, <3>3 DEF Well, WriteStage, ReadStage, Writes
  <2>6. Has(s, "client") /\ Has(s, "usage") /\ Has(s, "scope") /\ Has(s, "channel")
    BY <2>3, <2>4 DEF Has
  <2> QED
    BY <1>7, <2>5, <2>6 DEF Writes
<1>8. CASE op \in {"react", "unreact"}
  <2>1. s = reactCommand
    BY <1>8 DEF Script
  <2>2. s \in Seq(Stages)
    BY <2>1 DEF reactCommand, Stages, Offline, ReadStage, WriteStage
  <2>3. /\ Len(s) = 5
        /\ s[1] = "usage" /\ s[2] = "client" /\ s[3] = "scope" /\ s[4] = "channel" /\ s[5] = "react"
    BY <2>1 DEF reactCommand
  <2>4. 1..Len(s) = {1, 2, 3, 4, 5}
    BY <2>3
  <2>5. Well(s, op)
    <3>1. \A i, j \in 1..Len(s) : i < j /\ s[j] \in Offline => s[i] \in Offline
      BY <2>3, <2>4 DEF Offline
    <3>2. /\ \A i, j \in 1..Len(s) : s[i] = "channel" /\ s[j] = "channel" => i = j
          /\ \A i, j \in 1..Len(s) : s[i] = "client" /\ s[j] = "scope" => i < j
      BY <2>3, <2>4
    <3>3. \A i, j \in 1..Len(s) : s[i] = "channel" /\ s[j] \in WriteStage => i < j
      BY <2>3, <2>4 DEF WriteStage
    <3> QED
      BY <1>8, <2>2, <2>3, <2>4, <3>1, <3>2, <3>3 DEF Well, WriteStage, ReadStage, Writes
  <2>6. Has(s, "client") /\ Has(s, "usage") /\ Has(s, "scope") /\ Has(s, "channel")
    BY <2>3, <2>4 DEF Has
  <2> QED
    BY <1>8, <2>5, <2>6 DEF Writes
<1>9. CASE op = "search"
  <2>1. s = searchCommand
    BY <1>9 DEF Script
  <2>2. s \in Seq(Stages)
    BY <2>1 DEF searchCommand, Stages, Offline, ReadStage, WriteStage
  <2>3. /\ Len(s) = 6
        /\ s[1] = "usage" /\ s[2] = "client" /\ s[3] = "user" /\ s[4] = "guild" /\ s[5] = "late" /\ s[6] = "search"
    BY <2>1 DEF searchCommand
  <2>4. 1..Len(s) = {1, 2, 3, 4, 5, 6}
    BY <2>3
  <2>5. Well(s, op)
    <3>1. \A i, j \in 1..Len(s) : i < j /\ s[j] \in Offline => s[i] \in Offline
      BY <2>3, <2>4 DEF Offline
    <3>2. /\ \A i, j \in 1..Len(s) : s[i] = "channel" /\ s[j] = "channel" => i = j
          /\ \A i, j \in 1..Len(s) : s[i] = "client" /\ s[j] = "scope" => i < j
      BY <2>3, <2>4
    <3>3. \A i, j \in 1..Len(s) : s[i] = "channel" /\ s[j] \in WriteStage => i < j
      BY <2>3, <2>4 DEF WriteStage
    <3> QED
      BY <1>9, <2>2, <2>3, <2>4, <3>1, <3>2, <3>3 DEF Well, WriteStage, ReadStage, Writes
  <2>6. Has(s, "client") /\ Has(s, "usage")
    BY <2>3, <2>4 DEF Has
  <2> QED
    BY <1>9, <2>5, <2>6 DEF Writes
<1>10. CASE op = "home"
  <2>1. s = Home
    BY <1>10 DEF Script
  <2>2. s \in Seq(Stages)
    BY <2>1 DEF Home, Stages, Offline, ReadStage, WriteStage
  <2>3. /\ Len(s) = 3
        /\ s[1] = "client" /\ s[2] = "me" /\ s[3] = "guilds"
    BY <2>1 DEF Home
  <2>4. 1..Len(s) = {1, 2, 3}
    BY <2>3
  <2>5. Well(s, op)
    <3>1. \A i, j \in 1..Len(s) : i < j /\ s[j] \in Offline => s[i] \in Offline
      BY <2>3, <2>4 DEF Offline
    <3>2. /\ \A i, j \in 1..Len(s) : s[i] = "channel" /\ s[j] = "channel" => i = j
          /\ \A i, j \in 1..Len(s) : s[i] = "client" /\ s[j] = "scope" => i < j
      BY <2>3, <2>4
    <3>3. \A i, j \in 1..Len(s) : s[i] = "channel" /\ s[j] \in WriteStage => i < j
      BY <2>3, <2>4 DEF WriteStage
    <3> QED
      BY <1>10, <2>2, <2>3, <2>4, <3>1, <3>2, <3>3 DEF Well, WriteStage, ReadStage, Writes
  <2>6. Has(s, "client")
    BY <2>3, <2>4 DEF Has
  <2> QED
    BY <1>10, <2>5, <2>6 DEF Writes
<1> QED
  BY <1>1, <1>2, <1>3, <1>4, <1>5, <1>6, <1>7, <1>8, <1>9, <1>10 DEF Ops

\* What a stage tells about the rest of a well-formed script.
LEMMA HeadWell ==
    ASSUME NEW s, NEW op, Well(s, op), s # <<>>
    PROVE  /\ Has(s, Head(s))
           /\ Head(s) \notin Offline => Online(s)
           /\ Head(s) = "scope" => ~Has(s, "client")
           /\ Head(s) \in WriteStage => op \in Writes /\ ~Has(s, "channel")
           /\ Head(s) \in ReadStage \cup {"messages"} => op \notin Writes
<1>1. Len(s) \in Nat \ {0} /\ Head(s) = s[1] /\ 1 \in 1..Len(s)
  BY EmptySeq DEF Well
<1>2. Head(s) = "scope" => ~Has(s, "client")
  BY <1>1 DEF Well, Has
<1>3. Head(s) \in WriteStage => ~Has(s, "channel")
  BY <1>1 DEF Well, Has
<1> QED
  BY <1>1, <1>2, <1>3 DEF Well, Has, Online

\* A script that has gone online no longer has a stage that makes no request.
LEMMA OnlineHas ==
    ASSUME NEW s, Online(s), NEW stage \in Offline
    PROVE  ~Has(s, stage)
BY DEF Online, Has

LEMMA EmptyWell ==
    ASSUME NEW op
    PROVE  Well(<<>>, op) /\ Online(<<>>) /\ \A stage : ~Has(<<>>, stage)
BY DEF Well, Online, Has

LEMMA TailWell ==
    ASSUME NEW s, NEW op, Well(s, op), s # <<>>
    PROVE  /\ Well(Tail(s), op)
           /\ Online(s) => Online(Tail(s))
           /\ \A stage : Has(s, stage) /\ stage # Head(s) => Has(Tail(s), stage)
           /\ \A stage : Has(Tail(s), stage) => Has(s, stage)
           /\ Head(s) = "channel" => ~Has(Tail(s), "channel")
<1> DEFINE t == Tail(s)
<1>1. s \in Seq(Stages) /\ Len(s) \in Nat \ {0} /\ Head(s) = s[1]
  BY EmptySeq DEF Well
<1>2. t \in Seq(Stages) /\ Len(t) = Len(s) - 1
  BY <1>1, HeadTailProperties
<1>3. \A i \in 1..Len(t) : t[i] = s[i + 1] /\ i + 1 \in 1..Len(s)
  BY <1>1, <1>2, HeadTailProperties
<1> HIDE DEF t
<1>4. \A i \in 1..Len(s) : i # 1 => i - 1 \in 1..Len(t) /\ s[i] = t[i - 1]
  <2> SUFFICES ASSUME NEW i \in 1..Len(s), i # 1
               PROVE  i - 1 \in 1..Len(t) /\ s[i] = t[i - 1]
    OBVIOUS
  <2>1. i - 1 \in 1..Len(t)
    BY <1>1, <1>2
  <2>2. t[i - 1] = s[i - 1 + 1]
    BY <1>3, <2>1
  <2> QED
    BY <2>1, <2>2
<1>5. Well(t, op)
  <2>1. \A i, j \in 1..Len(t) : i < j /\ t[j] \in Offline => t[i] \in Offline
    <3> SUFFICES ASSUME NEW i \in 1..Len(t), NEW j \in 1..Len(t), i < j, t[j] \in Offline
                 PROVE  t[i] \in Offline
      OBVIOUS
    <3>1. i + 1 \in 1..Len(s) /\ j + 1 \in 1..Len(s) /\ t[i] = s[i + 1] /\ t[j] = s[j + 1]
      BY <1>3
    <3>2. i + 1 < j + 1
      OBVIOUS
    <3>3. s[j + 1] \in Offline
      BY <3>1
    <3>4. s[i + 1] \in Offline
      BY <3>1, <3>2, <3>3 DEF Well
    <3> QED
      BY <3>1, <3>4
  <2>2. \A i, j \in 1..Len(t) : t[i] = "channel" /\ t[j] = "channel" => i = j
    <3> SUFFICES ASSUME NEW i \in 1..Len(t), NEW j \in 1..Len(t),
                        t[i] = "channel", t[j] = "channel"
                 PROVE  i = j
      OBVIOUS
    <3>1. i + 1 \in 1..Len(s) /\ j + 1 \in 1..Len(s) /\ s[i + 1] = "channel" /\ s[j + 1] = "channel"
      BY <1>3
    <3>2. i + 1 = j + 1
      BY <3>1 DEF Well
    <3> QED
      BY <3>2
  <2>3. \A i, j \in 1..Len(t) : t[i] = "client" /\ t[j] = "scope" => i < j
    <3> SUFFICES ASSUME NEW i \in 1..Len(t), NEW j \in 1..Len(t),
                        t[i] = "client", t[j] = "scope"
                 PROVE  i < j
      OBVIOUS
    <3>1. i + 1 \in 1..Len(s) /\ j + 1 \in 1..Len(s) /\ s[i + 1] = "client" /\ s[j + 1] = "scope"
      BY <1>3
    <3>2. i + 1 < j + 1
      BY <3>1 DEF Well
    <3> QED
      BY <3>2
  <2>4. \A i, j \in 1..Len(t) : t[i] = "channel" /\ t[j] \in WriteStage => i < j
    <3> SUFFICES ASSUME NEW i \in 1..Len(t), NEW j \in 1..Len(t),
                        t[i] = "channel", t[j] \in WriteStage
                 PROVE  i < j
      OBVIOUS
    <3>1. /\ i + 1 \in 1..Len(s) /\ j + 1 \in 1..Len(s)
          /\ s[i + 1] = "channel" /\ s[j + 1] \in WriteStage
      BY <1>3
    <3>2. i + 1 < j + 1
      BY <3>1 DEF Well
    <3> QED
      BY <3>2
  <2> QED
    BY <1>2, <1>3, <2>1, <2>2, <2>3, <2>4 DEF Well
<1>6. Online(s) => Online(t)
  BY <1>3 DEF Online
<1>7. ASSUME NEW stage, Has(s, stage), stage # Head(s) PROVE Has(t, stage)
  <2>1. PICK i \in 1..Len(s) : s[i] = stage
    BY <1>7 DEF Has
  <2> QED
    BY <1>1, <1>4, <1>7, <2>1 DEF Has
<1>8. ASSUME Head(s) = "channel" PROVE ~Has(t, "channel")
  <2> SUFFICES ASSUME NEW i \in 1..Len(t), t[i] = "channel" PROVE FALSE
    BY DEF Has
  <2>1. s[i + 1] = "channel" /\ s[1] = "channel" /\ i + 1 \in 1..Len(s) /\ 1 \in 1..Len(s)
    BY <1>1, <1>3, <1>8
  <2>2. i + 1 = 1
    BY <2>1 DEF Well
  <2> QED
    BY <1>1, <1>2, <2>2
<1>9. ASSUME NEW stage, Has(t, stage) PROVE Has(s, stage)
  BY <1>3, <1>9 DEF Has
<1> QED
  BY <1>5, <1>6, <1>7, <1>8, <1>9 DEF t

-----------------------------------------------------------------------------
(***************************************************************************)
(* The types that the proofs use.                                          *)
(***************************************************************************)
StateOK ==
    /\ name \in Listing
    /\ command \in [Process -> Command \cup {None}]
    /\ account \in [Process -> Account \cup {None}]
    /\ todo \in [Process -> Seq(Stages)]
    /\ guild \in [Process -> Guild \cup {None}]
    /\ channel \in [Process -> Channel \cup {None}]
    /\ verdict \in [Process -> Verdicts \cup {None}]
    /\ DOMAIN before = Process
    /\ online \in [Process -> BOOLEAN]
    /\ seen \in [Process -> [guild : Listing, channel : Listing]]
    /\ effect \in [Process -> Nat]

commandVars == <<command, account, todo, guild, channel, verdict, before, online, seen, effect>>

LEMMA CommandFields ==
    ASSUME NEW c \in Command
    PROVE  /\ c \in CommandLine /\ c # None
           /\ c.op \in Ops
           /\ c.ref.guild \in Guild \cup Word \cup {None}
           /\ c.ref.channel \in Channel \cup Word \cup {None}
           /\ c.op = "home" => c.bad # "early"
<1>1. c \in CommandLine /\ c # None /\ None # "early"
  BY ConstantsOK DEF ConstantsOK
<1> QED
  BY <1>1 DEF CommandLine

LEMMA VerdictsNotNone == \A v \in Verdicts : v # None
BY ConstantsOK DEF ConstantsOK

LEMMA TranslateType ==
    ASSUME NEW failure \in Failures
    PROVE  Translate(failure) \in Verdicts \ {"READ_ONLY", "VALIDATION_ERROR"}
BY DEF Failures, Translate, Verdicts

LEMMA ReportType ==
    ASSUME StateOK, NEW p \in Process, NEW v \in Verdicts, Report(p, v)
    PROVE  /\ verdict' \in [Process -> Verdicts \cup {None}]
           /\ todo' \in [Process -> Seq(Stages)]
           /\ verdict'[p] = v /\ todo'[p] = <<>>
           /\ \A q \in Process : q # p => verdict'[q] = verdict[q] /\ todo'[q] = todo[q]
BY DEF StateOK, Report

LEMMA AdvanceType ==
    ASSUME StateOK, NEW p \in Process, todo[p] # <<>>, Advance(p)
    PROVE  /\ todo' \in [Process -> Seq(Stages)]
           /\ todo'[p] = Tail(todo[p])
           /\ \A q \in Process : q # p => todo'[q] = todo[q]
<1>1. Tail(todo[p]) \in Seq(Stages)
  BY HeadTailProperties DEF StateOK
<1> QED
  BY <1>1 DEF StateOK, Advance

LEMMA OnlineType ==
    ASSUME StateOK, NEW p \in Process, GoOnline(p)
    PROVE  /\ online' \in [Process -> BOOLEAN]
           /\ online'[p] = TRUE
           /\ \A q \in Process : q # p => online'[q] = online[q]
BY DEF StateOK, GoOnline

-----------------------------------------------------------------------------
(***************************************************************************)
(* The way of a command: what its stages ahead owe to what it has done.    *)
(***************************************************************************)

\* The stages ahead, and none before it starts and after it has reported.
Ordered(p) ==
    /\ command[p] # None => Well(todo[p], Op(p))
    /\ command[p] = None \/ verdict[p] # None => todo[p] = <<>>

\* A command that has not started has done nothing.
Fresh(p) ==
    command[p] = None =>
        /\ ~online[p] /\ effect[p] = 0
        /\ verdict[p] = None /\ account[p] = None /\ before[p] = None
        /\ guild[p] = None /\ channel[p] = None

\* What has not been checked is still ahead.
Ahead(p) ==
    todo[p] # <<>> =>
        /\ account[p] = None => Has(todo[p], "client")
        /\ command[p].bad = "early" => Has(todo[p], "usage")
        /\ Op(p) \in Writes /\ (Has(todo[p], "client") \/ ReadOnly(p)) => Has(todo[p], "scope")

\* A command that has made a request has an account, which may do what the
\* command is for, and no check ahead that needs no request.
Connected(p) ==
    online[p] =>
        /\ account[p] # None /\ Online(todo[p])
        /\ ReadOnly(p) => Op(p) \notin Writes

\* Only listings have pages, and only writes change Discord.
Effects(p) ==
    /\ before[p] # None => Op(p) \notin Writes
    /\ effect[p] > 0 => Op(p) \in Writes /\ online[p]

Refused(p) ==
    /\ verdict[p] = "READ_ONLY" => ~online[p]
    /\ verdict[p] = "VALIDATION_ERROR" /\ command[p].bad = "early" => ~online[p]

Way(p) == Ordered(p) /\ Fresh(p) /\ Ahead(p) /\ Connected(p) /\ Effects(p) /\ Refused(p)

LEMMA WayGivesRefused ==
    ASSUME StateOK, \A p \in Process : Way(p)
    PROVE  RefusedOffline
<1> SUFFICES ASSUME NEW p \in Process
             PROVE  /\ verdict[p] = "READ_ONLY" \/ (verdict[p] # None /\ account[p] = None)
                          => ~online[p]
                    /\ verdict[p] = "VALIDATION_ERROR" /\ command[p].bad = "early" => ~online[p]
                    /\ account[p] # None /\ ReadOnly(p) /\ Op(p) \in Writes
                          => ~online[p] /\ effect[p] = 0
  BY DEF RefusedOffline
<1> QED
  BY DEF StateOK, Way, Connected, Effects, Refused

\* A command at a stage that makes a request has passed the other checks.
LEMMA Passed ==
    ASSUME NEW p \in Process, StateOK, Way(p), todo[p] # <<>>
    PROVE  /\ command[p] \in Command /\ verdict[p] = None
           /\ Well(todo[p], Op(p))
           /\ Head(todo[p]) \notin Offline =>
                 /\ Online(todo[p])
                 /\ account[p] # None /\ command[p].bad # "early"
                 /\ ReadOnly(p) => Op(p) \notin Writes
           /\ Head(todo[p]) \in Offline => ~online[p] /\ effect[p] = 0
<1>1. command[p] \in Command /\ verdict[p] = None /\ Well(todo[p], Op(p))
  BY DEF StateOK, Way, Ordered
<1>2. ASSUME Head(todo[p]) \notin Offline
      PROVE  /\ Online(todo[p]) /\ account[p] # None /\ command[p].bad # "early"
             /\ ReadOnly(p) => Op(p) \notin Writes
  <2>1. Online(todo[p])
    BY <1>1, <1>2, HeadWell
  <2>2. \A stage \in Offline : ~Has(todo[p], stage)
    BY <2>1, OnlineHas
  <2>3. ~Has(todo[p], "client") /\ ~Has(todo[p], "usage") /\ ~Has(todo[p], "scope")
    BY <2>2 DEF Offline
  <2> QED
    BY <2>1, <2>3 DEF Way, Ahead
<1>3. ASSUME Head(todo[p]) \in Offline
      PROVE  ~online[p] /\ effect[p] = 0
  <2>1. Has(todo[p], Head(todo[p]))
    BY <1>1, HeadWell
  <2>2. ~Online(todo[p])
    BY <1>3, <2>1, OnlineHas
  <2> QED
    BY <2>2 DEF StateOK, Way, Connected, Effects
<1> QED
  BY <1>1, <1>2, <1>3

\* A stage that may make a request keeps to the way.
LEMMA Request ==
    ASSUME NEW p \in Process, StateOK, Way(p), todo[p] # <<>>,
           Head(todo[p]) \notin Offline,
           command'[p] = command[p], account'[p] = account[p],
           \/ todo'[p] \in {todo[p], Tail(todo[p])} /\ verdict'[p] = verdict[p]
           \/ /\ todo'[p] = <<>>
              /\ verdict'[p] \in Verdicts \ {"READ_ONLY"},
           online'[p] \in {online[p], TRUE},
           before'[p] = before[p] \/ Head(todo[p]) = "messages",
           effect'[p] = effect[p] \/ (Head(todo[p]) \in WriteStage /\ online'[p])
    PROVE  Way(p)'
<1>1. /\ command[p] \in Command /\ command[p] # None
      /\ verdict[p] = None /\ Well(todo[p], Op(p)) /\ Online(todo[p])
      /\ account[p] # None /\ command[p].bad # "early" /\ (ReadOnly(p) => Op(p) \notin Writes)
  BY Passed, CommandFields
<1>2. Op(p)' = Op(p) /\ ReadOnly(p)' = ReadOnly(p)
  BY DEF Op, ReadOnly
<1>3. Well(todo'[p], Op(p)) /\ Online(todo'[p])
  BY <1>1, EmptyWell, TailWell
<1>4. (verdict'[p] # None => todo'[p] = <<>>) /\ verdict'[p] # "READ_ONLY"
  BY <1>1, VerdictsNotNone DEF Verdicts
<1>5. Ordered(p)'
  BY <1>1, <1>2, <1>3, <1>4 DEF Ordered
<1>6. Fresh(p)'
  BY <1>1 DEF Fresh
<1>7. Ahead(p)'
  <2>1. ~Has(todo'[p], "client")
    BY <1>3, OnlineHas DEF Offline
  <2> QED
    BY <1>1, <1>2, <2>1 DEF Ahead
<1>8. Connected(p)'
  BY <1>1, <1>2, <1>3 DEF Connected
<1>9. Effects(p)'
  <2>1. Head(todo[p]) = "messages" => Op(p) \notin Writes
    BY <1>1, HeadWell
  <2>2. Head(todo[p]) \in WriteStage => Op(p) \in Writes
    BY <1>1, HeadWell
  <2> QED
    BY <1>2, <2>1, <2>2 DEF Way, Effects
<1>10. Refused(p)'
  BY <1>1, <1>4 DEF Refused
<1> QED
  BY <1>5, <1>6, <1>7, <1>8, <1>9, <1>10 DEF Way

\* So does a check that makes no request.
LEMMA Check ==
    ASSUME NEW p \in Process, StateOK, Way(p), todo[p] # <<>>,
           Head(todo[p]) \in Offline,
           command'[p] = command[p],
           \/ todo'[p] = Tail(todo[p]) /\ verdict'[p] = verdict[p]
           \/ todo'[p] = <<>> /\ verdict'[p] \in Verdicts,
           Head(todo[p]) = "usage" => command[p].bad # "early" \/ todo'[p] = <<>>,
           Head(todo[p]) = "scope" => ~ReadOnly(p) \/ todo'[p] = <<>>,
           IF Head(todo[p]) = "client"
           THEN account'[p] # None \/ todo'[p] = <<>>
           ELSE account'[p] = account[p],
           online'[p] = online[p], before'[p] = before[p], effect'[p] = effect[p]
    PROVE  Way(p)'
<1>1. /\ command[p] \in Command /\ command[p] # None
      /\ verdict[p] = None /\ Well(todo[p], Op(p)) /\ ~online[p] /\ effect[p] = 0
  BY Passed, CommandFields
<1>2. Op(p)' = Op(p)
  BY DEF Op
<1>3. Well(todo'[p], Op(p)) /\ (verdict'[p] # None => todo'[p] = <<>>)
  BY <1>1, EmptyWell, TailWell
<1>4. Ordered(p)' /\ Fresh(p)' /\ Connected(p)' /\ Refused(p)'
  BY <1>1, <1>2, <1>3 DEF Ordered, Fresh, Connected, Refused
<1>5. Effects(p)'
  BY <1>1, <1>2 DEF Way, Effects
<1>6. Ahead(p)'
  <2> SUFFICES ASSUME todo'[p] # <<>>
               PROVE  /\ account'[p] = None => Has(todo'[p], "client")
                      /\ command[p].bad = "early" => Has(todo'[p], "usage")
                      /\ Op(p) \in Writes /\ (Has(todo'[p], "client") \/ ReadOnly(p)')
                            => Has(todo'[p], "scope")
    BY <1>2 DEF Ahead
  <2>1. todo'[p] = Tail(todo[p])
    OBVIOUS
  <2>2. \A stage : Has(todo[p], stage) /\ stage # Head(todo[p]) => Has(todo'[p], stage)
    <3>1. \A stage : Has(todo[p], stage) /\ stage # Head(todo[p]) => Has(Tail(todo[p]), stage)
      BY <1>1, TailWell
    <3> QED
      BY <2>1, <3>1
  <2>3. \A stage : Has(todo'[p], stage) => Has(todo[p], stage)
    BY <1>1, <2>1, TailWell
  <2>4. Has(todo[p], Head(todo[p])) /\ (Head(todo[p]) = "scope" => ~Has(todo[p], "client"))
    BY <1>1, HeadWell
  <2>5. CASE Head(todo[p]) = "client"
    BY <2>2, <2>4, <2>5 DEF Way, Ahead
  <2>6. CASE Head(todo[p]) # "client"
    <3>1. ReadOnly(p)' = ReadOnly(p)
      BY <2>6 DEF ReadOnly
    <3> QED
      BY <2>2, <2>3, <2>4, <2>6, <3>1 DEF Way, Ahead
  <2> QED
    BY <2>5, <2>6
<1> QED
  BY <1>4, <1>5, <1>6 DEF Way

-----------------------------------------------------------------------------
(***************************************************************************)
(* Every step keeps to the way.                                            *)
(***************************************************************************)

\* What belongs to command q is left alone.
Same(q) ==
    /\ command'[q] = command[q] /\ account'[q] = account[q] /\ todo'[q] = todo[q]
    /\ guild'[q] = guild[q] /\ channel'[q] = channel[q] /\ verdict'[q] = verdict[q]
    /\ before'[q] = before[q] /\ online'[q] = online[q] /\ seen'[q] = seen[q]
    /\ effect'[q] = effect[q]

Others(p) == \A q \in Process : q # p => Same(q)

LEMMA SameWay ==
    ASSUME NEW q, Way(q), Same(q)
    PROVE  Way(q)'
BY DEF Way, Same, Ordered, Fresh, Ahead, Connected, Effects, Refused, Op, ReadOnly

\* A stage either reports v or hands over to the next.
LEMMA Outcome ==
    ASSUME StateOK, NEW p \in Process, todo[p] # <<>>, NEW v \in Verdicts,
           Report(p, v) \/ (Advance(p) /\ UNCHANGED verdict)
    PROVE  /\ verdict' \in [Process -> Verdicts \cup {None}]
           /\ todo' \in [Process -> Seq(Stages)]
           /\ \/ todo'[p] = <<>> /\ verdict'[p] = v
              \/ todo'[p] = Tail(todo[p]) /\ verdict'[p] = verdict[p]
           /\ \A q \in Process : q # p => verdict'[q] = verdict[q] /\ todo'[q] = todo[q]
BY ReportType, AdvanceType DEF StateOK

LEMMA CheckArgumentsKeeps ==
    ASSUME NEW p \in Process, StateOK, Way(p), CheckArguments(p)
    PROVE  StateOK' /\ Way(p)' /\ Others(p)
<1>1. todo[p] # <<>> /\ Head(todo[p]) = "usage" /\ "VALIDATION_ERROR" \in Verdicts
  BY DEF CheckArguments, Stage, Verdicts
<1>2. /\ verdict' \in [Process -> Verdicts \cup {None}]
      /\ todo' \in [Process -> Seq(Stages)]
      /\ \/ todo'[p] = <<>> /\ verdict'[p] = "VALIDATION_ERROR"
         \/ todo'[p] = Tail(todo[p]) /\ verdict'[p] = verdict[p]
      /\ \A q \in Process : q # p => verdict'[q] = verdict[q] /\ todo'[q] = todo[q]
  BY <1>1, Outcome DEF CheckArguments
<1>3. UNCHANGED <<name, command, account, guild, channel, before, online, seen, effect>>
  BY DEF CheckArguments, discord, record
<1>4. command[p].bad # "early" \/ todo'[p] = <<>>
  BY <1>1, ReportType DEF CheckArguments
<1>5. Way(p)'
  BY <1>1, <1>2, <1>3, <1>4, Check DEF Offline
<1> QED
  BY <1>2, <1>3, <1>5 DEF StateOK, Others, Same

LEMMA ClientKeeps ==
    ASSUME NEW p \in Process, StateOK, Way(p), Client(p)
    PROVE  StateOK' /\ Way(p)' /\ Others(p)
<1>1. todo[p] # <<>> /\ Head(todo[p]) = "client"
  BY DEF Client, Stage
<1>2. UNCHANGED <<name, command, guild, channel, before, online, seen, effect>>
  BY DEF Client, discord, record
<1>3. PICK a \in Account :
         IF a = None
         THEN /\ Report(p, IF command[p].op = "home" THEN "ok" ELSE "NOT_AUTHENTICATED")
              /\ UNCHANGED account
         ELSE /\ account' = [account EXCEPT ![p] = a]
              /\ Advance(p)
              /\ UNCHANGED verdict
  BY DEF Client
<1> DEFINE v == IF command[p].op = "home" THEN "ok" ELSE "NOT_AUTHENTICATED"
<1>4. v \in Verdicts
  BY DEF Verdicts
<1> HIDE DEF v
<1>5. /\ verdict' \in [Process -> Verdicts \cup {None}]
      /\ todo' \in [Process -> Seq(Stages)]
      /\ \/ todo'[p] = <<>> /\ verdict'[p] = v
         \/ todo'[p] = Tail(todo[p]) /\ verdict'[p] = verdict[p]
      /\ \A q \in Process : q # p => verdict'[q] = verdict[q] /\ todo'[q] = todo[q]
  BY <1>1, <1>3, <1>4, Outcome DEF v
<1>6. /\ account' \in [Process -> Account \cup {None}]
      /\ \A q \in Process : q # p => account'[q] = account[q]
  BY <1>3 DEF StateOK
<1>7. account'[p] # None \/ todo'[p] = <<>>
  <2>1. CASE a = None
    BY <1>3, <1>4, <2>1, ReportType DEF v
  <2>2. CASE a # None
    BY <1>3, <2>2 DEF StateOK
  <2> QED
    BY <2>1, <2>2
<1>8. Way(p)'
  BY <1>1, <1>2, <1>4, <1>5, <1>7, Check DEF Offline
<1> QED
  BY <1>2, <1>5, <1>6, <1>8 DEF StateOK, Others, Same

LEMMA RequireWriteKeeps ==
    ASSUME NEW p \in Process, StateOK, Way(p), RequireWrite(p)
    PROVE  StateOK' /\ Way(p)' /\ Others(p)
<1>1. todo[p] # <<>> /\ Head(todo[p]) = "scope" /\ "READ_ONLY" \in Verdicts
  BY DEF RequireWrite, Stage, Verdicts
<1>2. /\ verdict' \in [Process -> Verdicts \cup {None}]
      /\ todo' \in [Process -> Seq(Stages)]
      /\ \/ todo'[p] = <<>> /\ verdict'[p] = "READ_ONLY"
         \/ todo'[p] = Tail(todo[p]) /\ verdict'[p] = verdict[p]
      /\ \A q \in Process : q # p => verdict'[q] = verdict[q] /\ todo'[q] = todo[q]
  BY <1>1, Outcome DEF RequireWrite
<1>3. UNCHANGED <<name, command, account, guild, channel, before, online, seen, effect>>
  BY DEF RequireWrite, discord, record
<1>4. ~ReadOnly(p) \/ todo'[p] = <<>>
  BY <1>1, ReportType DEF RequireWrite
<1>5. Way(p)'
  BY <1>1, <1>2, <1>3, <1>4, Check DEF Offline
<1> QED
  BY <1>2, <1>3, <1>5 DEF StateOK, Others, Same

LEMMA RequireUserKeeps ==
    ASSUME NEW p \in Process, StateOK, Way(p), RequireUser(p)
    PROVE  StateOK' /\ Way(p)' /\ Others(p)
<1>1. todo[p] # <<>> /\ Head(todo[p]) = "user" /\ "FORBIDDEN" \in Verdicts
  BY DEF RequireUser, Stage, Verdicts
<1>2. /\ verdict' \in [Process -> Verdicts \cup {None}]
      /\ todo' \in [Process -> Seq(Stages)]
      /\ \/ todo'[p] = <<>> /\ verdict'[p] = "FORBIDDEN"
         \/ todo'[p] = Tail(todo[p]) /\ verdict'[p] = verdict[p]
      /\ \A q \in Process : q # p => verdict'[q] = verdict[q] /\ todo'[q] = todo[q]
  BY <1>1, Outcome DEF RequireUser
<1>3. UNCHANGED <<name, command, account, guild, channel, before, online, seen, effect>>
  BY DEF RequireUser, discord, record
<1>4. Way(p)'
  BY <1>1, <1>2, <1>3, Check DEF Offline
<1> QED
  BY <1>2, <1>3, <1>4 DEF StateOK, Others, Same

LEMMA CheckLateKeeps ==
    ASSUME NEW p \in Process, StateOK, Way(p), CheckLate(p)
    PROVE  StateOK' /\ Way(p)' /\ Others(p)
<1>1. /\ todo[p] # <<>> /\ Head(todo[p]) = "late" /\ Head(todo[p]) \notin Offline
      /\ "VALIDATION_ERROR" \in Verdicts \ {"READ_ONLY"}
  BY DEF CheckLate, Stage, Verdicts, Offline
<1>2. /\ verdict' \in [Process -> Verdicts \cup {None}]
      /\ todo' \in [Process -> Seq(Stages)]
      /\ \/ todo'[p] = <<>> /\ verdict'[p] = "VALIDATION_ERROR"
         \/ todo'[p] = Tail(todo[p]) /\ verdict'[p] = verdict[p]
      /\ \A q \in Process : q # p => verdict'[q] = verdict[q] /\ todo'[q] = todo[q]
  BY <1>1, Outcome DEF CheckLate
<1>3. UNCHANGED <<name, command, account, guild, channel, before, online, seen, effect>>
  BY DEF CheckLate, discord, record
<1>4. Way(p)'
  BY <1>1, <1>2, <1>3, Request
<1> QED
  BY <1>2, <1>3, <1>4 DEF StateOK, Others, Same

LEMMA NoMatchType ==
    ASSUME NEW matches
    PROVE  NoMatch(matches) \in Verdicts \ {"READ_ONLY"}
BY DEF NoMatch, Verdicts

LEMMA ResolveGuildKeeps ==
    ASSUME NEW p \in Process, StateOK, Way(p), ResolveGuild(p)
    PROVE  StateOK' /\ Way(p)' /\ Others(p)
<1> DEFINE ref == command[p].ref.guild
           found == IF ref \in Guild THEN {ref} \cap Guilds(name)
                    ELSE Matches(name, Guilds(name), ref)
<1>1. todo[p] # <<>> /\ Head(todo[p]) \in {"guild", "channel"}
  BY DEF ResolveGuild, Stage
<1>2. /\ GoOnline(p)
      /\ seen' = [seen EXCEPT ![p].guild = name]
      /\ UNCHANGED <<name, command, account, channel, before, effect>>
  BY DEF ResolveGuild, discord
<1>3. \/ /\ Cardinality(found) = 1
         /\ guild' = [guild EXCEPT ![p] = CHOOSE g \in found : TRUE]
         /\ Advance(p) \/ UNCHANGED todo
         /\ UNCHANGED verdict
      \/ Report(p, NoMatch(found)) /\ UNCHANGED guild
  BY DEF ResolveGuild
<1>4. ASSUME Cardinality(found) = 1
      PROVE  (CHOOSE g \in found : TRUE) \in Guild
  <2>1. found \subseteq Guild
    BY DEF Guilds, Matches, Equal, Containing
  <2>2. found # {}
    BY <1>4, FS_EmptySet
  <2> QED
    BY <2>1, <2>2
<1> HIDE DEF found
<1>5. /\ guild' \in [Process -> Guild \cup {None}]
      /\ \A q \in Process : q # p => guild'[q] = guild[q]
  BY <1>3, <1>4 DEF StateOK
<1>6. /\ verdict' \in [Process -> Verdicts \cup {None}]
      /\ todo' \in [Process -> Seq(Stages)]
      /\ \/ todo'[p] = <<>> /\ verdict'[p] = NoMatch(found)
         \/ todo'[p] \in {todo[p], Tail(todo[p])} /\ verdict'[p] = verdict[p]
      /\ \A q \in Process : q # p => verdict'[q] = verdict[q] /\ todo'[q] = todo[q]
  <2>1. CASE Advance(p) /\ UNCHANGED verdict
    BY <1>1, <2>1, AdvanceType DEF StateOK
  <2>2. CASE UNCHANGED <<todo, verdict>>
    BY <2>2 DEF StateOK
  <2>3. CASE Report(p, NoMatch(found))
    BY <2>3, NoMatchType, ReportType
  <2> QED
    BY <1>3, <2>1, <2>2, <2>3
<1>7. /\ online' \in [Process -> BOOLEAN] /\ online'[p] = TRUE
      /\ \A q \in Process : q # p => online'[q] = online[q]
  BY <1>2, OnlineType
<1>8. /\ seen' \in [Process -> [guild : Listing, channel : Listing]]
      /\ \A q \in Process : q # p => seen'[q] = seen[q]
  BY <1>2 DEF StateOK
<1>9. Way(p)'
  <2>1. NoMatch(found) \in Verdicts \ {"READ_ONLY"} /\ Head(todo[p]) \notin Offline
    BY <1>1, NoMatchType DEF Offline
  <2> QED
    BY <1>1, <1>2, <1>6, <1>7, <2>1, Request
<1> QED
  BY <1>2, <1>5, <1>6, <1>7, <1>8, <1>9 DEF StateOK, Others, Same

LEMMA ResolveChannelKeeps ==
    ASSUME NEW p \in Process, StateOK, Way(p), ResolveChannel(p)
    PROVE  StateOK' /\ Way(p)' /\ Others(p)
<1> DEFINE ref == command[p].ref.channel
           found == IF ref \in Channel THEN {c \in {ref} : Alive(c)}
                    ELSE IF guild[p] # None /\ ~Alive(guild[p]) THEN {}
                    ELSE Matches(name, Channels(name, guild[p]), ref)
<1>1. todo[p] # <<>> /\ Head(todo[p]) = "channel" /\ Head(todo[p]) \notin Offline
  BY DEF ResolveChannel, Stage, Offline
<1>2. /\ GoOnline(p)
      /\ seen' = [seen EXCEPT ![p].channel = name]
      /\ UNCHANGED <<name, command, account, guild, before, effect>>
  BY DEF ResolveChannel, discord
<1>3. \/ /\ Cardinality(found) = 1
         /\ channel' = [channel EXCEPT ![p] = CHOOSE c \in found : TRUE]
         /\ Advance(p)
         /\ UNCHANGED verdict
      \/ Report(p, NoMatch(found)) /\ UNCHANGED channel
  BY DEF ResolveChannel
<1>4. ASSUME Cardinality(found) = 1
      PROVE  (CHOOSE c \in found : TRUE) \in Channel
  <2>1. found \subseteq Channel
    BY DEF Channels, Matches, Equal, Containing
  <2>2. found # {}
    BY <1>4, FS_EmptySet
  <2> QED
    BY <2>1, <2>2
<1> HIDE DEF found
<1>5. /\ channel' \in [Process -> Channel \cup {None}]
      /\ \A q \in Process : q # p => channel'[q] = channel[q]
  BY <1>3, <1>4 DEF StateOK
<1>6. NoMatch(found) \in Verdicts \ {"READ_ONLY"}
  BY NoMatchType
<1>7. /\ verdict' \in [Process -> Verdicts \cup {None}]
      /\ todo' \in [Process -> Seq(Stages)]
      /\ \/ todo'[p] = <<>> /\ verdict'[p] = NoMatch(found)
         \/ todo'[p] = Tail(todo[p]) /\ verdict'[p] = verdict[p]
      /\ \A q \in Process : q # p => verdict'[q] = verdict[q] /\ todo'[q] = todo[q]
  BY <1>1, <1>3, <1>6, Outcome
<1>8. /\ online' \in [Process -> BOOLEAN] /\ online'[p] = TRUE
      /\ \A q \in Process : q # p => online'[q] = online[q]
  BY <1>2, OnlineType
<1>9. /\ seen' \in [Process -> [guild : Listing, channel : Listing]]
      /\ \A q \in Process : q # p => seen'[q] = seen[q]
  BY <1>2 DEF StateOK
<1>10. Way(p)'
  BY <1>1, <1>2, <1>6, <1>7, <1>8, Request
<1> QED
  BY <1>2, <1>5, <1>7, <1>8, <1>9, <1>10 DEF StateOK, Others, Same

LEMMA LookupFailsKeeps ==
    ASSUME NEW p \in Process, NEW failure \in Failures, StateOK, Way(p), LookupFails(p, failure)
    PROVE  StateOK' /\ Way(p)' /\ Others(p)
<1>1. todo[p] # <<>> /\ Head(todo[p]) \notin Offline
  BY DEF LookupFails, Stage, Offline, ReadStage
<1>2. /\ GoOnline(p)
      /\ UNCHANGED <<name, command, account, guild, channel, before, seen, effect>>
  BY DEF LookupFails, discord
<1>3. PICK v \in Verdicts \ {"READ_ONLY"} : Report(p, v)
  BY TranslateType DEF LookupFails, Verdicts
<1>4. /\ verdict' \in [Process -> Verdicts \cup {None}]
      /\ todo' \in [Process -> Seq(Stages)]
      /\ todo'[p] = <<>> /\ verdict'[p] = v
      /\ \A q \in Process : q # p => verdict'[q] = verdict[q] /\ todo'[q] = todo[q]
  BY <1>3, ReportType
<1>5. /\ online' \in [Process -> BOOLEAN] /\ online'[p] = TRUE
      /\ \A q \in Process : q # p => online'[q] = online[q]
  BY <1>2, OnlineType
<1>6. Way(p)'
  BY <1>1, <1>2, <1>4, <1>5, Request
<1> QED
  BY <1>2, <1>4, <1>5, <1>6 DEF StateOK, Others, Same

LEMMA FetchKeeps ==
    ASSUME NEW p \in Process, StateOK, Way(p), Fetch(p)
    PROVE  StateOK' /\ Way(p)' /\ Others(p)
<1>1. todo[p] # <<>> /\ Head(todo[p]) \notin Offline
  BY DEF Fetch, Stage, Offline, ReadStage
<1>2. /\ GoOnline(p)
      /\ UNCHANGED <<name, command, account, guild, channel, before, seen, effect>>
  BY DEF Fetch, discord
<1>3. PICK v \in {"ok", "NOT_FOUND"} : Report(p, v) \/ (Advance(p) /\ UNCHANGED verdict)
  BY DEF Fetch, Translate
<1>4. v \in Verdicts \ {"READ_ONLY"}
  BY DEF Verdicts
<1>5. /\ verdict' \in [Process -> Verdicts \cup {None}]
      /\ todo' \in [Process -> Seq(Stages)]
      /\ \/ todo'[p] = <<>> /\ verdict'[p] = v
         \/ todo'[p] = Tail(todo[p]) /\ verdict'[p] = verdict[p]
      /\ \A q \in Process : q # p => verdict'[q] = verdict[q] /\ todo'[q] = todo[q]
  BY <1>1, <1>3, <1>4, Outcome
<1>6. /\ online' \in [Process -> BOOLEAN] /\ online'[p] = TRUE
      /\ \A q \in Process : q # p => online'[q] = online[q]
  BY <1>2, OnlineType
<1>7. Way(p)'
  BY <1>1, <1>2, <1>4, <1>5, <1>6, Request
<1> QED
  BY <1>2, <1>5, <1>6, <1>7 DEF StateOK, Others, Same

LEMMA FetchPageKeeps ==
    ASSUME NEW p \in Process, StateOK, Way(p), FetchPage(p)
    PROVE  StateOK' /\ Way(p)' /\ Others(p)
<1>1. todo[p] # <<>> /\ Head(todo[p]) = "messages" /\ Head(todo[p]) \notin Offline
  BY DEF FetchPage, Stage, Offline
<1>2. /\ GoOnline(p)
      /\ UNCHANGED <<name, command, account, guild, channel, seen, effect>>
  BY DEF FetchPage, discord
<1>3. PICK v \in {"ok", "NOT_FOUND"} : Report(p, v)
  BY DEF FetchPage
<1>4. v \in Verdicts \ {"READ_ONLY"}
  BY DEF Verdicts
<1>5. /\ verdict' \in [Process -> Verdicts \cup {None}]
      /\ todo' \in [Process -> Seq(Stages)]
      /\ todo'[p] = <<>> /\ verdict'[p] = v
      /\ \A q \in Process : q # p => verdict'[q] = verdict[q] /\ todo'[q] = todo[q]
  BY <1>3, <1>4, ReportType
<1>6. DOMAIN before' = Process /\ \A q \in Process : q # p => before'[q] = before[q]
  <2>1. PICK b : before' = [before EXCEPT ![p] = b] \/ UNCHANGED before
    BY DEF FetchPage
  <2> QED
    BY <2>1 DEF StateOK
<1>7. /\ online' \in [Process -> BOOLEAN] /\ online'[p] = TRUE
      /\ \A q \in Process : q # p => online'[q] = online[q]
  BY <1>2, OnlineType
<1>8. Way(p)'
  BY <1>1, <1>2, <1>4, <1>5, <1>7, Request
<1> QED
  BY <1>2, <1>5, <1>6, <1>7, <1>8 DEF StateOK, Others, Same

\* The four outcomes of a write: it is carried out or not, and it is reported
\* or sent again.
LEMMA WriteKeeps ==
    ASSUME NEW p \in Process, StateOK, Way(p), Transmit(p),
           UNCHANGED name,
           UNCHANGED effect \/ effect' = [effect EXCEPT ![p] = @ + 1],
           \/ UNCHANGED <<verdict, todo>>
           \/ \E v \in Verdicts \ {"READ_ONLY"} : Report(p, v)
    PROVE  StateOK' /\ Way(p)' /\ Others(p)
<1>1. todo[p] # <<>> /\ Head(todo[p]) \in WriteStage /\ Head(todo[p]) \notin Offline
  BY DEF Transmit, InWrite, Stage, WriteStage, Offline
<1>2. /\ GoOnline(p)
      /\ UNCHANGED <<command, account, guild, channel, before, seen>>
  BY DEF Transmit
<1>3. /\ verdict' \in [Process -> Verdicts \cup {None}]
      /\ todo' \in [Process -> Seq(Stages)]
      /\ \/ todo'[p] = <<>> /\ verdict'[p] \in Verdicts \ {"READ_ONLY"}
         \/ todo'[p] = todo[p] /\ verdict'[p] = verdict[p]
      /\ \A q \in Process : q # p => verdict'[q] = verdict[q] /\ todo'[q] = todo[q]
  <2>1. CASE UNCHANGED <<verdict, todo>>
    BY <2>1 DEF StateOK
  <2>2. CASE \E v \in Verdicts \ {"READ_ONLY"} : Report(p, v)
    BY <2>2, ReportType
  <2> QED
    BY <2>1, <2>2
<1>4. /\ effect' \in [Process -> Nat]
      /\ \A q \in Process : q # p => effect'[q] = effect[q]
  BY DEF StateOK
<1>5. /\ online' \in [Process -> BOOLEAN] /\ online'[p] = TRUE
      /\ \A q \in Process : q # p => online'[q] = online[q]
  BY <1>2, OnlineType
<1>6. Way(p)'
  BY <1>1, <1>2, <1>3, <1>5, Request
<1> QED
  BY <1>2, <1>3, <1>4, <1>5, <1>6 DEF StateOK, Others, Same

LEMMA WritesKeep ==
    ASSUME NEW p \in Process, StateOK, Way(p),
           \/ Answered(p) \/ NotFound(p) \/ Lost(p)
           \/ \E failure \in Failures : Denied(p, failure)
    PROVE  StateOK' /\ Way(p)' /\ Others(p)
<1>1. CASE Answered(p)
  <2>1. "ok" \in Verdicts \ {"READ_ONLY"}
    BY DEF Verdicts
  <2> QED
    BY <1>1, <2>1, WriteKeeps DEF Answered, Apply
<1>2. CASE NotFound(p)
  <2>1. "noop" \in Verdicts \ {"READ_ONLY"} /\ Translate("gone") \in Verdicts \ {"READ_ONLY"}
    BY DEF Verdicts, Translate
  <2> QED
    BY <1>2, <2>1, WriteKeeps DEF NotFound, discord
<1>3. CASE Lost(p)
  <2>1. Translate("lost") \in Verdicts \ {"READ_ONLY"}
    BY DEF Verdicts, Translate
  <2> QED
    BY <1>3, <2>1, WriteKeeps DEF Lost, Apply, discord
<1>4. CASE \E failure \in Failures : Denied(p, failure)
  <2>1. PICK failure \in Failures : Denied(p, failure)
    BY <1>4
  <2>2. Translate(failure) \in Verdicts \ {"READ_ONLY"}
    BY TranslateType
  <2> QED
    BY <2>1, <2>2, WriteKeeps DEF Denied, discord
<1> QED
  BY <1>1, <1>2, <1>3, <1>4

LEMMA BeginKeeps ==
    ASSUME NEW p \in Process, NEW c \in Command, StateOK, Way(p), Begin(p, c)
    PROVE  StateOK' /\ Way(p)' /\ Others(p)
<1>1. /\ c.op \in Ops /\ c # None /\ (c.op = "home" => c.bad # "early")
  BY CommandFields
<1>2. /\ Well(Script(c.op), c.op) /\ Has(Script(c.op), "client")
      /\ c.op # "home" => Has(Script(c.op), "usage")
      /\ c.op \in Writes => Has(Script(c.op), "scope")
  BY <1>1, ScriptsWell
<1>3. /\ command[p] = None
      /\ command' = [command EXCEPT ![p] = c]
      /\ todo' = [todo EXCEPT ![p] = Script(c.op)]
      /\ UNCHANGED <<name, account, guild, channel, verdict, before, online, seen, effect>>
  BY DEF Begin, discord, record
<1>4. StateOK' /\ Others(p) /\ command'[p] = c /\ todo'[p] = Script(c.op)
  <2>1. Script(c.op) \in Seq(Stages)
    BY <1>2 DEF Well
  <2> QED
    BY <1>3, <2>1 DEF StateOK, Others, Same
<1>5. Op(p)' = c.op
  BY <1>4 DEF Op
<1>6. /\ ~online[p] /\ effect[p] = 0 /\ verdict[p] = None
      /\ account[p] = None /\ before[p] = None
  BY <1>3 DEF Way, Fresh
<1>7. Ordered(p)' /\ Fresh(p)' /\ Connected(p)' /\ Effects(p)' /\ Refused(p)'
  BY <1>1, <1>2, <1>3, <1>4, <1>5, <1>6 DEF Ordered, Fresh, Connected, Effects, Refused
<1>8. Ahead(p)'
  BY <1>1, <1>2, <1>4, <1>5 DEF Ahead
<1> QED
  BY <1>4, <1>7, <1>8 DEF Way

LEMMA NextPageKeeps ==
    ASSUME NEW p \in Process, StateOK, Way(p), NextPage(p)
    PROVE  StateOK' /\ Way(p)' /\ Others(p)
<1>1. /\ verdict[p] = "ok" /\ before[p] # None
      /\ verdict' = [verdict EXCEPT ![p] = None]
      /\ todo' = [todo EXCEPT ![p] = Script(command[p].op)]
      /\ guild' = [guild EXCEPT ![p] = None]
      /\ channel' = [channel EXCEPT ![p] = None]
      /\ account' = [account EXCEPT ![p] = None]
      /\ online' = [online EXCEPT ![p] = FALSE]
      /\ UNCHANGED <<name, command, before, seen, effect>>
  BY DEF NextPage, discord
<1>2. command[p] \in Command /\ command[p] # None
  BY <1>1 DEF StateOK, Way, Fresh
<1> DEFINE c == command[p]
<1>3. /\ c.op \in Ops /\ (c.op = "home" => c.bad # "early")
  BY <1>2, CommandFields
<1>4. /\ Well(Script(c.op), c.op) /\ Has(Script(c.op), "client")
      /\ c.op # "home" => Has(Script(c.op), "usage")
      /\ c.op \in Writes => Has(Script(c.op), "scope")
  BY <1>3, ScriptsWell
<1>5. /\ StateOK' /\ Others(p) /\ todo'[p] = Script(c.op) /\ command'[p] = c
      /\ verdict'[p] = None /\ account'[p] = None /\ online'[p] = FALSE
  <2>1. Script(c.op) \in Seq(Stages)
    BY <1>4 DEF Well
  <2> QED
    BY <1>1, <2>1 DEF StateOK, Others, Same
<1>6. Op(p)' = c.op /\ Op(p) = c.op
  BY <1>5 DEF Op
<1>7. c.op \notin Writes /\ effect[p] = 0
  BY <1>1, <1>6 DEF StateOK, Way, Effects
<1>8. Ordered(p)' /\ Fresh(p)' /\ Connected(p)' /\ Refused(p)'
  BY <1>2, <1>4, <1>5, <1>6, VerdictsNotNone DEF Ordered, Fresh, Connected, Refused, Verdicts
<1>9. Effects(p)'
  BY <1>1, <1>6, <1>7 DEF Effects
<1>10. Ahead(p)'
  BY <1>3, <1>4, <1>5, <1>6, <1>7 DEF Ahead
<1> QED
  BY <1>5, <1>8, <1>9, <1>10 DEF Way

LEMMA StepKeeps ==
    ASSUME NEW p \in Process, StateOK, Way(p),
           Step(p) \/ NextPage(p) \/ \E c \in Command : Begin(p, c)
    PROVE  StateOK' /\ Way(p)' /\ Others(p)
<1>1. CASE CheckArguments(p) \/ Client(p) \/ RequireWrite(p) \/ RequireUser(p) \/ CheckLate(p)
  BY <1>1, CheckArgumentsKeeps, ClientKeeps, RequireWriteKeeps, RequireUserKeeps, CheckLateKeeps
<1>2. CASE ResolveGuild(p) \/ ResolveChannel(p) \/ Fetch(p) \/ FetchPage(p)
  BY <1>2, ResolveGuildKeeps, ResolveChannelKeeps, FetchKeeps, FetchPageKeeps
<1>3. CASE \E failure \in Failures : LookupFails(p, failure)
  BY <1>3, LookupFailsKeeps
<1>4. CASE \/ Answered(p) \/ NotFound(p) \/ Lost(p)
           \/ \E failure \in Failures : Denied(p, failure)
  BY <1>4, WritesKeep
<1>5. CASE NextPage(p) \/ \E c \in Command : Begin(p, c)
  BY <1>5, NextPageKeeps, BeginKeeps
<1> QED
  BY <1>1, <1>2, <1>3, <1>4, <1>5 DEF Step

LEMMA EnvironmentKeeps ==
    ASSUME StateOK, Environment
    PROVE  StateOK' /\ \A q \in Process : Same(q)
<1>1. UNCHANGED <<command, account, todo, guild, channel, verdict, before, online, seen, effect>>
  BY DEF Environment, record
<1>2. name' \in Listing
  <2>1. ASSUME NEW x \in Place, NEW w \in Word \cup {None}, name' = [name EXCEPT ![x] = w]
        PROVE  name' \in Listing
    BY <2>1 DEF StateOK, Listing
  <2>2. CASE \E x \in Place : Vanish(x) \/ \E w \in Word : Rename(x, w)
    BY <2>1, <2>2 DEF Vanish, Rename
  <2>3. CASE UNCHANGED name
    BY <2>3 DEF StateOK
  <2> QED
    BY <2>2, <2>3 DEF Environment, Post, Remove, React
<1> QED
  BY <1>1, <1>2 DEF StateOK, Same

\* The types, and a command that nobody has started.
LEMMA InitOK ==
    ASSUME Init
    PROVE  StateOK /\ \A p \in Process : Way(p)
<1>1. name \in Listing
  BY ConstantsOK DEF Init, ConstantsOK, Listing
<1>2. StateOK
  BY <1>1, EmptySeq DEF Init, StateOK
<1>3. ASSUME NEW p \in Process PROVE Way(p)
  <2>1. /\ command[p] = None /\ todo[p] = <<>> /\ ~online[p] /\ effect[p] = 0
        /\ verdict[p] = None /\ account[p] = None /\ before[p] = None
        /\ guild[p] = None /\ channel[p] = None
    BY DEF Init
  <2> QED
    BY <2>1, VerdictsNotNone
       DEF Way, Ordered, Fresh, Ahead, Connected, Effects, Refused, Verdicts
<1> QED
  BY <1>2, <1>3

LEMMA StutterOK ==
    ASSUME StateOK, UNCHANGED vars
    PROVE  StateOK' /\ \A q \in Process : Same(q)
BY DEF vars, discord, record, StateOK, Same

LEMMA NextKeepsWay ==
    ASSUME StateOK, \A p \in Process : Way(p), [Next]_vars
    PROVE  StateOK' /\ \A p \in Process : Way(p)'
<1>1. CASE \E p \in Process : Step(p) \/ NextPage(p) \/ \E c \in Command : Begin(p, c)
  <2>1. PICK p \in Process : Step(p) \/ NextPage(p) \/ \E c \in Command : Begin(p, c)
    BY <1>1
  <2>2. StateOK' /\ Way(p)' /\ Others(p)
    BY <2>1, StepKeeps
  <2>3. ASSUME NEW q \in Process, q # p PROVE Way(q)'
    BY <2>2, <2>3, SameWay DEF Others
  <2> QED
    BY <2>2, <2>3
<1>2. CASE Environment
  BY <1>2, EnvironmentKeeps, SameWay
<1>3. CASE UNCHANGED vars
  BY <1>3, StutterOK, SameWay
<1> QED
  BY <1>1, <1>2, <1>3 DEF Next

\* A command that is refused for its scope, for want of an account or for an
\* argument that is checked first has made no request, and a read-only account
\* never gets as far as one that writes.
THEOREM RefusedBeforeRequest == Spec => []RefusedOffline
<1> DEFINE IInv == StateOK /\ \A p \in Process : Way(p)
<1>1. Init => IInv
  BY InitOK
<1>2. IInv /\ [Next]_vars => IInv'
  BY NextKeepsWay
<1>3. IInv => RefusedOffline
  BY WayGivesRefused
<1> QED
  BY <1>1, <1>2, <1>3, PTL DEF Spec

-----------------------------------------------------------------------------
(***************************************************************************)
(* What a reference finds.                                                 *)
(***************************************************************************)

\* One match is no guess.
LEMMA OneMatch ==
    ASSUME NEW names, NEW places, NEW w, NEW x, Matches(names, places, w) = {x}
    PROVE  SinglesOut(names, places, w, x)
BY DEF Matches, Equal, Containing, SinglesOut

LEMMA TheOnly ==
    ASSUME NEW S, IsFiniteSet(S), NEW found \in SUBSET S, Cardinality(found) = 1
    PROVE  found = {CHOOSE x \in found : TRUE}
<1>1. IsFiniteSet(found)
  BY FS_Subset
<1>2. PICK x : found = {x}
  BY <1>1, FS_Singleton
<1> QED
  BY <1>2

GuildFound(p) ==
    LET ref == command[p].ref
    IN  /\ ref.guild \in Word =>
              SinglesOut(seen[p].guild, Guilds(seen[p].guild), ref.guild, guild[p])
        /\ ref.guild \in Guild => guild[p] = ref.guild

ChannelFound(p) ==
    LET ref == command[p].ref
    IN  /\ ref.channel \in Word =>
              SinglesOut(seen[p].channel, Channels(seen[p].channel, guild[p]),
                         ref.channel, channel[p])
        /\ ref.channel \in Channel => channel[p] = ref.channel

\* The guild is found before the channel, and each once.
Found(p) ==
    /\ guild[p] # None => GuildFound(p)
    /\ channel[p] # None =>
          /\ ChannelFound(p)
          /\ guild[p] # None \/ command[p].ref.guild = None
          /\ ~Has(todo[p], "channel")

LEMMA FoundGivesNeverAGuess ==
    ASSUME StateOK, \A p \in Process : Way(p) /\ Found(p)
    PROVE  NeverAGuess
<1> SUFFICES ASSUME NEW p \in Process, channel[p] # None
             PROVE  GuildFound(p) /\ ChannelFound(p)
  BY DEF NeverAGuess, GuildFound, ChannelFound
<1>1. ChannelFound(p) /\ (guild[p] # None \/ command[p].ref.guild = None)
  BY DEF Found
<1>2. CASE guild[p] # None
  BY <1>1, <1>2 DEF Found
<1>3. CASE command[p].ref.guild = None
  BY <1>1, <1>3, ConstantsOK DEF ConstantsOK, Place, GuildFound
<1> QED
  BY <1>1, <1>2, <1>3

\* A step that looks nothing up.
LEMMA SameFound ==
    ASSUME NEW p \in Process, Found(p),
           command'[p] = command[p], guild'[p] = guild[p], channel'[p] = channel[p],
           seen'[p] = seen[p],
           Has(todo'[p], "channel") => Has(todo[p], "channel")
    PROVE  Found(p)'
BY DEF Found, GuildFound, ChannelFound

LEMMA ResolveGuildFinds ==
    ASSUME NEW p \in Process, StateOK, Way(p), Found(p), ResolveGuild(p)
    PROVE  Found(p)'
<1> DEFINE ref == command[p].ref.guild
           found == IF ref \in Guild THEN {ref} \cap Guilds(name)
                    ELSE Matches(name, Guilds(name), ref)
<1>1. /\ ref # None /\ guild[p] = None
      /\ seen' = [seen EXCEPT ![p].guild = name]
      /\ UNCHANGED <<command, channel>>
  BY DEF ResolveGuild
<1>2. seen'[p].guild = name
  BY <1>1 DEF StateOK
<1>3. channel'[p] = None
  BY <1>1 DEF Found
<1>4. ASSUME guild'[p] # None
      PROVE  GuildFound(p)'
  <2>1. Cardinality(found) = 1 /\ guild'[p] = CHOOSE g \in found : TRUE
    BY <1>1, <1>4 DEF ResolveGuild, StateOK
  <2>2. found \in SUBSET Guild /\ IsFiniteSet(Guild)
    BY ConstantsOK DEF ConstantsOK, Guilds, Matches, Equal, Containing
  <2>3. found = {guild'[p]}
    BY <2>1, <2>2, TheOnly
  <2>4. ref \in Guild => guild'[p] = ref
    BY <2>3
  <2>5. ref \in Word => SinglesOut(name, Guilds(name), ref, guild'[p])
    <3> SUFFICES ASSUME ref \in Word
                 PROVE  SinglesOut(name, Guilds(name), ref, guild'[p])
      OBVIOUS
    <3>1. ref \notin Guild
      BY ConstantsOK DEF ConstantsOK, Place
    <3> QED
      BY <2>3, <3>1, OneMatch
  <2> QED
    BY <1>1, <1>2, <2>4, <2>5 DEF GuildFound
<1> QED
  BY <1>3, <1>4 DEF Found

LEMMA ResolveChannelFinds ==
    ASSUME NEW p \in Process, StateOK, Way(p), Found(p), ResolveChannel(p)
    PROVE  Found(p)'
<1> DEFINE ref == command[p].ref.channel
           found == IF ref \in Channel THEN {c \in {ref} : Alive(c)}
                    ELSE IF guild[p] # None /\ ~Alive(guild[p]) THEN {}
                    ELSE Matches(name, Channels(name, guild[p]), ref)
<1>1. /\ todo[p] # <<>> /\ Head(todo[p]) = "channel"
      /\ command[p].ref.guild = None \/ guild[p] # None
      /\ seen' = [seen EXCEPT ![p].channel = name]
      /\ UNCHANGED <<command, guild>>
  BY DEF ResolveChannel, Stage
<1>2. seen'[p].channel = name /\ seen'[p].guild = seen[p].guild
  BY <1>1 DEF StateOK
<1>3. Has(todo[p], "channel") /\ ~Has(Tail(todo[p]), "channel")
  BY <1>1, Passed, HeadWell, TailWell
<1>4. channel[p] = None
  BY <1>3 DEF Found
<1>5. guild'[p] # None => GuildFound(p)'
  BY <1>1, <1>2 DEF Found, GuildFound
<1>6. ASSUME channel'[p] # None
      PROVE  ChannelFound(p)' /\ ~Has(todo'[p], "channel")
  <2>1. Cardinality(found) = 1 /\ channel'[p] = (CHOOSE c \in found : TRUE) /\ Advance(p)
    BY <1>4, <1>6 DEF ResolveChannel, StateOK
  <2>2. found \in SUBSET Channel /\ IsFiniteSet(Channel)
    BY ConstantsOK DEF ConstantsOK, Channels, Matches, Equal, Containing
  <2>3. found = {channel'[p]}
    BY <2>1, <2>2, TheOnly
  <2>4. ref \in Channel => channel'[p] = ref
    BY <2>3
  <2>5. ref \in Word => SinglesOut(name, Channels(name, guild[p]), ref, channel'[p])
    <3> SUFFICES ASSUME ref \in Word
                 PROVE  SinglesOut(name, Channels(name, guild[p]), ref, channel'[p])
      OBVIOUS
    <3>1. ref \notin Channel
      BY ConstantsOK DEF ConstantsOK, Place
    <3>2. found = Matches(name, Channels(name, guild[p]), ref)
      BY <2>3, <3>1
    <3> QED
      BY <2>3, <3>2, OneMatch
  <2>6. ~Has(todo'[p], "channel")
    BY <1>1, <1>3, <2>1, AdvanceType
  <2> QED
    BY <1>1, <1>2, <2>4, <2>5, <2>6 DEF ChannelFound
<1> QED
  BY <1>1, <1>5, <1>6 DEF Found

LEMMA StepFinds ==
    ASSUME NEW p \in Process, StateOK, Way(p), Found(p),
           Step(p) \/ NextPage(p) \/ \E c \in Command : Begin(p, c)
    PROVE  Found(p)'
<1>1. CASE ResolveGuild(p) \/ ResolveChannel(p)
  BY <1>1, ResolveGuildFinds, ResolveChannelFinds
<1>2. CASE NextPage(p)
  BY <1>2 DEF NextPage, StateOK, Found
<1>3. ASSUME NEW c \in Command, Begin(p, c) PROVE Found(p)'
  <2>1. guild'[p] = None /\ channel'[p] = None
    BY <1>3 DEF Begin, Way, Fresh
  <2> QED
    BY <2>1 DEF Found
<1>4. ASSUME UNCHANGED <<command, guild, channel, seen>>,
             \/ UNCHANGED todo
             \/ todo[p] # <<>> /\ Advance(p)
             \/ \E v : Report(p, v)
      PROVE  Found(p)'
  <2>1. todo'[p] = todo[p] \/ (todo[p] # <<>> /\ todo'[p] = Tail(todo[p])) \/ todo'[p] = <<>>
    BY <1>4, AdvanceType DEF StateOK, Report
  <2>2. todo[p] # <<>> => Well(todo[p], Op(p))
    BY Passed
  <2>3. Has(todo'[p], "channel") => Has(todo[p], "channel")
    BY <2>1, <2>2, TailWell, EmptyWell
  <2> QED
    BY <1>4, <2>3, SameFound
<1>5. CASE CheckArguments(p) \/ Client(p) \/ RequireWrite(p) \/ RequireUser(p) \/ CheckLate(p)
  <2>1. UNCHANGED <<command, guild, channel, seen>> /\ todo[p] # <<>>
    BY <1>5 DEF CheckArguments, Client, RequireWrite, RequireUser, CheckLate, record, Stage
  <2>2. Advance(p) \/ \E v : Report(p, v)
    BY <1>5 DEF CheckArguments, Client, RequireWrite, RequireUser, CheckLate
  <2> QED
    BY <1>4, <2>1, <2>2
<1>6. CASE \/ Fetch(p) \/ FetchPage(p)
           \/ \E failure \in Failures : LookupFails(p, failure)
  <2>1. UNCHANGED <<command, guild, channel, seen>> /\ todo[p] # <<>>
    BY <1>6 DEF Fetch, FetchPage, LookupFails, Stage
  <2>2. Advance(p) \/ \E v : Report(p, v)
    BY <1>6 DEF Fetch, FetchPage, LookupFails
  <2> QED
    BY <1>4, <2>1, <2>2
<1>7. CASE \/ Answered(p) \/ NotFound(p) \/ Lost(p)
           \/ \E failure \in Failures : Denied(p, failure)
  <2>1. UNCHANGED <<command, guild, channel, seen>>
    BY <1>7 DEF Answered, NotFound, Lost, Denied, Transmit
  <2>2. UNCHANGED todo \/ \E v : Report(p, v)
    BY <1>7 DEF Answered, NotFound, Lost, Denied
  <2> QED
    BY <1>4, <2>1, <2>2
<1> QED
  BY <1>1, <1>2, <1>3, <1>5, <1>6, <1>7 DEF Step

\* Whatever is renamed meanwhile, the channel a command reads from or writes to
\* is the one that its reference singled out in the listing it was looked up
\* in, in the guild that was singled out before.
THEOREM NoGuess == Spec => []NeverAGuess
<1> DEFINE IInv == StateOK /\ \A p \in Process : Way(p) /\ Found(p)
<1>1. Init => IInv
  BY InitOK DEF Init, Found
<1>2. IInv /\ [Next]_vars => IInv'
  <2> SUFFICES ASSUME IInv, [Next]_vars PROVE IInv'
    OBVIOUS
  <2>1. StateOK' /\ \A p \in Process : Way(p)'
    BY NextKeepsWay
  <2>2. ASSUME NEW q \in Process, Same(q) PROVE Found(q)'
    BY <2>2, SameFound DEF Same
  <2>3. \A q \in Process : Found(q)'
    <3>1. CASE \E p \in Process : Step(p) \/ NextPage(p) \/ \E c \in Command : Begin(p, c)
      <4>1. PICK p \in Process : Step(p) \/ NextPage(p) \/ \E c \in Command : Begin(p, c)
        BY <3>1
      <4>2. Found(p)'
        BY <4>1, StepFinds
      <4>3. ASSUME NEW q \in Process, q # p PROVE Found(q)'
        BY <2>2, <4>1, <4>3, StepKeeps DEF Others
      <4> QED
        BY <4>2, <4>3
    <3>2. CASE Environment
      BY <2>2, <3>2, EnvironmentKeeps
    <3>3. CASE UNCHANGED vars
      BY <2>2, <3>3, StutterOK
    <3> QED
      BY <3>1, <3>2, <3>3 DEF Next
  <2> QED
    BY <2>1, <2>3
<1>3. IInv => NeverAGuess
  BY FoundGivesNeverAGuess
<1> QED
  BY <1>1, <1>2, <1>3, PTL DEF Spec

-----------------------------------------------------------------------------
(***************************************************************************)
(* What a report says of Discord.                                          *)
(***************************************************************************)

\* Messages have the ids 1 to posted, and go with the channels they are in.
World ==
    /\ posted \in Nat /\ Cardinality(Messages) <= posted
    /\ there \subseteq (1..posted) \X Channel
    /\ \A m \in there : Alive(m[2])

\* A write that may have been carried out is being sent or has been reported,
\* and was sent as often as it was carried out.
Sent(p) ==
    /\ effect[p] <= tries[p]
    /\ effect[p] > 0 /\ verdict[p] = None => InWrite(p)
    /\ Op(p) \in Writes /\ todo[p] # <<>> => Has(todo[p], "channel") \/ channel[p] # None

\* The part of ReportsHold that the others on Discord could upset.
GoneForGood(p) == Op(p) = "delete" /\ verdict[p] \in {"ok", "noop"} => Target(p) \notin there

Reported(p) ==
    verdict[p] # None =>
        /\ Op(p) \in Writes /\ verdict[p] = "ok" => effect[p] > 0
        /\ verdict[p] = "noop" => Idempotent(p)
        /\ verdict[p] \notin {"ok", "noop"} /\ effect[p] > 0 =>
              verdict[p] = "NETWORK_ERROR" \/ tries[p] > 1

LEMMA WorldGivesReports ==
    ASSUME \A p \in Process : GoneForGood(p) /\ Reported(p)
    PROVE  ReportsHold
BY DEF ReportsHold, GoneForGood, Reported

\* A write knows its channel.
LEMMA WriteHasChannel ==
    ASSUME NEW p \in Process, StateOK, Way(p), Sent(p), InWrite(p)
    PROVE  channel[p] \in Channel /\ Op(p) \in Writes /\ verdict[p] = None
<1>1. todo[p] # <<>> /\ Head(todo[p]) \in WriteStage
  BY DEF InWrite, Stage
<1>2. ~Has(todo[p], "channel") /\ Op(p) \in Writes /\ verdict[p] = None
  BY <1>1, Passed, HeadWell
<1> QED
  BY <1>1, <1>2 DEF Sent, StateOK

\* The channel of a message that is left stays, and so does its guild.
LEMMA VanishWorld ==
    ASSUME World, StateOK, NEW x \in Place, Vanish(x)
    PROVE  World' /\ there' \subseteq there
<1>1. /\ name' = [name EXCEPT ![x] = None]
      /\ there' = {m \in there : m[2] # x /\ Parent[m[2]] # x}
      /\ UNCHANGED posted
  BY DEF Vanish
<1>2. ASSUME NEW m \in there' PROVE Alive(m[2])'
  <2>1. m \in there /\ m[2] \in Channel /\ m[2] # x /\ Parent[m[2]] # x /\ Alive(m[2])
    BY <1>1 DEF World
  <2>2. name'[m[2]] = name[m[2]]
    BY <1>1, <2>1 DEF StateOK, Listing, Place
  <2>3. ASSUME Parent[m[2]] # None PROVE name'[Parent[m[2]]] # None
    <3>1. Parent[m[2]] \in Guild
      BY <2>1, <2>3, ConstantsOK DEF ConstantsOK
    <3> QED
      BY <1>1, <2>1, <2>3, <3>1 DEF StateOK, Listing, Place, Alive
  <2> QED
    BY <2>1, <2>2, <2>3 DEF Alive
<1> QED
  BY <1>1, <1>2 DEF World

\* Giving something another name does not make it go.
LEMMA RenameWorld ==
    ASSUME World, StateOK, NEW x \in Place, NEW w \in Word, Rename(x, w)
    PROVE  World' /\ there' \subseteq there
<1>1. name' = [name EXCEPT ![x] = w] /\ UNCHANGED <<there, posted>> /\ w # None
  BY ConstantsOK DEF ConstantsOK, Rename
<1>2. \A y \in Place : name[y] # None => name'[y] # None
  BY <1>1 DEF StateOK, Listing
<1>3. ASSUME NEW m \in there PROVE Alive(m[2])'
  <2>1. m[2] \in Channel /\ Alive(m[2])
    BY DEF World
  <2>2. Parent[m[2]] # None => Parent[m[2]] \in Place
    BY <2>1, ConstantsOK DEF ConstantsOK, Place
  <2> QED
    BY <1>2, <2>1, <2>2 DEF Alive, Place
<1> QED
  BY <1>1, <1>3 DEF World

\* The channels stay as they are, and one message may come.
LEMMA MessagesWorld ==
    ASSUME World, NEW c \in Channel, Alive(c), UNCHANGED name,
           \/ there' \subseteq there /\ UNCHANGED posted
           \/ there' = there \cup {<<posted + 1, c>>} /\ posted' = posted + 1
    PROVE  World' /\ \A m \in there' : m \in there \/ m[1] = posted + 1
<1>1. \A x : Alive(x)' = Alive(x)
  BY DEF Alive
<1>2. CASE there' \subseteq there /\ UNCHANGED posted
  BY <1>1, <1>2 DEF World
<1>3. CASE there' = there \cup {<<posted + 1, c>>} /\ posted' = posted + 1
  <2>1. posted' \in Nat /\ Cardinality(Messages) <= posted'
    BY <1>3, FS_CardinalityType, ConstantsOK DEF World, ConstantsOK
  <2>2. there' \subseteq (1..posted') \X Channel
    BY <1>3 DEF World
  <2>3. \A m \in there' : Alive(m[2])
    BY <1>3 DEF World
  <2> QED
    BY <1>1, <1>3, <2>1, <2>2, <2>3 DEF World
<1> QED
  BY <1>2, <1>3

LEMMA ApplyWorld ==
    ASSUME World, NEW p \in Process, channel[p] \in Channel, ~Gone(p), Apply(p)
    PROVE  World' /\ \A m \in there' : m \in there \/ m[1] = posted + 1
<1>1. Alive(channel[p]) /\ UNCHANGED name
  BY DEF Gone, Apply
<1>2. \/ there' \subseteq there /\ UNCHANGED posted
      \/ there' = there \cup {<<posted + 1, channel[p]>>} /\ posted' = posted + 1
  BY DEF Apply
<1> QED
  BY <1>1, <1>2, MessagesWorld

LEMMA QuietWorld ==
    ASSUME World, UNCHANGED <<name, there, posted>>
    PROVE  World' /\ there' \subseteq there
BY DEF World, Alive

\* Whoever acts, a message that was not there is a new one.
LEMMA WorldStep ==
    ASSUME World, StateOK, \A p \in Process : Way(p) /\ Sent(p), [Next]_vars
    PROVE  World' /\ \A m \in there' : m \in there \/ m[1] = posted + 1
<1>1. ASSUME NEW p \in Process, Answered(p) \/ Lost(p)
      PROVE  World' /\ \A m \in there' : m \in there \/ m[1] = posted + 1
  <2>1. channel[p] \in Channel
    BY <1>1, WriteHasChannel DEF Answered, Lost, Transmit
  <2>2. UNCHANGED discord \/ (~Gone(p) /\ Apply(p))
    BY <1>1 DEF Answered, Lost
  <2> QED
    BY <2>1, <2>2, ApplyWorld, QuietWorld DEF discord
<1>2. CASE UNCHANGED discord
  BY <1>2, QuietWorld DEF discord
<1>3. ASSUME NEW p \in Process, Step(p) \/ NextPage(p) \/ \E c \in Command : Begin(p, c),
             ~Answered(p), ~Lost(p)
      PROVE  UNCHANGED discord
  BY <1>3 DEF Step, CheckArguments, Client, RequireWrite, RequireUser, CheckLate, ResolveGuild,
              ResolveChannel, Fetch, FetchPage, NotFound, LookupFails, Denied, NextPage, Begin
<1>4. CASE Environment
  <2>1. CASE \E x \in Place : Vanish(x) \/ \E w \in Word : Rename(x, w)
    BY <2>1, VanishWorld, RenameWorld
  <2>2. CASE \E c \in Channel : Post(c)
    BY <2>2, MessagesWorld DEF Post
  <2>3. CASE \E m \in there : Remove(m) \/ React(m)
    <3>1. PICK m \in there : Remove(m) \/ React(m)
      BY <2>3
    <3>2. m[2] \in Channel /\ Alive(m[2]) /\ there' \subseteq there /\ UNCHANGED <<name, posted>>
      BY <3>1 DEF World, Remove, React
    <3> QED
      BY <3>2, MessagesWorld
  <2> QED
    BY <1>4, <2>1, <2>2, <2>3 DEF Environment
<1>5. CASE UNCHANGED vars
  BY <1>2, <1>5 DEF vars
<1> QED
  BY <1>1, <1>2, <1>3, <1>4, <1>5 DEF Next

\* The ids that a delete may name have been handed out.
IdsKnown == \A c \in Command : c.op = "delete" => c.message \in 1..Cardinality(Messages)

LEMMA StaysGone ==
    ASSUME IdsKnown, World, NEW p \in Process, StateOK, Way(p), GoneForGood(p), Same(p),
           \A m \in there' : m \in there \/ m[1] = posted + 1
    PROVE  GoneForGood(p)'
<1> SUFFICES ASSUME Op(p) = "delete", verdict[p] \in {"ok", "noop"}, Target(p) \in there'
             PROVE  FALSE
  BY DEF Same, GoneForGood, Op, Target
<1>1. Target(p) \notin there
  BY DEF GoneForGood
<1>2. command[p] \in Command
  BY VerdictsNotNone DEF StateOK, Way, Fresh, Verdicts
<1>3. command[p].message \in 1..Cardinality(Messages)
  BY <1>2 DEF IdsKnown, Op
<1>4. Cardinality(Messages) \in Nat
  BY FS_CardinalityType, ConstantsOK DEF ConstantsOK
<1> QED
  BY <1>1, <1>3, <1>4 DEF World, Target

SentOK(p) == Sent(p) /\ GoneForGood(p) /\ Reported(p)

LEMMA SameSent ==
    ASSUME NEW p \in Process, Sent(p), Reported(p), Same(p), tries'[p] = tries[p]
    PROVE  Sent(p)' /\ Reported(p)'
BY DEF Same, Sent, Reported, InWrite, Stage, Op, Idempotent

\* A stage that is no write reports neither that it has written nor that there
\* was nothing to write.
LEMMA QuietSent ==
    ASSUME NEW p \in Process, StateOK, Way(p), Sent(p), todo[p] # <<>>,
           Head(todo[p]) \notin WriteStage,
           command'[p] = command[p], tries'[p] = tries[p], effect'[p] = effect[p],
           \/ todo'[p] = todo[p] /\ verdict'[p] = verdict[p]
           \/ /\ todo'[p] = Tail(todo[p]) /\ verdict'[p] = verdict[p]
              /\ Head(todo[p]) = "channel" => channel'[p] # None
           \/ /\ todo'[p] = <<>> /\ verdict'[p] \in Verdicts \ {"noop"}
              /\ verdict'[p] = "ok" => Op(p) \notin Writes,
           channel'[p] = channel[p] \/ channel'[p] # None
    PROVE  SentOK(p)'
<1>1. verdict[p] = None /\ Well(todo[p], Op(p)) /\ effect[p] = 0
  <2>1. verdict[p] = None /\ Well(todo[p], Op(p))
    BY Passed
  <2>2. ~InWrite(p) /\ effect[p] \in Nat
    BY DEF StateOK, InWrite, Stage
  <2> QED
    BY <2>1, <2>2 DEF Sent
<1>2. Op(p)' = Op(p)
  BY DEF Op
<1>3. Sent(p)'
  <2>1. ASSUME Op(p) \in Writes, todo'[p] # <<>>, channel'[p] = None
        PROVE  Has(todo'[p], "channel")
    <3>1. Has(todo[p], "channel")
      BY <2>1 DEF Sent
    <3>2. CASE todo'[p] = todo[p]
      BY <3>1, <3>2
    <3>3. CASE todo'[p] = Tail(todo[p]) /\ Head(todo[p]) # "channel"
      BY <1>1, <3>1, <3>3, TailWell
    <3> QED
      BY <2>1, <3>2, <3>3
  <2> QED
    BY <1>1, <1>2, <2>1 DEF Sent
<1>4. verdict'[p] # "noop" /\ (verdict'[p] = "ok" => Op(p) \notin Writes)
  BY <1>1, VerdictsNotNone DEF Verdicts
<1>5. GoneForGood(p)'
  BY <1>2, <1>4 DEF GoneForGood, Writes
<1>6. Reported(p)'
  BY <1>1, <1>2, <1>4 DEF Reported
<1> QED
  BY <1>3, <1>5, <1>6 DEF SentOK

LEMMA ChecksSent ==
    ASSUME NEW p \in Process, StateOK, Way(p), Sent(p),
           CheckArguments(p) \/ Client(p) \/ RequireWrite(p) \/ RequireUser(p) \/ CheckLate(p)
    PROVE  SentOK(p)'
<1>1. /\ todo[p] # <<>> /\ Head(todo[p]) \in Offline \cup {"late"}
      /\ UNCHANGED <<command, channel, tries, effect>>
  BY DEF CheckArguments, Client, RequireWrite, RequireUser, CheckLate, Stage, record, Offline
<1>2. \/ Advance(p) /\ UNCHANGED verdict
      \/ \E v \in Verdicts \ {"ok", "noop"} : Report(p, v)
      \/ Op(p) = "home" /\ Report(p, "ok")
  BY DEF CheckArguments, Client, RequireWrite, RequireUser, CheckLate, Verdicts, Op
<1>3. \/ todo'[p] = Tail(todo[p]) /\ verdict'[p] = verdict[p]
      \/ todo'[p] = <<>> /\ verdict'[p] \in Verdicts \ {"ok", "noop"}
      \/ todo'[p] = <<>> /\ verdict'[p] = "ok" /\ Op(p) = "home"
  BY <1>1, <1>2, AdvanceType, ReportType DEF Verdicts
<1>4. /\ Head(todo[p]) \notin WriteStage /\ Head(todo[p]) # "channel"
      /\ Op(p) = "home" => Op(p) \notin Writes
  BY <1>1 DEF Offline, WriteStage, Writes
<1>5. "ok" \in Verdicts \ {"noop"}
  BY DEF Verdicts
<1> QED
  BY <1>1, <1>3, <1>4, <1>5, QuietSent

\* A channel that is looked up is found, or an error is reported.
LEMMA ResolvedChannel ==
    ASSUME NEW p \in Process, StateOK, ResolveChannel(p)
    PROVE  \/ channel'[p] # None /\ Advance(p) /\ UNCHANGED verdict
           \/ UNCHANGED channel /\ \E v \in {"NOT_FOUND", "VALIDATION_ERROR"} : Report(p, v)
<1> DEFINE ref == command[p].ref.channel
           found == IF ref \in Channel THEN {c \in {ref} : Alive(c)}
                    ELSE IF guild[p] # None /\ ~Alive(guild[p]) THEN {}
                    ELSE Matches(name, Channels(name, guild[p]), ref)
<1>1. CASE /\ Cardinality(found) = 1
           /\ channel' = [channel EXCEPT ![p] = CHOOSE c \in found : TRUE]
           /\ Advance(p)
           /\ UNCHANGED verdict
  <2>1. found \subseteq Channel
    BY DEF Channels, Matches, Equal, Containing
  <2>2. found # {}
    BY <1>1, FS_EmptySet
  <2>3. (CHOOSE c \in found : TRUE) \in Channel
    BY <2>1, <2>2
  <2> HIDE DEF found
  <2>4. channel'[p] \in Channel
    BY <1>1, <2>3 DEF StateOK
  <2> QED
    BY <1>1, <2>4, ConstantsOK DEF ConstantsOK, Place
<1>2. CASE Report(p, NoMatch(found)) /\ UNCHANGED channel
  BY <1>2 DEF NoMatch
<1> QED
  BY <1>1, <1>2 DEF ResolveChannel

LEMMA LookupsSent ==
    ASSUME NEW p \in Process, StateOK, Way(p), Sent(p),
           \/ ResolveGuild(p) \/ ResolveChannel(p) \/ Fetch(p) \/ FetchPage(p)
           \/ \E failure \in Failures : LookupFails(p, failure)
    PROVE  SentOK(p)'
<1>1. todo[p] # <<>> /\ Head(todo[p]) \in ReadStage \cup {"guild", "channel", "messages"}
  BY DEF ResolveGuild, ResolveChannel, Fetch, FetchPage, LookupFails, Stage
<1>2. UNCHANGED <<command, tries, effect>>
  BY DEF ResolveGuild, ResolveChannel, Fetch, FetchPage, LookupFails
<1>3. Head(todo[p]) \notin WriteStage /\ "ok" \in Verdicts \ {"noop"}
  BY <1>1 DEF ReadStage, WriteStage, Verdicts
<1>4. CASE ResolveGuild(p)
  <2>1. /\ UNCHANGED channel
        /\ \/ Stage(p, "guild") /\ Advance(p) /\ UNCHANGED verdict
           \/ UNCHANGED <<todo, verdict>>
           \/ \E v \in {"NOT_FOUND", "VALIDATION_ERROR"} : Report(p, v)
    BY <1>4 DEF ResolveGuild, NoMatch
  <2>2. \/ Head(todo[p]) = "guild" /\ todo'[p] = Tail(todo[p]) /\ verdict'[p] = verdict[p]
        \/ todo'[p] = todo[p] /\ verdict'[p] = verdict[p]
        \/ todo'[p] = <<>> /\ verdict'[p] \in Verdicts \ {"ok", "noop"}
    BY <1>1, <2>1, AdvanceType, ReportType DEF Stage, Verdicts
  <2> QED
    BY <1>1, <1>2, <1>3, <2>1, <2>2, QuietSent
<1>5. CASE ResolveChannel(p)
  <2>1. \/ todo'[p] = Tail(todo[p]) /\ verdict'[p] = verdict[p] /\ channel'[p] # None
        \/ /\ todo'[p] = <<>> /\ verdict'[p] \in Verdicts \ {"ok", "noop"}
           /\ channel'[p] = channel[p]
    BY <1>1, <1>5, ResolvedChannel, AdvanceType, ReportType DEF Verdicts
  <2> QED
    BY <1>1, <1>2, <1>3, <2>1, QuietSent
<1>6. CASE Fetch(p) \/ FetchPage(p)
  <2>1. /\ UNCHANGED channel /\ Head(todo[p]) \in ReadStage \cup {"messages"}
        /\ \/ Advance(p) /\ UNCHANGED verdict
           \/ \E v \in {"ok", "NOT_FOUND"} : Report(p, v)
    BY <1>6 DEF Fetch, FetchPage, Translate, Stage
  <2>2. Op(p) \notin Writes /\ Head(todo[p]) # "channel"
    BY <1>1, <2>1, Passed, HeadWell DEF ReadStage
  <2>3. \/ todo'[p] = Tail(todo[p]) /\ verdict'[p] = verdict[p]
        \/ todo'[p] = <<>> /\ verdict'[p] \in Verdicts \ {"noop"}
    BY <1>1, <2>1, AdvanceType, ReportType DEF Verdicts
  <2> QED
    BY <1>1, <1>2, <1>3, <2>1, <2>2, <2>3, QuietSent
<1>7. CASE \E failure \in Failures : LookupFails(p, failure)
  <2>1. UNCHANGED channel /\ \E v \in Verdicts \ {"ok", "noop"} : Report(p, v)
    BY <1>7 DEF LookupFails, Translate, Failures, Verdicts
  <2>2. todo'[p] = <<>> /\ verdict'[p] \in Verdicts \ {"ok", "noop"} /\ channel'[p] = channel[p]
    BY <2>1, ReportType
  <2> QED
    BY <1>1, <1>2, <1>3, <2>2, QuietSent
<1> QED
  BY <1>4, <1>5, <1>6, <1>7

LEMMA WritesSent ==
    ASSUME NEW p \in Process, StateOK, World, Way(p), Sent(p), tries \in [Process -> Nat],
           \/ Answered(p) \/ NotFound(p) \/ Lost(p)
           \/ \E failure \in Failures : Denied(p, failure)
    PROVE  SentOK(p)'
<1>1. /\ InWrite(p) /\ Transmit(p) /\ UNCHANGED <<command, channel>>
      /\ tries' = [tries EXCEPT ![p] = @ + 1]
  BY DEF Answered, NotFound, Lost, Denied, Transmit
<1>2. Op(p)' = Op(p) /\ Target(p)' = Target(p) /\ Idempotent(p)' = Idempotent(p)
  BY <1>1 DEF Op, Target, Idempotent
<1>3. /\ tries[p] \in Nat /\ effect[p] \in Nat /\ tries'[p] = tries[p] + 1
      /\ effect[p] <= tries[p]
  BY <1>1 DEF StateOK, Sent
<1>4. channel[p] \in Channel /\ Op(p) \in Writes /\ verdict[p] = None
  BY <1>1, WriteHasChannel
<1>5. channel'[p] # None
  BY <1>1, <1>4, ConstantsOK DEF ConstantsOK, Place
<1>6. ASSUME Apply(p) PROVE effect'[p] = effect[p] + 1
  BY <1>6 DEF Apply, StateOK
<1>7. ASSUME NEW v \in Verdicts, Report(p, v),
             effect'[p] \in {effect[p], effect[p] + 1},
             v = "ok" => effect'[p] = effect[p] + 1,
             v = "noop" => Idempotent(p),
             v \in {"ok", "noop", "NETWORK_ERROR"} \/ effect'[p] = effect[p],
             Op(p) = "delete" /\ v \in {"ok", "noop"} => Target(p) \notin there'
      PROVE  SentOK(p)'
  <2>1. verdict'[p] = v /\ todo'[p] = <<>> /\ v # None
    BY <1>7, ReportType, VerdictsNotNone
  <2>2. Sent(p)'
    BY <1>3, <1>7, <2>1 DEF Sent
  <2>3. GoneForGood(p)'
    BY <1>2, <1>7, <2>1 DEF GoneForGood
  <2>4. Reported(p)'
    BY <1>2, <1>3, <1>7, <2>1 DEF Reported
  <2> QED
    BY <2>2, <2>3, <2>4 DEF SentOK
<1>8. CASE Answered(p)
  <2>1. Op(p) = "delete" => Target(p) \notin there'
    BY <1>8 DEF Answered, Apply
  <2> QED
    BY <1>6, <1>7, <1>8, <2>1 DEF Answered, Verdicts
<1>9. CASE NotFound(p)
  <2>1. Op(p) = "delete" => Target(p) \notin there
    BY <1>9 DEF NotFound, Gone, World, Target
  <2>2. UNCHANGED <<there, effect>>
    BY <1>9 DEF NotFound, discord
  <2>3. Idempotent(p) => Report(p, "noop")
    BY <1>9 DEF NotFound
  <2>4. ~Idempotent(p) => Report(p, "NOT_FOUND")
    BY <1>9 DEF NotFound, Translate
  <2>5. "noop" \in Verdicts /\ "NOT_FOUND" \in Verdicts
    BY DEF Verdicts
  <2> QED
    BY <1>7, <2>1, <2>2, <2>3, <2>4, <2>5
<1>10. CASE \E failure \in Failures : Denied(p, failure)
  <2>1. PICK v \in Verdicts \ {"ok", "noop"} : Report(p, v) /\ UNCHANGED effect
    BY <1>10 DEF Denied, Translate, Failures, Verdicts
  <2> QED
    BY <1>7, <2>1
<1>11. CASE Lost(p)
  <2>1. effect'[p] \in {effect[p], effect[p] + 1}
    BY <1>6, <1>11 DEF Lost
  <2>2. CASE UNCHANGED <<verdict, todo>>
    <3>1. Sent(p)'
      BY <1>1, <1>3, <1>5, <2>1, <2>2 DEF Sent, InWrite, Stage
    <3>2. verdict'[p] = None
      BY <1>4, <2>2
    <3>3. GoneForGood(p)' /\ Reported(p)'
      BY <3>2, VerdictsNotNone DEF GoneForGood, Reported, Verdicts
    <3> QED
      BY <3>1, <3>3 DEF SentOK
  <2>3. CASE Report(p, "NETWORK_ERROR")
    BY <1>7, <2>1, <2>3 DEF Verdicts
  <2> QED
    BY <1>11, <2>2, <2>3 DEF Lost, Translate
<1> QED
  BY <1>8, <1>9, <1>10, <1>11

LEMMA StartsSent ==
    ASSUME NEW p \in Process, StateOK, Way(p), Sent(p), tries \in [Process -> Nat],
           NextPage(p) \/ \E c \in Command : Begin(p, c)
    PROVE  SentOK(p)'
<1>1. PICK op \in Ops : todo' = [todo EXCEPT ![p] = Script(op)] /\ Op(p)' = op
  <2>1. CASE NextPage(p)
    <3>1. command[p] \in Command
      BY <2>1 DEF NextPage, StateOK, Way, Fresh
    <3> QED
      BY <2>1, <3>1, CommandFields DEF NextPage, Op
  <2>2. CASE \E c \in Command : Begin(p, c)
    <3>1. PICK c \in Command : Begin(p, c)
      BY <2>2
    <3>2. c.op \in Ops /\ command'[p] = c
      BY <3>1, CommandFields DEF Begin, StateOK
    <3> QED
      BY <3>1, <3>2 DEF Begin, Op
  <2> QED
    BY <2>1, <2>2
<1>2. todo'[p] = Script(op) /\ (op \in Writes => Has(Script(op), "channel"))
  BY <1>1, ScriptsWell DEF StateOK
<1>3. effect[p] = 0
  BY DEF StateOK, NextPage, Begin, Way, Fresh, Effects
<1>4. verdict'[p] = None /\ UNCHANGED <<tries, effect>>
  BY DEF NextPage, Begin, Way, Fresh, StateOK, record
<1>5. Sent(p)'
  BY <1>1, <1>2, <1>3, <1>4 DEF Sent
<1>6. GoneForGood(p)' /\ Reported(p)'
  BY <1>4, VerdictsNotNone DEF GoneForGood, Reported, Verdicts
<1> QED
  BY <1>5, <1>6 DEF SentOK

\* What a command has reported is so, if a delete names a message whose id has
\* been handed out: a message reported deleted or gone stays gone, a write
\* reported as done was carried out, and one reported as failed was not, unless
\* an answer was lost.
THEOREM ReportsTrue ==
    ASSUME IdsKnown
    PROVE  Spec => []ReportsHold
<1> DEFINE IInv == /\ StateOK /\ World /\ tries \in [Process -> Nat]
                   /\ \A p \in Process : Way(p) /\ SentOK(p)
<1>1. Init => IInv
  <2> SUFFICES ASSUME Init PROVE IInv
    OBVIOUS
  <2>1. World
    <3>1. Cardinality(Messages) \in Nat
      BY FS_CardinalityType, ConstantsOK DEF ConstantsOK
    <3>2. ASSUME NEW m \in there PROVE Alive(m[2])
      <4>1. m[2] \in Channel /\ (Parent[m[2]] # None => Parent[m[2]] \in Guild)
        BY ConstantsOK DEF Init, ConstantsOK
      <4>2. \A x \in Place : name[x] # None
        BY ConstantsOK DEF Init, ConstantsOK
      <4> QED
        BY <4>1, <4>2 DEF Alive, Place
    <3> QED
      BY <3>1, <3>2, ConstantsOK DEF Init, ConstantsOK, World
  <2>2. ASSUME NEW p \in Process PROVE SentOK(p)
    BY VerdictsNotNone DEF Init, SentOK, Sent, GoneForGood, Reported, Verdicts
  <2>3. tries \in [Process -> Nat]
    BY DEF Init
  <2> QED
    BY <2>1, <2>2, <2>3, InitOK
<1>2. IInv /\ [Next]_vars => IInv'
  <2> SUFFICES ASSUME IInv, [Next]_vars PROVE IInv'
    OBVIOUS
  <2>1. StateOK' /\ \A p \in Process : Way(p)'
    BY NextKeepsWay
  <2>2. World' /\ \A m \in there' : m \in there \/ m[1] = posted + 1
    BY WorldStep DEF SentOK
  <2>3. ASSUME NEW q \in Process, Same(q), tries'[q] = tries[q] PROVE SentOK(q)'
    BY <2>2, <2>3, SameSent, StaysGone DEF SentOK
  <2>4. tries' \in [Process -> Nat] /\ \A q \in Process : SentOK(q)'
    <3>1. CASE \E p \in Process : Step(p) \/ NextPage(p) \/ \E c \in Command : Begin(p, c)
      <4>1. PICK p \in Process : Step(p) \/ NextPage(p) \/ \E c \in Command : Begin(p, c)
        BY <3>1
      <4>2. SentOK(p)'
        BY <4>1, ChecksSent, LookupsSent, WritesSent, StartsSent DEF Step, SentOK
      <4>3. UNCHANGED tries \/ tries' = [tries EXCEPT ![p] = @ + 1]
        BY <4>1 DEF Step, CheckArguments, Client, RequireWrite, RequireUser, CheckLate,
                    ResolveGuild, ResolveChannel, Fetch, FetchPage, Answered, NotFound, Lost,
                    LookupFails, Denied, Transmit, NextPage, Begin
      <4>4. ASSUME NEW q \in Process, q # p PROVE SentOK(q)'
        BY <2>3, <4>1, <4>3, <4>4, StepKeeps DEF Others
      <4> QED
        BY <4>2, <4>3, <4>4
    <3>2. CASE Environment
      <4>1. UNCHANGED tries
        BY <3>2 DEF Environment
      <4> QED
        BY <2>3, <3>2, <4>1, EnvironmentKeeps
    <3>3. CASE UNCHANGED vars
      <4>1. UNCHANGED tries
        BY <3>3 DEF vars
      <4> QED
        BY <2>3, <3>3, <4>1, StutterOK
    <3> QED
      BY <3>1, <3>2, <3>3 DEF Next
  <2> QED
    BY <2>1, <2>2, <2>4
<1>3. IInv => ReportsHold
  BY WorldGivesReports DEF SentOK
<1> QED
  BY <1>1, <1>2, <1>3, PTL DEF Spec

=============================================================================

----------------------------- MODULE ArgvProofs ------------------------------
(***************************************************************************)
(* Proofs about Argv, for any texts, commands and command lines: what a    *)
(* command is run with is what its command line means, and no command line *)
(* is refused that means something the command can be run with.            *)
(***************************************************************************)
EXTENDS Argv, SequenceTheorems, FiniteSetTheorems, WellFoundedInduction, TLAPS

\* The arguments that Parse has read.
StateOK ==
    /\ argv \in Seq(Text) /\ raw \in Seq(Text)
    /\ command \in DOMAIN Command \cup {None}
    /\ pc \in {"dispatch", "parse", "run", "done"}
    /\ pc \in {"parse", "run"} => command \in DOMAIN Command
    /\ pc = "dispatch" => /\ raw = <<>> /\ index = 1 /\ positional = <<>> /\ booleans = {}
                          /\ command = None /\ exit = None
    /\ index \in 1 .. Len(raw) + 1
    /\ positional \in Seq(Text)
    /\ strings \in [Text -> Text \cup {None}]
    /\ booleans \subseteq Text
    /\ pc # "done" => exit = None
    /\ command \in DOMAIN Command \/ exit # "ran"
    /\ exit \in Results \cup {None}

\* The roles of the arguments read so far explain what Parse has gathered, and
\* a command that is run has all its arguments read.
Explained ==
    /\ pc \in {"parse", "run"} \/ exit = "ran" =>
          \E role \in [1..Len(raw) -> Role] : Means(role, index - 1)
    /\ pc = "run" \/ exit = "ran" => index = Len(raw) + 1

LEMMA TextFacts ==
    /\ DOMAIN Command \subseteq Text /\ None \notin Text /\ None \notin {"ran", "usage"}
    /\ NameOf \in [Text -> Text] /\ InlineOf \in [Text -> Text \cup {None}]
    /\ \A c \in DOMAIN Command : Command[c] \in CommandSpec
BY ConstantsOK DEF ConstantsOK, Results

LEMMA InitOK ==
    ASSUME Init
    PROVE  StateOK /\ Explained
<1>1. argv \in Seq(Text)
  BY ConstantsOK DEF Init, ConstantsOK
<1>2. <<>> \in Seq(Text) /\ Len(<<>>) = 0
  BY EmptySeq
<1>3. StateOK
  BY <1>1, <1>2, TextFacts DEF Init, StateOK
<1>4. Explained
  BY TextFacts DEF Init, Explained
<1> QED
  BY <1>3, <1>4

\* Reading, but for the value that the last of the n arguments may want.
Partial(role, n) ==
    \A i \in 1..n : /\ MayBe(role, i)
                    /\ role[i] = "value" <=> i > 1 /\ role[i - 1] = "name"

Agree(role, next, n) == \A i \in 1..n : next[i] = role[i]

\* One argument more is read.
LEMMA Extend ==
    ASSUME NEW role \in [1..Len(raw) -> Role], NEW n \in Nat, n + 1 \in 1..Len(raw),
           Partial(role, n),
           NEW part \in Role, part = "value" <=> n > 0 /\ role[n] = "name",
           NEW next, next = [role EXCEPT ![n + 1] = part], MayBe(next, n + 1)
    PROVE  /\ next \in [1..Len(raw) -> Role]
           /\ Partial(next, n + 1) /\ Agree(role, next, n)
           /\ next[n + 1] = part
<1>1. next \in [1..Len(raw) -> Role] /\ next[n + 1] = part /\ Agree(role, next, n)
  BY DEF Agree
<1>2. \A i \in 1..n : MayBe(next, i)
  BY <1>1 DEF Partial, Agree, MayBe
<1>3. Partial(next, n + 1)
  <2> SUFFICES ASSUME NEW i \in 1..(n + 1)
               PROVE  /\ MayBe(next, i)
                      /\ next[i] = "value" <=> i > 1 /\ next[i - 1] = "name"
    BY DEF Partial
  <2>1. CASE i = n + 1
    BY <1>1, <2>1 DEF Agree
  <2>2. CASE i # n + 1
    <3>1. i \in 1..n /\ (i > 1 => i - 1 \in 1..n)
      BY <2>2
    <3> QED
      BY <1>1, <1>2, <3>1 DEF Partial, Agree
  <2> QED
    BY <2>1, <2>2
<1> QED
  BY <1>1, <1>3

\* An argument that is positional is the next one.
LEMMA PositionalAppended ==
    ASSUME NEW role, NEW n \in Nat, n + 1 \in 1..Len(raw), raw \in Seq(Text),
           positional \in Seq(Text), PositionalsRead(role, n),
           NEW next, Agree(role, next, n), next[n + 1] = "positional",
           UNCHANGED raw, positional' = Append(positional, raw[n + 1])
    PROVE  PositionalsRead(next, n + 1)'
<1> DEFINE len == Len(positional)
<1>1. PICK at \in [1..len -> 1..n] :
         /\ \A k, l \in 1..len : k < l => at[k] < at[l]
         /\ \A k \in 1..len : positional[k] = raw[at[k]]
         /\ {at[k] : k \in 1..len} = Playing(role, n, {"positional"})
  BY DEF PositionalsRead
<1>2. /\ len \in Nat /\ Len(positional') = len + 1
      /\ positional'[len + 1] = raw[n + 1]
      /\ \A k \in 1..len : positional'[k] = positional[k]
  BY AppendProperties
<1> DEFINE new == [k \in 1..(len + 1) |-> IF k = len + 1 THEN n + 1 ELSE at[k]]
<1>3. new \in [1..(len + 1) -> 1..(n + 1)]
  BY <1>2
<1>4. \A k, l \in 1..(len + 1) : k < l => new[k] < new[l]
  BY <1>1, <1>2
<1>5. \A k \in 1..(len + 1) : positional'[k] = raw[new[k]]
  BY <1>1, <1>2
<1>6. {new[k] : k \in 1..(len + 1)} = {at[k] : k \in 1..len} \cup {n + 1}
  BY <1>2
<1>7. Playing(next, n + 1, {"positional"}) = Playing(role, n, {"positional"}) \cup {n + 1}
  BY DEF Playing, Agree
<1> HIDE DEF new, len
<1>8. {new[k] : k \in 1..(len + 1)} = Playing(next, n + 1, {"positional"})
  BY <1>1, <1>6, <1>7
<1>9. /\ new \in [1..Len(positional') -> 1..(n + 1)]
      /\ \A k, l \in 1..Len(positional') : k < l => new[k] < new[l]
      /\ \A k \in 1..Len(positional') : positional'[k] = raw'[new[k]]
      /\ {new[k] : k \in 1..Len(positional')} = Playing(next, n + 1, {"positional"})
  BY <1>2, <1>3, <1>4, <1>5, <1>8
<1>10. Playing(next, n + 1, {"positional"})' = Playing(next, n + 1, {"positional"})
  BY DEF Playing
<1> QED
  BY <1>9, <1>10 DEF PositionalsRead

\* Arguments that are not positional leave the others where they are.
LEMMA PositionalsKept ==
    ASSUME NEW role, NEW n \in Nat, NEW m \in Nat, n <= m,
           PositionalsRead(role, n), NEW next, Agree(role, next, n),
           \A i \in (n + 1)..m : next[i] # "positional",
           UNCHANGED <<raw, positional>>
    PROVE  PositionalsRead(next, m)'
<1>1. Playing(next, m, {"positional"}) = Playing(role, n, {"positional"})
  BY DEF Playing, Agree
<1>2. 1..n \subseteq 1..m
  OBVIOUS
<1> QED
  BY <1>1, <1>2 DEF PositionalsRead, Playing

\* An argument that gives a flag a value decides.
LEMMA StringSet ==
    ASSUME StateOK, NEW role, NEW n \in Nat, NEW m \in Nat, n + 1 <= m, m <= Len(raw),
           StringsRead(role, n), NEW next, Agree(role, next, n),
           next[n + 1] \in {"setting", "name"},
           \A i \in (n + 2)..m : next[i] \notin {"setting", "name"},
           UNCHANGED <<raw, command>>,
           strings' = [strings EXCEPT ![Flag(n + 1)] = ValueAt(next, n + 1)]
    PROVE  StringsRead(next, m)'
<1> DEFINE Given(f) == {i \in Playing(role, n, {"setting", "name"}) : Flag(i) = f}
           Now(f) == {i \in Playing(next, m, {"setting", "name"}) : Flag(i) = f}
<1>1. Playing(next, m, {"setting", "name"}) = Playing(role, n, {"setting", "name"}) \cup {n + 1}
  BY DEF Playing, Agree
<1>2. \A i \in Playing(role, n, {"setting", "name"}) : /\ ValueAt(next, i) = ValueAt(role, i)
                                                       /\ i \in Nat /\ i < n + 1
  BY DEF Playing, Agree, ValueAt
<1>3. Flag(n + 1) \in Text
  <2>1. n + 1 \in 1..Len(raw)
    OBVIOUS
  <2>2. raw[n + 1] \in Text
    BY <2>1 DEF StateOK
  <2> QED
    BY <2>2, TextFacts DEF Flag
<1>4. ASSUME NEW f \in Text
      PROVE  IF Now(f) = {} THEN strings'[f] = Command[command].defaults[f]
             ELSE \E i \in Now(f) : (\A j \in Now(f) : j <= i) /\ strings'[f] = ValueAt(next, i)
  <2>1. CASE f = Flag(n + 1)
    <3>1. n + 1 \in Now(f)
      BY <1>1, <2>1
    <3>2. \A j \in Now(f) : j <= n + 1
      BY <1>1, <1>2
    <3>3. strings'[f] = ValueAt(next, n + 1)
      BY <1>3, <2>1 DEF StateOK
    <3> QED
      BY <3>1, <3>2, <3>3
  <2>2. CASE f # Flag(n + 1)
    <3>1. Now(f) = Given(f)
      BY <1>1, <2>2
    <3>2. strings'[f] = strings[f]
      BY <2>2 DEF StateOK
    <3>3. IF Given(f) = {} THEN strings[f] = Command[command].defaults[f]
          ELSE \E i \in Given(f) : (\A j \in Given(f) : j <= i) /\ strings[f] = ValueAt(role, i)
      BY DEF StringsRead
    <3> QED
      BY <1>2, <3>1, <3>2, <3>3
  <2> QED
    BY <2>1, <2>2
<1> QED
  BY <1>4 DEF StringsRead, Playing, Flag, ValueAt

\* Other arguments do not.
LEMMA StringsKept ==
    ASSUME NEW role, NEW n \in Nat, StringsRead(role, n),
           NEW next, Agree(role, next, n), next[n + 1] \notin {"setting", "name"},
           UNCHANGED <<raw, command, strings>>
    PROVE  StringsRead(next, n + 1)'
<1>1. Playing(next, n + 1, {"setting", "name"}) = Playing(role, n, {"setting", "name"})
  BY DEF Playing, Agree
<1>2. \A i \in Playing(role, n, {"setting", "name"}) : ValueAt(next, i) = ValueAt(role, i)
  BY DEF Playing, Agree, ValueAt
<1>3. /\ \A i : Flag(i)' = Flag(i) /\ ValueAt(next, i)' = ValueAt(next, i)
      /\ Playing(next, n + 1, {"setting", "name"})' = Playing(next, n + 1, {"setting", "name"})
  BY DEF Flag, ValueAt, Playing
<1> QED
  BY <1>1, <1>2, <1>3 DEF StringsRead

-----------------------------------------------------------------------------
\* The arguments read so far, with the roles they play.
Prefix(role, n) ==
    /\ role \in [1..Len(raw) -> Role]
    /\ Partial(role, n) /\ PositionalsRead(role, n) /\ StringsRead(role, n) /\ BooleansRead(role, n)
    /\ n > 0 => role[n] # "name"

LEMMA PrefixMeans ==
    ASSUME NEW role, NEW n \in Nat
    PROVE  Prefix(role, n) <=> role \in [1..Len(raw) -> Role] /\ Means(role, n)
BY DEF Prefix, Means, Reading, Partial

LEMMA LookingFacts ==
    ASSUME StateOK, Explained, Looking
    PROVE  /\ index - 1 \in Nat /\ index - 1 + 1 = index /\ index \in 1..Len(raw)
           /\ raw[index] \in Text /\ Flag(index) \in Text
           /\ \E role : Prefix(role, index - 1)
<1>1. index - 1 \in Nat /\ index - 1 + 1 = index /\ index \in 1..Len(raw)
  BY DEF StateOK, Looking
<1>2. raw[index] \in Text
  BY <1>1 DEF StateOK
<1>3. Flag(index) \in Text
  BY <1>2, TextFacts DEF Flag
<1>4. PICK role \in [1..Len(raw) -> Role] : Means(role, index - 1)
  BY DEF Explained, Looking
<1>5. Prefix(role, index - 1)
  BY <1>1, <1>4, PrefixMeans
<1> QED
  BY <1>1, <1>2, <1>3, <1>5

\* What has been read up to m is explained after a step that reads up to m.
LEMMA ReadUpTo ==
    ASSUME StateOK, NEW next, NEW m \in Nat, next \in [1..Len(raw) -> Role],
           Partial(next, m), m > 0 => next[m] # "name",
           UNCHANGED <<raw, command, pc, exit>>, pc = "parse", index' = m + 1,
           PositionalsRead(next, m)', StringsRead(next, m)', BooleansRead(next, m)'
    PROVE  Explained'
<1>1. Partial(next, m)'
  BY DEF Partial, MayBe, Known, Flag, Inline
<1>2. Reading(next, m)'
  BY <1>1 DEF Partial, Reading
<1>3. Means(next, m)' /\ next \in [1..Len(raw') -> Role]
  BY <1>2 DEF Means
<1>4. index' - 1 = m /\ exit' # "ran" /\ pc' = "parse"
  BY TextFacts DEF StateOK
<1> QED
  BY <1>3, <1>4 DEF Explained

LEMMA PositionalKeeps ==
    ASSUME StateOK, Explained, Positional
    PROVE  StateOK' /\ Explained'
<1>0. PICK n \in Nat : \E role :
         /\ n + 1 = index /\ index \in 1..Len(raw) /\ raw[index] \in Text /\ Prefix(role, n)
  BY LookingFacts DEF Positional
<1>1. PICK role :
         /\ n + 1 = index /\ index \in 1..Len(raw) /\ raw[index] \in Text /\ Prefix(role, n)
  BY <1>0
<1>2. StateOK'
  BY <1>1, AppendProperties DEF StateOK, Positional, Looking
<1>3. PICK next : next = [role EXCEPT ![n + 1] = "positional"]
  OBVIOUS
<1>4. /\ next \in [1..Len(raw) -> Role] /\ next[n + 1] = "positional"
      /\ Partial(next, n + 1) /\ Agree(role, next, n)
  <2>1. next[n + 1] = "positional"
    BY <1>1, <1>3 DEF Prefix
  <2>2. MayBe(next, n + 1)
    BY <1>1, <2>1 DEF MayBe, Positional
  <2> QED
    BY <1>1, <1>3, <2>1, <2>2, Extend DEF Prefix, Role
<1>5. /\ UNCHANGED <<raw, command, strings, booleans, pc, exit>> /\ pc = "parse"
      /\ positional' = Append(positional, raw[n + 1]) /\ index' = n + 1 + 1
  BY <1>1 DEF Positional, Looking
<1>6. PositionalsRead(next, n + 1)'
  BY <1>1, <1>4, <1>5, PositionalAppended DEF Prefix, StateOK
<1>7. StringsRead(next, n + 1)'
  BY <1>1, <1>4, <1>5, StringsKept DEF Prefix
<1>8. BooleansRead(next, n + 1)'
  <2>1. Playing(next, n + 1, {"switch"}) = Playing(role, n, {"switch"})
    BY <1>4 DEF Playing, Agree
  <2>2. booleans = {Flag(i) : i \in Playing(role, n, {"switch"})}
    BY <1>1 DEF Prefix, BooleansRead
  <2>3. booleans' = {Flag(i) : i \in Playing(next, n + 1, {"switch"})}
    BY <1>5, <2>1, <2>2
  <2> QED
    BY <1>5, <2>3 DEF BooleansRead, Flag, Playing
<1>9. Explained'
  BY <1>4, <1>5, <1>6, <1>7, <1>8, ReadUpTo
<1> QED
  BY <1>2, <1>9

LEMMA BooleanFlagKeeps ==
    ASSUME StateOK, Explained, BooleanFlag
    PROVE  StateOK' /\ Explained'
<1>0. PICK n \in Nat : \E role :
         /\ n + 1 = index /\ index \in 1..Len(raw) /\ Flag(index) \in Text /\ Prefix(role, n)
  BY LookingFacts DEF BooleanFlag
<1>1. PICK role :
         /\ n + 1 = index /\ index \in 1..Len(raw) /\ Flag(index) \in Text /\ Prefix(role, n)
  BY <1>0
<1>2. StateOK'
  BY <1>1 DEF StateOK, BooleanFlag, Looking
<1>3. PICK next : next = [role EXCEPT ![n + 1] = "switch"]
  OBVIOUS
<1>4. /\ next \in [1..Len(raw) -> Role] /\ next[n + 1] = "switch"
      /\ Partial(next, n + 1) /\ Agree(role, next, n)
  <2>1. next[n + 1] = "switch"
    BY <1>1, <1>3 DEF Prefix
  <2>2. MayBe(next, n + 1)
    BY <1>1, <2>1 DEF MayBe, BooleanFlag
  <2> QED
    BY <1>1, <1>3, <2>1, <2>2, Extend DEF Prefix, Role
<1>5. /\ UNCHANGED <<raw, command, strings, positional, pc, exit>> /\ pc = "parse"
      /\ booleans' = booleans \cup {Flag(n + 1)} /\ index' = n + 1 + 1
  BY <1>1 DEF BooleanFlag, Looking
<1>6. PositionalsRead(next, n + 1)'
  BY <1>1, <1>4, <1>5, PositionalsKept DEF Prefix
<1>7. StringsRead(next, n + 1)'
  BY <1>1, <1>4, <1>5, StringsKept DEF Prefix
<1>8. BooleansRead(next, n + 1)'
  <2>1. Playing(next, n + 1, {"switch"}) = Playing(role, n, {"switch"}) \cup {n + 1}
    BY <1>4 DEF Playing, Agree
  <2>2. booleans = {Flag(i) : i \in Playing(role, n, {"switch"})}
    BY <1>1 DEF Prefix, BooleansRead
  <2>3. booleans' = {Flag(i) : i \in Playing(next, n + 1, {"switch"})}
    BY <1>5, <2>1, <2>2
  <2> QED
    BY <1>5, <2>3 DEF BooleansRead, Flag, Playing
<1>9. Explained'
  BY <1>4, <1>5, <1>6, <1>7, <1>8, ReadUpTo
<1> QED
  BY <1>2, <1>9

LEMMA InlineValueKeeps ==
    ASSUME StateOK, Explained, InlineValue
    PROVE  StateOK' /\ Explained'
<1>0. PICK n \in Nat : \E role :
         /\ n + 1 = index /\ index \in 1..Len(raw) /\ raw[index] \in Text
         /\ Flag(index) \in Text /\ Prefix(role, n)
  BY LookingFacts DEF InlineValue
<1>1. PICK role :
         /\ n + 1 = index /\ index \in 1..Len(raw) /\ raw[index] \in Text
         /\ Flag(index) \in Text /\ Prefix(role, n)
  BY <1>0
<1>2. StateOK'
  <2>1. InlineOf[raw[index]] \in Text \cup {None}
    BY <1>1, TextFacts
  <2> QED
    BY <1>1, <2>1 DEF StateOK, InlineValue, Looking
<1>3. PICK next : next = [role EXCEPT ![n + 1] = "setting"]
  OBVIOUS
<1>4. /\ next \in [1..Len(raw) -> Role] /\ next[n + 1] = "setting"
      /\ Partial(next, n + 1) /\ Agree(role, next, n)
  <2>1. next[n + 1] = "setting"
    BY <1>1, <1>3 DEF Prefix
  <2>2. MayBe(next, n + 1)
    BY <1>1, <2>1 DEF MayBe, InlineValue
  <2> QED
    BY <1>1, <1>3, <2>1, <2>2, Extend DEF Prefix, Role
<1>5. /\ UNCHANGED <<raw, command, positional, booleans, pc, exit>> /\ pc = "parse"
      /\ strings' = [strings EXCEPT ![Flag(n + 1)] = ValueAt(next, n + 1)] /\ index' = n + 1 + 1
  BY <1>1, <1>4 DEF InlineValue, Looking, ValueAt
<1>6. PositionalsRead(next, n + 1)'
  BY <1>1, <1>4, <1>5, PositionalsKept DEF Prefix
<1>7. StringsRead(next, n + 1)'
  <2>1. /\ n + 1 \in Nat /\ n + 1 <= n + 1 /\ n + 1 <= Len(raw)
        /\ next[n + 1] \in {"setting", "name"}
        /\ \A i \in (n + 2)..(n + 1) : next[i] \notin {"setting", "name"}
    BY <1>1, <1>4
  <2>2. StringsRead(role, n) /\ Agree(role, next, n)
    BY <1>1, <1>4 DEF Prefix
  <2> QED
    BY <1>5, <2>1, <2>2, StringSet
<1>8. BooleansRead(next, n + 1)'
  <2>1. Playing(next, n + 1, {"switch"}) = Playing(role, n, {"switch"})
    BY <1>4 DEF Playing, Agree
  <2>2. booleans = {Flag(i) : i \in Playing(role, n, {"switch"})}
    BY <1>1 DEF Prefix, BooleansRead
  <2>3. booleans' = {Flag(i) : i \in Playing(next, n + 1, {"switch"})}
    BY <1>5, <2>1, <2>2
  <2> QED
    BY <1>5, <2>3 DEF BooleansRead, Flag, Playing
<1>9. Explained'
  BY <1>4, <1>5, <1>6, <1>7, <1>8, ReadUpTo
<1> QED
  BY <1>2, <1>9

LEMMA NextValueKeeps ==
    ASSUME StateOK, Explained, NextValue
    PROVE  StateOK' /\ Explained'
<1>0. PICK n \in Nat : \E role :
         /\ n + 1 = index /\ index \in 1..Len(raw) /\ Flag(index) \in Text /\ Prefix(role, n)
  BY LookingFacts DEF NextValue
<1>1. PICK role :
         /\ n + 1 = index /\ index \in 1..Len(raw) /\ Flag(index) \in Text /\ Prefix(role, n)
  BY <1>0
<1>2. n + 2 \in 1..Len(raw) /\ raw[n + 2] \in Text
  BY <1>1 DEF StateOK, NextValue
<1>3. StateOK'
  BY <1>1, <1>2 DEF StateOK, NextValue, Looking
<1>4. PICK named : named = [role EXCEPT ![n + 1] = "name"]
  OBVIOUS
<1>5. PICK next : next = [named EXCEPT ![n + 1 + 1] = "value"]
  OBVIOUS
<1>6. /\ named \in [1..Len(raw) -> Role] /\ named[n + 1] = "name"
      /\ Partial(named, n + 1) /\ Agree(role, named, n)
  <2>1. named[n + 1] = "name"
    BY <1>1, <1>4 DEF Prefix
  <2>2. MayBe(named, n + 1)
    BY <1>1, <2>1 DEF MayBe, NextValue
  <2> QED
    BY <1>1, <1>4, <2>1, <2>2, Extend DEF Prefix, Role
<1>7. /\ next \in [1..Len(raw) -> Role] /\ next[n + 2] = "value"
      /\ Partial(next, n + 2) /\ Agree(named, next, n + 1)
  <2>1. next[n + 1 + 1] = "value" /\ n + 1 \in Nat /\ n + 1 + 1 \in 1..Len(raw)
    BY <1>2, <1>5, <1>6
  <2>2. MayBe(next, n + 1 + 1)
    BY <2>1 DEF MayBe
  <2>3. Partial(next, n + 1 + 1) /\ next \in [1..Len(raw) -> Role] /\ Agree(named, next, n + 1)
    <3>1. "value" \in Role /\ n + 1 > 0
      BY DEF Role
    <3> QED
      BY <1>5, <1>6, <2>1, <2>2, <3>1, Extend
  <2> QED
    BY <2>1, <2>3
<1>8. next[n + 1] = "name" /\ Agree(role, next, n)
  BY <1>6, <1>7 DEF Agree
<1>9. /\ UNCHANGED <<raw, command, positional, booleans, pc, exit>> /\ pc = "parse"
      /\ strings' = [strings EXCEPT ![Flag(n + 1)] = ValueAt(next, n + 1)] /\ index' = n + 2 + 1
  <2>1. ValueAt(next, n + 1) = raw[index + 1]
    BY <1>1, <1>8 DEF ValueAt
  <2>2. index' = n + 2 + 1
    BY <1>1 DEF NextValue
  <2> QED
    BY <1>1, <2>1, <2>2 DEF NextValue, Looking
<1>10. \A i \in (n + 1)..(n + 2) : next[i] \in {"name", "value"}
  BY <1>7, <1>8
<1>11. PositionalsRead(next, n + 2)'
  <2>1. \A i \in (n + 1)..(n + 2) : next[i] # "positional"
    BY <1>10
  <2> QED
    BY <1>1, <1>8, <1>9, <2>1, PositionalsKept DEF Prefix
<1>12. StringsRead(next, n + 2)'
  <2>1. /\ n + 2 \in Nat /\ n + 1 <= n + 2 /\ n + 2 <= Len(raw)
        /\ next[n + 1] \in {"setting", "name"}
        /\ \A i \in (n + 2)..(n + 2) : next[i] \notin {"setting", "name"}
    BY <1>1, <1>2, <1>7, <1>8
  <2>2. StringsRead(role, n) /\ Agree(role, next, n)
    BY <1>1, <1>8 DEF Prefix
  <2> QED
    BY <1>9, <2>1, <2>2, StringSet
<1>13. BooleansRead(next, n + 2)'
  <2>1. Playing(next, n + 2, {"switch"}) = Playing(role, n, {"switch"})
    BY <1>8, <1>10 DEF Playing, Agree
  <2> QED
    BY <1>1, <1>9, <2>1 DEF Prefix, BooleansRead, Playing, Flag
<1>14. Explained'
  BY <1>7, <1>9, <1>11, <1>12, <1>13, ReadUpTo
<1> QED
  BY <1>3, <1>14

\* Before the first argument there is nothing to explain.
LEMMA StartParseKeeps ==
    ASSUME StateOK, Explained, StartParse
    PROVE  StateOK' /\ Explained'
<1>1. /\ argv \in Seq(Text) /\ argv # <<>> /\ argv[1] \in DOMAIN Command
      /\ command' = argv[1] /\ raw' = Tail(argv) /\ strings' = Command[argv[1]].defaults
      /\ pc' = "parse" /\ UNCHANGED <<argv, index, positional, booleans, hint, exit>>
      /\ index = 1 /\ positional = <<>> /\ booleans = {} /\ exit = None
  BY EmptySeq DEF StateOK, StartParse
<1>2. raw' \in Seq(Text) /\ Len(raw') \in Nat /\ strings' \in [Text -> Text \cup {None}]
  BY <1>1, HeadTailProperties, TextFacts DEF CommandSpec
<1>3. StateOK'
  BY <1>1, <1>2, TextFacts DEF StateOK
<1>4. PICK role : role = [i \in 1..Len(raw') |-> "positional"]
  OBVIOUS
<1>5. role \in [1..Len(raw') -> Role]
  BY <1>4 DEF Role
<1>6. Playing(role, 0, {"positional"}) = {} /\ Playing(role, 0, {"setting", "name"}) = {}
      /\ Playing(role, 0, {"switch"}) = {}
  BY DEF Playing
<1>7. PositionalsRead(role, 0)'
  <2>1. Len(positional') = 0
    BY <1>1, EmptySeq
  <2>2. PICK at : at = [k \in 1..0 |-> 0]
    OBVIOUS
  <2>3. /\ at \in [1..Len(positional') -> 1..0]
        /\ {at[k] : k \in 1..Len(positional')} = {}
    BY <2>1, <2>2
  <2>4. 1..Len(positional') = {}
    BY <2>1
  <2> QED
    BY <1>6, <2>1, <2>3, <2>4 DEF PositionalsRead, Playing
<1>8. StringsRead(role, 0)'
  BY <1>1, <1>6 DEF StringsRead, Playing
<1>9. BooleansRead(role, 0)'
  BY <1>1, <1>6 DEF BooleansRead, Playing
<1>10. Reading(role, 0)'
  BY DEF Reading
<1> QED
  BY <1>1, <1>3, <1>5, <1>7, <1>8, <1>9, <1>10, TextFacts DEF Explained, Means

\* What a command line is read as does not change by what follows.
LEMMA SameMeaning ==
    ASSUME UNCHANGED <<raw, command, invocation>>, NEW role, NEW n
    PROVE  Means(role, n)' <=> Means(role, n)
BY DEF invocation, Means, Reading, MayBe, Known, Flag, Inline, PositionalsRead, StringsRead,
       BooleansRead, Playing, ValueAt

LEMMA OthersKeep ==
    ASSUME StateOK, Explained,
           ShowTop \/ NoCommand \/ CommandHelp \/ BadFlag \/ EndOfArguments \/ Run
    PROVE  StateOK' /\ Explained'
<1>1. UNCHANGED <<argv, command, raw, index, invocation>>
  BY DEF ShowTop, NoCommand, CommandHelp, BadFlag, EndOfArguments, Run
<1>2. /\ pc' \in {"run", "done"} /\ exit' \in Results \cup {None}
      /\ pc' = "run" => exit' = exit /\ pc = "parse"
      /\ pc' = "run" \/ exit' = "ran" =>
            \/ pc = "parse" /\ index > Len(raw)
            \/ pc = "run"
  BY TextFacts DEF ShowTop, NoCommand, CommandHelp, BadFlag, EndOfArguments, Run, Exit, Results,
                   StateOK
<1>3. StateOK'
  BY <1>1, <1>2 DEF StateOK, invocation
<1>4. Explained'
  BY <1>1, <1>2, SameMeaning, TextFacts DEF Explained, StateOK
<1> QED
  BY <1>3, <1>4

LEMMA NextExplained ==
    ASSUME StateOK, Explained, [Next]_vars
    PROVE  StateOK' /\ Explained'
<1>1. CASE Positional
  BY <1>1, PositionalKeeps
<1>2. CASE BooleanFlag
  BY <1>2, BooleanFlagKeeps
<1>3. CASE InlineValue
  BY <1>3, InlineValueKeeps
<1>4. CASE NextValue
  BY <1>4, NextValueKeeps
<1>5. CASE StartParse
  BY <1>5, StartParseKeeps
<1>6. CASE ShowTop \/ NoCommand \/ CommandHelp \/ BadFlag \/ EndOfArguments \/ Run
  BY <1>6, OthersKeep
<1>7. CASE UNCHANGED vars
  <2>1. UNCHANGED <<argv, pc, command, raw, index, positional, strings, booleans, exit>>
    BY <1>7 DEF vars, invocation
  <2>2. StateOK'
    BY <2>1 DEF StateOK
  <2>3. \A role, n : Means(role, n)' <=> Means(role, n)
    BY <2>1, SameMeaning DEF invocation
  <2>4. Explained'
    BY <2>1, <2>3 DEF Explained
  <2> QED
    BY <2>2, <2>4
<1> QED
  BY <1>1, <1>2, <1>3, <1>4, <1>5, <1>6, <1>7 DEF Next


\* What a command is run with is what its whole command line means: no argument
\* is dropped, and none is read as something else.
THEOREM CommandLineKept == Parsing => []NothingDropped
<1> DEFINE IInv == StateOK /\ Explained
<1>1. Init => IInv
  BY InitOK
<1>2. IInv /\ [Next]_vars => IInv'
  BY NextExplained
<1>3. IInv => NothingDropped
  <2> SUFFICES ASSUME IInv, pc = "run" \/ exit = "ran"
               PROVE  \E role \in [1..Len(raw) -> Role] : Means(role, Len(raw))
    BY DEF NothingDropped
  <2>1. index - 1 = Len(raw)
    BY DEF Explained, StateOK
  <2> QED
    BY <2>1 DEF Explained
<1> QED
  BY <1>1, <1>2, <1>3, PTL DEF Parsing

-----------------------------------------------------------------------------
(***************************************************************************)
(* A command line has one meaning at most.                                 *)
(***************************************************************************)
Full(role) == role \in [1..Len(raw) -> Role] /\ Partial(role, Len(raw))

\* As far as Parse has read, there is no other way to read.
Forced ==
    pc \in {"parse", "run"} =>
        \A role, other : Full(role) /\ Full(other) =>
            /\ Agree(role, other, index - 1)
            /\ index > 1 => role[index - 1] # "name"

\* The role of the argument that Parse looks at.
LEMMA NoValue ==
    ASSUME StateOK, Forced, Looking, NEW role, Full(role)
    PROVE  /\ index \in 1..Len(raw) /\ role[index] # "value" /\ role[index] \in Role
           /\ MayBe(role, index)
<1>1. index \in 1..Len(raw)
  BY DEF StateOK, Looking
<1>2. index > 1 => role[index - 1] # "name"
  BY DEF Forced, Looking
<1> QED
  BY <1>1, <1>2 DEF Full, Partial

LEMMA OneRole ==
    ASSUME StateOK, Forced, NEW role, Full(role)
    PROVE  /\ Positional => role[index] = "positional"
           /\ BooleanFlag => role[index] = "switch"
           /\ InlineValue => role[index] = "setting"
           /\ NextValue => role[index] = "name"
           /\ BadFlag => role[index] = "name" /\ index = Len(raw)
<1>1. ASSUME Looking
      PROVE  /\ role[index] \in Role \ {"value"} /\ MayBe(role, index)
  BY <1>1, NoValue
<1>2. CASE Positional
  BY <1>1, <1>2 DEF Positional, BooleanFlag, InlineValue, NextValue, BadFlag, MayBe, Known, Role
<1>3. CASE BooleanFlag
  BY <1>1, <1>3 DEF Positional, BooleanFlag, InlineValue, NextValue, BadFlag, MayBe, Known, Role
<1>4. CASE InlineValue
  BY <1>1, <1>4 DEF Positional, BooleanFlag, InlineValue, NextValue, BadFlag, MayBe, Known, Role
<1>5. CASE NextValue
  BY <1>1, <1>5 DEF Positional, BooleanFlag, InlineValue, NextValue, BadFlag, MayBe, Known, Role
<1>6. CASE BadFlag
  BY <1>1, <1>6 DEF Positional, BooleanFlag, InlineValue, NextValue, BadFlag, MayBe, Known, Role
<1> QED
  BY <1>2, <1>3, <1>4, <1>5, <1>6

LEMMA SameFull ==
    ASSUME UNCHANGED <<raw, command>>, NEW role
    PROVE  Full(role)' <=> Full(role)
BY DEF Full, Partial, MayBe, Known, Flag, Inline

\* One argument more has one role only.
LEMMA ReadForced ==
    ASSUME StateOK, Forced, Positional \/ BooleanFlag \/ InlineValue \/ NextValue
    PROVE  Forced'
<1>1. Looking /\ index \in Nat /\ index > 0 /\ index \in 1..Len(raw) /\ UNCHANGED <<raw, command>>
  BY DEF StateOK, Looking, Positional, BooleanFlag, InlineValue, NextValue
<1> SUFFICES ASSUME NEW role, NEW other, Full(role), Full(other)
             PROVE  Agree(role, other, index' - 1) /\ role[index' - 1] # "name"
  BY <1>1, SameFull DEF Forced
<1>2. Agree(role, other, index - 1)
  BY <1>1 DEF Forced, Looking
<1>3. role[index] = other[index]
  BY OneRole
<1>4. CASE Positional \/ BooleanFlag \/ InlineValue
  <2>1. index' - 1 = index
    BY <1>1, <1>4 DEF Positional, BooleanFlag, InlineValue
  <2>2. role[index] # "name"
    BY <1>4, OneRole
  <2>3. Agree(role, other, index)
    BY <1>1, <1>2, <1>3 DEF Agree
  <2> QED
    BY <2>1, <2>2, <2>3
<1>5. CASE NextValue
  <2>1. index' - 1 = index + 1 /\ index + 1 \in 1..Len(raw) /\ index + 1 > 1 /\ index + 1 - 1 = index
    BY <1>1, <1>5 DEF NextValue
  <2>2. role[index] = "name" /\ other[index] = "name"
    BY <1>5, OneRole
  <2>3. role[index + 1] = "value" /\ other[index + 1] = "value"
    <3>1. PICK i \in 1..Len(raw) : i = index + 1
      BY <2>1
    <3>2. i > 1 /\ i - 1 = index
      BY <1>1, <3>1
    <3> QED
      BY <2>2, <3>1, <3>2 DEF Full, Partial
  <2>4. Agree(role, other, index + 1)
    BY <1>1, <1>2, <1>3, <2>3 DEF Agree
  <2> QED
    BY <2>1, <2>3, <2>4
<1> QED
  BY <1>4, <1>5

\* There are as many positional arguments as arguments that play this role.
LEMMA PositionalsCounted ==
    ASSUME StateOK, NEW role, NEW n \in Nat, PositionalsRead(role, n)
    PROVE  Cardinality(Playing(role, n, {"positional"})) = Len(positional)
<1>1. Len(positional) \in Nat
  BY DEF StateOK
<1> DEFINE S == Playing(role, n, {"positional"})
<1>2. PICK at \in [1..Len(positional) -> 1..n] :
         /\ \A k, l \in 1..Len(positional) : k < l => at[k] < at[l]
         /\ {at[k] : k \in 1..Len(positional)} = S
  BY DEF PositionalsRead
<1>3. at \in [1..Len(positional) -> S]
  BY <1>2
<1>4. \A k, l \in 1..Len(positional) : at[k] = at[l] => k = l
  BY <1>1, <1>2
<1>5. \A t \in S : \E k \in 1..Len(positional) : at[k] = t
  BY <1>2
<1> HIDE DEF S
<1>6. at \in Bijection(1..Len(positional), S)
  BY <1>3, <1>4, <1>5 DEF Bijection, Injection, Surjection, IsInjective
<1>7. ExistsBijection(1..Len(positional), S)
  BY <1>6 DEF ExistsBijection
<1> QED
  BY <1>1, <1>7, FS_CountingElements DEF S

Reason(role) ==
    \/ ~Reading(role, Len(raw))
    \/ Cardinality(Playing(role, Len(raw), {"positional"}))
          \notin Command[command].needed .. Command[command].args
    \/ Missing(Command[command].required, strings) # {}
    \/ \E f \in Command[command].numbers : ~Uint(strings[f])

LEMMA SameReason ==
    ASSUME UNCHANGED <<raw, command, invocation>>, NEW role
    PROVE  Reason(role)' <=> Reason(role)
BY DEF invocation, Reason, Reading, MayBe, Known, Flag, Inline, Playing, Missing, Uint

LEMMA BadFlagHasReason ==
    ASSUME StateOK, Forced, BadFlag, NEW role \in [1..Len(raw) -> Role]
    PROVE  Reason(role)
<1> SUFFICES ASSUME Reading(role, Len(raw)) PROVE FALSE
  BY DEF Reason
<1>1. Full(role)
  BY DEF Reading, Full, Partial
<1>2. role[index] = "name" /\ index = Len(raw)
  BY <1>1, OneRole
<1>3. Len(raw) > 0
  BY <1>2 DEF StateOK
<1> QED
  BY <1>2, <1>3 DEF Reading

LEMMA EndHasReason ==
    ASSUME StateOK, Explained, Forced, EndOfArguments, exit' = "usage",
           NEW role \in [1..Len(raw) -> Role]
    PROVE  Reason(role)
<1> SUFFICES ASSUME Reading(role, Len(raw)) PROVE Reason(role)
  BY DEF Reason
<1>1. /\ pc = "parse" /\ Len(raw) \in Nat /\ index - 1 = Len(raw) /\ command \in DOMAIN Command
      /\ Len(positional) \in Nat
  BY DEF EndOfArguments, StateOK
<1>2. PICK read \in [1..Len(raw) -> Role] : Means(read, Len(raw))
  BY <1>1 DEF Explained
<1>3. Full(role) /\ Full(read)
  BY <1>2 DEF Means, Reading, Full, Partial
<1>4. Agree(role, read, Len(raw))
  BY <1>1, <1>3 DEF Forced
<1>5. Playing(role, Len(raw), {"positional"}) = Playing(read, Len(raw), {"positional"})
  BY <1>4 DEF Agree, Playing
<1>6. Cardinality(Playing(role, Len(raw), {"positional"})) = Len(positional)
  BY <1>1, <1>2, <1>5, PositionalsCounted DEF Means
<1>7. \/ Len(positional) > Command[command].args
      \/ Len(positional) < Command[command].needed
      \/ Missing(Command[command].required, strings) # {}
  BY <1>1, TextFacts DEF EndOfArguments, StateOK, Results
<1>8. Command[command].args \in Nat /\ Command[command].needed \in Nat
  BY <1>1, TextFacts DEF CommandSpec
<1> QED
  BY <1>1, <1>6, <1>7, <1>8 DEF Reason

LEMMA NextHasReason ==
    ASSUME StateOK, Explained, Forced, RefusedForReason, [Next]_vars
    PROVE  Forced' /\ RefusedForReason'
<1>1. CASE Positional \/ BooleanFlag \/ InlineValue \/ NextValue
  <2>1. exit' # "usage"
    BY <1>1, TextFacts
       DEF Positional, BooleanFlag, InlineValue, NextValue, Looking, StateOK
  <2> QED
    BY <1>1, <2>1, ReadForced DEF RefusedForReason
<1>2. CASE StartParse
  <2>1. exit' # "usage" /\ index' = 1
    BY <1>2, TextFacts DEF StartParse, StateOK
  <2> QED
    BY <2>1 DEF Forced, Agree, RefusedForReason
<1>3. CASE ShowTop \/ NoCommand \/ CommandHelp
  <2>1. pc' = "done" /\ (exit' = "usage" => command' = None)
    BY <1>3 DEF ShowTop, NoCommand, CommandHelp, Exit, StateOK
  <2> QED
    BY <2>1 DEF Forced, RefusedForReason
<1>4. CASE BadFlag
  <2>1. pc' = "done" /\ UNCHANGED <<raw, command, invocation>>
    BY <1>4 DEF BadFlag, Exit
  <2>2. \A role \in [1..Len(raw') -> Role] : Reason(role)'
    BY <1>4, <2>1, BadFlagHasReason, SameReason
  <2> QED
    BY <2>1, <2>2 DEF Forced, RefusedForReason, Reason
<1>5. CASE EndOfArguments
  <2>1. UNCHANGED <<raw, command, index, invocation>> /\ pc = "parse"
    BY <1>5 DEF EndOfArguments
  <2>2. Forced'
    <3>1. \A role : Full(role)' <=> Full(role)
      BY <2>1, SameFull
    <3> QED
      BY <2>1, <3>1 DEF Forced, Agree
  <2>3. ASSUME exit' = "usage", NEW role \in [1..Len(raw') -> Role] PROVE Reason(role)'
    BY <1>5, <2>1, <2>3, EndHasReason, SameReason
  <2> QED
    BY <2>2, <2>3 DEF RefusedForReason, Reason
<1>6. CASE Run
  <2>1. /\ pc' = "done" /\ UNCHANGED <<raw, command, invocation>>
        /\ exit' = "usage" => \E f \in Command[command].numbers : ~Uint(strings[f])
    BY <1>6 DEF Run, Exit
  <2>2. ASSUME exit' = "usage", NEW role \in [1..Len(raw') -> Role] PROVE Reason(role)'
    BY <2>1, <2>2, SameReason DEF Reason
  <2> QED
    BY <2>1, <2>2 DEF Forced, RefusedForReason, Reason
<1>7. CASE UNCHANGED vars
  <2>1. UNCHANGED <<pc, raw, command, index, invocation, exit>>
    BY <1>7 DEF vars
  <2>2. \A role : (Full(role)' <=> Full(role)) /\ (Reason(role)' <=> Reason(role))
    BY <2>1, SameFull, SameReason
  <2>3. Forced'
    BY <2>1, <2>2 DEF Forced, Agree
  <2>4. RefusedForReason'
    BY <2>1, <2>2 DEF RefusedForReason, Reason
  <2> QED
    BY <2>3, <2>4
<1> QED
  BY <1>1, <1>2, <1>3, <1>4, <1>5, <1>6, <1>7 DEF Next

\* A command line is refused only if it has no meaning, has too many or too few
\* arguments, lacks a required flag or has a number that is none.
THEOREM RefusalHasReason == Parsing => []RefusedForReason
<1> DEFINE IInv == StateOK /\ Explained /\ Forced /\ RefusedForReason
<1>1. Init => IInv
  BY InitOK, TextFacts DEF Init, Forced, RefusedForReason
<1>2. IInv /\ [Next]_vars => IInv'
  BY NextExplained, NextHasReason
<1>3. IInv => RefusedForReason
  OBVIOUS
<1> QED
  BY <1>1, <1>2, <1>3, PTL DEF Parsing

-----------------------------------------------------------------------------
(***************************************************************************)
(* The account that the daemon layer reads by itself.                      *)
(***************************************************************************)
LEMMA FirstNamed ==
    ASSUME NEW args \in Seq(Text), NEW name
    PROVE  LET found == Named(args, name)
               first == CHOOSE i \in found : \A j \in found : i <= j
           IN  found # {} => first \in found
<1> DEFINE found == Named(args, name)
           less == OpToRel(<, Nat)
<1> SUFFICES ASSUME found # {}
             PROVE  \E i \in found : \A j \in found : i <= j
  OBVIOUS
<1>1. IsWellFoundedOn(less, Nat)
  BY NatLessThanWellFounded
<1>2. \A x, y \in Nat : x < y => <<x, y>> \in less
  BY DEF OpToRel
<1> HIDE DEF less
<1>3. found \subseteq Nat
  BY DEF Named
<1> HIDE DEF found
<1>4. PICK i \in found : \A j \in found : ~(<<j, i>> \in less)
  BY <1>1, <1>3, WFMin
<1>5. ASSUME NEW j \in found
      PROVE  i <= j
  <2>1. i \in Nat /\ j \in Nat /\ ~(j < i)
    BY <1>2, <1>3, <1>4
  <2> QED
    BY <2>1
<1> QED
  BY <1>5

LEMMA AccountType ==
    ASSUME NEW args \in Seq(Text)
    PROVE  accountFromArgs(args) \in Text \cup {None}
<1> DEFINE found == Named(args, Account)
           first == CHOOSE i \in found : \A j \in found : i <= j
<1>1. found # {} => first \in found
  BY FirstNamed
<1>2. found \subseteq 1..Len(args)
  BY DEF Named
<1>3. accountFromArgs(args) = IF found = {} THEN None
                              ELSE IF InlineOf[args[first]] # None THEN InlineOf[args[first]]
                              ELSE IF first = Len(args) THEN None
                              ELSE args[first + 1]
  BY DEF accountFromArgs
<1> HIDE DEF found, first
<1>4. CASE found # {}
  <2>0. first \in 1..Len(args)
    BY <1>1, <1>2, <1>4
  <2>1. args[first] \in Text
    BY <2>0
  <2>2. first # Len(args) => args[first + 1] \in Text
    <3> SUFFICES ASSUME first # Len(args)
                 PROVE  args[first + 1] \in Text
      OBVIOUS
    <3>1. first + 1 \in 1..Len(args)
      BY <2>0
    <3> QED
      BY <3>1
  <2> QED
    BY <1>3, <1>4, <2>1, <2>2, TextFacts
<1> QED
  BY <1>3, <1>4

\* What the daemon layer has read for the command that is run.
Heard ==
    /\ argv \in Argv /\ hint \in Text \cup {None}
    /\ exit = "ran" /\ command \in Served => hint = accountFromArgs(raw)

LEMMA NextHeard ==
    ASSUME StateOK, Heard, [Next]_vars
    PROVE  Heard'
<1>1. CASE Run
  <2>1. UNCHANGED <<argv, command, raw>>
    BY <1>1 DEF Run
  <2>2. hint' = IF command \in Served THEN accountFromArgs(raw) ELSE None
    BY <1>1 DEF Run
  <2>3. accountFromArgs(raw)' = accountFromArgs(raw)
    BY <2>1 DEF accountFromArgs, Named
  <2>4. accountFromArgs(raw) \in Text \cup {None}
    BY AccountType DEF StateOK
  <2> QED
    BY <2>1, <2>2, <2>3, <2>4 DEF Heard
<1>2. CASE UNCHANGED vars
  BY <1>2 DEF vars, Heard, accountFromArgs, Named
<1>3. ASSUME Next, ~Run
      PROVE  UNCHANGED <<argv, hint>> /\ exit' # "ran"
  <2>1. CASE ShowTop \/ NoCommand \/ CommandHelp \/ StartParse
    BY <2>1, TextFacts DEF ShowTop, NoCommand, CommandHelp, StartParse, Exit, StateOK
  <2>2. CASE Positional \/ BadFlag \/ BooleanFlag
    BY <2>2, TextFacts DEF Positional, BadFlag, BooleanFlag, Looking, Exit, StateOK
  <2>3. CASE InlineValue \/ NextValue \/ EndOfArguments
    BY <2>3, TextFacts DEF InlineValue, NextValue, EndOfArguments, Looking, Exit, StateOK
  <2> QED
    BY <1>3, <2>1, <2>2, <2>3 DEF Next
<1> QED
  BY <1>1, <1>2, <1>3 DEF Heard

\* If one argument names the flag, as a flag, both have read its value.
LEMMA HeardAgrees ==
    ASSUME StateOK, Explained, Heard
    PROVE  AccountsAgree
<1> SUFFICES ASSUME pc = "done", command \in Served, exit = "ran",
                    ~(Cardinality(Named(raw, Account)) > 1),
                    Named(raw, Account) # {} => strings[Account] # None
             PROVE  hint = strings[Account]
  BY DEF AccountsAgree
<1> DEFINE found == Named(raw, Account)
           n == Len(raw)
<1>1. PICK role \in [1..n -> Role] : Means(role, n)
  <2>1. index - 1 = n
    BY DEF Explained, StateOK
  <2> QED
    BY <2>1 DEF Explained
<1>2. Account \in Text /\ Command[command].defaults[Account] = None
  BY ConstantsOK DEF ConstantsOK, StateOK, CommandSpec
<1>3. hint = accountFromArgs(raw)
  BY DEF Heard
<1> DEFINE given == {i \in Playing(role, n, {"setting", "name"}) : Flag(i) = Account}
<1>4. /\ given = {} => strings[Account] = None
      /\ given # {} => \E i \in given : strings[Account] = ValueAt(role, i)
  BY <1>1, <1>2 DEF Means, StringsRead
<1>5. given \subseteq found /\ found \subseteq 1..n /\ n \in Nat
  BY DEF StateOK, Playing, Named, Flag
<1>6. CASE found = {}
  BY <1>3, <1>4, <1>5, <1>6 DEF accountFromArgs
<1>7. CASE found # {}
  <2>1. PICK i \in given : strings[Account] = ValueAt(role, i)
    BY <1>4, <1>7
  <2>2. found = {i}
    <3>1. IsFiniteSet(1..n)
      BY <1>5, FS_Interval
    <3>2. IsFiniteSet(found) /\ Cardinality(found) \in Nat
      BY <1>5, <3>1, FS_Subset, FS_CardinalityType
    <3>3. Cardinality(found) <= 1
      BY <3>2
    <3>4. \A j \in found : j = i
      <4> SUFFICES ASSUME NEW j \in found, j # i
                   PROVE  FALSE
        OBVIOUS
      <4>1. IsFiniteSet({i}) /\ Cardinality({i}) = 1 /\ j \notin {i}
        BY FS_Singleton
      <4>2. Cardinality({i} \cup {j}) = Cardinality({i}) + 1
        BY <4>1, FS_AddElement
      <4>3. {i} \cup {j} \in SUBSET found
        BY <1>5, <2>1
      <4>4. Cardinality({i} \cup {j}) <= Cardinality(found)
        BY <3>2, <4>3, FS_Subset
      <4> QED
        BY <3>2, <3>3, <4>1, <4>2, <4>4
    <3> QED
      BY <1>5, <2>1, <3>4
  <2>3. i \in 1..n /\ role[i] \in {"setting", "name"}
    BY <2>1 DEF Playing
  <2>4. (CHOOSE k \in found : \A j \in found : k <= j) = i
    BY <2>2, <2>3
  <2>5. accountFromArgs(raw) = IF InlineOf[raw[i]] # None THEN InlineOf[raw[i]]
                               ELSE IF i = n THEN None ELSE raw[i + 1]
    <3> DEFINE first == CHOOSE k \in found : \A j \in found : k <= j
    <3>1. accountFromArgs(raw) = IF found = {} THEN None
                                 ELSE IF InlineOf[raw[first]] # None THEN InlineOf[raw[first]]
                                 ELSE IF first = n THEN None ELSE raw[first + 1]
      BY DEF accountFromArgs
    <3>2. first = i
      BY <2>4
    <3> HIDE DEF first, found
    <3> QED
      BY <1>7, <3>1, <3>2
  <2>6. CASE role[i] = "setting"
    <3>1. Inline(i)
      BY <1>1, <2>3, <2>6 DEF Means, Reading, MayBe
    <3> QED
      BY <1>3, <2>1, <2>5, <2>6, <3>1 DEF Inline, ValueAt
  <2>7. CASE role[i] = "name"
    <3>1. ~Inline(i)
      BY <1>1, <2>3, <2>7 DEF Means, Reading, MayBe
    <3>2. i # n
      BY <1>1, <2>3, <2>7 DEF Means, Reading
    <3> QED
      BY <1>3, <2>1, <2>5, <2>7, <3>1, <3>2 DEF Inline, ValueAt
  <2> QED
    BY <2>3, <2>6, <2>7
<1> QED
  BY <1>6, <1>7

\* Every variable has its type.
THEOREM TypeCorrect == Parsing => []TypeOK
<1> DEFINE IInv == StateOK /\ Explained /\ Heard
<1>1. Init => IInv
  BY InitOK, TextFacts DEF Init, Heard
<1>2. IInv /\ [Next]_vars => IInv'
  BY NextExplained, NextHeard
<1>3. IInv => TypeOK
  BY TextFacts DEF StateOK, Heard, TypeOK
<1> QED
  BY <1>1, <1>2, <1>3, PTL DEF Parsing

\* The daemon layer finds the account that the parser finds.
THEOREM AccountFound == Parsing => []AccountsAgree
<1> DEFINE IInv == StateOK /\ Explained /\ Heard
<1>1. Init => IInv
  BY InitOK, TextFacts DEF Init, Heard
<1>2. IInv /\ [Next]_vars => IInv'
  BY NextExplained, NextHeard
<1>3. IInv => AccountsAgree
  BY HeardAgrees
<1> QED
  BY <1>1, <1>2, <1>3, PTL DEF Parsing

=============================================================================

---------------------------- MODULE HooksProofs -----------------------------
(***************************************************************************)
(* Proofs about Hooks, for any processes, commands, order of the files and *)
(* contents: what setup does to each kind of file (Repaired, Added,        *)
(* Enabled, EnabledEmbeds), and what races, crashes, full disks, failing   *)
(* reads and the owners of the files leave of it.                          *)
(***************************************************************************)
EXTENDS Hooks, SequenceTheorems, FiniteSetTheorems, WellFoundedInduction, TLAPS

\* A set of numbers that is not empty has a least member.
LEMMA LowestIs ==
    ASSUME NEW indices, indices \subseteq Nat, indices # {}
    PROVE  Lowest(indices) \in indices /\ \A j \in indices : Lowest(indices) <= j
<1> DEFINE less == OpToRel(<, Nat)
<1>1. IsWellFoundedOn(less, Nat)
  BY NatLessThanWellFounded
<1>2. \A x, y \in Nat : x < y => <<x, y>> \in less
  BY DEF OpToRel
<1> HIDE DEF less
<1>3. PICK i \in indices : \A j \in indices : ~(<<j, i>> \in less)
  BY <1>1, WFMin
<1>4. ASSUME NEW j \in indices
      PROVE  i <= j
  <2>1. i \in Nat /\ j \in Nat /\ ~(j < i)
    BY <1>2, <1>3
  <2> QED
    BY <2>1
<1> QED
  BY <1>4 DEF Lowest

\* There is only one.
LEMMA LowestIsOnly ==
    ASSUME NEW indices, indices \subseteq Nat,
           NEW i \in indices, \A j \in indices : i <= j
    PROVE  Lowest(indices) = i
<1>1. \A l \in indices : (\A j \in indices : l <= j) => l = i
  OBVIOUS
<1> QED
  BY <1>1 DEF Lowest

\* The last header up to i, where no other follows, is that of i's section.
LEMMA SectionIs ==
    ASSUME NEW lines, NEW i \in Nat, NEW start \in 1..i, IsHeader(lines[start]),
           \A j \in (start + 1)..i : ~IsHeader(lines[j])
    PROVE  SectionOf(lines, i) = start
<1>1. start \in Headers(lines, i) /\ \A k \in Headers(lines, i) : k \in Nat /\ k <= start
  BY DEF Headers
<1>2. \A j \in Headers(lines, i) : (\A k \in Headers(lines, i) : k <= j) => j = start
  BY <1>1
<1> QED
  BY <1>1, <1>2 DEF SectionOf

\* What InsertAt makes of a sequence.
LEMMA Inserted ==
    ASSUME NEW S, NEW s \in Seq(S), NEW e \in S, NEW n \in 1 .. Len(s) + 1
    PROVE  /\ InsertAt(s, n, e) \in Seq(S) /\ Len(InsertAt(s, n, e)) = Len(s) + 1
           /\ InsertAt(s, n, e)[n] = e
           /\ \A i \in 1..(n - 1) : InsertAt(s, n, e)[i] = s[i]
           /\ \A i \in n..Len(s) : InsertAt(s, n, e)[i + 1] = s[i]
<1> DEFINE front == SubSeq(s, 1, n - 1)
           back == SubSeq(s, n, Len(s))
<1>1. front \in Seq(S) /\ Len(front) = n - 1 /\ \A i \in 1..(n - 1) : front[i] = s[i]
  BY SubSeqProperties
<1>2. back \in Seq(S) /\ Len(back) = Len(s) - n + 1 /\ \A i \in 1..(Len(s) - n + 1) : back[i] = s[n + i - 1]
  BY SubSeqProperties
<1>3. <<e>> \in Seq(S) /\ Len(<<e>>) = 1 /\ <<e>>[1] = e
  OBVIOUS
<1> HIDE DEF front, back
<1> DEFINE half == front \o <<e>>
<1>4. /\ half \in Seq(S) /\ Len(half) = n /\ half[n] = e
      /\ \A i \in 1..(n - 1) : half[i] = s[i]
  <2>1. half \in Seq(S) /\ Len(half) = n
    BY <1>1, <1>3, ConcatProperties
  <2>2. \A i \in 1..n : half[i] = IF i <= n - 1 THEN front[i] ELSE <<e>>[i - (n - 1)]
    BY <1>1, <1>3, ConcatProperties
  <2> QED
    BY <1>1, <1>3, <2>1, <2>2
<1> HIDE DEF half
<1>5. /\ half \o back \in Seq(S) /\ Len(half \o back) = Len(s) + 1
      /\ \A i \in 1..n : (half \o back)[i] = half[i]
      /\ \A i \in (n + 1)..(Len(s) + 1) : (half \o back)[i] = back[i - n]
  BY <1>2, <1>4, ConcatProperties
<1>6. InsertAt(s, n, e) = half \o back
  BY DEF InsertAt, half, front, back
<1>7. \A i \in n..Len(s) : (half \o back)[i + 1] = s[i]
  BY <1>2, <1>5
<1> QED
  BY <1>4, <1>5, <1>6, <1>7

-----------------------------------------------------------------------------
(***************************************************************************)
(* The entry of a settings file: the entries of others stay at their       *)
(* places, ours is there afterwards, and a second time changes nothing if  *)
(* the command contains the marker.                                        *)
(***************************************************************************)
LEMMA CommandFacts == portableCommand \subseteq Hook /\ Hook \subseteq Plugin /\ None \notin Hook
BY ConstantsOK DEF ConstantsOK, portableCommand, Plugin

LEMMA EntryFacts ==
    ASSUME NEW c \in Hook
    PROVE  Wanted(c) \in Entry /\ Wanted(c).command = c
BY DEF Wanted, Entry

\* The entries of old that are not ours are in new, at their places.
ForeignKept(old, new) == \A i \in Foreign(old) : i \in DOMAIN new /\ new[i] = old[i]

\* The length that a file may have once it has an entry of ours.
Room(entries) == Len(entries) + (IF OursIn(entries) = {} THEN 1 ELSE 0)

LEMMA RoomIs ==
    ASSUME NEW entries \in Seq(Entry)
    PROVE  /\ Len(entries) \in Nat
           /\ OursIn(entries) = {} => Room(entries) = Len(entries) + 1
           /\ OursIn(entries) # {} => Room(entries) = Len(entries)
<1>1. Len(entries) \in Nat
  OBVIOUS
<1> QED
  BY <1>1 DEF Room

\* By how much setup may go beyond it.
Excess(c) == IF c \in Managed THEN 0 ELSE 1

LEMMA Repaired ==
    ASSUME NEW entries \in Seq(Entry), NEW c \in Hook, OursIn(entries) # {}
    PROVE  LET new == applySessionStartHook(entries, c)
           IN  /\ new \in Seq(Entry) /\ Wanted(c) \in ToSet(new)
               /\ ForeignKept(entries, new) /\ Room(new) <= Room(entries) + Excess(c)
               /\ c \in Managed => applySessionStartHook(new, c) = new
<1> DEFINE own == Lowest(OursIn(entries))
           new == [entries EXCEPT ![own] = Wanted(c)]
<1>1. OursIn(entries) \subseteq Nat /\ OursIn(entries) \subseteq DOMAIN entries
  BY DEF OursIn
<1>2. own \in DOMAIN entries /\ entries[own].command \in Managed
  BY <1>1, LowestIs DEF OursIn
<1>3. /\ new \in Seq(Entry) /\ Len(new) = Len(entries) /\ new[own] = Wanted(c)
      /\ DOMAIN new = DOMAIN entries
      /\ \A i \in DOMAIN entries : i # own => new[i] = entries[i]
  BY <1>2, EntryFacts
<1>4. applySessionStartHook(entries, c) = new
  BY DEF applySessionStartHook, OursIn
<1> HIDE DEF own, new
<1>5. ForeignKept(entries, new)
  BY <1>2, <1>3 DEF ForeignKept, Foreign
<1>6. ASSUME c \in Managed
      PROVE  OursIn(new) = OursIn(entries) /\ applySessionStartHook(new, c) = new
  <2>1. \A i \in DOMAIN entries : new[i].command \in Managed <=> entries[i].command \in Managed
    BY <1>2, <1>3, <1>6, EntryFacts
  <2>2. OursIn(new) = OursIn(entries)
    BY <1>3, <2>1 DEF OursIn
  <2>3. applySessionStartHook(new, c) = [new EXCEPT ![own] = Wanted(c)]
    BY <2>2 DEF applySessionStartHook, OursIn, own
  <2>4. [new EXCEPT ![own] = Wanted(c)] = new
    BY <1>2, <1>3
  <2> QED
    BY <2>2, <2>3, <2>4
<1>7. Room(new) <= Room(entries) + Excess(c)
  <2>1. Len(entries) \in Nat /\ Len(new) = Len(entries) /\ Room(entries) = Len(entries)
    BY <1>3, RoomIs
  <2>2. CASE c \in Managed
    BY <1>3, <1>6, <2>1, <2>2, RoomIs DEF Excess
  <2>3. CASE c \notin Managed
    BY <1>3, <2>1, <2>3, RoomIs DEF Excess
  <2> QED
    BY <2>2, <2>3
<1>8. Wanted(c) \in ToSet(new)
  BY <1>2, <1>3 DEF ToSet
<1> QED
  BY <1>3, <1>4, <1>5, <1>6, <1>7, <1>8

LEMMA Added ==
    ASSUME NEW entries \in Seq(Entry), NEW c \in Hook, OursIn(entries) = {}
    PROVE  LET new == applySessionStartHook(entries, c)
           IN  /\ new \in Seq(Entry) /\ Wanted(c) \in ToSet(new)
               /\ ForeignKept(entries, new) /\ Room(new) <= Room(entries) + Excess(c)
               /\ c \in Managed => applySessionStartHook(new, c) = new
<1> DEFINE last == Len(entries) + 1
           new == Append(entries, Wanted(c))
<1>1. /\ new \in Seq(Entry) /\ Len(new) = last /\ new[last] = Wanted(c)
      /\ \A i \in 1..Len(entries) : new[i] = entries[i]
  BY EntryFacts, AppendProperties
<1>2. applySessionStartHook(entries, c) = new
  BY DEF applySessionStartHook, OursIn
<1> HIDE DEF new
<1>3. ForeignKept(entries, new)
  BY <1>1 DEF ForeignKept, Foreign
<1>4. ASSUME c \in Managed
      PROVE  OursIn(new) = {last} /\ applySessionStartHook(new, c) = new
  <2>1. OursIn(new) = {last}
    BY <1>1, <1>4, EntryFacts DEF OursIn
  <2>2. Lowest({last}) = last
    <3>1. last \in Nat /\ {last} \subseteq Nat /\ last \in {last} /\ \A j \in {last} : last <= j
      OBVIOUS
    <3> HIDE DEF last
    <3> QED
      BY <3>1, LowestIsOnly
  <2>3. applySessionStartHook(new, c) = [new EXCEPT ![last] = Wanted(c)]
    BY <2>1, <2>2 DEF applySessionStartHook, OursIn
  <2>4. [new EXCEPT ![last] = Wanted(c)] = new
    BY <1>1
  <2> QED
    BY <2>1, <2>3, <2>4
<1>5. Room(new) <= Room(entries) + Excess(c)
  <2>1. Len(entries) \in Nat /\ Len(new) = Len(entries) + 1 /\ Room(entries) = Len(entries) + 1
    BY <1>1, RoomIs
  <2>2. CASE c \in Managed
    <3>1. OursIn(new) # {}
      BY <1>4, <2>2
    <3> QED
      BY <1>1, <2>1, <2>2, <3>1, RoomIs DEF Excess
  <2>3. CASE c \notin Managed
    BY <1>1, <2>1, <2>3, RoomIs DEF Excess
  <2> QED
    BY <2>2, <2>3
<1>6. Wanted(c) \in ToSet(new)
  BY <1>1 DEF ToSet
<1> QED
  BY <1>1, <1>2, <1>3, <1>4, <1>5, <1>6

-----------------------------------------------------------------------------
(***************************************************************************)
(* The key of the Codex config: it is set afterwards, and a second time    *)
(* changes nothing.                                                        *)
(***************************************************************************)
Starts(lines) == {i \in DOMAIN lines : lines[i] = "[features]"}

Later(lines, s) == {i \in DOMAIN lines : i > s /\ IsHeader(lines[i])}

End(lines, s) == IF Later(lines, s) = {} THEN Len(lines) + 1 ELSE Lowest(Later(lines, s))

Flags(lines, s) == {i \in DOMAIN lines : s < i /\ i < End(lines, s) /\ IsFlag(lines[i])}

\* The first section [features] begins at s and its first key hooks is at f.
FlagAt(lines, s, f) ==
    /\ s \in DOMAIN lines /\ f \in DOMAIN lines /\ s < f
    /\ lines[s] = "[features]" /\ \A i \in 1..(s - 1) : lines[i] # "[features]"
    /\ \A i \in (s + 1)..f : ~IsHeader(lines[i])
    /\ \A i \in (s + 1)..(f - 1) : ~IsFlag(lines[i])
    /\ IsFlag(lines[f])

LEMMA EndIs ==
    ASSUME NEW lines \in Seq(Line), NEW s \in DOMAIN lines
    PROVE  /\ End(lines, s) \in (s + 1) .. (Len(lines) + 1)
           /\ \A i \in (s + 1)..(End(lines, s) - 1) : ~IsHeader(lines[i])
           /\ End(lines, s) \in DOMAIN lines => IsHeader(lines[End(lines, s)])
<1>1. CASE Later(lines, s) = {}
  BY <1>1 DEF End, Later
<1>2. CASE Later(lines, s) # {}
  <2>1. Later(lines, s) \subseteq Nat /\ End(lines, s) = Lowest(Later(lines, s))
    BY <1>2 DEF End, Later
  <2>2. /\ End(lines, s) \in Later(lines, s)
        /\ \A j \in Later(lines, s) : End(lines, s) <= j
    BY <1>2, <2>1, LowestIs
  <2> QED
    BY <2>2 DEF Later
<1> QED
  BY <1>1, <1>2

LEMMA FirstStart ==
    ASSUME NEW lines \in Seq(Line), Starts(lines) # {}
    PROVE  /\ Lowest(Starts(lines)) \in DOMAIN lines
           /\ lines[Lowest(Starts(lines))] = "[features]"
           /\ \A i \in 1..(Lowest(Starts(lines)) - 1) : lines[i] # "[features]"
<1> DEFINE s == Lowest(Starts(lines))
<1>1. Starts(lines) \subseteq Nat
  BY DEF Starts
<1>2. s \in Starts(lines) /\ \A j \in Starts(lines) : s <= j
  BY <1>1, LowestIs
<1> HIDE DEF s
<1>3. s \in DOMAIN lines /\ lines[s] = "[features]"
  BY <1>2 DEF Starts
<1>4. \A i \in 1..(s - 1) : lines[i] # "[features]"
  BY <1>2, <1>3 DEF Starts
<1> QED
  BY <1>3, <1>4 DEF s

\* Where the first key is determines what codexHooksEnabled finds.
LEMMA FlagFound ==
    ASSUME NEW lines \in Seq(Line), NEW s, NEW f, FlagAt(lines, s, f)
    PROVE  /\ Starts(lines) # {} /\ Lowest(Starts(lines)) = s
           /\ Flags(lines, s) # {} /\ Lowest(Flags(lines, s)) = f
           /\ SectionOf(lines, f) = s
<1>1. Starts(lines) \subseteq Nat /\ Flags(lines, s) \subseteq Nat
  BY DEF Starts, Flags
<1>2. s \in Starts(lines) /\ \A j \in Starts(lines) : s <= j
  BY DEF FlagAt, Starts
<1>3. Lowest(Starts(lines)) = s
  BY <1>1, <1>2, LowestIsOnly
<1>4. f < End(lines, s)
  <2>1. /\ End(lines, s) \in (s + 1) .. (Len(lines) + 1)
        /\ End(lines, s) \in DOMAIN lines => IsHeader(lines[End(lines, s)])
    BY EndIs DEF FlagAt
  <2> QED
    BY <2>1 DEF FlagAt
<1>5. f \in Flags(lines, s) /\ \A j \in Flags(lines, s) : f <= j
  BY <1>4 DEF FlagAt, Flags
<1>6. Lowest(Flags(lines, s)) = f
  BY <1>1, <1>5, LowestIsOnly
<1>7. SectionOf(lines, f) = s
  BY SectionIs DEF FlagAt, IsHeader
<1> QED
  BY <1>2, <1>3, <1>5, <1>6, <1>7

\* codexHooksEnabled in these terms.
LEMMA EnabledCases ==
    ASSUME NEW lines
    PROVE  codexHooksEnabled(lines) =
              LET start == Lowest(Starts(lines))
              IN  IF \A i \in DOMAIN lines : lines[i] = "blank" THEN <<"[features]", "on">>
                  ELSE IF Starts(lines) = {} THEN lines \o <<"blank", "[features]", "on">>
                  ELSE IF Flags(lines, start) = {} THEN InsertAt(lines, End(lines, start), "on")
                  ELSE [lines EXCEPT ![Lowest(Flags(lines, start))] = "on"]
BY DEF codexHooksEnabled, Starts, Flags, Later, End

\* A config that has the key on is left as it is.
LEMMA OnStays ==
    ASSUME NEW lines \in Seq(Line), NEW s, NEW f, FlagAt(lines, s, f), lines[f] = "on"
    PROVE  HooksOn(lines) /\ codexHooksEnabled(lines) = lines
<1>1. HooksOn(lines)
  BY FlagFound DEF FlagAt, HooksOn, InFeatures
<1>2. ~\A i \in DOMAIN lines : lines[i] = "blank"
  BY DEF FlagAt
<1> DEFINE start == Lowest(Starts(lines))
<1>3. start = s /\ Starts(lines) # {} /\ Flags(lines, start) # {} /\ Lowest(Flags(lines, start)) = f
  BY FlagFound
<1>4. codexHooksEnabled(lines) = [lines EXCEPT ![Lowest(Flags(lines, start))] = "on"]
  BY <1>2, <1>3, EnabledCases
<1>5. codexHooksEnabled(lines) = [lines EXCEPT ![f] = "on"]
  BY <1>3, <1>4
<1> QED
  BY <1>1, <1>5 DEF FlagAt

\* The four things that codexHooksEnabled may do, each of which leaves the
\* key of the first section [features] on.
LEMMA Enabled ==
    ASSUME NEW lines \in Seq(Line)
    PROVE  LET new == codexHooksEnabled(lines)
           IN  /\ new \in Seq(Line)
               /\ \E s, f : FlagAt(new, s, f) /\ new[f] = "on"
<1> DEFINE new == codexHooksEnabled(lines)
           start == Lowest(Starts(lines))
           end == End(lines, start)
<1>0. {"blank", "[features]", "on"} \subseteq Line
  BY DEF Line
<1>1. CASE \A i \in DOMAIN lines : lines[i] = "blank"
  <2>1. new = <<"[features]", "on">>
    BY <1>1 DEF codexHooksEnabled
  <2>2. new \in Seq(Line) /\ FlagAt(new, 1, 2)
    BY <1>0, <2>1 DEF FlagAt, IsHeader, IsFlag
  <2> QED
    BY <2>1, <2>2
<1>2. CASE (\E i \in DOMAIN lines : lines[i] # "blank") /\ Starts(lines) = {}
  <2> DEFINE more == <<"blank", "[features]", "on">>
             len == Len(lines)
  <2>1. new = lines \o more
    BY <1>2, EnabledCases
  <2>2. /\ more \in Seq(Line) /\ Len(more) = 3
        /\ more[1] = "blank" /\ more[2] = "[features]" /\ more[3] = "on"
    BY <1>0
  <2> HIDE DEF new, more, len
  <2>3. /\ new \in Seq(Line) /\ Len(new) = len + 3
        /\ \A i \in 1..(len + 3) : new[i] = IF i <= len THEN lines[i] ELSE more[i - len]
    <3>1. /\ lines \o more \in Seq(Line) /\ Len(lines \o more) = Len(lines) + Len(more)
          /\ \A i \in 1..(Len(lines) + Len(more)) :
                (lines \o more)[i] = IF i <= Len(lines) THEN lines[i] ELSE more[i - Len(lines)]
      BY <2>2, ConcatProperties
    <3> QED
      BY <2>1, <2>2, <3>1 DEF len
  <2>4. len \in Nat /\ \A i \in 1..len : lines[i] # "[features]"
    BY <1>2 DEF Starts, len
  <2>5. new[len + 1] = "blank" /\ new[len + 2] = "[features]" /\ new[len + 3] = "on"
    BY <2>2, <2>3, <2>4
  <2>6. FlagAt(new, len + 2, len + 3)
    BY <2>3, <2>4, <2>5 DEF FlagAt, IsHeader, IsFlag
  <2> QED
    BY <2>3, <2>5, <2>6 DEF new
<1>3. CASE Starts(lines) # {} /\ Flags(lines, start) = {}
  <2>1. new = InsertAt(lines, end, "on")
    BY <1>3, EnabledCases DEF Starts
  <2>2. /\ start \in DOMAIN lines /\ lines[start] = "[features]"
        /\ \A i \in 1..(start - 1) : lines[i] # "[features]"
    BY <1>3, FirstStart
  <2> HIDE DEF new, start
  <2>3. /\ end \in (start + 1) .. (Len(lines) + 1)
        /\ \A i \in (start + 1)..(end - 1) : ~IsHeader(lines[i])
    BY <2>2, EndIs
  <2>4. \A i \in (start + 1)..(end - 1) : ~IsFlag(lines[i])
    BY <1>3, <2>2, <2>3 DEF Flags
  <2> HIDE DEF end
  <2>5. /\ new \in Seq(Line) /\ Len(new) = Len(lines) + 1 /\ new[end] = "on"
        /\ \A i \in 1..(end - 1) : new[i] = lines[i]
    BY <1>0, <2>1, <2>2, <2>3, Inserted
  <2>6. FlagAt(new, start, end)
    BY <2>2, <2>3, <2>4, <2>5 DEF FlagAt, IsHeader, IsFlag
  <2> QED
    BY <2>5, <2>6 DEF new
<1>4. CASE Starts(lines) # {} /\ Flags(lines, start) # {}
  <2> DEFINE flag == Lowest(Flags(lines, start))
  <2>1. ~\A i \in DOMAIN lines : lines[i] = "blank"
    BY <1>4 DEF Starts
  <2>2. new = [lines EXCEPT ![flag] = "on"]
    BY <1>4, <2>1, EnabledCases
  <2>3. /\ start \in DOMAIN lines /\ lines[start] = "[features]"
        /\ \A i \in 1..(start - 1) : lines[i] # "[features]"
    BY <1>4, FirstStart
  <2>4. flag \in Flags(lines, start) /\ \A j \in Flags(lines, start) : flag <= j
    <3>1. Flags(lines, start) \subseteq Nat
      BY DEF Flags
    <3> QED
      BY <1>4, <3>1, LowestIs
  <2> HIDE DEF new, start, flag
  <2>5. /\ end \in (start + 1) .. (Len(lines) + 1)
        /\ \A i \in (start + 1)..(end - 1) : ~IsHeader(lines[i])
    BY <2>3, EndIs
  <2>6. flag \in (start + 1)..(end - 1) /\ flag \in DOMAIN lines
    BY <2>3, <2>4, <2>5 DEF Flags
  <2>7. \A i \in (start + 1)..(flag - 1) : ~IsFlag(lines[i])
    <3> SUFFICES ASSUME NEW i \in (start + 1)..(flag - 1), IsFlag(lines[i])
                 PROVE  FALSE
      OBVIOUS
    <3>1. i \in Flags(lines, start)
      BY <2>3, <2>5, <2>6 DEF Flags, end
    <3> QED
      BY <2>3, <2>4, <2>6, <3>1
  <2>8. /\ new \in Seq(Line) /\ DOMAIN new = DOMAIN lines /\ new[flag] = "on"
        /\ \A i \in DOMAIN lines : i # flag => new[i] = lines[i]
    BY <1>0, <2>2, <2>6
  <2> HIDE DEF end
  <2>9. FlagAt(new, start, flag)
    BY <2>3, <2>5, <2>6, <2>7, <2>8 DEF FlagAt, IsHeader, IsFlag
  <2> QED
    BY <2>8, <2>9 DEF new
<1> QED
  BY <1>1, <1>2, <1>3, <1>4 DEF Starts

-----------------------------------------------------------------------------
\* What setup writes: a content that is its own, and that a second setup leaves
\* as it is.
LEMMA UpdatedIs ==
    ASSUME NEW t \in Targets, NEW content, IsContent(t, content), ~Refused(t, content),
           NEW c \in Hook
    PROVE  LET new == Updated(t, content, c)
           IN  /\ IsContent(t, new) /\ new \notin {Absent, Torn, None} /\ ~Refused(t, new)
               /\ \A p \in Process : command[p] = c => Ours(t, new)
               /\ (t \in Settings => c \in Managed) => Updated(t, new, c) = new
<1> DEFINE present == Present(content)
           new == Updated(t, content, c)
<1>1. /\ c \in Plugin
      /\ \A v \in {Absent, Torn, None} : v \notin Seq(Entry) /\ v \notin Seq(Line) /\ v \notin Plugin
      /\ {"unmanaged", "edited"} \cap Hook = {}
  BY ConstantsOK, CommandFacts DEF ConstantsOK
<1>2. CASE t \in Settings
  <2>1. present \in Seq(Entry)
    BY <1>2, EmptySeq DEF IsContent, Refused, Present, Settings
  <2>2. new = applySessionStartHook(present, c)
    BY <1>2 DEF Updated, Settings
  <2>3. /\ new \in Seq(Entry) /\ Wanted(c) \in ToSet(new)
        /\ c \in Managed => applySessionStartHook(new, c) = new
    BY <1>1, <2>1, <2>2, Repaired, Added
  <2> HIDE DEF new
  <2>4. new # Absent /\ new # Torn /\ new # None
    BY <1>1, <2>3
  <2>5. c \in Managed => Updated(t, new, c) = new
    BY <1>2, <2>3, <2>4 DEF Updated, Present, Settings
  <2>6. IsContent(t, new) /\ ~Refused(t, new) /\ \A p \in Process : command[p] = c => Ours(t, new)
    BY <1>2, <2>3, <2>4 DEF IsContent, Refused, Ours, Readable, Settings
  <2> QED
    BY <1>2, <2>4, <2>5, <2>6 DEF new
<1>3. CASE t = "Codex config"
  <2>1. present \in Seq(Line)
    BY <1>1, <1>3, EmptySeq DEF IsContent, Present, Settings
  <2>2. new = codexHooksEnabled(present)
    BY <1>3 DEF Updated, Settings
  <2>3. PICK s, f : /\ codexHooksEnabled(present) \in Seq(Line)
                    /\ FlagAt(codexHooksEnabled(present), s, f)
                    /\ codexHooksEnabled(present)[f] = "on"
    BY <2>1, Enabled
  <2> HIDE DEF new
  <2>4. new \in Seq(Line) /\ HooksOn(new) /\ codexHooksEnabled(new) = new
    BY <2>2, <2>3, OnStays
  <2>5. new # Absent /\ new # Torn /\ new # None
    BY <1>1, <2>4
  <2>6. Updated(t, new, c) = new
    BY <1>3, <2>4, <2>5 DEF Updated, Present, Settings
  <2>7. IsContent(t, new) /\ ~Refused(t, new) /\ Ours(t, new)
    BY <1>3, <2>4, <2>5 DEF IsContent, Refused, Ours, Readable, Settings
  <2> QED
    BY <2>5, <2>6, <2>7 DEF new
<1>4. CASE t = "OpenCode"
  <2>1. \A x : Updated(t, x, c) = c
    BY <1>4 DEF Updated, Settings
  <2>2. c # Absent /\ c # Torn /\ c # None /\ c # "unmanaged"
    BY <1>1
  <2>3. IsContent(t, c) /\ ~Refused(t, c) /\ \A p \in Process : command[p] = c => Ours(t, c)
    BY <1>1, <1>4, <2>2 DEF IsContent, Refused, Ours, Readable, Settings
  <2> QED
    BY <2>1, <2>2, <2>3
<1> QED
  BY <1>2, <1>3, <1>4 DEF Targets

-----------------------------------------------------------------------------
(***************************************************************************)
(* Types.                                                                  *)
(***************************************************************************)
Active == {"read", "truncate", "write"}

PlaceOK(p) ==
    /\ pc[p] \in Active => at[p] \in DOMAIN Order /\ command[p] \in portableCommand
    /\ pc[p] = "idle" => at[p] = 1 /\ command[p] = None
    /\ pc[p] \in {"truncate", "write"} =>
          plan[p] \notin {Absent, Torn, None} /\ IsContent(Order[at[p]], plan[p])
    /\ pc[p] = "write" => file[Order[at[p]]] # Absent

StateOK ==
    /\ DOMAIN file = Target /\ DOMAIN theirs = Target /\ DOMAIN plan = Process
    /\ \A t \in Target : IsContent(t, file[t]) /\ IsContent(t, theirs[t])
    /\ command \in [Process -> portableCommand \cup {None}]
    /\ pc \in [Process -> {"idle", "read", "truncate", "write", "done", "dead"}]
    /\ at \in [Process -> 1 .. Len(Order) + 1]
    /\ sight \in [Process -> {"clear", "blind", "replaced"}]
    /\ result \in [Process -> [Target -> {"same", "installed", "failed", None}]]
    /\ exit \in [Process -> {"ok", "SETUP_FAILED", None}]
    /\ edited \subseteq Target /\ damaged \subseteq Target /\ overwritten \subseteq Target
    /\ faults \in 0..MaxFaults
    /\ \A p \in Process : PlaceOK(p)

LEMMA OrderFacts ==
    /\ Order \in Seq(Targets) /\ Len(Order) \in Nat /\ 1 \in DOMAIN Order
    /\ DOMAIN Order = 1..Len(Order) /\ Target \subseteq Targets
    /\ \A i \in DOMAIN Order : Order[i] \in Target
    /\ MaxFaults \in Nat
BY ConstantsOK DEF ConstantsOK, Target

LEMMA StateOKGivesTypeOK ==
    ASSUME StateOK
    PROVE  TypeOK
BY DEF StateOK, PlaceOK, Active, TypeOK

LEMMA InitStateOK ==
    ASSUME Init
    PROVE  StateOK
<1>1. \A t \in Target : IsContent(t, file[t])
  BY ConstantsOK DEF Init, ConstantsOK
<1>2. DOMAIN file = Target
  BY ConstantsOK DEF Init, ConstantsOK
<1> QED
  BY <1>1, <1>2, OrderFacts DEF Init, StateOK, PlaceOK, Active

\* A step of p leaves what the other processes are about as it is.
OthersSame(p) ==
    \A q \in Process \ {p} :
        /\ pc'[q] = pc[q] /\ at'[q] = at[q] /\ plan'[q] = plan[q] /\ result'[q] = result[q]
        /\ command'[q] = command[q] /\ sight'[q] = sight[q] /\ exit'[q] = exit[q]

\* p goes on to its next file or ends.
LEMMA LeaveOK ==
    ASSUME StateOK, NEW p \in Process, at[p] \in DOMAIN Order, UNCHANGED command,
           NEW outcome \in {"same", "installed", "failed"}, Leave(p, outcome)
    PROVE  /\ pc' \in [Process -> {"idle", "read", "truncate", "write", "done", "dead"}]
           /\ at' \in [Process -> 1 .. Len(Order) + 1]
           /\ sight' \in [Process -> {"clear", "blind", "replaced"}]
           /\ result' \in [Process -> [Target -> {"same", "installed", "failed", None}]]
           /\ exit' \in [Process -> {"ok", "SETUP_FAILED", None}]
           /\ DOMAIN plan' = Process /\ OthersSame(p)
           /\ pc'[p] \in {"read", "done"} /\ (pc'[p] = "read" => at'[p] \in DOMAIN Order)
           /\ result'[p] = [result[p] EXCEPT ![Order[at[p]]] = outcome]
           /\ at'[p] = at[p] + 1
           /\ \/ pc'[p] = "read" /\ exit' = exit
              \/ /\ pc'[p] = "done" /\ at[p] = Len(Order)
                 /\ exit'[p] = IF \A t \in Target : result'[p][t] = "failed" THEN "SETUP_FAILED" ELSE "ok"
<1>1. Order[at[p]] \in Target /\ at[p] \in 1..Len(Order) /\ Len(Order) \in Nat
  BY OrderFacts
<1>2. /\ at' = [at EXCEPT ![p] = at[p] + 1] /\ plan' = [plan EXCEPT ![p] = None]
      /\ sight' = [sight EXCEPT ![p] = "clear"]
  BY DEF Leave
<1>3. result' = [result EXCEPT ![p] = [result[p] EXCEPT ![Order[at[p]]] = outcome]]
  BY DEF Leave, StateOK
<1>4. \/ pc' = [pc EXCEPT ![p] = "read"] /\ at[p] < Len(Order) /\ exit' = exit
      \/ /\ pc' = [pc EXCEPT ![p] = "done"] /\ ~(at[p] < Len(Order))
         /\ exit' = [exit EXCEPT ![p] = IF \A t \in Target : result'[p][t] = "failed"
                                        THEN "SETUP_FAILED" ELSE "ok"]
  BY DEF Leave
<1>5. result' \in [Process -> [Target -> {"same", "installed", "failed", None}]]
  BY <1>1, <1>3 DEF StateOK
<1>6. at' \in [Process -> 1 .. Len(Order) + 1] /\ at'[p] = at[p] + 1
  BY <1>1, <1>2 DEF StateOK
<1>7. pc' \in [Process -> {"idle", "read", "truncate", "write", "done", "dead"}]
  BY <1>4 DEF StateOK
<1>8. exit' \in [Process -> {"ok", "SETUP_FAILED", None}]
  BY <1>4 DEF StateOK
<1>9. OthersSame(p) /\ DOMAIN plan' = Process
  BY <1>2, <1>3, <1>4 DEF StateOK, OthersSame
<1>10. pc'[p] \in {"read", "done"} /\ (pc'[p] = "read" => at'[p] \in DOMAIN Order)
  BY <1>1, <1>4, <1>6, OrderFacts DEF StateOK
<1>11. sight' \in [Process -> {"clear", "blind", "replaced"}]
  BY <1>2 DEF StateOK
<1>12. \/ pc'[p] = "read" /\ exit' = exit
       \/ /\ pc'[p] = "done" /\ at[p] = Len(Order)
          /\ exit'[p] = IF \A t \in Target : result'[p][t] = "failed" THEN "SETUP_FAILED" ELSE "ok"
  BY <1>1, <1>4 DEF StateOK
<1>13. result'[p] = [result[p] EXCEPT ![Order[at[p]]] = outcome]
  BY <1>3 DEF StateOK
<1> QED
  BY <1>5, <1>6, <1>7, <1>8, <1>9, <1>10, <1>11, <1>12, <1>13

\* Types are kept by a step that gives at most one file a content.
LEMMA StepOK ==
    ASSUME StateOK, NEW p \in Process, OthersSame(p), UNCHANGED <<theirs, edited>>,
           command' \in [Process -> portableCommand \cup {None}],
           pc' \in [Process -> {"idle", "read", "truncate", "write", "done", "dead"}],
           at' \in [Process -> 1 .. Len(Order) + 1],
           sight' \in [Process -> {"clear", "blind", "replaced"}],
           result' \in [Process -> [Target -> {"same", "installed", "failed", None}]],
           exit' \in [Process -> {"ok", "SETUP_FAILED", None}],
           DOMAIN plan' = Process, damaged' \subseteq Target, overwritten' \subseteq Target,
           faults' \in 0..MaxFaults,
           \/ file' = file
           \/ \E t \in Target : \E content :
                 /\ IsContent(t, content) /\ content # Absent
                 /\ file' = [file EXCEPT ![t] = content],
           PlaceOK(p)'
    PROVE  StateOK'
<1>1. /\ DOMAIN file' = Target
      /\ \A t \in Target : IsContent(t, file'[t])
      /\ \A t \in Target : file[t] # Absent => file'[t] # Absent
  BY DEF StateOK
<1>2. DOMAIN theirs' = Target /\ edited' \subseteq Target /\ \A t \in Target : IsContent(t, theirs'[t])
  BY DEF StateOK
<1>3. ASSUME NEW q \in Process, q # p
      PROVE  PlaceOK(q)'
  <2>1. /\ pc'[q] = pc[q] /\ at'[q] = at[q] /\ plan'[q] = plan[q] /\ command'[q] = command[q]
        /\ PlaceOK(q)
    BY <1>3 DEF OthersSame, StateOK
  <2>2. pc[q] = "write" => Order[at[q]] \in Target
    BY <2>1, OrderFacts DEF PlaceOK, Active
  <2> QED
    BY <1>1, <2>1, <2>2 DEF PlaceOK, Active
<1> QED
  BY <1>1, <1>2, <1>3 DEF StateOK

\* What a process that goes through its files is at.
LEMMA PlaceFacts ==
    ASSUME StateOK, NEW p \in Process, pc[p] \in Active
    PROVE  /\ at[p] \in DOMAIN Order /\ Order[at[p]] \in Target /\ Order[at[p]] \in Targets
           /\ IsContent(Order[at[p]], file[Order[at[p]]])
           /\ at[p] \in 1 .. Len(Order) + 1 /\ command[p] \in portableCommand /\ command[p] \in Hook
           /\ pc[p] \in {"truncate", "write"} =>
                 plan[p] \notin {Absent, Torn, None} /\ IsContent(Order[at[p]], plan[p])
           /\ pc[p] = "write" => file[Order[at[p]]] # Absent
<1>1. PlaceOK(p)
  BY DEF StateOK
<1>2. /\ at[p] \in DOMAIN Order /\ Order[at[p]] \in Target /\ Order[at[p]] \in Targets
      /\ command[p] \in portableCommand /\ command[p] \in Hook
  BY <1>1, OrderFacts, CommandFacts DEF PlaceOK
<1> QED
  BY <1>1, <1>2 DEF PlaceOK, StateOK

\* What a file may be left with, when it is truncated or a write breaks off, is
\* a content of it.
LEMMA OverlaidIs ==
    ASSUME NEW content \in Seq(Line), NEW old \in Seq(Line)
    PROVE  Overlaid(content, old) \in Seq(Line)
<1>1. SubSeq(old, Len(content) + 1, Len(old)) \in Seq(Line)
  BY SubSeqProperties
<1> QED
  BY <1>1, ConcatProperties DEF Overlaid

LEMMA LeftOver ==
    ASSUME NEW t \in Targets, NEW content, IsContent(t, content), content \notin {Absent, Torn, None},
           NEW old, IsContent(t, old), old # Absent
    PROVE  /\ IsContent(t, Emptied(t)) /\ Emptied(t) # Absent
           /\ \A c \in Partial(t, content, old) : IsContent(t, c) /\ c # Absent
<1>1. /\ Absent # Torn /\ <<>> \in Seq(Line) /\ Absent \notin Seq(Line) /\ Absent \notin Plugin
      /\ "edited" \in Plugin
  BY ConstantsOK, EmptySeq DEF ConstantsOK, Plugin
<1>2. IsContent(t, Emptied(t)) /\ Emptied(t) # Absent
  BY <1>1 DEF IsContent, Emptied, Settings, Targets
<1>3. CASE t = "Codex config"
  <2>1. content \in Seq(Line) /\ old \in Seq(Line)
    BY <1>3 DEF IsContent, Settings
  <2>2. \A n \in 0 .. Len(content) - 1 : SubSeq(content, 1, n) \in Seq(Line)
    BY <2>1, SubSeqProperties
  <2>3. \A n \in 0 .. Len(content) - 1 : Overlaid(SubSeq(content, 1, n), old) \in Seq(Line)
    BY <2>1, <2>2, OverlaidIs
  <2> QED
    BY <1>1, <1>2, <1>3, <2>3 DEF IsContent, Partial, Settings
<1>4. CASE t # "Codex config"
  BY <1>1, <1>2, <1>4 DEF IsContent, Partial, Settings, Targets
<1> QED
  BY <1>3, <1>4

LEMMA EmptiedIs ==
    ASSUME NEW t \in Targets
    PROVE  IsContent(t, Emptied(t)) /\ Emptied(t) # Absent
<1>1. Absent # Torn /\ <<>> \in Seq(Line) /\ Absent \notin Seq(Line)
  BY ConstantsOK, EmptySeq DEF ConstantsOK
<1> QED
  BY <1>1 DEF IsContent, Emptied, Settings, Targets

\* So is what a write leaves in a file that somebody else has written.
LEMMA MixedUp ==
    ASSUME NEW t \in Targets, NEW content, IsContent(t, content), content \notin {Absent, Torn, None},
           NEW old, IsContent(t, old), old # Absent
    PROVE  \A c \in Mixed(t, content, old) : IsContent(t, c) /\ c # Absent
<1>1. /\ Absent # Torn /\ Absent \notin Seq(Line) /\ Absent \notin Plugin /\ "edited" \in Plugin
  BY ConstantsOK DEF ConstantsOK, Plugin
<1>2. CASE t = "Codex config"
  BY <1>1, <1>2, OverlaidIs DEF IsContent, Mixed, Settings
<1>3. CASE t # "Codex config"
  BY <1>1, <1>3 DEF IsContent, Mixed, Settings, Targets
<1> QED
  BY <1>2, <1>3

LEMMA OverwriteOK ==
    ASSUME overwritten \subseteq Target, NEW p \in Process, Order[at[p]] \in Target, Overwrite(p)
    PROVE  /\ overwritten' \subseteq Target /\ overwritten \subseteq overwritten'
           /\ sight[p] = "clear" => overwritten' = overwritten
           /\ sight[p] # "clear" => Order[at[p]] \in overwritten'
BY DEF Overwrite

LEMMA NextStateOK ==
    ASSUME StateOK, NEW p \in Process, Setup(p)
    PROVE  StateOK' /\ OthersSame(p) /\ UNCHANGED <<theirs, edited>>
<1> DEFINE t == Order[at[p]]
<1>0. /\ damaged \subseteq Target /\ overwritten \subseteq Target
      /\ faults \in 0..MaxFaults /\ MaxFaults \in Nat
      /\ \A fault : Fault(fault) => faults' \in 0..MaxFaults
      /\ command \in [Process -> portableCommand \cup {None}]
  BY OrderFacts DEF StateOK, Fault
<1>a. UNCHANGED <<theirs, edited>>
  BY DEF Setup, Begin, NoHome, Read, ReadFails, Truncate, OpenFails, Write, WriteFails, Crash
<1>b. \A u \in Targets : ~Refused(u, Absent)
  BY ConstantsOK DEF ConstantsOK, Refused, Settings, Plugin, Targets
<1>c. \A u \in Targets : IsContent(u, Absent)
  BY DEF IsContent, Settings, Targets
<1>1. CASE Begin(p)
  <2>1. /\ PlaceOK(p)' /\ OthersSame(p) /\ command' \in [Process -> portableCommand \cup {None}]
    BY <1>1, OrderFacts DEF Begin, StateOK, PlaceOK, OthersSame, Active
  <2> QED
    BY <1>0, <1>a, <1>1, <2>1, StepOK DEF Begin, StateOK
<1>2. CASE NoHome(p)
  <2>1. PlaceOK(p)' /\ OthersSame(p)
    BY <1>2 DEF NoHome, StateOK, PlaceOK, OthersSame, Active
  <2> QED
    BY <1>0, <1>a, <1>2, <2>1, StepOK DEF NoHome, StateOK
<1>3. CASE Read(p)
  <2>1. /\ at[p] \in DOMAIN Order /\ t \in Target /\ t \in Targets /\ IsContent(t, file[t])
        /\ pc[p] = "read" /\ UNCHANGED <<file, command, overwritten, faults>>
        /\ damaged' \subseteq Target /\ command[p] \in Hook /\ command[p] \in portableCommand
    BY <1>0, <1>3, PlaceFacts DEF Read, Active
  <2>2. CASE \E outcome \in {"failed", "same"} : Leave(p, outcome)
    <3>1. PlaceOK(p)'
      BY <2>1, <2>2, LeaveOK DEF PlaceOK, Active
    <3> QED
      BY <1>0, <1>a, <2>1, <2>2, <3>1, LeaveOK, StepOK
  <2>3. CASE ~Refused(t, file[t]) /\ plan' = [plan EXCEPT ![p] = Updated(t, file[t], command[p])]
             /\ pc' = [pc EXCEPT ![p] = "truncate"] /\ UNCHANGED <<at, sight, result, exit>>
    <3>1. /\ IsContent(t, Updated(t, file[t], command[p]))
          /\ Updated(t, file[t], command[p]) \notin {Absent, Torn, None}
      BY <2>1, <2>3, UpdatedIs
    <3>2. PlaceOK(p)' /\ OthersSame(p)
      BY <2>1, <2>3, <3>1 DEF StateOK, PlaceOK, OthersSame, Active
    <3> QED
      BY <1>0, <1>a, <2>1, <2>3, <3>2, StepOK DEF StateOK
  <2> QED
    BY <1>3, <2>2, <2>3 DEF Read
<1>4. CASE ReadFails(p)
  <2>1. /\ at[p] \in DOMAIN Order /\ t \in Target /\ t \in Targets
        /\ command[p] \in Hook /\ command[p] \in portableCommand
    BY <1>4, PlaceFacts DEF ReadFails, Active
  <2>2. /\ IsContent(t, Updated(t, Absent, command[p]))
        /\ Updated(t, Absent, command[p]) \notin {Absent, Torn, None}
    BY <1>b, <1>c, <2>1, UpdatedIs
  <2>3. PlaceOK(p)' /\ OthersSame(p)
    BY <1>4, <2>1, <2>2 DEF ReadFails, StateOK, PlaceOK, OthersSame, Active
  <2> QED
    BY <1>0, <1>a, <1>4, <2>3, StepOK DEF ReadFails, StateOK
<1>5. CASE Truncate(p)
  <2>1. /\ at[p] \in DOMAIN Order /\ t \in Target /\ pc[p] = "truncate"
        /\ command[p] \in portableCommand
        /\ plan[p] \notin {Absent, Torn, None} /\ IsContent(t, plan[p])
        /\ IsContent(t, Emptied(t)) /\ Emptied(t) # Absent
        /\ file' = [file EXCEPT ![t] = Emptied(t)]
    BY <1>5, PlaceFacts, EmptiedIs DEF Truncate, Active
  <2>2. PlaceOK(p)' /\ OthersSame(p)
    BY <1>5, <2>1 DEF Truncate, StateOK, PlaceOK, OthersSame, Active
  <2>3. overwritten' \subseteq Target
    BY <1>0, <1>5, <2>1, OverwriteOK DEF Truncate
  <2> QED
    BY <1>0, <1>a, <1>5, <2>1, <2>2, <2>3, StepOK DEF Truncate, StateOK
<1>6. CASE OpenFails(p)
  <2>1. /\ at[p] \in DOMAIN Order /\ Leave(p, "failed")
        /\ UNCHANGED <<file, command, damaged, overwritten>> /\ command[p] \in portableCommand
    BY <1>6, PlaceFacts DEF OpenFails, Active
  <2>2. PlaceOK(p)'
    BY <2>1, LeaveOK DEF PlaceOK, Active
  <2> QED
    BY <1>0, <1>a, <1>6, <2>1, <2>2, LeaveOK, StepOK DEF OpenFails
<1>7. CASE Write(p)
  <2>1. /\ at[p] \in DOMAIN Order /\ t \in Target /\ t \in Targets /\ pc[p] = "write"
        /\ plan[p] \notin {Absent, Torn, None} /\ IsContent(t, plan[p])
        /\ file[t] # Absent /\ IsContent(t, file[t]) /\ command[p] \in portableCommand
    BY <1>7, PlaceFacts DEF Write, Active
  <2>2. /\ Leave(p, "installed") /\ UNCHANGED <<command, faults>>
        /\ \E content : /\ IsContent(t, content) /\ content # Absent
                        /\ file' = [file EXCEPT ![t] = content]
        /\ damaged' \subseteq Target
    BY <1>0, <1>7, <2>1, MixedUp DEF Write
  <2>3. PlaceOK(p)'
    BY <2>1, <2>2, LeaveOK DEF PlaceOK, Active
  <2>4. overwritten' \subseteq Target
    BY <1>0, <1>7, <2>1, OverwriteOK DEF Write
  <2> QED
    BY <1>0, <1>a, <2>1, <2>2, <2>3, <2>4, LeaveOK, StepOK
<1>8. CASE WriteFails(p)
  <2>1. /\ at[p] \in DOMAIN Order /\ t \in Target /\ t \in Targets /\ pc[p] = "write"
        /\ plan[p] \notin {Absent, Torn, None} /\ IsContent(t, plan[p])
        /\ file[t] # Absent /\ IsContent(t, file[t]) /\ command[p] \in portableCommand
    BY <1>8, PlaceFacts DEF WriteFails, Active
  <2>2. /\ Leave(p, "failed") /\ UNCHANGED command
        /\ damaged' \subseteq Target /\ faults' \in 0..MaxFaults
    BY <1>0, <1>8, <2>1 DEF WriteFails
  <2>5. \E content : /\ IsContent(t, content) /\ content # Absent
                     /\ file' = [file EXCEPT ![t] = content]
    <3>1. PICK content \in Partial(t, plan[p], file[t]) : file' = [file EXCEPT ![t] = content]
      BY <1>8 DEF WriteFails
    <3> QED
      BY <2>1, <3>1, LeftOver
  <2>3. PlaceOK(p)'
    BY <2>1, <2>2, LeaveOK DEF PlaceOK, Active
  <2>4. overwritten' \subseteq Target
    BY <1>0, <1>8, <2>1, OverwriteOK DEF WriteFails
  <2> QED
    BY <1>0, <1>a, <2>1, <2>2, <2>3, <2>4, <2>5, LeaveOK, StepOK
<1>9. CASE Crash(p)
  <2>1. at[p] \in DOMAIN Order /\ t \in Target
    BY <1>9, PlaceFacts DEF Crash, Active
  <2>2. PlaceOK(p)' /\ OthersSame(p)
    BY <1>9 DEF Crash, StateOK, PlaceOK, OthersSame, Active
  <2> QED
    BY <1>0, <1>a, <1>9, <2>1, <2>2, StepOK DEF Crash, StateOK
<1> QED
  BY <1>a, <1>1, <1>2, <1>3, <1>4, <1>5, <1>6, <1>7, <1>8, <1>9 DEF Setup

LEMMA EditFacts ==
    ASSUME StateOK, NEW e \in Edits, Edit(e)
    PROVE  /\ e.of \in Target /\ IsContent(e.of, e.to) /\ e.to # Absent
           /\ \A t \in Target : /\ file'[t] = IF t = e.of THEN e.to ELSE file[t]
                                /\ theirs'[t] = IF t = e.of THEN e.to ELSE theirs[t]
           /\ \A p \in Process : sight'[p] = "clear" /\ pc[p] \in {"truncate", "write"} =>
                 sight[p] = "clear" /\ Order[at[p]] # e.of
           /\ UNCHANGED <<command, pc, at, plan, result, exit>>
<1>1. e.of \in Target /\ IsContent(e.of, e.to) /\ e.to # Absent
  BY ConstantsOK DEF ConstantsOK
<1> QED
  BY <1>1 DEF Edit, StateOK

LEMMA EditStateOK ==
    ASSUME StateOK, NEW e \in Edits, Edit(e)
    PROVE  StateOK'
<1>1. /\ DOMAIN file' = Target /\ DOMAIN theirs' = Target
      /\ \A t \in Target : IsContent(t, file'[t]) /\ IsContent(t, theirs'[t])
      /\ \A t \in Target : file[t] # Absent => file'[t] # Absent
  BY EditFacts DEF Edit, StateOK
<1>2. /\ faults' \in 0..MaxFaults
      /\ edited' \subseteq Target /\ damaged' \subseteq Target /\ overwritten' \subseteq Target
  <2>1. /\ Fault("edit") /\ edited' = edited \cup {e.of} /\ overwritten' = overwritten \ {e.of}
        /\ damaged' = damaged \ {e.of}
    BY DEF Edit
  <2>2. edited' \subseteq Target /\ damaged' \subseteq Target /\ overwritten' \subseteq Target
    BY <2>1, EditFacts DEF StateOK
  <2>3. faults' \in 0..MaxFaults
    BY <2>1, OrderFacts DEF Fault, StateOK
  <2> QED
    BY <2>2, <2>3
<1>4. sight' \in [Process -> {"clear", "blind", "replaced"}]
  <2>1. \A p \in Process : sight'[p] \in {"clear", "blind", "replaced"}
    BY DEF Edit, StateOK
  <2>2. sight' = [p \in Process |-> sight'[p]]
    BY DEF Edit
  <2> QED
    BY <2>1, <2>2
<1>3. ASSUME NEW p \in Process
      PROVE  PlaceOK(p)'
  <2>1. PlaceOK(p) /\ UNCHANGED <<command, pc, at, plan>>
    BY EditFacts DEF StateOK
  <2>2. pc[p] = "write" => Order[at[p]] \in Target
    BY <2>1, OrderFacts DEF PlaceOK, Active
  <2> QED
    BY <1>1, <2>1, <2>2 DEF PlaceOK, Active
<1> QED
  BY <1>1, <1>2, <1>3, <1>4, EditFacts DEF StateOK

LEMMA StutterStateOK ==
    ASSUME StateOK, UNCHANGED vars
    PROVE  StateOK'
BY DEF StateOK, PlaceOK, vars

\* Every variable has its type, and what a process is about to write is a
\* content of its file.
THEOREM TypeCorrect == Spec => []TypeOK
<1>1. Init => StateOK
  BY InitStateOK
<1>2. StateOK /\ [Next]_vars => StateOK'
  BY NextStateOK, EditStateOK, StutterStateOK DEF Next
<1>3. StateOK => TypeOK
  BY StateOKGivesTypeOK
<1> QED
  BY <1>1, <1>2, <1>3, PTL DEF Spec

-----------------------------------------------------------------------------
(***************************************************************************)
(* What a process has tried: the files up to its place in Order, and all   *)
(* of them when it ends, unless it has no home directory.                  *)
(***************************************************************************)
Tried(p) ==
    /\ \A i \in DOMAIN Order : result[p][Order[i]] = None <=> at[p] <= i
    /\ pc[p] # "done" => exit[p] = None
    /\ exit[p] = "ok" => /\ \A t \in Target : result[p][t] # None
                         /\ \E t \in Target : result[p][t] \in Good
    /\ exit[p] = "SETUP_FAILED" => \/ \A t \in Target : result[p][t] = "failed"
                                   \/ \A t \in Target : result[p][t] = None

AllTried == \A p \in Process : Tried(p)

LEMMA LeaveTried ==
    ASSUME StateOK, NEW p \in Process, at[p] \in DOMAIN Order, UNCHANGED command,
           NEW outcome \in {"same", "installed", "failed"}, Leave(p, outcome),
           Tried(p), pc[p] # "done"
    PROVE  Tried(p)'
<1>1. \A i \in DOMAIN Order :
          result'[p][Order[i]] = IF i = at[p] THEN outcome ELSE result[p][Order[i]]
  <2>1. result'[p] = [result[p] EXCEPT ![Order[at[p]]] = outcome]
    BY LeaveOK
  <2>2. \A i \in DOMAIN Order : Order[i] = Order[at[p]] => i = at[p]
    BY ConstantsOK DEF ConstantsOK
  <2>3. DOMAIN result[p] = Target
    BY DEF StateOK
  <2> QED
    BY <2>1, <2>2, <2>3, OrderFacts
<1>2. None \notin {"same", "installed", "failed", "ok", "SETUP_FAILED"}
  BY ConstantsOK DEF ConstantsOK
<1>3. at[p] \in Nat /\ at'[p] = at[p] + 1 /\ \A i \in DOMAIN Order : i \in Nat
  <2>1. at'[p] = at[p] + 1
    BY DEF Leave, StateOK
  <2>2. at[p] \in Nat /\ \A i \in DOMAIN Order : i \in Nat
    BY OrderFacts
  <2> QED
    BY <2>1, <2>2
<1>4. \A i \in DOMAIN Order : result'[p][Order[i]] = None <=> at'[p] <= i
  BY <1>1, <1>2, <1>3 DEF Tried
<1>5. CASE pc'[p] = "read" /\ exit' = exit
  BY <1>2, <1>4, <1>5 DEF Tried
<1>6. CASE /\ pc'[p] = "done" /\ at[p] = Len(Order)
           /\ exit'[p] = IF \A t \in Target : result'[p][t] = "failed" THEN "SETUP_FAILED" ELSE "ok"
  <2>1. \A i \in DOMAIN Order : result'[p][Order[i]] # None
    BY <1>3, <1>4, <1>6, OrderFacts
  <2>2. \A t \in Target : result'[p][t] # None
    BY <2>1 DEF Target
  <2>3. \A t \in Target : result'[p][t] \in {"same", "installed", "failed", None}
    <3>1. result' \in [Process -> [Target -> {"same", "installed", "failed", None}]]
      BY LeaveOK
    <3> QED
      BY <3>1
  <2> QED
    BY <1>4, <1>6, <2>2, <2>3 DEF Tried, Good
<1> QED
  BY <1>5, <1>6, LeaveOK

LEMMA NextTried ==
    ASSUME StateOK, AllTried, NEW p \in Process, Setup(p)
    PROVE  AllTried'
<1>1. OthersSame(p)
  BY NextStateOK
<1>2. ASSUME NEW q \in Process, q # p
      PROVE  Tried(q)'
  BY <1>1, <1>2 DEF OthersSame, AllTried, Tried
<1>3. Tried(p) /\ None \notin {"ok", "SETUP_FAILED"} /\ PlaceOK(p)
  BY ConstantsOK DEF AllTried, ConstantsOK, StateOK
<1>4. ASSUME UNCHANGED <<at, result, exit>>, pc[p] # "done"
      PROVE  Tried(p)'
  <2>1. at' = at /\ result' = result /\ exit' = exit
    BY <1>4
  <2>2. exit[p] = None /\ \A i \in DOMAIN Order : result[p][Order[i]] = None <=> at[p] <= i
    BY <1>3, <1>4 DEF Tried
  <2> QED
    BY <1>3, <2>1, <2>2 DEF Tried
<1>5. ASSUME NoHome(p)
      PROVE  Tried(p)'
  <2>1. at[p] = 1 /\ \A i \in DOMAIN Order : result[p][Order[i]] = None
    BY <1>3, <1>5, OrderFacts DEF NoHome, PlaceOK, Tried
  <2>2. \A t \in Target : result[p][t] = None
    BY <2>1 DEF Target
  <2>3. /\ at' = at /\ result' = result /\ exit'[p] = "SETUP_FAILED" /\ pc'[p] = "done"
    BY <1>5 DEF NoHome, StateOK
  <2>4. \A i \in DOMAIN Order : result[p][Order[i]] = None <=> at[p] <= i
    BY <1>3 DEF Tried
  <2> QED
    BY <2>2, <2>3, <2>4 DEF Tried
<1>6. ASSUME pc[p] \in Active, UNCHANGED command,
             \E outcome \in {"same", "installed", "failed"} : Leave(p, outcome)
      PROVE  Tried(p)'
  <2>1. at[p] \in DOMAIN Order /\ pc[p] # "done"
    BY <1>6, PlaceFacts DEF Active
  <2>2. PICK outcome \in {"same", "installed", "failed"} : Leave(p, outcome)
    BY <1>6
  <2> QED
    BY <1>3, <1>6, <2>1, <2>2, LeaveTried
<1>7. \/ UNCHANGED <<at, result, exit>> /\ pc[p] # "done"
      \/ NoHome(p)
      \/ /\ pc[p] \in Active /\ UNCHANGED command
         /\ \E outcome \in {"same", "installed", "failed"} : Leave(p, outcome)
  BY DEF Setup, Begin, Read, ReadFails, Truncate, OpenFails, Write, WriteFails, Crash, Active
<1> QED
  BY <1>2, <1>4, <1>5, <1>6, <1>7 DEF AllTried

LEMMA InitTried ==
    ASSUME Init
    PROVE  AllTried
<1>1. None \notin {"ok", "SETUP_FAILED"}
  BY ConstantsOK DEF ConstantsOK
<1> QED
  BY <1>1, OrderFacts DEF Init, AllTried, Tried

LEMMA OtherTried ==
    ASSUME AllTried, UNCHANGED <<pc, at, result, exit>>
    PROVE  AllTried'
BY DEF AllTried, Tried

LEMMA Counts ==
    ASSUME NEW S, NEW T, S \subseteq T, T \subseteq Process
    PROVE  /\ Cardinality(S) \in Nat /\ Cardinality(T) \in Nat
           /\ Cardinality(S) <= Cardinality(T)
           /\ \A p \in T \ S : Cardinality(S) + 1 <= Cardinality(T)
<1>1. IsFiniteSet(T) /\ IsFiniteSet(S)
  BY ConstantsOK, FS_Subset DEF ConstantsOK
<1>2. Cardinality(S) <= Cardinality(T)
  BY <1>1, FS_Subset
<1>3. ASSUME NEW p \in T \ S
      PROVE  Cardinality(S) + 1 <= Cardinality(T)
  <2>1. Cardinality(S \cup {p}) = Cardinality(S) + 1
    BY <1>1, <1>3, FS_AddElement
  <2>2. S \cup {p} \subseteq T
    BY <1>3
  <2>3. Cardinality(S \cup {p}) <= Cardinality(T)
    BY <1>1, <2>2, FS_Subset
  <2> QED
    BY <2>1, <2>3
<1> QED
  BY <1>1, <1>2, <1>3, FS_CardinalityType

\* No process ceases to have installed what it has.
LEMMA NamelessGrows ==
    ASSUME StateOK, AllTried, NEW p \in Process, Setup(p), NEW t \in Target
    PROVE  Nameless(t) \subseteq Nameless(t)' /\ Nameless(t)' \subseteq Process
<1>1. OthersSame(p)
  BY NextStateOK
<1>2. ASSUME p \in Nameless(t)
      PROVE  p \in Nameless(t)'
  <2>1. PICK i \in DOMAIN Order : t = Order[i]
    BY DEF Target
  <2>2. result[p][t] # None /\ Tried(p) /\ PlaceOK(p)
    BY <1>2, ConstantsOK DEF ConstantsOK, Nameless, AllTried, StateOK
  <2>3. ~(at[p] <= i) /\ i \in 1..Len(Order) /\ Len(Order) \in Nat
    BY <2>1, <2>2, OrderFacts DEF Tried
  <2>4. pc[p] # "idle"
    BY <2>2, <2>3 DEF PlaceOK
  <2>5. UNCHANGED command
    BY <2>4 DEF Setup, Begin, NoHome, Read, ReadFails, Truncate, OpenFails, Write, WriteFails, Crash
  <2>6. CASE UNCHANGED result
    BY <1>2, <2>5, <2>6 DEF Nameless
  <2>7. CASE /\ pc[p] \in Active
             /\ \E outcome \in {"same", "installed", "failed"} : Leave(p, outcome)
    <3>1. at[p] \in DOMAIN Order
      BY <2>7, PlaceFacts
    <3>2. PICK outcome \in {"same", "installed", "failed"} :
             result'[p] = [result[p] EXCEPT ![Order[at[p]]] = outcome]
      BY <2>7 DEF Leave, StateOK
    <3>3. at[p] # i
      BY <2>3, <3>1, OrderFacts
    <3>4. Order[at[p]] # t
      BY <2>1, <3>1, <3>3, ConstantsOK DEF ConstantsOK
    <3>5. result'[p][t] = result[p][t]
      BY <3>2, <3>4
    <3> QED
      BY <1>2, <2>5, <3>5 DEF Nameless
  <2> QED
    BY <2>6, <2>7
       DEF Setup, Begin, NoHome, Read, ReadFails, Truncate, OpenFails, Write, WriteFails, Crash, Active
<1>3. ASSUME NEW q \in Nameless(t), q # p
      PROVE  q \in Nameless(t)'
  BY <1>1, <1>3 DEF OthersSame, Nameless
<1> QED
  BY <1>2, <1>3 DEF Nameless

-----------------------------------------------------------------------------
(***************************************************************************)
(* What others have written: every content of a settings file, and every   *)
(* content that is about to be written by a process with clear sight, has  *)
(* the entries of others at their places and no entry of ours too many,    *)
(* until a process without clear sight has written the file.               *)
(***************************************************************************)
Sound(t, content, n) ==
    /\ Readable(content) /\ theirs[t] # Absent =>
          Readable(theirs[t]) /\ ForeignKept(theirs[t], content)
    /\ Readable(content) => Room(content) <= Room(Present(theirs[t])) + n
    /\ content = Absent => theirs[t] = Absent

\* content may be written to t, by a process that may add n entries.
MayGo(t, content, n) ==
    /\ t \in Settings => Sound(t, content, n)
    /\ t = "OpenCode" => theirs[t] # "unmanaged"

Count(t) == Cardinality(Nameless(t))

PlanKept(p) ==
    \A t \in Target \ overwritten :
        pc[p] \in {"truncate", "write"} /\ sight[p] = "clear" /\ Order[at[p]] = t
            => MayGo(t, plan[p], Count(t) + Excess(command[p]))

Kept ==
    /\ \A t \in (Target \cap Settings) \ overwritten : Sound(t, file[t], Count(t))
    /\ "OpenCode" \in Target \ overwritten /\ theirs["OpenCode"] = "unmanaged"
          => file["OpenCode"] = "unmanaged"
    /\ \A p \in Process : PlanKept(p)

LEMMA SettingsFacts ==
    ASSUME NEW t \in Settings, NEW content, IsContent(t, content)
    PROVE  /\ Readable(content) => content \in Seq(Entry)
           /\ content # Torn => /\ Present(content) \in Seq(Entry)
                                /\ Len(Present(content)) \in Nat /\ Room(Present(content)) \in Nat
<1>1. content \in Seq(Entry) \cup {Absent, Torn}
  BY DEF IsContent, Settings
<1>2. content # Torn => Present(content) \in Seq(Entry)
  BY <1>1, EmptySeq DEF Present
<1> QED
  BY <1>1, <1>2, RoomIs DEF Readable

LEMMA KeptGives ==
    ASSUME StateOK, Kept
    PROVE  UserFilesKept /\ OneEntry
<1>1. UserFilesKept
  BY DEF Kept, Sound, ForeignKept, UserFilesKept
<1>2. ASSUME NEW t \in (Target \cap Settings) \ overwritten, Readable(file[t])
      PROVE  Len(file[t]) <= Len(Present(theirs[t])) + Allowance(t)
  <2>1. Sound(t, file[t], Count(t)) /\ IsContent(t, file[t]) /\ IsContent(t, theirs[t])
    BY DEF Kept, StateOK
  <2>2. file[t] \in Seq(Entry) /\ Present(theirs[t]) \in Seq(Entry)
    <3>1. theirs[t] # Torn
      BY <1>2, <2>1, ConstantsOK DEF Sound, Readable, ConstantsOK
    <3> QED
      BY <1>2, <2>1, <3>1, SettingsFacts
  <2>3. Room(file[t]) <= Room(Present(theirs[t])) + Count(t)
    BY <1>2, <2>1 DEF Sound
  <2>4. Len(file[t]) <= Room(file[t]) /\ Room(file[t]) \in Nat /\ Len(file[t]) \in Nat
    BY <2>2, RoomIs
  <2>5. Count(t) \in Nat
    BY Counts DEF Count, Nameless
  <2>6. Room(Present(theirs[t])) + Count(t) = Len(Present(theirs[t])) + Allowance(t)
    <3>1. CASE OursIn(Present(theirs[t])) = {}
      <4>1. Allowance(t) = 1 + Count(t)
        BY <3>1 DEF Allowance, Count
      <4> QED
        BY <2>2, <2>5, <3>1, <4>1, RoomIs
    <3>2. CASE OursIn(Present(theirs[t])) # {}
      <4>1. Allowance(t) = 0 + Count(t)
        BY <3>2 DEF Allowance, Count
      <4> QED
        BY <2>2, <2>5, <3>2, <4>1, RoomIs
    <3> QED
      BY <3>1, <3>2
  <2>7. Room(Present(theirs[t])) \in Nat
    BY <2>2, RoomIs
  <2> QED
    BY <2>3, <2>4, <2>5, <2>6, <2>7
<1> QED
  BY <1>1, <1>2 DEF OneEntry

\* What others have written is sound itself.
LEMMA SoundItself ==
    ASSUME NEW t \in Settings, NEW content, IsContent(t, content), NEW n \in Nat
    PROVE  /\ ForeignKept(content, content)
           /\ Readable(content) => Room(content) <= Room(Present(content)) + n
<1>1. ASSUME Readable(content)
      PROVE  Room(content) <= Room(Present(content)) + n
  <2>1. Present(content) = content /\ Room(Present(content)) \in Nat
    BY <1>1, SettingsFacts DEF Present, Readable
  <2> QED
    BY <2>1
<1> QED
  BY <1>1 DEF ForeignKept, Foreign

LEMMA SoundMore ==
    ASSUME StateOK, NEW t \in Target \cap Settings, NEW content, IsContent(t, content),
           NEW n \in Nat, NEW more \in Nat, n <= more, Sound(t, content, n)
    PROVE  Sound(t, content, more)
<1>1. ASSUME Readable(content)
      PROVE  Room(content) <= Room(Present(theirs[t])) + more
  <2>1. IsContent(t, theirs[t]) /\ theirs[t] # Torn
    BY <1>1, ConstantsOK DEF StateOK, Sound, Readable, ConstantsOK
  <2>2. Room(content) \in Nat /\ Room(Present(theirs[t])) \in Nat
    BY <1>1, <2>1, SettingsFacts DEF Readable, Present
  <2> QED
    BY <1>1, <2>2 DEF Sound
<1> QED
  BY <1>1 DEF Sound

\* What setup makes of a content is as sound as the content.
LEMMA SoundUpdated ==
    ASSUME StateOK, NEW t \in Target \cap Settings, NEW content, IsContent(t, content),
           ~Refused(t, content), NEW n \in Nat, Sound(t, content, n), NEW c \in Hook
    PROVE  Sound(t, Updated(t, content, c), n + Excess(c))
<1> DEFINE present == Present(content)
           new == applySessionStartHook(present, c)
<1>1. present \in Seq(Entry) /\ content # Torn
  <2>1. content # Torn
    BY DEF Refused, Settings
  <2> QED
    BY <2>1, SettingsFacts
<1>2. Updated(t, content, c) = new
  BY DEF Updated, Settings
<1>3. new \in Seq(Entry) /\ ForeignKept(present, new) /\ Room(new) <= Room(present) + Excess(c)
  BY <1>1, Repaired, Added
<1>4. new # Absent /\ Excess(c) \in Nat
  BY <1>3, ConstantsOK DEF ConstantsOK, Excess
<1> HIDE DEF new
<1>5. CASE content = Absent
  <2>1. theirs[t] = Absent /\ Present(theirs[t]) = present
    BY <1>5 DEF Sound, Present
  <2>2. Room(new) \in Nat /\ Room(present) \in Nat
    BY <1>1, <1>3, RoomIs
  <2>3. Room(new) <= Room(Present(theirs[t])) + (n + Excess(c))
    BY <1>3, <1>4, <2>1, <2>2
  <2> QED
    BY <1>2, <1>4, <2>1, <2>3 DEF Sound
<1>6. CASE content # Absent
  <2>1. Readable(content) /\ present = content
    BY <1>1, <1>6 DEF Readable, Present
  <2> HIDE DEF present
  <2>2. theirs[t] # Absent => Readable(theirs[t]) /\ ForeignKept(theirs[t], new)
    <3> SUFFICES ASSUME theirs[t] # Absent
                 PROVE  Readable(theirs[t]) /\ ForeignKept(theirs[t], new)
      OBVIOUS
    <3>1. Readable(theirs[t]) /\ ForeignKept(theirs[t], content)
      BY <2>1 DEF Sound
    <3>2. \A i \in Foreign(theirs[t]) : i \in Foreign(content)
      BY <3>1 DEF ForeignKept, Foreign
    <3> QED
      BY <1>3, <2>1, <3>1, <3>2 DEF ForeignKept
  <2>3. Room(content) <= Room(Present(theirs[t])) + n
    BY <2>1 DEF Sound
  <2>4. theirs[t] # Torn /\ IsContent(t, theirs[t])
    BY <2>1, ConstantsOK DEF StateOK, Sound, Readable, ConstantsOK
  <2>5. Room(new) \in Nat /\ Room(content) \in Nat /\ Room(Present(theirs[t])) \in Nat
    BY <1>1, <1>3, <2>1, <2>4, RoomIs, SettingsFacts
  <2>6. Room(new) <= Room(Present(theirs[t])) + (n + Excess(c))
    BY <1>3, <1>4, <2>1, <2>3, <2>5
  <2> QED
    BY <1>2, <1>4, <2>2, <2>6 DEF Sound
<1> QED
  BY <1>5, <1>6

\* A step keeps all this if what it writes, and what it decides to write, may
\* go where it goes.
LEMMA KeptStep ==
    ASSUME StateOK, Kept, NEW p \in Process, OthersSame(p), UNCHANGED theirs,
           \A t \in Target : Nameless(t) \subseteq Nameless(t)' /\ Nameless(t)' \subseteq Process,
           overwritten \subseteq overwritten',
           \/ file' = file
           \/ \E t \in Target : \E content :
                 /\ file' = [file EXCEPT ![t] = content]
                 /\ t \in overwritten' \/ MayGo(t, content, Count(t)'),
           \A t \in Target \ overwritten' :
              pc'[p] \in {"truncate", "write"} /\ sight'[p] = "clear" /\ Order[at'[p]] = t
                 => MayGo(t, plan'[p], Count(t)' + Excess(command'[p]))
    PROVE  Kept'
<1>1. ASSUME NEW t \in Target
      PROVE  Count(t) \in Nat /\ Count(t)' \in Nat /\ Count(t) <= Count(t)'
  BY Counts DEF Count
<1>2. \A c : Excess(c) \in Nat
  BY DEF Excess
<1>3. ASSUME NEW t \in (Target \cap Settings) \ overwritten'
      PROVE  Sound(t, file'[t], Count(t)')
  <2>1. Sound(t, file[t], Count(t)) /\ IsContent(t, file[t])
    BY DEF Kept, StateOK
  <2>2. Sound(t, file[t], Count(t)')
    BY <1>1, <2>1, SoundMore
  <2> QED
    BY <2>2 DEF StateOK, MayGo
<1>4. "OpenCode" \in Target \ overwritten' /\ theirs["OpenCode"] = "unmanaged"
          => file'["OpenCode"] = "unmanaged"
  BY DEF Kept, MayGo, StateOK
<1>5. ASSUME NEW q \in Process, NEW t \in Target \ overwritten',
             pc'[q] \in {"truncate", "write"}, sight'[q] = "clear", Order[at'[q]] = t
      PROVE  MayGo(t, plan'[q], Count(t)' + Excess(command'[q]))
  <2>1. CASE q = p
    BY <1>5, <2>1
  <2>2. CASE q # p
    <3>1. /\ pc[q] \in {"truncate", "write"} /\ sight[q] = "clear" /\ Order[at[q]] = t
          /\ plan'[q] = plan[q] /\ command'[q] = command[q] /\ t \notin overwritten
      BY <1>5, <2>2 DEF OthersSame
    <3>2. MayGo(t, plan[q], Count(t) + Excess(command[q]))
      BY <3>1 DEF Kept, PlanKept
    <3>3. IsContent(t, plan[q])
      BY <3>1, PlaceFacts DEF Active
    <3>4. /\ Count(t) + Excess(command[q]) \in Nat /\ Count(t)' + Excess(command[q]) \in Nat
          /\ Count(t) + Excess(command[q]) <= Count(t)' + Excess(command[q])
      BY <1>1, <1>2
    <3>5. t \in Settings => Sound(t, plan[q], Count(t)' + Excess(command[q]))
      BY <3>2, <3>3, <3>4, SoundMore DEF MayGo
    <3> QED
      BY <3>1, <3>2, <3>5 DEF MayGo
  <2> QED
    BY <2>1, <2>2
<1>6. \A t, content, n : (Sound(t, content, n) => Sound(t, content, n)')
                       /\ (MayGo(t, content, n) => MayGo(t, content, n)')
  BY DEF Sound, MayGo
<1>7. \A q \in Process : PlanKept(q)'
  BY <1>5, <1>6 DEF PlanKept, MayGo, Sound
<1>8. \A t \in (Target \cap Settings) \ overwritten' : Sound(t, file[t], Count(t))'
  BY <1>3 DEF Sound
<1> QED
  BY <1>4, <1>7, <1>8 DEF Kept

\* A process that installs a command without the marker is one more of them.
LEMMA InstalledCounts ==
    ASSUME StateOK, AllTried, NEW p \in Process, NEW t \in Target, Order[at[p]] = t,
           pc[p] = "write", Write(p)
    PROVE  Count(t) + Excess(command[p]) <= Count(t)'
<1>1. /\ at[p] \in DOMAIN Order /\ Leave(p, "installed") /\ command' = command
  BY PlaceFacts DEF Write, Active
<1>2. Nameless(t) \subseteq Nameless(t)' /\ Nameless(t)' \subseteq Process
  BY NamelessGrows DEF Setup
<1>3. /\ Count(t) \in Nat /\ Count(t)' \in Nat /\ Count(t) <= Count(t)'
      /\ \A q \in Nameless(t)' \ Nameless(t) : Count(t) + 1 <= Count(t)'
  BY <1>2, Counts DEF Count
<1>4. CASE command[p] \in Managed
  BY <1>3, <1>4 DEF Excess
<1>5. CASE command[p] \notin Managed
  <2>1. result[p][t] = None
    <3>1. at[p] <= at[p]
      BY <1>1, OrderFacts
    <3> QED
      BY <1>1, <3>1 DEF AllTried, Tried
  <2>2. p \notin Nameless(t)
    BY <2>1, ConstantsOK DEF ConstantsOK, Nameless
  <2>3. result'[p][t] = "installed"
    BY <1>1 DEF Leave, StateOK
  <2>4. p \in Nameless(t)'
    BY <1>1, <1>5, <2>3 DEF Nameless
  <2> QED
    BY <1>3, <1>5, <2>2, <2>4 DEF Excess
<1> QED
  BY <1>4, <1>5

LEMMA NextKept ==
    ASSUME StateOK, AllTried, Kept, NEW p \in Process, Setup(p)
    PROVE  Kept'
<1>0. /\ OthersSame(p) /\ UNCHANGED theirs /\ DOMAIN file = Target /\ DOMAIN pc = Process
      /\ \A t \in Target : Nameless(t) \subseteq Nameless(t)' /\ Nameless(t)' \subseteq Process
      /\ overwritten \subseteq Target
  BY NextStateOK, NamelessGrows DEF StateOK
<1>1. CASE Begin(p) \/ NoHome(p)
  <2>1. pc'[p] \in {"read", "done"} /\ UNCHANGED <<file, overwritten>>
    BY <1>0, <1>1 DEF Begin, NoHome
  <2> QED
    BY <1>0, <2>1, KeptStep
<1>2. CASE OpenFails(p)
  <2>1. at[p] \in DOMAIN Order /\ Leave(p, "failed") /\ UNCHANGED <<file, overwritten, command>>
    BY <1>2, PlaceFacts DEF OpenFails, Active
  <2>2. pc'[p] \in {"read", "done"}
    BY <2>1, LeaveOK
  <2> QED
    BY <1>0, <2>1, <2>2, KeptStep
<1>3. CASE ReadFails(p)
  <2>1. sight'[p] = "blind" /\ UNCHANGED <<file, overwritten>>
    BY <1>3 DEF ReadFails, StateOK
  <2> QED
    BY <1>0, <2>1, KeptStep
<1>4. CASE Crash(p)
  <2>1. pc'[p] = "dead" /\ UNCHANGED <<file, overwritten>>
    BY <1>0, <1>4 DEF Crash
  <2> QED
    BY <1>0, <2>1, KeptStep
<1>a. /\ Absent # Torn /\ \A u \in Settings : \A n : Sound(u, Torn, n)
      /\ \A c : Excess(c) \in Nat
  BY ConstantsOK DEF ConstantsOK, Sound, Readable, Excess
<1>b. \A u \in Target : Count(u) \in Nat /\ Count(u)' \in Nat /\ Count(u) <= Count(u)'
  BY <1>0, Counts DEF Count
<1>5. CASE Read(p)
  <2> DEFINE t == Order[at[p]]
  <2>1. /\ at[p] \in DOMAIN Order /\ t \in Target /\ t \in Targets /\ IsContent(t, file[t])
        /\ UNCHANGED <<file, overwritten, command>> /\ command[p] \in Hook
    BY <1>5, PlaceFacts DEF Read, Active
  <2>2. CASE \E outcome \in {"failed", "same"} : Leave(p, outcome)
    <3>1. pc'[p] \in {"read", "done"}
      BY <1>0, <2>2 DEF Leave
    <3> QED
      BY <1>0, <2>1, <3>1, KeptStep
  <2>3. CASE ~Refused(t, file[t]) /\ plan' = [plan EXCEPT ![p] = Updated(t, file[t], command[p])]
             /\ UNCHANGED at
    <3>1. at'[p] = at[p] /\ plan'[p] = Updated(t, file[t], command[p])
      BY <2>3 DEF StateOK
    <3>2. ASSUME NEW u \in Target \ overwritten', Order[at'[p]] = u
          PROVE  MayGo(u, plan'[p], Count(u)' + Excess(command'[p]))
      <4>1. u = t /\ u \notin overwritten /\ command'[p] = command[p]
        BY <2>1, <3>1, <3>2
      <4>2. ASSUME u \in Settings
            PROVE  Sound(u, plan'[p], Count(u)' + Excess(command[p]))
        <5>1. Sound(u, file[u], Count(u)')
          BY <1>b, <2>1, <4>1, <4>2, SoundMore DEF Kept
        <5> QED
          BY <1>b, <2>1, <2>3, <3>1, <4>1, <4>2, <5>1, SoundUpdated
      <4>3. u = "OpenCode" => theirs[u] # "unmanaged"
        BY <2>1, <2>3, <4>1 DEF Kept, Refused, Settings
      <4> QED
        BY <4>1, <4>2, <4>3 DEF MayGo
    <3> QED
      BY <1>0, <2>1, <3>2, KeptStep
  <2> QED
    BY <1>5, <2>2, <2>3 DEF Read
<1>6. CASE Truncate(p)
  <2> DEFINE t == Order[at[p]]
  <2>1. /\ t \in Target /\ pc[p] = "truncate" /\ UNCHANGED <<at, plan, sight, command>>
        /\ file' = [file EXCEPT ![t] = Emptied(t)]
        /\ overwritten \subseteq overwritten' /\ (sight[p] # "clear" => t \in overwritten')
    BY <1>0, <1>6, PlaceFacts, OverwriteOK DEF Truncate, Active
  <2>2. ASSUME t \notin overwritten'
        PROVE  MayGo(t, plan[p], Count(t) + Excess(command[p]))
    BY <2>1, <2>2 DEF Kept, PlanKept
  <2>3. t \in overwritten' \/ \A n : MayGo(t, Emptied(t), n)
    BY <1>a, <2>2 DEF MayGo, Emptied, Settings
  <2>4. ASSUME NEW u \in Target \ overwritten', Order[at'[p]] = u, sight'[p] = "clear"
        PROVE  MayGo(u, plan'[p], Count(u)' + Excess(command'[p]))
    <3>1. u = t /\ plan'[p] = plan[p] /\ command'[p] = command[p]
      BY <2>1, <2>4
    <3>2. MayGo(u, plan[p], Count(u) + Excess(command[p])) /\ IsContent(u, plan[p])
      BY <2>1, <2>2, <2>4, <3>1, PlaceFacts DEF Active
    <3>3. /\ Count(u) + Excess(command[p]) \in Nat /\ Count(u)' + Excess(command[p]) \in Nat
          /\ Count(u) + Excess(command[p]) <= Count(u)' + Excess(command[p])
      BY <1>a, <1>b
    <3>4. u \in Settings => Sound(u, plan[p], Count(u)' + Excess(command[p]))
      BY <3>2, <3>3, SoundMore DEF MayGo
    <3> QED
      BY <3>1, <3>2, <3>4 DEF MayGo
  <2> QED
    BY <1>0, <2>1, <2>3, <2>4, KeptStep
<1>7. ASSUME NEW t \in Target, Order[at[p]] = t, Write(p) \/ WriteFails(p)
      PROVE  Kept'
  <2>1. /\ pc[p] = "write" /\ pc'[p] \in {"read", "done"} /\ IsContent(t, plan[p]) /\ IsContent(t, file[t])
        /\ overwritten \subseteq overwritten' /\ (sight[p] # "clear" => t \in overwritten')
    BY <1>0, <1>7, PlaceFacts, OverwriteOK DEF Write, WriteFails, Leave, Active
  <2>2. ASSUME t \notin overwritten'
        PROVE  /\ MayGo(t, plan[p], Count(t) + Excess(command[p])) /\ sight[p] = "clear"
               /\ t \in Settings => Sound(t, file[t], Count(t)')
    <3>1. MayGo(t, plan[p], Count(t) + Excess(command[p])) /\ sight[p] = "clear"
      BY <1>7, <2>1, <2>2 DEF Kept, PlanKept
    <3>2. t \in Settings => Sound(t, file[t], Count(t)')
      BY <1>b, <2>1, <2>2, SoundMore DEF Kept
    <3> QED
      BY <3>1, <3>2
  <2>3. CASE Write(p)
    <3>1. t \notin overwritten' => MayGo(t, plan[p], Count(t)')
      <4>1. Count(t) + Excess(command[p]) <= Count(t)' /\ Count(t) + Excess(command[p]) \in Nat
        BY <1>7, <1>a, <1>b, <2>1, <2>3, InstalledCounts
      <4>2. t \notin overwritten' /\ t \in Settings => Sound(t, plan[p], Count(t)')
        BY <1>b, <2>1, <2>2, <4>1, SoundMore DEF MayGo
      <4> QED
        BY <2>2, <4>2 DEF MayGo
    <3>2. t \notin overwritten' => \A content \in Mixed(t, plan[p], file[t]) : MayGo(t, content, Count(t)')
      BY <1>a, <3>1 DEF MayGo, Mixed, Settings
    <3>3. \E content : /\ file' = [file EXCEPT ![t] = content]
                       /\ t \in overwritten' \/ MayGo(t, content, Count(t)')
      BY <1>7, <2>2, <2>3, <3>1, <3>2 DEF Write
    <3> QED
      BY <1>0, <2>1, <3>3, KeptStep
  <2>4. CASE WriteFails(p)
    <3>1. t \notin overwritten' => \A content \in Partial(t, plan[p], file[t]) : MayGo(t, content, Count(t)')
      BY <1>a, <2>2 DEF MayGo, Partial, Settings
    <3>2. \E content : /\ file' = [file EXCEPT ![t] = content]
                       /\ t \in overwritten' \/ MayGo(t, content, Count(t)')
      BY <1>7, <2>4, <3>1 DEF WriteFails
    <3> QED
      BY <1>0, <2>1, <3>2, KeptStep
  <2> QED
    BY <1>7, <2>3, <2>4
<1>8. CASE Write(p) \/ WriteFails(p)
  <2>1. Order[at[p]] \in Target
    BY <1>8, PlaceFacts DEF Write, WriteFails, Active
  <2> QED
    BY <1>7, <1>8, <2>1
<1> QED
  BY <1>1, <1>2, <1>3, <1>4, <1>5, <1>6, <1>8 DEF Setup

LEMMA InitKept ==
    ASSUME Init
    PROVE  Kept
<1>1. StateOK /\ theirs = file
  BY InitStateOK DEF Init
<1>2. ASSUME NEW t \in Target \cap Settings
      PROVE  Sound(t, file[t], Count(t))
  <2>1. IsContent(t, file[t]) /\ Count(t) \in Nat
    BY <1>1, Counts DEF StateOK, Count, Nameless
  <2> QED
    BY <1>1, <2>1, SoundItself DEF Sound
<1> QED
  BY <1>1, <1>2 DEF Init, Kept, PlanKept

\* What an owner writes is what the file is measured by from then on.
LEMMA EditKept ==
    ASSUME StateOK, Kept, NEW e \in Edits, Edit(e)
    PROVE  Kept'
<1>1. /\ e.of \in Target /\ IsContent(e.of, e.to) /\ file'[e.of] = e.to /\ theirs'[e.of] = e.to
      /\ \A t \in Target : t # e.of => file'[t] = file[t] /\ theirs'[t] = theirs[t]
      /\ UNCHANGED <<command, pc, at, plan, result>>
  BY EditFacts
<1>2. \A t \in Target : Nameless(t)' = Nameless(t) /\ Count(t)' = Count(t) /\ Count(t) \in Nat
  <2>1. \A t \in Target : Nameless(t)' = Nameless(t) /\ Nameless(t) \subseteq Process
    BY <1>1 DEF Nameless
  <2> QED
    BY <2>1, Counts DEF Count
<1>3. \A t \in Target : t # e.of /\ t \notin overwritten' => t \notin overwritten
  BY DEF Edit
<1>4. ASSUME NEW t \in (Target \cap Settings) \ overwritten'
      PROVE  Sound(t, file[t], Count(t))'
  <2>1. CASE t = e.of
    <3>1. ForeignKept(e.to, e.to) /\ (Readable(e.to) => Room(e.to) <= Room(Present(e.to)) + Count(t))
      BY <1>1, <1>2, <2>1, SoundItself
    <3> QED
      BY <1>1, <1>2, <2>1, <3>1 DEF Sound
  <2>2. CASE t # e.of
    <3>1. Sound(t, file[t], Count(t))
      BY <1>3, <2>2 DEF Kept
    <3> QED
      BY <1>1, <1>2, <2>2, <3>1 DEF Sound
  <2> QED
    BY <2>1, <2>2
<1>5. "OpenCode" \in Target \ overwritten' /\ theirs'["OpenCode"] = "unmanaged"
          => file'["OpenCode"] = "unmanaged"
  BY <1>1, <1>3 DEF Kept
<1>6. ASSUME NEW p \in Process, NEW t \in Target \ overwritten',
             pc'[p] \in {"truncate", "write"}, sight'[p] = "clear", Order[at'[p]] = t
      PROVE  /\ MayGo(t, plan[p], Count(t) + Excess(command[p])) /\ theirs'[t] = theirs[t]
             /\ plan'[p] = plan[p] /\ command'[p] = command[p]
  <2>1. pc[p] \in {"truncate", "write"} /\ sight[p] = "clear" /\ Order[at[p]] = t /\ t # e.of
    BY <1>1, <1>6, EditFacts
  <2> QED
    BY <1>1, <1>3, <2>1 DEF Kept, PlanKept
<1>7. \A p \in Process : PlanKept(p)'
  BY <1>2, <1>6 DEF PlanKept, MayGo, Sound
<1> QED
  BY <1>4, <1>5, <1>7 DEF Kept

LEMMA StutterKept ==
    ASSUME Kept, UNCHANGED vars
    PROVE  Kept'
<1>1. \A t : Count(t)' = Count(t)
  BY DEF Count, Nameless, vars
<1> QED
  BY <1>1 DEF Kept, PlanKept, MayGo, Sound, vars

\* The invariant that the next two theorems rest on.
Tended == StateOK /\ AllTried /\ Kept

LEMMA TendedAlways == Spec => []Tended
<1>1. Init => Tended
  BY InitStateOK, InitTried, InitKept DEF Tended
<1>2. Tended /\ [Next]_vars => Tended'
  <2> SUFFICES ASSUME Tended, [Next]_vars
               PROVE  Tended'
    OBVIOUS
  <2>1. ASSUME NEW p \in Process, Setup(p)
        PROVE  Tended'
    BY <2>1, NextStateOK, NextTried, NextKept DEF Tended
  <2>2. ASSUME NEW e \in Edits, Edit(e)
        PROVE  Tended'
    <3>1. UNCHANGED <<pc, at, result, exit>>
      BY <2>2 DEF Edit
    <3> QED
      BY <2>2, <3>1, EditStateOK, OtherTried, EditKept DEF Tended
  <2>3. CASE UNCHANGED vars
    <3>1. UNCHANGED <<pc, at, result, exit>>
      BY <2>3 DEF vars
    <3> QED
      BY <2>3, <3>1, StutterStateOK, OtherTried, StutterKept DEF Tended
  <2> QED
    BY <2>1, <2>2, <2>3 DEF Next
<1> QED
  BY <1>1, <1>2, PTL DEF Spec

\* Whichever setups race and die where, and whatever owners write before, between
\* and after them, the entries of others stay in the settings files at their places
\* and the plugin of a user is left alone, until a setup writes the file whose read
\* has failed, or since whose read the owner has written it.
THEOREM OthersStay == Spec => []UserFilesKept
<1>1. Tended => UserFilesKept
  BY KeptGives DEF Tended
<1> QED
  BY <1>1, TendedAlways, PTL

\* For any number of processes, setup adds one entry at most to those that the owner
\* has written, and one more for each process that has installed a command without
\* the marker, until the file is written as said above.
THEOREM OneEntryOnly == Spec => []OneEntry
<1>1. Tended => OneEntry
  BY KeptGives DEF Tended
<1> QED
  BY <1>1, TendedAlways, PTL

\* What installed twice is installed once, for every content that a file may come to
\* hold; in settings, only for a command that contains the marker.
THEOREM TwiceIsOnce == Spec => []Idempotent
<1>1. StateOK => Idempotent
  <2> SUFFICES ASSUME StateOK, NEW t \in Target, NEW c \in portableCommand,
                      ~Refused(t, file[t]), t \in Settings => c \in Managed
               PROVE  /\ ~Refused(t, Updated(t, file[t], c))
                      /\ Updated(t, Updated(t, file[t], c), c) = Updated(t, file[t], c)
    BY DEF Idempotent
  <2>1. t \in Targets /\ IsContent(t, file[t]) /\ c \in Hook
    BY OrderFacts, CommandFacts DEF StateOK
  <2> QED
    BY <2>1, UpdatedIs
<1>2. Tended => Idempotent
  BY <1>1 DEF Tended
<1> QED
  BY <1>2, TendedAlways, PTL

-----------------------------------------------------------------------------
(***************************************************************************)
(* What is reported as installed is there: so is what is about to be       *)
(* written, and nobody but the owner of a file takes it away again.        *)
(***************************************************************************)
\* Ours, given what each process installs.
OursFor(t, content, commands) ==
    /\ Readable(content)
    /\ CASE t \in Settings     -> \E p \in Process : Wanted(commands[p]) \in ToSet(content)
         [] t = "Codex config" -> HooksOn(content)
         [] t = "OpenCode"     -> \E p \in Process : content = commands[p]

LEMMA OursIs ==
    ASSUME NEW t, NEW content
    PROVE  Ours(t, content) <=> OursFor(t, content, command)
BY DEF Ours, OursFor

Settled ==
    /\ \A p \in Process, t \in Target \ (damaged \cup edited) :
          result[p][t] \in Good /\ ~BeingWritten(t) => OursFor(t, file[t], command)
    /\ \A p \in Process : pc[p] \in {"truncate", "write"} => OursFor(Order[at[p]], plan[p], command)

LEMMA SettledGives ==
    ASSUME Settled, AllTried
    PROVE  SetupHolds
BY OursIs DEF Settled, AllTried, Tried, SetupHolds

\* A step keeps this if every file that is neither damaged nor being written
\* either holds what setup writes or was so before, with no new report.
LEMMA SettledStep ==
    ASSUME Settled, NEW p \in Process, OthersSame(p), UNCHANGED <<edited, command>>,
           \A t \in Target : t \notin damaged' /\ ~BeingWritten(t)' =>
              \/ OursFor(t, file'[t], command)
              \/ /\ file'[t] = file[t] /\ t \notin damaged /\ ~BeingWritten(t)
                 /\ result'[p][t] \in Good => result[p][t] \in Good,
           pc'[p] \in {"truncate", "write"} => OursFor(Order[at'[p]], plan'[p], command)
    PROVE  Settled'
<1>1. \A q \in Process : pc'[q] \in {"truncate", "write"} => OursFor(Order[at'[q]], plan'[q], command')
  BY DEF Settled, OthersSame
<1>2. ASSUME NEW q \in Process, NEW t \in Target \ (damaged' \cup edited'), result'[q][t] \in Good,
             ~BeingWritten(t)'
      PROVE  OursFor(t, file'[t], command')
  <2>1. CASE OursFor(t, file'[t], command)
    BY <2>1
  <2>2. CASE ~OursFor(t, file'[t], command)
    <3>1. /\ file'[t] = file[t] /\ t \notin damaged \cup edited /\ ~BeingWritten(t)
          /\ result[q][t] \in Good
      BY <1>2, <2>2 DEF OthersSame
    <3> QED
      BY <3>1 DEF Settled
  <2> QED
    BY <2>1, <2>2
<1> QED
  BY <1>1, <1>2 DEF Settled, Good, OursFor

\* A process without a command has nothing in the files that counts as its own.
LEMMA BeginSettled ==
    ASSUME StateOK, Settled, NEW p \in Process, Begin(p)
    PROVE  Settled'
<1>1. /\ command[p] = None /\ pc'[p] = "read" /\ UNCHANGED <<file, edited, at, plan, result, damaged>>
      /\ \A q \in Process \ {p} : pc'[q] = pc[q] /\ command'[q] = command[q]
  BY DEF Begin, StateOK, PlaceOK
<1>2. ASSUME NEW t \in Targets, NEW content, IsContent(t, content), OursFor(t, content, command)
      PROVE  OursFor(t, content, command')
  <2>1. CASE t \in Settings
    <3>1. PICK q \in Process : Wanted(command[q]) \in ToSet(content)
      BY <1>2, <2>1 DEF OursFor, Settings
    <3>2. content \in Seq(Entry)
      BY <1>2, <2>1, SettingsFacts DEF OursFor
    <3>3. Wanted(command[q]) \in Entry
      BY <3>1, <3>2 DEF ToSet
    <3>4. q # p
      BY <1>1, <3>3, CommandFacts DEF Wanted, Entry
    <3> QED
      BY <1>1, <1>2, <2>1, <3>1, <3>4 DEF OursFor, Settings
  <2>2. CASE t = "Codex config"
    BY <1>2, <2>2 DEF OursFor, Settings
  <2>3. CASE t = "OpenCode"
    <3>1. PICK q \in Process : content = command[q]
      BY <1>2, <2>3 DEF OursFor, Settings
    <3>2. content \in Plugin /\ None \notin Plugin
      BY <1>2, <2>3, ConstantsOK DEF OursFor, Readable, IsContent, Settings, ConstantsOK
    <3> QED
      BY <1>1, <1>2, <2>3, <3>1, <3>2 DEF OursFor, Settings
  <2> QED
    BY <2>1, <2>2, <2>3 DEF Targets
<1>3. ASSUME NEW q \in Process, pc'[q] \in {"truncate", "write"}
      PROVE  OursFor(Order[at[q]], plan[q], command')
  <2>1. pc[q] \in {"truncate", "write"}
    BY <1>1, <1>3
  <2>2. Order[at[q]] \in Targets /\ IsContent(Order[at[q]], plan[q])
    BY <2>1, PlaceFacts DEF Active
  <2> QED
    BY <1>2, <2>1, <2>2 DEF Settled
<1>4. \A t : BeingWritten(t) <=> BeingWritten(t)'
  BY <1>1 DEF BeingWritten, Begin
<1>5. ASSUME NEW q \in Process, NEW t \in Target \ (damaged \cup edited), result[q][t] \in Good,
             ~BeingWritten(t)
      PROVE  OursFor(t, file[t], command')
  <2>1. t \in Targets /\ IsContent(t, file[t])
    BY OrderFacts DEF StateOK
  <2> QED
    BY <1>2, <1>5, <2>1 DEF Settled
<1>6. (\A q \in Process : pc[q] \in {"truncate", "write"} => OursFor(Order[at[q]], plan[q], command))'
  BY <1>1, <1>3 DEF OursFor
<1>7. (\A q \in Process, t \in Target \ (damaged \cup edited) :
          result[q][t] \in Good /\ ~BeingWritten(t) => OursFor(t, file[t], command))'
  <2>1. file' = file /\ edited' = edited /\ result' = result /\ damaged' = damaged
    BY <1>1
  <2>2. ASSUME NEW q \in Process, NEW t \in Target \ (damaged' \cup edited'), result'[q][t] \in Good,
               ~BeingWritten(t)'
        PROVE  OursFor(t, file'[t], command')
    BY <1>4, <1>5, <2>1, <2>2
  <2> QED
    BY <2>2 DEF OursFor, Good
<1> QED
  BY <1>6, <1>7 DEF Settled

\* A file that p is not writing before or after its step is being written
\* afterwards if it was before.
LEMMA StillWritten ==
    ASSUME NEW p \in Process, OthersSame(p), NEW t,
           pc[p] = "write" => Order[at[p]] # t
    PROVE  BeingWritten(t) => BeingWritten(t)'
BY DEF BeingWritten, OthersSame

LEMMA NextSettled ==
    ASSUME StateOK, Settled, NEW p \in Process, Setup(p)
    PROVE  Settled'
<1> DEFINE t == Order[at[p]]
<1>0. /\ OthersSame(p) /\ UNCHANGED edited /\ DOMAIN file = Target /\ DOMAIN pc = Process
      /\ DOMAIN plan = Process /\ result[p] \in [Target -> Good \cup {"failed", None}]
      /\ \A u : OursFor(u, plan[p], command) <=> Ours(u, plan[p])
  BY NextStateOK, OursIs DEF StateOK, Good
<1>1. CASE NoHome(p)
  <2>1. pc[p] = "idle" /\ pc'[p] = "done" /\ UNCHANGED <<file, damaged, result, command>>
    BY <1>0, <1>1 DEF NoHome
  <2> QED
    BY <1>0, <2>1, StillWritten, SettledStep
<1>2. CASE OpenFails(p)
  <2>1. /\ at[p] \in DOMAIN Order /\ t \in Target /\ pc[p] = "truncate"
        /\ Leave(p, "failed") /\ UNCHANGED <<file, damaged, command>>
    BY <1>2, PlaceFacts DEF OpenFails, Active
  <2>2. pc'[p] \in {"read", "done"} /\ result'[p] = [result[p] EXCEPT ![t] = "failed"]
    BY <2>1 DEF Leave, StateOK
  <2>3. \A u \in Target : result'[p][u] \in Good => result[p][u] \in Good
    BY <1>0, <2>2 DEF Good
  <2> QED
    BY <1>0, <2>1, <2>2, <2>3, StillWritten, SettledStep
<1>3. CASE Read(p)
  <2>1. /\ at[p] \in DOMAIN Order /\ t \in Target /\ t \in Targets /\ IsContent(t, file[t])
        /\ UNCHANGED <<file, command>> /\ pc[p] = "read" /\ damaged \subseteq damaged'
        /\ command[p] \in Hook
    BY <1>3, PlaceFacts DEF Read, Active
  <2>2. CASE \E outcome \in {"failed", "same"} :
                 Leave(p, outcome) /\ (outcome = "same" => /\ ~Refused(t, file[t])
                                                           /\ Updated(t, file[t], command[p]) = file[t])
    <3>1. PICK outcome \in {"failed", "same"} :
             /\ Leave(p, outcome)
             /\ outcome = "same" => Ours(t, file[t])
      BY <2>1, <2>2, UpdatedIs
    <3>2. pc'[p] \in {"read", "done"} /\ result'[p] = [result[p] EXCEPT ![t] = outcome]
      BY <2>1, <3>1 DEF Leave, StateOK
    <3>3. \A u \in Target : \/ OursFor(u, file'[u], command)
                            \/ result'[p][u] \in Good => result[p][u] \in Good
      <4>1. outcome = "same" => OursFor(t, file'[t], command)
        BY <2>1, <3>1, OursIs
      <4>2. \A u \in Target : result'[p][u] = IF u = t THEN outcome ELSE result[p][u]
        BY <1>0, <3>2
      <4> SUFFICES ASSUME NEW u \in Target
                   PROVE  \/ OursFor(u, file'[u], command)
                          \/ result'[p][u] \in Good => result[p][u] \in Good
        OBVIOUS
      <4>3. CASE u # t
        BY <4>2, <4>3
      <4>4. CASE u = t /\ outcome = "same"
        BY <4>1, <4>4
      <4>5. CASE u = t /\ outcome = "failed"
        BY <4>2, <4>5 DEF Good
      <4> QED
        BY <3>1, <4>3, <4>4, <4>5
    <3> QED
      BY <1>0, <2>1, <3>2, <3>3, StillWritten, SettledStep
  <2>3. CASE ~Refused(t, file[t]) /\ plan' = [plan EXCEPT ![p] = Updated(t, file[t], command[p])]
             /\ pc' = [pc EXCEPT ![p] = "truncate"] /\ UNCHANGED <<at, result>>
    <3>1. Ours(t, Updated(t, file[t], command[p])) /\ pc'[p] = "truncate"
      BY <1>0, <2>1, <2>3, UpdatedIs
    <3>2. OursFor(Order[at'[p]], plan'[p], command)
      BY <1>0, <2>3, <3>1, OursIs
    <3> QED
      BY <1>0, <2>1, <2>3, <3>1, <3>2, StillWritten, SettledStep
  <2> QED
    BY <1>3, <2>2, <2>3 DEF Read
<1>4. CASE ReadFails(p)
  <2>1. /\ t \in Targets /\ command[p] \in Hook /\ pc[p] = "read" /\ pc'[p] = "truncate"
        /\ plan' = [plan EXCEPT ![p] = Updated(t, Absent, command[p])]
        /\ UNCHANGED <<file, at, result, damaged, command>>
    BY <1>0, <1>4, PlaceFacts DEF ReadFails, Active
  <2>2. IsContent(t, Absent) /\ ~Refused(t, Absent)
    BY <2>1, ConstantsOK DEF ConstantsOK, IsContent, Refused, Settings, Plugin, Targets
  <2>3. Ours(t, Updated(t, Absent, command[p]))
    BY <2>1, <2>2, UpdatedIs
  <2>4. OursFor(Order[at'[p]], plan'[p], command)
    BY <1>0, <2>1, <2>3, OursIs
  <2> QED
    BY <1>0, <2>1, <2>4, StillWritten, SettledStep
<1>5. CASE Truncate(p)
  <2>1. /\ t \in Target /\ pc[p] = "truncate" /\ pc'[p] = "write"
        /\ UNCHANGED <<at, plan, result, damaged, command>> /\ OursFor(t, plan[p], command)
        /\ \A u \in Target : u # t => file'[u] = file[u]
    BY <1>0, <1>5, PlaceFacts DEF Truncate, Settled, Active
  <2>2. BeingWritten(t)'
    BY <2>1 DEF BeingWritten
  <2> QED
    BY <1>0, <2>1, <2>2, StillWritten, SettledStep
<1>6. CASE Write(p) \/ WriteFails(p)
  <2>1. PICK outcome \in {"installed", "failed"} :
        /\ at[p] \in DOMAIN Order /\ t \in Target /\ pc[p] = "write" /\ Leave(p, outcome)
        /\ \A u \in Target : u # t => file'[u] = file[u]
        /\ damaged \subseteq damaged' /\ (t \in damaged' \/ file'[t] = plan[p])
        /\ OursFor(t, plan[p], command) /\ UNCHANGED command
    BY <1>0, <1>6, PlaceFacts DEF Write, WriteFails, Settled, Active
  <2>2. pc'[p] \in {"read", "done"} /\ result'[p] = [result[p] EXCEPT ![t] = outcome]
    BY <2>1 DEF Leave, StateOK
  <2>3. \A u \in Target : u # t => result'[p][u] = result[p][u]
    BY <1>0, <2>2
  <2> QED
    BY <1>0, <2>1, <2>2, <2>3, StillWritten, SettledStep
<1>7. CASE Crash(p)
  <2>1. /\ pc[p] = "write" /\ pc'[p] = "dead" /\ UNCHANGED <<file, at, plan, result, command>>
        /\ damaged' = damaged \cup {t}
    BY <1>0, <1>7 DEF Crash
  <2> QED
    BY <1>0, <2>1, StillWritten, SettledStep
<1> QED
  BY <1>1, <1>2, <1>3, <1>4, <1>5, <1>6, <1>7, BeginSettled DEF Setup

LEMMA InitSettled ==
    ASSUME Init
    PROVE  Settled
<1>1. None \notin Good
  BY ConstantsOK DEF ConstantsOK, Good
<1> QED
  BY <1>1 DEF Init, Settled, Good

\* What becomes of a file that its owner has written is the owner's business.
LEMMA EditSettled ==
    ASSUME StateOK, Settled, NEW e \in Edits, Edit(e)
    PROVE  Settled'
<1>1. /\ \A t \in Target : t # e.of => file'[t] = file[t]
      /\ command' = command /\ pc' = pc /\ at' = at /\ plan' = plan /\ result' = result
      /\ \A t \in Target \ (damaged' \cup edited') : t # e.of /\ t \notin damaged \cup edited
  BY EditFacts DEF Edit
<1>2. \A t : BeingWritten(t)' <=> BeingWritten(t)
  BY <1>1 DEF BeingWritten
<1>3. (\A p \in Process : pc[p] \in {"truncate", "write"} => OursFor(Order[at[p]], plan[p], command))'
  BY <1>1 DEF Settled, OursFor
<1>4. ASSUME NEW p \in Process, NEW t \in Target \ (damaged' \cup edited'), result'[p][t] \in Good,
             ~BeingWritten(t)'
      PROVE  OursFor(t, file'[t], command')
  BY <1>1, <1>2, <1>4 DEF Settled
<1> QED
  BY <1>3, <1>4 DEF Settled, OursFor, Good

LEMMA StutterSettled ==
    ASSUME Settled, UNCHANGED vars
    PROVE  Settled'
<1>1. \A t : BeingWritten(t)' <=> BeingWritten(t)
  BY DEF BeingWritten, vars
<1>2. /\ file' = file /\ command' = command /\ pc' = pc /\ at' = at /\ plan' = plan
      /\ result' = result /\ damaged' = damaged /\ edited' = edited
  BY DEF vars
<1> QED
  BY <1>1, <1>2 DEF Settled, OursFor, Good

\* What any process reports as installed or up to date is so as long as no
\* other is at the file or has damaged it, and its owner has not written it.
\* Whatever fails, a process that ends has tried every file.
THEOREM ReportedIsThere == Spec => []SetupHolds
<1>1. Init => Settled
  BY InitSettled
<1>2. Tended /\ Settled /\ [Next]_vars => Settled'
  BY NextSettled, EditSettled, StutterSettled DEF Next, Tended
<1>3. Tended /\ Settled => SetupHolds
  BY SettledGives DEF Tended
<1> QED
  BY <1>1, <1>2, <1>3, TendedAlways, PTL DEF Spec

-----------------------------------------------------------------------------
(***************************************************************************)
(* The config of Codex: each of the things that codexHooksEnabled may do   *)
(* keeps every line in its section, and so do several after one another.   *)
(***************************************************************************)
\* The section of line i begins at the last header up to i, if there is one.
LEMMA SectionCases ==
    ASSUME NEW lines \in Seq(Line), NEW i \in DOMAIN lines
    PROVE  \/ /\ SectionOf(lines, i) = 0
              /\ \A j \in 1..i : ~IsHeader(lines[j])
           \/ /\ SectionOf(lines, i) \in 1..i /\ IsHeader(lines[SectionOf(lines, i)])
              /\ \A j \in (SectionOf(lines, i) + 1)..i : ~IsHeader(lines[j])
<1>1. CASE Headers(lines, i) = {}
  BY <1>1 DEF SectionOf, Headers
<1>2. CASE Headers(lines, i) # {}
  <2> DEFINE back == {i - j : j \in Headers(lines, i)}
             least == Lowest(back)
  <2>1. back \subseteq Nat /\ back # {}
    BY <1>2 DEF Headers
  <2>2. least \in back /\ \A k \in back : least <= k
    BY <2>1, LowestIs
  <2>3. PICK last \in Headers(lines, i) : least = i - last
    BY <2>2
  <2> HIDE DEF least
  <2>4. \A j \in Headers(lines, i) : j <= last
    <3> SUFFICES ASSUME NEW j \in Headers(lines, i)
                 PROVE  j <= last
      OBVIOUS
    <3>1. i - j \in back
      OBVIOUS
    <3>2. i - last <= i - j
      BY <2>2, <2>3, <3>1
    <3> QED
      BY <3>2 DEF Headers
  <2>5. last \in 1..i /\ IsHeader(lines[last]) /\ \A j \in (last + 1)..i : ~IsHeader(lines[j])
    BY <2>4 DEF Headers
  <2>6. SectionOf(lines, i) = last
    BY <2>5, SectionIs
  <2> QED
    BY <2>5, <2>6
<1> QED
  BY <1>1, <1>2

LEMMA NoSection ==
    ASSUME NEW lines, NEW i, \A j \in 1..i : ~IsHeader(lines[j])
    PROVE  SectionOf(lines, i) = 0
BY DEF SectionOf, Headers

\* Every line of mid is in new at its place in to, in its section.
Embeds(mid, new, to) ==
    /\ to \in [DOMAIN mid -> DOMAIN new]
    /\ \A i, j \in DOMAIN mid : i < j => to[i] < to[j]
    /\ \A i \in DOMAIN mid :
          /\ \/ new[to[i]] = mid[i]
             \/ new[to[i]] = "on" /\ mid[i] = "off" /\ InFeatures(mid, i)
          /\ SectionOf(new, to[i]) = IF SectionOf(mid, i) = 0 THEN 0 ELSE to[SectionOf(mid, i)]

\* Lines that keep their places keep their sections if headers stay headers.
LEMMA SamePlaces ==
    ASSUME NEW mid \in Seq(Line), NEW new \in Seq(Line), DOMAIN mid \subseteq DOMAIN new,
           \A i \in DOMAIN mid : /\ IsHeader(mid[i]) <=> IsHeader(new[i])
                                 /\ \/ new[i] = mid[i]
                                    \/ new[i] = "on" /\ mid[i] = "off" /\ InFeatures(mid, i)
    PROVE  Embeds(mid, new, [i \in DOMAIN mid |-> i])
<1> DEFINE to == [i \in DOMAIN mid |-> i]
<1>1. ASSUME NEW i \in DOMAIN mid
      PROVE  SectionOf(new, i) = SectionOf(mid, i) /\ (SectionOf(mid, i) = 0 \/ SectionOf(mid, i) \in DOMAIN mid)
  <2>1. i \in Nat /\ 1..i \subseteq DOMAIN mid
    OBVIOUS
  <2>2. Headers(new, i) = Headers(mid, i)
    BY <2>1 DEF Headers
  <2>3. SectionOf(new, i) = SectionOf(mid, i)
    BY <2>2 DEF SectionOf
  <2> QED
    BY <2>1, <2>3, SectionCases
<1> QED
  BY <1>1 DEF Embeds

\* A line is inserted that is not a header.
LEMMA OneMore ==
    ASSUME NEW mid \in Seq(Line), NEW new \in Seq(Line), NEW n \in 1 .. Len(mid) + 1,
           Len(new) = Len(mid) + 1, ~IsHeader(new[n]),
           \A i \in 1..(n - 1) : new[i] = mid[i],
           \A i \in n..Len(mid) : new[i + 1] = mid[i]
    PROVE  Embeds(mid, new, [i \in DOMAIN mid |-> IF i < n THEN i ELSE i + 1])
<1> DEFINE to == [i \in DOMAIN mid |-> IF i < n THEN i ELSE i + 1]
<1>1. to \in [DOMAIN mid -> DOMAIN new] /\ \A i, j \in DOMAIN mid : i < j => to[i] < to[j]
  OBVIOUS
<1>a. \A i \in DOMAIN mid : to[i] \in Nat
  OBVIOUS
<1>b. \A i, j \in DOMAIN mid : (to[i] <= to[j] <=> i <= j) /\ (to[i] < to[j] <=> i < j)
  OBVIOUS
<1>2. \A i \in DOMAIN mid : new[to[i]] = mid[i]
  OBVIOUS
<1>3. \A k \in DOMAIN new : k # n => \E j \in DOMAIN mid : to[j] = k
  <2> SUFFICES ASSUME NEW k \in DOMAIN new, k # n
               PROVE  \E j \in DOMAIN mid : to[j] = k
    OBVIOUS
  <2>1. CASE k < n
    <3>1. k \in DOMAIN mid /\ to[k] = k
      BY <2>1
    <3> QED
      BY <3>1
  <2>2. CASE k > n
    <3>1. k - 1 \in DOMAIN mid /\ to[k - 1] = k
      BY <2>2
    <3> QED
      BY <3>1
  <2> QED
    BY <2>1, <2>2
<1> HIDE DEF to
<1>4. ASSUME NEW i \in DOMAIN mid
      PROVE  SectionOf(new, to[i]) = IF SectionOf(mid, i) = 0 THEN 0 ELSE to[SectionOf(mid, i)]
  <2> DEFINE s == SectionOf(mid, i)
  <2>1. i \in Nat /\ to[i] \in DOMAIN new /\ to[i] \in Nat
    BY <1>1
  <2>2. CASE s = 0 /\ \A j \in 1..i : ~IsHeader(mid[j])
    <3>1. ASSUME NEW k \in 1..to[i], IsHeader(new[k])
          PROVE  FALSE
      <4>1. PICK j \in DOMAIN mid : to[j] = k
        BY <1>3, <2>1, <3>1
      <4>2. to[j] <= to[i] /\ mid[j] = new[k]
        BY <1>2, <2>1, <4>1
      <4>3. j <= i
        BY <1>b, <4>1, <4>2
      <4> QED
        BY <2>2, <3>1, <4>2, <4>3
    <3> QED
      BY <2>2, <3>1, NoSection
  <2>3. CASE s \in 1..i /\ IsHeader(mid[s]) /\ \A j \in (s + 1)..i : ~IsHeader(mid[j])
    <3>1. /\ s \in DOMAIN mid /\ to[s] \in Nat /\ to[s] \in 1..to[i]
          /\ IsHeader(new[to[s]])
      <4>1. s \in DOMAIN mid /\ s <= i
        BY <2>1, <2>3
      <4>2. to[s] \in DOMAIN new /\ to[s] <= to[i] /\ new[to[s]] = mid[s]
        BY <1>1, <1>2, <1>b, <4>1
      <4> QED
        BY <2>1, <2>3, <4>1, <4>2
    <3>2. ASSUME NEW k \in (to[s] + 1)..to[i], IsHeader(new[k])
          PROVE  FALSE
      <4>0. k \in DOMAIN new /\ (k # n)
        BY <2>1, <3>1, <3>2
      <4>1. PICK j \in DOMAIN mid : to[j] = k
        BY <1>3, <4>0
      <4>2. mid[j] = new[k] /\ to[j] <= to[i] /\ to[s] < to[j]
        BY <1>2, <2>1, <3>1, <3>2, <4>1
      <4>3. j <= i /\ s < j /\ j \in Nat
        BY <1>b, <3>1, <4>1, <4>2
      <4> QED
        BY <2>3, <3>2, <4>2, <4>3
    <3>3. SectionOf(new, to[i]) = to[s]
      BY <2>1, <3>1, <3>2, SectionIs
    <3> QED
      BY <2>3, <3>3
  <2> QED
    BY <2>2, <2>3, SectionCases
<1> QED
  BY <1>1, <1>2, <1>4 DEF Embeds, to

\* A config with more than blank lines is kept line by line.
LEMMA EnabledEmbeds ==
    ASSUME NEW mid \in Seq(Line), NEW i0 \in DOMAIN mid, mid[i0] # "blank"
    PROVE  \E to : Embeds(mid, codexHooksEnabled(mid), to)
<1> DEFINE new == codexHooksEnabled(mid)
           start == Lowest(Starts(mid))
           end == End(mid, start)
<1>0. {"blank", "[features]", "on"} \subseteq Line /\ new \in Seq(Line)
  BY Enabled DEF Line
<1>1. CASE Starts(mid) = {}
  <2> DEFINE more == <<"blank", "[features]", "on">>
  <2>1. new = mid \o more
    BY <1>1, EnabledCases
  <2>2. more \in Seq(Line) /\ Len(more) = 3
    BY <1>0
  <2> HIDE DEF new, more
  <2>3. /\ Len(mid \o more) = Len(mid) + Len(more)
        /\ \A i \in 1..(Len(mid) + Len(more)) :
              (mid \o more)[i] = IF i <= Len(mid) THEN mid[i] ELSE more[i - Len(mid)]
    BY <2>2, ConcatProperties
  <2>4. DOMAIN mid \subseteq DOMAIN new /\ \A i \in DOMAIN mid : new[i] = mid[i]
    BY <1>0, <2>1, <2>2, <2>3
  <2>5. Embeds(mid, new, [i \in DOMAIN mid |-> i])
    BY <1>0, <2>4, SamePlaces
  <2> QED
    BY <2>5 DEF new
<1>2. CASE Starts(mid) # {} /\ Flags(mid, start) = {}
  <2>1. new = InsertAt(mid, end, "on")
    BY <1>2, EnabledCases DEF Starts
  <2>2. start \in DOMAIN mid
    BY <1>2, FirstStart
  <2> HIDE DEF start
  <2>3. end \in 1 .. Len(mid) + 1
    BY <2>2, EndIs
  <2> HIDE DEF end, new
  <2>4. /\ Len(new) = Len(mid) + 1 /\ new[end] = "on"
        /\ \A i \in 1..(end - 1) : new[i] = mid[i]
        /\ \A i \in end..Len(mid) : new[i + 1] = mid[i]
    BY <1>0, <2>1, <2>3, Inserted
  <2>5. ~IsHeader(new[end])
    BY <2>4 DEF IsHeader
  <2>6. Embeds(mid, new, [i \in DOMAIN mid |-> IF i < end THEN i ELSE i + 1])
    BY <1>0, <2>3, <2>4, <2>5, OneMore
  <2> QED
    BY <2>6 DEF new
<1>3. CASE Starts(mid) # {} /\ Flags(mid, start) # {}
  <2> DEFINE flag == Lowest(Flags(mid, start))
  <2>1. new = [mid EXCEPT ![flag] = "on"]
    BY <1>3, EnabledCases DEF Starts
  <2>2. start \in DOMAIN mid /\ mid[start] = "[features]"
    BY <1>3, FirstStart
  <2>3. Flags(mid, start) \subseteq Nat
    BY DEF Flags
  <2>4. flag \in Flags(mid, start)
    BY <1>3, <2>3, LowestIs
  <2> HIDE DEF start, flag
  <2>5. /\ end \in (start + 1) .. (Len(mid) + 1)
        /\ \A i \in (start + 1)..(end - 1) : ~IsHeader(mid[i])
    BY <2>2, EndIs
  <2>6. flag \in DOMAIN mid /\ start < flag /\ flag < end /\ IsFlag(mid[flag])
    BY <2>4 DEF Flags, end
  <2> HIDE DEF end
  <2>7. SectionOf(mid, flag) = start
    <3>1. /\ flag \in Nat /\ start \in 1..flag /\ IsHeader(mid[start])
          /\ \A j \in (start + 1)..flag : ~IsHeader(mid[j])
      BY <2>2, <2>5, <2>6 DEF IsHeader
    <3> QED
      BY <3>1, SectionIs
  <2>8. InFeatures(mid, flag)
    BY <2>2, <2>7 DEF InFeatures
  <2> HIDE DEF new
  <2>9. /\ DOMAIN mid \subseteq DOMAIN new
        /\ \A i \in DOMAIN mid : new[i] = IF i = flag THEN "on" ELSE mid[i]
    BY <2>1, <2>6
  <2>10. \A i \in DOMAIN mid : /\ IsHeader(mid[i]) <=> IsHeader(new[i])
                               /\ \/ new[i] = mid[i]
                                  \/ new[i] = "on" /\ mid[i] = "off" /\ InFeatures(mid, i)
    BY <2>6, <2>8, <2>9 DEF IsHeader, IsFlag
  <2>11. Embeds(mid, new, [i \in DOMAIN mid |-> i])
    BY <1>0, <2>9, <2>10, SamePlaces
  <2> QED
    BY <2>11 DEF new
<1> QED
  BY <1>1, <1>2, <1>3

Solid(lines) == {i \in DOMAIN lines : lines[i] # "blank"}

\* Where KeptIn puts the lines of old.
Places(old, new, to) ==
    /\ to \in [Solid(old) -> DOMAIN new]
    /\ \A i, j \in Solid(old) : i < j => to[i] < to[j]
    /\ \A i \in Solid(old) :
          /\ \/ new[to[i]] = old[i]
             \/ new[to[i]] = "on" /\ old[i] = "off" /\ InFeatures(old, i)
          /\ SectionOf(new, to[i]) = IF SectionOf(old, i) = 0 THEN 0 ELSE to[SectionOf(old, i)]

LEMMA KeptInPlaces ==
    ASSUME NEW old, NEW new
    PROVE  KeptIn(old, new) <=> \E to : Places(old, new, to)
BY DEF KeptIn, Places, Solid

LEMMA KeptInItself ==
    ASSUME NEW lines \in Seq(Line)
    PROVE  KeptIn(lines, lines)
<1> DEFINE to == [i \in Solid(lines) |-> i]
<1>1. \A i \in Solid(lines) : i \in DOMAIN lines /\ i \in Nat
  BY DEF Solid
<1>2. \A i \in Solid(lines) : SectionOf(lines, i) = 0 \/ SectionOf(lines, i) \in Solid(lines)
  BY <1>1, SectionCases DEF Solid, IsHeader
<1>3. Places(lines, lines, to)
  BY <1>1, <1>2 DEF Places
<1> QED
  BY <1>3, KeptInPlaces

\* What is kept in mid is kept in what codexHooksEnabled makes of mid.
LEMMA KeptInEnabled ==
    ASSUME NEW old \in Seq(Line), NEW mid \in Seq(Line), KeptIn(old, mid)
    PROVE  KeptIn(old, codexHooksEnabled(mid))
<1> DEFINE new == codexHooksEnabled(mid)
<1>1. PICK to : Places(old, mid, to)
  BY KeptInPlaces
<1>2. CASE Solid(old) = {}
  <2>1. Places(old, new, [i \in {} |-> i])
    BY <1>2 DEF Places
  <2> QED
    BY <2>1, KeptInPlaces
<1>3. CASE Solid(old) # {}
  <2>1. PICK i0 \in Solid(old) : TRUE
    BY <1>3
  <2>2. to[i0] \in DOMAIN mid /\ mid[to[i0]] # "blank"
    BY <1>1, <2>1 DEF Places, Solid
  <2>3. PICK on : Embeds(mid, new, on)
    BY <2>2, EnabledEmbeds
  <2> DEFINE both == [i \in Solid(old) |-> on[to[i]]]
  <2> HIDE DEF new
  <2>4. ASSUME NEW i \in Solid(old)
        PROVE  /\ to[i] \in DOMAIN mid /\ on[to[i]] \in DOMAIN new
               /\ SectionOf(old, i) = 0 \/ SectionOf(old, i) \in Solid(old)
    <3>1. to[i] \in DOMAIN mid /\ on[to[i]] \in DOMAIN new
      BY <1>1, <2>3 DEF Places, Embeds
    <3>2. i \in DOMAIN old
      BY DEF Solid
    <3> QED
      BY <3>1, <3>2, SectionCases DEF Solid, IsHeader
  <2>5. \A i, j \in Solid(old) : i < j => on[to[i]] < on[to[j]]
    BY <1>1, <2>3, <2>4 DEF Places, Embeds
  <2>6. ASSUME NEW i \in Solid(old)
        PROVE  SectionOf(new, on[to[i]]) =
                  IF SectionOf(old, i) = 0 THEN 0 ELSE on[to[SectionOf(old, i)]]
    <3>1. SectionOf(mid, to[i]) = IF SectionOf(old, i) = 0 THEN 0 ELSE to[SectionOf(old, i)]
      BY <1>1 DEF Places
    <3>2. SectionOf(new, on[to[i]]) = IF SectionOf(mid, to[i]) = 0 THEN 0 ELSE on[SectionOf(mid, to[i])]
      BY <2>3, <2>4 DEF Embeds
    <3>3. SectionOf(old, i) # 0 => to[SectionOf(old, i)] \in DOMAIN mid
      BY <2>4
    <3>4. SectionOf(old, i) # 0 => to[SectionOf(old, i)] # 0
      BY <3>3
    <3> QED
      BY <3>1, <3>2, <3>4
  <2>7. ASSUME NEW i \in Solid(old)
        PROVE  \/ new[on[to[i]]] = old[i]
               \/ new[on[to[i]]] = "on" /\ old[i] = "off" /\ InFeatures(old, i)
    <3>1. \/ mid[to[i]] = old[i]
          \/ mid[to[i]] = "on" /\ old[i] = "off" /\ InFeatures(old, i)
      BY <1>1 DEF Places
    <3>2. \/ new[on[to[i]]] = mid[to[i]]
          \/ new[on[to[i]]] = "on" /\ mid[to[i]] = "off" /\ InFeatures(mid, to[i])
      BY <2>3, <2>4 DEF Embeds
    <3>3. InFeatures(mid, to[i]) => InFeatures(old, i)
      <4> DEFINE s == SectionOf(old, i)
      <4>1. SectionOf(mid, to[i]) = IF s = 0 THEN 0 ELSE to[s]
        BY <1>1 DEF Places
      <4>2. s # 0 => \/ mid[to[s]] = old[s]
                     \/ mid[to[s]] = "on"
        BY <1>1, <2>4 DEF Places
      <4> QED
        BY <4>1, <4>2 DEF InFeatures
    <3> QED
      BY <3>1, <3>2, <3>3
  <2>8. both \in [Solid(old) -> DOMAIN new]
    BY <2>4
  <2>9. Places(old, new, both)
    BY <2>4, <2>5, <2>6, <2>7, <2>8 DEF Places
  <2> QED
    BY <2>9, KeptInPlaces DEF new
<1> QED
  BY <1>2, <1>3

-----------------------------------------------------------------------------
\* Unless it is damaged, overwritten or being written, the config keeps the lines
\* of the user, and so does what a process with clear sight is about to write.
Safe ==
    \A t \in Target \cap {"Codex config"} : theirs[t] # Absent =>
        /\ file[t] # Absent
        /\ t \notin damaged \cup overwritten =>
              /\ ~BeingWritten(t) => KeptIn(theirs[t], file[t])
              /\ \A p \in Process :
                    pc[p] \in {"truncate", "write"} /\ Order[at[p]] = t /\ sight[p] = "clear"
                       => KeptIn(theirs[t], plan[p])

LEMMA SafeStep ==
    ASSUME Safe, NEW p \in Process, OthersSame(p), UNCHANGED theirs,
           damaged \subseteq damaged', overwritten \subseteq overwritten',
           \A t \in Target \cap {"Codex config"} : theirs[t] # Absent =>
              /\ file[t] # Absent => file'[t] # Absent
              /\ t \notin damaged' \cup overwritten' =>
                    /\ ~BeingWritten(t)' => \/ KeptIn(theirs[t], file'[t])
                                            \/ file'[t] = file[t] /\ ~BeingWritten(t)
                    /\ pc'[p] \in {"truncate", "write"} /\ Order[at'[p]] = t /\ sight'[p] = "clear"
                          => KeptIn(theirs[t], plan'[p])
    PROVE  Safe'
<1> SUFFICES ASSUME NEW t \in Target \cap {"Codex config"}, theirs'[t] # Absent
             PROVE  /\ file'[t] # Absent
                    /\ t \notin damaged' \cup overwritten' =>
                          /\ ~BeingWritten(t)' => KeptIn(theirs'[t], file'[t])
                          /\ \A q \in Process :
                                pc'[q] \in {"truncate", "write"} /\ Order[at'[q]] = t /\ sight'[q] = "clear"
                                   => KeptIn(theirs'[t], plan'[q])
  BY DEF Safe, KeptIn
<1>1. theirs'[t] = theirs[t] /\ file'[t] # Absent
  BY DEF Safe
<1>2. ASSUME t \notin damaged' \cup overwritten', ~BeingWritten(t)'
      PROVE  KeptIn(theirs[t], file'[t])
  BY <1>1, <1>2 DEF Safe
<1>3. ASSUME t \notin damaged' \cup overwritten', NEW q \in Process,
             pc'[q] \in {"truncate", "write"}, Order[at'[q]] = t, sight'[q] = "clear"
      PROVE  KeptIn(theirs[t], plan'[q])
  BY <1>1, <1>3 DEF Safe, OthersSame
<1> QED
  BY <1>1, <1>2, <1>3

LEMMA NextSafe ==
    ASSUME StateOK, Safe, NEW p \in Process, Setup(p)
    PROVE  Safe'
<1> DEFINE t == Order[at[p]]
<1>0. /\ OthersSame(p) /\ UNCHANGED theirs /\ DOMAIN file = Target /\ DOMAIN pc = Process
      /\ overwritten \subseteq Target
  BY NextStateOK DEF StateOK
<1>1. CASE Begin(p) \/ NoHome(p)
  <2>1. /\ pc[p] = "idle" /\ pc'[p] \in {"read", "done"} /\ UNCHANGED <<file, damaged, overwritten>>
    BY <1>0, <1>1 DEF Begin, NoHome
  <2> QED
    BY <1>0, <2>1, StillWritten, SafeStep
<1>2. CASE OpenFails(p)
  <2>1. pc[p] = "truncate" /\ pc'[p] \in {"read", "done"} /\ UNCHANGED <<file, damaged, overwritten>>
    BY <1>0, <1>2 DEF OpenFails, Leave
  <2> QED
    BY <1>0, <2>1, StillWritten, SafeStep
<1>3. CASE Read(p)
  <2>1. /\ t \in Target /\ t \in Targets /\ IsContent(t, file[t])
        /\ UNCHANGED <<file, overwritten>> /\ pc[p] = "read" /\ damaged \subseteq damaged'
        /\ t = "Codex config" /\ BeingWritten(t) => t \in damaged'
    BY <1>3, PlaceFacts DEF Read, Active
  <2>2. CASE \E outcome \in {"failed", "same"} : Leave(p, outcome)
    <3>1. pc'[p] \in {"read", "done"}
      BY <1>0, <2>2 DEF Leave
    <3> QED
      BY <1>0, <2>1, <3>1, StillWritten, SafeStep
  <2>3. CASE plan' = [plan EXCEPT ![p] = Updated(t, file[t], command[p])]
             /\ pc' = [pc EXCEPT ![p] = "truncate"] /\ UNCHANGED at
    <3>1. pc'[p] = "truncate" /\ at'[p] = at[p] /\ plan'[p] = Updated(t, file[t], command[p])
      BY <1>0, <2>3 DEF StateOK
    <3>2. ASSUME t = "Codex config", theirs[t] # Absent, t \notin damaged' \cup overwritten'
          PROVE  KeptIn(theirs[t], plan'[p])
      <4>1. file[t] # Absent /\ KeptIn(theirs[t], file[t])
        BY <2>1, <3>2 DEF Safe
      <4>2. theirs[t] \in Seq(Line) /\ file[t] \in Seq(Line)
        BY <2>1, <3>2, <4>1 DEF StateOK, IsContent, Settings
      <4>3. plan'[p] = codexHooksEnabled(file[t])
        BY <3>1, <3>2, <4>1 DEF Updated, Present, Settings
      <4> QED
        BY <4>1, <4>2, <4>3, KeptInEnabled
    <3> QED
      BY <1>0, <2>1, <3>1, <3>2, StillWritten, SafeStep
  <2> QED
    BY <1>3, <2>2, <2>3 DEF Read
<1>4. CASE ReadFails(p)
  <2>1. /\ pc[p] = "read" /\ pc'[p] = "truncate" /\ sight'[p] = "blind"
        /\ UNCHANGED <<file, damaged, overwritten>>
    BY <1>0, <1>4 DEF ReadFails, StateOK
  <2> QED
    BY <1>0, <2>1, StillWritten, SafeStep
<1>5. CASE Truncate(p)
  <2>1. /\ t \in Target /\ t \in Targets /\ pc[p] = "truncate" /\ pc'[p] = "write"
        /\ UNCHANGED <<at, plan, sight, damaged>> /\ Emptied(t) # Absent
        /\ \A u \in Target : file'[u] = IF u = t THEN Emptied(t) ELSE file[u]
        /\ overwritten \subseteq overwritten'
    BY <1>0, <1>5, PlaceFacts, EmptiedIs, OverwriteOK DEF Truncate, Active
  <2>2. BeingWritten(t)'
    BY <2>1 DEF BeingWritten
  <2>3. t = "Codex config" /\ theirs[t] # Absent /\ t \notin damaged \cup overwritten /\ sight[p] = "clear"
           => KeptIn(theirs[t], plan[p])
    BY <2>1 DEF Safe
  <2> QED
    BY <1>0, <2>1, <2>2, <2>3, StillWritten, SafeStep
<1>6. CASE Write(p) \/ WriteFails(p)
  <2>1. /\ at[p] \in DOMAIN Order /\ t \in Target /\ pc[p] = "write" /\ pc'[p] \in {"read", "done"}
        /\ \A u \in Target : u # t => file'[u] = file[u]
        /\ damaged \subseteq damaged' /\ (t \in damaged' \/ file'[t] = plan[p])
        /\ overwritten \subseteq overwritten' /\ (sight[p] # "clear" => t \in overwritten')
    BY <1>0, <1>6, PlaceFacts, OverwriteOK DEF Write, WriteFails, Leave, Active
  <2>2. file'[t] # Absent
    <3>1. /\ t \in Targets /\ plan[p] \notin {Absent, Torn, None} /\ IsContent(t, plan[p])
          /\ file[t] # Absent /\ IsContent(t, file[t])
      BY <2>1, PlaceFacts DEF Active
    <3>2. CASE Write(p)
      BY <1>0, <2>1, <3>1, <3>2, MixedUp DEF Write
    <3>3. CASE WriteFails(p)
      BY <1>0, <2>1, <3>1, <3>3, LeftOver DEF WriteFails
    <3> QED
      BY <1>6, <3>2, <3>3
  <2>3. t = "Codex config" /\ theirs[t] # Absent /\ t \notin damaged' \cup overwritten'
           => KeptIn(theirs[t], plan[p])
    BY <2>1 DEF Safe
  <2> QED
    BY <1>0, <2>1, <2>2, <2>3, StillWritten, SafeStep
<1>7. CASE Crash(p)
  <2>1. /\ pc[p] = "write" /\ pc'[p] = "dead" /\ UNCHANGED <<file, at, plan, overwritten>>
        /\ damaged' = damaged \cup {t}
    BY <1>0, <1>7 DEF Crash
  <2> QED
    BY <1>0, <2>1, StillWritten, SafeStep
<1> QED
  BY <1>1, <1>2, <1>3, <1>4, <1>5, <1>6, <1>7 DEF Setup

LEMMA InitSafe ==
    ASSUME Init
    PROVE  Safe
<1> SUFFICES ASSUME NEW t \in Target \cap {"Codex config"}, theirs[t] # Absent
             PROVE  KeptIn(theirs[t], file[t])
  BY DEF Init, Safe
<1>1. file[t] = theirs[t] /\ IsContent(t, theirs[t])
  BY InitStateOK DEF Init, StateOK
<1>2. theirs[t] \in Seq(Line)
  BY <1>1 DEF IsContent, Settings
<1> QED
  BY <1>1, <1>2, KeptInItself

\* What an owner writes is kept in itself, and whoever has planned to write that
\* file has lost sight of it.
LEMMA EditSafe ==
    ASSUME StateOK, Safe, NEW e \in Edits, Edit(e)
    PROVE  Safe'
<1> SUFFICES ASSUME NEW t \in Target \cap {"Codex config"}, theirs'[t] # Absent
             PROVE  /\ file'[t] # Absent
                    /\ t \notin damaged' \cup overwritten' =>
                          /\ ~BeingWritten(t)' => KeptIn(theirs'[t], file'[t])
                          /\ \A q \in Process :
                                pc'[q] \in {"truncate", "write"} /\ Order[at'[q]] = t /\ sight'[q] = "clear"
                                   => KeptIn(theirs'[t], plan'[q])
  BY DEF Safe, KeptIn
<1>1. /\ IsContent(e.of, e.to) /\ e.to # Absent
      /\ file'[t] = (IF t = e.of THEN e.to ELSE file[t])
      /\ theirs'[t] = (IF t = e.of THEN e.to ELSE theirs[t])
      /\ \A p \in Process : sight'[p] = "clear" /\ pc[p] \in {"truncate", "write"} =>
            sight[p] = "clear" /\ Order[at[p]] # e.of
      /\ pc' = pc /\ at' = at /\ plan' = plan
  BY EditFacts
<1>2. BeingWritten(t)' <=> BeingWritten(t)
  BY <1>1 DEF BeingWritten
<1>3. t # e.of /\ t \notin damaged' \cup overwritten' => t \notin damaged \cup overwritten
  BY DEF Edit
<1>4. CASE t = e.of
  <2>1. e.to \in Seq(Line)
    BY <1>1, <1>4 DEF IsContent, Settings
  <2> QED
    BY <1>1, <1>4, <2>1, KeptInItself
<1>5. CASE t # e.of
  BY <1>1, <1>2, <1>3, <1>5 DEF Safe
<1> QED
  BY <1>4, <1>5

LEMMA StutterSafe ==
    ASSUME Safe, UNCHANGED vars
    PROVE  Safe'
<1>1. \A t : BeingWritten(t)' <=> BeingWritten(t)
  BY DEF BeingWritten, vars
<1> SUFFICES ASSUME NEW t \in Target \cap {"Codex config"}, theirs'[t] # Absent
             PROVE  /\ file'[t] # Absent
                    /\ t \notin damaged' \cup overwritten' =>
                          /\ ~BeingWritten(t)' => KeptIn(theirs'[t], file'[t])
                          /\ \A q \in Process :
                                pc'[q] \in {"truncate", "write"} /\ Order[at'[q]] = t /\ sight'[q] = "clear"
                                   => KeptIn(theirs'[t], plan'[q])
  BY DEF Safe, KeptIn
<1> QED
  BY <1>1 DEF Safe, vars

\* However many processes install and whatever happens to the other files, every
\* line that the user has written into the config of Codex stays in its section,
\* until a process dies or fails while it writes the config, another one comes too
\* close, its read has failed, or the user writes between its read and its write.
THEOREM ConfigStays == Spec => []ConfigKept
<1>1. Init => Safe
  BY InitSafe
<1>2. Tended /\ Safe /\ [Next]_vars => Safe'
  BY NextSafe, EditSafe, StutterSafe DEF Next, Tended
<1>3. Safe => ConfigKept
  BY DEF Safe, ConfigKept, Readable
<1> QED
  BY <1>1, <1>2, <1>3, TendedAlways, PTL DEF Spec

=============================================================================

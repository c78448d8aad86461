---------------------------- MODULE PacerProofs -----------------------------
(***************************************************************************)
(* Pacer keeps its slots and its requests apart, and implements SlotQueue, *)
(* for any processes, intervals and faults.                                *)
(***************************************************************************)
EXTENDS Pacer, SequenceTheorems, TLAPS

\* The places at which a process has chosen its slot, and those at which its
\* slot is one of slots.
Chosen == {"truncate", "write", "unlock", "sleep"}
Owned == {"unlock", "sleep"}

\* The types, with what the effects of Unlock and Send need to keep them.
WellFormed ==
    /\ TypeOK
    /\ \A p \in Process :
          /\ pc[p] \in Chosen => looked[p] <= next[p] /\ looked[p] <= now
          /\ pc[p] \in Owned => mine[p] \in 1..Len(slots)

-----------------------------------------------------------------------------
(* The sequences after the two steps that change them. *)

\* Write appends the chosen slot, not yet sent.
LEMMA WriteAppends ==
  ASSUME WellFormed, NEW p \in Process, Write(p)
  PROVE  /\ slots' \in Seq(Slot) /\ sends' \in Seq(Nat \cup {None})
         /\ Len(slots') = Len(slots) + 1 /\ Len(sends') = Len(sends) + 1
         /\ \A i \in 1..Len(slots) : slots'[i] = slots[i] /\ sends'[i] = sends[i]
         /\ slots'[Len(slots) + 1] =
               [epoch |-> epoch, asked |-> looked[p], at |-> next[p], gap |-> Interval[p]]
         /\ sends'[Len(slots) + 1] = None
<1> DEFINE s == [epoch |-> epoch, asked |-> looked[p], at |-> next[p], gap |-> Interval[p]]
<1>1. s \in Slot
  BY ConstantsOK DEF ConstantsOK, WellFormed, TypeOK, Slot
<1>2. /\ slots \in Seq(Slot) /\ sends \in Seq(Nat \cup {None})
      /\ Len(sends) = Len(slots)
      /\ slots' = Append(slots, s) /\ sends' = Append(sends, None)
  BY DEF WellFormed, TypeOK, Write
<1> HIDE DEF s
<1>3. /\ slots' \in Seq(Slot) /\ Len(slots') = Len(slots) + 1
      /\ \A i \in 1..Len(slots) : slots'[i] = slots[i]
      /\ slots'[Len(slots) + 1] = s
  BY <1>1, <1>2, AppendProperties
<1>4. None \in Nat \cup {None}
  OBVIOUS
<1>5. /\ sends' \in Seq(Nat \cup {None}) /\ Len(sends') = Len(sends) + 1
      /\ \A i \in 1..Len(sends) : sends'[i] = sends[i]
      /\ sends'[Len(sends) + 1] = None
  BY <1>2, <1>4, AppendProperties
<1> QED
  BY <1>2, <1>3, <1>5 DEF s

\* Send sets the time of the process's own slot.
LEMMA SendSets ==
  ASSUME WellFormed, NEW p \in Process, Send(p)
  PROVE  /\ sends' \in Seq(Nat \cup {None}) /\ Len(sends') = Len(sends)
         /\ mine[p] \in 1..Len(slots)
         /\ \A j \in 1..Len(sends) :
               sends'[j] = IF j = mine[p] THEN now ELSE sends[j]
<1>1. /\ sends \in Seq(Nat \cup {None}) /\ now \in Nat \cup {None}
      /\ mine[p] \in 1..Len(sends) /\ Len(sends) = Len(slots)
      /\ sends' = [sends EXCEPT ![mine[p]] = now]
  BY DEF WellFormed, TypeOK, Send, Owned
<1> QED
  BY <1>1, ExceptSeq

-----------------------------------------------------------------------------
(* Types, and who holds the lock. *)

LEMMA TypeInit == Init => WellFormed
<1>1. <<>> \in Seq(Slot) /\ <<>> \in Seq(Nat \cup {None}) /\ Len(<<>>) = 0
  BY EmptySeq
<1> QED
  BY <1>1, ConstantsOK
  DEF ConstantsOK, Init, WellFormed, TypeOK, Places, Locked, Chosen, Owned

LEMMA TypeStep == WellFormed /\ [Next]_vars => WellFormed'
<1> SUFFICES ASSUME WellFormed, [Next]_vars PROVE WellFormed'
  OBVIOUS
<1> USE ConstantsOK
    DEF ConstantsOK, WellFormed, TypeOK, Places, Locked, Chosen, Owned, local, record
<1>0. Len(slots) \in Nat
  BY LenProperties
<1>1. ASSUME NEW p \in Process, Begin(p) PROVE WellFormed'
  <2>1. left' \in [Process -> 0..Requests]
    <3>1. left[p] - 1 \in 0..Requests
      BY <1>1 DEF Begin
    <3> QED
      BY <1>1, <3>1 DEF Begin
  <2>2. pc' = pc \/ pc' = [pc EXCEPT ![p] = "lock"]
    BY <1>1 DEF Begin, Goto
  <2> QED
    BY <1>1, <2>1, <2>2 DEF Begin
<1>2. ASSUME NEW p \in Process, ReserveFails(p) PROVE WellFormed'
  BY <1>2 DEF ReserveFails, Leave, Goto
<1>3. ASSUME NEW p \in Process, Lock(p) PROVE WellFormed'
  BY <1>3 DEF Lock, Goto
<1>4. ASSUME NEW p \in Process, Look(p) PROVE WellFormed'
  BY <1>4 DEF Look, Goto, Jitter
<1>5. ASSUME NEW p \in Process, Truncate(p) PROVE WellFormed'
  BY <1>5 DEF Truncate, Goto
<1>6. ASSUME NEW p \in Process, Write(p) PROVE WellFormed'
  <2>1. /\ slots' \in Seq(Slot) /\ sends' \in Seq(Nat \cup {None})
        /\ Len(slots') = Len(slots) + 1 /\ Len(sends') = Len(slots')
    BY <1>6, WriteAppends
  <2>2. mine' \in [Process -> Nat] /\ mine'[p] = Len(slots) + 1
    BY <1>0, <1>6 DEF Write
  <2>3. TypeOK'
    BY <1>6, <2>1, <2>2 DEF Write, Goto
  <2>4. ASSUME NEW q \in Process PROVE pc'[q] \in Owned => mine'[q] \in 1..Len(slots')
    <3>1. CASE q = p
      BY <1>0, <2>1, <2>2, <3>1
    <3>2. CASE q # p
      BY <1>0, <1>6, <2>1, <3>2 DEF Write, Goto
    <3> QED
      BY <3>1, <3>2
  <2>5. ASSUME NEW q \in Process
        PROVE pc'[q] \in Chosen => looked'[q] <= next'[q] /\ looked'[q] <= now'
    BY <1>6 DEF Write, Goto
  <2> QED
    BY <2>3, <2>4, <2>5
<1>7. ASSUME NEW p \in Process, Unlock(p) PROVE WellFormed'
  <2>1. now + Wait(p) \in Nat
    BY <1>7 DEF Unlock, Wait
  <2> QED
    BY <1>7, <2>1 DEF Unlock, Goto
<1>8. ASSUME NEW p \in Process, Send(p) PROVE WellFormed'
  <2>1. sends' \in Seq(Nat \cup {None}) /\ Len(sends') = Len(sends)
    BY <1>8, SendSets
  <2> QED
    BY <1>8, <2>1 DEF Send, Leave, Goto
<1>9. ASSUME NEW p \in Process, Crash(p) PROVE WellFormed'
  <2>1. epoch' \in Nat
    BY <1>9 DEF Crash
  <2>2. holder' \in Process \cup {None} /\ \A q \in Process : holder' = q <=> pc'[q] \in Locked
    BY <1>9 DEF Crash, Leave, Goto
  <2> QED
    BY <1>9, <2>1, <2>2 DEF Crash, Leave, Goto
<1>10. CASE Tick
  BY <1>10 DEF Tick
<1>11. CASE UNCHANGED vars
  BY <1>11 DEF vars
<1> QED
  BY <1>1, <1>2, <1>3, <1>4, <1>5, <1>6, <1>7, <1>8, <1>9, <1>10, <1>11
  DEF Next, Step

\* Every variable keeps its type, and the lock is held by the one process
\* that is at its bookkeeping (lockFile, reserveSlot).
THEOREM TypeCorrect == Spec => []TypeOK
<1>1. WellFormed => TypeOK
  BY DEF WellFormed
<1> QED
  BY <1>1, TypeInit, TypeStep, PTL DEF Spec

-----------------------------------------------------------------------------
(* Slots.  The file records the latest slot of the epoch except while its  *)
(* writer has truncated it; until that writer is done, its own choice is   *)
(* far enough after all of them.                                           *)

FollowsAll(p) ==
    \A i \in DOMAIN slots : slots[i].epoch = epoch => next[p] >= slots[i].at + Interval[p]

Recorded ==
    \A i \in DOMAIN slots :
        slots[i].epoch = epoch => file # None /\ slots[i].at <= file

SlotsKept ==
    /\ \A p \in Process : pc[p] \in {"truncate", "write"} => FollowsAll(p)
    /\ (\A p \in Process : pc[p] # "write") => Recorded
    /\ \A i \in DOMAIN slots : slots[i].epoch <= epoch
    /\ SlotsSpaced

LEMMA SlotsInit == Init => SlotsKept
  BY DEF Init, SlotsKept, Recorded, FollowsAll, SlotsSpaced

LEMMA SlotsStep == WellFormed /\ SlotsKept /\ [Next]_vars => SlotsKept'
<1> SUFFICES ASSUME WellFormed, SlotsKept, [Next]_vars PROVE SlotsKept'
  OBVIOUS
<1>1. /\ slots \in Seq(Slot) /\ Len(slots) \in Nat /\ DOMAIN slots = 1..Len(slots)
      /\ \A i \in DOMAIN slots : slots[i].at \in Nat /\ slots[i].epoch \in Nat
  <2>1. slots \in Seq(Slot)
    BY DEF WellFormed, TypeOK
  <2>2. Len(slots) \in Nat /\ DOMAIN slots = 1..Len(slots)
    BY <2>1, LenProperties
  <2>3. \A i \in DOMAIN slots : slots[i] \in Slot
    BY <2>1, <2>2, ElementOfSeq
  <2> QED
    BY <2>1, <2>2, <2>3 DEF Slot
<1>2. ASSUME UNCHANGED <<file, slots, epoch>>,
             \A q \in Process : pc'[q] \in {"truncate", "write"} =>
                               pc'[q] = pc[q] /\ next'[q] = next[q],
             \A q \in Process : pc[q] = "write" => pc'[q] = "write"
      PROVE  SlotsKept'
  BY <1>2 DEF SlotsKept, Recorded, FollowsAll, SlotsSpaced
<1>3. ASSUME NEW p \in Process,
             Begin(p) \/ ReserveFails(p) \/ Lock(p) \/ Unlock(p) \/ Send(p)
      PROVE  SlotsKept'
  <2>1. CASE Begin(p)
    BY <1>2, <2>1 DEF Begin, Goto, record, local, WellFormed, TypeOK
  <2>2. CASE ReserveFails(p)
    BY <1>2, <2>2 DEF ReserveFails, Leave, Goto, record, WellFormed, TypeOK
  <2>3. CASE Lock(p)
    BY <1>2, <2>3 DEF Lock, Goto, record, local, WellFormed, TypeOK
  <2>4. CASE Unlock(p)
    BY <1>2, <2>4 DEF Unlock, Goto, record, WellFormed, TypeOK
  <2>5. CASE Send(p)
    BY <1>2, <2>5 DEF Send, Leave, Goto, WellFormed, TypeOK
  <2> QED
    BY <1>3, <2>1, <2>2, <2>3, <2>4, <2>5
<1>4. ASSUME NEW p \in Process, Look(p) PROVE SlotsKept'
  <2>1. Recorded
    BY <1>4 DEF Look, SlotsKept, WellFormed, TypeOK, Locked
  <2>2. PICK j \in Jitter(Interval[p]) :
          next' = [next EXCEPT ![p] = IF file # None /\ file + Interval[p] + j > now
                                      THEN file + Interval[p] + j
                                      ELSE now]
    BY <1>4 DEF Look
  <2>3. j \in Nat /\ Interval[p] \in Nat
    BY <2>2, ConstantsOK DEF ConstantsOK, Jitter
  <2>4. next'[p] >= file + Interval[p] \/ file = None
    BY <2>2, <2>3 DEF WellFormed, TypeOK
  <2>5. FollowsAll(p)'
    <3>1. next'[p] \in Nat
      BY <2>2, <2>3 DEF WellFormed, TypeOK
    <3>2. ASSUME NEW i \in DOMAIN slots, slots[i].epoch = epoch
          PROVE  next'[p] >= slots[i].at + Interval[p]
      <4>1. file \in Nat /\ slots[i].at <= file /\ slots[i].at \in Nat
        BY <1>1, <2>1, <3>2 DEF Recorded, WellFormed, TypeOK
      <4> QED
        BY <2>3, <2>4, <3>1, <4>1, ConstantsOK DEF ConstantsOK
    <3> QED
      BY <1>4, <3>2 DEF Look, FollowsAll, record
  <2> QED
    BY <1>4, <2>1, <2>5
    DEF Look, Goto, record, SlotsKept, Recorded, FollowsAll, SlotsSpaced, WellFormed, TypeOK
<1>5. ASSUME NEW p \in Process, Truncate(p) PROVE SlotsKept'
  BY <1>5 DEF Truncate, Goto, record, local, SlotsKept, Recorded, FollowsAll, SlotsSpaced,
     WellFormed, TypeOK
<1>6. ASSUME NEW p \in Process, Write(p) PROVE SlotsKept'
  <2>1. /\ Len(slots') = Len(slots) + 1 /\ DOMAIN slots' = 1..(Len(slots) + 1)
        /\ \A i \in 1..Len(slots) : slots'[i] = slots[i]
        /\ slots'[Len(slots) + 1] =
              [epoch |-> epoch, asked |-> looked[p], at |-> next[p], gap |-> Interval[p]]
    BY <1>6, WriteAppends, LenProperties
  <2>2. FollowsAll(p) /\ next[p] \in Nat /\ Interval[p] \in Nat /\ epoch \in Nat
    BY <1>6, ConstantsOK DEF ConstantsOK, Write, SlotsKept, WellFormed, TypeOK
  <2>3. \A q \in Process : pc'[q] \notin {"truncate", "write"}
    BY <1>6 DEF Write, Goto, WellFormed, TypeOK, Locked
  <2>4. SlotsSpaced'
    <3> SUFFICES ASSUME NEW i \in DOMAIN slots', NEW j \in DOMAIN slots', i < j,
                        slots'[i].epoch = slots'[j].epoch
                 PROVE  slots'[j].at >= slots'[i].at + slots'[j].gap
      BY DEF SlotsSpaced
    <3>1. i \in DOMAIN slots /\ slots'[i] = slots[i]
      BY <1>1, <2>1
    <3>2. CASE j = Len(slots) + 1
      BY <2>1, <2>2, <3>1, <3>2 DEF FollowsAll
    <3>3. CASE j \in DOMAIN slots
      BY <1>1, <2>1, <3>1, <3>3 DEF SlotsKept, SlotsSpaced
    <3> QED
      BY <1>1, <2>1, <3>2, <3>3
  <2>5. epoch' \in {epoch, epoch + 1} /\ \A i \in DOMAIN slots' : slots'[i].epoch <= epoch
    BY <1>1, <1>6, <2>1, <2>2 DEF Write, SlotsKept
  <2>6. Recorded'
    <3>1. CASE file' = next[p] /\ epoch' = epoch
      BY <1>1, <2>1, <2>2, <3>1, ConstantsOK DEF ConstantsOK, Recorded, FollowsAll
    <3>2. CASE epoch' = epoch + 1
      BY <1>1, <2>1, <2>2, <2>5, <3>2 DEF Recorded
    <3> QED
      BY <1>6, <3>1, <3>2 DEF Write
  <2> QED
    BY <1>1, <2>1, <2>2, <2>3, <2>4, <2>5, <2>6 DEF SlotsKept
<1>7. ASSUME NEW p \in Process, Crash(p) PROVE SlotsKept'
  <2>1. CASE pc[p] = "write"
    <3>1. epoch' = epoch + 1 /\ epoch \in Nat /\ UNCHANGED <<file, slots>>
      BY <1>7, <2>1 DEF Crash, WellFormed, TypeOK
    <3>2. \A i \in DOMAIN slots : slots[i].epoch # epoch' /\ slots[i].epoch <= epoch'
      BY <1>1, <3>1 DEF SlotsKept
    <3> QED
      BY <3>1, <3>2 DEF SlotsKept, Recorded, FollowsAll, SlotsSpaced
  <2>2. CASE pc[p] # "write"
    BY <1>2, <1>7, <2>2 DEF Crash, Leave, Goto, WellFormed, TypeOK
  <2> QED
    BY <2>1, <2>2
<1>8. CASE Tick
  BY <1>2, <1>8 DEF Tick, record, local
<1>9. CASE UNCHANGED vars
  BY <1>2, <1>9 DEF vars, record, local
<1> QED
  BY <1>3, <1>4, <1>5, <1>6, <1>7, <1>8, <1>9 DEF Next, Step

\* Whatever processes, intervals, crashes and failing writes there are, every
\* slot is the interval of its process after each slot of its epoch before it
\* (reserveSlot under lockFile).
THEOREM SlotsApart == Spec => []SlotsSpaced
<1>1. SlotsKept => SlotsSpaced
  BY DEF SlotsKept
<1> QED
  BY <1>1, TypeInit, TypeStep, SlotsInit, SlotsStep, PTL DEF Spec

-----------------------------------------------------------------------------
(* Sends.  A process is never more than MaxLate ticks behind, so a request  *)
(* that is not held back for the longest time leaves in its slot.           *)

InTime ==
    \A p \in Process :
        /\ pc[p] \in {"truncate", "write", "unlock"} => now <= looked[p] + MaxLate
        /\ pc[p] = "sleep" =>
              /\ looked[p] + Wait(p) <= wake[p]
              /\ now <= looked[p] + Wait(p) + MaxLate
        /\ pc[p] \in Owned =>
              /\ slots[mine[p]].asked = looked[p]
              /\ slots[mine[p]].at = next[p]

SentInSlot(i) ==
    sends[i] # None /\ ~BeyondCap(i) =>
        slots[i].at <= sends[i] /\ sends[i] <= slots[i].at + MaxLate

SendsKept == InTime /\ \A i \in DOMAIN slots : SentInSlot(i)

LEMMA SendsInit == Init => SendsKept
  BY DEF Init, SendsKept, InTime, SentInSlot, Owned

LEMMA SendsStep == WellFormed /\ SendsKept /\ [Next]_vars => SendsKept'
<1> SUFFICES ASSUME WellFormed, SendsKept, [Next]_vars PROVE SendsKept'
  OBVIOUS
<1> USE ConstantsOK DEF ConstantsOK
<1>1. /\ slots \in Seq(Slot) /\ Len(slots) \in Nat /\ DOMAIN slots = 1..Len(slots)
      /\ Len(sends) = Len(slots)
      /\ \A i \in DOMAIN slots : slots[i].at \in Nat /\ slots[i].asked \in Nat
  <2>1. slots \in Seq(Slot) /\ Len(sends) = Len(slots)
    BY DEF WellFormed, TypeOK
  <2>2. Len(slots) \in Nat /\ DOMAIN slots = 1..Len(slots)
    BY <2>1, LenProperties
  <2>3. \A i \in DOMAIN slots : slots[i] \in Slot
    BY <2>1, <2>2, ElementOfSeq
  <2> QED
    BY <2>1, <2>2, <2>3 DEF Slot
<1>2. ASSUME UNCHANGED <<slots, sends>>, InTime' PROVE SendsKept'
  BY <1>2 DEF SendsKept, SentInSlot, BeyondCap
<1>3. ASSUME UNCHANGED <<now, slots>>,
             \A q \in Process : pc'[q] \in Chosen =>
                /\ pc'[q] = pc[q] /\ looked'[q] = looked[q] /\ next'[q] = next[q]
                /\ wake'[q] = wake[q] /\ mine'[q] = mine[q]
      PROVE  InTime'
  BY <1>3 DEF SendsKept, InTime, Owned, Chosen, Wait
<1>4. ASSUME NEW p \in Process, Begin(p) PROVE SendsKept'
  BY <1>2, <1>3, <1>4 DEF Begin, Goto, record, local, Chosen, WellFormed, TypeOK
<1>5. ASSUME NEW p \in Process, ReserveFails(p) PROVE SendsKept'
  BY <1>2, <1>3, <1>5 DEF ReserveFails, Leave, Goto, record, Chosen, WellFormed, TypeOK
<1>6. ASSUME NEW p \in Process, Lock(p) PROVE SendsKept'
  BY <1>2, <1>3, <1>6 DEF Lock, Goto, record, local, Chosen, WellFormed, TypeOK
<1>7. ASSUME NEW p \in Process, Look(p) PROVE SendsKept'
  <2>1. /\ UNCHANGED <<now, wake, mine, slots, sends>>
        /\ pc' = [pc EXCEPT ![p] = "truncate"] /\ looked' = [looked EXCEPT ![p] = now]
        /\ \A q \in Process : q # p => next'[q] = next[q]
    BY <1>7 DEF Look, Goto, record, WellFormed, TypeOK
  <2> QED
    BY <1>2, <2>1 DEF SendsKept, InTime, Owned, Wait, WellFormed, TypeOK
<1>8. ASSUME NEW p \in Process, Truncate(p) PROVE SendsKept'
  BY <1>2, <1>8
  DEF Truncate, Goto, record, local, SendsKept, InTime, Owned, Wait, WellFormed, TypeOK
<1>9. ASSUME NEW p \in Process, Write(p) PROVE SendsKept'
  <2>1. /\ Len(slots') = Len(slots) + 1 /\ DOMAIN slots' = 1..(Len(slots) + 1)
        /\ \A i \in 1..Len(slots) : slots'[i] = slots[i] /\ sends'[i] = sends[i]
        /\ slots'[Len(slots) + 1] =
              [epoch |-> epoch, asked |-> looked[p], at |-> next[p], gap |-> Interval[p]]
        /\ sends'[Len(slots) + 1] = None
    BY <1>9, WriteAppends, LenProperties
  <2>2. /\ UNCHANGED <<now, looked, next, wake>>
        /\ pc[p] = "write" /\ pc' = [pc EXCEPT ![p] = "unlock"]
        /\ mine' = [mine EXCEPT ![p] = Len(slots) + 1]
    BY <1>9 DEF Write, Goto
  <2>3. ASSUME NEW q \in Process, pc'[q] \in Owned
        PROVE  slots'[mine'[q]].asked = looked[q] /\ slots'[mine'[q]].at = next[q]
    <3>1. CASE q = p
      BY <2>1, <2>2, <3>1 DEF WellFormed, TypeOK
    <3>2. CASE q # p
      <4>1. pc[q] \in Owned /\ mine'[q] = mine[q] /\ mine[q] \in 1..Len(slots)
        BY <2>2, <2>3, <3>2 DEF WellFormed, TypeOK
      <4> QED
        BY <2>1, <4>1 DEF SendsKept, InTime
    <3> QED
      BY <3>1, <3>2
  <2>4. InTime'
    BY <2>2, <2>3 DEF SendsKept, InTime, Wait, WellFormed, TypeOK
  <2>5. ASSUME NEW i \in DOMAIN slots' PROVE SentInSlot(i)'
    <3>1. CASE i \in DOMAIN slots
      BY <1>1, <2>1, <3>1 DEF SendsKept, SentInSlot, BeyondCap
    <3>2. CASE i = Len(slots) + 1
      BY <2>1, <3>2 DEF SentInSlot
    <3> QED
      BY <1>1, <2>1, <3>1, <3>2
  <2> QED
    BY <2>4, <2>5 DEF SendsKept
<1>10. ASSUME NEW p \in Process, Unlock(p) PROVE SendsKept'
  <2>1. /\ UNCHANGED <<now, looked, next, mine, slots, sends>>
        /\ pc[p] = "unlock" /\ pc' = [pc EXCEPT ![p] = "sleep"]
        /\ wake' = [wake EXCEPT ![p] = now + Wait(p)]
        /\ looked[p] <= now /\ looked[p] <= next[p] /\ now <= looked[p] + MaxLate
    BY <1>10 DEF Unlock, Goto, record, SendsKept, InTime, WellFormed, TypeOK, Chosen
  <2>2. \A q \in Process : Wait(q)' = Wait(q) /\ Wait(q) \in Int
    BY <2>1 DEF Wait, WellFormed, TypeOK
  <2>3. Wait(p) >= 0
    BY <2>1 DEF Wait, WellFormed, TypeOK
  <2>4. InTime'
    <3> SUFFICES ASSUME NEW q \in Process
                 PROVE  /\ pc'[q] \in {"truncate", "write", "unlock"} =>
                              now <= looked[q] + MaxLate
                        /\ pc'[q] = "sleep" =>
                              /\ looked[q] + Wait(q) <= wake'[q]
                              /\ now <= looked[q] + Wait(q) + MaxLate
                        /\ pc'[q] \in Owned =>
                              /\ slots[mine[q]].asked = looked[q]
                              /\ slots[mine[q]].at = next[q]
      BY <2>1, <2>2 DEF InTime
    <3>1. CASE q = p
      <4>1. wake'[p] = now + Wait(p) /\ pc'[p] = "sleep"
        BY <2>1 DEF WellFormed, TypeOK
      <4>2. /\ looked[p] + Wait(p) <= now + Wait(p)
            /\ now <= looked[p] + Wait(p) + MaxLate
        <5>1. now \in Nat /\ looked[p] \in Nat /\ MaxLate \in Nat /\ Wait(p) \in Int
          BY <2>2 DEF WellFormed, TypeOK
        <5>2. looked[p] <= now /\ now <= looked[p] + MaxLate
          BY <2>1
        <5> QED
          BY <2>3, <5>1, <5>2
      <4>3. slots[mine[p]].asked = looked[p] /\ slots[mine[p]].at = next[p]
        BY <2>1 DEF SendsKept, InTime, Owned
      <4> QED
        BY <3>1, <4>1, <4>2, <4>3
    <3>2. CASE q # p
      BY <2>1, <3>2 DEF SendsKept, InTime, Owned, WellFormed, TypeOK
    <3> QED
      BY <3>1, <3>2
  <2> QED
    BY <1>2, <2>1, <2>4
<1>11. ASSUME NEW p \in Process, Send(p) PROVE SendsKept'
  <2>1. /\ Len(sends') = Len(sends) /\ mine[p] \in 1..Len(slots)
        /\ \A i \in 1..Len(sends) : sends'[i] = IF i = mine[p] THEN now ELSE sends[i]
    BY <1>11, SendSets
  <2>2. /\ UNCHANGED <<now, slots>> /\ pc[p] = "sleep" /\ now >= wake[p]
        /\ looked[p] + Wait(p) <= wake[p] /\ now <= looked[p] + Wait(p) + MaxLate
        /\ slots[mine[p]].asked = looked[p] /\ slots[mine[p]].at = next[p]
    BY <1>11 DEF Send, SendsKept, InTime, Owned
  <2>3. InTime'
    BY <1>3, <1>11 DEF Send, Leave, Goto, Chosen, WellFormed, TypeOK
  <2>4. ASSUME NEW i \in DOMAIN slots PROVE SentInSlot(i)'
    <3>1. CASE i = mine[p]
      <4>1. sends'[i] = now /\ slots'[i].asked = looked[p] /\ slots'[i].at = next[p]
        BY <1>1, <2>1, <2>2, <3>1
      <4>2. ~BeyondCap(i)' => Wait(p) = next[p] - looked[p]
        BY <4>1 DEF BeyondCap, Wait
      <4>3. /\ now \in Nat /\ wake[p] \in Nat /\ looked[p] \in Nat /\ next[p] \in Nat
            /\ MaxLate \in Nat
        BY DEF WellFormed, TypeOK
      <4>4. ~BeyondCap(i)' => next[p] <= now /\ now <= next[p] + MaxLate
        BY <2>2, <4>2, <4>3
      <4> QED
        BY <4>1, <4>4 DEF SentInSlot
    <3>2. CASE i # mine[p]
      BY <1>1, <2>1, <2>2, <3>2 DEF SendsKept, SentInSlot, BeyondCap
    <3> QED
      BY <3>1, <3>2
  <2> QED
    BY <2>2, <2>3, <2>4 DEF SendsKept
<1>12. ASSUME NEW p \in Process, Crash(p) PROVE SendsKept'
  BY <1>2, <1>3, <1>12 DEF Crash, Leave, Goto, Chosen, WellFormed, TypeOK
<1>13. CASE Tick
  <2>1. \A q \in Process : Wait(q)' = Wait(q) /\ Wait(q) \in Int
    BY <1>13 DEF Tick, local, Wait, WellFormed, TypeOK
  <2>2. InTime'
    <3>1. /\ now \in Nat /\ now' = now + 1 /\ looked \in [Process -> Nat]
          /\ UNCHANGED <<pc, looked, next, wake, mine, slots>>
      BY <1>13 DEF Tick, local, record, WellFormed, TypeOK
    <3>2. \A q \in Process :
             /\ pc[q] \in {"truncate", "write", "unlock"} => now + 1 <= looked[q] + MaxLate
             /\ pc[q] = "sleep" => now + 1 <= looked[q] + Wait(q) + MaxLate
      BY <1>13, <2>1, <3>1 DEF Tick
    <3> QED
      BY <2>1, <3>1, <3>2 DEF SendsKept, InTime
  <2> QED
    BY <1>2, <1>13, <2>2 DEF Tick, record
<1>14. CASE UNCHANGED vars
  BY <1>2, <1>3, <1>14 DEF vars, record, local
<1> QED
  BY <1>4, <1>5, <1>6, <1>7, <1>8, <1>9, <1>10, <1>11, <1>12, <1>13, <1>14 DEF Next, Step

\* Requests whose slots are not further ahead than maxPacerWait are sent the
\* interval apart, in the order of their slots, up to the time by which their
\* processes are late (pace).
THEOREM SendsApart == Spec => []SendsSpaced
<1>1. WellFormed /\ SlotsKept /\ SendsKept => SendsSpaced
  <2> SUFFICES ASSUME WellFormed, SlotsKept, SendsKept,
                      NEW i \in DOMAIN slots, NEW j \in DOMAIN slots,
                      ~BeyondCap(i), ~BeyondCap(j), i < j,
                      slots[i].epoch = slots[j].epoch, sends[i] # None, sends[j] # None
               PROVE  sends[j] - sends[i] >= slots[j].gap - MaxLate
    BY DEF SendsSpaced, Apart
  <2>1. slots \in Seq(Slot) /\ sends \in Seq(Nat \cup {None}) /\ Len(sends) = Len(slots)
    BY DEF WellFormed, TypeOK
  <2>2. i \in 1..Len(slots) /\ j \in 1..Len(slots)
    BY <2>1, LenProperties
  <2>3. slots[i] \in Slot /\ slots[j] \in Slot
    BY <2>1, <2>2, ElementOfSeq
  <2>4. sends[i] \in Nat /\ sends[j] \in Nat
    BY <2>1, <2>2, ElementOfSeq
  <2>5. slots[j].at >= slots[i].at + slots[j].gap
    BY DEF SlotsKept, SlotsSpaced
  <2>6. sends[i] <= slots[i].at + MaxLate /\ slots[j].at <= sends[j]
    BY DEF SendsKept, SentInSlot
  <2> QED
    BY <2>3, <2>4, <2>5, <2>6, ConstantsOK DEF ConstantsOK, Slot
<1> QED
  BY <1>1, TypeInit, TypeStep, SlotsInit, SlotsStep, SendsInit, SendsStep, PTL DEF Spec

-----------------------------------------------------------------------------
(* Pacer implements SlotQueue: Write hands out a slot, a write that fails   *)
(* or never happens forgets the record, everything else is a stutter.       *)

LEMMA QueueStep == WellFormed /\ SlotsKept /\ [Next]_vars => [Queue!QueueNext]_(Queue!queueVars)
<1> SUFFICES ASSUME WellFormed, SlotsKept, [Next]_vars
             PROVE  [Queue!QueueNext]_(Queue!queueVars)
  OBVIOUS
<1> USE DEF Queue!QueueNext, Queue!queueVars
<1>1. ASSUME NEW p \in Process, Write(p) PROVE Queue!QueueNext
  <2> DEFINE s == [epoch |-> epoch, asked |-> looked[p], at |-> next[p], gap |-> Interval[p]]
  <2>1. Len(slots') = Len(slots) + 1 /\ slots' = Append(slots, s)
        /\ slots'[Len(slots')] = s
    BY <1>1, WriteAppends DEF Write
  <2>2. looked[p] <= next[p] /\ FollowsAll(p)
    BY <1>1 DEF Write, WellFormed, Chosen, SlotsKept
  <2>3. Queue!Grants(p, s)
    BY <2>1, <2>2 DEF Queue!Grants, Queue!Follows, FollowsAll
  <2>4. Queue!Grant
    BY <2>1, <2>3 DEF Queue!Grant
  <2>5. Queue!Forget \/ UNCHANGED epoch
    BY <1>1 DEF Write, Queue!Forget
  <2> QED
    BY <2>4, <2>5
<1>2. ASSUME NEW p \in Process, Crash(p) PROVE [Queue!QueueNext]_(Queue!queueVars)
  BY <1>2 DEF Crash, Queue!Forget
<1>3. ASSUME NEW p \in Process,
             Begin(p) \/ ReserveFails(p) \/ Lock(p) \/ Look(p) \/ Truncate(p)
               \/ Unlock(p) \/ Send(p)
      PROVE  UNCHANGED <<slots, epoch>>
  BY <1>3 DEF Begin, ReserveFails, Lock, Look, Truncate, Unlock, Send, record
<1>4. CASE Tick
  BY <1>4 DEF Tick, record
<1>5. CASE UNCHANGED vars
  BY <1>5 DEF vars, record
<1> QED
  BY <1>1, <1>2, <1>3, <1>4, <1>5 DEF Next, Step

\* The lock, the file and the sleeps of pace.go implement the queue of slots.
THEOREM Implements == Spec => ImplementsQueue
<1>1. Init => Queue!QueueInit
  BY DEF Init, Queue!QueueInit
<1> QED
  BY <1>1, QueueStep, TypeInit, TypeStep, SlotsInit, SlotsStep, PTL
  DEF Spec, ImplementsQueue, Queue!QueueSpec

=============================================================================

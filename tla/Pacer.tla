------------------------------- MODULE Pacer --------------------------------
(***************************************************************************)
(* Pacing of REST requests (internal/app/pace.go, lock_unix.go).  Before   *)
(* each request a process locks a file shared by all processes, reads the  *)
(* last send slot from it, writes the next one, unlocks the file and       *)
(* sleeps until its slot.                                                  *)
(*                                                                         *)
(* Time is a counter of ticks.  The file holds None (it is new, or empty)  *)
(* or a slot; its digits are left out, because only digits are ever        *)
(* written and an empty file is the one content that does not parse.       *)
(***************************************************************************)
EXTENDS Integers, Sequences

CONSTANTS
    Process,   \* the processes on this machine
    Interval,  \* DISCORD_AXI_MIN_INTERVAL_MS of each process, in ticks
    MaxWait,   \* maxPacerWait
    MaxLate,   \* how late, in ticks, a process runs at most
    Faults,    \* a subset of {"crash", "ioFails"}
    Requests,  \* bound: how many requests a process makes
    MaxTime,   \* bound: the tick at which the clock stops when nobody sleeps
    None       \* no slot, no process

ASSUME ConstantsOK ==
    /\ Interval \in [Process -> Nat]
    /\ MaxWait \in Nat /\ MaxLate \in Nat
    /\ Requests \in Nat /\ MaxTime \in Nat
    /\ None \notin Process \cup Nat

VARIABLES
    now,     \* the clock
    file,    \* the slot in the file
    holder,  \* the process that holds the lock
    pc,      \* where each process is in pace and reserveSlot
    left,    \* how many requests each process has still to make
    looked,  \* the time at which it looked at the file
    next,    \* the slot it has chosen
    wake,    \* when its sleep ends
    mine,    \* the index of its slot in slots
    slots,   \* every slot handed out, oldest first
    sends,   \* when the request of each slot was sent, None until then
    epoch    \* how often the content of the file has been lost

local == <<looked, next, wake, mine>>
record == <<slots, sends, epoch>>
vars == <<now, file, holder, pc, left, local, record>>

Places == {"idle", "lock", "look", "truncate", "write", "unlock", "sleep"}

\* The places at which the process holds the lock.
Locked == {"look", "truncate", "write", "unlock"}

Slot == [epoch : Nat, asked : Nat, at : Nat, gap : Nat]

TypeOK ==
    /\ now \in Nat
    /\ file \in Nat \cup {None}
    /\ holder \in Process \cup {None}
    /\ pc \in [Process -> Places]
    /\ left \in [Process -> 0..Requests]
    /\ looked \in [Process -> Nat]
    /\ next \in [Process -> Nat]
    /\ wake \in [Process -> Nat]
    /\ mine \in [Process -> Nat]
    /\ slots \in Seq(Slot)
    /\ sends \in Seq(Nat \cup {None})
    /\ Len(sends) = Len(slots)
    /\ epoch \in Nat
    /\ \A p \in Process : holder = p <=> pc[p] \in Locked

Init ==
    /\ now = 0
    /\ file = None
    /\ holder = None
    /\ pc = [p \in Process |-> "idle"]
    /\ left = [p \in Process |-> Requests]
    /\ looked = [p \in Process |-> 0]
    /\ next = [p \in Process |-> 0]
    /\ wake = [p \in Process |-> 0]
    /\ mine = [p \in Process |-> 0]
    /\ slots = <<>>
    /\ sends = <<>>
    /\ epoch = 0

-----------------------------------------------------------------------------
\* rand.Float64() * jitterFraction * interval, less than two fifths of it.
Jitter(interval) == {0} \cup {j \in 1..interval : 5 * j < 2 * interval}

\* The wait reserveSlot returns.
Wait(p) == IF next[p] - looked[p] > MaxWait THEN MaxWait ELSE next[p] - looked[p]

Goto(p, place) == pc' = [pc EXCEPT ![p] = place]

\* pace has returned, or the process has died: its local variables are gone.
Leave(p) ==
    /\ Goto(p, "idle")
    /\ looked' = [looked EXCEPT ![p] = 0]
    /\ next' = [next EXCEPT ![p] = 0]
    /\ wake' = [wake EXCEPT ![p] = 0]
    /\ mine' = [mine EXCEPT ![p] = 0]

\* A REST call runs the pacedRequest hook; with an interval of 0 the request
\* is sent without looking at the file.
Begin(p) ==
    /\ pc[p] = "idle" /\ left[p] > 0
    /\ left' = [left EXCEPT ![p] = @ - 1]
    /\ IF Interval[p] = 0 THEN UNCHANGED pc ELSE Goto(p, "lock")
    /\ UNCHANGED <<now, file, holder, local, record>>

\* The file cannot be opened or locked: the request is sent at once.
ReserveFails(p) ==
    /\ "ioFails" \in Faults
    /\ pc[p] = "lock"
    /\ Leave(p)
    /\ UNCHANGED <<now, file, holder, left, record>>

\* Mutant of Lock: the lock of lock_other.go, which excludes nobody.
LockNothing(p) ==
    /\ pc[p] = "lock"
    /\ Goto(p, "look")
    /\ UNCHANGED <<now, file, holder, left, local, record>>

\* flock(LOCK_EX) returns.
Lock(p) ==
    /\ pc[p] = "lock"
    /\ holder = None
    /\ holder' = p
    /\ Goto(p, "look")
    /\ UNCHANGED <<now, file, left, local, record>>

\* Mutant of Look: only a slot that lies ahead is followed.
LookFromNow(p) ==
    /\ pc[p] = "look"
    /\ looked' = [looked EXCEPT ![p] = now]
    /\ \E j \in Jitter(Interval[p]) :
          next' = [next EXCEPT ![p] =
                      IF file # None /\ file > now THEN file + Interval[p] + j ELSE now]
    /\ Goto(p, "truncate")
    /\ UNCHANGED <<now, file, holder, left, wake, mine, record>>

\* The clock and the file are read; the next slot is now, or the interval
\* and some jitter after the previous slot if that is later.
Look(p) ==
    /\ pc[p] = "look"
    /\ looked' = [looked EXCEPT ![p] = now]
    /\ \E j \in Jitter(Interval[p]) :
          next' = [next EXCEPT ![p] =
                      IF file # None /\ file + Interval[p] + j > now
                      THEN file + Interval[p] + j
                      ELSE now]
    /\ Goto(p, "truncate")
    /\ UNCHANGED <<now, file, holder, left, wake, mine, record>>

\* writeSlot truncates the file ...
Truncate(p) ==
    /\ pc[p] = "truncate"
    /\ file' = None
    /\ Goto(p, "write")
    /\ UNCHANGED <<now, holder, left, local, record>>

\* Mutant of Write: the file keeps the time of asking, not the slot.
WriteLooked(p) ==
    /\ pc[p] = "write"
    /\ slots' = Append(slots, [epoch |-> epoch, asked |-> looked[p],
                                at |-> next[p], gap |-> Interval[p]])
    /\ sends' = Append(sends, None)
    /\ mine' = [mine EXCEPT ![p] = Len(slots) + 1]
    /\ file' = looked[p]
    /\ Goto(p, "unlock")
    /\ UNCHANGED <<now, holder, left, looked, next, wake, epoch>>

\* ... and writes the slot; a failure of the write goes unnoticed.
Write(p) ==
    /\ pc[p] = "write"
    /\ slots' = Append(slots, [epoch |-> epoch, asked |-> looked[p],
                                at |-> next[p], gap |-> Interval[p]])
    /\ sends' = Append(sends, None)
    /\ mine' = [mine EXCEPT ![p] = Len(slots) + 1]
    /\ \/ file' = next[p] /\ UNCHANGED epoch
       \/ "ioFails" \in Faults /\ epoch' = epoch + 1 /\ UNCHANGED file
    /\ Goto(p, "unlock")
    /\ UNCHANGED <<now, holder, left, looked, next, wake>>

\* The deferred unlock; the sleep starts after it.
Unlock(p) ==
    /\ pc[p] = "unlock"
    /\ holder' = None
    /\ wake' = [wake EXCEPT ![p] = now + Wait(p)]
    /\ Goto(p, "sleep")
    /\ UNCHANGED <<now, file, left, looked, next, mine, record>>

\* Mutant of Send: the sleep is cut short.
SendEarly(p) ==
    /\ pc[p] = "sleep"
    /\ sends' = [sends EXCEPT ![mine[p]] = now]
    /\ Leave(p)
    /\ UNCHANGED <<now, file, holder, left, slots, epoch>>

\* The sleep is over and the request is sent.
Send(p) ==
    /\ pc[p] = "sleep" /\ now >= wake[p]
    /\ sends' = [sends EXCEPT ![mine[p]] = now]
    /\ Leave(p)
    /\ UNCHANGED <<now, file, holder, left, slots, epoch>>

\* Mutant of Crash: the lock outlives the process.
CrashLocked(p) ==
    /\ "crash" \in Faults
    /\ pc[p] # "idle"
    /\ epoch' = IF pc[p] = "write" THEN epoch + 1 ELSE epoch
    /\ Leave(p)
    /\ UNCHANGED <<now, file, holder, left, slots, sends>>

\* The process is killed, also between truncating and writing; the kernel
\* gives up its lock.
Crash(p) ==
    /\ "crash" \in Faults
    /\ pc[p] # "idle"
    /\ holder' = IF pc[p] \in Locked THEN None ELSE holder
    /\ epoch' = IF pc[p] = "write" THEN epoch + 1 ELSE epoch
    /\ Leave(p)
    /\ UNCHANGED <<now, file, left, slots, sends>>

\* Time passes.  A process is at most MaxLate ticks late, in its bookkeeping
\* and its sleep together.
Tick ==
    /\ now < MaxTime \/ \E p \in Process : pc[p] = "sleep"
    /\ \A p \in Process :
          /\ pc[p] \in {"truncate", "write", "unlock"} => now < looked[p] + MaxLate
          /\ pc[p] = "sleep" => now < looked[p] + Wait(p) + MaxLate
    /\ now' = now + 1
    /\ UNCHANGED <<file, holder, pc, left, local, record>>

-----------------------------------------------------------------------------
Step(p) ==
    Look(p) \/ Truncate(p) \/ Write(p) \/ Unlock(p) \/ Send(p)

Next ==
    \/ \E p \in Process : Begin(p) \/ ReserveFails(p) \/ Lock(p) \/ Step(p) \/ Crash(p)
    \/ Tick

Spec == Init /\ [][Next]_vars

(***************************************************************************)
(* Time passes, a process that can run does, and the kernel grants a lock  *)
(* that keeps becoming free.  Nothing is assumed about crashes and failures *)
(* to open or to lock the file.                                            *)
(***************************************************************************)
Fairness ==
    /\ WF_vars(Tick)
    /\ \A p \in Process : WF_vars(Step(p)) /\ SF_vars(Lock(p))

FairSpec == Spec /\ Fairness

-----------------------------------------------------------------------------
(***************************************************************************)
(* Safety.                                                                 *)
(***************************************************************************)

\* "two processes never hand out the same send slot" (lock_unix.go), and more:
\* every slot is at least its process's interval after every slot handed out
\* before it, whatever intervals the processes use and wherever one crashes,
\* as long as the file is not left empty.
SlotsSpaced ==
    \A i, j \in DOMAIN slots :
        i < j /\ slots[i].epoch = slots[j].epoch
            => slots[j].at >= slots[i].at + slots[j].gap

\* A slot so far ahead that its request does not wait for it.
BeyondCap(i) == slots[i].at - slots[i].asked > MaxWait

\* Two requests whose slots were handed out are sent at a distance in time.
Apart(i, j) ==
    i < j /\ slots[i].epoch = slots[j].epoch /\ sends[i] # None /\ sends[j] # None
        => sends[j] - sends[i] >= slots[j].gap - MaxLate

\* The gap is enforced "across every discord-axi process on the machine"
\* (pace.go): the requests whose slots are not too far ahead are sent in the
\* order of their slots and the interval apart, up to the time by which their
\* processes are late.
SendsSpaced ==
    \A i, j \in DOMAIN slots : ~BeyondCap(i) /\ ~BeyondCap(j) => Apart(i, j)

-----------------------------------------------------------------------------
(***************************************************************************)
(* Liveness.                                                               *)
(***************************************************************************)

\* Every request is sent or its process dies: nobody waits for ever for the
\* lock, also not when its holder is killed.
RequestSent == \A p \in Process : pc[p] # "idle" ~> pc[p] = "idle"

-----------------------------------------------------------------------------
\* What pacing promises; a crash or a failed write may lose the record.
Queue == INSTANCE SlotQueue
    WITH Process <- Process, Interval <- Interval, slots <- slots, epoch <- epoch

\* The lock, the file and the sleeps implement the queue of slots.
ImplementsQueue == Queue!QueueSpec

=============================================================================

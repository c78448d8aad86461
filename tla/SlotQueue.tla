----------------------------- MODULE SlotQueue ------------------------------
(***************************************************************************)
(* What pacing promises (internal/app/pace.go): send slots are handed out  *)
(* one after another, each at least the asking process's interval after    *)
(* every slot before it.  The promise lasts as long as the record of the   *)
(* last slot does; when the record is lost, a new epoch begins.            *)
(***************************************************************************)
EXTENDS Naturals, Sequences

CONSTANTS
    Process,   \* the processes that ask for slots
    Interval   \* the interval of each, in ticks

VARIABLES
    slots,  \* the slots handed out, oldest first: the epoch of each, when it
            \* was asked for, its time and the interval before it
    epoch   \* how often the record of the last slot has been lost

queueVars == <<slots, epoch>>

QueueInit ==
    /\ slots = <<>>
    /\ epoch = 0

\* Time t is at least `gap` after every slot of this epoch.
Follows(t, gap) ==
    \A i \in DOMAIN slots : slots[i].epoch = epoch => t >= slots[i].at + gap

\* Process p is given the slot s, now or later.
Grants(p, s) ==
    /\ slots' = Append(slots, s)
    /\ s.epoch = epoch
    /\ s.gap = Interval[p]
    /\ s.at >= s.asked
    /\ Follows(s.at, s.gap)

\* A step hands out one slot, which is the last one afterwards.
Grant ==
    /\ Len(slots') = Len(slots) + 1
    /\ \E p \in Process : Grants(p, slots'[Len(slots')])

\* The record may be lost, also while a slot is being handed out.
Forget == epoch' = epoch + 1

QueueNext ==
    \/ Grant /\ (Forget \/ UNCHANGED epoch)
    \/ Forget /\ UNCHANGED slots

QueueSpec == QueueInit /\ [][QueueNext]_queueVars

=============================================================================

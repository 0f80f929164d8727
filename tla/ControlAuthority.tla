-------------------------- MODULE ControlAuthority --------------------------
(***************************************************************************)
(* What the session manager promises, independent of entries, contexts,    *)
(* gates and timers: one holder at a time, a strict first-come first-      *)
(* served line behind it, a slot that is never free while somebody waits,  *)
(* and at most one turn for each claim.                                    *)
(***************************************************************************)
EXTENDS Integers, Sequences

CONSTANTS
    Claimant,   \* successful claims
    Nobody      \* the slot is free

VARIABLES
    holder,     \* who controls the console
    waiting,    \* the line behind the holder
    served      \* who has had control, the holder included

avars == <<holder, waiting, served>>

Init ==
    /\ holder = Nobody
    /\ waiting = <<>>
    /\ served = {}

Waits(c) == \E i \in 1..Len(waiting) : waiting[i] = c

\* A claim on a free slot.
Grant(c) ==
    /\ holder = Nobody
    /\ waiting = <<>>
    /\ c \notin served
    /\ holder' = c
    /\ served' = served \cup {c}
    /\ UNCHANGED waiting

\* A claim on a taken slot.
Enqueue(c) ==
    /\ holder # Nobody
    /\ c \notin served
    /\ ~Waits(c)
    /\ waiting' = Append(waiting, c)
    /\ UNCHANGED <<holder, served>>

\* The holder's turn ends with nobody behind it.
Vacate ==
    /\ holder # Nobody
    /\ waiting = <<>>
    /\ holder' = Nobody
    /\ UNCHANGED <<waiting, served>>

\* The holder's turn ends and the first in line takes over at once.
HandOver ==
    /\ holder # Nobody
    /\ waiting # <<>>
    /\ Head(waiting) \notin served
    /\ holder' = Head(waiting)
    /\ waiting' = Tail(waiting)
    /\ served' = served \cup {Head(waiting)}

\* Somebody leaves the line; the order of the others is kept.
Leave ==
    /\ \E k \in 1..Len(waiting) :
        waiting' = [i \in 1..(Len(waiting) - 1) |->
                       IF i < k THEN waiting[i] ELSE waiting[i + 1]]
    /\ UNCHANGED <<holder, served>>

Next ==
    \/ \E c \in Claimant : Grant(c) \/ Enqueue(c)
    \/ Vacate \/ HandOver \/ Leave

Spec == Init /\ [][Next]_avars
=============================================================================

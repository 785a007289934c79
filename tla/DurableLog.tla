------------------------------ MODULE DurableLog ------------------------------
(***************************************************************************)
(* What a log of dated packets that outlives its program promises, when    *)
(* the program may stop at any moment: stores append to the working log,   *)
(* deletions take packets from its oldest side and leave at most one of    *)
(* those asked for, and a successful operation ends by making the working  *)
(* log durable.  A stop loses what is not durable and nothing else.        *)
(*                                                                         *)
(* Two faults are not survived, and the specification says how far they    *)
(* reach.  A store that finds the log emptied loses everything.  A store   *)
(* made while the working log does not continue the durable one, because a *)
(* deletion was not made durable or the log could not be read at a start,  *)
(* loses the durable log until the next time the working log is saved.     *)
(***************************************************************************)
EXTENDS Integers, Sequences

CONSTANTS
    Packet,   \* dates
    Lost      \* a log of which nothing is known

VARIABLES
    running,
    working,  \* what the program counts
    durable,  \* what the next program would find
    behind    \* the working log does not continue the durable one

logVars == <<running, working, durable, behind>>

\* What may be left of a log while the packets up to a date are deleted.
Remainders(log, time) ==
    IF log = Lost THEN {Lost}
    ELSE {SubSeq(log, k + 1, Len(log)) :
             k \in {n \in 0 .. Len(log) : \A i \in 1 .. n : log[i] =< time}}

\* Of the packets up to a date, a log holds the oldest one at most.
HardlyAny(log, time) == \A i \in 2 .. Len(log) : log[i] > time

Init ==
    /\ running = FALSE
    /\ working = << >>
    /\ durable = << >>
    /\ behind = FALSE

Start ==
    /\ ~running
    /\ running' = TRUE
    /\ working' = durable
    /\ UNCHANGED <<durable, behind>>

\* The log cannot be read.
StartUnread ==
    /\ ~running
    /\ running' = TRUE
    /\ behind' \in BOOLEAN
    /\ UNCHANGED <<working, durable>>

End ==
    /\ running' = FALSE
    /\ working' = << >>
    /\ behind' = FALSE

Stop ==
    /\ running
    /\ End
    /\ UNCHANGED durable

StopWhileDeleting(time) ==
    /\ running
    /\ End
    /\ durable' \in Remainders(durable, time)

Store(packet) ==
    /\ running
    /\ IF working = Lost THEN UNCHANGED working
       ELSE /\ \A i \in 1 .. Len(working) : working[i] =< packet
            /\ working' = Append(working, packet)
    /\ durable' = IF behind THEN Lost ELSE durable
    /\ UNCHANGED <<running, behind>>

\* The log is found emptied.
StoreEmptied ==
    /\ running
    /\ working' = Lost
    /\ durable' = Lost
    /\ UNCHANGED <<running, behind>>

Delete(time) ==
    /\ running
    /\ behind' = TRUE
    /\ UNCHANGED running
    /\ \/ /\ working' \in Remainders(working, time)
          /\ working' = Lost \/ HardlyAny(working', time)
       \/ working = Lost /\ working' = << >>
    /\ durable' \in Remainders(durable, time)

\* A store or a deletion is made durable.
Save ==
    /\ running
    /\ durable' = working
    /\ behind' = FALSE
    /\ UNCHANGED <<running, working>>

Next ==
    \/ Start \/ StartUnread \/ Stop
    \/ \E time \in Packet : StopWhileDeleting(time)
    \/ \E packet \in Packet : Store(packet)
    \/ StoreEmptied
    \/ \E time \in Packet : Delete(time)
    \/ Save

Spec == Init /\ [][Next]_logVars
=============================================================================

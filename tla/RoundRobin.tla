----------------------------- MODULE RoundRobin -----------------------------
(***************************************************************************)
(* What the scheduler promises: ready threads run in first-in first-out    *)
(* order, none is in the queue twice, and a thread that gives up the       *)
(* processor without blocking goes to the end of the queue.                *)
(***************************************************************************)
EXTENDS Sequences, FiniteSets

CONSTANTS Thread, Idle

VARIABLES running, queue

InQueue(t) == \E i \in DOMAIN queue : queue[i] = t

RRInit == running = Idle /\ queue = <<>>

Admit(t) ==
    /\ t # running /\ t # Idle /\ ~InQueue(t)
    /\ queue' = Append(queue, t)
    /\ UNCHANGED running

First == IF queue = <<>> THEN Idle ELSE Head(queue)
Others == IF queue = <<>> THEN <<>> ELSE Tail(queue)

(* The running thread gives up the processor; stays tells whether it wants *)
(* it back.                                                                *)
Switch(stays) ==
    /\ running' = First
    /\ queue' = IF stays /\ running # Idle THEN Append(Others, running) ELSE Others

RRNext == (\E t \in Thread : Admit(t)) \/ \E stays \in BOOLEAN : Switch(stays)

RRSpec == RRInit /\ [][RRNext]_<<running, queue>>
=============================================================================

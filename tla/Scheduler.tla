------------------------------ MODULE Scheduler ------------------------------
(***************************************************************************)
(* The cooperative scheduler of kernel/mcsos_thread.c: thread control      *)
(* blocks linked into a ready queue by their next pointers.                *)
(*                                                                         *)
(* One processor, no preemption: every call below runs to its end, and is  *)
(* made by the running thread.  mcsos_sched_tick only counts and is left   *)
(* out.                                                                    *)
(***************************************************************************)
EXTENDS Integers, Sequences, FiniteSets

CONSTANTS
    Thread,         \* thread control blocks
    Idle,           \* the boot thread, which becomes sched->idle
    Null,           \* the null pointer
    Polite,         \* TRUE: callers enqueue only threads that are not queued
    AddrSpace,      \* number of addresses (2^64)
    StackBase, StackSize,   \* stacks that callers offer
    MinStack,       \* MCSOS_MIN_KERNEL_STACK
    StackAlign,     \* MCSOS_STACK_ALIGN
    Reserve,        \* the 128 bytes a stack must hold
    Word            \* sizeof(uint64_t)

ASSUME SchedAssumption ==
    /\ Idle \in Thread
    /\ Null \notin Thread
    /\ Polite \in BOOLEAN
    /\ AddrSpace \in Nat /\ MinStack \in Nat /\ StackAlign \in Nat
    /\ Reserve \in Nat /\ Word \in Nat
    /\ 0 < Word /\ Word <= Reserve
    /\ 0 < StackAlign /\ Reserve + StackAlign <= MinStack
    /\ StackBase \subseteq 0..(AddrSpace - 1)
    /\ StackSize \subseteq 0..(AddrSpace - 1)

VARIABLES
    valid,          \* threads whose magic is MCSOS_THREAD_MAGIC
    state,          \* thread->state
    next,           \* thread->next
    head, tail,     \* sched->ready_head, sched->ready_tail
    count,          \* sched->runnable_count
    current,        \* sched->current
    stack,          \* <<stack_base, stack_size, context.rsp>> as prepared
    queue           \* ghost: the threads in the order they were enqueued

qvars == <<next, head, tail, count, queue>>
svars == <<valid, state, qvars, current, stack>>

NoStack == <<0, 0, 0>>
Waiting == {"NEW", "READY", "BLOCKED"}

(* mcsos_scheduler_init.                                                   *)
SInit ==
    /\ valid = {Idle}
    /\ state = [t \in Thread |-> IF t = Idle THEN "RUNNING" ELSE "NEW"]
    /\ next = [t \in Thread |-> Null]
    /\ head = Null /\ tail = Null
    /\ count = 0
    /\ current = Idle
    /\ stack = [t \in Thread |-> NoStack]
    /\ queue = <<>>

-----------------------------------------------------------------------------
(* The ready queue, as the list of TCBs l.                                 *)

List == [next |-> next, head |-> head, tail |-> tail, count |-> count, queue |-> queue]

SetList(l) ==
    /\ next' = l.next /\ head' = l.head /\ tail' = l.tail
    /\ count' = l.count /\ queue' = l.queue

(* Mutant: the thread is put at the front.                                 *)
AppendToMut(l, t) ==
    [next |-> [l.next EXCEPT ![t] = l.head],
     head |-> t,
     tail |-> IF l.tail = Null THEN t ELSE l.tail,
     count |-> l.count + 1,
     queue |-> <<t>> \o l.queue]

(* mcsos_sched_enqueue, once its checks have passed.                       *)
AppendTo(l, t) ==
    LET nulled == [l.next EXCEPT ![t] = Null]
    IN [next |-> IF l.tail = Null THEN nulled ELSE [nulled EXCEPT ![l.tail] = t],
        head |-> IF l.tail = Null THEN t ELSE l.head,
        tail |-> t,
        count |-> l.count + 1,
        queue |-> Append(l.queue, t)]

(* Mutant: the tail is left dangling when the queue becomes empty.         *)
RemoveHeadMut(l) ==
    IF l.head = Null THEN l
    ELSE [next |-> [l.next EXCEPT ![l.head] = Null],
          head |-> l.next[l.head], tail |-> l.tail,
          count |-> IF l.count > 0 THEN l.count - 1 ELSE 0,
          queue |-> Tail(l.queue)]

(* mcsos_sched_pick_next: the thread it returns, and the list it leaves.   *)
PickNext(l) == IF l.head = Null THEN Idle ELSE l.head
RemoveHead(l) ==
    IF l.head = Null THEN l
    ELSE LET rest == l.next[l.head]
         IN [next |-> [l.next EXCEPT ![l.head] = Null],
             head |-> rest,
             tail |-> IF rest = Null THEN Null ELSE l.tail,
             count |-> IF l.count > 0 THEN l.count - 1 ELSE 0,
             queue |-> Tail(l.queue)]

-----------------------------------------------------------------------------
(* The initial stack pointer, 0 where mcsos_thread_prepare returns ESTACK. *)
(* Addresses wrap around.                                                  *)
StackTop(low, size) ==
    LET high == (low + size) % AddrSpace
        top == high - (high % StackAlign)
    IN IF size < MinStack \/ high <= low \/ top <= low + Reserve
         THEN 0 ELSE top - Word

(* mcsos_thread_prepare, called once for each thread.                      *)
Prepare(t, low, size) ==
    /\ t \notin valid
    /\ low # 0
    /\ StackTop(low, size) # 0
    /\ valid' = valid \cup {t}
    /\ state' = [state EXCEPT ![t] = "NEW"]
    /\ next' = [next EXCEPT ![t] = Null]
    /\ stack' = [stack EXCEPT ![t] = <<low, size, StackTop(low, size)>>]
    /\ UNCHANGED <<head, tail, count, queue, current>>

(* mcsos_sched_enqueue(t).                                                 *)
Enqueue(t) ==
    /\ t \in valid
    /\ state[t] \in Waiting
    /\ Polite => state[t] # "READY"
    /\ state' = [state EXCEPT ![t] = "READY"]
    /\ SetList(AppendTo(List, t))
    /\ UNCHANGED <<valid, current, stack>>

(* mcsos_thread_mark_ready(t).                                             *)
MarkReady(t) == state[t] = "BLOCKED" /\ Enqueue(t)

(* Mutant: the idle thread, too, goes back to the queue.                   *)
RescheduleMut(st) ==
    LET new == PickNext(List)
        rest == RemoveHead(List)
    IN /\ SetList(IF st[current] = "RUNNING" THEN AppendTo(rest, current) ELSE rest)
       /\ state' = [st EXCEPT ![current] = IF @ = "RUNNING" THEN "READY" ELSE @,
                              ![new] = "RUNNING"]
       /\ current' = new

(* mcsos_sched_yield, entered with the states st.  A RUNNING thread goes   *)
(* back to the queue after the next one has been taken off, and the idle   *)
(* thread never does.  The queue holds valid threads only, so the          *)
(* MCSOS_SCHED_ECORRUPT return is not reached.                             *)
Reschedule(st) ==
    LET new == PickNext(List)
        rest == RemoveHead(List)
        keeps == st[current] = "RUNNING" /\ current # Idle
    IN IF new = current
         THEN /\ SetList(rest)
              /\ state' = [st EXCEPT ![current] = "RUNNING"]
              /\ UNCHANGED current
         ELSE /\ SetList(IF keeps THEN AppendTo(rest, current) ELSE rest)
              /\ state' = [st EXCEPT ![current] = IF keeps THEN "READY" ELSE @,
                                     ![new] = "RUNNING"]
              /\ current' = new

Yield ==
    /\ current \in valid
    /\ Reschedule(state)
    /\ UNCHANGED <<valid, stack>>

(* mcsos_thread_block_current.                                             *)
BlockCurrent ==
    /\ current \in valid
    /\ current # Idle
    /\ Reschedule([state EXCEPT ![current] = "BLOCKED"])
    /\ UNCHANGED <<valid, stack>>

-----------------------------------------------------------------------------
SNext ==
    \/ \E t \in Thread, low \in StackBase, size \in StackSize : Prepare(t, low, size)
    \/ \E t \in Thread : Enqueue(t) \/ MarkReady(t)
    \/ Yield
    \/ BlockCurrent

SSpec == SInit /\ [][SNext]_svars

-----------------------------------------------------------------------------
(* Properties.                                                             *)

STypeOK ==
    /\ valid \subseteq Thread
    /\ state \in [Thread -> {"NEW", "READY", "RUNNING", "BLOCKED"}]
    /\ current \in Thread
    /\ stack \in [Thread -> Int \X Int \X Int]

InList(l, t) == \E i \in DOMAIN l.queue : l.queue[i] = t
Queued == { t \in Thread : InList(List, t) }

(* The TCBs linked from ready_head are the threads that were enqueued, in  *)
(* that order and each once; ready_tail is the last of them,               *)
(* runnable_count their number, and no thread outside has a next pointer.  *)
Linked(l) ==
    /\ l.next \in [Thread -> Thread \cup {Null}]
    /\ l.queue \in Seq(Thread)
    /\ \A i, j \in DOMAIN l.queue : l.queue[i] = l.queue[j] => i = j
    /\ l.count = Len(l.queue)
    /\ l.head = IF l.queue = <<>> THEN Null ELSE l.queue[1]
    /\ l.tail = IF l.queue = <<>> THEN Null ELSE l.queue[Len(l.queue)]
    /\ \A i \in DOMAIN l.queue :
         l.next[l.queue[i]] = IF i = Len(l.queue) THEN Null ELSE l.queue[i + 1]
    /\ \A t \in Thread : ~InList(l, t) => l.next[t] = Null

(* No thread is lost and none runs twice: READY means in the queue,        *)
(* RUNNING means current.  Nothing is said of the state of the idle thread *)
(* while another runs; it is never queued.                                 *)
StateAgrees ==
    /\ {current, Idle} \subseteq valid
    /\ state[current] = "RUNNING"
    /\ Idle \notin Queued
    /\ \A t \in Thread \ {Idle} :
         /\ state[t] = "READY" <=> t \in Queued
         /\ state[t] = "RUNNING" => t = current
         /\ state[t] # "NEW" => t \in valid

(* The initial stack pointer of a prepared thread is inside its stack,     *)
(* with room for the word written there, also at the end of memory.        *)
StackInside ==
    \A t \in valid \ {Idle} :
      /\ stack[t][1] <= stack[t][3]
      /\ stack[t][3] + Word <= stack[t][1] + stack[t][2]
      /\ stack[t][1] + stack[t][2] < AddrSpace

(* What the calls of mcsos_thread.c keep: the linked list is the queue,    *)
(* states and queue agree, and prepared stacks are usable.                 *)
SchedInv == STypeOK /\ Linked(List) /\ StateAgrees /\ StackInside

(* The scheduler is first-in first-out round robin.                        *)
RR == INSTANCE RoundRobin WITH running <- current, queue <- queue
ImplementsRoundRobin == RR!RRSpec
=============================================================================

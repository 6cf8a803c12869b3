------------------------------- MODULE Kernel --------------------------------
(***************************************************************************)
(* kmain (src/kernel.c) from its first instruction to its idle loop, the   *)
(* threads it starts, and the interrupts that come in between.  Memory,    *)
(* paging and heap have modules of their own, and kmain initialises them in*)
(* one step here.                                                          *)
(***************************************************************************)
EXTENDS Interrupts, Scheduler, ElfLoader

CONSTANTS
    DemoA, DemoB,           \* the threads that kmain starts
    DemoStack, DemoSize,    \* where their stacks are
    Images                  \* images given to the loader

ASSUME KernelAssumption ==
    /\ {DemoA, DemoB} \subseteq Thread \ {Idle}
    /\ {DemoStack, DemoSize} \subseteq 0..(AddrSpace - 1)
    /\ \A i \in Images : i \in ImageRec

VARIABLES
    pc,             \* where kmain is, as a position in Order
    image, plan,    \* the image that kmain loads, what the loader made of it
    frames,         \* threads switched away inside a system call: the saved flag
    halted,         \* exit_thread: the processor waits for ever
    switchedInCall  \* ghost: a thread has yielded inside a system call

bvars == <<pc, image, plan>>
tvars == <<frames, halted, switchedInCall>>
kvars == <<svars, bvars, tvars>>
vars == <<ivars, kvars>>

(* The steps of kmain.  Mutant: interrupts are on before the controllers   *)
(* are set up.                                                             *)
OrderMut == <<"idt", "sti", "remap", "mask", "unmask", "memory", "prepare a", "prepare b",
              "enqueue a", "enqueue b", "image", "load", "syscalls", "yield", "idle">>
Order == <<"idt", "remap", "mask", "unmask", "sti", "memory", "prepare a", "prepare b",
           "enqueue a", "enqueue b", "image", "load", "syscalls", "yield", "idle">>

At(step) == Order[pc] = step

Init ==
    /\ IInit
    /\ SInit
    /\ pc = 1
    /\ image = NoImage /\ plan = NoPlan
    /\ frames = [t \in Thread |-> "none"]
    /\ halted = FALSE
    /\ switchedInCall = FALSE

-----------------------------------------------------------------------------
(* The code that runs is not interrupted at this point.                    *)
Runs == trap = None /\ ~dead /\ ~halted
Advance == Runs /\ pc' = pc + 1

BootIdt ==
    /\ At("idt") /\ Advance /\ IdtInit
    /\ UNCHANGED <<irr, imr, isr, base, intsOn, trap, saved, ticks, dead>>
BootRemap ==
    /\ At("remap") /\ Advance /\ PicRemap
    /\ UNCHANGED <<imr, gates, intsOn, trap, saved, ticks, dead>>
BootMask ==
    /\ At("mask") /\ Advance /\ PicMaskAll
    /\ UNCHANGED <<irr, isr, base, gates, intsOn, trap, saved, ticks, dead>>
BootUnmask ==
    /\ At("unmask") /\ Advance /\ PicUnmask(0)
    /\ UNCHANGED <<irr, isr, base, gates, intsOn, trap, saved, ticks, dead>>
BootSti ==
    /\ At("sti") /\ Advance /\ intsOn' = TRUE
    /\ UNCHANGED <<irr, imr, isr, base, gates, trap, saved, ticks, dead>>
BringUp ==
    /\ BootIdt \/ BootRemap \/ BootMask \/ BootUnmask \/ BootSti
    /\ UNCHANGED <<svars, image, plan, tvars>>

BootMemory == At("memory") /\ Advance /\ UNCHANGED <<ivars, svars, image, plan, tvars>>

BootThread ==
    /\ \/ At("prepare a") /\ Prepare(DemoA, DemoStack, DemoSize)
       \/ At("prepare b") /\ Prepare(DemoB, DemoStack, DemoSize)
       \/ At("enqueue a") /\ Enqueue(DemoA)
       \/ At("enqueue b") /\ Enqueue(DemoB)
    /\ Advance
    /\ UNCHANGED <<ivars, image, plan, tvars>>

(* m11_integration_smoke_test, with any image.                             *)
BootImage ==
    /\ At("image") /\ Advance
    /\ image' \in Images
    /\ UNCHANGED <<ivars, svars, plan, tvars>>
BootLoad ==
    /\ At("load") /\ Advance
    /\ plan' = PlanLoad(image)
    /\ UNCHANGED <<ivars, svars, image, tvars>>

(* The gate of vector 128 is installed once the callbacks are set.         *)
BootSyscalls ==
    /\ At("syscalls") /\ Advance
    /\ gates' = gates \cup {128}
    /\ image' = NoImage /\ plan' = NoPlan
    /\ UNCHANGED <<irr, imr, isr, base, intsOn, trap, saved, ticks, dead, svars, tvars>>

-----------------------------------------------------------------------------
(* context_switch saves no flags: a thread goes on with those of the one   *)
(* before it, until the iretq of a system call that it was inside of.      *)
(* Mutant: a switch leaves interrupts off.                                 *)
FlagMut(t) == frames[t] = "on"
Flag(t) == IF frames[t] = "none" THEN intsOn ELSE frames[t] = "on"

(* Code that is in no handler calls the scheduler.                         *)
Calls(schedule) ==
    /\ Runs
    /\ schedule
    /\ intsOn' = Flag(current')
    /\ frames' = [frames EXCEPT ![current'] = "none"]
    /\ UNCHANGED <<irr, imr, isr, base, gates, trap, saved, ticks, dead,
                   image, plan, halted, switchedInCall>>

(* The end of kmain: it yields once, and then waits for interrupts.        *)
BootYield == At("yield") /\ Advance /\ Calls(Yield)

Boot ==
    \/ BringUp \/ BootMemory \/ BootThread
    \/ BootImage \/ BootLoad \/ BootSyscalls \/ BootYield

(* A thread calls the scheduler, as the demo threads do to yield.  The boot*)
(* thread may too, although it only waits in kmain.                        *)
ThreadYield == At("idle") /\ current # Idle /\ Calls(Yield) /\ UNCHANGED pc
ThreadCalls == At("idle") /\ Calls(SNext) /\ UNCHANGED pc

(* A thread executes int3 or int 0x80.                                     *)
SoftwareTrap(v) ==
    /\ At("idle") /\ Runs /\ current # Idle
    /\ Enter(v)
    /\ UNCHANGED <<irr, imr, isr, base, gates, ticks, kvars>>

(* x86_64_syscall_int80_stub: most calls return, yield may switch to       *)
(* another thread (k_yield_current), exit_thread waits for ever            *)
(* (k_exit_current).                                                       *)
CallReturns == Return /\ UNCHANGED <<svars, tvars>>

CallYields ==
    /\ Yield
    /\ trap' = None /\ saved' = FALSE
    /\ IF current' = current
         THEN intsOn' = saved /\ UNCHANGED <<frames, switchedInCall>>
         ELSE /\ intsOn' = Flag(current')
              /\ frames' = [frames EXCEPT ![current] = IF saved THEN "on" ELSE "off",
                                          ![current'] = "none"]
              /\ switchedInCall' = TRUE
    /\ UNCHANGED halted

CallExits == halted' = TRUE /\ UNCHANGED <<trap, saved, intsOn, svars, frames, switchedInCall>>

HandleSyscall ==
    /\ trap = 128 /\ ~dead /\ ~halted
    /\ CallReturns \/ CallYields \/ CallExits
    /\ UNCHANGED <<irr, imr, isr, base, gates, ticks, dead, bvars>>

Interrupt ==
    /\ Accept \/ AcceptSpurious \/ HandleLine \/ HandleException
    /\ UNCHANGED kvars

Next ==
    \/ Boot
    \/ ThreadCalls \/ SoftwareTrap(3) \/ SoftwareTrap(128) \/ HandleSyscall
    \/ Interrupt
    \/ \E l \in Lines : Raise(l) /\ UNCHANGED kvars

(* kmain gets to its sti, handlers go on, threads yield again and again as *)
(* the demo threads do, and the processor takes a line that is pending     *)
(* whenever interrupts are on between two instructions.                    *)
Fairness ==
    /\ WF_vars(BringUp)
    /\ WF_vars(HandleSyscall)
    /\ WF_vars((HandleLine \/ HandleException) /\ UNCHANGED kvars)
    /\ SF_vars(ThreadYield)
    /\ SF_vars(Accept /\ UNCHANGED kvars)

Spec == Init /\ [][Next]_vars /\ Fairness

-----------------------------------------------------------------------------
(* Properties.                                                             *)

KTypeOK ==
    /\ pc \in 1..Len(Order)
    /\ irr \subseteq Lines /\ isr \subseteq Lines /\ imr \subseteq Lines
    /\ {intsOn, saved, dead, halted, switchedInCall} \subseteq BOOLEAN
    /\ trap \in -1..255 /\ gates \subseteq 0..255
    /\ ticks \in 0..(TickMod - 1)
    /\ frames \in [Thread -> {"none", "on", "off"}]
    /\ frames[current] = "none"

(* Nothing interrupts kmain before its sti.  By then the table is loaded   *)
(* and the controllers are moved; the gate of vector 128 is there before   *)
(* the threads run.                                                        *)
BroughtUp ==
    /\ pc <= 5 => ~intsOn /\ trap = None
    /\ pc > 1 => 0..47 \subseteq gates
    /\ base = IF pc > 2 THEN 32 ELSE 8
    /\ pc > 13 => 128 \in gates
    /\ trap \in {None, 3, 128} \cup 32..39

(* The state is well formed, a running thread is inside no call, no        *)
(* interrupt or software trap of the bring-up and after it is a panic, and *)
(* a line is in service only while its handler runs: every handler sends   *)
(* the end of interrupt, and a spurious interrupt ends no other's.         *)
KernelInv == KTypeOK /\ BroughtUp /\ NoPanic /\ ServiceEnds

(* A timer interrupt that is raised once the controllers are set up is     *)
(* taken, whatever kmain and the threads do.  The exceptions: a thread     *)
(* that yields inside a system call hands on its interrupts, which are off,*)
(* and exit_thread waits with interrupts off.                              *)
TimerServed == (pc > 2 /\ 0 \in irr) ~> (trap = 32 \/ switchedInCall \/ halted)

(* A ready thread gets to run, unless the processor has gone to the idle   *)
(* thread, which does not give it back, or to exit_thread, which keeps it. *)
(* Traps, interrupts and yields inside system calls do not lose a thread.  *)
ReadyRuns ==
    \A t \in Thread : At("idle") /\ state[t] = "READY" ~> current = t \/ current = Idle \/ halted

(* The loader accepts an image exactly if it is one by the definition in   *)
(* unbounded numbers (GoodImage); its plan is then the image's, and an     *)
(* image that is refused half way leaves no part of a plan.  The exception *)
(* is the entry of an image without loadable segments.                     *)
PlanRight ==
    plan # NoPlan =>
      /\ plan.rc = "OK" <=> GoodImage(image)
      /\ IF plan.rc = "OK"
           THEN plan.entry = image.entry /\ plan.segments = Loads(image)
           ELSE /\ plan.segments = <<>>
                /\ plan.entry = 0 \/ Loads(image) = <<>>
=============================================================================

----------------------------- MODULE Interrupts ------------------------------
(***************************************************************************)
(* The interrupt table and the trap dispatcher (src/idt.c), the interrupt  *)
(* controllers (src/pic.c) and the timer (src/pit.c), with the hardware    *)
(* they drive.  Gates are interrupt gates, so a handler runs with          *)
(* interrupts off until its iretq.  The lines are those of the first       *)
(* controller: the second one's stay masked.                               *)
(***************************************************************************)
EXTENDS Integers

CONSTANTS
    Lines,          \* lines that devices may raise; the timer has line 0
    TickMod         \* 2^64

ASSUME InterruptsAssumption == 0 \in Lines /\ Lines \subseteq 0..7 /\ TickMod \in Nat \ {0}

VARIABLES
    irr, imr, isr,  \* the controllers: lines raised, masked, in service
    base,           \* vector of line 0
    gates,          \* vectors that have a gate in the loaded table
    intsOn,         \* the interrupt flag of the processor
    trap,           \* vector whose handler runs, or None
    saved,          \* the interrupt flag in the frame of that trap
    ticks,          \* g_ticks
    dead            \* a panic, or a trap without a gate

ivars == <<irr, imr, isr, base, gates, intsOn, trap, saved, ticks, dead>>

None == -1
Spurious == 7       \* a line that is gone before it is acknowledged

(* As the boot loader and _start leave it: interrupts off, the controllers *)
(* on the vectors of exceptions, any mask.                                 *)
IInit ==
    /\ irr = {} /\ isr = {}
    /\ imr \in SUBSET Lines
    /\ base = 8
    /\ gates = {}
    /\ intsOn = FALSE
    /\ trap = None /\ saved = FALSE
    /\ ticks = 0
    /\ dead = FALSE

(* idt_init; pic_remap, which keeps the masks and makes the controllers    *)
(* forget what was raised and in service; pic_mask_all; pic_unmask_irq.    *)
IdtInit == gates' = gates \cup 0..47
PicRemap == base' = 32 /\ irr' = {} /\ isr' = {}
PicMaskAll == imr' = Lines

PicUnmask(irq) == imr' = imr \ {irq}

-----------------------------------------------------------------------------
(* Hardware.                                                               *)
Raise(l) == irr' = irr \cup {l} /\ UNCHANGED <<imr, isr, base, gates, intsOn, trap, saved, ticks, dead>>

(* The processor enters the handler of a vector, which has to have a gate, *)
(* and comes back by iretq.                                                *)
Enter(v) ==
    /\ trap' = v
    /\ saved' = intsOn
    /\ intsOn' = FALSE
    /\ dead' = (v \notin gates)

Return == trap' = None /\ saved' = FALSE /\ intsOn' = saved

Quiet(l) == \A k \in isr : l < k

Accept ==
    /\ intsOn /\ trap = None /\ ~dead
    /\ \E l \in irr \ imr :
         /\ Quiet(l)
         /\ \A k \in irr \ imr : l <= k
         /\ Enter(base + l)
         /\ irr' = irr \ {l}
         /\ isr' = isr \cup {l}
    /\ UNCHANGED <<imr, base, gates, ticks>>

(* The line went away in between: the vector of line 7, nothing in service.*)
AcceptSpurious ==
    /\ intsOn /\ trap = None /\ ~dead
    /\ imr # Lines /\ irr \ imr = {} /\ Quiet(Spurious)
    /\ Enter(base + Spurious)
    /\ UNCHANGED <<irr, imr, isr, base, gates, ticks>>

-----------------------------------------------------------------------------
(* pic_send_eoi: ends the highest line in service.                         *)
Highest(S) == { l \in S : \A k \in S : l <= k }
SendEoi(irq) == isr' = isr \ Highest(isr)

(* timer_on_irq0.                                                          *)
TimerOnIrq0 == ticks' = (ticks + 1) % TickMod

(* isr_common_stub and x86_64_trap_dispatch: the timer is counted, other   *)
(* lines are only logged.                                                  *)
HandleLine ==
    /\ trap \in 32..47 /\ ~dead
    /\ IF trap = 32 THEN TimerOnIrq0 ELSE UNCHANGED ticks
    /\ SendEoi(trap - 32)
    /\ Return
    /\ UNCHANGED <<irr, imr, base, gates, dead>>

(* Of the exceptions, a breakpoint returns; any other one is a panic.      *)
HandleException ==
    /\ trap \in 0..31 /\ ~dead
    /\ IF trap = 3 THEN Return /\ UNCHANGED dead
       ELSE dead' = TRUE /\ UNCHANGED <<trap, saved, intsOn>>
    /\ UNCHANGED <<irr, imr, isr, base, gates, ticks>>

-----------------------------------------------------------------------------
(* No line is taken for an exception or finds no gate: the table is loaded *)
(* and the controllers are moved away from the vectors of exceptions       *)
(* before interrupts are turned on.                                        *)
NoPanic == ~dead

(* A line is in service only while its handler runs: every handler sends   *)
(* its end of interrupt, and that of a spurious one ends nothing else.     *)
ServiceEnds == \A l \in isr : trap = base + l

=============================================================================

------------------------------ MODULE Shootdown ------------------------------
(***************************************************************************)
(* Process stacks and the TLB: map_stack and unmap_stack of vmm.rs,        *)
(* flush_broadcast of smp.rs, the flush interrupt of irq.rs, and the ways  *)
(* a core gets there from proc.rs and idt.rs, with the locks and the       *)
(* interrupt flag that decide whether a wait for acknowledgements ends.    *)
(*                                                                         *)
(* A stack's 56 pages are one page table entry and its frames one span.    *)
(* A TLB may load a present entry at any time, as the hardware may.  All   *)
(* cores are online: kmain spawns the first process after smp::init.       *)
(* SHOOTDOWN is held by the core between its reset of the counter and its  *)
(* last acknowledgement.                                                   *)
(***************************************************************************)
EXTENDS Integers, Sequences, FiniteSets

CONSTANTS
  NCores,    \* cores are 0 .. NCores-1
  NSlots,    \* bound on the stack slots (MAX_SLOTS in the code)
  Spans,     \* spans of frames the allocator can hand out for stacks
  NoSpan, NoCore, NoSlot

Cores == 0 .. NCores - 1
Slots == 0 .. NSlots - 1

ASSUME CoreAssumption == NCores \in Nat \ {0} /\ NSlots \in Nat /\ NoCore \notin Cores
ASSUME SlotAssumption == IsFiniteSet(Spans) /\ NoSpan \notin Spans /\ NoSlot \notin Slots

VARIABLES
  pte,            \* the page table: the span mapped for a slot
  tlb,            \* per core, the translations it holds
  next, freed,    \* SlotAllocator
  free,           \* spans the frame allocator has
  live,           \* slots of the processes in the table
  mapper, table,  \* the cores that hold MAPPER and TABLE
  acks,           \* TLB_ACKS
  ipi,            \* a flush IPI is latched in the core's LAPIC
  intr,           \* the interrupt flag
  handler,        \* in the flush interrupt, CR3 reloaded
  pc, slot, span  \* per core: where it is, and the stack it maps or unmaps

lock_vars == <<mapper, table>>
alloc_vars == <<next, freed, free>>
irq_vars == <<acks, ipi, intr, handler>>
vars == <<pte, tlb, alloc_vars, live, lock_vars, irq_vars, pc, slot, span>>

Pcs == {"run", "table", "map", "fault", "killed", "reap", "unmap", "flush",
        "send", "wait", "release", "push"}

Init ==
  /\ pte = [s \in Slots |-> NoSpan]
  /\ tlb = [c \in Cores |-> {}]
  /\ next = 0 /\ freed = <<>> /\ free = Spans /\ live = {}
  /\ mapper = NoCore /\ table = NoCore
  /\ acks = 0 /\ ipi = [c \in Cores |-> FALSE]
  /\ intr = [c \in Cores |-> TRUE] /\ handler = [c \in Cores |-> FALSE]
  /\ pc = [c \in Cores |-> "run"]
  /\ slot = [c \in Cores |-> NoSlot] /\ span = [c \in Cores |-> NoSpan]

\* The core executes at l, and not an interrupt handler on top of it.
At(c, l) == pc[c] = l /\ ~handler[c]
Goto(c, l) == pc' = [pc EXCEPT ![c] = l]

-----------------------------------------------------------------------------
(* map_stack, called by spawn_inner. *)

\* A slot never used before.
NewSlot == next

\* Mutant: the slot is read and not removed.
Popped_Kept == freed

\* freed.pop()
Popped == SubSeq(freed, 1, Len(freed) - 1)

\* A slot, the one freed last or a new one, and a span of frames.
MapAlloc(c) ==
  /\ At(c, "run")
  /\ \/ /\ freed # <<>>
        /\ slot' = [slot EXCEPT ![c] = freed[Len(freed)]]
        /\ freed' = Popped
        /\ UNCHANGED next
     \/ /\ freed = <<>> /\ next < NSlots
        /\ slot' = [slot EXCEPT ![c] = NewSlot]
        /\ next' = next + 1
        /\ UNCHANGED freed
  /\ \E f \in free : span' = [span EXCEPT ![c] = f] /\ free' = free \ {f}
  /\ Goto(c, "map")
  /\ UNCHANGED <<pte, tlb, live, lock_vars, irq_vars>>

\* The MAPPER section: map and invalidate here; then the process is inserted.
MapStack(c) ==
  /\ At(c, "map") /\ mapper = NoCore
  /\ pte' = [pte EXCEPT ![slot[c]] = span[c]]
  /\ tlb' = [tlb EXCEPT ![c] = {e \in @ : e[1] # slot[c]}]
  /\ live' = live \cup {slot[c]}
  /\ slot' = [slot EXCEPT ![c] = NoSlot] /\ span' = [span EXCEPT ![c] = NoSpan]
  /\ Goto(c, "run")
  /\ UNCHANGED <<alloc_vars, lock_vars, irq_vars>>

-----------------------------------------------------------------------------
(* How a process comes to be reaped. *)

\* Any section of TABLE, with interrupts on.
TableEnter(c) ==
  /\ At(c, "run") /\ table = NoCore
  /\ table' = c
  /\ Goto(c, "table")
  /\ UNCHANGED <<pte, tlb, alloc_vars, live, mapper, irq_vars, slot, span>>

TableLeave(c) ==
  /\ At(c, "table")
  /\ table' = NoCore
  /\ Goto(c, "run")
  /\ UNCHANGED <<pte, tlb, alloc_vars, live, mapper, irq_vars, slot, span>>

\* The process on c exits, or a dead one is popped from a queue.
Die(c, s) ==
  /\ At(c, "run") /\ s \in live
  /\ live' = live \ {s}
  /\ slot' = [slot EXCEPT ![c] = s]
  /\ Goto(c, "reap")
  /\ UNCHANGED <<pte, tlb, alloc_vars, lock_vars, irq_vars, span>>

\* A guard-page fault: the gate clears the interrupt flag.
Fault(c, s) ==
  /\ At(c, "run") /\ s \in live
  /\ live' = live \ {s}
  /\ slot' = [slot EXCEPT ![c] = s]
  /\ intr' = [intr EXCEPT ![c] = FALSE]
  /\ Goto(c, "fault")
  /\ UNCHANGED <<pte, tlb, alloc_vars, lock_vars, acks, ipi, handler, span>>

\* fatal_current: its TABLE section, then the switch to the scheduler.
FatalCurrent(c) ==
  /\ At(c, "fault") /\ table = NoCore
  /\ Goto(c, "killed")
  /\ UNCHANGED <<pte, tlb, alloc_vars, live, lock_vars, irq_vars, slot, span>>

\* run, after ctx::switch: interrupts on again.
SwitchedOut(c) ==
  /\ At(c, "killed")
  /\ intr' = [intr EXCEPT ![c] = TRUE]
  /\ Goto(c, "reap")
  /\ UNCHANGED <<pte, tlb, alloc_vars, live, lock_vars, acks, ipi, handler, slot, span>>

\* reap, in a TABLE section that ends before finalize.
Reap(c) ==
  /\ At(c, "reap") /\ table = NoCore
  /\ Goto(c, "unmap")
  /\ UNCHANGED <<pte, tlb, alloc_vars, live, lock_vars, irq_vars, slot, span>>

-----------------------------------------------------------------------------
(* unmap_stack, called by finalize; MAPPER is held to its end. *)

UnmapStack(c) ==
  /\ At(c, "unmap") /\ mapper = NoCore
  /\ mapper' = c
  /\ span' = [span EXCEPT ![c] = pte[slot[c]]]
  /\ pte' = [pte EXCEPT ![slot[c]] = NoSpan]
  /\ tlb' = [tlb EXCEPT ![c] = {e \in @ : e[1] # slot[c]}]
  /\ Goto(c, "flush")
  /\ UNCHANGED <<alloc_vars, live, table, irq_vars, slot>>

\* Mutant: the acknowledgements of the last shootdown are left in the counter.
FlushBegin_NoReset(c) ==
  /\ At(c, "flush")
  /\ IF NCores = 1
     THEN Goto(c, "release") /\ UNCHANGED <<acks, intr>>
     ELSE /\ \A d \in Cores : pc[d] \notin {"send", "wait"}
          /\ intr' = [intr EXCEPT ![c] = TRUE]
          /\ acks' = acks
          /\ Goto(c, "send")
  /\ UNCHANGED <<pte, tlb, alloc_vars, live, lock_vars, ipi, handler, slot, span>>

\* flush_broadcast up to the reset of the counter.
FlushBegin(c) ==
  /\ At(c, "flush")
  /\ IF NCores = 1
     THEN Goto(c, "release") /\ UNCHANGED <<acks, intr>>
     ELSE /\ \A d \in Cores : pc[d] \notin {"send", "wait"}
          /\ intr' = [intr EXCEPT ![c] = TRUE]
          /\ acks' = 0
          /\ Goto(c, "send")
  /\ UNCHANGED <<pte, tlb, alloc_vars, live, lock_vars, ipi, handler, slot, span>>

\* ipi_all_others
FlushSend(c) ==
  /\ At(c, "send")
  /\ ipi' = [d \in Cores |-> ipi[d] \/ d # c]
  /\ Goto(c, "wait")
  /\ UNCHANGED <<pte, tlb, alloc_vars, live, lock_vars, acks, intr, handler, slot, span>>

\* Mutant: the core that waits is counted as one that acknowledges.
Acked_Self == acks >= NCores

\* All other cores have acknowledged.
Acked == acks >= NCores - 1

FlushEnd(c) ==
  /\ At(c, "wait") /\ Acked
  /\ Goto(c, "release")
  /\ UNCHANGED <<pte, tlb, alloc_vars, live, lock_vars, irq_vars, slot, span>>

\* unmap_stack: the frames go back,
FreeFrames(c) ==
  /\ At(c, "release")
  /\ free' = free \cup {span[c]}
  /\ span' = [span EXCEPT ![c] = NoSpan]
  /\ Goto(c, "push")
  /\ UNCHANGED <<pte, tlb, next, freed, live, lock_vars, irq_vars, slot>>

\* then the slot, then MAPPER.
FreeSlot(c) ==
  /\ At(c, "push")
  /\ freed' = Append(freed, slot[c])
  /\ slot' = [slot EXCEPT ![c] = NoSlot]
  /\ mapper' = NoCore
  /\ Goto(c, "run")
  /\ UNCHANGED <<pte, tlb, next, free, live, table, irq_vars, span>>

-----------------------------------------------------------------------------
(* tlb_flush_interrupt *)

\* CR3 is reloaded.
FlushTlb(c) ==
  /\ intr[c] /\ ipi[c] /\ ~handler[c]
  /\ ipi' = [ipi EXCEPT ![c] = FALSE]
  /\ handler' = [handler EXCEPT ![c] = TRUE]
  /\ tlb' = [tlb EXCEPT ![c] = {}]
  /\ UNCHANGED <<pte, alloc_vars, live, lock_vars, acks, intr, pc, slot, span>>

\* The acknowledgement, and the end of the handler.
FlushAck(c) ==
  /\ handler[c]
  /\ acks' = acks + 1
  /\ handler' = [handler EXCEPT ![c] = FALSE]
  /\ UNCHANGED <<pte, tlb, alloc_vars, live, lock_vars, ipi, intr, pc, slot, span>>

\* The core's page walker loads a present entry.
Load(c, s) ==
  /\ pte[s] # NoSpan
  /\ tlb' = [tlb EXCEPT ![c] = @ \cup {<<s, pte[s]>>}]
  /\ UNCHANGED <<pte, alloc_vars, live, lock_vars, irq_vars, pc, slot, span>>

-----------------------------------------------------------------------------
\* What follows once a core has a stack to map or to tear down.
Finish(c) ==
  \/ MapStack(c) \/ TableLeave(c) \/ SwitchedOut(c) \/ UnmapStack(c) \/ FlushBegin(c)
  \/ FlushSend(c) \/ FlushEnd(c) \/ FreeFrames(c) \/ FreeSlot(c)

Locking(c) == FatalCurrent(c) \/ Reap(c) \/ MapStack(c) \/ UnmapStack(c)

Interrupt(c) == FlushTlb(c) \/ FlushAck(c)

Next == \E c \in Cores :
  \/ MapAlloc(c) \/ TableEnter(c) \/ (\E s \in Slots : Die(c, s) \/ Fault(c, s) \/ Load(c, s))
  \/ Finish(c) \/ FatalCurrent(c) \/ Reap(c) \/ Interrupt(c)

Spec == Init /\ [][Next]_vars

\* A core keeps executing and takes its interrupts when they are on.  A spin
\* lock is not fair by itself: that a core which keeps trying gets a lock that
\* keeps being free is assumed.
Fairness == \A c \in Cores :
  WF_vars(Finish(c)) /\ WF_vars(Interrupt(c)) /\ SF_vars(Locking(c))

FairSpec == Spec /\ Fairness

-----------------------------------------------------------------------------
\* Every variable has the type of what it stands for (SlotAllocator hands out
\* slots of the zone only).
TypeOK ==
  /\ pte \in [Slots -> Spans \cup {NoSpan}]
  /\ tlb \in [Cores -> SUBSET (Slots \X Spans)]
  /\ next \in 0 .. NSlots /\ freed \in Seq(Slots)
  /\ free \in SUBSET Spans /\ live \in SUBSET Slots
  /\ mapper \in Cores \cup {NoCore} /\ table \in Cores \cup {NoCore}
  /\ acks \in Nat
  /\ ipi \in [Cores -> BOOLEAN] /\ intr \in [Cores -> BOOLEAN]
  /\ handler \in [Cores -> BOOLEAN]
  /\ pc \in [Cores -> Pcs]
  /\ slot \in [Cores -> Slots \cup {NoSlot}] /\ span \in [Cores -> Spans \cup {NoSpan}]

\* No core translates a stack address to frames that have been given back: a
\* translation any TLB holds is the one in the page table, or belongs to a
\* stack whose shootdown is still under way.  (unmap_stack: "flush them before
\* the frames or the slot can be reused".)
NoStaleTranslation ==
  \A c \in Cores : \A e \in tlb[c] :
    \/ pte[e[1]] = e[2]
    \/ \E d \in Cores : /\ pc[d] \in {"flush", "send", "wait"}
                        /\ slot[d] = e[1] /\ span[d] = e[2]

\* A slot that was ever handed out, and a span, is in one place and in one only:
\* free, mapped or on its way between the two in the hands of one core.
\* (map_stack, unmap_stack)
NothingSharedOrLost ==
  /\ TypeOK
  /\ \A s, t \in Slots : s # t /\ pte[s] # NoSpan => pte[s] # pte[t]
  /\ \A s \in Slots : pte[s] \notin free
  /\ \A c, d \in Cores : c # d => /\ slot[c] # NoSlot => slot[c] # slot[d]
                                  /\ span[c] # NoSpan => span[c] # span[d]
  /\ \A c \in Cores : /\ span[c] \notin free
                      /\ \A s \in Slots : span[c] # NoSpan => pte[s] # span[c]
  /\ \A i, j \in DOMAIN freed : i # j => freed[i] # freed[j]
  /\ \A i \in DOMAIN freed : /\ freed[i] \notin live /\ pte[freed[i]] = NoSpan
                             /\ \A c \in Cores : slot[c] # freed[i]
  /\ \A s \in 0 .. next - 1 : \/ s \in live
                              \/ \E i \in DOMAIN freed : freed[i] = s
                              \/ \E c \in Cores : slot[c] = s
  /\ \A f \in Spans : \/ f \in free
                      \/ \E s \in Slots : pte[s] = f
                      \/ \E c \in Cores : span[c] = f

\* A core that maps a stack, or tears one down after an exit or a fault, gets
\* back to its scheduler: every shootdown ends, since no core that has yet to
\* acknowledge waits, with its interrupts off, for a lock the waiting core
\* holds.  (flush_broadcast: "spinning here cannot deadlock"; finalize: it
\* "must not stall other cores against TABLE".)
StackReturned ==
  \A c \in Cores : pc[c] \in {"map", "fault", "reap"} ~> pc[c] = "run"
=============================================================================

--------------------------- MODULE ShootdownProofs ---------------------------
(***************************************************************************)
(* For any number of cores, slots and spans: no TLB translates to frames   *)
(* that were given back, and no slot or span is shared or lost.            *)
(***************************************************************************)
EXTENDS Shootdown, FiniteSetTheorems, TLAPS

\* Time limits of the steps that name no prover.
USE SMTT(30), ZenonT(30)

\* Between the switch away from a process and its unmapping; between that and the
\* end of unmap_stack, with MAPPER held.
DyingPcs == {"fault", "killed", "reap", "unmap"}
TearingPcs == {"flush", "send", "wait", "release", "push"}
SpanPcs == {"map", "flush", "send", "wait", "release"}

\* A core holds a slot from the call to the return, and it is nobody else's.
HandsInv ==
  /\ \A c \in Cores : (slot[c] = NoSlot) <=> (pc[c] \in {"run", "table"})
  /\ \A c \in Cores : slot[c] # NoSlot => slot[c] < next /\ slot[c] \notin live
  /\ \A c, d \in Cores : c # d /\ slot[c] # NoSlot => slot[c] # slot[d]

\* A slot in the free list is there once and is nobody's.
FreedInv ==
  /\ \A i \in DOMAIN freed : freed[i] < next /\ freed[i] \notin live
  /\ \A i \in DOMAIN freed : \A c \in Cores : slot[c] # freed[i]
  /\ \A i, j \in DOMAIN freed : i # j => freed[i] # freed[j]

\* A slot that was handed out is live, freed or in the hands of a core.
CoveredInv ==
  /\ \A s \in live : s < next
  /\ \A s \in 0 .. next - 1 : \/ s \in live
                              \/ \E i \in DOMAIN freed : freed[i] = s
                              \/ \E c \in Cores : slot[c] = s

SlotInv == HandsInv /\ FreedInv /\ CoveredInv

\* A span is free, mapped or in the hands of one core.
SpanInv ==
  /\ \A c \in Cores : (span[c] = NoSpan) <=> (pc[c] \notin SpanPcs)
  /\ \A s, t \in Slots : s # t /\ pte[s] # NoSpan => pte[s] # pte[t]
  /\ \A s \in Slots : pte[s] \notin free
  /\ \A c, d \in Cores : c # d /\ span[c] # NoSpan => span[c] # span[d]
  /\ \A c \in Cores : span[c] \notin free
  /\ \A c \in Cores, s \in Slots : span[c] # NoSpan => pte[s] # span[c]
  /\ \A f \in Spans : \/ f \in free
                      \/ \E s \in Slots : pte[s] = f
                      \/ \E c \in Cores : span[c] = f

\* What is mapped is the stack of a process, in the table or on its way out.
MapInv ==
  \A s \in Slots :
    (pte[s] # NoSpan) <=> (s \in live \/ \E c \in Cores : pc[c] \in DyingPcs /\ slot[c] = s)

\* One stack is torn down at a time.
LockInv == \A c \in Cores : pc[c] \in TearingPcs => mapper = c

\* Cores that have been sent the IPI and have not acknowledged it.
Pending == {c \in Cores : ipi[c] \/ handler[c]}

\* Every acknowledgement counted is of the shootdown that waits for it.
AckInv ==
  /\ \A c \in Cores : ~(ipi[c] /\ handler[c])
  /\ (\A d \in Cores : pc[d] # "wait") => Pending = {}
  /\ \A d \in Cores : pc[d] = "send" => acks = 0
  /\ \A d \in Cores : pc[d] = "wait" => d \notin Pending /\ acks + Cardinality(Pending) = NCores - 1

\* Entry e of core c's TLB belongs to the stack core d is tearing down, and c has
\* not taken the interrupt yet.
Awaited(c, e) ==
  \E d \in Cores : /\ c # d
                   /\ pc[d] \in {"flush", "send"} \/ (pc[d] = "wait" /\ ipi[c])
                   /\ slot[d] = e[1] /\ span[d] = e[2]

StaleInv == \A c \in Cores : \A e \in tlb[c] : pte[e[1]] = e[2] \/ Awaited(c, e)

IInv == TypeOK /\ SlotInv /\ SpanInv /\ MapInv /\ LockInv /\ AckInv /\ StaleInv

-----------------------------------------------------------------------------
(* Facts about the parts. *)

LEMMA FlagSet ==
  ASSUME NEW f \in [Cores -> BOOLEAN], NEW c \in Cores, NEW v \in BOOLEAN
  PROVE  [f EXCEPT ![c] = v] \in [Cores -> BOOLEAN]
OBVIOUS

LEMMA CoresFinite == IsFiniteSet(Cores) /\ Cardinality(Cores) = NCores
BY CoreAssumption, FS_Interval DEF Cores

LEMMA PendingFinite == IsFiniteSet(Pending) /\ Cardinality(Pending) \in Nat
BY CoresFinite, FS_Subset, FS_CardinalityType DEF Pending

\* freed.pop() of a list that is not empty.
LEMMA PoppedKeeps ==
  ASSUME freed \in Seq(Slots), freed # <<>>
  PROVE  /\ Popped \in Seq(Slots) /\ Len(freed) \in DOMAIN freed
         /\ DOMAIN Popped = DOMAIN freed \ {Len(freed)}
         /\ \A i \in DOMAIN Popped : Popped[i] = freed[i]
BY DEF Popped

\* freed.push(slot)
LEMMA AppendKeeps ==
  ASSUME NEW q \in Seq(Slots), NEW s \in Slots
  PROVE  /\ Append(q, s) \in Seq(Slots)
         /\ DOMAIN Append(q, s) = DOMAIN q \cup {Len(q) + 1}
         /\ Len(q) + 1 \notin DOMAIN q
         /\ \A i \in DOMAIN q : Append(q, s)[i] = q[i]
         /\ Append(q, s)[Len(q) + 1] = s
OBVIOUS

\* What a core between two of its steps holds.
LEMMA HandsFull ==
  ASSUME TypeOK, SlotInv, SpanInv, NEW c \in Cores
  PROVE  /\ pc[c] \notin {"run", "table"} => slot[c] \in Slots
         /\ pc[c] \in SpanPcs => span[c] \in Spans
BY DEF TypeOK, SlotInv, HandsInv, SpanInv

LEMMA Types ==
  ASSUME TypeOK
  PROVE  /\ pte \in [Slots -> Spans \cup {NoSpan}]
         /\ tlb \in [Cores -> SUBSET (Slots \X Spans)]
         /\ next \in 0 .. NSlots /\ next \in Nat /\ freed \in Seq(Slots)
         /\ free \in SUBSET Spans /\ live \in SUBSET Slots
         /\ acks \in Nat
         /\ ipi \in [Cores -> BOOLEAN] /\ intr \in [Cores -> BOOLEAN]
         /\ handler \in [Cores -> BOOLEAN]
         /\ pc \in [Cores -> Pcs]
         /\ slot \in [Cores -> Slots \cup {NoSlot}] /\ span \in [Cores -> Spans \cup {NoSpan}]
BY CoreAssumption DEF TypeOK

\* The slots in the zone.
LEMMA SlotFacts ==
  /\ \A s \in Slots : s \in Nat /\ s < NSlots
  /\ \A n \in Nat : n < NSlots => n \in Slots
  /\ NoSlot \notin Slots /\ NoSpan \notin Spans /\ NoCore \notin Cores /\ NSlots \in Nat
BY CoreAssumption, SlotAssumption DEF Slots

\* The invariant implies what the runs check.
LEMMA InvImplies == IInv => NothingSharedOrLost /\ NoStaleTranslation
<1> SUFFICES ASSUME IInv PROVE NothingSharedOrLost /\ NoStaleTranslation
  OBVIOUS
<1>1. \A i \in DOMAIN freed : pte[freed[i]] = NoSpan
  <2> SUFFICES ASSUME NEW i \in DOMAIN freed PROVE pte[freed[i]] = NoSpan
    OBVIOUS
  <2>1. freed[i] \in Slots
    BY DEF IInv, TypeOK
  <2> QED
    BY <2>1 DEF IInv, SlotInv, FreedInv, MapInv
<1>2. NothingSharedOrLost
  BY <1>1 DEF IInv, NothingSharedOrLost, SlotInv, HandsInv, FreedInv, CoveredInv, SpanInv
<1>3. NoStaleTranslation
  BY DEF IInv, StaleInv, Awaited, NoStaleTranslation
<1> QED
  BY <1>2, <1>3

LEMMA InitInv == Init => IInv
<1> SUFFICES ASSUME Init PROVE IInv
  OBVIOUS
<1>1. TypeOK
  BY SlotFacts, CoreAssumption DEF Init, TypeOK, Pcs
<1>2. SlotInv /\ LockInv /\ StaleInv /\ MapInv
  BY SlotFacts DEF Init, SlotInv, HandsInv, FreedInv, CoveredInv, LockInv, StaleInv, MapInv, TearingPcs, DyingPcs
<1>3. SpanInv
  BY SlotFacts, ZenonT(30) DEF Init, SpanInv, SpanPcs
<1>4. AckInv
  BY DEF Init, AckInv, Pending
<1> QED
  BY <1>1, <1>2, <1>3, <1>4 DEF IInv

-----------------------------------------------------------------------------
(* The steps of core c, by what they touch. *)

\* Only the place in the code, TABLE and the interrupt flag.
Moves(c) == \/ TableEnter(c) \/ TableLeave(c) \/ FatalCurrent(c) \/ SwitchedOut(c) \/ Reap(c)
            \/ FlushBegin(c) \/ FlushSend(c) \/ FlushEnd(c)

Leaves(c) == \E s \in Slots : Die(c, s) \/ Fault(c, s)

Loads(c) == \E s \in Slots : Load(c, s)

StepOf(c) ==
  \/ MapAlloc(c) \/ MapStack(c) \/ UnmapStack(c) \/ FreeFrames(c) \/ FreeSlot(c)
  \/ Moves(c) \/ Leaves(c) \/ Loads(c) \/ Interrupt(c)

LEMMA StepCases == Next => \E c \in Cores : StepOf(c)
BY ZenonT(30) DEF Next, StepOf, Moves, Leaves, Loads, Finish

\* Where Moves goes keeps the kind of place.
LEMMA MovesPlace ==
  ASSUME TypeOK, NEW c \in Cores, Moves(c)
  PROVE  /\ pc' \in [Cores -> Pcs]
         /\ \A d \in Cores : /\ pc'[d] \in {"run", "table"} <=> pc[d] \in {"run", "table"}
                             /\ pc'[d] \in SpanPcs <=> pc[d] \in SpanPcs
                             /\ pc'[d] \in DyingPcs <=> pc[d] \in DyingPcs
                             /\ pc'[d] \in TearingPcs <=> pc[d] \in TearingPcs
         /\ UNCHANGED <<pte, tlb, alloc_vars, live, mapper, handler, slot, span>>
<1>1. /\ UNCHANGED <<pte, tlb, alloc_vars, live, mapper, handler, slot, span>>
      /\ \E l, m \in Pcs :
           /\ pc[c] = l /\ pc' = [pc EXCEPT ![c] = m]
           /\ \/ l \in {"run", "table"} /\ m \in {"run", "table"}
              \/ l \in DyingPcs /\ m \in DyingPcs
              \/ l \in {"flush", "send", "wait"} /\ m \in {"send", "wait", "release"}
  <2>1. CASE TableEnter(c) \/ TableLeave(c)
    BY <2>1, ZenonT(30) DEF TableEnter, TableLeave, At, Goto, Pcs, alloc_vars, irq_vars
  <2>2. CASE FatalCurrent(c) \/ SwitchedOut(c) \/ Reap(c)
    BY <2>2, ZenonT(30) DEF FatalCurrent, SwitchedOut, Reap, At, Goto, Pcs, alloc_vars, irq_vars, lock_vars, DyingPcs
  <2>3. CASE FlushBegin(c)
    BY <2>3, ZenonT(30) DEF FlushBegin, At, Goto, Pcs, alloc_vars, irq_vars, lock_vars
  <2>4. CASE FlushSend(c) \/ FlushEnd(c)
    BY <2>4, ZenonT(30) DEF FlushSend, FlushEnd, At, Goto, Pcs, alloc_vars, irq_vars, lock_vars
  <2> QED
    BY <2>1, <2>2, <2>3, <2>4, ZenonT(30) DEF Moves
<1> QED
  BY <1>1, Types DEF SpanPcs, DyingPcs, TearingPcs

-----------------------------------------------------------------------------
(* Types. *)

LEMMA TypeStep ==
  ASSUME TypeOK, SlotInv, SpanInv, NEW c \in Cores, StepOf(c)
  PROVE  TypeOK'
<1>1. CASE MapAlloc(c)
  <2>1. slot' \in [Cores -> Slots \cup {NoSlot}] /\ freed' \in Seq(Slots) /\ next' \in 0 .. NSlots
    <3>1. CASE freed # <<>> /\ slot' = [slot EXCEPT ![c] = freed[Len(freed)]]
               /\ freed' = Popped /\ UNCHANGED next
      <4>1. freed[Len(freed)] \in Slots
        BY <3>1, Types, PoppedKeeps
      <4> QED
        BY <3>1, <4>1, Types, PoppedKeeps, ZenonT(30)
    <3>2. CASE freed = <<>> /\ next < NSlots /\ slot' = [slot EXCEPT ![c] = NewSlot]
               /\ next' = next + 1 /\ UNCHANGED freed
      BY <3>2, Types, SlotFacts DEF NewSlot
    <3> QED
      BY <1>1, <3>1, <3>2, ZenonT(30) DEF MapAlloc
  <2>2. span' \in [Cores -> Spans \cup {NoSpan}] /\ free' \in SUBSET Spans
    BY <1>1, Types DEF MapAlloc
  <2>3. pc' \in [Cores -> Pcs]
    BY <1>1, Types, ZenonT(30) DEF MapAlloc, Goto, Pcs
  <2> QED
    BY <1>1, <2>1, <2>2, <2>3, ZenonT(30) DEF MapAlloc, TypeOK, lock_vars, irq_vars
<1>2. CASE MapStack(c)
  <2>1. slot[c] \in Slots /\ span[c] \in Spans
    BY <1>2, HandsFull, ZenonT(30) DEF MapStack, At, SpanPcs
  <2>2. pte' \in [Slots -> Spans \cup {NoSpan}] /\ live' \in SUBSET Slots
    BY <1>2, <2>1, Types, ZenonT(30) DEF MapStack
  <2>3. tlb' \in [Cores -> SUBSET (Slots \X Spans)]
    BY <1>2, Types, ZenonT(30) DEF MapStack
  <2>4. slot' \in [Cores -> Slots \cup {NoSlot}] /\ span' \in [Cores -> Spans \cup {NoSpan}]
    BY <1>2, Types, ZenonT(30) DEF MapStack
  <2>5. pc' \in [Cores -> Pcs]
    BY <1>2, Types, ZenonT(30) DEF MapStack, Goto, Pcs
  <2> QED
    BY <1>2, <2>2, <2>3, <2>4, <2>5, ZenonT(30) DEF MapStack, TypeOK, lock_vars, irq_vars, alloc_vars
<1>3. CASE UnmapStack(c)
  <2>1. slot[c] \in Slots
    BY <1>3, HandsFull, ZenonT(30) DEF UnmapStack, At
  <2>2. pte' \in [Slots -> Spans \cup {NoSpan}] /\ span' \in [Cores -> Spans \cup {NoSpan}]
    BY <1>3, <2>1, Types, ZenonT(30) DEF UnmapStack
  <2>3. tlb' \in [Cores -> SUBSET (Slots \X Spans)]
    BY <1>3, Types DEF UnmapStack
  <2>4. pc' \in [Cores -> Pcs]
    BY <1>3, Types, ZenonT(30) DEF UnmapStack, Goto, Pcs
  <2> QED
    BY <1>3, <2>2, <2>3, <2>4, ZenonT(30) DEF UnmapStack, TypeOK, irq_vars, alloc_vars
<1>4. CASE FreeFrames(c)
  <2>1. span[c] \in Spans
    BY <1>4, HandsFull DEF FreeFrames, At, SpanPcs
  <2>2. free' \in SUBSET Spans /\ span' \in [Cores -> Spans \cup {NoSpan}]
    BY <1>4, <2>1, Types, ZenonT(30) DEF FreeFrames
  <2>3. pc' \in [Cores -> Pcs]
    BY <1>4, Types, ZenonT(30) DEF FreeFrames, Goto, Pcs
  <2> QED
    BY <1>4, <2>2, <2>3, ZenonT(30) DEF FreeFrames, TypeOK, irq_vars, lock_vars
<1>5. CASE FreeSlot(c)
  <2>1. slot[c] \in Slots
    BY <1>5, HandsFull DEF FreeSlot, At
  <2>2. freed' \in Seq(Slots)
    BY <1>5, <2>1, Types, AppendKeeps, ZenonT(30) DEF FreeSlot
  <2>3. pc' \in [Cores -> Pcs] /\ slot' \in [Cores -> Slots \cup {NoSlot}]
    BY <1>5, Types, ZenonT(30) DEF FreeSlot, Goto, Pcs
  <2> QED
    BY <1>5, <2>2, <2>3, ZenonT(30) DEF FreeSlot, TypeOK, irq_vars
<1>6. CASE Moves(c)
  <2>1. table' \in Cores \cup {NoCore}
    BY <1>6, ZenonT(30) DEF Moves, TableEnter, TableLeave, FatalCurrent, SwitchedOut, Reap, FlushBegin,
       FlushSend, FlushEnd, TypeOK, lock_vars
  <2>2. ipi' \in [Cores -> BOOLEAN]
    <3>1. CASE FlushSend(c)
      <4>1. \A d \in Cores : (ipi[d] \/ d # c) \in BOOLEAN
        OBVIOUS
      <4> QED
        BY <3>1, <4>1 DEF FlushSend
    <3>2. CASE ~FlushSend(c)
      BY <1>6, <3>2, ZenonT(30) DEF Moves, TableEnter, TableLeave, FatalCurrent, SwitchedOut, Reap, FlushBegin,
         FlushEnd, TypeOK, irq_vars
    <3> QED
      BY <3>1, <3>2
  <2>3. intr' \in [Cores -> BOOLEAN] /\ acks' \in Nat
    <3>1. CASE FlushBegin(c)
      <4>1. (intr' = intr /\ acks' = acks) \/ (intr' = [intr EXCEPT ![c] = TRUE] /\ acks' = 0)
        BY <3>1, ZenonT(30) DEF FlushBegin
      <4>2. [intr EXCEPT ![c] = TRUE] \in [Cores -> BOOLEAN]
        BY Types, FlagSet
      <4>3. CASE intr' = intr /\ acks' = acks
        BY <4>3 DEF TypeOK
      <4>4. CASE intr' = [intr EXCEPT ![c] = TRUE] /\ acks' = 0
        BY <4>2, <4>4
      <4> QED
        BY <4>1, <4>3, <4>4
    <3>2. CASE SwitchedOut(c)
      BY <3>2, Types, FlagSet, ZenonT(30) DEF SwitchedOut
    <3>3. CASE ~FlushBegin(c) /\ ~SwitchedOut(c)
      BY <1>6, <3>3, ZenonT(30) DEF Moves, TableEnter, TableLeave, FatalCurrent, Reap, FlushSend,
         FlushEnd, TypeOK, irq_vars
    <3> QED
      BY <3>1, <3>2, <3>3
  <2> QED
    BY <1>6, <2>1, <2>2, <2>3, MovesPlace, ZenonT(30) DEF TypeOK, alloc_vars
<1>7. CASE Leaves(c)
  <2>1. PICK s \in Slots : Die(c, s) \/ Fault(c, s)
    BY <1>7 DEF Leaves
  <2>2. pc' \in [Cores -> Pcs] /\ slot' \in [Cores -> Slots \cup {NoSlot}] /\ live' \in SUBSET Slots
    BY <2>1, Types DEF Die, Fault, Goto, Pcs
  <2>3. intr' \in [Cores -> BOOLEAN]
    BY <2>1, Types, FlagSet, ZenonT(30) DEF Die, Fault, irq_vars
  <2> QED
    BY <2>1, <2>2, <2>3 DEF Die, Fault, TypeOK, irq_vars, lock_vars, alloc_vars
<1>8. CASE Loads(c)
  <2>1. PICK s \in Slots : Load(c, s)
    BY <1>8 DEF Loads
  <2>2. tlb' \in [Cores -> SUBSET (Slots \X Spans)]
    BY <2>1, Types DEF Load
  <2> QED
    BY <2>1, <2>2, ZenonT(30) DEF Load, TypeOK, irq_vars, lock_vars, alloc_vars
<1>9. CASE Interrupt(c)
  <2>1. ipi' \in [Cores -> BOOLEAN] /\ handler' \in [Cores -> BOOLEAN]
    BY <1>9, Types, FlagSet, ZenonT(30) DEF Interrupt, FlushTlb, FlushAck
  <2>2. tlb' \in [Cores -> SUBSET (Slots \X Spans)]
    BY <1>9, Types, ZenonT(30) DEF Interrupt, FlushTlb, FlushAck
  <2>3. acks' \in Nat
    BY <1>9, Types DEF Interrupt, FlushTlb, FlushAck
  <2> QED
    BY <1>9, <2>1, <2>2, <2>3 DEF Interrupt, FlushTlb, FlushAck, TypeOK, lock_vars, alloc_vars
<1> QED
  BY <1>1, <1>2, <1>3, <1>4, <1>5, <1>6, <1>7, <1>8, <1>9 DEF StepOf

-----------------------------------------------------------------------------
(* Slots. *)

LEMMA SlotStep ==
  ASSUME TypeOK, SlotInv, NEW c \in Cores, StepOf(c)
  PROVE  SlotInv'
<1>1. CASE MapAlloc(c)
  <2>0. pc[c] = "run" /\ pc' = [pc EXCEPT ![c] = "map"] /\ live' = live
    BY <1>1, ZenonT(30) DEF MapAlloc, At, Goto
  <2>1. CASE freed # <<>> /\ slot' = [slot EXCEPT ![c] = freed[Len(freed)]]
             /\ freed' = Popped /\ UNCHANGED next
    <3>1. freed[Len(freed)] \in Slots
      BY <2>1, Types, PoppedKeeps
    <3>2. \A i \in DOMAIN freed : freed[i] \in Slots
      BY Types
    <3>3. HandsInv'
      BY <2>0, <2>1, <3>1, Types, PoppedKeeps, SlotFacts DEF SlotInv, HandsInv, FreedInv
    <3>4. FreedInv'
      BY <2>0, <2>1, <3>1, Types, PoppedKeeps, SlotFacts DEF SlotInv, HandsInv, FreedInv
    <3>5. CoveredInv'
      <4>1. \A d \in Cores : slot[d] # NoSlot => slot'[d] = slot[d]
        BY <2>0, <2>1, Types, ZenonT(30) DEF SlotInv, HandsInv
      <4>2. slot'[c] = freed[Len(freed)]
        BY <2>1, Types
      <4>3. \A i \in DOMAIN freed : (i \in DOMAIN freed' /\ freed'[i] = freed[i]) \/ freed[i] = slot'[c]
        BY <2>1, <4>2, Types, PoppedKeeps, ZenonT(30)
      <4>4. next' = next /\ \A s \in 0 .. next - 1 : s # NoSlot
        BY <2>1, Types, SlotFacts
      <4> QED
        BY <2>0, <4>1, <4>3, <4>4 DEF SlotInv, CoveredInv
    <3> QED
      BY <3>3, <3>4, <3>5 DEF SlotInv
  <2>2. CASE freed = <<>> /\ next < NSlots /\ slot' = [slot EXCEPT ![c] = NewSlot]
             /\ next' = next + 1 /\ UNCHANGED freed
    <3>1. next \in Slots /\ next < next' /\ (\A s \in Slots : s < next => s < next' /\ s # next) /\ DOMAIN freed = {}
      BY <2>2, Types, SlotFacts
    <3>2. slot' = [slot EXCEPT ![c] = next]
      BY <2>2 DEF NewSlot
    <3>3. HandsInv'
      BY <2>0, <3>1, <3>2, Types, SlotFacts DEF SlotInv, HandsInv, CoveredInv
    <3>4. FreedInv'
      BY <2>2, <3>1 DEF FreedInv
    <3>5. CoveredInv'
      <4>1. \A d \in Cores : slot[d] # NoSlot => slot'[d] = slot[d]
        BY <2>0, <3>2, Types, ZenonT(30) DEF SlotInv, HandsInv
      <4>2. slot'[c] = next
        BY <3>2, Types
      <4>3. \A s \in 0 .. next' - 1 : s # NoSlot /\ (s \in 0 .. next - 1 \/ s = next)
        BY <2>2, Types, SlotFacts
      <4> QED
        BY <2>0, <2>2, <3>1, <4>1, <4>2, <4>3, Types DEF SlotInv, CoveredInv
    <3> QED
      BY <3>3, <3>4, <3>5 DEF SlotInv
  <2> QED
    BY <1>1, <2>1, <2>2 DEF MapAlloc
<1>2. CASE MapStack(c)
  <2>0. /\ pc[c] = "map" /\ pc' = [pc EXCEPT ![c] = "run"] /\ slot' = [slot EXCEPT ![c] = NoSlot]
        /\ live' = live \cup {slot[c]} /\ freed' = freed /\ next' = next
    BY <1>2 DEF MapStack, At, Goto, alloc_vars
  <2>1. slot[c] \in Slots /\ slot[c] < next
    BY <2>0, Types, ZenonT(30) DEF SlotInv, HandsInv
  <2>2. HandsInv'
    BY <2>0, <2>1, Types, SlotFacts DEF SlotInv, HandsInv
  <2>3. FreedInv'
    BY <2>0, <2>1, Types, SlotFacts DEF SlotInv, FreedInv
  <2>4. CoveredInv'
    <3>1. \A d \in Cores : d # c => slot'[d] = slot[d]
      BY <2>0, Types
    <3> QED
      BY <2>0, <2>1, <3>1 DEF SlotInv, CoveredInv
  <2> QED
    BY <2>2, <2>3, <2>4 DEF SlotInv
<1>3. CASE UnmapStack(c) \/ FreeFrames(c)
  BY <1>3, Types DEF UnmapStack, FreeFrames, At, Goto, alloc_vars, SlotInv, HandsInv, FreedInv, CoveredInv
<1>4. CASE FreeSlot(c)
  <2>0. /\ pc[c] = "push" /\ pc' = [pc EXCEPT ![c] = "run"] /\ slot' = [slot EXCEPT ![c] = NoSlot]
        /\ live' = live /\ freed' = Append(freed, slot[c]) /\ next' = next
    BY <1>4 DEF FreeSlot, At, Goto
  <2>1. slot[c] \in Slots
    BY <2>0, Types, ZenonT(30) DEF SlotInv, HandsInv
  <2>2. HandsInv'
    BY <2>0, <2>1, Types, SlotFacts DEF SlotInv, HandsInv
  <2>3. FreedInv'
    BY <2>0, <2>1, Types, AppendKeeps, SlotFacts DEF SlotInv, HandsInv, FreedInv
  <2>4. CoveredInv'
    <3>1. \A d \in Cores : d # c => slot'[d] = slot[d]
      BY <2>0, Types
    <3>2. /\ \A i \in DOMAIN freed : i \in DOMAIN freed' /\ freed'[i] = freed[i]
          /\ Len(freed) + 1 \in DOMAIN freed' /\ freed'[Len(freed) + 1] = slot[c]
      BY <2>0, <2>1, Types, AppendKeeps
    <3> QED
      BY <2>0, <2>1, <3>1, <3>2 DEF SlotInv, CoveredInv
  <2> QED
    BY <2>2, <2>3, <2>4 DEF SlotInv
<1>5. CASE Moves(c)
  BY <1>5, MovesPlace DEF SlotInv, HandsInv, FreedInv, CoveredInv, alloc_vars
<1>6. CASE Leaves(c)
  <2>1. PICK s \in Slots : Die(c, s) \/ Fault(c, s)
    BY <1>6 DEF Leaves
  <2>2. /\ pc[c] = "run" /\ \E l \in {"reap", "fault"} : pc' = [pc EXCEPT ![c] = l]
        /\ s \in live /\ live' = live \ {s} /\ slot' = [slot EXCEPT ![c] = s]
        /\ freed' = freed /\ next' = next
    BY <2>1, ZenonT(30) DEF Die, Fault, At, Goto, alloc_vars
  <2>3. slot[c] = NoSlot /\ s < next
    BY <2>2, ZenonT(30) DEF SlotInv, HandsInv, CoveredInv
  <2>4. HandsInv'
    BY <2>2, <2>3, Types, SlotFacts DEF SlotInv, HandsInv
  <2>5. FreedInv'
    BY <2>2, Types, SlotFacts DEF SlotInv, FreedInv
  <2>6. CoveredInv'
    <3>1. (\A d \in Cores : d # c => slot'[d] = slot[d]) /\ slot'[c] = s
      BY <2>2, Types
    <3>2. \A t \in 0 .. next - 1 : t # NoSlot
      BY Types, SlotFacts
    <3> QED
      BY <2>2, <2>3, <3>1, <3>2 DEF SlotInv, CoveredInv
  <2> QED
    BY <2>4, <2>5, <2>6 DEF SlotInv
<1>7. CASE Loads(c) \/ Interrupt(c)
  BY <1>7 DEF Loads, Load, Interrupt, FlushTlb, FlushAck, alloc_vars, SlotInv, HandsInv, FreedInv, CoveredInv
<1> QED
  BY <1>1, <1>2, <1>3, <1>4, <1>5, <1>6, <1>7 DEF StepOf

-----------------------------------------------------------------------------
(* Spans. *)

LEMMA SpanStep ==
  ASSUME TypeOK, SlotInv, SpanInv, MapInv, NEW c \in Cores, StepOf(c)
  PROVE  SpanInv'
<1>1. CASE MapAlloc(c)
  <2>1. PICK f \in free : span' = [span EXCEPT ![c] = f] /\ free' = free \ {f}
    BY <1>1, ZenonT(30) DEF MapAlloc
  <2>2. pc[c] = "run" /\ pc' = [pc EXCEPT ![c] = "map"] /\ pte' = pte
    BY <1>1 DEF MapAlloc, At, Goto
  <2>3. f \in Spans /\ span[c] = NoSpan
    BY <2>1, <2>2, Types, ZenonT(30) DEF SpanInv, SpanPcs
  <2>4. span'[c] = f /\ pc'[c] = "map" /\ \A d \in Cores : d # c => span'[d] = span[d] /\ pc'[d] = pc[d]
    BY <2>1, <2>2, Types
  <2>5. f # NoSpan /\ (\A s \in Slots : pte[s] # f) /\ \A d \in Cores : span[d] # f
    BY <2>1, <2>3, SlotFacts DEF SpanInv
  <2>6. \A g \in Spans : g \in free' \/ (\E s \in Slots : pte[s] = g) \/ \E d \in Cores : span'[d] = g
    BY <2>1, <2>3, <2>4, SlotFacts DEF SpanInv
  <2> QED
    BY <2>1, <2>2, <2>4, <2>5, <2>6 DEF SpanInv, SpanPcs
<1>2. CASE MapStack(c)
  <2>1. /\ pc[c] = "map" /\ pc' = [pc EXCEPT ![c] = "run"] /\ span' = [span EXCEPT ![c] = NoSpan]
        /\ pte' = [pte EXCEPT ![slot[c]] = span[c]] /\ free' = free
    BY <1>2, ZenonT(30) DEF MapStack, At, Goto, alloc_vars
  <2>2. slot[c] \in Slots /\ span[c] \in Spans
    BY <2>1, HandsFull DEF SpanPcs
  <2>3. pte[slot[c]] = NoSpan
    BY <2>1, <2>2 DEF MapInv, SlotInv, HandsInv, DyingPcs
  <2> QED
    BY <2>1, <2>2, <2>3, Types, SlotFacts DEF SpanInv, SpanPcs
<1>3. CASE UnmapStack(c)
  <2>1. /\ pc[c] = "unmap" /\ pc' = [pc EXCEPT ![c] = "flush"] /\ free' = free
        /\ span' = [span EXCEPT ![c] = pte[slot[c]]] /\ pte' = [pte EXCEPT ![slot[c]] = NoSpan]
    BY <1>3, ZenonT(30) DEF UnmapStack, At, Goto, alloc_vars
  <2>2. slot[c] \in Slots /\ pte[slot[c]] # NoSpan
    BY <2>1, HandsFull, ZenonT(30) DEF MapInv, DyingPcs
  <2>3. pte[slot[c]] \in Spans /\ span[c] = NoSpan
    BY <2>1, <2>2, Types DEF SpanInv, SpanPcs
  <2> QED
    BY <2>1, <2>2, <2>3, Types, SlotFacts DEF SpanInv, SpanPcs
<1>4. CASE FreeFrames(c)
  <2>1. /\ pc[c] = "release" /\ pc' = [pc EXCEPT ![c] = "push"] /\ free' = free \cup {span[c]}
        /\ span' = [span EXCEPT ![c] = NoSpan] /\ pte' = pte
    BY <1>4 DEF FreeFrames, At, Goto
  <2>2. span[c] \in Spans
    BY <2>1, HandsFull DEF SpanPcs
  <2> QED
    BY <2>1, <2>2, Types, SlotFacts DEF SpanInv, SpanPcs
<1>5. CASE FreeSlot(c)
  <2>1. pc[c] = "push" /\ pc' = [pc EXCEPT ![c] = "run"] /\ UNCHANGED <<free, span, pte>>
    BY <1>5 DEF FreeSlot, At, Goto
  <2> QED
    BY <2>1, Types DEF SpanInv, SpanPcs
<1>6. CASE Moves(c)
  BY <1>6, MovesPlace DEF SpanInv, alloc_vars
<1>7. CASE Leaves(c)
  <2>1. pc[c] = "run" /\ (\E l \in {"reap", "fault"} : pc' = [pc EXCEPT ![c] = l]) /\ UNCHANGED <<free, span, pte>>
    BY <1>7, ZenonT(30) DEF Leaves, Die, Fault, At, Goto, alloc_vars
  <2> QED
    BY <2>1, Types DEF SpanInv, SpanPcs
<1>8. CASE Loads(c) \/ Interrupt(c)
  BY <1>8 DEF Loads, Load, Interrupt, FlushTlb, FlushAck, alloc_vars, SpanInv
<1> QED
  BY <1>1, <1>2, <1>3, <1>4, <1>5, <1>6, <1>7, <1>8 DEF StepOf

-----------------------------------------------------------------------------
(* The page table, MAPPER, the acknowledgements and the TLBs. *)

LEMMA MapStep ==
  ASSUME TypeOK, SlotInv, SpanInv, MapInv, NEW c \in Cores, StepOf(c)
  PROVE  MapInv'
<1>1. CASE MapAlloc(c) \/ FreeFrames(c) \/ FreeSlot(c)
  <2>1. /\ UNCHANGED <<pte, live>>
        /\ pc[c] \notin DyingPcs /\ pc'[c] \notin DyingPcs
        /\ \A d \in Cores : d # c => pc'[d] = pc[d] /\ slot'[d] = slot[d]
    BY <1>1, Types, ZenonT(30) DEF MapAlloc, FreeFrames, FreeSlot, At, Goto, DyingPcs
  <2> QED
    BY <2>1 DEF MapInv
<1>2. CASE MapStack(c)
  <2>1. /\ pc[c] = "map" /\ pc' = [pc EXCEPT ![c] = "run"] /\ slot' = [slot EXCEPT ![c] = NoSlot]
        /\ pte' = [pte EXCEPT ![slot[c]] = span[c]] /\ live' = live \cup {slot[c]}
    BY <1>2 DEF MapStack, At, Goto
  <2>2. slot[c] \in Slots /\ span[c] # NoSpan
    BY <2>1, HandsFull, SlotFacts DEF SpanPcs
  <2> QED
    BY <2>1, <2>2, Types DEF MapInv, DyingPcs
<1>3. CASE UnmapStack(c)
  <2>1. /\ pc[c] = "unmap" /\ pc' = [pc EXCEPT ![c] = "flush"] /\ UNCHANGED <<live, slot>>
        /\ pte' = [pte EXCEPT ![slot[c]] = NoSpan]
    BY <1>3, ZenonT(30) DEF UnmapStack, At, Goto
  <2>2. slot[c] \in Slots /\ slot[c] # NoSlot
    BY <2>1, HandsFull, SlotFacts
  <2>3. slot[c] \notin live /\ \A d \in Cores : d # c => slot[d] # slot[c]
    BY <2>2 DEF SlotInv, HandsInv
  <2> QED
    BY <2>1, <2>2, <2>3, Types DEF MapInv, DyingPcs
<1>4. CASE Moves(c)
  BY <1>4, MovesPlace DEF MapInv
<1>5. CASE Leaves(c)
  <2>1. PICK s \in Slots : Die(c, s) \/ Fault(c, s)
    BY <1>5 DEF Leaves
  <2>2. /\ pc[c] = "run" /\ \E l \in {"reap", "fault"} : pc' = [pc EXCEPT ![c] = l]
        /\ s \in live /\ live' = live \ {s} /\ slot' = [slot EXCEPT ![c] = s] /\ pte' = pte
    BY <2>1, ZenonT(30) DEF Die, Fault, At, Goto
  <2> QED
    BY <2>2, Types DEF MapInv, DyingPcs
<1>6. CASE Loads(c) \/ Interrupt(c)
  BY <1>6 DEF Loads, Load, Interrupt, FlushTlb, FlushAck, MapInv
<1> QED
  BY <1>1, <1>2, <1>3, <1>4, <1>5, <1>6 DEF StepOf

LEMMA LockStep ==
  ASSUME TypeOK, LockInv, NEW c \in Cores, StepOf(c)
  PROVE  LockInv'
<1>1. CASE MapAlloc(c) \/ MapStack(c)
  BY <1>1, Types DEF MapAlloc, MapStack, At, Goto, LockInv, TearingPcs, lock_vars
<1>2. CASE UnmapStack(c)
  BY <1>2, Types, SlotFacts, ZenonT(30) DEF UnmapStack, At, Goto, LockInv, TearingPcs
<1>3. CASE FreeFrames(c) \/ FreeSlot(c)
  BY <1>3, Types DEF FreeFrames, FreeSlot, At, Goto, LockInv, TearingPcs, lock_vars
<1>4. CASE Moves(c)
  BY <1>4, MovesPlace DEF LockInv
<1>5. CASE Leaves(c)
  BY <1>5, Types DEF Leaves, Die, Fault, At, Goto, LockInv, TearingPcs, lock_vars
<1>6. CASE Loads(c) \/ Interrupt(c)
  BY <1>6, ZenonT(30) DEF Loads, Load, Interrupt, FlushTlb, FlushAck, LockInv, lock_vars
<1> QED
  BY <1>1, <1>2, <1>3, <1>4, <1>5, <1>6 DEF StepOf

\* While one core is tearing a stack down, no other is.
LEMMA OneTearing ==
  ASSUME LockInv, NEW c \in Cores, pc[c] \in TearingPcs
  PROVE  \A d \in Cores : d # c => pc[d] \notin TearingPcs
BY DEF LockInv

\* A step outside flush_broadcast and its interrupt changes nothing of AckInv.
LEMMA AckKept ==
  ASSUME AckInv, UNCHANGED <<acks, ipi, handler>>,
         \A d \in Cores : /\ pc'[d] = "wait" <=> pc[d] = "wait"
                          /\ pc'[d] = "send" => pc[d] = "send"
  PROVE  AckInv'
<1>1. Pending' = Pending
  BY DEF Pending
<1> QED
  BY <1>1 DEF AckInv

LEMMA AckStep ==
  ASSUME TypeOK, LockInv, AckInv, NEW c \in Cores, StepOf(c)
  PROVE  AckInv'
<1>1. CASE MapAlloc(c) \/ MapStack(c) \/ UnmapStack(c) \/ FreeFrames(c) \/ FreeSlot(c)
  <2>1. UNCHANGED <<acks, ipi, handler>>
    BY <1>1, ZenonT(30) DEF MapAlloc, MapStack, UnmapStack, FreeFrames, FreeSlot, irq_vars
  <2>2. /\ pc[c] \notin {"wait", "send"}
        /\ \E l \in {"map", "run", "flush", "push"} : pc' = [pc EXCEPT ![c] = l]
    BY <1>1, ZenonT(30) DEF MapAlloc, MapStack, UnmapStack, FreeFrames, FreeSlot, At, Goto
  <2> QED
    BY <2>1, <2>2, AckKept, Types
<1>2. CASE Leaves(c)
  <2>1. UNCHANGED <<acks, ipi, handler>>
    BY <1>2 DEF Leaves, Die, Fault, irq_vars
  <2>2. pc[c] = "run" /\ \E l \in {"reap", "fault"} : pc' = [pc EXCEPT ![c] = l]
    BY <1>2, ZenonT(30) DEF Leaves, Die, Fault, At, Goto
  <2> QED
    BY <2>1, <2>2, AckKept, Types
<1>3. CASE Loads(c)
  BY <1>3, AckKept DEF Loads, Load, irq_vars
<1>4. CASE TableEnter(c) \/ TableLeave(c) \/ FatalCurrent(c) \/ SwitchedOut(c) \/ Reap(c)
  <2>1. UNCHANGED <<acks, ipi, handler>>
    BY <1>4, ZenonT(30) DEF TableEnter, TableLeave, FatalCurrent, SwitchedOut, Reap, irq_vars
  <2>2. /\ pc[c] \notin {"wait", "send"}
        /\ \E l \in {"table", "run", "killed", "reap", "unmap"} : pc' = [pc EXCEPT ![c] = l]
    BY <1>4, ZenonT(30) DEF TableEnter, TableLeave, FatalCurrent, SwitchedOut, Reap, At, Goto
  <2> QED
    BY <2>1, <2>2, AckKept, Types
<1>5. CASE FlushBegin(c)
  <2>1. pc[c] = "flush" /\ UNCHANGED <<ipi, handler>>
    BY <1>5 DEF FlushBegin, At
  <2>2. CASE pc' = [pc EXCEPT ![c] = "release"] /\ acks' = acks
    BY <2>1, <2>2, AckKept, Types
  <2>3. CASE pc' = [pc EXCEPT ![c] = "send"] /\ acks' = 0
    <3>1. \A d \in Cores : pc[d] # "wait" /\ pc'[d] # "wait"
      BY <2>1, <2>3, OneTearing, Types DEF TearingPcs
    <3>2. Pending = {} /\ Pending' = Pending
      BY <2>1, <3>1, ZenonT(30) DEF AckInv, Pending
    <3> QED
      BY <2>1, <2>3, <3>1, <3>2 DEF AckInv
  <2> QED
    BY <1>5, <2>2, <2>3, ZenonT(30) DEF FlushBegin, Goto
<1>6. CASE FlushSend(c)
  <2>1. /\ pc[c] = "send" /\ pc' = [pc EXCEPT ![c] = "wait"] /\ acks' = acks /\ handler' = handler
        /\ ipi' = [d \in Cores |-> ipi[d] \/ d # c]
    BY <1>6 DEF FlushSend, At, Goto
  <2>2. \A d \in Cores : d # c => pc[d] \notin TearingPcs
    BY <2>1, OneTearing DEF TearingPcs
  <2>3. Pending = {} /\ acks = 0
    BY <2>1, <2>2 DEF AckInv, TearingPcs
  <2>4. \A d \in Cores : ~ipi[d] /\ ~handler[d]
    BY <2>3 DEF Pending
  <2>5. Pending' = Cores \ {c}
    BY <2>1, <2>4, ZenonT(30) DEF Pending
  <2>6. Cardinality(Pending') = NCores - 1
    BY <2>5, CoresFinite, FS_RemoveElement
  <2>7. \A d \in Cores : /\ pc'[d] = "wait" <=> d = c
                         /\ pc'[d] # "send"
    BY <2>1, <2>2, Types DEF TearingPcs
  <2>8. \A d \in Cores : ~(ipi'[d] /\ handler'[d])
    BY <2>1, <2>4
  <2> QED
    BY <2>1, <2>3, <2>5, <2>6, <2>7, <2>8, CoreAssumption DEF AckInv
<1>7. CASE FlushEnd(c)
  <2>1. pc[c] = "wait" /\ pc' = [pc EXCEPT ![c] = "release"] /\ UNCHANGED <<acks, ipi, handler>> /\ Acked
    BY <1>7 DEF FlushEnd, At, Goto, irq_vars
  <2>2. Cardinality(Pending) = 0
    BY <2>1, PendingFinite, Types, CoreAssumption DEF AckInv, Acked
  <2>3. Pending = {} /\ Pending' = Pending
    BY <2>1, <2>2, PendingFinite, FS_EmptySet DEF Pending
  <2>4. \A d \in Cores : pc'[d] # "wait" /\ pc'[d] # "send"
    BY <2>1, OneTearing, Types DEF TearingPcs
  <2> QED
    BY <2>1, <2>3, <2>4 DEF AckInv
<1>8. CASE FlushTlb(c)
  <2>1. /\ ipi[c] /\ ~handler[c] /\ ipi' = [ipi EXCEPT ![c] = FALSE]
        /\ handler' = [handler EXCEPT ![c] = TRUE] /\ UNCHANGED <<acks, pc>>
    BY <1>8 DEF FlushTlb
  <2>2. Pending' = Pending
    BY <2>1, Types, ZenonT(30) DEF Pending
  <2>3. \A d \in Cores : ~(ipi'[d] /\ handler'[d])
    BY <2>1, Types, ZenonT(30) DEF AckInv
  <2> QED
    BY <2>1, <2>2, <2>3 DEF AckInv
<1>9. CASE FlushAck(c)
  <2>1. /\ handler[c] /\ handler' = [handler EXCEPT ![c] = FALSE] /\ acks' = acks + 1
        /\ UNCHANGED <<ipi, pc>>
    BY <1>9 DEF FlushAck
  <2>2. ~ipi[c]
    BY <2>1 DEF AckInv
  <2>3. Pending' = Pending \ {c} /\ c \in Pending
    BY <2>1, <2>2, Types DEF Pending
  <2>4. Cardinality(Pending') = Cardinality(Pending) - 1
    BY <2>3, PendingFinite, FS_RemoveElement
  <2>5. \A d \in Cores : ~(ipi'[d] /\ handler'[d])
    BY <2>1, Types, ZenonT(30) DEF AckInv
  <2>6. PICK w \in Cores : pc[w] = "wait"
    BY <2>3 DEF AckInv
  <2>7. \A d \in Cores : pc[d] # "send"
    BY <2>6, OneTearing DEF TearingPcs
  <2>8. \A d \in Cores : pc'[d] = "wait" => d \notin Pending' /\ acks' + Cardinality(Pending') = NCores - 1
    BY <2>1, <2>3, <2>4, PendingFinite, Types, CoreAssumption DEF AckInv
  <2> QED
    BY <2>1, <2>5, <2>6, <2>7, <2>8 DEF AckInv
<1> QED
  BY <1>1, <1>2, <1>3, <1>4, <1>5, <1>6, <1>7, <1>8, <1>9 DEF Moves, Interrupt, StepOf

\* A step of a core that is not tearing a stack down leaves what others await.
LEMMA AwaitedKept ==
  ASSUME NEW c \in Cores, pc[c] \notin {"flush", "send", "wait"}, ipi' = ipi,
         \A d \in Cores : d # c => pc'[d] = pc[d] /\ slot'[d] = slot[d] /\ span'[d] = span[d],
         UNCHANGED <<pte, tlb>>, StaleInv
  PROVE  StaleInv'
<1>1. ASSUME NEW b \in Cores, NEW e, Awaited(b, e) PROVE Awaited(b, e)'
  BY <1>1 DEF Awaited
<1> QED
  BY <1>1 DEF StaleInv

\* With MAPPER free every translation is that of the page table.
LEMMA NoneAwaited ==
  ASSUME LockInv, StaleInv, mapper = NoCore
  PROVE  \A c \in Cores : \A e \in tlb[c] : pte[e[1]] = e[2]
BY SlotFacts DEF LockInv, StaleInv, Awaited, TearingPcs

LEMMA StaleStep ==
  ASSUME IInv, NEW c \in Cores, StepOf(c)
  PROVE  StaleInv'
<1>0. TypeOK /\ SlotInv /\ SpanInv /\ MapInv /\ LockInv /\ AckInv /\ StaleInv
  BY DEF IInv
<1>1. CASE MapAlloc(c) \/ FreeFrames(c) \/ FreeSlot(c) \/ Leaves(c)
  <2>1. pc[c] \in {"run", "release", "push"} /\ ipi' = ipi /\ UNCHANGED <<pte, tlb>>
    BY <1>1, ZenonT(30) DEF MapAlloc, FreeFrames, FreeSlot, Leaves, Die, Fault, At, irq_vars
  <2>2. \A d \in Cores : d # c => pc'[d] = pc[d] /\ slot'[d] = slot[d] /\ span'[d] = span[d]
    BY <1>0, <1>1, Types, ZenonT(30) DEF MapAlloc, FreeFrames, FreeSlot, Leaves, Die, Fault, Goto
  <2> QED
    BY <1>0, <2>1, <2>2, AwaitedKept
<1>2. CASE MapStack(c)
  <2>1. /\ pte' = [pte EXCEPT ![slot[c]] = span[c]] /\ pc[c] = "map" /\ mapper = NoCore
        /\ tlb' = [tlb EXCEPT ![c] = {e \in @ : e[1] # slot[c]}]
    BY <1>2, ZenonT(30) DEF MapStack, At
  <2>2. \A b \in Cores : \A e \in tlb'[b] : e \in tlb[b] /\ e[1] \in Slots /\ e[2] \in Spans
    BY <1>0, <2>1, Types
  <2>3. slot[c] \in Slots /\ pte[slot[c]] = NoSpan
    BY <1>0, <2>1, HandsFull DEF MapInv, SlotInv, HandsInv, DyingPcs
  <2>4. \A b \in Cores : \A e \in tlb'[b] : e[1] # slot[c] /\ pte[e[1]] = e[2]
    BY <1>0, <2>1, <2>2, <2>3, NoneAwaited, SlotFacts
  <2>5. \A b \in Cores : \A e \in tlb'[b] : pte'[e[1]] = e[2]
    BY <1>0, <2>1, <2>2, <2>4, Types
  <2> QED
    BY <2>5 DEF StaleInv
<1>3. CASE UnmapStack(c)
  <2>1. /\ pte' = [pte EXCEPT ![slot[c]] = NoSpan] /\ pc[c] = "unmap" /\ mapper = NoCore
        /\ tlb' = [tlb EXCEPT ![c] = {e \in @ : e[1] # slot[c]}]
        /\ pc' = [pc EXCEPT ![c] = "flush"] /\ slot' = slot
        /\ span' = [span EXCEPT ![c] = pte[slot[c]]]
    BY <1>3 DEF UnmapStack, At, Goto
  <2>2. pc'[c] = "flush" /\ slot'[c] = slot[c] /\ span'[c] = pte[slot[c]]
    BY <1>0, <2>1, Types, ZenonT(30)
  <2>3. \A b \in Cores : \A e \in tlb'[b] : e \in tlb[b] /\ e[1] \in Slots /\ (b = c => e[1] # slot[c])
    BY <1>0, <2>1, Types
  <2>4. ASSUME NEW b \in Cores, NEW e \in tlb'[b] PROVE pte'[e[1]] = e[2] \/ Awaited(b, e)'
    <3>1. pte[e[1]] = e[2]
      BY <1>0, <2>1, <2>3, NoneAwaited, ZenonT(30)
    <3>2. CASE e[1] = slot[c]
      BY <2>2, <2>3, <3>1, <3>2 DEF Awaited
    <3>3. CASE e[1] # slot[c]
      BY <1>0, <2>1, <2>3, <3>1, <3>3, Types, ZenonT(30)
    <3> QED
      BY <3>2, <3>3
  <2> QED
    BY <2>4 DEF StaleInv
<1>4. CASE TableEnter(c) \/ TableLeave(c) \/ FatalCurrent(c) \/ SwitchedOut(c) \/ Reap(c)
  <2>1. /\ pc[c] \in {"run", "table", "fault", "killed", "reap"} /\ ipi' = ipi
        /\ UNCHANGED <<pte, tlb, slot, span>>
    BY <1>4, ZenonT(30) DEF TableEnter, TableLeave, FatalCurrent, SwitchedOut, Reap, At, irq_vars
  <2>2. \A d \in Cores : d # c => pc'[d] = pc[d]
    BY <1>0, <1>4, Types, ZenonT(30) DEF TableEnter, TableLeave, FatalCurrent, SwitchedOut, Reap, Goto
  <2> QED
    BY <1>0, <2>1, <2>2, AwaitedKept
<1>5. CASE FlushBegin(c)
  <2>1. pc[c] = "flush" /\ UNCHANGED <<pte, tlb, slot, span, ipi>>
    BY <1>5 DEF FlushBegin, At
  <2>2. CASE NCores = 1 /\ pc' = [pc EXCEPT ![c] = "release"]
    <3>1. \A b, d \in Cores : b = d
      BY <2>2 DEF Cores
    <3>2. \A b \in Cores : \A e : ~Awaited(b, e)
      BY <3>1 DEF Awaited
    <3> QED
      BY <1>0, <2>1, <3>2 DEF StaleInv
  <2>3. CASE pc' = [pc EXCEPT ![c] = "send"]
    <3>1. ASSUME NEW b \in Cores, NEW e, Awaited(b, e) PROVE Awaited(b, e)'
      BY <1>0, <2>1, <2>3, <3>1, Types, ZenonT(30) DEF Awaited
    <3> QED
      BY <1>0, <2>1, <3>1 DEF StaleInv
  <2> QED
    BY <1>5, <2>2, <2>3, ZenonT(30) DEF FlushBegin, Goto
<1>6. CASE FlushSend(c)
  <2>1. /\ pc[c] = "send" /\ pc' = [pc EXCEPT ![c] = "wait"] /\ UNCHANGED <<pte, tlb, slot, span>>
        /\ ipi' = [d \in Cores |-> ipi[d] \/ d # c]
    BY <1>6 DEF FlushSend, At, Goto
  <2>2. pc'[c] = "wait" /\ (\A d \in Cores : d # c => pc'[d] = pc[d] /\ ipi'[d])
    BY <1>0, <2>1, Types, ZenonT(30)
  <2>3. \A d \in Cores : d # c => pc[d] \notin {"flush", "send", "wait"}
    BY <1>0, <2>1, OneTearing DEF TearingPcs
  <2>4. ASSUME NEW b \in Cores, NEW e, Awaited(b, e) PROVE Awaited(b, e)'
    BY <2>1, <2>2, <2>3, <2>4 DEF Awaited
  <2> QED
    BY <1>0, <2>1, <2>4 DEF StaleInv
<1>7. CASE FlushEnd(c)
  <2>1. /\ pc[c] = "wait" /\ Acked /\ UNCHANGED <<pte, tlb, slot, span, ipi>>
    BY <1>7 DEF FlushEnd, At, irq_vars
  <2>2. Cardinality(Pending) = 0
    BY <1>0, <2>1, PendingFinite, Types, CoreAssumption DEF AckInv, Acked
  <2>3. \A b \in Cores : ~ipi[b]
    BY <2>2, PendingFinite, FS_EmptySet DEF Pending
  <2>4. \A d \in Cores : pc[d] \notin {"flush", "send"}
    BY <1>0, <2>1, OneTearing DEF TearingPcs
  <2>5. \A b \in Cores : \A e : ~Awaited(b, e)
    BY <2>3, <2>4 DEF Awaited
  <2> QED
    BY <1>0, <2>1, <2>5 DEF StaleInv
<1>8. CASE Loads(c)
  <2>1. PICK s \in Slots : Load(c, s)
    BY <1>8 DEF Loads
  <2>2. UNCHANGED <<pte, pc, slot, span, ipi>> /\ tlb' = [tlb EXCEPT ![c] = @ \cup {<<s, pte[s]>>}]
    BY <2>1 DEF Load, irq_vars
  <2>3. \A b \in Cores : \A e \in tlb'[b] : e \in tlb[b] \/ e = <<s, pte[s]>>
    BY <1>0, <2>2, Types, ZenonT(30)
  <2>4. ASSUME NEW b \in Cores, NEW e, Awaited(b, e) PROVE Awaited(b, e)'
    BY <2>2, <2>4 DEF Awaited
  <2> QED
    BY <1>0, <2>2, <2>3, <2>4 DEF StaleInv
<1>9. CASE Interrupt(c)
  <2>1. /\ UNCHANGED <<pte, pc, slot, span>>
        /\ \/ ipi' = [ipi EXCEPT ![c] = FALSE] /\ tlb' = [tlb EXCEPT ![c] = {}]
           \/ UNCHANGED <<ipi, tlb>>
    BY <1>9 DEF Interrupt, FlushTlb, FlushAck
  <2>2. ASSUME NEW b \in Cores, NEW e \in tlb'[b] PROVE e \in tlb[b] /\ ipi'[b] = ipi[b]
    BY <1>0, <2>1, <2>2, Types, ZenonT(30)
  <2>3. ASSUME NEW b \in Cores, NEW e \in tlb'[b], Awaited(b, e) PROVE Awaited(b, e)'
    BY <2>1, <2>2, <2>3 DEF Awaited
  <2> QED
    BY <1>0, <2>1, <2>2, <2>3 DEF StaleInv
<1> QED
  BY <1>1, <1>2, <1>3, <1>4, <1>5, <1>6, <1>7, <1>8, <1>9 DEF Moves, StepOf

-----------------------------------------------------------------------------
(* The theorems. *)

LEMMA StutterInv == IInv /\ UNCHANGED vars => IInv'
<1> SUFFICES ASSUME IInv, UNCHANGED vars PROVE IInv'
  OBVIOUS
<1>1. UNCHANGED <<pte, tlb, next, freed, free, live, mapper, table, acks, ipi, intr, handler, pc, slot, span>>
  BY DEF vars, alloc_vars, lock_vars, irq_vars
<1>2. TypeOK' /\ MapInv' /\ LockInv'
  BY <1>1, ZenonT(30) DEF IInv, TypeOK, MapInv, LockInv
<1>3. SlotInv'
  BY <1>1 DEF IInv, SlotInv, HandsInv, FreedInv, CoveredInv
<1>4. SpanInv'
  BY <1>1, ZenonT(30) DEF IInv, SpanInv
<1>5. AckInv'
  BY <1>1, ZenonT(30) DEF IInv, AckInv, Pending
<1>6. StaleInv'
  BY <1>1 DEF IInv, StaleInv, Awaited
<1> QED
  BY <1>2, <1>3, <1>4, <1>5, <1>6 DEF IInv

LEMMA NextInv == IInv /\ [Next]_vars => IInv'
<1>1. ASSUME IInv, Next PROVE IInv'
  <2>1. PICK c \in Cores : StepOf(c)
    BY <1>1, StepCases
  <2>2. TypeOK /\ SlotInv /\ SpanInv /\ MapInv /\ LockInv /\ AckInv
    BY <1>1 DEF IInv
  <2> QED
    BY <1>1, <2>1, <2>2, TypeStep, SlotStep, SpanStep, MapStep, LockStep, AckStep, StaleStep DEF IInv
<1> QED
  BY <1>1, StutterInv

LEMMA Invariance == Spec => []IInv
BY InitInv, NextInv, PTL DEF Spec

\* Whatever the number of cores, stack slots and spans: unmap_stack gives frames and
\* slot back only when no TLB can hold the old translation any more, because
\* flush_broadcast counts an acknowledgement from every other core, of this shootdown
\* and of no other.
THEOREM FlushedBeforeReuse == Spec => []NoStaleTranslation
<1>1. IInv => NoStaleTranslation
  BY InvImplies
<1> QED
  BY <1>1, Invariance, PTL

\* map_stack and unmap_stack, on any number of cores, never hand a slot or a span to
\* two stacks, and lose neither.
THEOREM StacksAreDisjoint == Spec => []NothingSharedOrLost
<1>1. IInv => NothingSharedOrLost
  BY InvImplies
<1> QED
  BY <1>1, Invariance, PTL
=============================================================================

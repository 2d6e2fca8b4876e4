---------------------------- MODULE ProcTheorems -----------------------------
(***************************************************************************)
(* What is proved of the process runtime for every number of cores, every  *)
(* set of pids and every bound.                                            *)
(***************************************************************************)
EXTENDS ProcQueues, FiniteSetTheorems

-----------------------------------------------------------------------------
(* The invariant. *)

LEMMA PlacedInit == Init => AllPlaced
<1> SUFFICES ASSUME Init, NEW p \in Pids PROVE Placed(p)
  BY DEF AllPlaced
<1>1. /\ \A c \in Cores : pc[c] \in {"top", "pop"}
      /\ \A c \in Cores : runq[c] = IF c = Bsp THEN <<Root>> ELSE <<>>
      /\ status[p] = IF p = Root THEN "Runnable" ELSE "none"
  BY ZenonT(30) DEF Init, Top
<1>2. \A c \in Cores : ~Holds(c, p) /\ ~Owns(c, p) /\ ~Parting(c, p) /\ ~Inserting(c, p)
  BY <1>1, PcFacts, ZenonT(30) DEF Holds, Owns, Parting, Inserting
<1>3. /\ Len(runq[Bsp]) = 1 /\ runq[Bsp][1] = Root
      /\ \A c \in Cores \ {Bsp} : Len(runq[c]) = 0
  <2>1. runq[Bsp] = <<Root>> /\ \A c \in Cores \ {Bsp} : runq[c] = <<>>
    BY <1>1, BspIsCore, ZenonT(30) DEF Bsp
  <2> QED
    BY <2>1
<1>4. ASSUME NEW c \in Cores, NEW i \in Places(c), Ticket(c, i, p)
      PROVE  c = Bsp /\ i = 1 /\ p = Root
  BY <1>2, <1>3, <1>4, BspIsCore, SMTT(30) DEF Places, Ticket
<1>5. p = Root => 1 \in Places(Bsp) /\ Ticket(Bsp, 1, p)
  BY <1>3, SMTT(30) DEF Places, Ticket
<1>6. (Queued(p) <=> p = Root) /\ AtMostOnce(p)
  <2>1. Queued(p) => p = Root
    BY <1>4, ZenonT(30) DEF Queued
  <2>2. p = Root => Queued(p)
    BY <1>5, BspIsCore, ZenonT(30) DEF Queued, Bsp
  <2>3. AtMostOnce(p)
    BY <1>4, ZenonT(30) DEF AtMostOnce
  <2> QED
    BY <2>1, <2>2, <2>3, SMTT(30)
<1> QED
  BY <1>1, <1>2, <1>6, ZenonT(30) DEF Placed

LEMMA PlacedNext == SetFacts /\ TypeInv /\ AllPlaced /\ [Next]_vars => AllPlaced'
<1> SUFFICES ASSUME SetFacts, TypeInv, AllPlaced, [Next]_vars PROVE AllPlaced'
  OBVIOUS
<1>1. ASSUME NEW c \in Cores, Scheduler(c) PROVE AllPlaced'
  BY <1>1, IdleActions, WakeSleepers_Placed, PopFront_Placed, Steal_Placed, Dispatch_Placed,
     PostSwitch_Placed, BusyActions, LeavingActions, ZenonT(30) DEF Scheduler
<1>2. ASSUME NEW c \in Cores, InKernel(c) PROVE AllPlaced'
  <2>1. "error" \in Reasons
    BY DEF Reasons
  <2> QED
    BY <1>2, <2>1, SpawnTake_Placed, SpawnInsert_Placed, SpawnEnqueue_Placed, DyingActions,
       BusyActions, LeavingActions, ZenonT(30) DEF InKernel
<1>3. ASSUME NEW c \in Cores, Body(c) PROVE AllPlaced'
  <2>1. CASE \E p \in Pids : Kill(c, p)
    BY <2>1, Kill_Placed, ZenonT(30)
  <2>2. CASE \E p \in Pids : (\E k \in Kinds : Send(c, p, k)) \/ Monitor(c, p)
    BY <2>2, BodyActions, ZenonT(30)
  <2>3. CASE Grow(c)
    BY <2>3, BodyActions, PidsAssumption, ZenonT(30)
  <2> QED
    BY <1>3, <2>1, <2>2, <2>3, BusyActions, DyingActions, ZenonT(30) DEF Body
<1>4. CASE UNCHANGED vars
  <2>1. UNCHANGED <<status, runq, pc, cur, new, post_switch>>
    BY <1>4, ZenonT(30) DEF vars, table_vars, queue_vars, core_vars, local_vars
  <2>2. StepOf(0) /\ \A p \in Pids : SameAt(0, p)
    BY <2>1, BspIsCore, StaysPut, ZenonT(30) DEF StepOf
  <2> QED
    BY <2>1, <2>2, BspIsCore, QuietStep, ZenonT(30)
<1> QED
  BY <1>1, <1>2, <1>3, <1>4, LeavingActions, InterruptActions, ZenonT(30) DEF Next

LEMMA PlacedImplies == TypeInv /\ AllPlaced => QueuedOnce /\ SoleOwner
<1> SUFFICES ASSUME TypeInv, AllPlaced PROVE QueuedOnce /\ SoleOwner
  OBVIOUS
<1>1. QueuedOnce
  BY DEF AllPlaced, Placed, QueuedOnce
<1>2. ASSUME NEW c \in Cores, pc[c] \in Owning
      PROVE  cur[c] \in Pids /\ Owns(c, cur[c])
  BY <1>2, PcFacts, SMTT(30) DEF TypeInv, CurOK, Owns
<1>3. SoleOwner
  BY <1>2, ZenonT(30) DEF AllPlaced, Placed, SoleOwner
<1> QED
  BY <1>1, <1>3, SMTT(30)

LEMMA PlacedSettled == TypeInv /\ AllPlaced => Settled
<1> SUFFICES ASSUME TypeInv, AllPlaced PROVE Settled
  OBVIOUS
<1>1. ASSUME NEW c \in Cores, pc[c] = "insert" PROVE status[new[c].pid] = "alloc"
  BY <1>1, ZenonT(30) DEF TypeInv, CurOK, AllPlaced, Placed, Inserting
<1>2. ASSUME NEW c \in Cores, pc[c] = "dispatch"
      PROVE  /\ status[cur[c]] \in Present \cup {"gone"}
             /\ \A d \in Cores : ~Owns(d, cur[c])
  <2>1. cur[c] \in Pids /\ Queued(cur[c])
    BY <1>2, Dispatching, PcFacts, ZenonT(30) DEF TypeInv, CurOK
  <2> QED
    BY <2>1, ZenonT(30) DEF AllPlaced, Placed, TypeInv, TypeOK, TableOK
<1> QED
  BY <1>1, <1>2, PlacedImplies, ZenonT(30) DEF Settled

-----------------------------------------------------------------------------
(* The theorems. *)

\* The orders of a finite set hold each of its elements exactly once.
LEMMA OrderOfSet ==
  ASSUME NEW S, IsFiniteSet(S), NEW s \in Orders(S)
  PROVE  /\ s \in Seq(S)
         /\ \A i, j \in 1 .. Len(s) : s[i] = s[j] => i = j
         /\ \A x \in S : \E i \in 1 .. Len(s) : s[i] = x
<1> DEFINE n == Cardinality(S)
<1>1. n \in Nat
  BY FS_CardinalityType, SMTT(30)
<1>2. s \in Injection(1 .. n, S)
  BY DEF Orders
<1>3. s \in Seq(S) /\ Len(s) = n /\ \A i, j \in 1 .. n : s[i] = s[j] => i = j
  BY <1>1, <1>2, SMTT(30) DEF Injection, IsInjective
<1>4. Cardinality(1 .. n) = n
  BY <1>1, FS_Interval, SMTT(30)
<1>5. s \in Surjection(1 .. n, S)
  BY <1>2, <1>4, FS_Injection, SMTT(30)
<1> HIDE DEF n
<1> QED
  BY <1>3, <1>5, SMTT(30) DEF Surjection

LEMMA SetFactsHold == SetFacts
<1>1. \A S \in SUBSET Pids : Ordered(S)
  <2>1. \A S \in SUBSET Pids : IsFiniteSet(S)
    BY PidsAssumption, FS_Subset, SMTT(30)
  <2> QED
    BY <2>1, OrderOfSet, SMTT(30) DEF Ordered
<1>2. \A S \in SUBSET Refs : Ordered(S)
  <2>1. IsFiniteSet(Refs)
    BY BoundsAssumption, FS_Interval, SMTT(30) DEF Refs
  <2>2. \A S \in SUBSET Refs : IsFiniteSet(S)
    BY <2>1, FS_Subset, SMTT(30)
  <2> QED
    BY <2>2, OrderOfSet, SMTT(30) DEF Ordered
<1>3. ASSUME NEW n \in Nat, NEW S \in SUBSET (1 .. n) PROVE Cardinality(S) \in Nat
  <2>1. IsFiniteSet(1 .. n)
    BY FS_Interval, SMTT(30)
  <2> QED
    BY <2>1, FS_Subset, FS_CardinalityType, ZenonT(30)
<1> QED
  BY <1>1, <1>2, <1>3, ZenonT(30) DEF SetFacts

\* What every other invariant rests on: the types, and where each process is.
IInv == TypeInv /\ AllPlaced

LEMMA Inductive == Spec => []IInv
<1>1. Init => IInv
  BY TypeInit, PlacedInit, ZenonT(30) DEF IInv
<1>2. IInv /\ [Next]_vars => IInv'
  BY SetFactsHold, TypeNext, PlacedNext, ZenonT(30) DEF IInv
<1> QED
  BY <1>1, <1>2, PTL DEF Spec

\* Type correctness of the process runtime: TypeOK holds for every number of
\* cores, every set of pids and every bound.
THEOREM TypeCorrect == Spec => []TypeOK
<1>1. IInv => TypeOK
  BY DEF IInv, TypeInv
<1> QED
  BY <1>1, Inductive, PTL

\* The run queues of enqueue, run and their callers: a Runnable process is queued
\* exactly once, one that runs, waits or does not exist is queued nowhere, and a
\* Dead one stays queued until its reap.
THEOREM QueueCorrect == Spec => []QueuedOnce
<1>1. IInv => QueuedOnce
  BY PlacedImplies, ZenonT(30) DEF IInv
<1> QED
  BY <1>1, Inductive, PTL

\* The context switches of run and switch_to_scheduler: the process a core is on
\* is in the table, is on no other core and is handed to none.
THEOREM OwnerCorrect == Spec => []SoleOwner
<1>1. IInv => SoleOwner
  BY PlacedImplies, ZenonT(30) DEF IInv
<1> QED
  BY <1>1, Inductive, PTL

\* finalize unmaps a kernel stack only after the process has left the table and its
\* core: whoever is queued, runs, waits or is being left has its stack mapped.
THEOREM StacksMapped == Spec => []StackMappedWhileUsed
<1>1. Init => Stacked
  BY LivesInit, ZenonT(30)
<1>2. IInv /\ Stacked /\ [Next]_vars => Stacked'
  BY StackedNext, PlacedSettled, ZenonT(30) DEF IInv
<1>3. IInv /\ Stacked => StackMappedWhileUsed
  BY StackedImplies, PlacedSettled, ZenonT(30) DEF IInv
<1> QED
  BY <1>1, <1>2, <1>3, Inductive, PTL DEF Spec

\* recv_where, the deferred block of the scheduler and deliver_fragment: no process
\* waits in the table with mail in its mailbox, or outside a receive.
THEOREM NoWakeupLost == Spec => []NoLostWakeup
<1>1. Init => Blocked
  BY LivesInit, ZenonT(30)
<1>2. IInv /\ Blocked /\ [Next]_vars => Blocked'
  BY BlockedNext, PlacedSettled, ZenonT(30) DEF IInv
<1>3. Blocked => NoLostWakeup
  BY DEF Blocked
<1> QED
  BY <1>1, <1>2, <1>3, Inductive, PTL DEF Spec

\* reap, and mark_dead on each link: when a process that did not exit normally is
\* removed, every process linked to it is dead, gone or flagged to die.
THEOREM LinksDie == Spec => LinkedDieTogether
<1>1. Init => LinksKnown
  BY LivesInit, ZenonT(30)
<1>2. IInv /\ LinksKnown /\ [Next]_vars => LinksKnown' /\ [LinkStep]_vars
  BY LinksNext, PlacedSettled, ZenonT(30) DEF IInv
<1> QED
  BY <1>1, <1>2, Inductive, PTL DEF Spec, LinkedDieTogether, LinkStep

\* recv_where with a deadline, check_wheel and the timer interrupt: a process that
\* waits with a deadline has an entry in the wheel that is due no later, or within a
\* tick, or is on the list check_wheel is waking.
THEOREM SleepersWake == Spec => []SleeperHasTimer
<1>1. Init => Blocked /\ Alarmed
  BY LivesInit, AlarmedInit, ZenonT(30)
<1>2. IInv /\ Blocked /\ [Next]_vars => Blocked'
  BY BlockedNext, PlacedSettled, ZenonT(30) DEF IInv
<1>3. IInv /\ Blocked /\ Alarmed /\ [Next]_vars => Alarmed'
  BY AlarmedNext, PlacedSettled, ZenonT(30) DEF IInv
<1>4. Alarmed => SleeperHasTimer
  BY ZenonT(30) DEF Alarmed, SleeperHasTimer, Sleeps, Armed
<1> QED
  BY <1>1, <1>2, <1>3, <1>4, Inductive, PTL DEF Spec
=============================================================================

------------------------------ MODULE ProcTypes ------------------------------
(***************************************************************************)
(* Type correctness of Proc, and the invariants that rest on it and on     *)
(* who owns a process: how the state of a process moves, stacks, links,    *)
(* blocking receives and timers.                                           *)
(***************************************************************************)
EXTENDS Proc, TLAPS

-----------------------------------------------------------------------------
(* Sequences. *)

\* What the proofs use of finite sets; ProcTheorems proves it.  The orders of a
\* set hold each element once, and positions in a mailbox can be counted.
Ordered(S) == \A s \in Orders(S) : /\ s \in Seq(S)
                                   /\ \A i, j \in 1 .. Len(s) : s[i] = s[j] => i = j
                                   /\ \A x \in S : \E i \in 1 .. Len(s) : s[i] = x
SetFacts ==
  /\ \A S \in SUBSET Pids : Ordered(S)
  /\ \A S \in SUBSET Refs : Ordered(S)
  /\ \A n \in Nat : \A S \in SUBSET (1 .. n) : Cardinality(S) \in Nat

LEMMA SeqMonotone ==
  ASSUME NEW S, NEW T, S \subseteq T, NEW s \in Seq(S)
  PROVE  s \in Seq(T)
OBVIOUS

LEMMA WithoutType ==
  ASSUME NEW S, NEW s \in Seq(S), NEW i \in 1 .. Len(s)
  PROVE  Without(s, i) \in Seq(S)
BY DEF Without

-----------------------------------------------------------------------------
(* Type correctness. *)

\* A core that owns a process, has popped one or finalizes one names it in cur,
\* and one that is about to insert or queue a new process names that in new.
Active == Owning \cup {"dispatch", "finalize"}
CurOK ==
  \A c \in Cores : /\ pc[c] \in Active => cur[c] \in Pids
                   /\ pc[c] \in {"insert", "enqueue"} => new[c].pid \in Pids

\* What the proofs need to know of the control points.
LEMMA PcFacts ==
  /\ {"top", "wheel", "pop", "steal", "dispatch", "finalize", "halting", "halted",
      "woken", "enter", "out", "user", "spawn", "insert", "enqueue", "recv",
      "quota", "park", "switch"} \subseteq Pcs
  /\ {"dispatch", "finalize", "enter", "out", "user", "spawn", "insert", "enqueue",
      "recv", "quota", "park", "switch"} \subseteq Active
  /\ {"enter", "out", "user", "spawn", "insert", "enqueue", "recv", "quota", "park",
      "switch"} \subseteq Owning
  /\ {"top", "wheel", "pop", "steal", "halting", "halted", "woken"} \cap Active = {}
  /\ {"dispatch", "finalize"} \cap Owning = {}
  /\ Owning \subseteq Active /\ Active \subseteq Pcs
  /\ \A c : Top(c) \in {"top", "pop"}
BY DEF Pcs, Active, Owning, OnStack, IdlePc, Top

TypeInv == TypeOK /\ CurOK

\* A group of variables that a step leaves alone keeps its type.
LEMMA Framed ==
  /\ TableOK /\ UNCHANGED <<table_vars, heap_vars>> => TableOK'
  /\ FrameOK /\ UNCHANGED recv_vars => FrameOK'
  /\ QueueOK /\ UNCHANGED queue_vars => QueueOK'
  /\ CoreOK /\ UNCHANGED core_vars => CoreOK'
  /\ TimerOK /\ UNCHANGED timer_vars => TimerOK'
  /\ RefOK /\ UNCHANGED <<ref_vars, aux_vars>> => RefOK'
  /\ CurOK /\ UNCHANGED core_vars => CurOK'
<1> USE DEF table_vars, heap_vars, recv_vars, queue_vars, core_vars, local_vars,
            timer_vars, ref_vars, aux_vars
<1> QED
  BY ZenonT(30) DEF TableOK, FrameOK, QueueOK, CoreOK, TimerOK, RefOK, CurOK

\* A step that moves a core to another point of its code, with what it holds.
LEMMA GotoType ==
  ASSUME TypeInv, NEW c \in Cores, NEW l \in Pcs, Goto(c, l),
         UNCHANGED <<cur, new, scan>>, post_switch' \in [Cores -> 0 .. 2],
         preempt' \in [Cores -> BOOLEAN],
         l \in Active => cur[c] \in Pids,
         l \in {"insert", "enqueue"} => new[c].pid \in Pids
  PROVE  CoreOK' /\ CurOK'
BY ZenonT(30) DEF TypeInv, TypeOK, CoreOK, CurOK, Goto

\* A core that goes back to the head of its loop empty-handed.
LEMMA DropType ==
  ASSUME TypeInv, NEW c \in Cores, Goto(c, Top(c)), cur' = [cur EXCEPT ![c] = NoPid],
         UNCHANGED <<new, scan, preempt>>, post_switch' \in [Cores -> 0 .. 2]
  PROVE  CoreOK' /\ CurOK'
<1>1. pc' \in [Cores -> Pcs] /\ cur' \in [Cores -> Pids \cup {NoPid}]
  <2>1. Top(c) \in Pcs
    BY PcFacts
  <2> QED
    BY <2>1, ZenonT(30) DEF TypeInv, TypeOK, CoreOK, Goto
<1> QED
  BY <1>1, PcFacts, ZenonT(30) DEF TypeInv, TypeOK, CoreOK, CurOK, Goto

LEMMA BspIsCore == 0 \in Cores
BY CoresAssumption DEF Cores

\* A step that also changes what a core holds.
LEMMA CoreType ==
  ASSUME TypeInv, NEW c \in Cores, NEW l \in Pcs, Goto(c, l), NEW x, NEW n,
         cur' = [cur EXCEPT ![c] = x], new' = [new EXCEPT ![c] = n],
         x \in Pids \cup {NoPid}, l \in Active => x \in Pids,
         n \in [pid : Pids \cup {NoPid}, ref : Refs \cup {NoRef},
               link : BOOLEAN, mons : SUBSET (Refs \X Pids)],
         l \in {"insert", "enqueue"} => n.pid \in Pids,
         scan' \in [Cores -> Cores], post_switch' \in [Cores -> 0 .. 2],
         preempt' \in [Cores -> BOOLEAN]
  PROVE  CoreOK' /\ CurOK'
<1> USE DEF TypeInv, TypeOK
<1>1. new' \in [Cores -> [pid : Pids \cup {NoPid}, ref : Refs \cup {NoRef},
                         link : BOOLEAN, mons : SUBSET (Refs \X Pids)]]
  BY ZenonT(30) DEF CoreOK
<1> QED
  BY <1>1 DEF CoreOK, Goto, CurOK

\* A core in user code runs a process, which has messages and a reference to give.
LEMMA UserFacts ==
  ASSUME TypeInv, NEW c \in Cores, pc[c] = "user"
  PROVE  cur[c] \in Pids
BY PcFacts, ZenonT(30) DEF TypeInv, CurOK

LEMMA MsgFacts ==
  /\ \A k \in Kinds : <<k>> \in Msgs
  /\ \A r \in Refs, y \in Reasons \cup {"noproc"} : <<"DOWN", r, y>> \in Msgs
BY DEF Msgs

LEMMA RefFacts ==
  ASSUME RefOK, next_ref <= MaxRef
  PROVE  next_ref \in Refs /\ next_ref + 1 \in 1 .. MaxRef + 1
BY BoundsAssumption DEF RefOK, Refs

LEMMA EnqueueType ==
  ASSUME QueueOK, NEW c \in Cores, NEW s \in Seq(Pids), Enqueue(c, s)
  PROVE  QueueOK'
BY DEF QueueOK, Enqueue

LEMMA DeliverType ==
  ASSUME TableOK, QueueOK, NEW c \in Cores, NEW to \in Pids, NEW m \in Msgs,
         Deliver(c, to, m)
  PROVE  /\ QueueOK'
         /\ status' \in [Pids -> Present \cup {"none", "alloc", "gone"}]
         /\ mailbox' \in [Pids -> Seq(Msgs)]
<1>1. QueueOK'
  <2> DEFINE s == IF status[to] = "Waiting" THEN <<to>> ELSE <<>>
  <2>1. s \in Seq(Pids) /\ Enqueue(c, s)
    BY DEF Deliver
  <2> HIDE DEF s
  <2> QED
    BY <2>1, EnqueueType
<1>2. mailbox' \in [Pids -> Seq(Msgs)]
  BY DEF TableOK, Deliver
<1> QED
  BY <1>1, <1>2, ZenonT(30) DEF TableOK, Deliver, Present

LEMMA MarkDeadType ==
  ASSUME TableOK, QueueOK, NEW c \in Cores, NEW p \in Pids, NEW why \in Reasons,
         MarkDead(c, p, why), UNCHANGED <<links, monitors, mailbox, grown>>
  PROVE  TableOK' /\ QueueOK'
<1>1. QueueOK'
  <2> DEFINE s == IF OffCpu(p) THEN <<p>> ELSE <<>>
  <2>1. s \in Seq(Pids) /\ Enqueue(c, s)
    BY DEF MarkDead
  <2> HIDE DEF s
  <2> QED
    BY <2>1, EnqueueType
<1> QED
  BY <1>1, ZenonT(30) DEF TableOK, MarkDead, Present

LEMMA RecvDoneType ==
  ASSUME FrameOK, NEW p \in Pids, RecvDone(p)
  PROVE  FrameOK'
BY DEF FrameOK, RecvDone, NoDeadline

LEMMA ReachesType ==
  ASSUME SetFacts, TypeOK, NEW c \in Cores, cur[c] \in Pids, NEW i \in Nat \ {0},
         NEW skipped \in SUBSET (1 .. i - 1), Reaches(c, i, skipped)
  PROVE  grown' \in [Pids -> 0 .. MaxGrow]
<1>1. i - 1 \in Nat
  OBVIOUS
<1>2. Cardinality(skipped) \in Nat
  BY <1>1, ZenonT(30) DEF SetFacts
<1> QED
  BY <1>2, BoundsAssumption DEF TypeOK, TableOK, Reaches

LEMMA NoMatchType ==
  ASSUME SetFacts, TypeOK, NEW c \in Cores, cur[c] \in Pids, NoMatch(c)
  PROVE  grown' \in [Pids -> 0 .. MaxGrow]
<1>1. PICK skipped \in SUBSET (1 .. Len(mailbox[cur[c]])) :
        Reaches(c, Len(mailbox[cur[c]]) + 1, skipped)
  BY DEF NoMatch
<1> QED
  BY <1>1, ReachesType, SMTT(30) DEF TypeOK, TableOK

LEMMA ReapType ==
  ASSUME SetFacts, TypeOK, NEW c \in Cores, NEW p \in Pids, Reap(c, p)
  PROVE  TableOK' /\ FrameOK' /\ QueueOK' /\ downs' \in [Refs -> Nat]
<1> USE PidsAssumption DEF TypeOK
<1>1. FrameOK'
  BY RecvDoneType, ZenonT(30) DEF Reap
<1>2. QueueOK'
  <2> DEFINE S == Woken(p)
             T == Slain(p)
  <2>1. S \subseteq Pids /\ T \subseteq Pids
    BY ZenonT(30) DEF Woken, Slain, Watching, Linked, TableOK
  <2>2. PICK s \in Orders(S), t \in Orders(T) : Enqueue(c, s \o t)
    BY ZenonT(30) DEF Reap
  <2> HIDE DEF S, T
  <2>3. s \o t \in Seq(Pids)
    BY <2>1, SeqMonotone, SMTT(30) DEF SetFacts, Ordered
  <2> QED
    BY <2>2, <2>3, EnqueueType, ZenonT(30)
<1>3. downs' \in [Refs -> Nat]
  BY DEF RefOK, Reap
<1>4. status' \in [Pids -> Present \cup {"none", "alloc", "gone"}]
  BY ZenonT(30) DEF Reap, TableOK, Present
<1>5. kill_pending' \in [Pids -> BOOLEAN]
  BY ZenonT(30) DEF Reap, TableOK
<1>6. exit_reason' \in [Pids -> Reasons]
  BY ZenonT(30) DEF Reap, TableOK, Reasons
<1>7. mailbox' \in [Pids -> Seq(Msgs)]
  <2>1. PICK f \in DownOrders(p) :
          \A q \in Pids : \/ mailbox'[q] = mailbox[q] \o DownMsgs(f[q], exit_reason[p])
                          \/ mailbox'[q] = <<>>
                          \/ mailbox'[q] = mailbox[q]
    BY ZenonT(30) DEF Reap
  <2>2. ASSUME NEW q \in Pids
        PROVE  DownMsgs(f[q], exit_reason[p]) \in Seq(Msgs)
    <3>1. f[q] \in Orders(RefsOf(p, q)) /\ RefsOf(p, q) \subseteq Refs
      BY ZenonT(30) DEF DownOrders, RefsOf
    <3>2. f[q] \in Seq(RefsOf(p, q))
      <4> DEFINE S == RefsOf(p, q)
                 g == f[q]
      <4>1. S \in SUBSET Refs /\ g \in Orders(S)
        BY <3>1
      <4> HIDE DEF S, g
      <4> QED
        BY <4>1, ZenonT(30) DEF Ordered, S, g, SetFacts
    <3> QED
      <4>1. f[q] \in Seq(Refs) /\ exit_reason[p] \in Reasons
        BY <3>1, <3>2, SeqMonotone, ZenonT(30) DEF TableOK
      <4> QED
        BY <4>1, MsgFacts DEF DownMsgs
  <2>3. ASSUME NEW q \in Pids PROVE mailbox'[q] \in Seq(Msgs)
    <3>1. mailbox[q] \in Seq(Msgs)
      BY DEF TableOK
    <3>2. mailbox[q] \o DownMsgs(f[q], exit_reason[p]) \in Seq(Msgs)
      BY <2>2, <3>1
    <3>3. <<>> \in Seq(Msgs)
      OBVIOUS
    <3> QED
      BY <2>1, <3>1, <3>2, <3>3, ZenonT(30)
  <2> QED
    BY <2>3, ZenonT(30) DEF Reap
<1>8. monitors' \in [Pids -> SUBSET (Refs \X Pids)] /\ links' \in [Pids -> SUBSET Pids]
      /\ grown' \in [Pids -> 0 .. MaxGrow]
  BY BoundsAssumption, SMTT(30) DEF Reap, TableOK
<1> QED
  BY <1>1, <1>2, <1>3, <1>4, <1>5, <1>6, <1>7, <1>8, ZenonT(30) DEF TableOK

-----------------------------------------------------------------------------
(* Each step of the scheduler loop preserves the types. *)

LEMMA SchedulerTypes ==
  ASSUME SetFacts, TypeInv, NEW c \in Cores, Scheduler(c)
  PROVE  TypeInv'
<1>1. CASE CheckWheel(c)
  <2> USE <1>1, PidsAssumption DEF TypeInv, TypeOK
  <2>1. CoreOK' /\ CurOK'
    BY GotoType, PcFacts, ZenonT(30) DEF CheckWheel, CoreOK, local_vars
  <2> QED
    BY <2>1, Framed DEF CheckWheel, core_vars, local_vars, TimerOK
<1>2. CASE WakeSleepers(c)
  <2> USE <1>2, PidsAssumption DEF TypeInv, TypeOK
  <2>1. QueueOK'
    <3> DEFINE S == {p \in due : status[p] = "Waiting"}
    <3>1. PICK s \in Orders(S) : Enqueue(c, s)
      BY ZenonT(30) DEF WakeSleepers
    <3>2. S \subseteq Pids
      BY DEF TimerOK
    <3> HIDE DEF S
    <3> QED
      BY <3>1, <3>2, SeqMonotone, EnqueueType DEF SetFacts, Ordered
  <2>2. CoreOK' /\ CurOK'
    BY GotoType, PcFacts, ZenonT(30) DEF WakeSleepers, CoreOK, local_vars
  <2>3. TimerOK'
    BY DEF WakeSleepers, Rearmed, TimerOK
  <2> QED
    BY <2>1, <2>2, <2>3, Framed, ZenonT(30) DEF WakeSleepers, core_vars, local_vars, TableOK, Present, heap_vars
<1>3. CASE PopFront(c)
  <2> USE <1>3, PidsAssumption DEF TypeInv, TypeOK
  <2>1. QueueOK'
    <3>1. CASE runq[c] # <<>>
      <4>1. Tail(runq[c]) \in Seq(Pids)
        BY <3>1 DEF QueueOK
      <4> QED
        BY <3>1, <4>1, ZenonT(30) DEF PopFront, QueueOK
    <3>2. CASE runq[c] = <<>>
      BY <3>2, ZenonT(30) DEF PopFront, QueueOK
    <3> QED
      BY <3>1, <3>2
  <2>2. CoreOK' /\ CurOK'
    <3>1. CASE runq[c] # <<>>
      <4>1. Head(runq[c]) \in Pids
        BY <3>1 DEF QueueOK
      <4>2. new' = [new EXCEPT ![c] = new[c]]
        BY ZenonT(30) DEF PopFront, CoreOK
      <4>3. /\ cur' = [cur EXCEPT ![c] = Head(runq[c])]
            /\ Goto(c, "dispatch") /\ UNCHANGED <<scan, post_switch, preempt>>
        BY <3>1, ZenonT(30) DEF PopFront
      <4> QED
        BY <4>1, <4>2, <4>3, CoreType, PcFacts, ZenonT(30) DEF CoreOK
    <3>2. CASE runq[c] = <<>>
      <4>1. Victim(c, 0) < NCores => Victim(c, 0) \in Cores
        BY CoresAssumption DEF Victim, Cores
      <4>2. scan' \in [Cores -> Cores]
        BY <3>2, <4>1, BspIsCore, ZenonT(30) DEF PopFront, CoreOK
      <4>3. PICK l \in {"steal", "halting"} : Goto(c, l)
        BY <3>2, ZenonT(30) DEF PopFront
      <4>4. UNCHANGED <<cur, new, post_switch, preempt>>
        BY <3>2, ZenonT(30) DEF PopFront
      <4> QED
        BY <4>2, <4>3, <4>4, PcFacts, ZenonT(30) DEF CoreOK, CurOK, Goto
    <3> QED
      BY <3>1, <3>2
  <2> QED
    BY <2>1, <2>2, Framed, ZenonT(30) DEF PopFront, core_vars, local_vars
<1>4. CASE Steal(c)
  <2> USE <1>4, PidsAssumption DEF TypeInv, TypeOK
  <2>1. QueueOK'
    <3>1. CASE runq[scan[c]] # <<>>
      <4>1. scan[c] \in Cores
        BY DEF CoreOK
      <4>2. Stolen(runq[scan[c]]) \in Seq(Pids)
        BY <3>1, <4>1 DEF Stolen, QueueOK
      <4> QED
        BY <3>1, <4>1, <4>2, ZenonT(30) DEF Steal, QueueOK
    <3>2. CASE runq[scan[c]] = <<>>
      BY <3>2, ZenonT(30) DEF Steal, QueueOK
    <3> QED
      BY <3>1, <3>2
  <2>2. CoreOK' /\ CurOK'
    <3>1. CASE runq[scan[c]] # <<>>
      <4>1. runq[scan[c]][Len(runq[scan[c]])] \in Pids
        BY <3>1 DEF QueueOK, CoreOK
      <4>2. new' = [new EXCEPT ![c] = new[c]]
        BY ZenonT(30) DEF Steal, CoreOK
      <4>3. scan' \in [Cores -> Cores]
        BY <3>1, BspIsCore, ZenonT(30) DEF Steal, CoreOK
      <4>4. /\ cur' = [cur EXCEPT ![c] = runq[scan[c]][Len(runq[scan[c]])]]
            /\ Goto(c, "dispatch") /\ UNCHANGED <<post_switch, preempt>>
        BY <3>1, ZenonT(30) DEF Steal
      <4> QED
        BY <4>1, <4>2, <4>3, <4>4, CoreType, PcFacts, ZenonT(30) DEF CoreOK
    <3>2. CASE runq[scan[c]] = <<>>
      <4>1. scan[c] \in Cores
        BY DEF CoreOK
      <4>2. Victim(c, scan[c] + 1) < NCores => Victim(c, scan[c] + 1) \in Cores
        BY <4>1, CoresAssumption DEF Victim, Cores
      <4>3. scan' \in [Cores -> Cores]
        BY <3>2, <4>2, BspIsCore DEF Steal, CoreOK
      <4> QED
        BY <3>2, <4>3, PcFacts DEF Steal, CoreOK, CurOK, Goto
    <3> QED
      BY <3>1, <3>2
  <2> QED
    BY <2>1, <2>2, Framed, ZenonT(30) DEF Steal, core_vars, local_vars
<1>5. CASE Halt(c)
  <2> USE <1>5, PidsAssumption DEF TypeInv, TypeOK
  <2>1. CoreOK' /\ CurOK'
    BY GotoType, PcFacts, ZenonT(30) DEF Halt, CoreOK, local_vars
  <2> QED
    BY <2>1, Framed, ZenonT(30) DEF Halt, core_vars, local_vars
<1>6. CASE Resume(c)
  <2> USE <1>6, PidsAssumption DEF TypeInv, TypeOK
  <2>1. CoreOK' /\ CurOK'
    BY GotoType, PcFacts, SMTT(30) DEF Resume, CoreOK, local_vars
  <2> QED
    BY <2>1, Framed, ZenonT(30) DEF Resume, core_vars, local_vars
<1>7. CASE Dispatch(c)
  <2> USE <1>7, PidsAssumption DEF TypeInv, TypeOK
  <2>1. cur[c] \in Pids
    BY PcFacts, ZenonT(30) DEF Dispatch, CurOK
  <2>2. TableOK'
    <3>1. CASE Reap(c, cur[c])
      BY <2>1, <3>1, ReapType
    <3>2. CASE ~Reap(c, cur[c])
      BY <2>1, <3>2, ZenonT(30) DEF Dispatch, TableOK, Present, table_vars, heap_vars
    <3> QED
      BY <3>1, <3>2
  <2>3. FrameOK'
    <3>1. CASE Reap(c, cur[c])
      BY <2>1, <3>1, ReapType
    <3>2. CASE ~Reap(c, cur[c])
      BY <3>2, Framed, ZenonT(30) DEF Dispatch
    <3> QED
      BY <3>1, <3>2
  <2>4. QueueOK'
    <3>1. CASE Reap(c, cur[c])
      BY <2>1, <3>1, ReapType
    <3>2. CASE ~Reap(c, cur[c])
      BY <3>2, Framed, ZenonT(30) DEF Dispatch
    <3> QED
      BY <3>1, <3>2
  <2>5. CoreOK' /\ CurOK'
    <3>1. CASE status[cur[c]] \in {"Runnable", "Dead"}
      BY <2>1, <3>1, GotoType, PcFacts, ZenonT(30) DEF Dispatch, CoreOK
    <3>2. CASE status[cur[c]] \notin {"Runnable", "Dead"}
      BY <3>2, DropType, ZenonT(30) DEF Dispatch, CoreOK
    <3> QED
      BY <3>1, <3>2
  <2>6. RefOK'
    <3>1. CASE Reap(c, cur[c])
      BY <2>1, <3>1, ReapType, ZenonT(30) DEF Dispatch, RefOK, ref_vars
    <3>2. CASE ~Reap(c, cur[c])
      BY <3>2, ZenonT(30) DEF Dispatch, RefOK, ref_vars
    <3> QED
      BY <3>1, <3>2
  <2> QED
    BY <2>2, <2>3, <2>4, <2>5, <2>6, Framed, ZenonT(30) DEF Dispatch, core_vars, local_vars
<1>8. CASE PostSwitch(c)
  <2> USE <1>8, PidsAssumption DEF TypeInv, TypeOK
  <2>1. cur[c] \in Pids
    BY PcFacts, ZenonT(30) DEF PostSwitch, CurOK
  <2>2. TableOK'
    <3>1. CASE Reap(c, cur[c])
      BY <2>1, <3>1, ReapType
    <3>2. CASE ~Reap(c, cur[c])
      BY <3>2, ZenonT(30) DEF PostSwitch, Deferred, TableOK, Present, table_vars, heap_vars
    <3> QED
      BY <3>1, <3>2
  <2>3. FrameOK'
    <3>1. CASE Reap(c, cur[c])
      BY <2>1, <3>1, ReapType, ZenonT(30)
    <3>2. CASE ~Reap(c, cur[c])
      BY <3>2, Framed, ZenonT(30) DEF PostSwitch
    <3> QED
      BY <3>1, <3>2
  <2>4. QueueOK'
    <3>1. CASE Reap(c, cur[c])
      BY <2>1, <3>1, ReapType
    <3>2. CASE ~Reap(c, cur[c])
      <4> DEFINE move == post_switch[c] # 0 /\ status[cur[c]] = "Running"
                   s    == IF move THEN Requeued(c) ELSE <<>>
        <4>1. s \in Seq(Pids) /\ Enqueue(c, s)
          BY <3>2, <2>1 DEF PostSwitch, Requeued
        <4> HIDE DEF s
        <4> QED
          BY <4>1, EnqueueType, SMTT(30)
    <3> QED
      BY <3>1, <3>2
  <2>5. CoreOK' /\ CurOK'
    <3>1. CASE Doomed(c)
      BY <2>1, <3>1, GotoType, PcFacts, SMTT(30) DEF PostSwitch, CoreOK
    <3>2. CASE ~Doomed(c)
      BY <3>2, DropType, SMTT(30) DEF PostSwitch, CoreOK
    <3> QED
      BY <3>1, <3>2, SMTT(30)
  <2>6. RefOK'
    <3>1. CASE Reap(c, cur[c])
      BY <2>1, <3>1, ReapType, ZenonT(30) DEF PostSwitch, RefOK, ref_vars
    <3>2. CASE ~Reap(c, cur[c])
      BY <3>2, ZenonT(30) DEF PostSwitch, RefOK, ref_vars
    <3> QED
      BY <3>1, <3>2
  <2> QED
    BY <2>2, <2>3, <2>4, <2>5, <2>6, Framed, ZenonT(30) DEF PostSwitch, core_vars, local_vars
<1>9. CASE SwitchIn(c)
  BY <1>9, PidsAssumption, PcFacts, Framed, SMTT(30) DEF TypeInv, TypeOK, SwitchIn, core_vars, local_vars, CoreOK, CurOK, Goto
<1>10. CASE SwitchOut(c)
  BY <1>10, PidsAssumption, PcFacts, Framed DEF TypeInv, TypeOK, SwitchOut, core_vars, local_vars, CoreOK, CurOK, Goto
<1>11. CASE Finalize(c)
  BY <1>11, PidsAssumption, DropType, Framed, ZenonT(30) DEF TypeInv, TypeOK, Finalize, core_vars, local_vars, CoreOK, RefOK, ref_vars
<1> QED
  BY <1>1, <1>2, <1>3, <1>4, <1>5, <1>6, <1>7, <1>8, <1>9, <1>10, <1>11, ZenonT(30) DEF Scheduler

-----------------------------------------------------------------------------
(* What a process does inside the kernel. *)

LEMMA ExitType ==
  ASSUME TypeInv, NEW c \in Cores, NEW why \in Reasons, Exit(c, why)
  PROVE  TypeInv'
<1> USE PidsAssumption DEF TypeInv, TypeOK
<1>1. CoreOK' /\ CurOK'
  BY GotoType, PcFacts, SMTT(30) DEF Exit, CoreOK, local_vars, InBody, CurOK
<1> QED
  BY <1>1, Framed, ZenonT(30) DEF Exit, core_vars, local_vars, TableOK, Present, heap_vars

LEMMA KernelTypes ==
  ASSUME SetFacts, TypeInv, NEW c \in Cores, InKernel(c)
  PROVE  TypeInv'
<1>1. ASSUME NEW p \in Pids, SpawnTake(c, p) PROVE TypeInv'
  <2> USE <1>1, PidsAssumption DEF TypeInv, TypeOK
  <2>1. CoreOK' /\ CurOK'
    <3> DEFINE n == [pid |-> p, ref |-> new[c].ref, link |-> new[c].link, mons |-> monitor_at_spawn]
    <3>1. new' = [new EXCEPT ![c] = n]
      BY ZenonT(30) DEF SpawnTake, CoreOK
    <3>2. n \in [pid : Pids \cup {NoPid}, ref : Refs \cup {NoRef},
               link : BOOLEAN, mons : SUBSET (Refs \X Pids)] /\ n.pid = p
      BY ZenonT(30) DEF CoreOK, RefOK
    <3>3. cur[c] \in Pids /\ cur' = [cur EXCEPT ![c] = cur[c]]
      BY PcFacts, ZenonT(30) DEF SpawnTake, CurOK, CoreOK
    <3> HIDE DEF n
    <3> QED
      BY <3>1, <3>2, <3>3, CoreType, PcFacts, ZenonT(30) DEF CoreOK, SpawnTake
  <2>2. RefOK'
    BY ZenonT(30) DEF SpawnTake, RefOK, CoreOK, CurOK, Active, Owning, OnStack, NoRef
  <2> QED
    BY <2>1, <2>2, Framed, ZenonT(30) DEF SpawnTake, core_vars, local_vars, TableOK, Present, heap_vars
<1>2. CASE SpawnInsert(c)
  <2> USE <1>2, PidsAssumption DEF TypeInv, TypeOK
  <2>1. TableOK'
    <3>1. new[c].pid \in Pids /\ cur[c] \in Pids
      BY PcFacts, ZenonT(30) DEF SpawnInsert, CurOK
    <3>2. links' \in [Pids -> SUBSET Pids]
      BY <3>1, ZenonT(30) DEF SpawnInsert, TableOK
    <3> QED
      BY <3>1, <3>2, ZenonT(30) DEF SpawnInsert, TableOK, Present, heap_vars, CoreOK
  <2>2. CoreOK' /\ CurOK'
    BY GotoType, PcFacts, ZenonT(30) DEF SpawnInsert, CoreOK, local_vars, CurOK
  <2> QED
    BY <2>1, <2>2, Framed, ZenonT(30) DEF SpawnInsert, core_vars, local_vars
<1>3. CASE SpawnEnqueue(c)
  <2> USE <1>3, PidsAssumption DEF TypeInv, TypeOK
  <2>1. QueueOK'
    <3>1. new[c].pid \in Pids
      BY ZenonT(30) DEF SpawnEnqueue, CurOK
    <3>2. \A p \in Pids : <<p>> \in Seq(Pids)
      OBVIOUS
    <3> QED
      BY <3>1, <3>2, EnqueueType, ZenonT(30) DEF SpawnEnqueue
  <2>2. CoreOK' /\ CurOK'
    <3>1. NoNew \in [pid : Pids \cup {NoPid}, ref : Refs \cup {NoRef},
                   link : BOOLEAN, mons : SUBSET (Refs \X Pids)]
      BY ZenonT(30) DEF NoNew
    <3>2. cur[c] \in Pids /\ cur' = [cur EXCEPT ![c] = cur[c]]
      BY PcFacts DEF SpawnEnqueue, CurOK, CoreOK
    <3>3. new' = [new EXCEPT ![c] = NoNew] /\ Goto(c, "user") /\ UNCHANGED <<scan, post_switch, preempt>>
      BY ZenonT(30) DEF SpawnEnqueue
    <3> QED
      BY <3>1, <3>2, <3>3, CoreType, PcFacts, ZenonT(30) DEF CoreOK
  <2> QED
    BY <2>1, <2>2, Framed, ZenonT(30) DEF SpawnEnqueue, core_vars, local_vars
<1>4. CASE RecvKilled(c)
  <2> USE <1>4, PidsAssumption DEF TypeInv, TypeOK
  <2>1. CoreOK' /\ CurOK'
    BY GotoType, PcFacts, ZenonT(30) DEF RecvKilled, CoreOK, local_vars, CurOK
  <2> QED
    BY <2>1, Framed, ZenonT(30) DEF RecvKilled, core_vars, local_vars, TableOK, Present, heap_vars
<1>5. CASE RecvMatch(c)
  <2> USE <1>5, PidsAssumption DEF TypeInv, TypeOK
  <2>1. cur[c] \in Pids
    BY ZenonT(30) DEF RecvMatch, CurOK, Active, Owning, OnStack
  <2>2. TableOK'
    <3>1. PICK i \in DOMAIN mailbox[cur[c]] : \E skipped \in SUBSET (1 .. i - 1) :
            /\ Reaches(c, i, skipped)
            /\ mailbox' = [mailbox EXCEPT ![cur[c]] = Without(@, i)]
      BY ZenonT(30) DEF RecvMatch
    <3>2. mailbox[cur[c]] \in Seq(Msgs) /\ i \in 1 .. Len(mailbox[cur[c]])
      BY <2>1 DEF TableOK
    <3>3. grown' \in [Pids -> 0 .. MaxGrow]
      BY <2>1, <3>1, <3>2, ReachesType, SMTT(30)
    <3>4. mailbox' \in [Pids -> Seq(Msgs)]
      BY <2>1, <3>1, <3>2, WithoutType DEF TableOK
    <3> QED
      BY <3>3, <3>4, ZenonT(30) DEF RecvMatch, TableOK
  <2> QED
    BY <2>2, <2>1, RecvDoneType, GotoType, PcFacts, Framed, ZenonT(30)
       DEF RecvMatch, core_vars, local_vars, CoreOK, CurOK
<1>6. CASE RecvQuota(c)
  <2> USE <1>6, PidsAssumption DEF TypeInv, TypeOK
  <2>1. TableOK'
    <3>1. PICK i \in DOMAIN mailbox[cur[c]] : \E skipped \in SUBSET (1 .. i - 1) :
            Reaches(c, i, skipped)
      BY ZenonT(30) DEF RecvQuota
    <3>2. cur[c] \in Pids
      BY PcFacts, ZenonT(30) DEF RecvQuota, CurOK
    <3>3. i \in Nat \ {0}
      BY <3>2 DEF TableOK
    <3> QED
      BY PcFacts, <3>1, <3>3, ReachesType, ZenonT(30) DEF RecvQuota, TableOK, table_vars, CurOK
  <2>2. CoreOK' /\ CurOK'
    BY GotoType, PcFacts, ZenonT(30) DEF RecvQuota, CoreOK, local_vars, CurOK
  <2> QED
    BY <2>1, <2>2, Framed, ZenonT(30) DEF RecvQuota, core_vars, local_vars
<1>7. CASE RecvTimeout(c)
  <2> USE <1>7, PidsAssumption DEF TypeInv, TypeOK
  <2>1. TableOK'
    BY NoMatchType, ZenonT(30) DEF RecvTimeout, TableOK, table_vars, NoMatch, CurOK, Active, Owning, OnStack
  <2> QED
    BY <2>1, RecvDoneType, GotoType, PcFacts, Framed, ZenonT(30)
       DEF RecvTimeout, core_vars, local_vars, NoMatch, CurOK, Active, Owning, OnStack, CoreOK
<1>8. CASE RecvBlock(c)
  <2> USE <1>8, PidsAssumption DEF TypeInv, TypeOK
  <2>1. cur[c] \in Pids
    BY PcFacts, ZenonT(30) DEF RecvBlock, NoMatch, CurOK
  <2> QED
    BY <2>1, NoMatchType, GotoType, PcFacts, Framed, ZenonT(30)
       DEF RecvBlock, core_vars, local_vars, TableOK, table_vars, CoreOK, NoMatch, CurOK
<1>9. CASE Park(c)
  <2> USE <1>9, PidsAssumption DEF TypeInv, TypeOK
  <2>1. cur[c] \in Pids /\ "switch" \in Pcs /\ "switch" \notin {"insert", "enqueue"}
    BY PcFacts DEF Park, CurOK
  <2>2. TimerOK'
    <3>1. ASSUME NEW p \in Pids PROVE TimerOf(p) \subseteq Nat \X Pids
      BY DEF TimerOf, FrameOK
    <3> QED
      BY <2>1, <3>1, ZenonT(30) DEF Park, TimerOK
  <2>3. CoreOK' /\ CurOK'
    <3>1. post_switch' \in [Cores -> 0 .. 2]
      BY DEF Park, CoreOK
    <3> QED
      BY <2>1, <3>1, GotoType, ZenonT(30) DEF Park, CoreOK
  <2> QED
    BY <2>2, <2>3, Framed, ZenonT(30) DEF Park, core_vars, local_vars
<1>10. "error" \in Reasons
  BY DEF Reasons
<1> QED
  BY <1>1, <1>2, <1>3, <1>4, <1>5, <1>6, <1>7, <1>8, <1>9, <1>10, ExitType, ZenonT(30) DEF InKernel

-----------------------------------------------------------------------------
(* What a running process does. *)

LEMMA BodyTypes ==
  ASSUME TypeInv, NEW c \in Cores, Body(c)
  PROVE  TypeInv'
<1>1. ASSUME NEW p \in Pids, Kill(c, p) PROVE TypeInv'
  BY <1>1, PidsAssumption, MarkDeadType, Framed, ZenonT(30) DEF TypeInv, TypeOK, Kill, core_vars, local_vars, heap_vars, Reasons
<1>2. ASSUME NEW p \in Pids, Monitor(c, p) PROVE TypeInv'
  <2> USE <1>2, PidsAssumption DEF TypeInv, TypeOK
  <2>1. cur[c] \in Pids /\ next_ref \in Refs
    BY UserFacts, RefFacts, ZenonT(30) DEF Monitor, InBody
  <2>2. TableOK'
    <3>1. CASE Watchable(p)
      <4>1. monitors[p] \cup {<<next_ref, cur[c]>>} \in SUBSET (Refs \X Pids)
        BY <2>1 DEF TableOK
      <4>2. monitors' \in [Pids -> SUBSET (Refs \X Pids)]
        BY <3>1, <4>1, ZenonT(30) DEF Monitor, TableOK
      <4> QED
        BY <3>1, <4>2, ZenonT(30) DEF Monitor, TableOK, heap_vars
    <3>2. CASE ~Watchable(p)
      <4>1. Deliver(c, cur[c], <<"DOWN", next_ref, "noproc">>) /\ <<"DOWN", next_ref, "noproc">> \in Msgs
        BY <2>1, <3>2, MsgFacts, ZenonT(30) DEF Monitor
      <4> QED
        BY <2>1, <3>2, <4>1, DeliverType, ZenonT(30) DEF Monitor, TableOK, heap_vars
    <3> QED
      BY <3>1, <3>2
  <2>3. QueueOK'
    <3>1. CASE Watchable(p)
      BY <3>1, Framed, ZenonT(30) DEF Monitor
    <3>2. CASE ~Watchable(p)
      <4>1. Deliver(c, cur[c], <<"DOWN", next_ref, "noproc">>) /\ <<"DOWN", next_ref, "noproc">> \in Msgs
        BY <2>1, <3>2, MsgFacts, ZenonT(30) DEF Monitor
      <4> QED
        BY <2>1, <4>1, DeliverType, ZenonT(30)
    <3> QED
      BY <3>1, <3>2
  <2>4. RefOK'
    <3>1. next_ref' \in 1 .. MaxRef + 1
      BY RefFacts, ZenonT(30) DEF Monitor
    <3>2. asked' \in [Refs -> (Pids \X Pids) \cup {<<>>}]
      BY <2>1 DEF Monitor, RefOK
    <3>3. downs' \in [Refs -> Nat]
      BY <2>1 DEF Monitor, RefOK
    <3> QED
      BY <3>1, <3>2, <3>3, ZenonT(30) DEF Monitor, RefOK
  <2> QED
    BY <2>2, <2>3, <2>4, Framed, ZenonT(30) DEF Monitor, core_vars, local_vars
<1>3. ASSUME NEW p \in Pids, NEW k \in Kinds, Send(c, p, k) PROVE TypeInv'
  <2> USE <1>3, PidsAssumption DEF TypeInv, TypeOK
  <2>1. Deliver(c, p, <<k>>) /\ <<k>> \in Msgs
    BY MsgFacts, ZenonT(30) DEF Send
  <2>2. TableOK'
    BY <2>1, DeliverType, ZenonT(30) DEF Send, TableOK, heap_vars
  <2>3. QueueOK'
    BY <2>1, DeliverType, ZenonT(30)
  <2> QED
    BY <2>2, <2>3, Framed, ZenonT(30) DEF Send, core_vars, local_vars
<1>4. ASSUME NEW link \in BOOLEAN, Spawn(c, link) PROVE TypeInv'
  <2> USE <1>4, PidsAssumption DEF TypeInv, TypeOK
  <2>1. CoreOK' /\ CurOK'
    <3> DEFINE n == [pid |-> NoPid, ref |-> NoRef, link |-> link, mons |-> {}]
    <3>1. n \in [pid : Pids \cup {NoPid}, ref : Refs \cup {NoRef},
               link : BOOLEAN, mons : SUBSET (Refs \X Pids)]
      BY ZenonT(30)
    <3>2. cur[c] \in Pids /\ cur' = [cur EXCEPT ![c] = cur[c]]
      BY PcFacts, ZenonT(30) DEF Spawn, InBody, CurOK, CoreOK
    <3>3. new' = [new EXCEPT ![c] = n] /\ Goto(c, "spawn") /\ UNCHANGED <<scan, post_switch, preempt>>
      BY ZenonT(30) DEF Spawn
    <3> HIDE DEF n
    <3> QED
      BY <3>1, <3>2, <3>3, CoreType, PcFacts, ZenonT(30) DEF CoreOK
  <2> QED
    BY <2>1, Framed, ZenonT(30) DEF Spawn, core_vars, local_vars
<1>5. CASE SpawnMonitor(c)
  <2> USE <1>5, PidsAssumption DEF TypeInv, TypeOK
  <2>1. CoreOK' /\ CurOK'
    <3> DEFINE n == [pid |-> NoPid, ref |-> next_ref, link |-> FALSE, mons |-> {}]
    <3>1. n \in [pid : Pids \cup {NoPid}, ref : Refs \cup {NoRef},
               link : BOOLEAN, mons : SUBSET (Refs \X Pids)]
      BY RefFacts, ZenonT(30) DEF SpawnMonitor
    <3>2. cur[c] \in Pids /\ cur' = [cur EXCEPT ![c] = cur[c]]
      BY PcFacts, ZenonT(30) DEF SpawnMonitor, InBody, CurOK, CoreOK
    <3>3. new' = [new EXCEPT ![c] = n] /\ Goto(c, "spawn") /\ UNCHANGED <<scan, post_switch, preempt>>
      BY ZenonT(30) DEF SpawnMonitor
    <3> HIDE DEF n
    <3> QED
      BY <3>1, <3>2, <3>3, CoreType, PcFacts, ZenonT(30) DEF CoreOK
  <2>2. RefOK'
    <3>1. <<next_ref, cur[c]>> \in Refs \X Pids /\ next_ref' \in 1 .. MaxRef + 1
      BY RefFacts, UserFacts DEF SpawnMonitor, InBody
    <3> QED
      BY <3>1, ZenonT(30) DEF SpawnMonitor, RefOK, aux_vars
  <2> QED
    BY <2>1, <2>2, Framed, ZenonT(30) DEF SpawnMonitor, core_vars, local_vars
<1>6. CASE Grow(c)
  <2> USE <1>6, PidsAssumption DEF TypeInv, TypeOK
  <2>1. TableOK'
    <3>1. grown' \in [Pids -> 0 .. MaxGrow]
      BY BoundsAssumption, UserFacts, SMTT(30) DEF Grow, CanGrow, InBody, TableOK
    <3> QED
      BY <3>1, ZenonT(30) DEF Grow, TableOK, table_vars
  <2> QED
    BY <2>1, Framed, ZenonT(30) DEF Grow, core_vars, local_vars
<1>7. ASSUME NEW k \in Preds, NEW t \in Timeouts \cup {NoDeadline}, RecvCall(c, k, t) PROVE TypeInv'
  <2> USE <1>7, PidsAssumption DEF TypeInv, TypeOK
  <2>1. CoreOK' /\ CurOK'
    BY GotoType, PcFacts, ZenonT(30) DEF RecvCall, CoreOK, local_vars, InBody, CurOK
  <2> QED
    BY BoundsAssumption, <2>1, Framed, ZenonT(30)
       DEF RecvCall, core_vars, local_vars, InBody, CurOK, Active, Owning, OnStack, FrameOK
<1>8. CASE Fatal(c)
  <2> USE <1>8, PidsAssumption DEF TypeInv, TypeOK
  <2>1. CoreOK' /\ CurOK'
    BY GotoType, PcFacts, ZenonT(30) DEF Fatal, CoreOK, local_vars, CurOK
  <2> QED
    BY <2>1, Framed, ZenonT(30) DEF Fatal, core_vars, local_vars, TableOK, Present, Reasons, heap_vars
<1> QED
  BY <1>1, <1>2, <1>3, <1>4, <1>5, <1>6, <1>7, <1>8, ExitType, ZenonT(30) DEF Body

-----------------------------------------------------------------------------
(* Interrupts. *)

LEMMA InterruptTypes ==
  ASSUME TypeInv, NEW c \in Cores, Yield(c) \/ Tick(c) \/ WakeIpi(c)
  PROVE  TypeInv'
<1>1. CASE Yield(c)
  <2> USE <1>1, PidsAssumption DEF TypeInv, TypeOK
  <2>1. CoreOK' /\ CurOK'
    <3>1. post_switch' \in [Cores -> 0 .. 2]
      BY DEF Yield, CoreOK
    <3>2. preempt' \in [Cores -> BOOLEAN]
      BY ZenonT(30) DEF Yield, CoreOK
    <3> QED
      BY <3>1, <3>2, PcFacts, GotoType, ZenonT(30) DEF Yield, CurOK
  <2> QED
    BY <2>1, Framed, ZenonT(30) DEF Yield, core_vars, local_vars
<1>2. CASE Tick(c)
  <2> USE <1>2, PidsAssumption DEF TypeInv, TypeOK
  <2>1. FrameOK'
    <3>1. deadline' = deadline \/ deadline' = [p \in Pids |-> IF deadline[p] > 0 THEN deadline[p] - 1 ELSE deadline[p]]
      BY ZenonT(30) DEF Tick
    <3>2. ASSUME NEW d \in Nat \cup {NoDeadline} PROVE (IF d > 0 THEN d - 1 ELSE d) \in Nat \cup {NoDeadline}
      BY DEF NoDeadline
    <3>3. deadline' \in [Pids -> Nat \cup {NoDeadline}]
      <4>1. deadline \in [Pids -> Nat \cup {NoDeadline}]
        BY DEF FrameOK
      <4>2. ASSUME NEW p \in Pids
            PROVE  (IF deadline[p] > 0 THEN deadline[p] - 1 ELSE deadline[p]) \in Nat \cup {NoDeadline}
        <5>1. PICK d \in Nat \cup {NoDeadline} : d = deadline[p]
          BY <4>1, ZenonT(30)
        <5> QED
          BY <3>2, <5>1, ZenonT(30)
      <4> QED
        BY <3>1, <4>1, <4>2, ZenonT(30)
    <3> QED
      BY <3>3, ZenonT(30) DEF Tick, FrameOK
  <2>2. TimerOK'
    BY DEF Tick, TimerOK
  <2> QED
    BY <2>1, PcFacts, <2>2, Framed, ZenonT(30) DEF Tick, core_vars, local_vars, CoreOK, CurOK, Goto, AfterInterrupt
<1>3. CASE WakeIpi(c)
  BY <1>3, PidsAssumption, PcFacts, Framed, ZenonT(30) DEF TypeInv, TypeOK, WakeIpi, core_vars, local_vars, QueueOK, CoreOK, CurOK, Goto, AfterInterrupt
<1> QED
  BY <1>1, <1>2, <1>3, ZenonT(30)

-----------------------------------------------------------------------------
(* The types are an invariant. *)

LEMMA TypeNext == SetFacts /\ TypeInv /\ [Next]_vars => TypeInv'
<1> SUFFICES ASSUME SetFacts, TypeInv, [Next]_vars PROVE TypeInv'
  OBVIOUS
<1>1. CASE UNCHANGED vars
  BY <1>1, Framed, ZenonT(30) DEF TypeInv, TypeOK, vars
<1> QED
  BY <1>1, SchedulerTypes, KernelTypes, BodyTypes, InterruptTypes, ZenonT(30) DEF Next

LEMMA TypeInit == Init => TypeInv
<1> SUFFICES ASSUME Init PROVE TypeInv
  BY ZenonT(30)
<1>1. CoreOK
  <2>1. /\ pc = [c \in Cores |-> Top(c)] /\ cur = [c \in Cores |-> NoPid] /\ scan = [c \in Cores |-> 0]
        /\ post_switch = [c \in Cores |-> 0] /\ preempt = [c \in Cores |-> FALSE]
        /\ new = [c \in Cores |-> NoNew]
    BY ZenonT(30) DEF Init
  <2>2. \A c \in Cores : Top(c) \in Pcs
    BY PcFacts, ZenonT(30) DEF Top
  <2>3. NoNew \in [pid : Pids \cup {NoPid}, ref : Refs \cup {NoRef}, link : BOOLEAN, mons : SUBSET (Refs \X Pids)]
    BY SMTT(30) DEF NoNew
  <2> QED
    BY <2>1, <2>2, <2>3, BspIsCore, SMTT(30) DEF CoreOK
<1>2. CurOK
  BY PcFacts, ZenonT(30) DEF Init, CurOK
<1> QED
  BY BoundsAssumption, PidsAssumption, <1>1, <1>2, SMTT(30)
     DEF Init, TypeInv, TypeOK, TableOK, Present, Reasons, FrameOK, QueueOK, TimerOK, RefOK

-----------------------------------------------------------------------------
(* How the state of a process moves. *)

\* The process is inserted, or lives on in the table, or its state stays.
Ages(p) ==
  \/ status'[p] = status[p]
  \/ status[p] = "alloc" /\ status'[p] = "Runnable"
  \/ status[p] \in Present /\ status'[p] \in Present

\* No core gets to finalize, and one that is there keeps its process.
KeepsFinal == \A d \in Cores : pc'[d] = "finalize" => pc[d] = "finalize" /\ cur'[d] = cur[d]

LEMMA FinalStep ==
  ASSUME TypeInv, NEW c \in Cores, NEW l, NEW x, Goto(c, l), l # "finalize",
         cur' = cur \/ cur' = [cur EXCEPT ![c] = x]
  PROVE  KeepsFinal
BY ZenonT(30) DEF TypeInv, TypeOK, CoreOK, Goto, KeepsFinal

\* The step is one of core c.
StepOf(c) == \A d \in Cores \ {c} :
  /\ pc'[d] = pc[d] /\ cur'[d] = cur[d] /\ new'[d] = new[d]
  /\ post_switch'[d] = post_switch[d]

LEMMA GotoStep ==
  ASSUME TypeInv, NEW c \in Cores, NEW l, Goto(c, l), NEW x, NEW n, NEW m,
         cur' = cur \/ cur' = [cur EXCEPT ![c] = x],
         new' = new \/ new' = [new EXCEPT ![c] = n],
         post_switch' = post_switch \/ post_switch' = [post_switch EXCEPT ![c] = m]
  PROVE  StepOf(c)
BY DEF TypeInv, TypeOK, CoreOK, Goto, StepOf

\* What the placement of the processes says of the cores: the process a core is on
\* is its own, a pid that is being inserted is taken, and a process that is being
\* dispatched is in the table, or was, and on no core.
Settled ==
  /\ SoleOwner
  /\ \A c \in Cores : pc[c] = "insert" => status[new[c].pid] = "alloc"
  /\ \A c \in Cores : pc[c] = "dispatch" => /\ status[cur[c]] \in Present \cup {"gone"}
                                            /\ \A d \in Cores : ~Owns(d, cur[c])

\* A core in a process: the process is its own.
LEMMA OwnerFacts ==
  ASSUME TypeInv, Settled, NEW c \in Cores,
         pc[c] \in {"enter", "out", "user", "spawn", "insert", "enqueue", "recv", "quota", "park", "switch"}
  PROVE  /\ cur[c] \in Pids /\ status[cur[c]] \in {"Running", "Dead"} /\ pc[c] \in Owning
         /\ \A d \in Cores : pc[d] \in Owning /\ cur[d] = cur[c] => d = c
<1>1. pc[c] \in Owning /\ pc[c] \in Active
  BY PcFacts
<1>2. cur[c] \in Pids
  BY <1>1, ZenonT(30) DEF TypeInv, CurOK
<1> QED
  BY <1>1, <1>2, ZenonT(30) DEF Settled, SoleOwner, Owns

\* What reap does to the state of each process.
LEMMA ReapStates ==
  ASSUME TypeInv, NEW c \in Cores, NEW x \in Pids, Reap(c, x), NEW p \in Pids
  PROVE  /\ p = x => status'[p] = "gone"
         /\ p # x => \/ status'[p] = status[p]
                     \/ status[p] \in {"Runnable", "Waiting"} /\ status'[p] = "Dead"
                     \/ status[p] = "Waiting" /\ status'[p] = "Runnable"
BY ZenonT(30) DEF Reap, Slain, OffCpu, Woken

\* The steps that leave states, links and stacks alone.
LEMMA StillActions ==
  ASSUME TypeInv, NEW c \in Cores,
         \/ CheckWheel(c) \/ PopFront(c) \/ Steal(c) \/ Halt(c) \/ Resume(c) \/ SwitchIn(c)
         \/ SwitchOut(c) \/ SpawnEnqueue(c) \/ RecvMatch(c) \/ RecvQuota(c) \/ RecvTimeout(c)
         \/ RecvBlock(c) \/ Park(c) \/ Yield(c) \/ Grow(c) \/ SpawnMonitor(c)
         \/ (\E link \in BOOLEAN : Spawn(c, link))
         \/ (\E k \in Preds, t \in Timeouts \cup {NoDeadline} : RecvCall(c, k, t))
         \/ Tick(c) \/ WakeIpi(c)
  PROVE  UNCHANGED <<status, kill_pending, links, mapped>> /\ KeepsFinal
<1> USE DEF table_vars, aux_vars, local_vars, core_vars
<1>1. CASE CheckWheel(c) \/ Halt(c) \/ Resume(c)
  <2>1. Top(c) # "finalize"
    BY PcFacts
  <2> QED
    BY <1>1, <2>1, FinalStep, ZenonT(30) DEF CheckWheel, Halt, Resume
<1>2. CASE PopFront(c)
  BY <1>2, FinalStep, ZenonT(30) DEF PopFront
<1>3. CASE Steal(c)
  BY <1>3, FinalStep, ZenonT(30) DEF Steal
<1>4. CASE SwitchIn(c) \/ SwitchOut(c) \/ SpawnEnqueue(c) \/ Park(c) \/ Yield(c) \/ Grow(c)
  <2>1. CASE Grow(c)
    BY <2>1, ZenonT(30) DEF Grow, KeepsFinal
  <2> QED
    BY <1>4, <2>1, FinalStep, ZenonT(30) DEF SwitchIn, SwitchOut, SpawnEnqueue, Park, Yield
<1>5. CASE RecvMatch(c) \/ RecvQuota(c) \/ RecvTimeout(c) \/ RecvBlock(c)
  BY <1>5, FinalStep, ZenonT(30) DEF RecvMatch, RecvQuota, RecvTimeout, RecvBlock
<1>6. CASE SpawnMonitor(c) \/ (\E link \in BOOLEAN : Spawn(c, link))
  BY <1>6, FinalStep, ZenonT(30) DEF SpawnMonitor, Spawn
<1>7. CASE \E k \in Preds, t \in Timeouts \cup {NoDeadline} : RecvCall(c, k, t)
  BY <1>7, FinalStep, ZenonT(30) DEF RecvCall
<1>8. CASE Tick(c) \/ WakeIpi(c)
  <2>1. UNCHANGED <<status, kill_pending, links, mapped, cur>> /\ Goto(c, AfterInterrupt(c))
    BY <1>8, ZenonT(30) DEF Tick, WakeIpi
  <2> QED
    BY <2>1, ZenonT(30) DEF TypeInv, TypeOK, CoreOK, Goto, KeepsFinal, AfterInterrupt
<1> QED
  BY <1>1, <1>2, <1>3, <1>4, <1>5, <1>6, <1>7, <1>8, ZenonT(30)

\* The steps that change states and leave links and stacks alone.
LEMMA MovingActions ==
  ASSUME TypeInv, Settled, NEW c \in Cores,
         \/ WakeSleepers(c) \/ RecvKilled(c) \/ Fatal(c)
         \/ (\E why \in Reasons : Exit(c, why))
         \/ (\E p \in Pids : Kill(c, p) \/ Monitor(c, p) \/ \E k \in Kinds : Send(c, p, k))
  PROVE  UNCHANGED <<links, mapped>> /\ KeepsFinal /\ \A p \in Pids : Ages(p)
<1> USE DEF table_vars, aux_vars, local_vars, core_vars, Ages, Present
<1>1. CASE WakeSleepers(c)
  <2>1. KeepsFinal
    BY <1>1, FinalStep, ZenonT(30) DEF WakeSleepers
  <2> QED
    BY <1>1, <2>1, ZenonT(30) DEF WakeSleepers
<1>2. CASE RecvKilled(c) \/ Fatal(c) \/ \E why \in Reasons : Exit(c, why)
  <2>1. /\ status' = [status EXCEPT ![cur[c]] = "Dead"] /\ Goto(c, "switch")
        /\ UNCHANGED <<links, mapped, cur>>
        /\ pc[c] \in {"recv", "user", "switch", "quota"}
    BY <1>2, ZenonT(30) DEF RecvKilled, Fatal, Exit, InBody
  <2>2. cur[c] \in Pids /\ status[cur[c]] \in {"Running", "Dead"}
    BY <2>1, OwnerFacts, ZenonT(30)
  <2>3. KeepsFinal
    BY <2>1, FinalStep, ZenonT(30)
  <2> QED
    BY <2>1, <2>2, <2>3, ZenonT(30) DEF TypeInv, TypeOK, TableOK
<1>3. ASSUME NEW p \in Pids, Kill(c, p) PROVE UNCHANGED <<links, mapped>> /\ KeepsFinal /\ \A q \in Pids : Ages(q)
  BY <1>3, ZenonT(30) DEF Kill, MarkDead, OffCpu, KeepsFinal, TypeInv, TypeOK, TableOK
<1>4. ASSUME NEW p \in Pids, NEW m, Deliver(c, p, m) PROVE \A q \in Pids : Ages(q)
  BY <1>4, ZenonT(30) DEF Deliver, TypeInv, TypeOK, TableOK
<1>5. ASSUME NEW p \in Pids, Monitor(c, p) PROVE UNCHANGED <<links, mapped>> /\ KeepsFinal /\ \A q \in Pids : Ages(q)
  <2>1. cur[c] \in Pids
    BY <1>5, OwnerFacts, ZenonT(30) DEF Monitor, InBody
  <2>2. UNCHANGED <<links, mapped, pc, cur>>
    BY <1>5, ZenonT(30) DEF Monitor
  <2>3. \A q \in Pids : Ages(q)
    BY <1>4, <1>5, <2>1, ZenonT(30) DEF Monitor
  <2> QED
    BY <2>2, <2>3, ZenonT(30) DEF KeepsFinal
<1>6. ASSUME NEW p \in Pids, NEW k \in Kinds, Send(c, p, k)
      PROVE  UNCHANGED <<links, mapped>> /\ KeepsFinal /\ \A q \in Pids : Ages(q)
  BY <1>4, <1>6, ZenonT(30) DEF Send, KeepsFinal
<1> QED
  BY <1>1, <1>2, <1>3, <1>5, <1>6, ZenonT(30)

LEMMA InsertStates ==
  ASSUME TypeInv, Settled, NEW c \in Cores, SpawnInsert(c)
  PROVE  /\ mapped' = mapped /\ KeepsFinal /\ \A p \in Pids : Ages(p)
         /\ new[c].pid \in Pids /\ status'[new[c].pid] = "Runnable"
<1>1. new[c].pid \in Pids
  BY ZenonT(30) DEF SpawnInsert, TypeInv, CurOK
<1>2. status[new[c].pid] = "alloc"
  BY <1>1, ZenonT(30) DEF SpawnInsert, Settled
<1>3. KeepsFinal
  BY FinalStep, ZenonT(30) DEF SpawnInsert, local_vars
<1> QED
  BY <1>1, <1>2, <1>3, ZenonT(30) DEF SpawnInsert, aux_vars, Ages, TypeInv, TypeOK, TableOK

\* The steps of the scheduler that change states: one process moves, or is reaped.
LEMMA DispatchStates ==
  ASSUME TypeInv, Settled, NEW c \in Cores, Dispatch(c) \/ PostSwitch(c)
  PROVE  /\ mapped' = mapped /\ cur[c] \in Pids /\ status[cur[c]] \in Present \cup {"gone"}
         /\ \/ KeepsFinal /\ links' = links /\ \A p \in Pids : Ages(p)
            \/ /\ status[cur[c]] \in Present /\ Reap(c, cur[c])
               /\ Goto(c, "finalize") /\ cur' = cur
<1>1. Top(c) # "finalize"
  BY PcFacts
<1>2. CASE Dispatch(c)
  <2>1. cur[c] \in Pids
    BY <1>2, PcFacts, ZenonT(30) DEF Dispatch, TypeInv, CurOK
  <2>2. status[cur[c]] \in Present \cup {"gone"}
    BY <1>2, ZenonT(30) DEF Dispatch, Settled
  <2>3. CASE status[cur[c]] = "Dead"
    BY <1>2, <2>1, <2>3, ZenonT(30) DEF Dispatch, Present
  <2>4. CASE status[cur[c]] = "Runnable"
    BY <1>2, <2>1, <2>2, <2>4, FinalStep, ZenonT(30) DEF Dispatch, Present, Ages, TypeInv, TypeOK, TableOK
  <2>5. CASE status[cur[c]] \notin {"Runnable", "Dead"}
    BY <1>1, <1>2, <2>1, <2>2, <2>5, FinalStep, ZenonT(30) DEF Dispatch, Ages, table_vars
  <2> QED
    BY <2>3, <2>4, <2>5, ZenonT(30)
<1>3. CASE PostSwitch(c)
  <2>1. cur[c] \in Pids /\ status[cur[c]] \in {"Running", "Dead"}
    BY <1>3, OwnerFacts, ZenonT(30) DEF PostSwitch
  <2>2. CASE Doomed(c)
    BY <1>3, <2>1, <2>2, ZenonT(30) DEF PostSwitch, Present
  <2>3. CASE ~Doomed(c)
    <3>1. /\ status' = status \/ status' = [status EXCEPT ![cur[c]] = Deferred(c)]
          /\ UNCHANGED <<mapped, links>> /\ Goto(c, Top(c)) /\ cur' = [cur EXCEPT ![c] = NoPid]
      BY <1>3, <2>3, ZenonT(30) DEF PostSwitch
    <3>2. Deferred(c) \in Present
      BY ZenonT(30) DEF Deferred, Present
    <3>3. KeepsFinal
      BY <1>1, <3>1, FinalStep, ZenonT(30)
    <3> QED
      BY <2>1, <3>1, <3>2, <3>3, ZenonT(30) DEF Present, Ages, TypeInv, TypeOK, TableOK
  <2> QED
    BY <2>2, <2>3, ZenonT(30)
<1> QED
  BY <1>2, <1>3, ZenonT(30)

-----------------------------------------------------------------------------
(* Stacks. *)

\* The inductive invariant: a pid that is taken or in the table has its stack; a
\* core in finalize has one, of a removed process, and no other core finalizes it.
Stacked ==
  /\ \A p \in Pids : status[p] \in Present \cup {"alloc"} => p \in mapped
  /\ \A c \in Cores : pc[c] = "finalize" => cur[c] \in mapped /\ status[cur[c]] = "gone"
  /\ \A c, d \in Cores : pc[c] = "finalize" /\ pc[d] = "finalize" /\ cur[c] = cur[d] => c = d

LEMMA FinalPid ==
  ASSUME TypeInv, NEW d \in Cores, pc[d] = "finalize"
  PROVE  cur[d] \in Pids
BY PcFacts, ZenonT(30) DEF TypeInv, CurOK

LEMMA StackedKept ==
  ASSUME TypeInv, Stacked, mapped \subseteq mapped', KeepsFinal,
         \A p \in Pids : Ages(p) \/ (status[p] = "none" /\ status'[p] = "alloc" /\ p \in mapped')
  PROVE  Stacked'
<1>1. ASSUME NEW p \in Pids, status'[p] \in Present \cup {"alloc"} PROVE p \in mapped'
  BY <1>1, ZenonT(30) DEF Ages, Stacked
<1>2. ASSUME NEW p \in Pids, status[p] = "gone" PROVE status'[p] = "gone"
  BY <1>2, ZenonT(30) DEF Ages, Present
<1>3. ASSUME NEW d \in Cores, pc'[d] = "finalize" PROVE cur'[d] \in mapped' /\ status'[cur'[d]] = "gone"
  BY <1>2, <1>3, FinalPid, ZenonT(30) DEF Stacked, KeepsFinal
<1>4. ASSUME NEW c \in Cores, NEW d \in Cores, pc'[c] = "finalize", pc'[d] = "finalize", cur'[c] = cur'[d] PROVE c = d
  <2>1. pc[c] = "finalize" /\ pc[d] = "finalize" /\ cur[c] = cur[d]
    BY <1>4, ZenonT(30) DEF KeepsFinal
  <2> QED
    BY <2>1, ZenonT(30) DEF Stacked
<1> QED
  BY <1>1, <1>3, <1>4, ZenonT(30) DEF Stacked

LEMMA ReapStacked ==
  ASSUME TypeInv, Stacked, NEW c \in Cores, NEW x \in Pids, x = cur[c], status[x] \in Present, Reap(c, x),
         UNCHANGED <<mapped, cur>>, Goto(c, "finalize")
  PROVE  Stacked'
<1>1. pc'[c] = "finalize" /\ \A d \in Cores \ {c} : pc'[d] = pc[d]
  BY ZenonT(30) DEF TypeInv, TypeOK, CoreOK, Goto
<1>2. ASSUME NEW p \in Pids, status'[p] \in Present \cup {"alloc"} PROVE p \in mapped'
  BY <1>2, ReapStates, ZenonT(30) DEF Stacked, Present
<1>3. status'[x] = "gone" /\ x \in mapped
  BY ReapStates, ZenonT(30) DEF Stacked
<1>4. ASSUME NEW d \in Cores \ {c}, pc'[d] = "finalize"
      PROVE  cur[d] # x /\ cur[d] \in mapped /\ status'[cur[d]] = "gone" /\ pc[d] = "finalize"
  <2>1. pc[d] = "finalize" /\ cur[d] \in Pids /\ cur[d] \in mapped /\ status[cur[d]] = "gone"
    BY <1>1, <1>4, FinalPid, ZenonT(30) DEF Stacked
  <2>2. cur[d] # x
    BY <2>1, ZenonT(30) DEF Present
  <2> QED
    BY <2>1, <2>2, ReapStates, ZenonT(30)
<1>5. ASSUME NEW d \in Cores, pc'[d] = "finalize" PROVE cur'[d] \in mapped' /\ status'[cur'[d]] = "gone"
  BY <1>3, <1>4, <1>5, ZenonT(30)
<1>6. ASSUME NEW d \in Cores, NEW e \in Cores, pc'[d] = "finalize", pc'[e] = "finalize", cur'[d] = cur'[e]
      PROVE  d = e
  <2>1. CASE d = c \/ e = c
    BY <1>4, <1>6, <2>1, ZenonT(30)
  <2>2. CASE d # c /\ e # c
    <3>1. pc[d] = "finalize" /\ pc[e] = "finalize" /\ cur[d] = cur[e]
      BY <1>4, <1>6, <2>2, ZenonT(30)
    <3> QED
      BY <3>1, ZenonT(30) DEF Stacked
  <2> QED
    BY <2>1, <2>2, ZenonT(30)
<1> QED
  BY <1>2, <1>5, <1>6, ZenonT(30) DEF Stacked

LEMMA StackedNext == TypeInv /\ Settled /\ Stacked /\ [Next]_vars => Stacked'
<1> SUFFICES ASSUME TypeInv, Settled, Stacked, [Next]_vars PROVE Stacked'
  OBVIOUS
<1>1. ASSUME NEW c \in Cores, UNCHANGED <<status, kill_pending, links, mapped>>, KeepsFinal PROVE Stacked'
  BY <1>1, StackedKept, ZenonT(30) DEF Ages
<1>2. ASSUME NEW c \in Cores, mapped' = mapped, KeepsFinal, \A p \in Pids : Ages(p) PROVE Stacked'
  BY <1>2, StackedKept, ZenonT(30)
<1>3. ASSUME NEW c \in Cores, Dispatch(c) \/ PostSwitch(c) PROVE Stacked'
  BY <1>2, <1>3, DispatchStates, ReapStacked, ZenonT(30)
<1>4. ASSUME NEW c \in Cores, Finalize(c) PROVE Stacked'
  <2>1. /\ mapped' = mapped \ {cur[c]} /\ status' = status /\ pc'[c] # "finalize"
        /\ \A d \in Cores \ {c} : pc'[d] = pc[d] /\ cur'[d] = cur[d]
    <3>1. Top(c) # "finalize"
      BY PcFacts
    <3> QED
      BY <1>4, <3>1, ZenonT(30) DEF Finalize, Goto, table_vars, TypeInv, TypeOK, CoreOK
  <2>2. pc[c] = "finalize" /\ status[cur[c]] = "gone"
    BY <1>4, ZenonT(30) DEF Finalize, Stacked
  <2>3. ASSUME NEW p \in Pids, status'[p] \in Present \cup {"alloc"} PROVE p \in mapped'
    BY <2>1, <2>2, <2>3, ZenonT(30) DEF Stacked, Present
  <2>4. ASSUME NEW d \in Cores, pc'[d] = "finalize"
        PROVE  d # c /\ pc[d] = "finalize" /\ cur'[d] = cur[d]
    BY <2>1, <2>4, ZenonT(30)
  <2>5. ASSUME NEW d \in Cores, pc'[d] = "finalize" PROVE cur'[d] \in mapped' /\ status'[cur'[d]] = "gone"
    <3>1. cur[d] \in mapped /\ status[cur[d]] = "gone" /\ cur[d] # cur[c]
      BY <2>2, <2>4, <2>5, ZenonT(30) DEF Stacked
    <3> QED
      BY <2>1, <2>4, <2>5, <3>1, ZenonT(30)
  <2>6. ASSUME NEW d \in Cores, NEW e \in Cores, pc'[d] = "finalize", pc'[e] = "finalize", cur'[d] = cur'[e]
        PROVE  d = e
    <3>1. pc[d] = "finalize" /\ pc[e] = "finalize" /\ cur[d] = cur[e]
      BY <2>4, <2>6, ZenonT(30)
    <3> QED
      BY <3>1, ZenonT(30) DEF Stacked
  <2> QED
    BY <2>3, <2>5, <2>6, ZenonT(30) DEF Stacked
<1>5. ASSUME NEW c \in Cores, NEW p \in Pids, SpawnTake(c, p) PROVE Stacked'
  <2>1. KeepsFinal
    BY <1>5, FinalStep, ZenonT(30) DEF SpawnTake
  <2> QED
    BY <1>5, <2>1, StackedKept, ZenonT(30) DEF SpawnTake, Ages, TypeInv, TypeOK, TableOK
<1>6. ASSUME NEW c \in Cores, Scheduler(c) PROVE Stacked'
  BY <1>1, <1>2, <1>3, <1>4, <1>6, StillActions, MovingActions, ZenonT(30) DEF Scheduler
<1>7. ASSUME NEW c \in Cores, InKernel(c) PROVE Stacked'
  <2>1. "error" \in Reasons
    BY DEF Reasons
  <2> QED
    BY <1>1, <1>2, <1>5, <1>7, <2>1, StillActions, MovingActions, InsertStates, ZenonT(30) DEF InKernel
<1>8. ASSUME NEW c \in Cores, Body(c) PROVE Stacked'
  BY <1>1, <1>2, <1>8, StillActions, MovingActions, ZenonT(30) DEF Body
<1>9. CASE UNCHANGED vars
  BY <1>9, ZenonT(30) DEF vars, table_vars, core_vars, local_vars, aux_vars, Stacked
<1> QED
  BY <1>1, <1>6, <1>7, <1>8, <1>9, StillActions, ZenonT(30) DEF Next

LEMMA StackedImplies == TypeInv /\ Settled /\ Stacked => StackMappedWhileUsed
<1> SUFFICES ASSUME TypeInv, Settled, Stacked PROVE StackMappedWhileUsed
  OBVIOUS
<1>1. ASSUME NEW c \in Cores, pc[c] \in Owning PROVE cur[c] \in Pids
  BY <1>1, PcFacts, ZenonT(30) DEF TypeInv, CurOK
<1> QED
  BY <1>1, ZenonT(30) DEF Settled, SoleOwner, Stacked, StackMappedWhileUsed, Present

-----------------------------------------------------------------------------
(* Links. *)

\* The inductive invariant: a process is linked to processes that have been in the
\* table, never to a pid that is only taken.
LinksKnown == \A p \in Pids : \A q \in links[p] : status[q] \notin {"none", "alloc"}

\* What LinkedDieTogether says of a step.
LinkStep ==
  \A p \in Pids : (status[p] \in Present /\ status'[p] = "gone" /\ exit_reason[p] # "normal") =>
    \A q \in links[p] : status'[q] \in {"Dead", "gone"} \/ kill_pending'[q]

LEMMA LinksType ==
  ASSUME TypeInv, NEW p \in Pids
  PROVE  links[p] \subseteq Pids
BY ZenonT(30) DEF TypeInv, TypeOK, TableOK

\* A step that removes no process.
LEMMA NoneRemoved ==
  ASSUME TypeInv, \A p \in Pids : Ages(p) \/ (status[p] = "none" /\ status'[p] = "alloc")
  PROVE  LinkStep /\ (LinksKnown /\ links' = links => LinksKnown')
<1>1. LinkStep
  BY ZenonT(30) DEF Ages, LinkStep, Present
<1>2. ASSUME NEW p \in Pids, status[p] \notin {"none", "alloc"} PROVE status'[p] \notin {"none", "alloc"}
  BY <1>2, ZenonT(30) DEF Ages, Present
<1> QED
  BY <1>1, <1>2, LinksType, ZenonT(30) DEF LinksKnown

\* reap: exit signals reach whoever is linked to the process.
LEMMA ReapLinks ==
  ASSUME TypeInv, LinksKnown, NEW c \in Cores, NEW x \in Pids, Reap(c, x)
  PROVE  LinkStep /\ LinksKnown'
<1>1. ASSUME NEW p \in Pids, status[p] \in Present, status'[p] = "gone" PROVE p = x
  BY <1>1, ReapStates, ZenonT(30) DEF Present
<1>2. ASSUME exit_reason[x] # "normal", NEW q \in links[x]
      PROVE  status'[q] \in {"Dead", "gone"} \/ kill_pending'[q]
  <2>1. q \in Pids /\ status[q] \in Present \cup {"gone"}
    BY LinksType, ZenonT(30) DEF LinksKnown, TypeInv, TypeOK, TableOK
  <2>2. CASE q = x
    BY <2>1, <2>2, ReapStates, ZenonT(30)
  <2>3. CASE q # x
    <3>1. q \in Linked(x)
      BY <1>2, <2>3, ZenonT(30) DEF Linked
    <3>2. CASE status[q] \in {"Runnable", "Waiting"}
      BY <2>1, <2>3, <3>1, <3>2, ZenonT(30) DEF Reap, Slain, OffCpu
    <3>3. CASE status[q] = "Running"
      BY <2>1, <2>3, <3>1, <3>3, ZenonT(30) DEF Reap, Flagged
    <3>4. CASE status[q] \in {"Dead", "gone"}
      BY <2>1, <2>3, <3>4, ReapStates, ZenonT(30)
    <3> QED
      BY <2>1, <3>2, <3>3, <3>4, ZenonT(30) DEF Present
  <2> QED
    BY <2>2, <2>3, ZenonT(30)
<1>3. ASSUME NEW p \in Pids, status[p] \notin {"none", "alloc"} PROVE status'[p] \notin {"none", "alloc"}
  BY <1>3, ReapStates, ZenonT(30)
<1>4. links' = [links EXCEPT ![x] = {}] /\ links \in [Pids -> SUBSET Pids]
  BY ZenonT(30) DEF Reap, TypeInv, TypeOK, TableOK
<1>5. ASSUME NEW p \in Pids, NEW q \in links'[p] PROVE q \in links[p]
  BY <1>4, <1>5, ZenonT(30)
<1>6. LinkStep
  BY <1>1, <1>2, ZenonT(30) DEF LinkStep
<1> QED
  BY <1>3, <1>5, <1>6, LinksType, ZenonT(30) DEF LinksKnown

\* spawn_inner links two processes of the table.
LEMMA InsertLinks ==
  ASSUME TypeInv, Settled, LinksKnown, NEW c \in Cores, SpawnInsert(c)
  PROVE  LinkStep /\ LinksKnown'
<1> DEFINE n == new[c].pid
           me == cur[c]
<1>1. /\ n \in Pids /\ status'[n] = "Runnable" /\ LinkStep /\ \A p \in Pids : Ages(p)
  BY InsertStates, NoneRemoved, ZenonT(30)
<1>2. me \in Pids /\ status[me] \in {"Running", "Dead"}
  BY OwnerFacts, ZenonT(30) DEF SpawnInsert
<1>3. ASSUME NEW p \in Pids, status[p] \notin {"none", "alloc"} PROVE status'[p] \notin {"none", "alloc"}
  BY <1>1, <1>3, ZenonT(30) DEF Ages, Present
<1>4. links' = links \/ links' = [links EXCEPT ![n] = {me}, ![me] = @ \cup {n}]
  BY ZenonT(30) DEF SpawnInsert
<1>5. links \in [Pids -> SUBSET Pids]
  BY ZenonT(30) DEF TypeInv, TypeOK, TableOK
<1>6. ASSUME NEW p \in Pids, NEW q \in links'[p] PROVE q \in links[p] \/ q = n \/ q = me
  BY <1>1, <1>2, <1>4, <1>5, <1>6
<1>7. status'[n] \notin {"none", "alloc"} /\ status'[me] \notin {"none", "alloc"}
  BY <1>1, <1>2, <1>3, ZenonT(30)
<1> QED
  BY <1>1, <1>3, <1>6, <1>7, LinksType, ZenonT(30) DEF LinksKnown

LEMMA LinksNext == TypeInv /\ Settled /\ LinksKnown /\ [Next]_vars => LinksKnown' /\ [LinkStep]_vars
<1> SUFFICES ASSUME TypeInv, Settled, LinksKnown, [Next]_vars PROVE LinksKnown' /\ (LinkStep \/ UNCHANGED vars)
  BY ZenonT(30)
<1>1. ASSUME UNCHANGED <<status, links>> PROVE LinkStep /\ LinksKnown'
  BY <1>1, NoneRemoved, ZenonT(30) DEF Ages
<1>2. ASSUME links' = links, \A p \in Pids : Ages(p) PROVE LinkStep /\ LinksKnown'
  BY <1>2, NoneRemoved, ZenonT(30)
<1>3. ASSUME NEW c \in Cores, Dispatch(c) \/ PostSwitch(c) PROVE LinkStep /\ LinksKnown'
  BY <1>2, <1>3, DispatchStates, ReapLinks, ZenonT(30)
<1>4. ASSUME NEW c \in Cores, Finalize(c) PROVE LinkStep /\ LinksKnown'
  BY <1>1, <1>4, ZenonT(30) DEF Finalize, table_vars
<1>5. ASSUME NEW c \in Cores, NEW p \in Pids, SpawnTake(c, p) PROVE LinkStep /\ LinksKnown'
  BY <1>5, NoneRemoved, ZenonT(30) DEF SpawnTake, Ages, TypeInv, TypeOK, TableOK
<1>6. ASSUME NEW c \in Cores, Scheduler(c) PROVE LinkStep /\ LinksKnown'
  BY <1>1, <1>2, <1>3, <1>4, <1>6, StillActions, MovingActions, ZenonT(30) DEF Scheduler
<1>7. ASSUME NEW c \in Cores, InKernel(c) PROVE LinkStep /\ LinksKnown'
  <2>1. "error" \in Reasons
    BY DEF Reasons
  <2> QED
    BY <1>1, <1>2, <1>5, <1>7, <2>1, StillActions, MovingActions, InsertLinks, ZenonT(30) DEF InKernel
<1>8. ASSUME NEW c \in Cores, Body(c) PROVE LinkStep /\ LinksKnown'
  BY <1>1, <1>2, <1>8, StillActions, MovingActions, ZenonT(30) DEF Body
<1>9. CASE UNCHANGED vars
  BY <1>1, <1>9, ZenonT(30) DEF vars, table_vars
<1> QED
  BY <1>1, <1>6, <1>7, <1>8, <1>9, StillActions, ZenonT(30) DEF Next

-----------------------------------------------------------------------------
(* Blocking receives. *)

\* The core has left, or is leaving, a process that asked to block.
Parked(c) == pc[c] \in {"switch", "out"} /\ post_switch[c] = 2
\* The core is inside recv_where.
InRecv(c) == pc[c] \in {"recv", "park"} \/ Parked(c)

\* The inductive invariant: whoever waits, or is about to, is inside recv_where, and
\* only a core that switches away from a process has a deferred transition.
Blocked ==
  /\ NoLostWakeup
  /\ \A c \in Cores : InRecv(c) => cur[c] \in receiving
  /\ \A c \in Cores : pc[c] \notin {"switch", "out"} => post_switch[c] = 0

\* Who waits after the step is inside recv_where and has no mail.
WaitsClean == \A p \in Pids : status'[p] = "Waiting" => p \in receiving' /\ mailbox'[p] = <<>>

LEMMA BlockedStep ==
  ASSUME Blocked, NEW c \in Cores, StepOf(c), WaitsClean,
         pc'[c] \notin {"switch", "out"} => post_switch'[c] = 0,
         InRecv(c)' => cur'[c] \in receiving',
         \A d \in Cores \ {c} : InRecv(d) => cur[d] \in receiving'
  PROVE  Blocked'
<1>1. ASSUME NEW d \in Cores \ {c} PROVE InRecv(d)' <=> InRecv(d)
  BY ZenonT(30) DEF StepOf, InRecv, Parked
<1>2. ASSUME NEW d \in Cores PROVE InRecv(d)' => cur'[d] \in receiving'
  BY <1>1, ZenonT(30) DEF StepOf
<1>3. ASSUME NEW d \in Cores PROVE pc'[d] \notin {"switch", "out"} => post_switch'[d] = 0
  BY ZenonT(30) DEF StepOf, Blocked
<1> QED
  BY <1>2, <1>3, ZenonT(30) DEF Blocked, WaitsClean, NoLostWakeup

\* A core that does not switch: it goes to l, or stays.
LEMMA BlockedWalk ==
  ASSUME TypeInv, Blocked, NEW c \in Cores, NEW l, NEW x, NEW n, Goto(c, l), l \notin {"switch", "out"},
         pc[c] \notin {"switch", "out"}, UNCHANGED post_switch, receiving \subseteq receiving', WaitsClean,
         cur' = cur \/ cur' = [cur EXCEPT ![c] = x],
         new' = new \/ new' = [new EXCEPT ![c] = n],
         l \in {"recv", "park"} => cur'[c] \in receiving'
  PROVE  Blocked'
<1>1. StepOf(c)
  BY GotoStep, ZenonT(30)
<1>2. pc'[c] = l
  BY ZenonT(30) DEF TypeInv, TypeOK, CoreOK, Goto
<1>3. post_switch'[c] = 0
  BY ZenonT(30) DEF Blocked
<1>4. InRecv(c)' => cur'[c] \in receiving'
  BY <1>2, ZenonT(30) DEF InRecv, Parked
<1> QED
  BY <1>1, <1>3, <1>4, BlockedStep, ZenonT(30) DEF Blocked

LEMMA BlockedStay ==
  ASSUME Blocked, NEW c \in Cores, UNCHANGED <<pc, cur, new, post_switch>>, receiving \subseteq receiving', WaitsClean
  PROVE  Blocked'
BY ZenonT(30) DEF Blocked, WaitsClean, NoLostWakeup, InRecv, Parked

LEMMA QuietWaits ==
  ASSUME Blocked, UNCHANGED <<status, mailbox, receiving>>
  PROVE  WaitsClean
BY ZenonT(30) DEF Blocked, NoLostWakeup, WaitsClean

\* The scheduler between two processes.
LEMMA BlockedIdle ==
  ASSUME TypeInv, Blocked, NEW c \in Cores,
         \/ CheckWheel(c) \/ PopFront(c) \/ Steal(c) \/ Halt(c) \/ Resume(c) \/ Finalize(c)
         \/ SwitchIn(c) \/ WakeSleepers(c)
  PROVE  Blocked'
<1> USE DEF table_vars, recv_vars, local_vars, core_vars
<1>1. Top(c) \notin {"switch", "out", "recv", "park"}
  BY PcFacts
<1>2. CASE CheckWheel(c) \/ Halt(c) \/ Resume(c)
  BY <1>1, <1>2, QuietWaits, BlockedWalk, ZenonT(30) DEF CheckWheel, Halt, Resume
<1>3. CASE PopFront(c)
  BY <1>3, QuietWaits, BlockedWalk, ZenonT(30) DEF PopFront
<1>4. CASE Steal(c)
  BY <1>4, QuietWaits, BlockedWalk, ZenonT(30) DEF Steal
<1>5. CASE Finalize(c)
  BY <1>1, <1>5, QuietWaits, BlockedWalk, ZenonT(30) DEF Finalize
<1>6. CASE SwitchIn(c)
  BY <1>6, QuietWaits, BlockedWalk, ZenonT(30) DEF SwitchIn
<1>7. CASE WakeSleepers(c)
  <2>1. WaitsClean
    BY <1>7, ZenonT(30) DEF WakeSleepers, WaitsClean, Blocked, NoLostWakeup
  <2> QED
    BY <1>7, <2>1, BlockedWalk, ZenonT(30) DEF WakeSleepers
<1> QED
  BY <1>2, <1>3, <1>4, <1>5, <1>6, <1>7, ZenonT(30)

\* A process that goes on, and interrupts.
LEMMA BlockedBusy ==
  ASSUME TypeInv, Blocked, NEW c \in Cores,
         \/ SpawnEnqueue(c) \/ SpawnMonitor(c) \/ (\E link \in BOOLEAN : Spawn(c, link))
         \/ RecvQuota(c) \/ RecvBlock(c) \/ Grow(c) \/ Tick(c) \/ WakeIpi(c)
         \/ (\E k \in Preds, t \in Timeouts \cup {NoDeadline} : RecvCall(c, k, t))
  PROVE  Blocked'
<1> USE DEF table_vars, recv_vars, local_vars, core_vars
<1>1. CASE SpawnEnqueue(c) \/ SpawnMonitor(c) \/ \E link \in BOOLEAN : Spawn(c, link)
  BY <1>1, QuietWaits, BlockedWalk, ZenonT(30) DEF SpawnEnqueue, SpawnMonitor, Spawn, InBody
<1>2. CASE RecvQuota(c)
  BY <1>2, QuietWaits, BlockedWalk, ZenonT(30) DEF RecvQuota
<1>3. CASE RecvBlock(c)
  <2>1. pc[c] = "recv" /\ cur[c] \in receiving
    BY <1>3, ZenonT(30) DEF RecvBlock, NoMatch, Blocked, InRecv
  <2> QED
    BY <1>3, <2>1, QuietWaits, BlockedWalk, ZenonT(30) DEF RecvBlock
<1>4. CASE Grow(c)
  BY <1>4, QuietWaits, BlockedStay, ZenonT(30) DEF Grow
<1>5. CASE Tick(c) \/ WakeIpi(c)
  <2>1. /\ UNCHANGED <<status, mailbox, receiving, cur, new, post_switch>>
        /\ pc'[c] = AfterInterrupt(c) /\ \A d \in Cores \ {c} : pc'[d] = pc[d]
    BY <1>5, ZenonT(30) DEF Tick, WakeIpi, Goto, TypeInv, TypeOK, CoreOK
  <2>2. pc'[c] = pc[c] \/ (pc'[c] = "woken" /\ pc[c] = "halted")
    BY <2>1, ZenonT(30) DEF AfterInterrupt
  <2>3. /\ StepOf(c) /\ WaitsClean /\ (InRecv(c)' => InRecv(c))
        /\ (pc'[c] \notin {"switch", "out"} => post_switch'[c] = 0)
    BY <2>1, <2>2, QuietWaits, ZenonT(30) DEF StepOf, InRecv, Parked, Blocked
  <2> QED
    BY <2>1, <2>3, BlockedStep, ZenonT(30) DEF Blocked
<1>6. CASE \E k \in Preds, t \in Timeouts \cup {NoDeadline} : RecvCall(c, k, t)
  <2>1. /\ UNCHANGED <<status, mailbox, cur, new, post_switch>> /\ Goto(c, "recv") /\ pc[c] = "user"
        /\ receiving' = receiving \cup {cur[c]}
    BY <1>6, ZenonT(30) DEF RecvCall, InBody
  <2>2. WaitsClean
    BY <2>1, ZenonT(30) DEF WaitsClean, Blocked, NoLostWakeup
  <2> QED
    BY <2>1, <2>2, BlockedWalk, ZenonT(30)
<1> QED
  BY <1>1, <1>2, <1>3, <1>4, <1>5, <1>6, ZenonT(30)

\* A process that switches away.
LEMMA BlockedLeave ==
  ASSUME TypeInv, Blocked, NEW c \in Cores, SwitchOut(c) \/ Park(c) \/ Yield(c)
  PROVE  Blocked'
<1> USE DEF table_vars, recv_vars, local_vars, core_vars
<1>1. WaitsClean /\ UNCHANGED receiving /\ StepOf(c)
  BY QuietWaits, GotoStep, ZenonT(30) DEF SwitchOut, Park, Yield
<1>2. pc'[c] \in {"switch", "out"} /\ cur' = cur
  BY ZenonT(30) DEF SwitchOut, Park, Yield, Goto, TypeInv, TypeOK, CoreOK
<1>3. InRecv(c)' => InRecv(c)
  <2>1. CASE SwitchOut(c)
    BY <1>2, <2>1, ZenonT(30) DEF SwitchOut, InRecv, Parked
  <2>2. CASE Park(c)
    BY <2>2, ZenonT(30) DEF Park, InRecv
  <2>3. CASE Yield(c)
    <3>1. post_switch'[c] = 1
      BY <2>3, ZenonT(30) DEF Yield, TypeInv, TypeOK, CoreOK
    <3> QED
      BY <1>2, <3>1 DEF InRecv, Parked
  <2> QED
    BY <2>1, <2>2, <2>3, ZenonT(30)
<1> QED
  BY <1>1, <1>2, <1>3, BlockedStep, ZenonT(30) DEF Blocked

\* recv_where returns.
LEMMA BlockedReturn ==
  ASSUME TypeInv, Settled, Blocked, NEW c \in Cores, RecvMatch(c) \/ RecvTimeout(c)
  PROVE  Blocked'
<1> DEFINE p == cur[c]
<1>1. /\ pc[c] = "recv" /\ Goto(c, "user") /\ UNCHANGED <<status, cur, new, post_switch>>
      /\ receiving' = receiving \ {p}
      /\ \A q \in Pids \ {p} : mailbox'[q] = mailbox[q]
  BY ZenonT(30) DEF RecvMatch, RecvTimeout, NoMatch, RecvDone, table_vars, local_vars, TypeInv, TypeOK, TableOK
<1>2. /\ p \in Pids /\ status[p] \in {"Running", "Dead"}
      /\ \A d \in Cores : pc[d] \in Owning /\ cur[d] = p => d = c
  BY <1>1, OwnerFacts, ZenonT(30)
<1>3. ASSUME NEW d \in Cores \ {c}, InRecv(d) PROVE cur[d] \in receiving'
  <2>1. pc[d] \in Owning
    BY <1>3, PcFacts DEF InRecv, Parked
  <2> QED
    BY <1>1, <1>2, <1>3, <2>1, ZenonT(30) DEF Blocked
<1>4. WaitsClean
  <2>1. ASSUME NEW q \in Pids, status'[q] = "Waiting" PROVE q # p /\ status[q] = "Waiting"
    BY <1>1, <1>2, <2>1, ZenonT(30)
  <2> QED
    BY <1>1, <2>1, ZenonT(30) DEF WaitsClean, Blocked, NoLostWakeup
<1>5. StepOf(c) /\ pc'[c] = "user" /\ post_switch'[c] = 0
  BY <1>1, GotoStep, ZenonT(30) DEF Goto, TypeInv, TypeOK, CoreOK, Blocked
<1>6. ~InRecv(c)'
  BY <1>5, ZenonT(30) DEF InRecv, Parked
<1> QED
  BY <1>3, <1>4, <1>5, <1>6, BlockedStep, ZenonT(30)

\* A process that dies on its core.
LEMMA BlockedDies ==
  ASSUME TypeInv, Blocked, NEW c \in Cores, RecvKilled(c) \/ Fatal(c) \/ \E why \in Reasons : Exit(c, why)
  PROVE  Blocked'
<1>1. /\ UNCHANGED <<mailbox, receiving, cur, new, post_switch>> /\ Goto(c, "switch")
      /\ status' = [status EXCEPT ![cur[c]] = "Dead"] /\ pc[c] \in {"recv", "user", "switch", "quota"}
  BY ZenonT(30) DEF RecvKilled, Fatal, Exit, InBody, recv_vars, local_vars
<1>2. WaitsClean
  BY <1>1, ZenonT(30) DEF WaitsClean, Blocked, NoLostWakeup, TypeInv, TypeOK, TableOK
<1>3. StepOf(c) /\ pc'[c] = "switch"
  BY <1>1, GotoStep, ZenonT(30) DEF Goto, TypeInv, TypeOK, CoreOK
<1>4. InRecv(c)' => InRecv(c)
  <2>1. CASE pc[c] = "switch"
    BY <1>1, <1>3, <2>1, ZenonT(30) DEF InRecv, Parked
  <2>2. CASE pc[c] # "switch"
    <3>1. post_switch'[c] = 0
      BY <1>1, <2>2, ZenonT(30) DEF Blocked
    <3> QED
      BY <1>3, <3>1 DEF InRecv, Parked
  <2> QED
    BY <2>1, <2>2, ZenonT(30)
<1> QED
  BY <1>1, <1>2, <1>3, <1>4, BlockedStep, ZenonT(30) DEF Blocked

\* Messages and kills from elsewhere, and spawns.
LEMMA BlockedOthers ==
  ASSUME TypeInv, Settled, Blocked, NEW c \in Cores,
         \/ (\E p \in Pids : Kill(c, p) \/ Monitor(c, p) \/ SpawnTake(c, p) \/ \E k \in Kinds : Send(c, p, k))
         \/ SpawnInsert(c)
  PROVE  Blocked'
<1> USE DEF table_vars, recv_vars, local_vars, core_vars
<1>1. ASSUME NEW p \in Pids, NEW m, Deliver(c, p, m), UNCHANGED receiving PROVE WaitsClean
  BY <1>1, ZenonT(30) DEF Deliver, WaitsClean, Blocked, NoLostWakeup, Alive, TypeInv, TypeOK, TableOK
<1>2. ASSUME NEW p \in Pids, Kill(c, p) PROVE Blocked'
  <2>1. WaitsClean
    BY <1>2, ZenonT(30) DEF Kill, MarkDead, OffCpu, WaitsClean, Blocked, NoLostWakeup, TypeInv, TypeOK, TableOK
  <2> QED
    BY <1>2, <2>1, BlockedStay, ZenonT(30) DEF Kill
<1>3. ASSUME NEW p \in Pids, Monitor(c, p) PROVE Blocked'
  <2>1. cur[c] \in Pids
    BY <1>3, OwnerFacts, ZenonT(30) DEF Monitor, InBody
  <2>2. WaitsClean
    BY <1>1, <1>3, <2>1, QuietWaits, ZenonT(30) DEF Monitor
  <2> QED
    BY <1>3, <2>2, BlockedStay, ZenonT(30) DEF Monitor
<1>4. ASSUME NEW p \in Pids, NEW k \in Kinds, Send(c, p, k) PROVE Blocked'
  <2>1. WaitsClean
    BY <1>1, <1>4, ZenonT(30) DEF Send
  <2> QED
    BY <1>4, <2>1, BlockedStay, ZenonT(30) DEF Send
<1>5. ASSUME NEW p \in Pids, SpawnTake(c, p) PROVE Blocked'
  <2>1. WaitsClean
    BY <1>5, ZenonT(30) DEF SpawnTake, WaitsClean, Blocked, NoLostWakeup, TypeInv, TypeOK, TableOK
  <2> QED
    BY <1>5, <2>1, BlockedWalk, ZenonT(30) DEF SpawnTake
<1>6. CASE SpawnInsert(c)
  <2>1. WaitsClean
    BY <1>6, ZenonT(30) DEF SpawnInsert, WaitsClean, Blocked, NoLostWakeup, TypeInv, TypeOK, TableOK
  <2> QED
    BY <1>6, <2>1, BlockedWalk, ZenonT(30) DEF SpawnInsert
<1> QED
  BY <1>2, <1>3, <1>4, <1>5, <1>6, ZenonT(30)

\* reap: a watcher that gets mail no longer waits.
LEMMA ReapWaits ==
  ASSUME TypeInv, Blocked, NEW c \in Cores, NEW x \in Pids, Reap(c, x)
  PROVE  WaitsClean /\ receiving' = receiving \ {x}
<1>1. ASSUME NEW q \in Pids, status'[q] = "Waiting" PROVE q # x /\ status[q] = "Waiting"
  BY <1>1, ReapStates, ZenonT(30)
<1>2. ASSUME NEW q \in Pids, status'[q] = "Waiting" PROVE q \notin Watching(x)
  <2>1. status'[q] # "Runnable" /\ status'[q] # "Dead"
    BY <1>2, ZenonT(30)
  <2> QED
    BY <1>1, <1>2, <2>1, ZenonT(30) DEF Reap, Woken
<1>3. ASSUME NEW q \in Pids, status'[q] = "Waiting" PROVE mailbox'[q] = mailbox[q]
  BY <1>1, <1>2, <1>3, ZenonT(30) DEF Reap
<1>4. receiving' = receiving \ {x}
  BY ZenonT(30) DEF Reap, RecvDone
<1> QED
  BY <1>1, <1>3, <1>4, ZenonT(30) DEF WaitsClean, Blocked, NoLostWakeup

LEMMA BlockedDispatch ==
  ASSUME TypeInv, Settled, Blocked, NEW c \in Cores, Dispatch(c)
  PROVE  Blocked'
<1> DEFINE x == cur[c]
<1>1. pc[c] = "dispatch" /\ UNCHANGED <<post_switch, new>> /\ x \in Pids
  BY PcFacts, ZenonT(30) DEF Dispatch, TypeInv, CurOK
<1>2. CASE status[x] = "Dead"
  <2>1. Reap(c, x) /\ Goto(c, "finalize") /\ cur' = cur
    BY <1>2, ZenonT(30) DEF Dispatch
  <2>2. WaitsClean /\ receiving' = receiving \ {x}
    BY <1>1, <2>1, ReapWaits, ZenonT(30)
  <2>3. StepOf(c) /\ pc'[c] = "finalize" /\ post_switch'[c] = 0
    BY <1>1, <2>1, GotoStep, ZenonT(30) DEF Goto, TypeInv, TypeOK, CoreOK, Blocked
  <2>4. ~InRecv(c)'
    BY <2>3, ZenonT(30) DEF InRecv, Parked
  <2>5. ASSUME NEW d \in Cores \ {c}, InRecv(d) PROVE cur[d] \in receiving'
    <3>1. pc[d] \in Owning
      BY <2>5, PcFacts DEF InRecv, Parked
    <3>2. cur[d] # x
      BY <1>1, <3>1, ZenonT(30) DEF Settled, Owns
    <3> QED
      BY <2>2, <2>5, <3>2, ZenonT(30) DEF Blocked
  <2> QED
    BY <2>2, <2>3, <2>4, <2>5, BlockedStep, ZenonT(30)
<1>3. CASE status[x] = "Runnable"
  <2>1. /\ Goto(c, "enter") /\ status' = [status EXCEPT ![x] = "Running"]
        /\ UNCHANGED <<mailbox, receiving, cur>>
    BY <1>3, ZenonT(30) DEF Dispatch, recv_vars
  <2>2. WaitsClean
    BY <1>1, <2>1, ZenonT(30) DEF WaitsClean, Blocked, NoLostWakeup, TypeInv, TypeOK, TableOK
  <2> QED
    BY <1>1, <2>1, <2>2, BlockedWalk, ZenonT(30)
<1>4. CASE status[x] \notin {"Dead", "Runnable"}
  <2>1. /\ Goto(c, Top(c)) /\ UNCHANGED <<status, mailbox, receiving>> /\ cur' = [cur EXCEPT ![c] = NoPid]
    BY <1>4, ZenonT(30) DEF Dispatch, recv_vars, table_vars
  <2>2. Top(c) \notin {"switch", "out", "recv", "park"}
    BY PcFacts
  <2> QED
    BY <1>1, <2>1, <2>2, QuietWaits, BlockedWalk, ZenonT(30)
<1> QED
  BY <1>2, <1>3, <1>4, ZenonT(30)

LEMMA BlockedPostSwitch ==
  ASSUME TypeInv, Settled, Blocked, NEW c \in Cores, PostSwitch(c)
  PROVE  Blocked'
<1> DEFINE x == cur[c]
<1>1. /\ pc[c] = "out" /\ UNCHANGED new /\ post_switch' = [post_switch EXCEPT ![c] = 0]
      /\ post_switch'[c] = 0
  BY ZenonT(30) DEF PostSwitch, TypeInv, TypeOK, CoreOK
<1>2. /\ x \in Pids /\ status[x] \in {"Running", "Dead"}
      /\ \A d \in Cores : pc[d] \in Owning /\ cur[d] = x => d = c
  BY <1>1, OwnerFacts, ZenonT(30)
<1>3. ASSUME NEW d \in Cores \ {c}, InRecv(d) PROVE cur[d] \in receiving \ {x}
  <2>1. pc[d] \in Owning
    BY <1>3, PcFacts DEF InRecv, Parked
  <2> QED
    BY <1>2, <1>3, <2>1, ZenonT(30) DEF Blocked
<1>4. CASE Doomed(c)
  <2>1. Reap(c, x) /\ Goto(c, "finalize") /\ cur' = cur
    BY <1>4, ZenonT(30) DEF PostSwitch
  <2>2. WaitsClean /\ receiving' = receiving \ {x}
    BY <1>2, <2>1, ReapWaits, ZenonT(30)
  <2>3. StepOf(c) /\ pc'[c] = "finalize"
    BY <1>1, <2>1, GotoStep, ZenonT(30) DEF Goto, TypeInv, TypeOK, CoreOK
  <2>4. ~InRecv(c)'
    BY <2>3, ZenonT(30) DEF InRecv, Parked
  <2> QED
    BY <1>1, <1>3, <2>2, <2>3, <2>4, BlockedStep, ZenonT(30)
<1>5. CASE ~Doomed(c)
  <2>1. /\ \/ status' = status
           \/ status' = [status EXCEPT ![x] = Deferred(c)]
        /\ UNCHANGED <<mailbox, receiving>> /\ Goto(c, Top(c)) /\ cur' = [cur EXCEPT ![c] = NoPid]
    BY <1>5, ZenonT(30) DEF PostSwitch, recv_vars
  <2>2. Top(c) \notin {"switch", "out", "recv", "park"}
    BY PcFacts
  <2>3. StepOf(c) /\ pc'[c] = Top(c)
    BY <1>1, <2>1, GotoStep, ZenonT(30) DEF Goto, TypeInv, TypeOK, CoreOK
  <2>4. ~InRecv(c)'
    BY <2>2, <2>3, ZenonT(30) DEF InRecv, Parked
  <2>5. Deferred(c) = "Waiting" => x \in receiving /\ mailbox[x] = <<>>
    BY <1>1, ZenonT(30) DEF Deferred, Blocked, InRecv, Parked
  <2>6. WaitsClean
    <3>1. ASSUME NEW q \in Pids, status'[q] = "Waiting" PROVE status[q] = "Waiting" \/ (q = x /\ Deferred(c) = "Waiting")
      BY <1>2, <2>1, <3>1, ZenonT(30) DEF TypeInv, TypeOK, TableOK
    <3> QED
      BY <2>1, <2>5, <3>1, ZenonT(30) DEF WaitsClean, Blocked, NoLostWakeup
  <2> QED
    BY <1>1, <1>3, <2>1, <2>3, <2>4, <2>6, BlockedStep, ZenonT(30)
<1> QED
  BY <1>4, <1>5, ZenonT(30)

LEMMA BlockedNext == TypeInv /\ Settled /\ Blocked /\ [Next]_vars => Blocked'
<1> SUFFICES ASSUME TypeInv, Settled, Blocked, [Next]_vars PROVE Blocked'
  OBVIOUS
<1>1. ASSUME NEW c \in Cores, Scheduler(c) PROVE Blocked'
  BY <1>1, BlockedIdle, BlockedLeave, BlockedDispatch, BlockedPostSwitch, ZenonT(30) DEF Scheduler
<1>2. ASSUME NEW c \in Cores, InKernel(c) PROVE Blocked'
  <2>1. "error" \in Reasons
    BY DEF Reasons
  <2> QED
    BY <1>2, <2>1, BlockedBusy, BlockedLeave, BlockedReturn, BlockedDies, BlockedOthers, ZenonT(30) DEF InKernel
<1>3. ASSUME NEW c \in Cores, Body(c) PROVE Blocked'
  BY <1>3, BlockedBusy, BlockedDies, BlockedOthers, ZenonT(30) DEF Body
<1>4. CASE UNCHANGED vars
  BY <1>4, ZenonT(30) DEF vars, table_vars, recv_vars, core_vars, local_vars, Blocked, NoLostWakeup, InRecv, Parked
<1> QED
  BY <1>1, <1>2, <1>3, <1>4, BlockedBusy, BlockedLeave, ZenonT(30) DEF Next

-----------------------------------------------------------------------------
(* The invariants hold when the kernel starts its first process. *)

LEMMA LivesInit == Init => Stacked /\ LinksKnown /\ Blocked
<1> SUFFICES ASSUME Init PROVE Stacked /\ LinksKnown /\ Blocked
  OBVIOUS
<1>1. \A c \in Cores : pc[c] \in {"top", "pop"} /\ post_switch[c] = 0
  BY ZenonT(30) DEF Init, Top
<1>2. \A p \in Pids : status[p] = IF p = Root THEN "Runnable" ELSE "none"
  BY ZenonT(30) DEF Init
<1>3. Stacked
  <2>1. mapped = {Root}
    BY ZenonT(30) DEF Init
  <2> QED
    BY <1>1, <1>2, <2>1 DEF Stacked, Present
<1>4. LinksKnown
  BY ZenonT(30) DEF Init, LinksKnown
<1>5. Blocked
  BY <1>1, <1>2, ZenonT(30) DEF Blocked, NoLostWakeup, InRecv, Parked
<1> QED
  BY <1>3, <1>4, <1>5

-----------------------------------------------------------------------------
(* Timers. *)

\* The timer of p is on the list that check_wheel is about to wake, or in the wheel.
Armed(p) == p \in due \/ \E e \in wheel : e[2] = p /\ (e[1] <= deadline[p] \/ e[1] <= 1)
\* p waits, or will once the core that left it has done its deferred transition.
Sleeps(p) == status[p] = "Waiting" \/ (status[p] = "Running" /\ \E c \in Cores : Parked(c) /\ cur[c] = p)

\* The inductive invariant: the entry is in the wheel before the block, and only
\* the BSP takes entries out.
Alarmed ==
  /\ \A p \in Pids : Sleeps(p) /\ deadline[p] # NoDeadline => Armed(p)
  /\ \A c \in Cores : pc[c] \in {"top", "wheel"} => c = Bsp
  /\ pc[Bsp] # "wheel" => due = {}

\* After the step core c is in the loop of the BSP only if it is the BSP.
KeepsWheel(c) == /\ pc'[c] \in {"top", "wheel"} => c = Bsp
                 /\ pc[c] = "wheel" => pc'[c] = "wheel"
\* Nobody goes to sleep, and a sleeper keeps its deadline or loses it.
NoneSleeps == \A p \in Pids : Sleeps(p)' /\ deadline'[p] # NoDeadline => Sleeps(p) /\ deadline'[p] = deadline[p]
\* Nobody starts to wait or to run.
Calm == \A p \in Pids : status'[p] = status[p] \/ status'[p] \notin {"Waiting", "Running"}

LEMMA AlarmedStep ==
  ASSUME Alarmed, NEW c \in Cores, StepOf(c), UNCHANGED <<wheel, due>>, KeepsWheel(c), NoneSleeps
  PROVE  Alarmed'
<1>1. ASSUME NEW p \in Pids, Sleeps(p)', deadline'[p] # NoDeadline PROVE Armed(p)'
  <2>1. Armed(p) /\ deadline'[p] = deadline[p]
    BY <1>1, ZenonT(30) DEF Alarmed, NoneSleeps
  <2> QED
    BY <2>1, ZenonT(30) DEF Armed
<1>2. ASSUME NEW d \in Cores PROVE /\ pc'[d] \in {"top", "wheel"} => d = Bsp
                                   /\ pc[d] = "wheel" => pc'[d] = "wheel"
  BY ZenonT(30) DEF StepOf, KeepsWheel, Alarmed
<1>3. pc'[Bsp] # "wheel" => due' = {}
  BY <1>2, BspIsCore, ZenonT(30) DEF Alarmed, Bsp
<1> QED
  BY <1>1, <1>2, <1>3, ZenonT(30) DEF Alarmed

\* A step after which core c has left no one it had not left before.
LEMMA CalmSleeps ==
  ASSUME NEW c \in Cores, StepOf(c), Calm, Parked(c)' => Parked(c) /\ cur'[c] = cur[c]
  PROVE  \A p \in Pids : Sleeps(p)' => Sleeps(p)
<1>1. ASSUME NEW d \in Cores, Parked(d)' PROVE Parked(d) /\ cur'[d] = cur[d]
  BY <1>1, ZenonT(30) DEF StepOf, Parked
<1> QED
  BY <1>1, ZenonT(30) DEF Sleeps, Calm

LEMMA AlarmedCalm ==
  ASSUME TypeInv, Alarmed, NEW c \in Cores, NEW x, StepOf(c), UNCHANGED <<wheel, due>>, KeepsWheel(c), Calm,
         Parked(c)' => Parked(c) /\ cur'[c] = cur[c],
         deadline' = deadline \/ deadline' = [deadline EXCEPT ![x] = NoDeadline]
  PROVE  Alarmed'
<1>1. ASSUME NEW p \in Pids, deadline'[p] # NoDeadline PROVE deadline'[p] = deadline[p]
  BY <1>1, ZenonT(30) DEF TypeInv, TypeOK, FrameOK
<1>2. NoneSleeps
  BY <1>1, CalmSleeps, ZenonT(30) DEF NoneSleeps
<1> QED
  BY <1>2, AlarmedStep, ZenonT(30)

\* A core that goes to l and does not switch.
LEMMA AlarmedWalk ==
  ASSUME TypeInv, Alarmed, NEW c \in Cores, NEW l, NEW x, NEW n, NEW y, Goto(c, l),
         l \notin {"switch", "out", "wheel"}, l = "top" => c = Bsp, pc[c] # "wheel",
         UNCHANGED <<wheel, due, post_switch>>, Calm,
         cur' = cur \/ cur' = [cur EXCEPT ![c] = x],
         new' = new \/ new' = [new EXCEPT ![c] = n],
         deadline' = deadline \/ deadline' = [deadline EXCEPT ![y] = NoDeadline]
  PROVE  Alarmed'
<1>1. StepOf(c)
  BY GotoStep, ZenonT(30)
<1>2. pc'[c] = l
  BY ZenonT(30) DEF TypeInv, TypeOK, CoreOK, Goto
<1>3. KeepsWheel(c) /\ ~Parked(c)'
  BY <1>2, ZenonT(30) DEF KeepsWheel, Parked
<1> QED
  BY <1>1, <1>3, AlarmedCalm, ZenonT(30)

LEMMA Still == UNCHANGED status => Calm
BY ZenonT(30) DEF Calm

\* The scheduler between two processes, and what a process does in the kernel.
LEMMA AlarmedWalks ==
  ASSUME TypeInv, Settled, Alarmed, NEW c \in Cores,
         \/ PopFront(c) \/ Steal(c) \/ Halt(c) \/ Resume(c) \/ Finalize(c) \/ SwitchIn(c)
         \/ SpawnEnqueue(c) \/ SpawnMonitor(c) \/ (\E link \in BOOLEAN : Spawn(c, link))
         \/ RecvQuota(c) \/ RecvBlock(c) \/ RecvMatch(c) \/ RecvTimeout(c)
         \/ SpawnInsert(c) \/ (\E p \in Pids : SpawnTake(c, p))
  PROVE  Alarmed'
<1> USE DEF table_vars, recv_vars, local_vars, core_vars, timer_vars
<1>1. Top(c) \notin {"switch", "out", "wheel"} /\ (Top(c) = "top" => c = Bsp)
  BY PcFacts DEF Top
<1>2. CASE PopFront(c)
  BY <1>2, Still, AlarmedWalk, ZenonT(30) DEF PopFront
<1>3. CASE Steal(c)
  BY <1>3, Still, AlarmedWalk, ZenonT(30) DEF Steal
<1>4. CASE Halt(c) \/ Resume(c) \/ Finalize(c)
  BY <1>1, <1>4, Still, AlarmedWalk, ZenonT(30) DEF Halt, Resume, Finalize
<1>5. CASE SwitchIn(c) \/ SpawnEnqueue(c)
  BY <1>5, Still, AlarmedWalk, ZenonT(30) DEF SwitchIn, SpawnEnqueue
<1>6. CASE SpawnMonitor(c) \/ \E link \in BOOLEAN : Spawn(c, link)
  BY <1>6, Still, AlarmedWalk, ZenonT(30) DEF SpawnMonitor, Spawn, InBody
<1>7. CASE RecvQuota(c) \/ RecvBlock(c)
  BY <1>7, Still, AlarmedWalk, ZenonT(30) DEF RecvQuota, RecvBlock, NoMatch
<1>8. CASE RecvMatch(c) \/ RecvTimeout(c)
  <2>1. /\ pc[c] = "recv" /\ Goto(c, "user") /\ UNCHANGED <<status, cur, new, post_switch, wheel, due>>
        /\ deadline' = [deadline EXCEPT ![cur[c]] = NoDeadline]
    BY <1>8, ZenonT(30) DEF RecvMatch, RecvTimeout, NoMatch, RecvDone
  <2> QED
    BY <2>1, Still, AlarmedWalk, ZenonT(30)
<1>9. CASE SpawnInsert(c) \/ \E p \in Pids : SpawnTake(c, p)
  <2>1. Calm
    BY <1>9, ZenonT(30) DEF SpawnInsert, SpawnTake, Calm, TypeInv, TypeOK, TableOK
  <2> QED
    BY <1>9, <2>1, AlarmedWalk, ZenonT(30) DEF SpawnInsert, SpawnTake
<1> QED
  BY <1>2, <1>3, <1>4, <1>5, <1>6, <1>7, <1>8, <1>9, ZenonT(30)

\* Steps of a core that stays where it is.
LEMMA AlarmedStay ==
  ASSUME TypeInv, Settled, Alarmed, NEW c \in Cores,
         \/ Grow(c) \/ WakeIpi(c) \/ (Tick(c) /\ c # Bsp)
         \/ (\E p \in Pids : Kill(c, p) \/ Monitor(c, p) \/ \E k \in Kinds : Send(c, p, k))
  PROVE  Alarmed'
<1> USE DEF table_vars, recv_vars, local_vars, core_vars, timer_vars
<1>1. ASSUME UNCHANGED <<pc, cur, new, post_switch, wheel, due, deadline>>, Calm PROVE Alarmed'
  BY <1>1, AlarmedCalm, ZenonT(30) DEF StepOf, KeepsWheel, Parked, Alarmed
<1>2. CASE Grow(c)
  BY <1>1, <1>2, Still, ZenonT(30) DEF Grow
<1>3. CASE WakeIpi(c) \/ (Tick(c) /\ c # Bsp)
  <2>1. /\ UNCHANGED <<status, cur, new, post_switch, wheel, due, deadline>>
        /\ pc'[c] = AfterInterrupt(c) /\ \A d \in Cores \ {c} : pc'[d] = pc[d]
    BY <1>3, ZenonT(30) DEF Tick, WakeIpi, Goto, TypeInv, TypeOK, CoreOK
  <2>2. pc'[c] = pc[c] \/ (pc'[c] = "woken" /\ pc[c] = "halted")
    BY <2>1, ZenonT(30) DEF AfterInterrupt
  <2>3. StepOf(c) /\ KeepsWheel(c) /\ (Parked(c)' => Parked(c))
    BY <2>1, <2>2, ZenonT(30) DEF StepOf, KeepsWheel, Parked, Alarmed
  <2> QED
    BY <2>1, <2>3, Still, AlarmedCalm, ZenonT(30)
<1>4. ASSUME NEW p \in Pids, Kill(c, p) PROVE Alarmed'
  <2>1. Calm
    BY <1>4, ZenonT(30) DEF Kill, MarkDead, Calm, TypeInv, TypeOK, TableOK
  <2> QED
    BY <1>1, <1>4, <2>1, ZenonT(30) DEF Kill
<1>5. ASSUME NEW p \in Pids, NEW m, Deliver(c, p, m) PROVE Calm
  BY <1>5, ZenonT(30) DEF Deliver, Calm, TypeInv, TypeOK, TableOK
<1>6. ASSUME NEW p \in Pids, NEW k \in Kinds, Send(c, p, k) PROVE Alarmed'
  BY <1>1, <1>5, <1>6, ZenonT(30) DEF Send
<1>7. ASSUME NEW p \in Pids, Monitor(c, p) PROVE Alarmed'
  <2>1. cur[c] \in Pids
    BY <1>7, OwnerFacts, ZenonT(30) DEF Monitor, InBody
  <2>2. Calm
    BY <1>5, <1>7, <2>1, Still, ZenonT(30) DEF Monitor
  <2> QED
    BY <1>1, <1>7, <2>2, ZenonT(30) DEF Monitor
<1> QED
  BY <1>2, <1>3, <1>4, <1>6, <1>7, ZenonT(30)

\* A process that switches away without a deadline of its own, and one that dies.
LEMMA AlarmedLeave ==
  ASSUME TypeInv, Blocked, Alarmed, NEW c \in Cores,
         \/ SwitchOut(c) \/ Yield(c) \/ RecvKilled(c) \/ Fatal(c) \/ \E why \in Reasons : Exit(c, why)
  PROVE  Alarmed'
<1> USE DEF table_vars, recv_vars, local_vars, core_vars, timer_vars
<1>1. /\ UNCHANGED <<wheel, due, deadline, cur, new>> /\ pc'[c] \in {"switch", "out"}
      /\ pc[c] \in {"user", "recv", "quota", "switch"} /\ StepOf(c)
  <2>1. CASE SwitchOut(c) \/ Yield(c)
    BY <2>1, GotoStep, ZenonT(30) DEF SwitchOut, Yield, Goto, TypeInv, TypeOK, CoreOK
  <2>2. CASE RecvKilled(c) \/ Fatal(c) \/ \E why \in Reasons : Exit(c, why)
    BY <2>2, GotoStep, ZenonT(30) DEF RecvKilled, Fatal, Exit, InBody, Goto, TypeInv, TypeOK, CoreOK
  <2> QED
    BY <2>1, <2>2, ZenonT(30)
<1>2. Calm
  <2>1. status' = status \/ status' = [status EXCEPT ![cur[c]] = "Dead"]
    BY ZenonT(30) DEF SwitchOut, Yield, RecvKilled, Fatal, Exit
  <2> QED
    BY <2>1, ZenonT(30) DEF Calm, TypeInv, TypeOK, TableOK
<1>3. Parked(c)' => Parked(c)
  <2>1. post_switch' = post_switch \/ post_switch'[c] = 1
    BY ZenonT(30) DEF SwitchOut, Yield, RecvKilled, Fatal, Exit, TypeInv, TypeOK, CoreOK
  <2>2. pc[c] # "switch" => post_switch[c] = 0
    BY <1>1, ZenonT(30) DEF Blocked
  <2> QED
    BY <1>1, <2>1, <2>2, SMTT(30) DEF Parked
<1>4. KeepsWheel(c)
  BY <1>1, ZenonT(30) DEF KeepsWheel
<1> QED
  BY <1>1, <1>2, <1>3, <1>4, AlarmedCalm, ZenonT(30)

\* A process that calls recv_where is awake.
LEMMA AlarmedCall ==
  ASSUME TypeInv, Settled, Alarmed, NEW c \in Cores, NEW k, NEW t, RecvCall(c, k, t)
  PROVE  Alarmed'
<1>1. /\ pc[c] = "user" /\ Goto(c, "recv") /\ UNCHANGED <<status, cur, new, post_switch, wheel, due>>
      /\ deadline' = [deadline EXCEPT ![cur[c]] = t]
  BY ZenonT(30) DEF RecvCall, InBody, table_vars, local_vars, timer_vars
<1>2. /\ status[cur[c]] \in {"Running", "Dead"}
      /\ \A d \in Cores : pc[d] \in Owning /\ cur[d] = cur[c] => d = c
  BY <1>1, OwnerFacts, ZenonT(30)
<1>3. ~Sleeps(cur[c])
  <2>1. \A d \in Cores : Parked(d) => pc[d] \in Owning
    BY PcFacts DEF Parked
  <2> QED
    BY <1>1, <1>2, <2>1, ZenonT(30) DEF Sleeps, Parked
<1>4. StepOf(c) /\ pc'[c] = "recv"
  BY <1>1, GotoStep, ZenonT(30) DEF Goto, TypeInv, TypeOK, CoreOK
<1>5. \A p \in Pids : Sleeps(p)' => Sleeps(p)
  BY <1>1, <1>4, Still, CalmSleeps, ZenonT(30) DEF Parked
<1>6. NoneSleeps
  BY <1>1, <1>3, <1>5, ZenonT(30) DEF NoneSleeps, TypeInv, TypeOK, FrameOK
<1>7. KeepsWheel(c)
  BY <1>1, <1>4, ZenonT(30) DEF KeepsWheel
<1> QED
  BY <1>1, <1>4, <1>6, <1>7, AlarmedStep, ZenonT(30)

\* The deferred transition makes a process wait that was parked.
LEMMA AlarmedDispatch ==
  ASSUME TypeInv, Settled, Alarmed, NEW c \in Cores, Dispatch(c) \/ PostSwitch(c)
  PROVE  Alarmed'
<1> DEFINE x == cur[c]
<1>1. /\ UNCHANGED <<wheel, due>> /\ x \in Pids /\ StepOf(c) /\ KeepsWheel(c) /\ ~Parked(c)'
  <2>1. /\ pc[c] \in {"dispatch", "out"} /\ UNCHANGED <<wheel, due, new>>
        /\ post_switch' = post_switch \/ post_switch' = [post_switch EXCEPT ![c] = 0]
        /\ cur' = cur \/ cur' = [cur EXCEPT ![c] = NoPid]
        /\ Goto(c, "enter") \/ Goto(c, "finalize") \/ Goto(c, Top(c))
    BY ZenonT(30) DEF Dispatch, PostSwitch, timer_vars
  <2>2. StepOf(c)
    BY <2>1, GotoStep, ZenonT(30)
  <2>3. pc'[c] \in {"enter", "finalize", Top(c)}
    BY <2>1, ZenonT(30) DEF Goto, TypeInv, TypeOK, CoreOK
  <2>4. Top(c) \notin {"switch", "out", "wheel"} /\ (Top(c) = "top" => c = Bsp)
    BY PcFacts DEF Top
  <2>5. KeepsWheel(c) /\ ~Parked(c)'
    BY <2>1, <2>3, <2>4, ZenonT(30) DEF KeepsWheel, Parked
  <2>6. x \in Pids
    BY DispatchStates, ZenonT(30)
  <2> QED
    BY <2>1, <2>2, <2>5, <2>6, ZenonT(30)
<1>2. CASE Reap(c, x)
  <2>1. Calm
    BY <1>1, <1>2, ReapStates, ZenonT(30) DEF Calm
  <2>2. deadline' = [deadline EXCEPT ![x] = NoDeadline]
    BY <1>2, ZenonT(30) DEF Reap, RecvDone
  <2> QED
    BY <1>1, <2>1, <2>2, AlarmedCalm, ZenonT(30)
<1>3. CASE ~Reap(c, x)
  <2>1. deadline' = deadline
    BY <1>3, ZenonT(30) DEF Dispatch, PostSwitch, recv_vars
  <2>2. ASSUME NEW p \in Pids, status'[p] = "Waiting" PROVE Sleeps(p)
    <3>1. CASE status[p] = "Waiting"
      BY <3>1, ZenonT(30) DEF Sleeps
    <3>2. CASE status[p] # "Waiting"
      <4>1. p = x /\ PostSwitch(c) /\ status[x] = "Running" /\ Deferred(c) = "Waiting"
        BY <1>1, <1>3, <2>2, <3>2, ZenonT(30) DEF Dispatch, PostSwitch, table_vars, TypeInv, TypeOK, TableOK
      <4>2. Parked(c)
        BY <4>1, ZenonT(30) DEF Deferred, PostSwitch, Parked
      <4> QED
        BY <4>1, <4>2, ZenonT(30) DEF Sleeps
    <3> QED
      BY <3>1, <3>2, ZenonT(30)
  <2>3. ASSUME NEW d \in Cores, Parked(d), status'[cur[d]] = "Running", d # c PROVE status[cur[d]] = "Running"
    <3>1. pc[d] \in Owning /\ cur[d] \in Pids
      BY <2>3, PcFacts, ZenonT(30) DEF Parked, TypeInv, CurOK
    <3>2. CASE Dispatch(c)
      <4>1. cur[d] # x
        BY <2>3, <3>1, <3>2, ZenonT(30) DEF Dispatch, Settled, Owns
      <4> QED
        BY <1>1, <1>3, <2>3, <3>1, <3>2, <4>1, ZenonT(30) DEF Dispatch, table_vars, TypeInv, TypeOK, TableOK
    <3>3. CASE PostSwitch(c)
      <4>1. Deferred(c) # "Running"
        BY ZenonT(30) DEF Deferred
      <4> QED
        BY <1>1, <1>3, <2>3, <3>1, <3>3, <4>1, ZenonT(30) DEF PostSwitch, TypeInv, TypeOK, TableOK
    <3> QED
      BY <3>2, <3>3, ZenonT(30)
  <2>4. ASSUME NEW d \in Cores, Parked(d)' PROVE d # c /\ Parked(d) /\ cur'[d] = cur[d]
    BY <1>1, <2>4, ZenonT(30) DEF StepOf, Parked
  <2>5. ASSUME NEW p \in Pids, Sleeps(p)' PROVE Sleeps(p)
    <3>1. CASE status'[p] = "Waiting"
      BY <2>2, <3>1, ZenonT(30)
    <3>2. CASE status'[p] # "Waiting"
      <4>1. PICK d \in Cores : Parked(d)' /\ cur'[d] = p /\ status'[p] = "Running"
        BY <2>5, <3>2, ZenonT(30) DEF Sleeps
      <4>2. d # c /\ Parked(d) /\ cur[d] = p
        BY <2>4, <4>1, ZenonT(30)
      <4> QED
        BY <2>3, <4>1, <4>2, ZenonT(30) DEF Sleeps
    <3> QED
      BY <3>1, <3>2, ZenonT(30)
  <2>6. NoneSleeps
    BY <2>1, <2>5, ZenonT(30) DEF NoneSleeps
  <2> QED
    BY <1>1, <2>6, AlarmedStep, ZenonT(30)
<1> QED
  BY <1>2, <1>3, ZenonT(30)

\* recv_where arms the timer before the deferred block.
LEMMA AlarmedPark ==
  ASSUME TypeInv, Alarmed, NEW c \in Cores, Park(c)
  PROVE  Alarmed'
<1>1. /\ UNCHANGED <<status, cur, due, deadline>> /\ wheel' = wheel \cup TimerOf(cur[c])
      /\ StepOf(c) /\ pc'[c] = "switch" /\ pc[c] = "park"
  BY GotoStep, ZenonT(30) DEF Park, Goto, table_vars, recv_vars, TypeInv, TypeOK, CoreOK
<1>2. ASSUME NEW p \in Pids, Sleeps(p)', deadline'[p] # NoDeadline PROVE Armed(p)'
  <2>1. CASE p = cur[c]
    <3>1. <<deadline[p], p>> \in wheel' /\ deadline[p] \in Nat
      BY <1>1, <1>2, <2>1, ZenonT(30) DEF TimerOf, TypeInv, TypeOK, FrameOK
    <3>2. deadline[p] <= deadline[p]
      BY <3>1
    <3>3. <<deadline[p], p>>[1] = deadline[p] /\ <<deadline[p], p>>[2] = p
      BY ZenonT(30)
    <3> QED
      BY <1>1, <3>1, <3>2, <3>3, ZenonT(30) DEF Armed
  <2>2. CASE p # cur[c]
    <3>1. Sleeps(p)
      BY <1>1, <1>2, <2>2, ZenonT(30) DEF Sleeps, Parked, StepOf
    <3>2. Armed(p)
      BY <1>1, <1>2, <3>1, ZenonT(30) DEF Alarmed
    <3> QED
      BY <1>1, <3>2, ZenonT(30) DEF Armed
  <2> QED
    BY <2>1, <2>2, ZenonT(30)
<1>3. ASSUME NEW d \in Cores PROVE /\ pc'[d] \in {"top", "wheel"} => d = Bsp
                                   /\ pc[d] = "wheel" => pc'[d] = "wheel"
  BY <1>1, ZenonT(30) DEF StepOf, Alarmed
<1>4. pc'[Bsp] # "wheel" => due' = {}
  BY <1>1, <1>3, BspIsCore, ZenonT(30) DEF Alarmed, Bsp
<1> QED
  BY <1>2, <1>3, <1>4, ZenonT(30) DEF Alarmed

\* check_wheel: what it takes from the wheel it wakes or puts back.
LEMMA AlarmedCheck ==
  ASSUME TypeInv, Alarmed, NEW c \in Cores, CheckWheel(c)
  PROVE  Alarmed'
<1>1. /\ pc[c] = "top" /\ UNCHANGED <<status, cur, post_switch, new, deadline>>
      /\ due' = {p \in Pids : <<0, p>> \in wheel} /\ wheel' = {e \in wheel : e[1] > 0}
      /\ Goto(c, IF due' = {} THEN "pop" ELSE "wheel")
  BY ZenonT(30) DEF CheckWheel, table_vars, recv_vars, local_vars
<1>2. c = Bsp /\ due = {} /\ StepOf(c) /\ pc'[c] = IF due' = {} THEN "pop" ELSE "wheel"
  <2>1. c = Bsp
    BY <1>1, ZenonT(30) DEF Alarmed
  <2> QED
    BY <1>1, <2>1, GotoStep, ZenonT(30) DEF Alarmed, Goto, TypeInv, TypeOK, CoreOK
<1>3. ASSUME NEW p \in Pids, Sleeps(p)', deadline'[p] # NoDeadline PROVE Armed(p)'
  <2>1. Sleeps(p)
    BY <1>1, <1>2, <1>3, Still, CalmSleeps, ZenonT(30) DEF Parked
  <2>2. PICK e \in wheel : e[2] = p /\ (e[1] <= deadline[p] \/ e[1] <= 1)
    BY <1>1, <1>2, <1>3, <2>1, ZenonT(30) DEF Alarmed, Armed
  <2>3. e = <<e[1], p>> /\ e[1] \in Nat
    BY <2>2 DEF TypeInv, TypeOK, TimerOK
  <2>4. CASE e[1] = 0
    BY <1>1, <2>3, <2>4, ZenonT(30) DEF Armed
  <2>5. CASE e[1] # 0
    <3>1. e \in wheel'
      BY <1>1, <2>3, <2>5
    <3> QED
      BY <1>1, <2>2, <3>1, ZenonT(30) DEF Armed
  <2> QED
    BY <2>4, <2>5, ZenonT(30)
<1>4. \A d \in Cores : pc'[d] \in {"top", "wheel"} => d = Bsp
  BY <1>2, ZenonT(30) DEF StepOf, Alarmed
<1> QED
  BY <1>2, <1>3, <1>4, ZenonT(30) DEF Alarmed

LEMMA AlarmedWake ==
  ASSUME TypeInv, Alarmed, NEW c \in Cores, WakeSleepers(c)
  PROVE  Alarmed'
<1>1. /\ pc[c] = "wheel" /\ UNCHANGED <<cur, post_switch, new, deadline>> /\ due' = {} /\ Goto(c, "pop")
      /\ wheel' = wheel \cup Rearmed({p \in due : status[p] = "Running"})
      /\ status' = [p \in Pids |-> IF p \in {q \in due : status[q] = "Waiting"} THEN "Runnable" ELSE status[p]]
  BY ZenonT(30) DEF WakeSleepers, recv_vars, local_vars
<1>2. c = Bsp /\ StepOf(c) /\ pc'[c] = "pop"
  BY <1>1, GotoStep, ZenonT(30) DEF Alarmed, Goto, TypeInv, TypeOK, CoreOK
<1>3. ASSUME NEW p \in Pids, Sleeps(p)', deadline'[p] # NoDeadline PROVE Armed(p)'
  <2>1. Calm
    BY <1>1, ZenonT(30) DEF Calm
  <2>2. Sleeps(p) /\ Armed(p)
    BY <1>1, <1>2, <1>3, <2>1, CalmSleeps, ZenonT(30) DEF Parked, Alarmed
  <2>3. CASE p \in due
    <3>1. status[p] = "Running"
      BY <1>1, <1>3, <2>2, <2>3, ZenonT(30) DEF Sleeps
    <3>2. <<1 - lag, p>> \in wheel'
      BY <1>1, <2>3, <3>1, ZenonT(30) DEF Rearmed
    <3>3. <<1 - lag, p>>[1] <= 1 /\ <<1 - lag, p>>[2] = p
      BY DEF TypeInv, TypeOK, TimerOK
    <3> QED
      BY <3>2, <3>3, ZenonT(30) DEF Armed
  <2>4. CASE p \notin due
    BY <1>1, <2>2, <2>4, ZenonT(30) DEF Armed
  <2> QED
    BY <2>3, <2>4, ZenonT(30)
<1>4. \A d \in Cores : pc'[d] \in {"top", "wheel"} => d = Bsp
  BY <1>2, ZenonT(30) DEF StepOf, Alarmed
<1> QED
  BY <1>1, <1>3, <1>4, ZenonT(30) DEF Alarmed

\* The clock of the BSP: timers and deadlines come closer together.
LEMMA Earlier ==
  ASSUME NEW a \in Nat, NEW d \in Nat, a <= d \/ a <= 1
  PROVE  \/ (IF a = 0 THEN 0 ELSE a - 1) <= (IF d > 0 THEN d - 1 ELSE d)
         \/ (IF a = 0 THEN 0 ELSE a - 1) <= 1
OBVIOUS

LEMMA AlarmedTick ==
  ASSUME TypeInv, Alarmed, NEW c \in Cores, Tick(c), c = Bsp
  PROVE  Alarmed'
<1>1. /\ UNCHANGED <<status, cur, new, post_switch, due>> /\ Goto(c, AfterInterrupt(c))
      /\ wheel' = {<<IF e[1] = 0 THEN 0 ELSE e[1] - 1, e[2]>> : e \in wheel}
      /\ deadline' = [p \in Pids |-> IF deadline[p] > 0 THEN deadline[p] - 1 ELSE deadline[p]]
  BY ZenonT(30) DEF Tick, table_vars
<1>2. StepOf(c) /\ (pc'[c] = pc[c] \/ (pc'[c] = "woken" /\ pc[c] = "halted"))
  BY <1>1, GotoStep, ZenonT(30) DEF Goto, AfterInterrupt, TypeInv, TypeOK, CoreOK
<1>3. KeepsWheel(c) /\ (Parked(c)' => Parked(c))
  BY <1>1, <1>2, ZenonT(30) DEF KeepsWheel, Parked, Alarmed
<1>4. ASSUME NEW p \in Pids, Sleeps(p)', deadline'[p] # NoDeadline PROVE Armed(p)'
  <2>1. Sleeps(p)
    BY <1>1, <1>2, <1>3, <1>4, Still, CalmSleeps, ZenonT(30)
  <2>2. deadline'[p] = (IF deadline[p] > 0 THEN deadline[p] - 1 ELSE deadline[p])
    BY <1>1, ZenonT(30)
  <2>3. deadline[p] \in Nat
    BY <1>4, <2>2 DEF TypeInv, TypeOK, FrameOK, NoDeadline
  <2>4. deadline[p] # NoDeadline
    BY <2>3 DEF NoDeadline
  <2>5. CASE p \in due
    BY <1>1, <2>5, ZenonT(30) DEF Armed
  <2>6. CASE p \notin due
    <3>1. PICK e \in wheel : e[2] = p /\ (e[1] <= deadline[p] \/ e[1] <= 1)
      BY <2>1, <2>4, <2>6, ZenonT(30) DEF Alarmed, Armed
    <3>2. e[1] \in Nat
      BY <3>1, SMTT(30) DEF TypeInv, TypeOK, TimerOK
    <3> DEFINE a == IF e[1] = 0 THEN 0 ELSE e[1] - 1
    <3>3. a <= deadline'[p] \/ a <= 1
      BY <2>2, <2>3, <3>1, <3>2, Earlier, SMTT(30)
    <3>4. <<a, p>> \in wheel'
      BY <1>1, <3>1, ZenonT(30)
    <3> HIDE DEF a
    <3>5. <<a, p>>[1] = a /\ <<a, p>>[2] = p
      BY ZenonT(30)
    <3> QED
      BY <3>3, <3>4, <3>5, ZenonT(30) DEF Armed
  <2> QED
    BY <2>5, <2>6, ZenonT(30)
<1>5. ASSUME NEW d \in Cores PROVE /\ pc'[d] \in {"top", "wheel"} => d = Bsp
                                   /\ pc[d] = "wheel" => pc'[d] = "wheel"
  BY <1>2, <1>3, ZenonT(30) DEF StepOf, KeepsWheel, Alarmed
<1>6. pc'[Bsp] # "wheel" => due' = {}
  BY <1>1, <1>5, BspIsCore, ZenonT(30) DEF Alarmed, Bsp
<1> QED
  BY <1>4, <1>5, <1>6, ZenonT(30) DEF Alarmed

LEMMA AlarmedNext == TypeInv /\ Settled /\ Blocked /\ Alarmed /\ [Next]_vars => Alarmed'
<1> SUFFICES ASSUME TypeInv, Settled, Blocked, Alarmed, [Next]_vars PROVE Alarmed'
  OBVIOUS
<1>1. ASSUME NEW c \in Cores, Scheduler(c) PROVE Alarmed'
  BY <1>1, AlarmedCheck, AlarmedWake, AlarmedWalks, AlarmedDispatch, AlarmedLeave, ZenonT(30) DEF Scheduler
<1>2. ASSUME NEW c \in Cores, InKernel(c) PROVE Alarmed'
  <2>1. "error" \in Reasons
    BY DEF Reasons
  <2> QED
    BY <1>2, <2>1, AlarmedWalks, AlarmedLeave, AlarmedPark, ZenonT(30) DEF InKernel
<1>3. ASSUME NEW c \in Cores, Body(c) PROVE Alarmed'
  BY <1>3, AlarmedWalks, AlarmedStay, AlarmedLeave, AlarmedCall, ZenonT(30) DEF Body
<1>4. CASE UNCHANGED vars
  BY <1>4, ZenonT(30)
     DEF vars, table_vars, recv_vars, core_vars, local_vars, timer_vars, Alarmed, Sleeps, Armed, Parked
<1> QED
  BY <1>1, <1>2, <1>3, <1>4, AlarmedStay, AlarmedTick, AlarmedLeave, ZenonT(30) DEF Next

LEMMA AlarmedInit == Init => Alarmed
<1> SUFFICES ASSUME Init PROVE Alarmed
  OBVIOUS
<1>1. \A c \in Cores : pc[c] = Top(c) /\ due = {}
  BY ZenonT(30) DEF Init
<1>2. \A c \in Cores : pc[c] \in {"top", "pop"} /\ (pc[c] = "top" => c = Bsp)
  BY <1>1, ZenonT(30) DEF Top
<1>3. \A p \in Pids : status[p] \in {"Runnable", "none"}
  BY ZenonT(30) DEF Init
<1> QED
  BY <1>1, <1>2, <1>3, BspIsCore, ZenonT(30) DEF Alarmed, Sleeps
=============================================================================

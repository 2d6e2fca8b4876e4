-------------------------------- MODULE Proc --------------------------------
(***************************************************************************)
(* The process runtime of kernel/src/proc.rs: the process table, the       *)
(* per-core run queues with work stealing, deferred state transitions,     *)
(* kill_pending, links and monitors, selective receive and the timer       *)
(* wheel, as the scheduler loops of NCores cores interleave.               *)
(*                                                                         *)
(* One action is one critical section of TABLE, WHEEL, a run queue or      *)
(* MONITOR_AT_SPAWN, or one step a core takes between two of them.  A push *)
(* onto a run queue made while TABLE is held belongs to the TABLE section: *)
(* whoever pops the entry needs TABLE before it can act on it.             *)
(*                                                                         *)
(* Abstractions.  A pid is any pid not used before (NEXT_PID only has to   *)
(* be fresh).  A message is its kind, or a DOWN.  A predicate is the set   *)
(* of kinds it accepts.  Time is relative: a deadline is the number of     *)
(* ticks left, and a deadline that has passed is 0.  Whether a copy into   *)
(* the receiver's heap hits HeapFull is a choice; how often the heap can   *)
(* still grow is counted.  Ops names what the process bodies of an         *)
(* instance do.                                                            *)
(***************************************************************************)
EXTENDS Integers, Sequences, FiniteSets, Functions

CONSTANTS
  NCores,     \* cores are 0 .. NCores-1; core 0 is the BSP
  Pids,       \* the pids that may be handed out
  Root,       \* the process kmain spawns before it enters run()
  NoPid,      \* no process (pid 0)
  Kinds,      \* kinds of ordinary messages
  Preds,      \* predicates: sets of accepted kinds ("DOWN" included)
  Timeouts,   \* timeouts, in ticks, a receive may be given
  MaxMail,    \* bound on a mailbox, for ordinary senders
  MaxRef,     \* bound on the monitor references handed out
  MaxGrow,    \* spans a heap can add before it meets its quota
  Ops         \* operations the process bodies perform

Cores == 0 .. NCores - 1
Bsp == 0
Refs == 1 .. MaxRef
NoRef == 0
NoDeadline == -1
Reasons == {"normal", "error"}
Msgs == {<<k>> : k \in Kinds}
        \cup {<<"DOWN", r, y>> : r \in Refs, y \in Reasons \cup {"noproc"}}

ASSUME CoresAssumption == NCores \in Nat \ {0}
ASSUME PidsAssumption == IsFiniteSet(Pids) /\ Root \in Pids /\ NoPid \notin Pids
ASSUME BoundsAssumption == /\ MaxMail \in Nat /\ MaxRef \in Nat /\ MaxGrow \in Nat
                           /\ Timeouts \subseteq Nat

VARIABLES
  \* TABLE: one entry per process
  status,       \* State, or "none" (unused), "alloc" (pid taken), "gone" (reaped)
  kill_pending, exit_reason, links, monitors, mailbox,
  grown,        \* spans added to the heap
  \* the frame of recv_where, kept on the process's stack
  receiving, want, deadline,
  \* per core
  runq, pc, cur, scan, post_switch, preempt,
  wake,         \* a wake IPI is latched in the core's LAPIC
  new,          \* locals of spawn_monitor and spawn_inner
  \* timers
  wheel, due, lag,
  \* monitors
  monitor_at_spawn, next_ref,
  \* stacks mapped for a process, and what was asked of monitors
  mapped, asked, downs

heap_vars == <<grown>>
recv_vars == <<receiving, want, deadline>>
timer_vars == <<wheel, due, lag>>
ref_vars == <<monitor_at_spawn, next_ref, asked>>
aux_vars == <<mapped, downs>>
table_vars == <<status, kill_pending, exit_reason, links, monitors, mailbox>>
queue_vars == <<runq, wake>>
local_vars == <<cur, scan, post_switch, preempt, new>>
core_vars == <<pc, local_vars>>
vars == <<table_vars, heap_vars, recv_vars, queue_vars, core_vars, timer_vars,
          ref_vars, aux_vars>>

Present == {"Runnable", "Running", "Waiting", "Dead"}
Alive == {"Runnable", "Running", "Waiting"}

\* The core runs on a process's stack, or is committed to.
OnStack == {"user", "spawn", "insert", "enqueue", "recv", "quota", "park", "switch"}
\* The core owns the process in cur: from the dispatch to the deferred transition.
Owning == OnStack \cup {"enter", "out"}
\* me.idle is set.
IdlePc == {"halting", "halted", "woken"}
Pcs == Owning \cup IdlePc
       \cup {"top", "wheel", "pop", "steal", "dispatch", "finalize"}

\* The head of the loop: only the BSP checks the wheel before it pops.
Top(c) == IF c = Bsp THEN "top" ELSE "pop"

NoNew == [pid |-> NoPid, ref |-> NoRef, link |-> FALSE, mons |-> {}]

TableOK ==
  /\ status \in [Pids -> Present \cup {"none", "alloc", "gone"}]
  /\ kill_pending \in [Pids -> BOOLEAN]
  /\ exit_reason \in [Pids -> Reasons]
  /\ links \in [Pids -> SUBSET Pids]
  /\ monitors \in [Pids -> SUBSET (Refs \X Pids)]
  /\ mailbox \in [Pids -> Seq(Msgs)]
  /\ grown \in [Pids -> 0 .. MaxGrow]

FrameOK ==
  /\ receiving \in SUBSET Pids
  /\ want \in [Pids -> Preds \cup {{}}]
  /\ deadline \in [Pids -> Nat \cup {NoDeadline}]

QueueOK ==
  /\ runq \in [Cores -> Seq(Pids)]
  /\ wake \in [Cores -> BOOLEAN]

CoreOK ==
  /\ pc \in [Cores -> Pcs]
  /\ cur \in [Cores -> Pids \cup {NoPid}]
  /\ scan \in [Cores -> Cores]
  /\ post_switch \in [Cores -> 0 .. 2]
  /\ preempt \in [Cores -> BOOLEAN]
  /\ new \in [Cores -> [pid : Pids \cup {NoPid}, ref : Refs \cup {NoRef},
                        link : BOOLEAN, mons : SUBSET (Refs \X Pids)]]

TimerOK ==
  /\ wheel \in SUBSET (Nat \X Pids)
  /\ due \in SUBSET Pids
  /\ lag \in 0 .. 1

RefOK ==
  /\ monitor_at_spawn \in SUBSET (Refs \X Pids)
  /\ next_ref \in 1 .. MaxRef + 1
  /\ mapped \in SUBSET Pids
  /\ asked \in [Refs -> (Pids \X Pids) \cup {<<>>}]
  /\ downs \in [Refs -> Nat]

\* Every variable has the type of the Rust value it stands for; in particular a
\* heap never grows past its quota (ProcHeap::grow).
TypeOK == TableOK /\ FrameOK /\ QueueOK /\ CoreOK /\ TimerOK /\ RefOK

\* kmain: every core is in its scheduler loop and one process is spawned.
Init ==
  /\ status = [p \in Pids |-> IF p = Root THEN "Runnable" ELSE "none"]
  /\ kill_pending = [p \in Pids |-> FALSE]
  /\ exit_reason = [p \in Pids |-> "normal"]
  /\ links = [p \in Pids |-> {}]
  /\ monitors = [p \in Pids |-> {}]
  /\ mailbox = [p \in Pids |-> <<>>]
  /\ grown = [p \in Pids |-> 0]
  /\ receiving = {}
  /\ want = [p \in Pids |-> {}]
  /\ deadline = [p \in Pids |-> NoDeadline]
  /\ runq = [c \in Cores |-> IF c = Bsp THEN <<Root>> ELSE <<>>]
  /\ pc = [c \in Cores |-> Top(c)]
  /\ cur = [c \in Cores |-> NoPid]
  /\ scan = [c \in Cores |-> 0]
  /\ post_switch = [c \in Cores |-> 0]
  /\ preempt = [c \in Cores |-> FALSE]
  /\ wake = [c \in Cores |-> FALSE]
  /\ new = [c \in Cores |-> NoNew]
  /\ wheel = {} /\ due = {} /\ lag = 0
  /\ monitor_at_spawn = {}
  /\ next_ref = 1
  /\ mapped = {Root}
  /\ asked = [r \in Refs |-> <<>>]
  /\ downs = [r \in Refs |-> 0]

-----------------------------------------------------------------------------
\* The sequences that hold each element of S once.
Orders(S) == Injection(1 .. Cardinality(S), S)

Without(s, i) == SubSeq(s, 1, i - 1) \o SubSeq(s, i + 1, Len(s))

-----------------------------------------------------------------------------
(* enqueue: push on this core's queue, then kick the first idle other core. *)

Goto(c, l) == pc' = [pc EXCEPT ![c] = l]

Kicked(c) ==
  LET idle == {d \in Cores : d # c /\ pc[d] \in IdlePc}
  IN  {d \in idle : \A e \in idle : d <= e}

\* enqueue(pid) for each pid of s in turn.
Enqueue(c, s) ==
  /\ runq' = [runq EXCEPT ![c] = @ \o s]
  /\ wake' = [d \in Cores |-> wake[d] \/ (s # <<>> /\ d \in Kicked(c))]

(* deliver_fragment: nothing for a process that is gone or Dead. *)
Deliver(c, to, m) ==
  /\ mailbox' = IF status[to] \in Alive
                THEN [mailbox EXCEPT ![to] = Append(@, m)] ELSE mailbox
  /\ status' = IF status[to] = "Waiting"
               THEN [status EXCEPT ![to] = "Runnable"] ELSE status
  /\ Enqueue(c, IF status[to] = "Waiting" THEN <<to>> ELSE <<>>)

(* mark_dead *)
\* Mutant: a Running process is treated like one that is off its core.
OffCpu_Running(p) == status[p] \in Alive

\* The states in which mark_dead turns a process Dead at once.
OffCpu(p) == status[p] \in {"Runnable", "Waiting"}

MarkDead(c, p, why) ==
  LET off == OffCpu(p)
      on  == status[p] = "Running" /\ ~kill_pending[p]
  IN  /\ status' = IF off THEN [status EXCEPT ![p] = "Dead"] ELSE status
      /\ kill_pending' = IF on THEN [kill_pending EXCEPT ![p] = TRUE] ELSE kill_pending
      /\ exit_reason' = IF on \/ off THEN [exit_reason EXCEPT ![p] = why] ELSE exit_reason
      /\ Enqueue(c, IF off THEN <<p>> ELSE <<>>)

\* The frame of recv_where is gone.
RecvDone(p) == /\ receiving' = receiving \ {p}
               /\ want' = [want EXCEPT ![p] = {}]
               /\ deadline' = [deadline EXCEPT ![p] = NoDeadline]

-----------------------------------------------------------------------------
(* reap: remove p, send DOWN to its monitors, then kill its links unless it *)
(* ended normally.  A removed entry has the default values.                *)

RefsOf(p, w) == {r \in Refs : <<r, w>> \in monitors[p]}

\* The DOWN references each process receives, in some order.
DownOrders(p) ==
  {f \in [Pids -> UNION {Orders(RefsOf(p, w)) : w \in Pids}] :
     \A w \in Pids : f[w] \in Orders(RefsOf(p, w))}

DownMsgs(s, why) == [i \in 1 .. Len(s) |-> <<"DOWN", s[i], why>>]

\* The watchers that get a DOWN, and those of them it wakes.
Watching(p) == {w \in Pids \ {p} : RefsOf(p, w) # {} /\ status[w] \in Alive}
Woken(p) == {w \in Watching(p) : status[w] = "Waiting"}

\* The processes mark_dead is called for: it turns those off their core Dead and
\* flags those on one.
Linked(p) == IF exit_reason[p] = "normal" THEN {} ELSE links[p] \ {p}
Slain(p) == {q \in Linked(p) : OffCpu(q)}

\* Mutant: exit signals miss the linked processes that are on a core.
Flagged_None(p) == {}

Flagged(p) == {q \in Linked(p) : status[q] = "Running" /\ ~kill_pending[q]}

Reap(c, p) ==
  LET why == exit_reason[p]
  IN  /\ status' = [q \in Pids |-> IF q = p THEN "gone"
                                   ELSE IF q \in Slain(p) THEN "Dead"
                                   ELSE IF q \in Woken(p) THEN "Runnable"
                                   ELSE status[q]]
      /\ kill_pending' = [q \in Pids |-> q # p /\ (kill_pending[q] \/ q \in Flagged(p))]
      /\ exit_reason' = [q \in Pids |-> IF q = p THEN "normal"
                                        ELSE IF q \in Slain(p) \cup Flagged(p) THEN why
                                        ELSE exit_reason[q]]
      /\ \E f \in DownOrders(p) :
           mailbox' = [q \in Pids |-> IF q \in Watching(p) THEN mailbox[q] \o DownMsgs(f[q], why)
                                      ELSE IF q = p THEN <<>> ELSE mailbox[q]]
      /\ downs' = [r \in Refs |-> IF \E w \in Watching(p) : <<r, w>> \in monitors[p]
                                  THEN downs[r] + 1 ELSE downs[r]]
      /\ monitors' = [monitors EXCEPT ![p] = {}]
      /\ links' = [links EXCEPT ![p] = {}]
      /\ grown' = [grown EXCEPT ![p] = 0]
      /\ RecvDone(p)
      /\ \E s \in Orders(Woken(p)), t \in Orders(Slain(p)) : Enqueue(c, s \o t)

-----------------------------------------------------------------------------
(* The scheduler loop: run. *)

\* check_wheel up to the release of WHEEL.
CheckWheel(c) ==
  /\ pc[c] = "top"
  /\ due' = {p \in Pids : <<0, p>> \in wheel}
  /\ wheel' = {e \in wheel : e[1] > 0}
  /\ lag' = 0
  /\ Goto(c, IF due' = {} THEN "pop" ELSE "wheel")
  /\ UNCHANGED <<table_vars, heap_vars, recv_vars, queue_vars, local_vars,
                 ref_vars, aux_vars>>

\* Mutant: a process caught while it is still Running is not tried again.
Rearmed_None(busy) == {}

\* The wheel entries for the next tick; lag tells that it has already passed.
Rearmed(busy) == {1 - lag} \X busy

\* check_wheel's TABLE section.
WakeSleepers(c) ==
  LET asleep == {p \in due : status[p] = "Waiting"}
      busy   == {p \in due : status[p] = "Running"}
  IN  /\ pc[c] = "wheel"
      /\ status' = [p \in Pids |-> IF p \in asleep THEN "Runnable" ELSE status[p]]
      /\ wheel' = wheel \cup Rearmed(busy)
      /\ due' = {}
      /\ \E s \in Orders(asleep) : Enqueue(c, s)
      /\ Goto(c, "pop")
      /\ UNCHANGED <<kill_pending, exit_reason, links, monitors, mailbox,
                     heap_vars, recv_vars, local_vars, lag, ref_vars,
                     aux_vars>>

\* The first core from v on that is not c.
Victim(c, v) == IF v = c THEN v + 1 ELSE v

\* The pop after pump, whose completions are Sends made at this point.
PopFront(c) ==
  /\ pc[c] = "pop"
  /\ IF runq[c] # <<>>
     THEN /\ cur' = [cur EXCEPT ![c] = Head(runq[c])]
          /\ runq' = [runq EXCEPT ![c] = Tail(@)]
          /\ Goto(c, "dispatch")
          /\ scan' = scan
     ELSE /\ Goto(c, IF Victim(c, 0) < NCores THEN "steal" ELSE "halting")
          /\ scan' = [scan EXCEPT ![c] = IF Victim(c, 0) < NCores THEN Victim(c, 0) ELSE 0]
          /\ UNCHANGED <<runq, cur>>
  /\ UNCHANGED <<table_vars, heap_vars, recv_vars, wake, post_switch, preempt,
                 new, timer_vars, ref_vars, aux_vars>>

\* Mutant: the back is read and not removed.
Stolen_Kept(q) == q

\* pop_back
Stolen(q) == SubSeq(q, 1, Len(q) - 1)

\* One step of the steal scan: the back of the next other core's queue.
Steal(c) ==
  LET v == scan[c]
      n == Victim(c, v + 1)
  IN  /\ pc[c] = "steal"
      /\ IF runq[v] # <<>>
         THEN /\ cur' = [cur EXCEPT ![c] = runq[v][Len(runq[v])]]
              /\ runq' = [runq EXCEPT ![v] = Stolen(@)]
              /\ Goto(c, "dispatch")
              /\ scan' = [scan EXCEPT ![c] = 0]
         ELSE /\ scan' = [scan EXCEPT ![c] = IF n < NCores THEN n ELSE 0]
              /\ Goto(c, IF n < NCores THEN "steal" ELSE "halting")
              /\ UNCHANGED <<runq, cur>>
      /\ UNCHANGED <<table_vars, heap_vars, recv_vars, wake, post_switch, preempt,
                     new, timer_vars, ref_vars, aux_vars>>

\* Idle: me.idle is set, then hlt.
Halt(c) ==
  /\ pc[c] = "halting"
  /\ Goto(c, "halted")
  /\ UNCHANGED <<table_vars, heap_vars, recv_vars, queue_vars, local_vars,
                 timer_vars, ref_vars, aux_vars>>

\* hlt has returned: me.idle is cleared.
Resume(c) ==
  /\ pc[c] = "woken"
  /\ Goto(c, Top(c))
  /\ UNCHANGED <<table_vars, heap_vars, recv_vars, queue_vars, local_vars,
                 timer_vars, ref_vars, aux_vars>>

\* The TABLE section after a pop: run it, reap it, or skip a stale entry.
Dispatch(c) ==
  LET p == cur[c]
  IN  /\ pc[c] = "dispatch"
      /\ \/ /\ status[p] = "Runnable"
            /\ status' = [status EXCEPT ![p] = "Running"]
            /\ Goto(c, "enter")
            /\ UNCHANGED <<kill_pending, exit_reason, links, monitors, mailbox,
                           heap_vars, recv_vars, queue_vars, cur, downs>>
         \/ /\ status[p] = "Dead"
            /\ Reap(c, p)
            /\ Goto(c, "finalize")
            /\ UNCHANGED cur
         \/ /\ status[p] \notin {"Runnable", "Dead"}
            /\ Goto(c, Top(c))
            /\ cur' = [cur EXCEPT ![c] = NoPid]
            /\ UNCHANGED <<table_vars, heap_vars, recv_vars, queue_vars, downs>>
      /\ UNCHANGED <<scan, post_switch, preempt, new, timer_vars,
                     ref_vars, mapped>>

\* Second look-up of the process, me.current, ctx::switch into it.
SwitchIn(c) ==
  /\ pc[c] = "enter"
  /\ Goto(c, IF cur[c] \in receiving THEN "recv" ELSE "user")
  /\ UNCHANGED <<table_vars, heap_vars, recv_vars, queue_vars, local_vars,
                 timer_vars, ref_vars, aux_vars>>

\* ctx::switch back: the context is saved, the core is in its scheduler again.
SwitchOut(c) ==
  /\ pc[c] = "switch"
  /\ Goto(c, "out")
  /\ UNCHANGED <<table_vars, heap_vars, recv_vars, queue_vars, local_vars,
                 timer_vars, ref_vars, aux_vars>>

\* Mutant: kill_pending is not looked at after the switch.
Doomed_DeadOnly(c) == status[cur[c]] = "Dead"

\* The process that switched out is to be reaped.
Doomed(c) == status[cur[c]] = "Dead" \/ (post_switch[c] # 0 /\ kill_pending[cur[c]])

\* Mutant: a message that raced in is not noticed.
Deferred_Blind(c) == IF post_switch[c] = 2 THEN "Waiting" ELSE "Runnable"

\* The state a Running process gets after its switch.
Deferred(c) ==
  IF post_switch[c] = 2 /\ mailbox[cur[c]] = <<>> THEN "Waiting" ELSE "Runnable"

\* Mutant: made Runnable and not queued.
Requeued_None(c) == <<>>

\* What the deferred transition queues.
Requeued(c) == IF Deferred(c) = "Runnable" THEN <<cur[c]>> ELSE <<>>

\* The deferred transition of the process that switched out, then its reap.
PostSwitch(c) ==
  LET p    == cur[c]
      move == post_switch[c] # 0 /\ status[p] = "Running"
  IN  /\ pc[c] = "out"
      /\ post_switch' = [post_switch EXCEPT ![c] = 0]
      /\ \/ /\ Doomed(c)
            /\ Reap(c, p)
            /\ Goto(c, "finalize")
            /\ UNCHANGED cur
         \/ /\ ~Doomed(c)
            /\ status' = IF move THEN [status EXCEPT ![p] = Deferred(c)] ELSE status
            /\ Enqueue(c, IF move THEN Requeued(c) ELSE <<>>)
            /\ Goto(c, Top(c))
            /\ cur' = [cur EXCEPT ![c] = NoPid]
            /\ UNCHANGED <<kill_pending, exit_reason, links, monitors, mailbox,
                           heap_vars, recv_vars, downs>>
      /\ UNCHANGED <<scan, preempt, new, timer_vars, ref_vars,
                     mapped>>

\* finalize: the stack is unmapped, heap spans are freed, ports are closed.
Finalize(c) ==
  /\ pc[c] = "finalize"
  /\ mapped' = mapped \ {cur[c]}
  /\ cur' = [cur EXCEPT ![c] = NoPid]
  /\ Goto(c, Top(c))
  /\ UNCHANGED <<table_vars, heap_vars, recv_vars, queue_vars, scan,
                 post_switch, preempt, new, timer_vars, ref_vars, downs>>

-----------------------------------------------------------------------------
(* Interrupts. *)

AfterInterrupt(c) == IF pc[c] = "halted" THEN "woken" ELSE pc[c]

\* timer_interrupt: every core preempts itself, the BSP advances the clock.
Tick(c) ==
  /\ preempt' = [preempt EXCEPT ![c] = TRUE]
  /\ Goto(c, AfterInterrupt(c))
  /\ IF c = Bsp
     THEN /\ wheel' = {<<IF e[1] = 0 THEN 0 ELSE e[1] - 1, e[2]>> : e \in wheel}
          /\ deadline' = [p \in Pids |-> IF deadline[p] > 0 THEN deadline[p] - 1
                                         ELSE deadline[p]]
          /\ lag' = IF pc[c] = "wheel" THEN 1 ELSE lag
     ELSE UNCHANGED <<wheel, deadline, lag>>
  /\ UNCHANGED <<table_vars, heap_vars, receiving, want, queue_vars, cur, scan,
                 post_switch, new, due, ref_vars, aux_vars>>

\* wake_interrupt: its only effect is to end a hlt.
WakeIpi(c) ==
  /\ wake[c]
  /\ wake' = [wake EXCEPT ![c] = FALSE]
  /\ Goto(c, AfterInterrupt(c))
  /\ UNCHANGED <<table_vars, heap_vars, recv_vars, runq, local_vars,
                 timer_vars, ref_vars, aux_vars>>

-----------------------------------------------------------------------------
(* What a running process does. *)

InBody(c, op) == pc[c] = "user" /\ op \in Ops

\* send from a process, or a completion that pump hands over with send_built.
Send(c, to, k) ==
  /\ "send" \in Ops /\ pc[c] \in {"user", "pop"}
  /\ status[to] \notin {"none", "alloc"} /\ Len(mailbox[to]) < MaxMail
  /\ Deliver(c, to, <<k>>)
  /\ UNCHANGED <<kill_pending, exit_reason, links, monitors, heap_vars,
                 recv_vars, core_vars, timer_vars, ref_vars, aux_vars>>

\* kill: purge and the supervisors of the self tests.
Kill(c, p) ==
  /\ InBody(c, "kill") /\ status[p] \notin {"none", "alloc"}
  /\ MarkDead(c, p, "error")
  /\ UNCHANGED <<links, monitors, mailbox, heap_vars, recv_vars, core_vars,
                 timer_vars, ref_vars, aux_vars>>

\* Mutant: a target that is gone is taken for one that can be watched.
Watchable_Always(p) == TRUE

\* monitor finds the target in the table and not Dead.
Watchable(p) == status[p] \in Alive

\* monitor: register, or answer at once with noproc.
Monitor(c, p) ==
  LET me == cur[c]
      r  == next_ref
  IN  /\ InBody(c, "monitor") /\ r <= MaxRef /\ status[p] \notin {"none", "alloc"}
      /\ next_ref' = r + 1
      /\ asked' = [asked EXCEPT ![r] = <<p, me>>]
      /\ IF Watchable(p)
         THEN /\ monitors' = [monitors EXCEPT ![p] = @ \cup {<<r, me>>}]
              /\ UNCHANGED <<status, mailbox, queue_vars, downs>>
         ELSE /\ Deliver(c, me, <<"DOWN", r, "noproc">>)
              /\ downs' = [downs EXCEPT ![r] = @ + 1]
              /\ UNCHANGED monitors
      /\ UNCHANGED <<kill_pending, exit_reason, links, heap_vars, recv_vars,
                     core_vars, timer_vars, monitor_at_spawn, mapped>>

\* The bound on pids: one is left for every core inside spawn_inner.
PidLeft == Cardinality({p \in Pids : status[p] = "none"})
             > Cardinality({d \in Cores : pc[d] = "spawn"})

\* spawn and spawn_link up to the call of spawn_inner.
Spawn(c, link) ==
  /\ InBody(c, IF link THEN "spawn_link" ELSE "spawn")
  /\ PidLeft
  /\ new' = [new EXCEPT ![c] = [pid |-> NoPid, ref |-> NoRef, link |-> link, mons |-> {}]]
  /\ Goto(c, "spawn")
  /\ UNCHANGED <<table_vars, heap_vars, recv_vars, queue_vars, cur, scan,
                 post_switch, preempt, timer_vars, ref_vars, aux_vars>>

\* spawn_monitor up to the call of spawn_inner: the static slot is replaced.
SpawnMonitor(c) ==
  /\ InBody(c, "spawn_monitor") /\ next_ref <= MaxRef
  /\ PidLeft
  /\ monitor_at_spawn' = {<<next_ref, cur[c]>>}
  /\ next_ref' = next_ref + 1
  /\ new' = [new EXCEPT ![c] = [pid |-> NoPid, ref |-> next_ref, link |-> FALSE, mons |-> {}]]
  /\ Goto(c, "spawn")
  /\ UNCHANGED <<table_vars, heap_vars, recv_vars, queue_vars, cur, scan,
                 post_switch, preempt, timer_vars, asked, aux_vars>>

\* spawn_inner: stack and pid, and whatever the static slot holds is taken.
SpawnTake(c, p) ==
  /\ pc[c] = "spawn" /\ status[p] = "none"
  /\ status' = [status EXCEPT ![p] = "alloc"]
  /\ mapped' = mapped \cup {p}
  /\ new' = [new EXCEPT ![c] = [pid |-> p, ref |-> new[c].ref, link |-> new[c].link,
                               mons |-> monitor_at_spawn]]
  /\ monitor_at_spawn' = {}
  /\ asked' = IF new[c].ref = NoRef THEN asked
              ELSE [asked EXCEPT ![new[c].ref] = <<p, cur[c]>>]
  /\ Goto(c, "insert")
  /\ UNCHANGED <<kill_pending, exit_reason, links, monitors, mailbox,
                 heap_vars, recv_vars, queue_vars, cur, scan, post_switch,
                 preempt, timer_vars, next_ref, downs>>

\* spawn_inner's TABLE section.
SpawnInsert(c) ==
  LET p  == new[c].pid
      me == cur[c]
  IN  /\ pc[c] = "insert"
      /\ status' = [status EXCEPT ![p] = "Runnable"]
      /\ monitors' = [monitors EXCEPT ![p] = new[c].mons]
      /\ links' = IF new[c].link /\ status[me] \in Present
                  THEN [links EXCEPT ![p] = {me}, ![me] = @ \cup {p}] ELSE links
      /\ Goto(c, "enqueue")
      /\ UNCHANGED <<kill_pending, exit_reason, mailbox, heap_vars, recv_vars,
                     queue_vars, local_vars, timer_vars, ref_vars, aux_vars>>

\* spawn_inner's last step, after TABLE is released.
SpawnEnqueue(c) ==
  /\ pc[c] = "enqueue"
  /\ Enqueue(c, <<new[c].pid>>)
  /\ new' = [new EXCEPT ![c] = NoNew]
  /\ Goto(c, "user")
  /\ UNCHANGED <<table_vars, heap_vars, recv_vars, cur, scan, post_switch,
                 preempt, timer_vars, ref_vars, aux_vars>>

\* Mutant: the quota is not looked at.
CanGrow_Always(p) == TRUE

\* ProcHeap::grow finds room under the quota.
CanGrow(p) == grown[p] < MaxGrow

\* alloc_retry and grow_current_heap: one more span.
Grow(c) ==
  /\ InBody(c, "grow") /\ CanGrow(cur[c])
  /\ grown' = [grown EXCEPT ![cur[c]] = @ + 1]
  /\ UNCHANGED <<table_vars, recv_vars, queue_vars, core_vars, timer_vars,
                 ref_vars, aux_vars>>

\* yield_now; safepoint calls it when the timer has asked for it.
Yield(c) ==
  /\ pc[c] = "user" /\ (preempt[c] \/ "yield" \in Ops)
  /\ \/ preempt[c] /\ preempt' = [preempt EXCEPT ![c] = FALSE]
     \/ "yield" \in Ops /\ UNCHANGED preempt
  /\ post_switch' = [post_switch EXCEPT ![c] = 1]
  /\ Goto(c, "switch")
  /\ UNCHANGED <<table_vars, heap_vars, recv_vars, queue_vars, cur, scan, new,
                 timer_vars, ref_vars, aux_vars>>

\* Mutant: a process that exits unmaps its own stack.
Exit_Unmaps(c, why) ==
  /\ (pc[c] = "quota" /\ why = "error") \/ InBody(c, "exit")
  /\ status' = [status EXCEPT ![cur[c]] = "Dead"]
  /\ exit_reason' = [exit_reason EXCEPT ![cur[c]] = why]
  /\ mapped' = mapped \ {cur[c]}
  /\ Goto(c, "switch")
  /\ UNCHANGED <<kill_pending, links, monitors, mailbox, heap_vars, recv_vars,
                 queue_vars, local_vars, timer_vars, ref_vars, downs>>

\* exit, called by the body or because recv_where met the quota.
Exit(c, why) ==
  /\ (pc[c] = "quota" /\ why = "error") \/ InBody(c, "exit")
  /\ status' = [status EXCEPT ![cur[c]] = "Dead"]
  /\ exit_reason' = [exit_reason EXCEPT ![cur[c]] = why]
  /\ Goto(c, "switch")
  /\ UNCHANGED <<kill_pending, links, monitors, mailbox, heap_vars, recv_vars,
                 queue_vars, local_vars, timer_vars, ref_vars, aux_vars>>

\* fatal_current from page_fault, in the body or where ctx::switch pushes.
Fatal(c) ==
  /\ "fatal" \in Ops /\ pc[c] \in {"user", "switch"}
  /\ status' = [status EXCEPT ![cur[c]] = "Dead"]
  /\ exit_reason' = [exit_reason EXCEPT ![cur[c]] = "error"]
  /\ Goto(c, "switch")
  /\ UNCHANGED <<kill_pending, links, monitors, mailbox, heap_vars, recv_vars,
                 queue_vars, local_vars, timer_vars, ref_vars, aux_vars>>

-----------------------------------------------------------------------------
(* recv_where *)

\* The call: the deadline is fixed once, before the loop.
RecvCall(c, k, t) ==
  LET p == cur[c]
  IN  /\ InBody(c, "recv") /\ k \in Preds /\ t \in Timeouts \cup {NoDeadline}
      /\ receiving' = receiving \cup {p}
      /\ want' = [want EXCEPT ![p] = k]
      /\ deadline' = [deadline EXCEPT ![p] = t]
      /\ Goto(c, "recv")
      /\ UNCHANGED <<table_vars, heap_vars, queue_vars, local_vars, timer_vars,
                     ref_vars, aux_vars>>

\* kill_pending is honoured before any message is taken.
RecvKilled(c) ==
  /\ pc[c] = "recv" /\ kill_pending[cur[c]]
  /\ status' = [status EXCEPT ![cur[c]] = "Dead"]
  /\ Goto(c, "switch")
  /\ UNCHANGED <<kill_pending, exit_reason, links, monitors, mailbox,
                 heap_vars, recv_vars, queue_vars, local_vars, timer_vars,
                 ref_vars, aux_vars>>

Accepts(p, m) == m[1] \in want[p]

\* The scan gets to index i: each message before it was rejected, or its copy
\* did not fit, the heap grew, and the loop went on to the next index.
Reaches(c, i, skipped) ==
  LET p == cur[c]
  IN  /\ ~kill_pending[p]
      /\ skipped # {} => "full" \in Ops
      /\ Cardinality(skipped) <= MaxGrow - grown[p]
      /\ \A j \in 1 .. i - 1 : j \in skipped \/ ~Accepts(p, mailbox[p][j])
      /\ grown' = [grown EXCEPT ![p] = @ + Cardinality(skipped)]

RecvMatch(c) ==
  LET p == cur[c]
  IN  /\ pc[c] = "recv"
      /\ \E i \in DOMAIN mailbox[p] : \E skipped \in SUBSET (1 .. i - 1) :
           /\ Reaches(c, i, skipped)
           /\ Accepts(p, mailbox[p][i])
           /\ mailbox' = [mailbox EXCEPT ![p] = Without(@, i)]
      /\ RecvDone(p)
      /\ Goto(c, "user")
      /\ UNCHANGED <<status, kill_pending, exit_reason, links, monitors,
                     queue_vars, cur, scan, post_switch, preempt, new,
                     timer_vars, ref_vars, aux_vars>>

\* A copy did not fit and the heap cannot grow: TABLE is released, then exit.
RecvQuota(c) ==
  /\ pc[c] = "recv" /\ "full" \in Ops
  /\ \E i \in DOMAIN mailbox[cur[c]] : \E skipped \in SUBSET (1 .. i - 1) :
       Reaches(c, i, skipped)
  /\ Goto(c, "quota")
  /\ UNCHANGED <<table_vars, recv_vars, queue_vars, local_vars, timer_vars,
                 ref_vars, aux_vars>>

NoMatch(c) ==
  /\ pc[c] = "recv"
  /\ LET n == Len(mailbox[cur[c]])
     IN  \E skipped \in SUBSET (1 .. n) : Reaches(c, n + 1, skipped)

\* Mutant: the deadline is not looked at again after a wake-up.
Expired_Never(p) == FALSE

\* ticks() >= deadline
Expired(p) == deadline[p] = 0

RecvTimeout(c) ==
  /\ NoMatch(c)
  /\ Expired(cur[c])
  /\ RecvDone(cur[c])
  /\ Goto(c, "user")
  /\ UNCHANGED <<table_vars, queue_vars, local_vars, timer_vars, ref_vars,
                 aux_vars>>

RecvBlock(c) ==
  /\ NoMatch(c)
  /\ ~Expired(cur[c])
  /\ Goto(c, "park")
  /\ UNCHANGED <<table_vars, recv_vars, queue_vars, local_vars, timer_vars,
                 ref_vars, aux_vars>>

\* The wheel entry of a receive with a deadline.
TimerOf(p) == IF deadline[p] = NoDeadline THEN {} ELSE {<<deadline[p], p>>}

\* TABLE is released: the wheel entry, then the deferred block.
Park(c) ==
  /\ pc[c] = "park"
  /\ wheel' = wheel \cup TimerOf(cur[c])
  /\ post_switch' = [post_switch EXCEPT ![c] = 2]
  /\ Goto(c, "switch")
  /\ UNCHANGED <<table_vars, heap_vars, recv_vars, queue_vars, cur, scan,
                 preempt, new, due, lag, ref_vars, aux_vars>>

-----------------------------------------------------------------------------
Scheduler(c) ==
  \/ CheckWheel(c) \/ WakeSleepers(c) \/ PopFront(c) \/ Steal(c)
  \/ Halt(c) \/ Resume(c) \/ Dispatch(c) \/ SwitchIn(c) \/ SwitchOut(c)
  \/ PostSwitch(c) \/ Finalize(c)

\* Steps of kernel code a running process is inside of.
InKernel(c) ==
  \/ \E p \in Pids : SpawnTake(c, p)
  \/ SpawnInsert(c) \/ SpawnEnqueue(c)
  \/ RecvKilled(c) \/ RecvMatch(c) \/ RecvQuota(c) \/ RecvTimeout(c) \/ RecvBlock(c)
  \/ Park(c) \/ (pc[c] = "quota" /\ Exit(c, "error"))

Body(c) ==
  \/ \E p \in Pids : Kill(c, p) \/ Monitor(c, p) \/ \E k \in Kinds : Send(c, p, k)
  \/ \E link \in BOOLEAN : Spawn(c, link)
  \/ SpawnMonitor(c)
  \/ Grow(c)
  \/ \E k \in Preds, t \in Timeouts \cup {NoDeadline} : RecvCall(c, k, t)
  \/ \E why \in Reasons : InBody(c, "exit") /\ Exit(c, why)
  \/ Fatal(c)

Next == \E c \in Cores : \/ Scheduler(c) \/ InKernel(c) \/ Body(c) \/ Yield(c)
                         \/ Tick(c) \/ WakeIpi(c)

Spec == Init /\ [][Next]_vars

\* Each core keeps executing, its timer keeps firing, and an IPI arrives.  Code
\* that loops passes a safepoint on every back edge, and the timer's request
\* stays until a safepoint consumes it: hence strong fairness of Yield.
Fairness == \A c \in Cores :
  /\ WF_vars(Scheduler(c)) /\ WF_vars(InKernel(c))
  /\ SF_vars(Yield(c)) /\ WF_vars(Tick(c)) /\ WF_vars(WakeIpi(c))

FairSpec == Spec /\ Fairness

-----------------------------------------------------------------------------
(* Properties. *)

\* Where a queue entry for p is: position i of a run queue, or (i = 0) in the
\* hands of a core that popped it or has yet to push it.
Holds(c, p) == \/ pc[c] = "dispatch" /\ cur[c] = p
               \/ pc[c] = "enqueue" /\ new[c].pid = p
Ticket(c, i, p) == \/ i = 0 /\ Holds(c, p)
                   \/ i \in 1 .. Len(runq[c]) /\ runq[c][i] = p
Places(c) == 0 .. Len(runq[c])
Queued(p) == \E c \in Cores : \E i \in Places(c) : Ticket(c, i, p)
AtMostOnce(p) == \A c, d \in Cores : \A i \in Places(c), j \in Places(d) :
                   Ticket(c, i, p) /\ Ticket(d, j, p) => c = d /\ i = j

Owns(c, p) == pc[c] \in Owning /\ cur[c] = p

\* A Runnable process is queued exactly once, wherever it is; a process that
\* runs, waits or is not yet in the table is queued nowhere; a Dead one that no
\* core owns is still queued, so it will be reaped.  (enqueue, mark_dead,
\* deliver_fragment, check_wheel, spawn_inner and the steal path of run.)
QueuedOnce ==
  \A p \in Pids :
    /\ status[p] = "Runnable" => Queued(p) /\ AtMostOnce(p)
    /\ status[p] \in {"none", "alloc", "Running", "Waiting"} => ~Queued(p)
    /\ status[p] = "Dead" => Queued(p) \/ \E c \in Cores : Owns(c, p)

\* A core that runs a process, or is switching from or to it, is the only one,
\* nothing queued can hand the process to another core, and it is still in the
\* table: no context is resumed twice, resumed stale, or reaped under the feet
\* of its core, and every unwrap of a look-up of current() succeeds.
SoleOwner ==
  /\ \A c \in Cores : pc[c] \in Owning =>
       /\ status[cur[c]] \in {"Running", "Dead"}
       /\ ~Queued(cur[c])
       /\ \A d \in Cores \ {c} : ~Owns(d, cur[c])
  /\ \A p \in Pids : status[p] = "Running" => \E c \in Cores : Owns(c, p)

\* finalize unmaps the stack of a process once, and only after no core can be
\* on it: a stack in use or to be used is mapped.
StackMappedWhileUsed ==
  /\ \A c \in Cores : pc[c] \in Owning \cup {"finalize"} => cur[c] \in mapped
  /\ \A p \in Pids : status[p] \in Present => p \in mapped
  /\ \A c, d \in Cores : (pc[c] = "finalize" /\ pc[d] = "finalize" /\ cur[c] = cur[d])
                           => c = d

\* No lost wakeup: a process is Waiting only inside recv_where and with an empty
\* mailbox, whatever raced with its block.
NoLostWakeup ==
  \A p \in Pids : status[p] = "Waiting" => p \in receiving /\ mailbox[p] = <<>>

\* A process that blocks with a deadline has a wheel entry no later than its
\* deadline, or than the next tick once the deadline has passed, or is on the
\* list check_wheel is about to wake.
SleeperHasTimer ==
  \A p \in Pids : (status[p] = "Waiting" /\ deadline[p] # NoDeadline) =>
    \/ p \in due
    \/ \E e \in wheel : e[2] = p /\ (e[1] <= deadline[p] \/ e[1] <= 1)

\* Every monitor ends in exactly one DOWN: none while the process it watches is
\* in the table and the registration stands, one after, unless the watcher
\* itself had died by then.
DownExactlyOnce ==
  \A r \in Refs : asked[r] # <<>> =>
    LET p == asked[r][1]
        w == asked[r][2]
    IN  \/ downs[r] = 0 /\ status[p] = "alloc"
        \/ downs[r] = 0 /\ status[p] \in Present /\ <<r, w>> \in monitors[p]
        \/ downs[r] = 1 /\ status[p] \in {"Dead", "gone"} /\ <<r, w>> \notin monitors[p]
        \/ downs[r] = 0 /\ status[p] = "gone" /\ status[w] \in {"Dead", "gone"}

\* Links: the reap of a process that ended abnormally leaves no process linked
\* to it that is alive and not marked for death.
LinkedDieTogether ==
  [][\A p \in Pids : (status[p] \in Present /\ status'[p] = "gone"
                       /\ exit_reason[p] # "normal") =>
       \A q \in links[p] : status'[q] \in {"Dead", "gone"} \/ kill_pending'[q]]_vars

\* spawn_monitor: when the child is about to become visible to the run queues
\* it carries the monitor its spawner asked for.
SpawnMonitorRegistered ==
  \A c \in Cores : (pc[c] = "enqueue" /\ new[c].ref # NoRef) =>
    <<new[c].ref, cur[c]>> \in monitors[new[c].pid]

\* Selective receive takes the first message that satisfies the predicate.
TakesFirstMatch ==
  [][\A p \in Pids : (status[p] = "Running" /\ Len(mailbox'[p]) < Len(mailbox[p])
                       /\ status'[p] = "Running")
       => \E i \in DOMAIN mailbox[p] :
            /\ Accepts(p, mailbox[p][i])
            /\ \A j \in 1 .. i - 1 : ~Accepts(p, mailbox[p][j])
            /\ mailbox'[p] = Without(mailbox[p], i)]_vars

\* A process that is killed, wherever it is, is reaped.
KilledIsReaped ==
  \A p \in Pids : (kill_pending[p] \/ status[p] = "Dead") ~> status[p] = "gone"

\* A process that is Runnable gets a core, or dies.
RunnableRuns ==
  \A p \in Pids : status[p] = "Runnable" ~> status[p] \in {"Running", "Dead", "gone"}

\* A receive with a deadline returns, or its process dies.
TimedReceiveReturns ==
  \A p \in Pids : (p \in receiving /\ deadline[p] # NoDeadline) ~> p \notin receiving
=============================================================================

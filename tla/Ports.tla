-------------------------------- MODULE Ports --------------------------------
(***************************************************************************)
(* The port runtime of kernel/src/ports.rs: processes open ports and       *)
(* submit to them, every core pumps completions into mailboxes, the UART   *)
(* interrupt and the network card bring input, owners die.                 *)
(*                                                                         *)
(* PORTS is held from PumpLock to PumpEnd; submit, open and close are one  *)
(* PORTS section each.  A submission queue is empty between sections: what *)
(* submit pushes it also drains.  The rings are the bounded queues that    *)
(* module Ring implements.  Received bytes and frames are not told apart;  *)
(* the result of an operation is not modelled.  pump clears PENDING and    *)
(* nothing reads it.                                                       *)
(*                                                                         *)
(* replies counts what was delivered.  Submitters leave at most Window     *)
(* requests of a port parked or unanswered: beyond N the rings drop some.  *)
(***************************************************************************)
EXTENDS Integers, Sequences, FiniteSets, SequencesExt

CONSTANTS
  NCores,    \* cores are 0 .. NCores-1
  Pids,      \* processes that may own ports
  Kinds,     \* kinds of ports: "serial", "net", and "sync" (blk, gpu, rng)
  MaxPort,   \* bound on the ports opened
  MaxTag,    \* bound on the submissions
  MaxInput,  \* bound on the bytes and on the frames that arrive
  N,         \* capacity of a completion queue and of pending_reads (64)
  RxSize,    \* capacity of SERIAL_RX (256)
  Window,    \* requests of a port a submitter leaves unanswered
  NoPid, NoCore

Cores == 0 .. NCores - 1
PortIds == 1 .. MaxPort
Tags == 1 .. MaxTag
Inputs == {"serial", "net"}

ASSUME PortsAssumption ==
  /\ NCores \in Nat \ {0} /\ MaxPort \in Nat /\ MaxTag \in Nat /\ MaxInput \in Nat
  /\ N \in Nat \ {0} /\ RxSize \in Nat \ {0} /\ Window \in Nat
ASSUME NamesAssumption ==
  NoPid \notin Pids /\ NoCore \notin Cores /\ Kinds \subseteq {"serial", "net", "sync"}

VARIABLES
  owner, kind,         \* of a port; NoPid when there is none
  pending_reads, cq,   \* of a port: tags of parked reads, tags completed
  next_port,
  input,               \* bytes in SERIAL_RX, frames in the network card
  arrived,             \* bytes and frames so far
  lock,                \* the core that holds PORTS
  pc, at, deliveries,  \* per core: place in pump, next port, completions taken
  alive, dying,        \* processes in the table, and reaped but not finalized
  replies,             \* how often each process was sent a reply
  next_tag, issued,    \* requests so far, and the port each was submitted to
  skips                \* requests that carry SKIP_CQE instead of their tag

port_vars == <<owner, kind, pending_reads, cq, next_port>>
input_vars == <<input, arrived>>
pump_vars == <<lock, pc, at, deliveries>>
proc_vars == <<alive, dying, replies>>
tag_vars == <<next_tag, issued, skips>>
vars == <<port_vars, input_vars, pump_vars, proc_vars, tag_vars>>

Open == {i \in PortIds : owner[i] # NoPid}

Init ==
  /\ owner = [i \in PortIds |-> NoPid] /\ kind = [i \in PortIds |-> "sync"]
  /\ pending_reads = [i \in PortIds |-> <<>>] /\ cq = [i \in PortIds |-> <<>>]
  /\ next_port = 1
  /\ input = [k \in Inputs |-> 0] /\ arrived = [k \in Inputs |-> 0]
  /\ lock = NoCore /\ pc = [c \in Cores |-> "idle"]
  /\ at = [c \in Cores |-> 0] /\ deliveries = [c \in Cores |-> <<>>]
  /\ alive = Pids /\ dying = {} /\ replies = [p \in Pids |-> [t \in Tags |-> 0]]
  /\ next_tag = 1 /\ issued = [t \in Tags |-> 0] /\ skips = {}

Goto(c, l) == pc' = [pc EXCEPT ![c] = l]

\* Ring::push with its result ignored.
Pushed(q, x) == IF Len(q) < N THEN Append(q, x) ELSE q

-----------------------------------------------------------------------------
(* Processes. *)

\* open
OpenPort(c, p, k) ==
  /\ pc[c] = "idle" /\ lock = NoCore /\ p \in alive /\ next_port <= MaxPort
  /\ owner' = [owner EXCEPT ![next_port] = p]
  /\ kind' = [kind EXCEPT ![next_port] = k]
  /\ next_port' = next_port + 1
  /\ UNCHANGED <<pending_reads, cq, input_vars, pump_vars, proc_vars, tag_vars>>

\* The requests to port i that are parked or whose reply has not come.
Unanswered(i) ==
  {t \in Tags : /\ issued[t] = i
                /\ \/ t \in Range(pending_reads[i])
                   \/ t \notin skips /\ replies[owner[i]][t] = 0}

\* Request t to port i, with a tag of its own or with SKIP_CQE.
Tagged(i, t, skip) ==
  /\ t = next_tag /\ t <= MaxTag /\ Cardinality(Unanswered(i)) < Window
  /\ next_tag' = t + 1 /\ issued' = [issued EXCEPT ![t] = i]
  /\ skips' = IF skip THEN skips \cup {t} ELSE skips

\* What a drain does with an operation that is complete at once.
Completed(i, t, skip) == IF skip THEN cq ELSE [cq EXCEPT ![i] = Pushed(@, t)]

\* submit of OP_READ to a serial or net port: the request is parked.
SubmitRead(c, i, t, skip) ==
  /\ pc[c] = "idle" /\ lock = NoCore /\ i \in Open /\ kind[i] \in Inputs
  /\ Tagged(i, t, skip)
  /\ pending_reads' = [pending_reads EXCEPT ![i] = Pushed(@, t)]
  /\ Goto(c, "pump")
  /\ UNCHANGED <<owner, kind, cq, next_port, input_vars, lock, at, deliveries, proc_vars>>

\* submit of OP_TRY_READ to a serial port: takes a byte if there is one.
SubmitTryRead(c, i, t, skip) ==
  /\ pc[c] = "idle" /\ lock = NoCore /\ i \in Open /\ kind[i] = "serial"
  /\ Tagged(i, t, skip)
  /\ input' = [input EXCEPT !["serial"] = IF @ = 0 THEN 0 ELSE @ - 1]
  /\ cq' = Completed(i, t, skip)
  /\ Goto(c, "pump")
  /\ UNCHANGED <<owner, kind, pending_reads, next_port, arrived, lock, at, deliveries, proc_vars>>

\* submit of any other operation: the device is polled to its end.
SubmitSync(c, i, t, skip) ==
  /\ pc[c] = "idle" /\ lock = NoCore /\ i \in Open
  /\ Tagged(i, t, skip)
  /\ cq' = Completed(i, t, skip)
  /\ Goto(c, "pump")
  /\ UNCHANGED <<owner, kind, pending_reads, next_port, input_vars, lock, at, deliveries,
                 proc_vars>>

\* reap of a process, and close_owned_by in its finalize.
Reap(p) ==
  /\ p \in alive
  /\ alive' = alive \ {p} /\ dying' = dying \cup {p}
  /\ UNCHANGED <<port_vars, input_vars, pump_vars, replies, tag_vars>>

\* Mutant: the ports of the process stay.
Closed_None(p) == {}

\* The ports retain drops.
Closed(p) == {i \in PortIds : owner[i] = p}

CloseOwnedBy(p) ==
  /\ p \in dying /\ lock = NoCore
  /\ dying' = dying \ {p}
  /\ owner' = [i \in PortIds |-> IF i \in Closed(p) THEN NoPid ELSE owner[i]]
  /\ cq' = [i \in PortIds |-> IF i \in Closed(p) THEN <<>> ELSE cq[i]]
  /\ pending_reads' = [i \in PortIds |-> IF i \in Closed(p) THEN <<>> ELSE pending_reads[i]]
  /\ UNCHANGED <<kind, next_port, input_vars, pump_vars, alive, replies, tag_vars>>

-----------------------------------------------------------------------------
(* pump, from the scheduler loop ("idle") or at the end of submit. *)

PumpLock(c) ==
  /\ pc[c] \in {"idle", "pump"} /\ lock = NoCore
  /\ lock' = c /\ at' = [at EXCEPT ![c] = 1]
  /\ Goto(c, "scan")
  /\ UNCHANGED <<port_vars, input_vars, deliveries, proc_vars, tag_vars>>

\* Mutant: the last byte or frame is left behind.
Matches_OffByOne(i) ==
  /\ i \in Open /\ kind[i] \in Inputs
  /\ pending_reads[i] # <<>> /\ input[kind[i]] > 1

\* A parked read of port i and input for it.
Matches(i) ==
  /\ i \in Open /\ kind[i] \in Inputs
  /\ pending_reads[i] # <<>> /\ input[kind[i]] > 0

\* Mutant: the read stays parked when it is completed.
Unparked_Kept(q) == q

Unparked(q) == Tail(q)

\* One turn of the loop that matches input with parked reads.
PumpMatch(c) ==
  LET i == at[c]
  IN  /\ pc[c] = "scan" /\ i \in PortIds /\ Matches(i)
      /\ input' = [input EXCEPT ![kind[i]] = @ - 1]
      /\ pending_reads' = [pending_reads EXCEPT ![i] = Unparked(@)]
      /\ cq' = [cq EXCEPT ![i] = Pushed(@, Head(pending_reads[i]))]
      /\ UNCHANGED <<owner, kind, next_port, arrived, pump_vars, proc_vars, tag_vars>>

\* The loop has ended: the port's completions are taken.
PumpDrain(c) ==
  LET i == at[c]
  IN  /\ pc[c] = "scan" /\ i \in PortIds /\ ~Matches(i)
      /\ deliveries' = [deliveries EXCEPT ![c] =
                          @ \o [k \in 1 .. Len(cq[i]) |-> <<owner[i], cq[i][k]>>]]
      /\ cq' = [cq EXCEPT ![i] = <<>>]
      /\ at' = [at EXCEPT ![c] = i + 1]
      /\ UNCHANGED <<owner, kind, pending_reads, next_port, input_vars, lock, pc, proc_vars,
                     tag_vars>>

\* Mutant: the completions taken are not delivered.
PumpEnd_Idle(c) ==
  /\ pc[c] = "scan" /\ at[c] > MaxPort
  /\ lock' = NoCore /\ at' = [at EXCEPT ![c] = 0]
  /\ Goto(c, "idle")
  /\ UNCHANGED <<port_vars, input_vars, deliveries, proc_vars, tag_vars>>

PumpEnd(c) ==
  /\ pc[c] = "scan" /\ at[c] > MaxPort
  /\ lock' = NoCore /\ at' = [at EXCEPT ![c] = 0]
  /\ Goto(c, "deliver")
  /\ UNCHANGED <<port_vars, input_vars, deliveries, proc_vars, tag_vars>>

\* deliver: send_built drops the reply of an owner that is gone.
Deliver(c) ==
  /\ pc[c] = "deliver"
  /\ IF deliveries[c] = <<>>
     THEN Goto(c, "idle") /\ UNCHANGED <<deliveries, replies>>
     ELSE LET d == Head(deliveries[c])
          IN  /\ replies' = IF d[1] \in alive
                            THEN [replies EXCEPT ![d[1]][d[2]] = @ + 1] ELSE replies
              /\ deliveries' = [deliveries EXCEPT ![c] = Tail(@)]
              /\ UNCHANGED pc
  /\ UNCHANGED <<port_vars, input_vars, lock, at, alive, dying, tag_vars>>

-----------------------------------------------------------------------------
\* SERIAL_RX.push, with its result ignored.
Stashed(n) == IF n < RxSize THEN n + 1 ELSE n

\* serial_rx_irq stashes a byte, or drops it when SERIAL_RX is full.
SerialRxIrq ==
  /\ arrived["serial"] < MaxInput /\ "serial" \in Kinds
  /\ arrived' = [arrived EXCEPT !["serial"] = @ + 1]
  /\ input' = [input EXCEPT !["serial"] = Stashed(@)]
  /\ UNCHANGED <<port_vars, pump_vars, proc_vars, tag_vars>>

\* A frame is in the card's receive queue (net_try_recv).
NetFrame ==
  /\ arrived["net"] < MaxInput /\ "net" \in Kinds
  /\ arrived' = [arrived EXCEPT !["net"] = @ + 1]
  /\ input' = [input EXCEPT !["net"] = @ + 1]
  /\ UNCHANGED <<port_vars, pump_vars, proc_vars, tag_vars>>

Pump(c) == PumpLock(c) \/ PumpMatch(c) \/ PumpDrain(c) \/ PumpEnd(c) \/ Deliver(c)

Next ==
  \/ \E c \in Cores :
       \/ Pump(c)
       \/ \E p \in Pids, k \in Kinds : OpenPort(c, p, k)
       \/ \E i \in PortIds, t \in Tags, skip \in BOOLEAN :
            \/ SubmitRead(c, i, t, skip) \/ SubmitTryRead(c, i, t, skip)
            \/ SubmitSync(c, i, t, skip)
  \/ \E p \in Pids : Reap(p) \/ CloseOwnedBy(p)
  \/ SerialRxIrq \/ NetFrame

Spec == Init /\ [][Next]_vars

\* Every core comes back to its scheduler loop and pumps, and a core that keeps
\* trying gets PORTS.
Fairness == \A c \in Cores : SF_vars(PumpLock(c)) /\ WF_vars(Pump(c))

FairSpec == Spec /\ Fairness

-----------------------------------------------------------------------------
\* Every variable has the type of what it stands for; no queue exceeds its ring.
TypeOK ==
  /\ owner \in [PortIds -> Pids \cup {NoPid}] /\ kind \in [PortIds -> {"serial", "net", "sync"}]
  /\ pending_reads \in [PortIds -> Seq(Tags)] /\ cq \in [PortIds -> Seq(Tags)]
  /\ \A i \in PortIds : Len(pending_reads[i]) <= N /\ Len(cq[i]) <= N
  /\ next_port \in 1 .. MaxPort + 1
  /\ input \in [Inputs -> Nat] /\ input["serial"] <= RxSize /\ arrived \in [Inputs -> Nat]
  /\ lock \in Cores \cup {NoCore}
  /\ pc \in [Cores -> {"idle", "pump", "scan", "deliver"}] /\ at \in [Cores -> 0 .. MaxPort + 1]
  /\ deliveries \in [Cores -> Seq(Pids \X Tags)]
  /\ alive \in SUBSET Pids /\ dying \in SUBSET Pids
  /\ replies \in [Pids -> [Tags -> Nat]]
  /\ next_tag \in 1 .. MaxTag + 1 /\ issued \in [Tags -> 0 .. MaxPort]
  /\ skips \in SUBSET Tags

\* Where request t to port i is: parked, completed, taken by a core's pump, or
\* answered.
Copies(i, t) ==
  Cardinality({k \in DOMAIN pending_reads[i] : pending_reads[i][k] = t})
  + Cardinality({k \in DOMAIN cq[i] : cq[i][k] = t})
  + Cardinality({<<c, k>> \in Cores \X (1 .. MaxTag) :
                    k \in DOMAIN deliveries[c] /\ deliveries[c][k][2] = t})
  + Cardinality({<<p, k>> \in Pids \X (1 .. MaxTag) : k <= replies[p][t]})

\* A request is in exactly one place from submit to reply: parked, completed, taken
\* by one core's pump or answered.  It is never doubled, by the drains or by pump and
\* deliver on several cores, and never lost while its port's owner lives, unless it
\* asked for no completion.  ("Parks until rx bytes arrive; completed by the pump.")
InOnePlace ==
  /\ TypeOK
  /\ \A t \in Tags : issued[t] # 0 =>
       /\ Copies(issued[t], t) <= 1
       /\ t \notin skips /\ owner[issued[t]] \in alive => Copies(issued[t], t) = 1

\* A port outlives the reap of its owner only until the owner's finalize, so
\* nothing is parked for, or polled in on behalf of, a process that is gone.
NoOrphanPort == \A i \in Open : owner[i] \in alive \cup dying

\* A completed request is answered, unless the owner dies.
CompletionArrives ==
  \A i \in PortIds, t \in Tags, p \in Pids :
    (owner[i] = p /\ t \in Range(cq[i])) ~> (p \notin alive \/ replies[p][t] > 0)

\* The oldest parked read is answered once there is input, unless the owner dies
\* or something else takes the input.
ReadIsAnswered ==
  \A i \in PortIds, t \in Tags, p \in Pids, k \in Inputs :
    (/\ owner[i] = p /\ kind[i] = k /\ input[k] > 0
     /\ pending_reads[i] # <<>> /\ pending_reads[i][1] = t)
      ~> (p \notin alive \/ replies[p][t] > 0 \/ input[k] = 0)
=============================================================================

------------------------------- MODULE Buffers -------------------------------
(***************************************************************************)
(* The buffer table of kernel/src/ports.rs.  BUFFERS and PINNED are two    *)
(* locks: buf_take and buf_pin are a section of each, in opposite orders,  *)
(* and other cores come in between.                                        *)
(*                                                                         *)
(* An attach (OP_CTRL_ATTACH) takes the command buffer and pins the        *)
(* backing one, then gives the device the backing's address; PORTS is held *)
(* all along, so one attach runs at a time.  Bytecode takes buffers with   *)
(* no lock of its own.  What a buffer holds is not modelled: reads, writes *)
(* in place and copies leave the table as it is.                           *)
(***************************************************************************)
EXTENDS Integers, FiniteSets

CONSTANTS
  NCores,   \* cores are 0 .. NCores-1
  MaxBuf,   \* bound on the buffers created
  NoBuf

Cores == 0 .. NCores - 1
Ids == 1 .. MaxBuf

ASSUME BufAssumption == NCores \in Nat \ {0} /\ MaxBuf \in Nat /\ NoBuf \notin Ids

VARIABLES
  bufs,           \* ids in BUFFERS
  pinned,         \* PINNED
  next_buf,
  device,         \* ids whose address the device was given
  taken,          \* how often each buffer was moved out
  pc,             \* per core: where it is
  id,             \* the buffer it takes or pins
  backing,        \* in an attach, the buffer to pin once the command is taken
  cmd             \* whether the take before the pin returned a command

vars == <<bufs, pinned, next_buf, device, taken, pc, id, backing, cmd>>

Init ==
  /\ bufs = {} /\ pinned = {} /\ next_buf = 1 /\ device = {}
  /\ taken = [b \in Ids |-> 0]
  /\ pc = [c \in Cores |-> "idle"] /\ id = [c \in Cores |-> NoBuf]
  /\ backing = [c \in Cores |-> NoBuf] /\ cmd = [c \in Cores |-> FALSE]

Goto(c, l) == pc' = [pc EXCEPT ![c] = l]

\* PORTS is free: no core is in an attach.
PortsFree == \A d \in Cores : backing[d] = NoBuf

\* buf_create, from bytecode or for the result of another operation: the id is
\* a fresh one.
BufCreate(c) ==
  /\ pc[c] = "idle" /\ next_buf <= MaxBuf
  /\ bufs' = bufs \cup {next_buf} /\ next_buf' = next_buf + 1
  /\ UNCHANGED <<pinned, device, taken, pc, id, backing, cmd>>

\* A call of buf_take with any id handed out so far, and OP_CTRL_ATTACH.
TakeCall(c, b) ==
  /\ pc[c] = "idle" /\ b < next_buf
  /\ id' = [id EXCEPT ![c] = b]
  /\ Goto(c, "check")
  /\ UNCHANGED <<bufs, pinned, next_buf, device, taken, backing, cmd>>

AttachCall(c, b, k) ==
  /\ pc[c] = "idle" /\ b < next_buf /\ k < next_buf /\ PortsFree
  /\ id' = [id EXCEPT ![c] = b] /\ backing' = [backing EXCEPT ![c] = k]
  /\ Goto(c, "check")
  /\ UNCHANGED <<bufs, pinned, next_buf, device, taken, cmd>>

\* Where buf_take returns to, with a buffer or without one.
Returned(c, got) ==
  IF backing[c] = NoBuf
  THEN /\ Goto(c, "idle") /\ id' = [id EXCEPT ![c] = NoBuf]
       /\ UNCHANGED cmd
  ELSE /\ Goto(c, "pin") /\ id' = [id EXCEPT ![c] = backing[c]]
       /\ cmd' = [cmd EXCEPT ![c] = got]

\* Mutant: buf_take does not look at PINNED.
IsPinned_Never(b) == FALSE

IsPinned(b) == b \in pinned

\* buf_take, the section of PINNED,
TakeCheck(c) ==
  /\ pc[c] = "check"
  /\ IF IsPinned(id[c])
     THEN Returned(c, FALSE)
     ELSE Goto(c, "remove") /\ UNCHANGED <<id, cmd>>
  /\ UNCHANGED <<bufs, pinned, next_buf, device, taken, backing>>

\* Mutant: the buffer is copied out and stays.
Removed_Not(b) == bufs

Removed(b) == bufs \ {b}

\* and of BUFFERS.
TakeRemove(c) ==
  /\ pc[c] = "remove"
  /\ bufs' = Removed(id[c])
  /\ taken' = IF id[c] \in bufs THEN [taken EXCEPT ![id[c]] = @ + 1] ELSE taken
  /\ Returned(c, id[c] \in bufs)
  /\ UNCHANGED <<pinned, next_buf, device, backing>>

\* The attach is over.
Attached(c) ==
  /\ Goto(c, "idle")
  /\ id' = [id EXCEPT ![c] = NoBuf] /\ backing' = [backing EXCEPT ![c] = NoBuf]
  /\ cmd' = [cmd EXCEPT ![c] = FALSE]

\* buf_pin, the section of BUFFERS: the address is read,
PinLook(c) ==
  /\ pc[c] = "pin"
  /\ IF id[c] \in bufs
     THEN Goto(c, "record") /\ UNCHANGED <<id, backing, cmd>>
     ELSE Attached(c)
  /\ UNCHANGED <<bufs, pinned, next_buf, device, taken>>

Recorded(b) == pinned \cup {b}

\* and of PINNED,
PinRecord(c) ==
  /\ pc[c] = "record"
  /\ pinned' = Recorded(id[c])
  /\ Goto(c, "give")
  /\ UNCHANGED <<bufs, next_buf, device, taken, id, backing, cmd>>

\* then, if there is a command, the device is given the address, and its
\* response, if there is one, is a new buffer.
Give(c) ==
  /\ pc[c] = "give"
  /\ device' = IF cmd[c] THEN device \cup {id[c]} ELSE device
  /\ \/ UNCHANGED <<bufs, next_buf>>
     \/ /\ cmd[c] /\ next_buf <= MaxBuf
        /\ bufs' = bufs \cup {next_buf} /\ next_buf' = next_buf + 1
  /\ Attached(c)
  /\ UNCHANGED <<pinned, taken>>

Next == \E c \in Cores :
  \/ BufCreate(c)
  \/ \E b \in Ids : TakeCall(c, b) \/ \E k \in Ids : AttachCall(c, b, k)
  \/ TakeCheck(c) \/ TakeRemove(c) \/ PinLook(c) \/ PinRecord(c) \/ Give(c)

Spec == Init /\ [][Next]_vars

-----------------------------------------------------------------------------
\* Every variable has the type of what it stands for, and only pinned buffers
\* are given to the device (buf_pin comes before gpu_ctrl).
TypeOK ==
  /\ bufs \in SUBSET Ids /\ pinned \in SUBSET Ids /\ device \in SUBSET pinned
  /\ next_buf \in 1 .. MaxBuf + 1 /\ taken \in [Ids -> Nat]
  /\ pc \in [Cores -> {"idle", "check", "remove", "pin", "record", "give"}]
  /\ id \in [Cores -> Ids \cup {NoBuf}] /\ backing \in [Cores -> Ids \cup {NoBuf}]
  /\ cmd \in [Cores -> BOOLEAN]

\* A buffer has one owner: it is moved out at most once, whoever races for it,
\* and is in the table until then.  (buf_take)
TakenOnce ==
  /\ TypeOK
  /\ \A b \in Ids : b < next_buf => taken[b] + (IF b \in bufs THEN 1 ELSE 0) = 1

\* Pinned buffers that no take has looked at PINNED too early for.
SafelyPinned ==
  {b \in pinned \cap bufs : \A c \in Cores : ~(pc[c] = "remove" /\ id[c] = b)}

\* A buffer that is pinned while no take is between its two sections stays in the
\* table for ever, whatever is taken or attached later.  (PINNED: "They live until
\* the kernel shuts the resource down (for now: forever".)
PinHolds == [][SafelyPinned \subseteq SafelyPinned']_vars

\* A buffer whose address the device holds is never moved out.  (PINNED: "the
\* device holds their guest physical address, so `buf_take` must never move them
\* out".)
PinnedStays == device \subseteq bufs
=============================================================================
